----------------------------- MODULE EncoderTest -----------------------------
(***************************************************************************)
(* vepu-test.c: encodes NumFrames synthetic frames through the V4L2        *)
(* interface, with one source buffer and one coded buffer that go back and *)
(* forth between the program and the driver.  The driver is external here: *)
(* it takes a job when both queues hold a buffer, and returns both, in     *)
(* either order, with a coded frame, an error with or without part of it,  *)
(* or nothing in the buffer.                                               *)
(***************************************************************************)
EXTENDS Integers, Sequences

CONSTANTS NumFrames,
          Stages        \* the calls before the loop, each of which may fail

(***************************************************************************)
(* src, cap: the two mapped buffers; "owner" is "program", "queued",       *)
(* "busy" (the job has it) or "done" (waits to be dequeued), and "image"   *)
(* is the number of the frame it shows, 0 for none.  "handed" are the      *)
(* frames given to fwrite(), "file" is what the file holds of them, 0 for  *)
(* one that did not get there whole.                                       *)
(***************************************************************************)
VARIABLES at, stage, frame, src, cap, errors, handed, file, torn, code

output == <<handed, file, torn>>
counts == <<stage, frame, errors, output>>
encoder == <<at, src, cap, code, counts>>

MappedBuffer == [owner |-> "program", image |-> 0, bytesused |-> 0, error |-> FALSE]

EncoderInit == /\ at = "setup" /\ stage = 0 /\ frame = 1
               /\ src = MappedBuffer /\ cap = MappedBuffer
               /\ errors = 0 /\ code = -1
               /\ handed = <<>> /\ file = <<>> /\ torn = FALSE

ExitWith(c) == at' = "exit" /\ code' = c

\* CHECK(): any call that fails ends the program; xioctl() repeats an
\* interrupted one.
CallFails == /\ at \in {"setup", "queue_source", "queue_coded", "take_coded", "take_source"}
             /\ ExitWith(1)
             /\ UNCHANGED <<src, cap, counts>>

Goto(a) == at' = a /\ UNCHANGED code

\* open, QUERYCAP, two S_FMT, REQBUFS, QUERYBUF and mmap for either queue,
\* the file, two STREAMON.
Setup == /\ at = "setup"
         /\ \/ stage < Stages /\ stage' = stage + 1 /\ Goto("setup")
            \/ stage = Stages /\ Goto("fill") /\ UNCHANGED stage
         /\ UNCHANGED <<src, cap, frame, errors, output>>

FillFrame == /\ at = "fill" /\ frame <= NumFrames
             /\ src' = [src EXCEPT !.image = frame]
             /\ Goto("queue_source")
             /\ UNCHANGED <<cap, counts>>

\* The driver refuses a buffer it already has: then only CallFails is left.
QueueSource == /\ at = "queue_source" /\ src.owner = "program"
               /\ src' = [src EXCEPT !.owner = "queued"]
               /\ Goto("queue_coded")
               /\ UNCHANGED <<cap, counts>>

QueueCoded == /\ at = "queue_coded" /\ cap.owner = "program"
              /\ cap' = [MappedBuffer EXCEPT !.owner = "queued"]
              /\ Goto("take_coded")
              /\ UNCHANGED <<src, counts>>

\* The driver's job.
JobStarts == /\ at # "exit" /\ src.owner = "queued" /\ cap.owner = "queued"
             /\ src' = [src EXCEPT !.owner = "busy"]
             /\ cap' = [cap EXCEPT !.owner = "busy"]
             /\ UNCHANGED <<at, code, counts>>

SourceReturns == /\ at # "exit" /\ src.owner = "busy"
                 /\ src' = [src EXCEPT !.owner = "done"]
                 /\ UNCHANGED <<at, cap, code, counts>>

CodedReturns ==
  /\ at # "exit" /\ cap.owner = "busy"
  /\ \E result \in {"coded", "broken", "error", "empty"} :
       cap' = [owner |-> "done",
               image |-> IF result = "coded" THEN src.image ELSE 0,
               bytesused |-> IF result \in {"coded", "broken"} THEN 1 ELSE 0,
               error |-> result \in {"broken", "error"}]
  /\ UNCHANGED <<at, src, code, counts>>

\* Mutant: only the flag is looked at.
WrongByFlag(buf) == buf.error

Wrong(buf) == buf.error \/ buf.bytesused = 0

\* DQBUF(CAPTURE) blocks until the coded buffer is back.
TakeCoded == /\ at = "take_coded" /\ cap.owner = "done"
             /\ cap' = [cap EXCEPT !.owner = "program"]
             /\ errors' = IF Wrong(cap) THEN errors + 1 ELSE errors
             /\ Goto("write")
             /\ UNCHANGED <<src, stage, frame, output>>

\* The stream holds these frames, and the file the first n of them: the rest
\* was in the buffer of the stream, or on its way, when a write failed.
Reaches(n, frames) == /\ file' = [i \in DOMAIN frames |-> IF i <= n THEN frames[i] ELSE 0]
                      /\ torn' = (torn \/ n < Len(frames))

\* What fwrite() returns is not looked at; of an empty buffer it writes nothing.
Write == /\ at = "write"
         /\ \/ cap.bytesused = 0 /\ UNCHANGED output
            \/ /\ cap.bytesused > 0 /\ handed' = Append(handed, cap.image)
               /\ \E n \in 0..Len(handed') : Reaches(n, Append(file, cap.image))
         /\ Goto("take_source")
         /\ UNCHANGED <<src, cap, stage, frame, errors>>

TakeSource == /\ at = "take_source" /\ src.owner = "done"
              /\ src' = [src EXCEPT !.owner = "program"]
              /\ frame' = frame + 1
              /\ Goto("fill")
              /\ UNCHANGED <<cap, stage, errors, output>>

\* fclose() writes what is still buffered, and its result is not looked at
\* either; STREAMOFF, unmap, close.
Finish == /\ at = "fill" /\ frame > NumFrames
          /\ \E n \in 0..Len(file) : Reaches(n, file)
          /\ ExitWith(IF errors > 0 THEN 1 ELSE 0)
          /\ UNCHANGED <<src, cap, stage, frame, errors, handed>>

EncoderNext == \/ CallFails \/ Setup \/ FillFrame \/ QueueSource \/ QueueCoded
               \/ TakeCoded \/ Write \/ TakeSource \/ Finish \/ JobStarts \/ CodedReturns
               \/ SourceReturns

EncoderSpec == EncoderInit /\ [][EncoderNext]_encoder
-----------------------------------------------------------------------------
(***************************************************************************)
(* When the program reports success, every frame was coded from the        *)
(* picture the program drew for it and handed to fwrite(), once and in     *)
(* order.  That is all success says: the file is these frames exactly when *)
(* no write failed, which the program does not find out.                   *)
(***************************************************************************)
SuccessIsEveryFrame ==
  code = 0 => LET frames == [f \in 1..NumFrames |-> f]
              IN handed = frames /\ (file = frames <=> ~torn)
=============================================================================
