------------------------------ MODULE ClientProofs ------------------------------
(***************************************************************************)
(* Proofs about the programs that drive the hardware from user space, each *)
(* a machine of its own: vepu-test.c for any number of frames and calls,   *)
(* vepu-vendor-test.c for any size of picture, and the model runners for   *)
(* any number of runs.                                                     *)
(***************************************************************************)
EXTENDS EncoderTest, VendorTest, Runners, TLAPS

MappedBuffers == [owner : {"program", "queued", "busy", "done"}, image : Nat,
            bytesused : Nat, error : BOOLEAN]

InFrame == {"queue_source", "queue_coded", "take_coded", "write", "take_source"}
Places == {"setup", "fill", "queue_source", "queue_coded", "take_coded", "write",
           "take_source", "exit"}

BuffersOK == src \in MappedBuffers /\ cap \in MappedBuffers
CountsOK == /\ at \in Places /\ stage \in Nat /\ frame \in Nat
            /\ errors \in Nat /\ code \in {-1, 0, 1}
            /\ handed \in Seq(Nat) /\ file \in Seq(Nat) /\ torn \in BOOLEAN
EncTypeOK == BuffersOK /\ CountsOK

Drawn(n) == [f \in 1..n |-> f]

(* Where the program is, and the exit code, which is decided once. *)
CodeInv == /\ at # "exit" => code = -1 /\ frame \in 1..(NumFrames + 1)
           /\ at \in InFrame => frame <= NumFrames
           /\ code = 0 => handed = Drawn(NumFrames)

(* What was handed over while no frame was wrong: every frame before the one
   under way, and that one once it is written. *)
HandedInv == at # "exit" /\ errors = 0
               => handed = Drawn(IF at = "take_source" THEN frame ELSE frame - 1)

(* What the file has of it: all, unless a write failed, and then some frame is
   not whole. *)
FileInv == /\ Len(file) = Len(handed)
           /\ ~torn => file = handed
           /\ torn => \E i \in 1..Len(file) : file[i] = 0

(* Who has the coded buffer, and what both show. *)
BufferInv ==
  /\ at \notin {"take_coded", "exit"} => cap.owner = "program"
  /\ at \in InFrame => src.image = frame
  /\ cap.owner = "done" /\ ~Wrong(cap) => cap.image = src.image
  /\ at = "write" /\ errors = 0 => cap.bytesused # 0 /\ cap.image = frame

EncInv == EncTypeOK /\ CodeInv /\ HandedInv /\ FileInv /\ BufferInv
-------------------------------------------------------------------------------
(* The frames up to n, with one more, are the frames up to n + 1. *)
LEMMA DrawnNext == ASSUME NEW n \in Nat PROVE Append(Drawn(n), n + 1) = Drawn(n + 1)
<1>1. Drawn(n) \in Seq(Nat) /\ Len(Drawn(n)) = n
  BY DEF Drawn
<1>2. DOMAIN Append(Drawn(n), n + 1) = 1..(n + 1)
  BY <1>1
<1>3. \A f \in 1..(n + 1) : Append(Drawn(n), n + 1)[f] = f
  BY <1>1 DEF Drawn
<1> QED
  BY <1>1, <1>2, <1>3 DEF Drawn

(* The program starts with an empty file and both buffers its own. *)
LEMMA EncInit == ASSUME NumFrames \in Nat, EncoderInit PROVE EncInv
<1>1. BuffersOK
  <2>1. src = MappedBuffer /\ cap = MappedBuffer
    BY DEF EncoderInit
  <2>2. MappedBuffer \in MappedBuffers
    BY DEF MappedBuffer, MappedBuffers
  <2> QED BY <2>1, <2>2 DEF BuffersOK
<1>2. CountsOK
  <2>1. /\ at = "setup" /\ stage = 0 /\ frame = 1 /\ errors = 0 /\ code = -1
        /\ handed = <<>> /\ file = <<>> /\ torn = FALSE
    BY DEF EncoderInit
  <2>2. handed \in Seq(Nat) /\ file \in Seq(Nat) BY <2>1
  <2>3. torn \in BOOLEAN BY <2>1, Zenon
  <2> QED BY <2>1, <2>2, <2>3 DEF CountsOK, Places
<1>3. handed = Drawn(0) /\ frame - 1 = 0
  BY DEF EncoderInit, Drawn
<1>4. CodeInv /\ HandedInv /\ FileInv
  BY <1>3 DEF EncoderInit, CodeInv, HandedInv, FileInv, InFrame
<1>5. BufferInv
  BY DEF EncoderInit, BufferInv, MappedBuffer, InFrame
<1> QED
  BY <1>1, <1>2, <1>4, <1>5 DEF EncInv, EncTypeOK

(* Frames reach the file as they are, or are not whole from some place on. *)
LEMMA ReachesKeeps ==
  ASSUME NEW frames \in Seq(Nat), NEW n \in 0..Len(frames), torn \in BOOLEAN, Reaches(n, frames)
  PROVE  /\ file' \in Seq(Nat) /\ Len(file') = Len(frames) /\ torn' \in BOOLEAN
         /\ ~torn' => ~torn /\ file' = frames
         /\ \A i \in 1..Len(frames) : frames[i] = 0 => file'[i] = 0
         /\ torn' => torn \/ \E i \in 1..Len(file') : file'[i] = 0
<1>1. /\ file' = [i \in 1..Len(frames) |-> IF i <= n THEN frames[i] ELSE 0]
      /\ torn' = (torn \/ n < Len(frames))
  BY DEF Reaches
<1>2. file' \in Seq(Nat) /\ Len(file') = Len(frames) /\ torn' \in BOOLEAN
  BY <1>1
<1>3. \A i \in 1..Len(frames) : file'[i] = IF i <= n THEN frames[i] ELSE 0
  BY <1>1
<1>4. ASSUME ~torn' PROVE ~torn /\ file' = frames
  <2>1. ~torn /\ n = Len(frames)
    <3>1. ~torn /\ ~(n < Len(frames)) BY <1>1, <1>4, Zenon
    <3> QED BY <3>1
  <2>2. file' = [i \in 1..Len(frames) |-> frames[i]] BY <1>1, <2>1
  <2>3. frames = [i \in 1..Len(frames) |-> frames[i]] OBVIOUS
  <2> QED BY <2>1, <2>2, <2>3
<1>5. ASSUME torn', ~torn PROVE \E i \in 1..Len(file') : file'[i] = 0
  <2>1. Len(frames) \in 1..Len(frames) /\ ~(Len(frames) <= n)
    <3>1. n < Len(frames) BY <1>1, <1>5, Zenon
    <3> QED BY <3>1
  <2> QED BY <1>2, <1>3, <2>1
<1> QED BY <1>2, <1>3, <1>4, <1>5

(* No step of the program or of the driver leaves the records of the buffers.
   *)
LEMMA BufferTypes == ASSUME EncTypeOK, EncoderNext PROVE BuffersOK'
<1> USE DEF EncTypeOK, BuffersOK, MappedBuffers, counts
<1>1. CASE CallFails
  BY <1>1 DEF CallFails, ExitWith
<1>2. CASE Finish
  BY <1>2 DEF Finish, ExitWith
<1>3. CASE Setup
  BY <1>3 DEF Setup
<1>4. CASE FillFrame
  BY <1>4 DEF FillFrame, CountsOK
<1>5. CASE QueueSource
  BY <1>5 DEF QueueSource
<1>6. CASE QueueCoded
  BY <1>6 DEF QueueCoded, MappedBuffer
<1>7. CASE TakeCoded
  BY <1>7 DEF TakeCoded
<1>8. CASE Write
  BY <1>8 DEF Write
<1>9. CASE TakeSource
  BY <1>9 DEF TakeSource
<1>10. CASE JobStarts
  BY <1>10 DEF JobStarts
<1>11. CASE SourceReturns
  BY <1>11 DEF SourceReturns
<1>12. CASE CodedReturns
  BY <1>12 DEF CodedReturns
<1> QED
  BY <1>1, <1>2, <1>3, <1>4, <1>5, <1>6, <1>7, <1>8, <1>9, <1>10, <1>11, <1>12 DEF EncoderNext

(* No step leaves the ranges of the counters and of the places. *)
LEMMA CountTypes == ASSUME EncTypeOK, FileInv, EncoderNext PROVE CountsOK'
<1> USE DEF EncTypeOK, CountsOK, Places, InFrame, counts, output, Goto
<1>1. CASE CallFails
  BY <1>1 DEF CallFails, ExitWith
<1>2. CASE Finish
  <2>1. PICK n \in 0..Len(file) : Reaches(n, file)
    BY <1>2 DEF Finish
  <2>2. file' \in Seq(Nat) /\ torn' \in BOOLEAN
    BY <2>1, ReachesKeeps
  <2> QED BY <1>2, <2>2 DEF Finish, ExitWith
<1>3. CASE Setup
  BY <1>3 DEF Setup
<1>4. CASE FillFrame
  BY <1>4 DEF FillFrame
<1>5. CASE QueueSource
  BY <1>5 DEF QueueSource
<1>6. CASE QueueCoded
  BY <1>6 DEF QueueCoded
<1>7. CASE TakeCoded
  BY <1>7 DEF TakeCoded
<1>8. CASE Write
  <2>1. CASE cap.bytesused = 0
    BY <1>8, <2>1 DEF Write
  <2>2. CASE cap.bytesused > 0
    <3> DEFINE frames == Append(file, cap.image)
    <3>1. PICK n \in 0..Len(handed') : Reaches(n, frames)
      BY <1>8, <2>2 DEF Write
    <3>4. handed' = Append(handed, cap.image) /\ cap.image \in Nat
      BY <1>8, <2>2 DEF Write, BuffersOK, MappedBuffers
    <3>2. /\ handed' \in Seq(Nat) /\ frames \in Seq(Nat)
          /\ Len(frames) = Len(file) + 1 /\ Len(handed') = Len(handed) + 1
      BY <3>4
    <3> HIDE DEF frames
    <3>3. file' \in Seq(Nat) /\ torn' \in BOOLEAN
      <4>1. n \in 0..Len(frames) BY <3>1, <3>2 DEF FileInv
      <4> QED BY <3>1, <3>2, <4>1, ReachesKeeps
    <3> QED BY <1>8, <2>2, <3>2, <3>3 DEF Write
  <2> QED BY <1>8, <2>1, <2>2 DEF Write
<1>9. CASE TakeSource
  BY <1>9 DEF TakeSource
<1>10. CASE JobStarts
  BY <1>10 DEF JobStarts
<1>11. CASE SourceReturns
  BY <1>11 DEF SourceReturns
<1>12. CASE CodedReturns
  BY <1>12 DEF CodedReturns
<1> QED
  BY <1>1, <1>2, <1>3, <1>4, <1>5, <1>6, <1>7, <1>8, <1>9, <1>10, <1>11, <1>12 DEF EncoderNext

(* The exit code is decided at the end, and success then needs the complete
   file. *)
LEMMA CodeStep == ASSUME NumFrames \in Nat, EncInv, EncoderNext PROVE CodeInv'
<1> USE DEF EncInv, EncTypeOK, CountsOK, CodeInv, InFrame, counts, output, Goto
<1>1. CASE CallFails
  BY <1>1 DEF CallFails, ExitWith
<1>2. CASE Finish
  BY <1>2 DEF Finish, ExitWith, HandedInv
<1>3. CASE Setup
  BY <1>3 DEF Setup
<1>4. CASE FillFrame
  BY <1>4 DEF FillFrame
<1>5. CASE QueueSource
  BY <1>5 DEF QueueSource
<1>6. CASE QueueCoded
  BY <1>6 DEF QueueCoded
<1>7. CASE TakeCoded
  BY <1>7 DEF TakeCoded
<1>8. CASE Write
  BY <1>8 DEF Write
<1>9. CASE TakeSource
  BY <1>9 DEF TakeSource
<1>10. CASE JobStarts
  BY <1>10 DEF JobStarts
<1>11. CASE SourceReturns
  BY <1>11 DEF SourceReturns
<1>12. CASE CodedReturns
  BY <1>12 DEF CodedReturns
<1> QED
  BY <1>1, <1>2, <1>3, <1>4, <1>5, <1>6, <1>7, <1>8, <1>9, <1>10, <1>11, <1>12 DEF EncoderNext

(* While nothing was wrong, each frame handed over is the next one. *)
LEMMA HandedStep == ASSUME EncInv, EncoderNext PROVE HandedInv'
<1> USE DEF EncInv, EncTypeOK, CountsOK, CodeInv, HandedInv, InFrame, counts, output, Goto
<1>1. CASE CallFails
  BY <1>1 DEF CallFails, ExitWith
<1>2. CASE Finish
  BY <1>2 DEF Finish, ExitWith
<1>3. CASE Setup
  BY <1>3 DEF Setup
<1>4. CASE FillFrame
  BY <1>4 DEF FillFrame
<1>5. CASE QueueSource
  BY <1>5 DEF QueueSource
<1>6. CASE QueueCoded
  BY <1>6 DEF QueueCoded
<1>7. CASE TakeCoded
  BY <1>7 DEF TakeCoded
<1>8. CASE Write
  <2>1. frame - 1 \in Nat /\ (frame - 1) + 1 = frame /\ at' # "exit" /\ frame' = frame
    BY <1>8 DEF Write
  <2>2. ASSUME errors' = 0 PROVE handed' = Append(Drawn(frame - 1), frame)
    BY <1>8, <2>2 DEF Write, BufferInv
  <2>3. Append(Drawn(frame - 1), (frame - 1) + 1) = Drawn((frame - 1) + 1)
    BY <2>1, DrawnNext
  <2> QED
    BY <1>8, <2>1, <2>2, <2>3 DEF Write
<1>9. CASE TakeSource
  BY <1>9 DEF TakeSource
<1>10. CASE JobStarts
  BY <1>10 DEF JobStarts
<1>11. CASE SourceReturns
  BY <1>11 DEF SourceReturns
<1>12. CASE CodedReturns
  BY <1>12 DEF CodedReturns
<1> QED
  BY <1>1, <1>2, <1>3, <1>4, <1>5, <1>6, <1>7, <1>8, <1>9, <1>10, <1>11, <1>12 DEF EncoderNext

(* What a failed write lost stays lost. *)
LEMMA FileStep == ASSUME EncInv, EncoderNext PROVE FileInv'
<1> USE DEF EncInv, EncTypeOK, CountsOK, FileInv
<1>1. CASE Write
  <2>1. CASE cap.bytesused = 0
    BY <1>1, <2>1 DEF Write, output
  <2>2. CASE cap.bytesused > 0
    <3> DEFINE frames == Append(file, cap.image)
    <3>1. PICK n \in 0..Len(handed') : Reaches(n, frames)
      BY <1>1, <2>2 DEF Write
    <3>2. handed' = Append(handed, cap.image) /\ cap.image \in Nat
      BY <1>1, <2>2 DEF Write, BuffersOK, MappedBuffers
    <3>3. /\ frames \in Seq(Nat) /\ Len(frames) = Len(file) + 1 /\ Len(handed') = Len(handed) + 1
          /\ \A i \in 1..Len(file) : frames[i] = file[i]
      BY <3>2
    <3>4. ~torn => frames = handed' BY <3>2
    <3> HIDE DEF frames
    <3>5. n \in 0..Len(frames) BY <3>1, <3>3
    <3>6. /\ Len(file') = Len(frames)
          /\ ~torn' => ~torn /\ file' = frames
          /\ \A i \in 1..Len(frames) : frames[i] = 0 => file'[i] = 0
          /\ torn' => torn \/ \E i \in 1..Len(file') : file'[i] = 0
      BY <3>1, <3>3, <3>5, ReachesKeeps
    <3>7. ASSUME torn PROVE \E i \in 1..Len(file') : file'[i] = 0
      <4>1. PICK i \in 1..Len(file) : file[i] = 0 BY <3>7
      <4>2. i \in 1..Len(frames) /\ frames[i] = 0 BY <3>3, <4>1
      <4> QED BY <3>6, <4>2
    <3> QED BY <3>3, <3>4, <3>6, <3>7
  <2> QED BY <1>1, <2>1, <2>2 DEF Write
<1>2. CASE Finish
  <2>1. PICK n \in 0..Len(file) : Reaches(n, file)
    BY <1>2 DEF Finish
  <2>2. handed' = handed BY <1>2 DEF Finish
  <2>3. /\ Len(file') = Len(file)
        /\ ~torn' => ~torn /\ file' = file
        /\ \A i \in 1..Len(file) : file[i] = 0 => file'[i] = 0
        /\ torn' => torn \/ \E i \in 1..Len(file') : file'[i] = 0
    BY <2>1, ReachesKeeps
  <2> QED BY <2>2, <2>3
<1>3. CASE ~Write /\ ~Finish
  <2>1. UNCHANGED output
    BY <1>3 DEF EncoderNext, CallFails, Setup, FillFrame, QueueSource, QueueCoded, TakeCoded,
                TakeSource, JobStarts, CodedReturns, SourceReturns, counts
  <2> QED BY <2>1 DEF output
<1> QED BY <1>1, <1>2, <1>3

(* The coded buffer, when it is back and not wrong, shows the frame just
   drawn. *)
LEMMA BufferStep == ASSUME EncInv, EncoderNext PROVE BufferInv'
<1> USE DEF EncInv, EncTypeOK, BuffersOK, MappedBuffers, BufferInv, InFrame, Wrong, counts, output, Goto
<1>1. CASE CallFails
  BY <1>1 DEF CallFails, ExitWith
<1>2. CASE Finish
  BY <1>2 DEF Finish, ExitWith
<1>3. CASE Setup
  BY <1>3 DEF Setup
<1>4. CASE FillFrame
  BY <1>4 DEF FillFrame
<1>5. CASE QueueSource
  BY <1>5 DEF QueueSource
<1>6. CASE QueueCoded
  BY <1>6 DEF QueueCoded, MappedBuffer
<1>7. CASE TakeCoded
  BY <1>7 DEF TakeCoded, CountsOK
<1>8. CASE Write
  BY <1>8 DEF Write
<1>9. CASE TakeSource
  BY <1>9 DEF TakeSource
<1>10. CASE JobStarts
  BY <1>10 DEF JobStarts
<1>11. CASE SourceReturns
  BY <1>11 DEF SourceReturns
<1>12. CASE CodedReturns
  <2>1. PICK result \in {"coded", "broken", "error", "empty"} :
          cap' = [owner |-> "done",
                  image |-> IF result = "coded" THEN src.image ELSE 0,
                  bytesused |-> IF result \in {"coded", "broken"} THEN 1 ELSE 0,
                  error |-> result \in {"broken", "error"}]
    BY <1>12 DEF CodedReturns
  <2>2. at = "take_coded" /\ at' = at /\ src' = src /\ frame' = frame
    BY <1>12 DEF CodedReturns, CountsOK, Places
  <2>3. ~Wrong(cap') => result = "coded"
    BY <2>1
  <2>4. result = "coded" => cap'.image = src.image
    BY <2>1
  <2> QED
    BY <2>2, <2>3, <2>4
<1> QED
  BY <1>1, <1>2, <1>3, <1>4, <1>5, <1>6, <1>7, <1>8, <1>9, <1>10, <1>11, <1>12 DEF EncoderNext

(* Whatever the driver returns, in which order, and which call fails: exit code
   0 of vepu-test means that every frame was coded and handed to fwrite(), once
   and in order, and the file has them all exactly when no write failed. *)
THEOREM EveryFrame ==
  ASSUME NumFrames \in Nat
  PROVE  EncoderSpec => []SuccessIsEveryFrame
<1>1. EncoderInit => EncInv
  BY EncInit
<1>2. EncInv /\ [EncoderNext]_encoder => EncInv'
  <2>1. ASSUME EncInv, EncoderNext PROVE EncInv'
    BY <2>1, BufferTypes, CountTypes, CodeStep, HandedStep, FileStep, BufferStep
       DEF EncInv, EncTypeOK
  <2>2. ASSUME EncInv, UNCHANGED encoder PROVE EncInv'
    BY <2>2 DEF EncInv, EncTypeOK, BuffersOK, CountsOK, CodeInv, HandedInv, FileInv, BufferInv,
                Wrong, encoder, counts, output
  <2> QED
    BY <2>1, <2>2
<1>3. ASSUME EncInv PROVE SuccessIsEveryFrame
  <2> DEFINE frames == Drawn(NumFrames)
  <2>1. Len(frames) = NumFrames /\ \A i \in 1..NumFrames : frames[i] # 0
    BY DEF Drawn
  <2> HIDE DEF frames
  <2>2. code = 0 => handed = frames BY <1>3 DEF EncInv, CodeInv, frames
  <2>3. code = 0 => (file = frames <=> ~torn)
    BY <1>3, <2>1, <2>2 DEF EncInv, EncTypeOK, CountsOK, FileInv
  <2> QED BY <2>2, <2>3 DEF SuccessIsEveryFrame, frames, Drawn
<1> QED
  BY <1>1, <1>2, <1>3, PTL DEF EncoderSpec
-------------------------------------------------------------------------------
(***************************************************************************)
(* vepu-vendor-test.c.                                                     *)
(***************************************************************************)

(* Where the kernel takes each register to. *)
Taken ==
  [ADR_SRC0 |-> <<"src", 0>>,
   ADR_SRC1 |-> <<"src", Luma % Reach>>, ADR_SRC2 |-> <<"src", Luma % Reach>>,
   RFPW_H |-> <<"reconw", 0>>, RFPW_B |-> <<"reconw", PixelHdr % Reach>>,
   RFPR_H |-> <<"reconw", 0>>, RFPR_B |-> <<"reconw", PixelHdr % Reach>>,
   DSPW |-> <<"thumbw", 0>>, DSPR |-> <<"thumbw", 0>>,
   SMEAR_WR |-> <<"smearw", 0>>, SMEAR_RD |-> <<"smearw", 0>>,
   MEIW |-> <<"meiw", 0>>,
   BSBB |-> <<"bs", 0>>, BSBT |-> <<"bs", BsSize - 1>>,
   ADR_BSBS |-> <<"bs", 0>>, BSBR |-> <<"bs", 0>>]

Classes == {"BASE", "PIC", "RC", "PAR", "SQI", "SCL"}

Fields == {"pc", "size", "fds", "regs", "batch", "hw", "saved", "code"}

(* The descriptors are 4, 5 and so on: 3 is the heap's while a buffer is made. *)
FdsInv == /\ vt.fds \in Seq(Nat) /\ Len(vt.fds) <= 6
          /\ \A i \in DOMAIN vt.fds : vt.fds[i] = i + 3

VendorInv ==
  /\ vt = [f \in Fields |-> vt[f]]
  /\ vt.size \in Sizes
  /\ FdsInv
  /\ vt.pc \in {"open", "submit"} => Len(vt.fds) = 6 /\ vt.regs = Pointers
  /\ vt.pc = "submit" => vt.batch = Messages
  /\ vt.pc = "result" => /\ vt.hw.client /\ vt.hw.waits /\ vt.hw.classes = Classes
                         /\ vt.hw.at = Taken

AlignsUp(x, a) == /\ Align(x, a) \in Nat /\ x <= Align(x, a) /\ Align(x, a) < x + a
                  /\ x > 0 => Align(x, a) >= a

(* The three alignments the program uses round up to a multiple, by less than
   one. *)
LEMMA Aligned == \A x \in Nat : AlignsUp(x, 16) /\ AlignsUp(x, 64) /\ AlignsUp(x, 8192)
<1> TAKE x \in Nat
<1>1. AlignsUp(x, 16) BY DEF AlignsUp, Align
<1>2. AlignsUp(x, 64) BY DEF AlignsUp, Align
<1>3. AlignsUp(x, 8192) BY SMT DEF AlignsUp, Align
<1> QED BY <1>1, <1>2, <1>3

(* Products of sizes are sizes. *)
LEMMA Products == \A x, y \in Nat : x * y \in Nat
OBVIOUS

(* A product grows with its factors. *)
LEMMA Monotone == ASSUME NEW a \in Nat, NEW b \in Nat, NEW c \in Nat, NEW d \in Nat,
                         a <= c, b <= d
                  PROVE  a * b <= c * d
<1>1. a * b <= c * b
  <2>1. PICK k \in Nat : c = a + k OBVIOUS
  <2>2. c * b = a * b + k * b BY <2>1
  <2>3. k * b \in Nat /\ a * b \in Nat BY Products
  <2> QED BY <2>2, <2>3
<1>2. c * b <= c * d
  <2>1. PICK k \in Nat : d = b + k OBVIOUS
  <2>2. c * d = c * b + c * k BY <2>1
  <2>3. c * k \in Nat /\ c * b \in Nat BY Products
  <2> QED BY <2>2, <2>3
<1>3. a * b \in Nat /\ c * b \in Nat /\ c * d \in Nat BY Products
<1> QED BY <1>1, <1>2, <1>3

(* An offset beyond the reach of 22 bits comes out that much smaller, at least. *)
LEMMA Wraps == ASSUME NEW x \in Nat
               PROVE  /\ x % Reach \in Nat /\ x % Reach <= x
                      /\ x < Reach => x % Reach = x
                      /\ x >= Reach => x % Reach <= x - Reach
BY SMT DEF Reach

(* A picture has a width and a height. *)
LEMMA SizeIs == ASSUME vt.size \in Sizes
  PROVE /\ vt.size[1] \in Nat /\ vt.size[1] > 0
        /\ vt.size[2] \in Nat /\ vt.size[2] > 0
<1>1. vt.size \in (1..Largest) \X (1..Largest)
  BY VendorConstantsOK
<1>2. vt.size[1] \in 1..Largest /\ vt.size[2] \in 1..Largest
  BY <1>1
<1> QED BY <1>2

(* The sizes of the thumbnails and of the smear map are numbers. *)
LEMMA DimensionsNat == ASSUME vt.size \in Sizes
  PROVE (W64 \div 64) * (H64 \div 64) * 256 \in Int /\ (W64 \div 64) * (H64 \div 16) \in Int
<1>1. vt.size[1] \in Nat /\ vt.size[2] \in Nat BY SizeIs
<1>2. AlignsUp(vt.size[1], 64) /\ AlignsUp(vt.size[2], 16) BY <1>1, Aligned
<1>3. W64 \in Nat /\ H64 \in Nat BY <1>2 DEF W64, H64, AlignsUp
<1>4. W64 \div 64 \in Nat /\ H64 \div 64 \in Nat /\ H64 \div 16 \in Nat BY <1>3
<1>5. (W64 \div 64) * (H64 \div 64) \in Nat /\ (W64 \div 64) * (H64 \div 16) \in Nat
  BY <1>4, Products
<1> DEFINE t == (W64 \div 64) * (H64 \div 64)
<1>6. t * 256 \in Nat
  <2> HIDE DEF t
  <2> QED BY <1>5 DEF t
<1> QED BY <1>5, <1>6

(* The sizes: what is read or written from an offset on ends inside its buffer. *)
LEMMA SizesFit ==
  ASSUME vt.size \in Sizes
  PROVE  /\ Luma \in Nat /\ Luma >= 2
         /\ PixelHdr \in Nat /\ PixelBdy \in Nat /\ PixelBdy > 0
         /\ (W64 * H64) \div 64 \in Nat /\ (W64 * H64) \div 64 <= PixelHdr
         /\ PixelHdr < (W64 * H64) \div 64 + 8192
         /\ Luma \div 2 \in Nat /\ Luma + Luma \div 2 <= (W16 * H16 * 3) \div 2
         /\ (W64 \div 64) * (H64 \div 64) * 256
              <= AtLeast(Align((W64 \div 64) * (H64 \div 64) * 256, 8192), 8192)
         /\ (W64 \div 64) * (H64 \div 16)
              <= AtLeast(Align(W64 \div 64, 16) * Align(H64 \div 16, 16), 4096)
<1>1. vt.size[1] \in Nat /\ vt.size[1] > 0 /\ vt.size[2] \in Nat /\ vt.size[2] > 0
  BY SizeIs
<1>2. W16 \in Nat /\ W16 >= 16 /\ H16 \in Nat /\ H16 >= 16
  <2>1. AlignsUp(vt.size[1], 16) /\ AlignsUp(vt.size[2], 16) BY <1>1, Aligned
  <2> QED BY <1>1, <2>1 DEF W16, H16, AlignsUp
<1>3. Luma \in Nat /\ Luma >= 2
  <2>1. 2 * 1 <= W16 * H16 BY <1>2, Monotone
  <2> QED BY <1>2, <2>1, Products DEF Luma
<1>4. W64 \in Nat /\ W64 >= 64 /\ H64 \in Nat /\ H64 >= 32
  <2>1. AlignsUp(vt.size[1], 64) /\ H64 = H16 + 16 BY <1>1, Aligned DEF H64, H16
  <2> QED BY <1>1, <1>2, <2>1 DEF W64, AlignsUp
<1> DEFINE p == W64 * H64
           t == (W64 \div 64) * (H64 \div 64) * 256
           a == W64 \div 64
           b == H64 \div 16
<1>8. p \in Nat /\ p >= 2
  <2>1. 2 * 1 <= W64 * H64 BY <1>4, Monotone
  <2> QED BY <1>4, <2>1, Products
<1>10. p \div 64 \in Nat
  <2> HIDE DEF p
  <2> QED BY <1>8
<1>11. PixelHdr \in Nat /\ p \div 64 <= PixelHdr /\ PixelHdr < p \div 64 + 8192
  BY <1>10, Aligned DEF PixelHdr, AlignsUp
<1>12. PixelBdy \in Nat /\ PixelBdy > 0
  <2> HIDE DEF p
  <2>1. (p * 3) \div 2 \in Nat /\ (p * 3) \div 2 > 0 BY <1>8
  <2> QED BY <2>1 DEF PixelBdy, p
<1>13. Luma \div 2 \in Nat /\ Luma + Luma \div 2 <= (Luma * 3) \div 2 BY <1>3
<1>14. a \in Nat /\ b \in Nat /\ H64 \div 64 \in Nat BY <1>4
<1>15. t \in Nat
  <2>1. (W64 \div 64) * (H64 \div 64) \in Nat BY <1>14, Products
  <2> HIDE DEF t
  <2> QED BY <2>1, Products DEF t
<1>16. t <= AtLeast(Align(t, 8192), 8192)
  <2> HIDE DEF t
  <2>1. Align(t, 8192) \in Nat /\ t <= Align(t, 8192) BY <1>15, Aligned DEF AlignsUp
  <2> QED BY <1>15, <2>1 DEF AtLeast
<1>17. a * b <= AtLeast(Align(a, 16) * Align(b, 16), 4096)
  <2> HIDE DEF a, b
  <2>0. AlignsUp(a, 16) /\ AlignsUp(b, 16) BY <1>14, Aligned
  <2>1. /\ Align(a, 16) \in Nat /\ a <= Align(a, 16)
        /\ Align(b, 16) \in Nat /\ b <= Align(b, 16)
    BY <2>0 DEF AlignsUp
  <2>2. a * b <= Align(a, 16) * Align(b, 16) BY <1>14, <2>1, Monotone
  <2>3. Align(a, 16) * Align(b, 16) \in Nat /\ a * b \in Nat BY <1>14, <2>1, Products
  <2> QED BY <2>2, <2>3 DEF AtLeast
<1> QED BY <1>3, <1>10, <1>11, <1>12, <1>13, <1>16, <1>17 DEF Luma

(* The six buffers, in the order of their allocation. *)
LEMMA BufferAt ==
  /\ DOMAIN Buffers = 1..6 /\ Len(Buffers) = 6
  /\ Buffers[1] = <<"src", (W16 * H16 * 3) \div 2>> /\ Buffers[2] = <<"bs", BsSize>>
  /\ Buffers[3] = <<"reconw", PixelHdr + PixelBdy>>
  /\ Buffers[4] = <<"thumbw", AtLeast(Align((W64 \div 64) * (H64 \div 64) * 256, 8192), 8192)>>
  /\ Buffers[5] = <<"smearw", AtLeast(Align(W64 \div 64, 16) * Align(H64 \div 16, 16), 4096)>>
  /\ Buffers[6] = <<"meiw", 4096>>
BY DEF Buffers

Name == <<"src", "bs", "reconw", "thumbw", "smearw", "meiw">>

(* Each name belongs to one buffer. *)
LEMMA Named == /\ \A i \in 1..6 : Buffers[i][1] = Name[i]
               /\ \A i \in 1..6 : (CHOOSE k \in DOMAIN Buffers : Buffers[k][1] = Name[i]) = i
<1> HIDE DEF Buffers
<1>1. \A i \in 1..6 : Buffers[i][1] = Name[i]
  <2>1. \A i \in 1..6 : i = 1 \/ i = 2 \/ i = 3 \/ i = 4 \/ i = 5 \/ i = 6 OBVIOUS
  <2>2. /\ Buffers[1][1] = "src" /\ Buffers[2][1] = "bs" /\ Buffers[3][1] = "reconw"
        /\ Buffers[4][1] = "thumbw" /\ Buffers[5][1] = "smearw" /\ Buffers[6][1] = "meiw"
    BY BufferAt
  <2>3. /\ Name[1] = "src" /\ Name[2] = "bs" /\ Name[3] = "reconw"
        /\ Name[4] = "thumbw" /\ Name[5] = "smearw" /\ Name[6] = "meiw"
    BY DEF Name
  <2> QED BY <2>1, <2>2, <2>3
<1>2. \A i, k \in 1..6 : Name[i] = Name[k] => i = k
  BY DEF Name
<1>3. DOMAIN Buffers = 1..6 BY BufferAt
<1>4. ASSUME NEW i \in 1..6
      PROVE (CHOOSE k \in DOMAIN Buffers : Buffers[k][1] = Name[i]) = i
  <2> DEFINE c == CHOOSE k \in DOMAIN Buffers : Buffers[k][1] = Name[i]
  <2>1. \E k \in DOMAIN Buffers : Buffers[k][1] = Name[i] BY <1>1, <1>3
  <2>2. c \in DOMAIN Buffers /\ Buffers[c][1] = Name[i] BY <2>1
  <2> HIDE DEF c
  <2>3. c = i BY <1>1, <1>2, <1>3, <2>2
  <2> QED BY <2>3 DEF c
<1> QED BY <1>1, <1>4

(* The kernel finds the buffer of a word, and the offset as far as 22 bits go. *)
LEMMA Resolves ==
  ASSUME FdsInv, Len(vt.fds) = 6, NEW i \in 1..6, NEW off \in Nat
  PROVE  Imported(fdw(Fd(Name[i]), off)) = <<Name[i], off % Reach>>
<1>1. Fd(Name[i]) = i + 3
  <2>1. Fd(Name[i]) = vt.fds[i] BY Named DEF Fd
  <2> QED BY <2>1 DEF FdsInv
<1> DEFINE short == off % Reach
<1>2. fdw(Fd(Name[i]), off) = <<i + 3, short>>
  <2>1. (i + 3) % 1024 = i + 3 BY SMT
  <2> QED BY <1>1, <2>1 DEF fdw
<1> HIDE DEF short
<1>3. {k \in DOMAIN vt.fds : vt.fds[k] = i + 3} = {i}
  <2>1. DOMAIN vt.fds = 1..6 BY DEF FdsInv
  <2>2. \A k \in 1..6 : vt.fds[k] = k + 3 BY <2>1, Zenon DEF FdsInv
  <2>3. \A k \in 1..6 : k + 3 = i + 3 <=> k = i OBVIOUS
  <2> DEFINE g == vt.fds
  <2> HIDE DEF g
  <2>4. \A k \in 1..6 : g[k] = i + 3 <=> k = i BY <2>2, <2>3, Zenon DEF g
  <2> QED BY <2>1, <2>4, Zenon DEF g
<1>4. Min({i}) = i BY DEF Min
<1> DEFINE w == <<i + 3, short>>
<1>5. w[1] = i + 3 /\ w[2] = short OBVIOUS
<1> HIDE DEF w
<1>6. Imported(w) = <<Buffers[i][1], short>> BY <1>3, <1>4, <1>5 DEF Imported
<1> QED BY <1>2, <1>6, Named DEF w, short

Registers == {"ADR_SRC0", "ADR_SRC1", "ADR_SRC2", "RFPW_H", "RFPW_B", "RFPR_H", "RFPR_B", "DSPW",
              "DSPR", "SMEAR_WR", "SMEAR_RD", "MEIW", "BSBB", "BSBT", "ADR_BSBS", "BSBR"}

(* All words of the class resolve to the buffer they were written for. *)
LEMMA AllResolve ==
  ASSUME vt.size \in Sizes, FdsInv, Len(vt.fds) = 6
  PROVE  [r \in DOMAIN Pointers |-> Imported(Pointers[r])] = Taken
<1>1. /\ 0 \in Nat /\ 0 % Reach = 0 /\ BsSize - 1 \in Nat /\ (BsSize - 1) % Reach = BsSize - 1
      /\ Luma \in Nat /\ PixelHdr \in Nat
  <2>1. 0 % Reach = 0 /\ BsSize - 1 \in Nat /\ (BsSize - 1) % Reach = BsSize - 1
    BY SMT DEF BsSize, Reach
  <2> QED BY <2>1, SizesFit
<1>2. /\ Name[1] = "src" /\ Name[2] = "bs" /\ Name[3] = "reconw"
      /\ Name[4] = "thumbw" /\ Name[5] = "smearw" /\ Name[6] = "meiw"
  BY DEF Name
<1> DEFINE R(b, off) == Imported(fdw(Fd(b), off)) = <<b, off % Reach>>
<1>3. \A i \in 1..6 : \A off \in Nat : R(Name[i], off)
  BY Resolves
<1> HIDE DEF R
<1>4. R(Name[1], 0) /\ R(Name[1], Luma) BY <1>1, <1>3
<1>5. R(Name[2], 0) /\ R(Name[2], BsSize - 1) BY <1>1, <1>3
<1>6. R(Name[3], 0) /\ R(Name[3], PixelHdr) BY <1>1, <1>3
<1>7. R(Name[4], 0) /\ R(Name[5], 0) /\ R(Name[6], 0) BY <1>1, <1>3
<1>8. /\ R("src", 0) /\ R("src", Luma) /\ R("bs", 0) /\ R("bs", BsSize - 1)
      /\ R("reconw", 0) /\ R("reconw", PixelHdr)
      /\ R("thumbw", 0) /\ R("smearw", 0) /\ R("meiw", 0)
  BY <1>2, <1>4, <1>5, <1>6, <1>7
<1>9. DOMAIN Pointers = Registers /\ DOMAIN Taken = Registers
  BY DEF Pointers, Taken, Registers
<1> DEFINE I(r) == Imported(Pointers[r]) = Taken[r]
<1>11. I("ADR_SRC0") /\ I("ADR_SRC1") /\ I("ADR_SRC2")
  BY <1>1, <1>8 DEF R, Pointers, Taken
<1>12. I("RFPW_H") /\ I("RFPW_B") /\ I("RFPR_H") /\ I("RFPR_B")
  BY <1>1, <1>8 DEF R, Pointers, Taken
<1>13. I("DSPW") /\ I("DSPR") /\ I("SMEAR_WR") /\ I("SMEAR_RD") /\ I("MEIW")
  BY <1>1, <1>8 DEF R, Pointers, Taken
<1>14. I("BSBB") /\ I("BSBT") /\ I("ADR_BSBS") /\ I("BSBR")
  BY <1>1, <1>8 DEF R, Pointers, Taken
<1> HIDE DEF I
<1>15. \A r \in Registers : I(r)
  BY <1>11, <1>12, <1>13, <1>14 DEF Registers
<1>10. \A r \in Registers : Imported(Pointers[r]) = Taken[r]
  BY <1>15 DEF I
<1> QED BY <1>9, <1>10 DEF Taken

(* The batch: the last message ends it, and it passes six classes. *)
LEMMA BatchOfNine ==
  /\ Min({k \in DOMAIN Messages : Messages[k].last}) = 9
  /\ Messages[1].cmd = "INIT_CLIENT_TYPE"
  /\ \E m \in {Messages[k] : k \in 1..9} : m.cmd = "POLL_HW_FINISH"
  /\ {m.class : m \in {x \in {Messages[k] : k \in 1..9} : x.cmd = "SET_REG_WRITE"}} = Classes
<1>1. DOMAIN Messages = 1..9 BY DEF Messages
<1>2. /\ Messages[1].cmd = "INIT_CLIENT_TYPE" /\ Messages[8].cmd = "SET_REG_READ"
      /\ Messages[9].cmd = "POLL_HW_FINISH"
      /\ Messages[2].cmd = "SET_REG_WRITE" /\ Messages[3].cmd = "SET_REG_WRITE"
      /\ Messages[4].cmd = "SET_REG_WRITE" /\ Messages[5].cmd = "SET_REG_WRITE"
      /\ Messages[6].cmd = "SET_REG_WRITE" /\ Messages[7].cmd = "SET_REG_WRITE"
  BY DEF Messages, Message
<1>3. /\ Messages[2].class = "BASE" /\ Messages[3].class = "PIC" /\ Messages[4].class = "RC"
      /\ Messages[5].class = "PAR" /\ Messages[6].class = "SQI" /\ Messages[7].class = "SCL"
  BY DEF Messages, Message
<1>4. /\ ~Messages[1].last /\ ~Messages[2].last /\ ~Messages[3].last /\ ~Messages[4].last
      /\ ~Messages[5].last /\ ~Messages[6].last /\ ~Messages[7].last /\ ~Messages[8].last
      /\ Messages[9].last
  BY DEF Messages, Message
<1> HIDE DEF Messages
<1>11. \A k \in 1..9 : \/ k = 1 \/ k = 2 \/ k = 3 \/ k = 4 \/ k = 5
                        \/ k = 6 \/ k = 7 \/ k = 8 \/ k = 9
  OBVIOUS
<1>5. {k \in DOMAIN Messages : Messages[k].last} = {9} BY <1>1, <1>4, <1>11
<1>6. Min({9}) = 9 BY DEF Min
<1>7. \A k \in 1..9 : Messages[k].cmd = "SET_REG_WRITE" <=> k \in 2..7
  <2> QED BY <1>2, <1>11
<1>8. {Messages[k].class : k \in 2..7} = Classes
  <2>1. \A k \in 2..7 : k = 2 \/ k = 3 \/ k = 4 \/ k = 5 \/ k = 6 \/ k = 7 OBVIOUS
  <2>2. 2 \in 2..7 /\ 3 \in 2..7 /\ 4 \in 2..7 /\ 5 \in 2..7 /\ 6 \in 2..7 /\ 7 \in 2..7 OBVIOUS
  <2> QED BY <1>3, <2>1, <2>2 DEF Classes
<1>9. {m.class : m \in {x \in {Messages[k] : k \in 1..9} : x.cmd = "SET_REG_WRITE"}}
        = {Messages[k].class : k \in 2..7}
  <2>1. 2..7 \subseteq 1..9 OBVIOUS
  <2> QED BY <1>7, <2>1
<1>10. 9 \in 1..9 OBVIOUS
<1> QED BY <1>2, <1>5, <1>6, <1>8, <1>9, <1>10

(* The heap takes 3, the buffer the next one. *)
LEMMA NextFd ==
  ASSUME FdsInv, Len(vt.fds) < 6, NEW used, used = {vt.fds[i] : i \in DOMAIN vt.fds}
  PROVE  LowestFree(used \cup {LowestFree(used)}) = Len(vt.fds) + 4
<1> DEFINE n == Len(vt.fds)
<1>1. n \in Nat /\ n < 6 /\ DOMAIN vt.fds = 1..n /\ \A i \in 1..n : vt.fds[i] = i + 3
  BY DEF FdsInv
<1> HIDE DEF n
<1>2. used = 4..(n + 3)
  <2>1. \A x \in used : x \in 4..(n + 3) BY <1>1
  <2>2. ASSUME NEW x \in 4..(n + 3) PROVE x \in used
    <3>1. x - 3 \in 1..n /\ vt.fds[x - 3] = x BY <1>1
    <3> QED BY <1>1, <3>1
  <2> QED BY <2>1, <2>2
<1>3. LowestFree(used) = 3
  <2> DEFINE P(m) == m \notin used /\ \A k \in 3..(m - 1) : k \in used
  <2>1. P(3) /\ 3 \in 3..20 BY <1>1, <1>2
  <2>2. ASSUME NEW m \in 3..20, P(m) PROVE m = 3
    <3>1. m > 3 => 3 \in 3..(m - 1) OBVIOUS
    <3>2. 3 \notin used BY <1>1, <1>2
    <3> QED BY <2>2, <3>1, <3>2
  <2> HIDE DEF P
  <2>3. (CHOOSE m \in 3..20 : P(m)) = 3 BY <2>1, <2>2
  <2> QED BY <2>3 DEF P, LowestFree
<1>4. used \cup {3} = 3..(n + 3) BY <1>1, <1>2
<1>5. LowestFree(3..(n + 3)) = n + 4
  <2> DEFINE P(m) == m \notin 3..(n + 3) /\ \A k \in 3..(m - 1) : k \in 3..(n + 3)
  <2>1. P(n + 4) /\ n + 4 \in 3..20 BY <1>1
  <2>2. ASSUME NEW m \in 3..20, P(m) PROVE m = n + 4
    <3>1. m > n + 3 BY <1>1, <2>2
    <3>2. m > n + 4 => n + 4 \in 3..(m - 1) BY <1>1, <2>2
    <3>3. n + 4 \notin 3..(n + 3) BY <1>1
    <3> QED BY <1>1, <2>2, <3>1, <3>2, <3>3
  <2> HIDE DEF P
  <2>3. (CHOOSE m \in 3..20 : P(m)) = n + 4 BY <2>1, <2>2
  <2> QED BY <2>3 DEF P, LowestFree
<1> QED BY <1>3, <1>4, <1>5 DEF n

(* Nothing is allocated yet. *)
LEMMA VendorStart == ASSUME VendorInit PROVE VendorInv
<1>1. PICK size \in Sizes :
          vt = [pc |-> "alloc", size |-> size, fds |-> <<>>, regs |-> <<>>, batch |-> <<>>,
                hw |-> <<>>, saved |-> -1, code |-> -1]
  BY DEF VendorInit
<1>2. vt = [f \in Fields |-> vt[f]] BY <1>1 DEF Fields
<1>3. vt.pc = "alloc" /\ vt.size \in Sizes /\ vt.fds = <<>> BY <1>1
<1>4. FdsInv BY <1>3 DEF FdsInv
<1> QED BY <1>2, <1>3, <1>4 DEF VendorInv

(* A step that ends the program, with any exit code. *)
LEMMA EndStep == ASSUME VendorInv, NEW c, vt' = VendorExit(c) PROVE VendorInv'
<1>1. vt' = [f \in Fields |-> vt'[f]] /\ vt'.pc = "exit" /\ vt'.size = vt.size /\ vt'.fds = vt.fds
  BY DEF VendorInv, VendorExit, Fields
<1> QED BY <1>1 DEF VendorInv, FdsInv

(* Each call of the program keeps descriptors, words and batch as they are
   described. *)
LEMMA VendorStep == ASSUME VendorInv, VendorNext PROVE VendorInv'
<1>1. CASE Alloc
  <2> DEFINE used == {vt.fds[i] : i \in DOMAIN vt.fds}
             d == LowestFree(used \cup {LowestFree(used)})
  <2>1. vt.pc = "alloc" /\ Len(vt.fds) < 6 /\ FdsInv
    BY <1>1, BufferAt DEF Alloc, VendorInv
  <2>2. d = Len(vt.fds) + 4 BY <2>1, NextFd
  <2>3. vt' = [vt EXCEPT !.fds = Append(@, d)] \/ vt' = VendorExit(1)
    BY <1>1 DEF Alloc
  <2> HIDE DEF d
  <2>4. CASE vt' = [vt EXCEPT !.fds = Append(@, d)]
    <3> DEFINE g == Append(vt.fds, d)
    <3>1. /\ g \in Seq(Nat) /\ Len(g) <= 6 /\ \A i \in DOMAIN g : g[i] = i + 3
      BY <2>1, <2>2 DEF FdsInv
    <3> HIDE DEF g
    <3>2. vt' = [vt EXCEPT !.fds = g] BY <2>4 DEF g
    <3>3. /\ vt' = [f \in Fields |-> vt'[f]]
          /\ vt'.fds = g /\ vt'.pc = "alloc" /\ vt'.size = vt.size
      BY <3>2, <2>1 DEF VendorInv, Fields
    <3> QED BY <3>1, <3>3 DEF VendorInv, FdsInv
  <2> QED BY <2>3, <2>4, EndStep
<1>2. CASE SetRegisters
  <2> DEFINE r == Pointers
  <2>1. vt.pc = "alloc" /\ Len(vt.fds) = 6 /\ vt' = [vt EXCEPT !.regs = r, !.pc = "open"]
    BY <1>2, BufferAt DEF SetRegisters
  <2> HIDE DEF r
  <2>2. /\ vt' = [f \in Fields |-> vt'[f]] /\ vt'.regs = r /\ vt'.pc = "open"
        /\ vt'.size = vt.size /\ vt'.fds = vt.fds
    BY <2>1 DEF VendorInv, Fields
  <2>3. Pointers' = Pointers
    BY <2>2 DEF Pointers, Fd, Buffers, Luma, PixelHdr, PixelBdy, W16, H16, W64, H64
  <2>4. vt'.regs = Pointers' BY <2>2, <2>3 DEF r
  <2>5. FdsInv' /\ Len(vt'.fds) = 6
    <3>1. FdsInv BY DEF VendorInv
    <3> QED BY <2>1, <2>2, <3>1 DEF FdsInv
  <2> QED BY <2>2, <2>4, <2>5 DEF VendorInv
<1>3. CASE Open
  <2> DEFINE b == Messages
  <2>1. vt.pc = "open" /\ (vt' = [vt EXCEPT !.batch = b, !.pc = "submit"] \/ vt' = VendorExit(1))
    BY <1>3 DEF Open
  <2> HIDE DEF b
  <2>2. CASE vt' = [vt EXCEPT !.batch = b, !.pc = "submit"]
    <3>1. /\ vt' = [f \in Fields |-> vt'[f]] /\ vt'.regs = vt.regs /\ vt'.pc = "submit"
          /\ vt'.size = vt.size /\ vt'.fds = vt.fds /\ vt'.batch = b
      BY <2>2 DEF VendorInv, Fields
    <3>2. Pointers' = Pointers
      BY <3>1 DEF Pointers, Fd, Buffers, Luma, PixelHdr, PixelBdy, W16, H16, W64, H64
    <3>3. b' = b BY DEF b, Messages, Message
    <3> QED BY <2>1, <3>1, <3>2, <3>3 DEF VendorInv, FdsInv, b
  <2> QED BY <2>1, <2>2, EndStep
<1>4. CASE Cfg
  <2> DEFINE n == Min({k \in DOMAIN vt.batch : vt.batch[k].last})
             seen == {vt.batch[k] : k \in 1..n}
             cs == {m.class : m \in {x \in seen : x.cmd = "SET_REG_WRITE"}}
             places == [r \in DOMAIN vt.regs |-> Imported(vt.regs[r])]
             cl == vt.batch[1].cmd = "INIT_CLIENT_TYPE"
             wt == \E m \in seen : m.cmd = "POLL_HW_FINISH"
  <2>1. /\ vt.pc = "submit" /\ Len(vt.fds) = 6 /\ vt.regs = Pointers /\ vt.batch = Messages
        /\ vt.size \in Sizes /\ FdsInv
    BY <1>4 DEF Cfg, VendorInv
  <2>2. n = 9 BY <2>1, BatchOfNine
  <2>3. cs = Classes /\ cl /\ wt BY <2>1, <2>2, BatchOfNine
  <2>4. places = Taken BY <2>1, AllResolve
  <2>5. \/ vt' = VendorExit(1)
        \/ \E bs_lgth \in {0, 1000, BsSize} :
             vt' = [vt EXCEPT !.pc = "result", !.saved = bs_lgth,
                      !.hw = [classes |-> cs, client |-> cl, waits |-> wt, at |-> places]]
    BY <1>4 DEF Cfg
  <2> HIDE DEF n, seen, cs, places, cl, wt
  <2>6. CASE \E bs_lgth \in {0, 1000, BsSize} :
             vt' = [vt EXCEPT !.pc = "result", !.saved = bs_lgth,
                      !.hw = [classes |-> cs, client |-> cl, waits |-> wt, at |-> places]]
    <3> DEFINE h == [classes |-> cs, client |-> cl, waits |-> wt, at |-> places]
    <3>1. h.classes = cs /\ h.client = cl /\ h.waits = wt /\ h.at = places OBVIOUS
    <3>2. PICK bs \in {0, 1000, BsSize} :
            vt' = [vt EXCEPT !.pc = "result", !.saved = bs, !.hw = h]
      BY <2>6, Zenon
    <3> HIDE DEF h
    <3>3. /\ vt' = [f \in Fields |-> vt'[f]] /\ vt'.pc = "result"
          /\ vt'.size = vt.size /\ vt'.fds = vt.fds /\ vt'.hw = h
      BY <3>2 DEF VendorInv, Fields
    <3>4. Taken' = Taken
      BY <3>3 DEF Taken, Luma, PixelHdr, W16, H16, W64, H64
    <3>5. FdsInv' BY <2>1, <3>3 DEF FdsInv
    <3>6. vt'.hw.client /\ vt'.hw.waits /\ vt'.hw.classes = Classes /\ vt'.hw.at = Taken'
      BY <2>3, <2>4, <3>1, <3>3, <3>4
    <3> QED BY <2>1, <3>3, <3>5, <3>6 DEF VendorInv
  <2> QED BY <2>5, <2>6, EndStep
<1>5. CASE Result BY <1>5, EndStep DEF Result
<1> QED BY <1>1, <1>2, <1>3, <1>4, <1>5 DEF VendorNext, VendorInv

(* What the kernel resolved lies in the buffers, and apart while it is in reach. *)
LEMMA TakenFits ==
  ASSUME VendorInv, vt.pc = "result"
  PROVE  HardwareGetsTheFrame
<1>1. /\ vt.hw.client /\ vt.hw.waits /\ vt.hw.classes = Classes /\ vt.hw.at = Taken
      /\ vt.size \in Sizes
  BY DEF VendorInv
<1>2. \A i \in 1..6 : SizeOf(Name[i]) = Buffers[i][2]
  BY Named DEF SizeOf
<1>3. /\ SizeOf("src") = (W16 * H16 * 3) \div 2 /\ SizeOf("bs") = BsSize
      /\ SizeOf("reconw") = PixelHdr + PixelBdy
      /\ SizeOf("thumbw") = AtLeast(Align((W64 \div 64) * (H64 \div 64) * 256, 8192), 8192)
      /\ SizeOf("smearw") = AtLeast(Align(W64 \div 64, 16) * Align(H64 \div 16, 16), 4096)
      /\ SizeOf("meiw") = 4096
  <2>1. /\ Name[1] = "src" /\ Name[2] = "bs" /\ Name[3] = "reconw"
        /\ Name[4] = "thumbw" /\ Name[5] = "smearw" /\ Name[6] = "meiw"
    BY DEF Name
  <2>2. Buffers[1][2] = (W16 * H16 * 3) \div 2 BY BufferAt
  <2>3. Buffers[2][2] = BsSize BY BufferAt
  <2>4. Buffers[3][2] = PixelHdr + PixelBdy BY BufferAt
  <2>5. Buffers[4][2] = AtLeast(Align((W64 \div 64) * (H64 \div 64) * 256, 8192), 8192)
    BY BufferAt
  <2>6. Buffers[5][2] = AtLeast(Align(W64 \div 64, 16) * Align(H64 \div 16, 16), 4096)
    BY BufferAt
  <2>7. Buffers[6][2] = 4096 BY BufferAt
  <2>8. /\ SizeOf("src") = Buffers[1][2] /\ SizeOf("bs") = Buffers[2][2]
        /\ SizeOf("reconw") = Buffers[3][2] /\ SizeOf("thumbw") = Buffers[4][2]
        /\ SizeOf("smearw") = Buffers[5][2] /\ SizeOf("meiw") = Buffers[6][2]
    BY <1>2, <2>1
  <2> QED BY <2>2, <2>3, <2>4, <2>5, <2>6, <2>7, <2>8
<1>4. /\ Luma \in Nat /\ PixelHdr \in Nat /\ PixelBdy \in Nat
      /\ (W64 * H64) \div 64 \in Nat /\ (W64 * H64) \div 64 <= PixelHdr
      /\ Luma \div 2 \in Nat /\ Luma + Luma \div 2 <= SizeOf("src") /\ Luma <= SizeOf("src")
      /\ (W64 \div 64) * (H64 \div 64) * 256 <= SizeOf("thumbw")
      /\ (W64 \div 64) * (H64 \div 16) <= SizeOf("smearw")
      /\ SizeOf("reconw") = PixelHdr + PixelBdy
      /\ BsSize - 1 \in Nat /\ SizeOf("bs") = BsSize /\ 1 <= BsSize
      /\ 1 <= SizeOf("meiw")
  <2>1. BsSize - 1 \in Nat /\ 1 <= BsSize BY DEF BsSize
  <2>2. Luma \in Nat /\ Luma \div 2 \in Nat /\ Luma + Luma \div 2 <= SizeOf("src")
    BY <1>1, <1>3, SizesFit
  <2>3. Luma <= SizeOf("src")
    <3>1. SizeOf("src") \in Int
      <4>1. (Luma * 3) \div 2 \in Int BY <2>2
      <4> QED BY <1>3, <4>1 DEF Luma
    <3> QED BY <2>2, <3>1
  <2> QED BY <1>1, <1>3, <2>1, <2>2, <2>3, SizesFit
<1> DEFINE luma == Luma % Reach
           body == PixelHdr % Reach
<1>13. /\ luma \in Nat /\ luma <= Luma /\ body \in Nat /\ body <= PixelHdr
       /\ Luma < Reach => luma = Luma
       /\ Luma >= Reach => luma <= Luma - Reach
       /\ PixelHdr < Reach => body = PixelHdr
       /\ PixelHdr >= Reach => body <= PixelHdr - Reach
  BY <1>4, Wraps
<1>14. luma + Luma \div 2 <= SizeOf("src") /\ body + PixelBdy <= SizeOf("reconw")
  <2> HIDE DEF luma, body
  <2>1. SizeOf("src") \in Int
    <3>1. (Luma * 3) \div 2 \in Int BY <1>4
    <3> QED BY <1>3, <3>1 DEF Luma
  <2> QED BY <1>4, <1>13, <2>1
<1> HIDE DEF luma, body
<1>5. DOMAIN vt.hw.at = Registers BY <1>1 DEF Taken, Registers
<1> DEFINE B(r) == vt.hw.at[r][1]
           O(r) == vt.hw.at[r][2]
<1>6. ASSUME NEW r \in Registers
      PROVE  B(r) # "none" /\ O(r) + Extent(r) <= SizeOf(B(r))
  <2>1. CASE r = "ADR_SRC0"
    <3>1. B(r) = "src" /\ O(r) = 0 /\ Extent(r) = Luma BY <1>1, <2>1 DEF Taken, Extent
    <3> QED BY <1>4, <3>1
  <2>2. CASE r \in {"ADR_SRC1", "ADR_SRC2"}
    <3>1. B(r) = "src" /\ O(r) = luma /\ Extent(r) = Luma \div 2
      BY <1>1, <2>2 DEF Taken, Extent, luma
    <3> QED BY <1>14, <3>1
  <2>3. CASE r \in {"RFPW_H", "RFPR_H"}
    <3>1. B(r) = "reconw" /\ O(r) = 0 /\ Extent(r) = (W64 * H64) \div 64
      BY <1>1, <2>3 DEF Taken, Extent
    <3> QED BY <1>4, <3>1
  <2>4. CASE r \in {"RFPW_B", "RFPR_B"}
    <3>1. B(r) = "reconw" /\ O(r) = body /\ Extent(r) = PixelBdy
      BY <1>1, <2>4 DEF Taken, Extent, body
    <3> QED BY <1>14, <3>1
  <2>5. CASE r \in {"DSPW", "DSPR"}
    <3>1. B(r) = "thumbw" /\ O(r) = 0 /\ Extent(r) = (W64 \div 64) * (H64 \div 64) * 256
      BY <1>1, <2>5 DEF Taken, Extent
    <3>2. Extent(r) \in Int BY <1>1, <3>1, SizesFit, DimensionsNat
    <3> QED BY <1>4, <3>1, <3>2
  <2>6. CASE r \in {"SMEAR_WR", "SMEAR_RD"}
    <3>1. B(r) = "smearw" /\ O(r) = 0 /\ Extent(r) = (W64 \div 64) * (H64 \div 16)
      BY <1>1, <2>6 DEF Taken, Extent
    <3>2. Extent(r) \in Int BY <1>1, <3>1, SizesFit, DimensionsNat
    <3> QED BY <1>4, <3>1, <3>2
  <2>7. CASE r \in {"MEIW", "BSBB", "BSBT", "ADR_BSBS", "BSBR"}
    <3>1. /\ r = "MEIW" => B(r) = "meiw" /\ O(r) = 0
          /\ r = "BSBT" => B(r) = "bs" /\ O(r) = BsSize - 1
          /\ r \in {"BSBB", "ADR_BSBS", "BSBR"} => B(r) = "bs" /\ O(r) = 0
          /\ Extent(r) = 1
      BY <1>1, <2>7 DEF Taken, Extent
    <3>2. SizeOf("bs") = BsSize /\ BsSize \in Nat /\ 1 <= BsSize /\ 1 <= SizeOf("meiw")
      BY <1>4 DEF BsSize
    <3>3. \/ B(r) = "meiw" /\ O(r) = 0
          \/ B(r) = "bs" /\ O(r) = BsSize - 1
          \/ B(r) = "bs" /\ O(r) = 0
      BY <2>7, <3>1
    <3> QED BY <3>1, <3>2, <3>3
  <2> QED BY <2>1, <2>2, <2>3, <2>4, <2>5, <2>6, <2>7 DEF Registers
<1>7. \A r \in Registers : /\ Region(r).buffer = B(r) /\ Region(r).from = O(r)
                           /\ Region(r).to = O(r) + Extent(r)
  BY DEF Region
<1>8. Apart(Region("ADR_SRC0"), Region("ADR_SRC1")) <=> Luma < Reach
  <2>1. /\ B("ADR_SRC0") = "src" /\ O("ADR_SRC0") = 0 /\ Extent("ADR_SRC0") = Luma
        /\ B("ADR_SRC1") = "src" /\ O("ADR_SRC1") = luma /\ Extent("ADR_SRC1") = Luma \div 2
    BY <1>1 DEF Taken, Extent, luma
  <2>2. /\ Region("ADR_SRC0").buffer = "src" /\ Region("ADR_SRC1").buffer = "src"
        /\ Region("ADR_SRC0").from = 0 /\ Region("ADR_SRC0").to = Luma
        /\ Region("ADR_SRC1").from = luma /\ Region("ADR_SRC1").to = luma + Luma \div 2
    BY <1>4, <1>7, <2>1 DEF Registers
  <2>3. Luma \div 2 > 0 /\ Reach \in Nat /\ Reach > 0 BY <1>1, <1>4, SizesFit DEF Reach
  <2>4. (Luma <= luma \/ luma + Luma \div 2 <= 0) <=> Luma < Reach BY <1>4, <1>13, <2>3
  <2> QED BY <2>2, <2>4 DEF Apart
<1>9. Apart(Region("RFPW_H"), Region("RFPW_B")) <=> PixelHdr < Reach
  <2> DEFINE h == (W64 * H64) \div 64
  <2>1. /\ B("RFPW_H") = "reconw" /\ O("RFPW_H") = 0 /\ Extent("RFPW_H") = h
        /\ B("RFPW_B") = "reconw" /\ O("RFPW_B") = body /\ Extent("RFPW_B") = PixelBdy
    BY <1>1 DEF Taken, Extent, body
  <2>3. h \in Nat /\ h <= PixelHdr /\ PixelHdr < h + 8192 /\ PixelBdy > 0 BY <1>1, SizesFit
  <2> HIDE DEF h
  <2>2. /\ Region("RFPW_H").buffer = "reconw" /\ Region("RFPW_B").buffer = "reconw"
        /\ Region("RFPW_H").from = 0 /\ Region("RFPW_H").to = h
        /\ Region("RFPW_B").from = body /\ Region("RFPW_B").to = body + PixelBdy
    BY <1>7, <2>1, <2>3 DEF Registers
  <2>4. (h <= body \/ body + PixelBdy <= 0) <=> PixelHdr < Reach
    BY <1>4, <1>13, <2>3 DEF Reach
  <2> QED BY <2>2, <2>4 DEF Apart
<1>10. /\ vt.hw.at["RFPW_H"] = vt.hw.at["RFPR_H"] /\ vt.hw.at["RFPW_B"] = vt.hw.at["RFPR_B"]
       /\ vt.hw.at["DSPW"] = vt.hw.at["DSPR"] /\ vt.hw.at["SMEAR_WR"] = vt.hw.at["SMEAR_RD"]
  BY <1>1 DEF Taken
<1>11. \A p \in {<<"RFPW_H", "RFPR_H">>, <<"RFPW_B", "RFPR_B">>, <<"DSPW", "DSPR">>,
                 <<"SMEAR_WR", "SMEAR_RD">>} : vt.hw.at[p[1]] = vt.hw.at[p[2]]
  BY <1>10
<1>12. \A r \in DOMAIN vt.hw.at : /\ vt.hw.at[r][1] # "none"
                                  /\ Region(r).to <= SizeOf(Region(r).buffer)
  BY <1>5, <1>6, <1>7
<1> QED BY <1>1, <1>8, <1>9, <1>11, <1>12 DEF HardwareGetsTheFrame, Classes

(* For every size of picture, each pointer of vepu-vendor-test leads to a region
   inside its buffer, the hardware starts with all six classes, and chroma and
   the body of the reconstruction are apart from what lies before them exactly
   while their offsets fit 22 bits. *)
THEOREM FrameTheorem == VendorSpec => []HardwareGetsTheFrame
<1>1. VendorInit => VendorInv BY VendorStart
<1>2. VendorInv /\ [VendorNext]_vt => VendorInv'
  <2>1. ASSUME VendorInv, UNCHANGED vt PROVE VendorInv'
    <3>1. Pointers' = Pointers /\ Taken' = Taken
      BY <2>1 DEF Pointers, Taken, Fd, Buffers, Luma, PixelHdr, PixelBdy, W16, H16, W64, H64
    <3>2. Messages' = Messages BY DEF Messages, Message
    <3>3. FdsInv' BY <2>1 DEF VendorInv, FdsInv
    <3> QED BY <2>1, <3>1, <3>2, <3>3 DEF VendorInv
  <2> QED BY <2>1, VendorStep
<1>3. VendorInv => HardwareGetsTheFrame BY TakenFits DEF HardwareGetsTheFrame
<1> QED BY <1>1, <1>2, <1>3, PTL DEF VendorSpec
-------------------------------------------------------------------------------
(***************************************************************************)
(* The model runners.                                                      *)
(***************************************************************************)

RunnerPcs == {"init", "set", "run", "get", "judge", "release", "destroy", "exit"}
Verdicts == {"none", "below", "clamped", "recomputes", "wall", "mixed"}
Runner == [prog : {"runner", "runner_out", "runner_multi"}, pc : RunnerPcs,
           zp : Int, type : {"INT8", "UINT8"}, run : Nat, input : Int,
           fresh : Seq(BOOLEAN), got : Seq(BOOLEAN), output : Int, sum0 : Int,
           differed : Nat, below : {0, 1}, seen : SUBSET Nat, verdict : Verdicts, code : Int]

(* What has been computed, got back and judged so far. *)
Inferred == IF rn.pc \in {"get", "judge", "release"} THEN rn.run + 1 ELSE rn.run
Fetched == IF rn.pc \in {"judge", "release"} THEN rn.run + 1 ELSE rn.run
Judged == IF rn.pc = "release" THEN rn.run + 1 ELSE rn.run

Baseline(fresh) == IF fresh # <<>> /\ fresh[1] THEN 1 ELSE 0

CountInv ==
  /\ rn.pc # "exit" => rn.code = -1
  /\ rn.pc # "exit" /\ rn.prog # "runner" => Len(rn.fresh) = Inferred /\ Len(rn.got) = Fetched
  /\ rn.pc = "init" => rn.run = 0 /\ rn.output = 0 /\ rn.differed = 0 /\ rn.sum0 = 0
  /\ rn.pc \in {"set", "run", "get", "judge", "release"} => rn.run < Runs
  /\ rn.pc = "destroy" /\ rn.prog # "runner" => rn.run = Runs
  /\ rn.pc = "run" => rn.input = Input(rn.run)
  /\ rn.pc = "judge" /\ rn.prog # "runner" => rn.got[rn.run + 1]

(* The output is that of the first run, or what was there before it, until a
   later run replaces it. *)
OutputInv ==
  rn.prog = "runner_multi" /\ rn.pc # "exit" =>
    /\ rn.output >= 0
    /\ Replaced(rn.fresh, Inferred) <=> rn.output # Baseline(rn.fresh)

(* The count of the differing runs is full exactly when all later ones count,
   and 0 exactly when none does. *)
TallyInv ==
  rn.prog = "runner_multi" /\ rn.pc # "exit" =>
    /\ Judged = 0 => rn.differed = 0 /\ rn.sum0 = 0
    /\ Judged >= 1 =>
         /\ rn.sum0 = IF rn.got[1] THEN 100 + Baseline(rn.fresh) ELSE 0
         /\ rn.differed <= Judged - 1
         /\ (rn.differed = Judged - 1) <=> \A r \in 2..Judged : Counts(rn.fresh, rn.got, r)
         /\ (rn.differed = 0) <=> \A r \in 2..Judged : ~Counts(rn.fresh, rn.got, r)

BelowInv ==
  rn.prog = "runner_out" /\ rn.pc \in {"release", "destroy"} =>
    ((rn.below > 0) <=> \E b \in rn.seen : Real(b) < 0)

RunInv == rn \in Runner /\ CountInv /\ OutputInv /\ TallyInv /\ BelowInv /\ VerdictsHold

(* The first byte of a ramp: that of the first one comes back every 251 runs. *)
LEMMA RampsDiffer == /\ Input(0) = 0
                     /\ \A r \in Nat : Input(r) \in Nat
                     /\ \A r \in Nat : Input(r) = 0 <=> r % 251 = 0
<1>1. ASSUME NEW r \in Nat, NEW q \in Int, r > 0, r < 251, r * 37 = 251 * q PROVE FALSE
  <2>1. PICK v \in Int : v = 7 * q - r BY <1>1
  <2>2. 37 * v = 8 * q /\ q > 0 /\ q < 37 BY <1>1, <2>1
  <2>3. PICK w \in Int : w = 5 * v - q BY <1>1, <2>1
  <2>4. 8 * w = 3 * v /\ v > 0 /\ v < 8 BY <1>1, <2>1, <2>2, <2>3
  <2>5. w = 1 \/ w = 2 BY <2>3, <2>4
  <2> QED BY <2>1, <2>4, <2>5
<1>2. ASSUME NEW r \in Nat PROVE Input(r) \in Nat /\ \E q \in Int : r * 37 = 251 * q + Input(r)
  <2>1. (r * 37) \div 251 \in Int BY <1>2
  <2>2. r * 37 = 251 * ((r * 37) \div 251) + Input(r) /\ Input(r) \in Nat
    BY <1>2 DEF Input
  <2> QED BY <2>1, <2>2
<1>m. ASSUME NEW r \in Nat PROVE \E e \in Int, d \in 0..250 : r = 251 * e + d /\ d = r % 251
  OBVIOUS
<1>3. ASSUME NEW r \in Nat PROVE Input(r) = 0 <=> r % 251 = 0
  <2>1. PICK q \in Int : r * 37 = 251 * q + Input(r) BY <1>2
  <2>2. PICK e \in Int, d \in Nat : r = 251 * e + d /\ d < 251 /\ d = r % 251
    BY <1>m
  <2>3. ASSUME Input(r) = 0, d > 0 PROVE FALSE
    <3>1. PICK k \in Int : k = q - 37 * e OBVIOUS
    <3>2. d * 37 = 251 * k BY <2>1, <2>2, <2>3, <3>1
    <3> QED BY <1>1, <2>2, <2>3, <3>2
  <2>4. ASSUME d = 0 PROVE Input(r) = 0
    <3>1. r * 37 = 251 * (37 * e) /\ 37 * e \in Int BY <2>2, <2>4
    <3>2. \A z \in Int : (251 * z) % 251 = 0 OBVIOUS
    <3> QED BY <3>1, <3>2 DEF Input
  <2>5. d = 0 \/ d > 0 BY <2>2
  <2> QED BY <2>2, <2>3, <2>4, <2>5
<1> QED BY <1>2, <1>3 DEF Input

(* Nothing has run yet. *)
LEMMA RunInit == ASSUME RunnersInit PROVE RunInv
<1>1. PICK prog \in {"runner", "runner_out", "runner_multi"}, zp \in ZeroPoints,
           type \in {"INT8", "UINT8"} :
           rn = [prog |-> prog, pc |-> "init", zp |-> zp, type |-> type, run |-> 0,
                   input |-> -1, fresh |-> <<>>, got |-> <<>>, output |-> 0,
                   sum0 |-> 0, differed |-> 0, below |-> 0, seen |-> {},
                   verdict |-> "none", code |-> -1]
  BY DEF RunnersInit
<1>2. rn \in Runner
  BY <1>1, RunnersConstantsOK DEF Runner, RunnerPcs, Verdicts
<1>3. rn.pc = "init" /\ rn.run = 0 /\ rn.fresh = <<>> /\ rn.got = <<>> /\ rn.output = 0
      /\ rn.differed = 0 /\ rn.sum0 = 0 /\ rn.code = -1
  BY <1>1
<1>4. CountInv
  BY <1>3 DEF CountInv, Inferred, Fetched
<1>5. OutputInv /\ TallyInv /\ BelowInv /\ VerdictsHold
  BY <1>3 DEF OutputInv, TallyInv, BelowInv, VerdictsHold, Replaced, Inferred, Judged, Baseline
<1> QED BY <1>2, <1>4, <1>5 DEF RunInv

(* The fields that no call changes, and those only some do. *)
Same == /\ rn'.prog = rn.prog /\ rn'.zp = rn.zp /\ rn'.type = rn.type
SameRun == Same /\ rn'.run = rn.run /\ rn'.fresh = rn.fresh /\ rn'.output = rn.output
SameTally == /\ rn'.sum0 = rn.sum0 /\ rn'.differed = rn.differed
             /\ rn'.below = rn.below /\ rn'.seen = rn.seen

(* The lemmas up to DestroyDoes say field by field what a step does to the
   record.  Here: an exit. *)
LEMMA ExitDoes == ASSUME rn \in Runner, NEW c \in Int, rn' = RunnerExit(c)
  PROVE /\ rn' \in Runner /\ SameRun /\ SameTally /\ rn'.got = rn.got
        /\ rn'.pc = "exit" /\ rn'.code = c
<1> DEFINE p == "exit"
<1>1. p \in RunnerPcs /\ rn' = [rn EXCEPT !.pc = p, !.code = c]
  BY DEF RunnerExit, RunnerPcs
<1> HIDE DEF p
<1>2. rn' \in Runner /\ SameRun /\ SameTally /\ rn'.got = rn.got /\ rn'.pc = p /\ rn'.code = c
  BY <1>1 DEF Runner, Same, SameRun, SameTally
<1> QED BY <1>2 DEF p

(* Reading the model and rknn_init(): on to the first run, or out. *)
LEMMA StartDoes == ASSUME rn \in Runner, Start
  PROVE /\ rn' \in Runner /\ rn.pc = "init" /\ SameRun /\ SameTally /\ rn'.got = rn.got
        /\ \/ rn'.pc = "exit" /\ rn'.code = 1
           \/ rn'.pc = "set" /\ rn'.code = rn.code
<1>1. CASE rn' = RunnerExit(1)
  BY <1>1, ExitDoes DEF Start
<1>2. CASE rn' = RunnerGoes("set")
  BY <1>2 DEF Start, RunnerGoes, Runner, RunnerPcs, Same, SameRun, SameTally
<1> QED BY <1>1, <1>2 DEF Start

(* rknn_inputs_set(): the input is the ramp of this run. *)
LEMMA SetDoes == ASSUME rn \in Runner, InputsSet
  PROVE /\ rn' \in Runner /\ rn.pc = "set" /\ SameRun /\ SameTally /\ rn'.got = rn.got
        /\ rn'.pc = "run" /\ rn'.code = rn.code /\ rn'.input = Input(rn.run)
<1> DEFINE x == Input(rn.run)
<1>1. x \in Int BY RampsDiffer DEF Runner
<1>2. rn.pc = "set" /\ rn' = [[rn EXCEPT !.pc = "run"] EXCEPT !.input = x]
  BY DEF InputsSet, RunnerGoes
<1> HIDE DEF x
<1>3. /\ rn' \in Runner /\ SameRun /\ SameTally /\ rn'.got = rn.got
      /\ rn'.pc = "run" /\ rn'.code = rn.code /\ rn'.input = x
  BY <1>1, <1>2 DEF Runner, RunnerPcs, Same, SameRun, SameTally
<1> QED BY <1>2, <1>3 DEF x

(* rknn_run(): the output is that of the input, or what it was. *)
LEMMA InferDoes == ASSUME rn \in Runner, Infer
  PROVE /\ rn' \in Runner /\ rn.pc = "run" /\ Same /\ SameTally /\ rn'.got = rn.got
        /\ rn'.pc = (IF rn.prog = "runner" THEN "destroy" ELSE "get") /\ rn'.code = rn.code
        /\ rn'.run = rn.run
        /\ \E computed \in BOOLEAN :
             /\ rn'.fresh = Append(rn.fresh, computed)
             /\ rn'.output = IF computed THEN rn.input + 1 ELSE rn.output
<1>1. PICK computed \in BOOLEAN :
          rn' = [[rn EXCEPT !.pc = IF rn.prog = "runner" THEN "destroy" ELSE "get"] EXCEPT
                   !.fresh = Append(@, computed), !.output = IF computed THEN rn.input + 1 ELSE @]
  BY DEF Infer, RunnerGoes
<1> DEFINE p == IF rn.prog = "runner" THEN "destroy" ELSE "get"
           s == Append(rn.fresh, computed)
           o == IF computed THEN rn.input + 1 ELSE rn.output
<1>2. p \in RunnerPcs /\ s \in Seq(BOOLEAN) /\ o \in Int BY DEF Runner, RunnerPcs
<1>3. rn.pc = "run" /\ rn' = [[rn EXCEPT !.pc = p] EXCEPT !.fresh = s, !.output = o]
  BY <1>1 DEF Infer, Runner
<1> HIDE DEF p, s, o
<1>4. /\ rn' \in Runner /\ Same /\ SameTally /\ rn'.got = rn.got /\ rn'.run = rn.run
      /\ rn'.pc = p /\ rn'.code = rn.code /\ rn'.fresh = s /\ rn'.output = o
  BY <1>2, <1>3 DEF Runner, Same, SameTally
<1> QED BY <1>3, <1>4 DEF p, s, o

(* rknn_outputs_get(): an output, or none; runner_out.c gives up without one.
   *)
LEMMA GetDoes == ASSUME rn \in Runner, OutputsGet
  PROVE /\ rn' \in Runner /\ rn.pc = "get" /\ SameRun
        /\ rn'.sum0 = rn.sum0 /\ rn'.differed = rn.differed
        /\ \/ rn'.pc = "judge" /\ rn'.code = rn.code /\ rn'.got = Append(rn.got, TRUE)
           \/ rn'.pc = "exit" /\ rn'.code = 1
           \/ /\ rn'.pc = "release" /\ rn'.code = rn.code /\ rn.prog # "runner_out"
              /\ rn'.got = Append(rn.got, FALSE)
<1>0. rn.pc = "get" BY DEF OutputsGet
<1>1. CASE \E bytes \in (SUBSET Bytes) \ {{}} :
             rn' = [RunnerGoes("judge") EXCEPT !.got = Append(@, TRUE),
                               !.seen = IF rn.prog = "runner_out" THEN bytes ELSE {}]
  <2>1. PICK bytes \in (SUBSET Bytes) \ {{}} :
             rn' = [[rn EXCEPT !.pc = "judge"] EXCEPT !.got = Append(@, TRUE),
                               !.seen = IF rn.prog = "runner_out" THEN bytes ELSE {}]
    BY <1>1 DEF RunnerGoes
  <2> DEFINE g == Append(rn.got, TRUE)
             b == IF rn.prog = "runner_out" THEN bytes ELSE {}
  <2>2. g \in Seq(BOOLEAN) /\ b \in SUBSET Nat BY RunnersConstantsOK DEF Runner
  <2>3. rn' = [[rn EXCEPT !.pc = "judge"] EXCEPT !.got = g, !.seen = b] BY <2>1 DEF Runner
  <2> HIDE DEF g, b
  <2>4. /\ rn' \in Runner /\ SameRun /\ rn'.sum0 = rn.sum0 /\ rn'.differed = rn.differed
        /\ rn'.pc = "judge" /\ rn'.code = rn.code /\ rn'.got = g
    BY <2>2, <2>3 DEF Runner, RunnerPcs, Same, SameRun
  <2> QED BY <1>0, <2>4 DEF g
<1>2. CASE rn' = RunnerExit(1)
  <2>1. 1 \in Int OBVIOUS
  <2>2. rn' \in Runner /\ SameRun /\ SameTally /\ rn'.pc = "exit" /\ rn'.code = 1
    BY <1>2, <2>1, ExitDoes
  <2> QED BY <1>0, <2>2 DEF SameTally
<1>3. CASE rn.prog # "runner_out" /\ rn' = [RunnerGoes("release") EXCEPT !.got = Append(@, FALSE)]
  <2> DEFINE g == Append(rn.got, FALSE)
  <2>1. g \in Seq(BOOLEAN) BY DEF Runner
  <2>2. rn' = [[rn EXCEPT !.pc = "release"] EXCEPT !.got = g] BY <1>3 DEF Runner, RunnerGoes
  <2> HIDE DEF g
  <2>3. /\ rn' \in Runner /\ SameRun /\ rn'.sum0 = rn.sum0 /\ rn'.differed = rn.differed
        /\ rn'.pc = "release" /\ rn'.code = rn.code /\ rn'.got = g
    BY <2>1, <2>2 DEF Runner, RunnerPcs, Same, SameRun
  <2> QED BY <1>0, <1>3, <2>3 DEF g
<1> QED BY <1>1, <1>2, <1>3 DEF OutputsGet

(* runner_multi.c compares the hash with that of the first run. *)
LEMMA JudgeMultiDoes == ASSUME rn \in Runner, JudgeMulti
  PROVE /\ rn' \in Runner /\ rn.pc = "judge" /\ rn.prog = "runner_multi" /\ SameRun
        /\ rn'.got = rn.got /\ rn'.pc = "release" /\ rn'.code = rn.code
        /\ rn'.sum0 = (IF rn.run = 0 THEN 100 + rn.output ELSE rn.sum0)
        /\ rn'.differed = IF rn.run > 0 /\ 100 + rn.output # rn.sum0 THEN rn.differed + 1
                                                                     ELSE rn.differed
<1> DEFINE s == IF rn.run = 0 THEN 100 + rn.output ELSE rn.sum0
           d == IF rn.run > 0 /\ 100 + rn.output # rn.sum0 THEN rn.differed + 1 ELSE rn.differed
<1>1. s \in Int /\ d \in Nat BY DEF Runner
<1>2. /\ rn.pc = "judge" /\ rn.prog = "runner_multi"
      /\ rn' = [[rn EXCEPT !.pc = "release"] EXCEPT !.sum0 = s, !.differed = d]
  BY DEF JudgeMulti, RunnerGoes, Sum, Runner
<1> HIDE DEF s, d
<1>3. /\ rn' \in Runner /\ SameRun /\ rn'.got = rn.got /\ rn'.pc = "release"
      /\ rn'.code = rn.code /\ rn'.sum0 = s /\ rn'.differed = d
  BY <1>1, <1>2 DEF Runner, RunnerPcs, Same, SameRun
<1> QED BY <1>2, <1>3 DEF s, d

(* runner_out.c looks for a value below the zero point. *)
LEMMA JudgeOutDoes == ASSUME rn \in Runner, JudgeOut
  PROVE /\ rn' \in Runner /\ rn.pc = "judge" /\ rn.prog = "runner_out" /\ SameRun
        /\ rn'.got = rn.got /\ rn'.pc = "release" /\ rn'.code = rn.code /\ rn'.seen = rn.seen
        /\ rn'.below = IF \E b \in rn.seen : Read(b) < rn.zp THEN 1 ELSE 0
<1> DEFINE w == IF \E b \in rn.seen : Read(b) < rn.zp THEN 1 ELSE 0
<1>1. w \in {0, 1} OBVIOUS
<1>2. (IF {b \in rn.seen : Read(b) < rn.zp} = {} THEN 0 ELSE 1) = w OBVIOUS
<1>3. /\ rn.pc = "judge" /\ rn.prog = "runner_out"
      /\ rn' = [[rn EXCEPT !.pc = "release"] EXCEPT !.below = w]
  BY <1>2 DEF JudgeOut, RunnerGoes
<1> HIDE DEF w
<1>4. /\ rn' \in Runner /\ SameRun /\ rn'.got = rn.got /\ rn'.pc = "release"
      /\ rn'.code = rn.code /\ rn'.seen = rn.seen /\ rn'.below = w
  BY <1>1, <1>3 DEF Runner, RunnerPcs, Same, SameRun
<1> QED BY <1>3, <1>4 DEF w

(* rknn_outputs_release(), and the next run or the end. *)
LEMMA ReleaseDoes == ASSUME rn \in Runner, Release
  PROVE /\ rn' \in Runner /\ rn.pc = "release" /\ Same /\ SameTally
        /\ rn'.run = rn.run + 1 /\ rn'.fresh = rn.fresh /\ rn'.output = rn.output
        /\ rn'.got = rn.got /\ rn'.code = rn.code
        /\ rn'.pc = IF rn.run + 1 < Runs THEN "set" ELSE "destroy"
<1> DEFINE p == IF rn.run + 1 < Runs THEN "set" ELSE "destroy"
           n == rn.run + 1
<1>1. p \in RunnerPcs /\ n \in Nat BY DEF Runner, RunnerPcs
<1>2. rn.pc = "release" /\ rn' = [rn EXCEPT !.run = n, !.pc = p]
  BY DEF Release, Runner
<1> HIDE DEF p, n
<1>3. /\ rn' \in Runner /\ Same /\ SameTally /\ rn'.run = n /\ rn'.fresh = rn.fresh
      /\ rn'.output = rn.output /\ rn'.got = rn.got /\ rn'.code = rn.code /\ rn'.pc = p
  BY <1>1, <1>2 DEF Runner, Same, SameTally
<1> QED BY <1>2, <1>3 DEF p, n

(* rknn_destroy() and the verdict. *)
LEMMA DestroyDoes == ASSUME rn \in Runner, Destroy
  PROVE /\ rn' \in Runner /\ rn.pc = "destroy" /\ SameRun /\ SameTally
        /\ rn'.got = rn.got /\ rn'.pc = "exit"
        /\ rn.prog = "runner_out" =>
             rn'.verdict = IF rn.below > 0 THEN "below" ELSE "clamped"
        /\ rn.prog = "runner_multi" => rn'.verdict = MultiVerdict
<1> DEFINE v == CASE rn.prog = "runner" -> "none"
                  [] rn.prog = "runner_out" -> IF rn.below > 0 THEN "below" ELSE "clamped"
                  [] OTHER -> MultiVerdict
<1>0. MultiVerdict \in Verdicts BY DEF MultiVerdict, Verdicts
<1>1. v \in Verdicts BY <1>0 DEF Verdicts
<1> DEFINE p == "exit"
           c == 0
<1>2. /\ p \in RunnerPcs /\ c \in Int /\ rn.pc = "destroy"
      /\ rn' = [[rn EXCEPT !.pc = p, !.code = c] EXCEPT !.verdict = v]
  BY DEF Destroy, RunnerExit, RunnerPcs
<1>3. /\ rn.prog = "runner_out" => v = (IF rn.below > 0 THEN "below" ELSE "clamped")
      /\ rn.prog = "runner_multi" => v = MultiVerdict
  OBVIOUS
<1> HIDE DEF v, p, c
<1>4. /\ rn' \in Runner /\ SameRun /\ SameTally /\ rn'.got = rn.got /\ rn'.pc = p
      /\ rn'.verdict = v
  BY <1>1, <1>2 DEF Runner, Same, SameRun, SameTally
<1> QED BY <1>2, <1>3, <1>4 DEF p


(* What one more run adds to the history of the runs: up to the one before it
   nothing, and then it counts alone if it computed. *)
LEMMA AppendedRun ==
  ASSUME NEW f \in Seq(BOOLEAN), NEW c \in BOOLEAN, NEW m \in Nat, Len(f) = m
  PROVE  /\ \A r \in 0..m : Replaced(Append(f, c), r) <=> Replaced(f, r)
         /\ m > 0 /\ c => (Replaced(Append(f, c), m + 1) <=> ~(f[1] /\ m % 251 = 0))
         /\ m > 0 /\ ~c => (Replaced(Append(f, c), m + 1) <=> Replaced(f, m))
         /\ m > 0 => Baseline(Append(f, c)) = Baseline(f) /\ Baseline(f) = IF f[1] THEN 1 ELSE 0
         /\ m = 0 => /\ ~Replaced(Append(f, c), 1) /\ ~Replaced(f, 0)
                     /\ Baseline(Append(f, c)) = (IF c THEN 1 ELSE 0) /\ Baseline(f) = 0
<1> DEFINE g == Append(f, c)
<1>1. Len(g) = m + 1 /\ g[m + 1] = c /\ g # <<>> /\ \A r \in 1..m : g[r] = f[r]
  OBVIOUS
<1> HIDE DEF g
<1>2. ASSUME NEW r \in 0..m PROVE Replaced(g, r) <=> Replaced(f, r)
  <2>1. \A k \in 2..r : k \in 1..m /\ 1 \in 1..m OBVIOUS
  <2>2. \A k \in 2..r : g[k] = f[k] /\ g[1] = f[1] BY <1>1, <2>1
  <2>3. \A k \in 2..r : \A j \in (k + 1)..r : j \in 2..r OBVIOUS
  <2> QED BY <2>2, <2>3 DEF Replaced, Repeats
<1>3. ASSUME m > 0, c PROVE Replaced(g, m + 1) <=> ~(f[1] /\ m % 251 = 0)
  <2>1. m + 1 \in 2..(m + 1) /\ (m + 1) - 1 = m /\ g[1] = f[1] /\ g[m + 1]
    BY <1>1, <1>3
  <2>2. \A k \in 2..(m + 1) : k = m + 1 \/ m + 1 \in (k + 1)..(m + 1) OBVIOUS
  <2>3. ((m + 1) + 1)..(m + 1) = {} OBVIOUS
  <2> QED BY <2>1, <2>2, <2>3 DEF Replaced, Repeats
<1>4. ASSUME m > 0, ~c PROVE Replaced(g, m + 1) <=> Replaced(g, m)
  <2>1. ~g[m + 1] BY <1>1, <1>4
  <2>2. \A k : k \in 2..(m + 1) <=> k \in 2..m \/ k = m + 1 BY <1>4
  <2>3. \A k \in 2..m : \A j : j \in (k + 1)..(m + 1) <=> j \in (k + 1)..m \/ j = m + 1
    OBVIOUS
  <2> QED BY <2>1, <2>2, <2>3 DEF Replaced
<1>5. /\ m > 0 => Baseline(g) = Baseline(f) /\ Baseline(f) = IF f[1] THEN 1 ELSE 0
      /\ m = 0 => Baseline(g) = (IF c THEN 1 ELSE 0) /\ Baseline(f) = 0
  BY <1>1 DEF Baseline
<1>6. ~Replaced(g, 1) /\ ~Replaced(f, 0) BY DEF Replaced
<1>7. m \in 0..m OBVIOUS
<1> QED BY <1>2, <1>3, <1>4, <1>5, <1>6, <1>7 DEF g

(* Whether a run counts does not depend on the runs after it. *)
LEMMA AppendedCounts ==
  ASSUME NEW f \in Seq(BOOLEAN), NEW got \in Seq(BOOLEAN), NEW m \in Nat,
         NEW f1 \in {f} \cup {Append(f, c) : c \in BOOLEAN},
         NEW got1 \in {got} \cup {Append(got, c) : c \in BOOLEAN},
         m <= Len(f), m <= Len(got)
  PROVE  /\ \A r \in 2..m : Counts(f1, got1, r) <=> Counts(f, got, r)
         /\ m > 0 => got1[1] = got[1] /\ Baseline(f1) = Baseline(f)
<1>1. \A r \in 0..m : Replaced(f1, r) <=> Replaced(f, r)
  <2>1. ASSUME NEW c \in BOOLEAN, f1 = Append(f, c)
        PROVE \A r \in 0..m : Replaced(f1, r) <=> Replaced(f, r)
    <3>1. \A r \in 0..m : r \in 0..Len(f) OBVIOUS
    <3> QED BY <2>1, <3>1, AppendedRun
  <2> QED BY <2>1
<1>2. \A r \in 1..m : got1[r] = got[r]
  <2>1. \A c \in BOOLEAN : \A r \in 1..m : Append(got, c)[r] = got[r] OBVIOUS
  <2> QED BY <2>1
<1>3. m > 0 => Baseline(f1) = Baseline(f)
  <2>1. ASSUME NEW c \in BOOLEAN, f1 = Append(f, c), m > 0 PROVE Baseline(f1) = Baseline(f)
    <3>1. Len(f) > 0 /\ Len(f) \in Nat BY <2>1
    <3> QED BY <2>1, <3>1, AppendedRun
  <2> QED BY <2>1
<1>4. \A r \in 2..m : r \in 0..m /\ r \in 1..m /\ 1 \in 1..m OBVIOUS
<1>5. m > 0 => 1 \in 1..m OBVIOUS
<1> QED BY <1>1, <1>2, <1>3, <1>4, <1>5 DEF Counts

(* The histories are as long as the place in the loop says. *)
LEMMA CountStep == ASSUME RunInv, RunnersNext PROVE CountInv'
<1> USE DEF RunInv, CountInv, Inferred, Fetched, Runs, Same, SameRun, SameTally
<1>0. /\ rn.prog \in {"runner", "runner_out", "runner_multi"}
      /\ rn.run \in Nat /\ rn.fresh \in Seq(BOOLEAN) /\ rn.got \in Seq(BOOLEAN)
      /\ NumRuns \in Nat /\ NumRuns > 0 /\ rn \in Runner
  BY RunnersConstantsOK DEF Runner
<1>1. CASE Start BY <1>0, <1>1, StartDoes
<1>2. CASE InputsSet BY <1>0, <1>2, SetDoes
<1>3. CASE Infer
  <2>1. /\ rn.pc = "run" /\ Same /\ rn'.got = rn.got /\ rn'.run = rn.run
        /\ rn'.pc = (IF rn.prog = "runner" THEN "destroy" ELSE "get") /\ rn'.code = rn.code
        /\ \E computed \in BOOLEAN : rn'.fresh = Append(rn.fresh, computed)
    BY <1>0, <1>3, InferDoes
  <2>2. Len(rn'.fresh) = Len(rn.fresh) + 1 BY <1>0, <2>1
  <2>3. Runs' = Runs BY <2>1
  <2>4. rn.code = -1 BY <1>0, <2>1
  <2>7. rn.run < Runs BY <2>1
  <2>5. CASE rn.prog = "runner"
    <3>1. rn'.pc = "destroy" /\ rn'.prog = "runner" BY <2>1, <2>5
    <3>2. rn'.code = -1 BY <2>1, <2>4
    <3> QED BY <3>1, <3>2
  <2>6. CASE rn.prog # "runner"
    <3>1. Len(rn.fresh) = rn.run /\ Len(rn.got) = rn.run BY <2>1, <2>6
    <3> HIDE DEF Runs
    <3> QED BY <1>0, <2>1, <2>2, <2>3, <2>4, <2>6, <2>7, <3>1
  <2> QED BY <2>5, <2>6
<1>4. CASE OutputsGet
  <2>1. \A c \in BOOLEAN : Len(Append(rn.got, c)) = Len(rn.got) + 1 BY <1>0
  <2>2. /\ rn.pc = "get" /\ SameRun
        /\ \/ rn'.pc = "judge" /\ rn'.code = rn.code /\ rn'.got = Append(rn.got, TRUE)
           \/ rn'.pc = "exit"
           \/ rn'.pc = "release" /\ rn'.code = rn.code /\ rn'.got = Append(rn.got, FALSE)
    BY <1>0, <1>4, GetDoes
  <2>3. rn.code = -1 /\ rn.run < Runs /\ Runs' = Runs BY <2>2
  <2>4. rn.prog # "runner" => Len(rn.fresh) = rn.run + 1 /\ Len(rn.got) = rn.run BY <2>2
  <2>5. Len(rn.got) \in Nat BY <1>0
  <2> HIDE DEF Runs
  <2>6. CASE rn'.pc = "judge"
    <3>1. /\ rn'.got = Append(rn.got, TRUE) /\ rn'.code = -1
          /\ rn'.fresh = rn.fresh /\ rn'.run = rn.run /\ rn'.prog = rn.prog
      BY <2>2, <2>3, <2>6
    <3>2. Len(rn'.got) = Len(rn.got) + 1 BY <2>1, <3>1
    <3>3. rn.prog # "runner" => rn'.got[rn.run + 1] /\ Len(rn'.got) = rn.run + 1
      <4>1. Append(rn.got, TRUE)[Len(rn.got) + 1] BY <1>0
      <4> QED BY <2>4, <3>1, <3>2, <4>1
    <3>4. rn'.run < Runs' /\ rn'.code = -1 BY <2>3, <3>1
    <3>5. rn'.prog # "runner" => rn'.got[rn'.run + 1] BY <3>1, <3>3
    <3>6. rn'.prog # "runner" => Len(rn'.fresh) = rn'.run + 1 /\ Len(rn'.got) = rn'.run + 1
      BY <2>4, <3>1, <3>3
    <3> HIDE DEF RunInv
    <3> QED BY <2>6, <3>4, <3>5, <3>6
  <2>7. CASE rn'.pc = "release"
    <3>1. /\ rn'.got = Append(rn.got, FALSE) /\ rn'.code = -1
          /\ rn'.fresh = rn.fresh /\ rn'.run = rn.run /\ rn'.prog = rn.prog
      BY <2>2, <2>3, <2>7
    <3>2. Len(rn'.got) = Len(rn.got) + 1 BY <2>1, <3>1
    <3> QED BY <2>3, <2>4, <2>7, <3>1, <3>2
  <2>8. CASE rn'.pc = "exit" BY <2>8
  <2> QED BY <2>2, <2>6, <2>7, <2>8
<1>5. CASE JudgeMulti BY <1>0, <1>5, JudgeMultiDoes
<1>6. CASE JudgeOut BY <1>0, <1>6, JudgeOutDoes
<1>7. CASE Release BY <1>0, <1>7, ReleaseDoes
<1>8. CASE Destroy BY <1>0, <1>8, DestroyDoes
<1> QED BY <1>1, <1>2, <1>3, <1>4, <1>5, <1>6, <1>7, <1>8 DEF RunnersNext

(* The output after one more run: the ramps say whether it is replaced. *)
LEMMA OutputStep == ASSUME RunInv, RunnersNext PROVE OutputInv'
<1> USE DEF RunInv, OutputInv, Inferred, Same, SameRun, SameTally
<1>0. rn.run \in Nat /\ rn.fresh \in Seq(BOOLEAN) /\ rn \in Runner
  BY DEF Runner
<1>1. CASE Start BY <1>0, <1>1, StartDoes
<1>2. CASE InputsSet BY <1>0, <1>2, SetDoes
<1>3. CASE Infer
  <2> SUFFICES ASSUME rn.prog = "runner_multi" PROVE OutputInv'
    BY <1>0, <1>3, InferDoes
  <2> DEFINE m == rn.run
             f == rn.fresh
             x == Input(rn.run)
  <2>1. PICK c \in BOOLEAN :
          /\ rn'.fresh = Append(f, c)
          /\ rn'.output = IF c THEN rn.input + 1 ELSE rn.output
    BY <1>0, <1>3, InferDoes
  <2>2. Inferred' = m + 1 /\ rn.pc = "run" /\ Inferred = m
    BY <1>0, <1>3, InferDoes
  <2>3. Len(f) = m /\ rn.input = x /\ m \in Nat
    BY <1>0, <2>2 DEF CountInv
  <2>4. x \in Nat /\ (x = 0 <=> m % 251 = 0) /\ (m = 0 => x = 0)
    BY <2>3, RampsDiffer
  <2>5. /\ rn.output >= 0 /\ rn.output \in Int
        /\ Replaced(f, m) <=> rn.output # Baseline(f)
    BY <1>0, <2>2 DEF Runner
  <2> DEFINE g == Append(f, c)
  <2>6. /\ m > 0 /\ c => (Replaced(g, m + 1) <=> ~(f[1] /\ m % 251 = 0))
        /\ m > 0 /\ ~c => (Replaced(g, m + 1) <=> Replaced(f, m))
        /\ m > 0 => Baseline(g) = Baseline(f) /\ Baseline(f) = IF f[1] THEN 1 ELSE 0
        /\ m = 0 => /\ ~Replaced(g, 1) /\ ~Replaced(f, 0)
                    /\ Baseline(g) = (IF c THEN 1 ELSE 0) /\ Baseline(f) = 0
    BY <1>0, <2>3, AppendedRun
  <2> HIDE DEF g, x
  <2>7. rn'.output >= 0 BY <2>1, <2>3, <2>4, <2>5
  <2>8. CASE m = 0
    <3>1. rn.output = 0 BY <2>5, <2>6, <2>8
    <3>2. rn'.output = Baseline(g) BY <2>1, <2>3, <2>4, <2>6, <2>8, <3>1
    <3> QED BY <2>1, <2>2, <2>6, <2>7, <2>8, <3>2 DEF g
  <2>9. CASE m > 0 /\ c
    <3>1. rn'.output = x + 1 BY <2>1, <2>3, <2>9
    <3>2. rn'.output # Baseline(g) <=> ~(f[1] /\ m % 251 = 0)
      <4>1. CASE f[1] BY <2>4, <2>6, <2>9, <3>1, <4>1
      <4>2. CASE ~f[1] BY <2>4, <2>6, <2>9, <3>1, <4>2
      <4> QED BY <4>1, <4>2
    <3> QED BY <2>1, <2>2, <2>6, <2>7, <2>9, <3>2 DEF g
  <2>10. CASE m > 0 /\ ~c
    <3>1. rn'.output = rn.output BY <2>1, <2>10
    <3> QED BY <2>1, <2>2, <2>5, <2>6, <2>7, <2>10, <3>1 DEF g
  <2> QED BY <2>3, <2>8, <2>9, <2>10
<1>4. CASE OutputsGet BY <1>0, <1>4, GetDoes
<1>5. CASE JudgeMulti BY <1>0, <1>5, JudgeMultiDoes
<1>6. CASE JudgeOut BY <1>0, <1>6, JudgeOutDoes
<1>7. CASE Release BY <1>0, <1>7, ReleaseDoes
<1>8. CASE Destroy BY <1>0, <1>8, DestroyDoes
<1> QED BY <1>1, <1>2, <1>3, <1>4, <1>5, <1>6, <1>7, <1>8 DEF RunnersNext

(* The tally of n runs, of which the first is the baseline. *)
Tally(n, sum0, differed, fresh, got) ==
  /\ n = 0 => differed = 0 /\ sum0 = 0
  /\ n >= 1 => /\ sum0 = IF got[1] THEN 100 + Baseline(fresh) ELSE 0
               /\ differed <= n - 1
               /\ (differed = n - 1) <=> \A r \in 2..n : Counts(fresh, got, r)
               /\ (differed = 0) <=> \A r \in 2..n : ~Counts(fresh, got, r)

(* One more run that counts, or does not. *)
LEMMA TallyGrows ==
  ASSUME NEW n \in Nat, n >= 1, NEW sum0, NEW differed \in Nat, NEW fresh, NEW got,
         Tally(n, sum0, differed, fresh, got),
         NEW more \in Nat, more = IF Counts(fresh, got, n + 1) THEN differed + 1 ELSE differed
  PROVE  Tally(n + 1, sum0, more, fresh, got)
<1> DEFINE C(r) == Counts(fresh, got, r)
<1>1. /\ differed <= n - 1
      /\ (differed = n - 1) <=> \A r \in 2..n : C(r)
      /\ (differed = 0) <=> \A r \in 2..n : ~C(r)
      /\ sum0 = IF got[1] THEN 100 + Baseline(fresh) ELSE 0
      /\ more = IF C(n + 1) THEN differed + 1 ELSE differed
  BY DEF Tally
<1> HIDE DEF C
<1>2. \A r : r \in 2..(n + 1) <=> r \in 2..n \/ r = n + 1 OBVIOUS
<1>3. /\ (\A r \in 2..(n + 1) : C(r)) <=> (\A r \in 2..n : C(r)) /\ C(n + 1)
      /\ (\A r \in 2..(n + 1) : ~C(r)) <=> (\A r \in 2..n : ~C(r)) /\ ~C(n + 1)
  BY <1>2
<1>4. (more = n) <=> C(n + 1) /\ differed = n - 1 BY <1>1
<1>5. (more = 0) <=> ~C(n + 1) /\ differed = 0 BY <1>1
<1>6. more <= n /\ (n + 1) - 1 = n BY <1>1
<1>7. (more = n) <=> \A r \in 2..(n + 1) : C(r) BY <1>1, <1>3, <1>4
<1>8. (more = 0) <=> \A r \in 2..(n + 1) : ~C(r) BY <1>1, <1>3, <1>5
<1> QED BY <1>1, <1>6, <1>7, <1>8 DEF Tally, C

(* What is added to the histories behind the judged runs leaves their tally. *)
LEMMA TallyStays ==
  ASSUME NEW f \in Seq(BOOLEAN), NEW got \in Seq(BOOLEAN), NEW m \in Nat,
         NEW f1 \in {f} \cup {Append(f, c) : c \in BOOLEAN},
         NEW got1 \in {got} \cup {Append(got, c) : c \in BOOLEAN},
         m <= Len(f), m <= Len(got), NEW sum0, NEW differed, Tally(m, sum0, differed, f, got)
  PROVE  Tally(m, sum0, differed, f1, got1)
<1>1. /\ \A r \in 2..m : Counts(f1, got1, r) <=> Counts(f, got, r)
      /\ m > 0 => got1[1] = got[1] /\ Baseline(f1) = Baseline(f)
  BY AppendedCounts
<1> QED BY <1>1 DEF Tally

(* Each run is judged once it has an output, or is known to have none. *)
LEMMA TallyStep == ASSUME RunInv, RunnersNext PROVE TallyInv'
<1> DEFINE T == Tally(Judged, rn.sum0, rn.differed, rn.fresh, rn.got)
<1>t. TallyInv <=> (rn.prog = "runner_multi" /\ rn.pc # "exit" => T)
  BY DEF TallyInv, Tally
<1>u. TallyInv' <=> (rn'.prog = "runner_multi" /\ rn'.pc # "exit" => T')
  BY DEF TallyInv, Tally
<1>0. rn.run \in Nat /\ rn.fresh \in Seq(BOOLEAN) /\ rn.got \in Seq(BOOLEAN) /\ rn \in Runner
      /\ rn.differed \in Nat
  BY DEF RunInv, Runner
<1> USE DEF Same, SameRun, SameTally
<1> SUFFICES ASSUME rn'.prog = "runner_multi", rn'.pc # "exit" PROVE T'
  BY <1>u
<1>p. rn.prog = "runner_multi" /\ rn.pc # "exit"
  BY <1>0, StartDoes, SetDoes, InferDoes, GetDoes, JudgeMultiDoes, JudgeOutDoes, ReleaseDoes,
     DestroyDoes DEF RunnersNext
<1>q. T BY <1>p, <1>t DEF RunInv
<1> HIDE DEF T
<1>1. CASE Start
  <2>1. Judged' = Judged /\ SameRun /\ SameTally /\ rn'.got = rn.got
    BY <1>0, <1>1, StartDoes DEF Judged
  <2> QED BY <1>q, <2>1 DEF T
<1>2. CASE InputsSet
  <2>1. Judged' = Judged /\ SameRun /\ SameTally /\ rn'.got = rn.got
    BY <1>0, <1>2, SetDoes DEF Judged
  <2> QED BY <1>q, <2>1 DEF T
<1>3. CASE Infer
  <2>1. PICK c \in BOOLEAN : rn'.fresh = Append(rn.fresh, c)
    BY <1>0, <1>3, InferDoes
  <2>2. /\ Judged' = rn.run /\ Judged = rn.run /\ rn'.got = rn.got
        /\ rn'.sum0 = rn.sum0 /\ rn'.differed = rn.differed
    BY <1>0, <1>3, <1>p, InferDoes DEF Judged
  <2>3. Len(rn.fresh) = rn.run /\ Len(rn.got) = rn.run
    BY <1>0, <1>3, <1>p, InferDoes DEF RunInv, CountInv, Inferred, Fetched
  <2>4. Tally(rn.run, rn.sum0, rn.differed, Append(rn.fresh, c), rn.got)
    <3>1. Tally(rn.run, rn.sum0, rn.differed, rn.fresh, rn.got) BY <1>q, <2>2 DEF T
    <3>2. rn.run <= Len(rn.fresh) /\ rn.run <= Len(rn.got) BY <1>0, <2>3
    <3> DEFINE f1 == Append(rn.fresh, c)
    <3>3. f1 \in {rn.fresh} \cup {Append(rn.fresh, b) : b \in BOOLEAN} OBVIOUS
    <3>4. rn.got \in {rn.got} \cup {Append(rn.got, b) : b \in BOOLEAN} OBVIOUS
    <3> HIDE DEF f1
    <3>5. Tally(rn.run, rn.sum0, rn.differed, f1, rn.got)
      BY <1>0, <3>1, <3>2, <3>3, <3>4, TallyStays
    <3> QED BY <3>5 DEF f1
  <2> QED BY <2>1, <2>2, <2>4 DEF T
<1>4. CASE OutputsGet
  <2>1. /\ rn.pc = "get" /\ SameRun /\ rn'.sum0 = rn.sum0 /\ rn'.differed = rn.differed
        /\ \/ rn'.pc = "judge" /\ rn'.got = Append(rn.got, TRUE)
           \/ rn'.pc = "release" /\ rn'.got = Append(rn.got, FALSE)
    BY <1>0, <1>4, GetDoes
  <2>2. Judged = rn.run /\ Len(rn.fresh) = rn.run + 1 /\ Len(rn.got) = rn.run
    BY <1>p, <2>1 DEF RunInv, CountInv, Inferred, Fetched, Judged
  <2>3. ASSUME NEW c \in BOOLEAN
        PROVE  Tally(rn.run, rn.sum0, rn.differed, rn.fresh, Append(rn.got, c))
    <3>1. Tally(rn.run, rn.sum0, rn.differed, rn.fresh, rn.got) BY <1>q, <2>2 DEF T
    <3>2. rn.run <= Len(rn.fresh) /\ rn.run <= Len(rn.got) BY <1>0, <2>2
    <3> DEFINE got1 == Append(rn.got, c)
    <3>3. got1 \in {rn.got} \cup {Append(rn.got, b) : b \in BOOLEAN} OBVIOUS
    <3>4. rn.fresh \in {rn.fresh} \cup {Append(rn.fresh, b) : b \in BOOLEAN} OBVIOUS
    <3> HIDE DEF got1
    <3>5. Tally(rn.run, rn.sum0, rn.differed, rn.fresh, got1)
      BY <1>0, <3>1, <3>2, <3>3, <3>4, TallyStays
    <3> QED BY <3>5 DEF got1
  <2>4. CASE rn'.pc = "judge"
    <3>1. rn'.got = Append(rn.got, TRUE) /\ Judged' = rn.run BY <2>1, <2>4 DEF Judged
    <3> QED BY <2>1, <2>3, <3>1 DEF T
  <2>5. CASE rn'.pc = "release"
    <3> DEFINE got == Append(rn.got, FALSE)
               n == rn.run + 1
    <3>1. rn'.got = got /\ Judged' = n BY <2>1, <2>5 DEF Judged
    <3>2. ~got[n] /\ n \in Nat BY <1>0, <2>2
    <3>3. Tally(rn.run, rn.sum0, rn.differed, rn.fresh, got) BY <2>3
    <3> HIDE DEF got
    <3>4. Tally(n, rn.sum0, rn.differed, rn.fresh, got)
      <4>1. CASE rn.run = 0
        <5>1. rn.differed = 0 /\ rn.sum0 = 0 /\ ~got[1] BY <3>2, <3>3, <4>1 DEF Tally
        <5> QED BY <4>1, <5>1 DEF Tally
      <4>2. CASE rn.run >= 1
        <5>1. ~Counts(rn.fresh, got, rn.run + 1) BY <3>2 DEF Counts
        <5> QED BY <1>0, <3>3, <4>2, <5>1, TallyGrows
      <4> QED BY <1>0, <4>1, <4>2
    <3> QED BY <2>1, <3>1, <3>4 DEF T
  <2> QED BY <2>1, <2>4, <2>5
<1>5. CASE JudgeMulti
  <2>1. /\ rn.pc = "judge" /\ rn'.pc = "release" /\ rn'.got = rn.got /\ SameRun
        /\ rn'.sum0 = (IF rn.run = 0 THEN 100 + rn.output ELSE rn.sum0)
        /\ rn'.differed = IF rn.run > 0 /\ 100 + rn.output # rn.sum0 THEN rn.differed + 1
                                                                     ELSE rn.differed
    BY <1>0, <1>5, JudgeMultiDoes
  <2> DEFINE n == rn.run + 1
  <2>2. Judged = rn.run /\ Judged' = n /\ Inferred = n /\ rn.got[n]
    BY <1>p, <2>1 DEF RunInv, CountInv, Judged, Inferred
  <2>3. /\ rn.output >= 0 /\ rn.output \in Int
        /\ Replaced(rn.fresh, n) <=> rn.output # Baseline(rn.fresh)
    BY <1>0, <1>p, <2>2 DEF RunInv, OutputInv, Runner
  <2>4. Baseline(rn.fresh) \in {0, 1} BY DEF Baseline
  <2>5. Tally(rn.run, rn.sum0, rn.differed, rn.fresh, rn.got) BY <1>q, <2>2 DEF T
  <2>6. Tally(n, rn'.sum0, rn'.differed, rn.fresh, rn.got)
    <3>1. CASE rn.run = 0
      <4>1. ~Replaced(rn.fresh, 1) BY DEF Replaced
      <4>2. rn'.differed = 0 /\ rn'.sum0 = 100 + Baseline(rn.fresh) /\ rn.got[1]
        BY <2>1, <2>2, <2>3, <2>5, <3>1, <4>1 DEF Tally
      <4> QED BY <3>1, <4>2 DEF Tally
    <3>2. CASE rn.run >= 1
      <4>1. rn.sum0 = IF rn.got[1] THEN 100 + Baseline(rn.fresh) ELSE 0
        BY <2>5, <3>2 DEF Tally
      <4>2. 100 + rn.output # rn.sum0 <=> (rn.got[1] => Replaced(rn.fresh, n))
        <5>1. CASE rn.got[1] BY <2>3, <2>4, <4>1, <5>1
        <5>2. CASE ~rn.got[1] BY <2>3, <4>1, <5>2
        <5> QED BY <5>1, <5>2
      <4>3. Counts(rn.fresh, rn.got, n) <=> 100 + rn.output # rn.sum0
        BY <2>2, <4>2 DEF Counts
      <4>4. /\ rn'.differed = IF Counts(rn.fresh, rn.got, n) THEN rn.differed + 1 ELSE rn.differed
            /\ rn'.differed \in Nat /\ rn'.sum0 = rn.sum0
        BY <1>0, <2>1, <3>2, <4>3
      <4> QED BY <1>0, <2>5, <3>2, <4>4, TallyGrows
    <3> QED BY <1>0, <3>1, <3>2
  <2> QED BY <2>1, <2>2, <2>6 DEF T
<1>6. CASE JudgeOut BY <1>0, <1>6, <1>p, JudgeOutDoes
<1>7. CASE Release
  <2>1. /\ Judged' = Judged /\ rn'.fresh = rn.fresh /\ rn'.got = rn.got
        /\ rn'.sum0 = rn.sum0 /\ rn'.differed = rn.differed
    BY <1>0, <1>7, ReleaseDoes DEF Judged
  <2> QED BY <1>q, <2>1 DEF T
<1>8. CASE Destroy BY <1>0, <1>8, DestroyDoes
<1> QED BY <1>1, <1>2, <1>3, <1>4, <1>5, <1>6, <1>7, <1>8 DEF RunnersNext

(* The flag of runner_out.c says whether a real value is negative. *)
LEMMA BelowStep == ASSUME RunInv, RunnersNext PROVE BelowInv'
<1> USE DEF RunInv, BelowInv, Same, SameRun, SameTally
<1>0. rn \in Runner /\ rn.got \in Seq(BOOLEAN) /\ rn.run \in Nat BY DEF Runner
<1>1. CASE Start BY <1>0, <1>1, StartDoes
<1>2. CASE InputsSet BY <1>0, <1>2, SetDoes
<1>3. CASE Infer
  BY <1>0, <1>3, InferDoes
<1>4. CASE OutputsGet BY <1>0, <1>4, GetDoes
<1>5. CASE JudgeMulti BY <1>0, <1>5, JudgeMultiDoes
<1>6. CASE JudgeOut
  <2>1. ASSUME NEW b \in rn.seen PROVE Read(b) < rn.zp <=> Real(b) < 0
    <3>1. b \in Nat /\ rn.zp \in Int BY <1>0 DEF Runner
    <3> QED BY <3>1 DEF Read, Real, Signed
  <2>2. \A b : Real(b)' = Real(b) BY <1>0, <1>6, JudgeOutDoes DEF Real
  <2>3. rn'.seen = rn.seen /\ rn'.below = IF \E b \in rn.seen : Read(b) < rn.zp THEN 1 ELSE 0
    BY <1>0, <1>6, JudgeOutDoes
  <2> QED BY <2>1, <2>2, <2>3
<1>7. CASE Release
  <2>1. \A b : Real(b)' = Real(b) BY <1>0, <1>7, ReleaseDoes DEF Real
  <2> QED BY <1>0, <1>7, <2>1, ReleaseDoes
<1>8. CASE Destroy BY <1>0, <1>8, DestroyDoes
<1> QED BY <1>1, <1>2, <1>3, <1>4, <1>5, <1>6, <1>7, <1>8 DEF RunnersNext

(* The verdicts, said once at the end, follow from the tallies. *)
LEMMA VerdictStep == ASSUME RunInv, RunnersNext PROVE VerdictsHold'
<1> USE DEF RunInv, CountInv, VerdictsHold, Same, SameRun, SameTally
<1>0. rn \in Runner /\ rn.run \in Nat /\ rn.fresh \in Seq(BOOLEAN) BY DEF Runner
<1>1. CASE Start BY <1>0, <1>1, StartDoes
<1>2. CASE InputsSet BY <1>0, <1>2, SetDoes
<1>3. CASE Infer
  <2>1. rn.pc = "run" /\ rn'.code = rn.code BY <1>0, <1>3, InferDoes
  <2>2. rn.code = -1 BY <2>1
  <2>3. rn'.code # 0 BY <2>1, <2>2
  <2> QED BY <2>3
<1>4. CASE OutputsGet
  <2>1. rn.pc = "get" /\ (rn'.code = rn.code \/ rn'.code = 1) BY <1>0, <1>4, GetDoes
  <2>2. rn.code = -1 BY <2>1
  <2>3. rn'.code # 0 BY <2>1, <2>2
  <2> QED BY <2>3
<1>5. CASE JudgeMulti BY <1>0, <1>5, JudgeMultiDoes
<1>6. CASE JudgeOut BY <1>0, <1>6, JudgeOutDoes
<1>7. CASE Release BY <1>0, <1>7, ReleaseDoes
<1>8. CASE Destroy
  <2>1. /\ rn.pc = "destroy" /\ SameRun /\ SameTally /\ rn'.got = rn.got
        /\ rn.prog = "runner_out" => rn'.verdict = IF rn.below > 0 THEN "below" ELSE "clamped"
        /\ rn.prog = "runner_multi" => rn'.verdict = MultiVerdict
    BY <1>0, <1>8, DestroyDoes
  <2>2. ASSUME rn.prog = "runner_multi", NumRuns > 1
        PROVE  /\ (rn'.verdict = "recomputes")
                     <=> \A r \in Later : Counts(rn'.fresh, rn'.got, r)
               /\ (rn'.verdict = "wall") <=> \A r \in Later : ~Counts(rn'.fresh, rn'.got, r)
    <3>1. Runs = NumRuns /\ rn.run = NumRuns /\ NumRuns \in Nat
      BY <1>0, <2>1, <2>2, RunnersConstantsOK DEF Runs
    <3>2. /\ (rn.differed = 0) <=> \A r \in Later : ~Counts(rn.fresh, rn.got, r)
          /\ (rn.differed = NumRuns - 1) <=> \A r \in Later : Counts(rn.fresh, rn.got, r)
      BY <2>1, <2>2, <3>1 DEF TallyInv, Judged, Later
    <3>3. rn'.verdict = IF rn.differed = NumRuns - 1 THEN "recomputes"
                        ELSE IF rn.differed = 0 THEN "wall" ELSE "mixed"
      BY <2>1, <2>2, <3>1 DEF MultiVerdict
    <3>4. rn'.fresh = rn.fresh /\ NumRuns - 1 # 0 BY <2>1, <2>2, <3>1
    <3> QED BY <2>1, <3>2, <3>3, <3>4
  <2>3. ASSUME rn.prog = "runner_out"
        PROVE (rn'.verdict = "below") <=> \E b \in rn'.seen : Real(b)' < 0
    <3>1. \A b : Real(b)' = Real(b) BY <2>1 DEF Real
    <3> QED BY <2>1, <2>3, <3>1 DEF BelowInv
  <2> QED BY <2>1, <2>2, <2>3
<1> QED BY <1>1, <1>2, <1>3, <1>4, <1>5, <1>6, <1>7, <1>8 DEF RunnersNext

(* For any number of runs, what the verdicts of the model runners mean: all later
   runs count as differences, none does, or a value is below the zero point. *)
THEOREM VerdictsTheorem == RunnersSpec => []VerdictsHold
<1>1. RunnersInit => RunInv BY RunInit
<1>2. RunInv /\ [RunnersNext]_rn => RunInv'
  <2>1. ASSUME RunInv, RunnersNext PROVE RunInv'
    <3>1. rn' \in Runner
      BY <2>1, StartDoes, SetDoes, InferDoes, GetDoes, JudgeMultiDoes, JudgeOutDoes,
         ReleaseDoes, DestroyDoes DEF RunInv, RunnersNext
    <3> QED BY <2>1, <3>1, CountStep, OutputStep, TallyStep, BelowStep, VerdictStep DEF RunInv
  <2>2. ASSUME RunInv, UNCHANGED rn PROVE RunInv'
    <3>1. rn' = rn /\ rn' \in Runner BY <2>2 DEF RunInv
    <3>2. CountInv' BY <2>2, <3>1 DEF RunInv, CountInv, Inferred, Fetched, Runs
    <3>3. OutputInv' BY <2>2, <3>1 DEF RunInv, OutputInv, Inferred
    <3>4. TallyInv' BY <2>2, <3>1 DEF RunInv, TallyInv, Judged
    <3>5. BelowInv' BY <2>2, <3>1 DEF RunInv, BelowInv, Real
    <3>6. VerdictsHold' BY <2>2, <3>1 DEF RunInv, VerdictsHold, Real
    <3> QED BY <3>1, <3>2, <3>3, <3>4, <3>5, <3>6 DEF RunInv
  <2> QED BY <2>1, <2>2
<1>3. RunInv => VerdictsHold BY DEF RunInv
<1> QED BY <1>1, <1>2, <1>3, PTL DEF RunnersSpec
================================================================================
