------------------------------- MODULE Capture -------------------------------
(***************************************************************************)
(* capture.c: the shim that is loaded into a process that uses the vendor  *)
(* runtime, sees its ioctls, remembers the buffers it creates and writes   *)
(* the first submission, with every buffer's content, to a directory.      *)
(*                                                                         *)
(* The runtime and its driver are external: it creates its buffers from    *)
(* the top of the address space down, the task array first (as both        *)
(* captures in the repository do), writes a list of words for each task,   *)
(* and submits.  Mesa's runtime, whose own debug dump replay_mesa.c reads, *)
(* has one task and a buffer of its own for the list.                      *)
(***************************************************************************)
EXTENDS Npu, SequencesExt

CONSTANTS Top,          \* one past the last device address
          MaxRecorded,  \* entries of the shim's table of buffers
          Plans         \* what the runtime may compute: for each task its
                        \* source and its destination, <<role, offset>> each

VARIABLES runtime,      \* "rknn" or "mesa"
          plan,
          buffers,      \* the driver's buffers, in the order of creation
          recorded,     \* the shim's table: which of them it has seen
          filled,
          dump          \* the directory it wrote

capture == <<runtime, plan, buffers, recorded, filled, dump>>

NoDump == [done |-> FALSE, bo |-> <<>>, task_bo |-> 0, task_number |-> 0, file |-> <<>>]

Length == Len(plan)

WordsOfAList == 9

Layout == IF runtime = "rknn"
          THEN << <<"task", 2>>, <<"weights", 2 * WordsOfAList + 3>>, <<"scratch", 1>>,
                  <<"input", 2>>, <<"output", 2>> >>
          ELSE << <<"regcmd", WordsOfAList>>, <<"weights", 1>>, <<"bias", 2>>,
                  <<"input", 2>>, <<"output", 2>> >>

Role(r) == CHOOSE i \in DOMAIN Layout : Layout[i][1] = r

At(r, off) == buffers[Role(r)].dma + off

CaptureInit == /\ runtime \in {"rknn", "mesa"}
               /\ plan \in IF runtime = "rknn" THEN Plans
                           ELSE {p \in Plans : p = <<[src |-> <<"input", 0>>,
                                                      dst |-> <<"output", 0>>]>>}
               /\ buffers = <<>> /\ recorded = <<>> /\ filled = FALSE
               /\ dump = NoDump

(***************************************************************************)
(* MEM_CREATE goes through first, and is recorded when there is room.  The *)
(* shim does not look at MEM_DESTROY.                                      *)
(***************************************************************************)
MemCreate ==
  /\ Len(buffers) < Len(Layout)
  /\ LET size == Layout[Len(buffers) + 1][2]
         below == IF buffers = <<>> THEN Top ELSE Last(buffers).dma
     IN buffers' = Append(buffers, [dma |-> below - size, mem |-> Zeros(size)])
  /\ recorded' = IF runtime = "rknn" /\ Len(recorded) < MaxRecorded
                 THEN Append(recorded, Len(buffers')) ELSE recorded
  /\ UNCHANGED <<runtime, plan, filled, dump>>

Data == IF runtime = "rknn" THEN 2 * WordsOfAList ELSE 0

\* The padding constant is -128: it falls into the last page of the space.
ListOf(p) == << <<SRC, At(p.src[1], p.src[2])>>, <<WT, At("weights", Data)>>,
                <<PAD, Top - 1>>, <<CBUF, 5>>,
                IF runtime = "rknn" THEN <<0, 0>> ELSE <<OPEN, 1>>,
                <<BIAS, IF runtime = "rknn" THEN At("weights", Data + 1) ELSE At("bias", 0)>>,
                <<SCALE, IF runtime = "rknn" THEN At("weights", Data + 2) ELSE At("bias", 1)>>,
                <<DST, At(p.dst[1], p.dst[2])>>, <<0, 0>> >>

Filled(mem, cells) == [k \in DOMAIN mem |-> IF k \in DOMAIN cells THEN cells[k] ELSE mem[k]]

Ramp == << <<0, 3>>, <<0, 4>> >>

\* What the runtime writes into the buffer of each role.
Contents ==
  [task |-> [t \in 1..Length |-> <<WordsOfAList, At("weights", (t - 1) * WordsOfAList)>>],
   regcmd |-> ListOf(plan[1]),
   weights |-> IF runtime = "rknn"
               THEN ListOf(plan[1]) \o (IF Length = 2 THEN ListOf(plan[2]) ELSE Zeros(WordsOfAList))
                      \o << <<0, 1>>, <<0, 2>>, <<0, 1>> >>
               ELSE << <<0, 1>> >>,
   bias |-> << <<0, 2>>, <<0, 1>> >>, input |-> Ramp, scratch |-> <<>>, output |-> <<>>]

Fill ==
  /\ Len(buffers) = Len(Layout) /\ ~filled
  /\ filled' = TRUE
  /\ buffers' = [i \in DOMAIN buffers |->
                   [buffers[i] EXCEPT !.mem = Filled(@, Contents[Layout[i][1]])]]
  /\ UNCHANGED <<runtime, plan, recorded, dump>>

\* The driver's part of a submission: every task, in order.
Computed(bos) ==
  LET list(t) == IF runtime = "rknn" THEN At("weights", (t - 1) * WordsOfAList)
                                     ELSE At("regcmd", 0)
  IN ExecuteAll(bos, [t \in 1..Length |-> [regcmd |-> list(t), count |-> WordsOfAList]])

(***************************************************************************)
(* The files: a line for each buffer, the number of the tasks, which       *)
(* buffer is the task array, and the content of each buffer that can be    *)
(* mapped (the shim maps it itself, and skips the file when that fails).   *)
(***************************************************************************)
Dumped(bos, missing) ==
  [done |-> TRUE,
   bo |-> [i \in DOMAIN recorded |-> [vdma |-> bos[recorded[i]].dma,
                                      vsize |-> Len(bos[recorded[i]].mem)]],
   task_bo |-> Max({0} \cup {i \in DOMAIN recorded :
                             Layout[recorded[i]][1] = "task"}),
   task_number |-> Length,
   file |-> [i \in DOMAIN recorded |-> IF i = missing THEN <<>> ELSE bos[recorded[i]].mem]]

\* Mutant: the submission is passed on before it is dumped.
SubmitThenDump(missing) ==
  /\ filled /\ ~dump.done /\ runtime = "rknn"
  /\ dump' = Dumped(Computed(buffers), missing)
  /\ buffers' = Computed(buffers)
  /\ UNCHANGED <<runtime, plan, recorded, filled>>

\* The first SUBMIT is dumped and only then passed on.
Submit(missing) ==
  /\ filled /\ ~dump.done /\ runtime = "rknn"
  /\ dump' = Dumped(buffers, missing)
  /\ buffers' = Computed(buffers)
  /\ UNCHANGED <<runtime, plan, recorded, filled>>

\* Mesa writes its list, its weights and its biases when it is told to.
MesaDumps ==
  /\ filled /\ ~dump.done /\ runtime = "mesa"
  /\ dump' = [NoDump EXCEPT !.done = TRUE,
                            !.file = SubSeq([i \in DOMAIN buffers |-> buffers[i].mem], 1, 3)]
  /\ buffers' = Computed(buffers)
  /\ UNCHANGED <<runtime, plan, recorded, filled>>

CaptureNext == MemCreate \/ Fill \/ (\E missing \in 0..3 : Submit(missing)) \/ MesaDumps
=============================================================================
