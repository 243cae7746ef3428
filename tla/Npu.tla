--------------------------------- MODULE Npu ---------------------------------
(***************************************************************************)
(* The NPU as the replay programs see it: buffers at device addresses, and *)
(* tasks, each a list of register words in one of those buffers.  The      *)
(* hardware and its drivers are not in this repository's own code: this is *)
(* what replay.c, replay_rocket.c and replay_mesa.c rely on.               *)
(*                                                                         *)
(* A buffer is a record with its device address "dma" and its memory       *)
(* "mem", a sequence of cells.  A cell is a pair: <<register, value>> for  *)
(* a command word, <<words, address>> for an entry of the task array,      *)
(* <<0, value>> for a byte of data.                                        *)
(***************************************************************************)
EXTENDS Integers, Sequences, FiniteSets, FiniteSetsExt

\* The registers, by their offset in the block.
SRC   == 4232       \* 0x1088: where the input is read from
WT    == 4368       \* 0x1110: the weights
DST   == 16408      \* 0x4018: where the output is written to
BIAS  == 20512      \* 0x5020
SCALE == 20516      \* 0x5024
PAD   == 4228       \* 0x1084: a constant, the byte the input is padded with
CBUF  == 4160       \* 0x1040: a constant, how the block's own memory is split
OPEN  == 8          \* 0x0008: starts the block from within the list

Holders(bos, a) == {i \in DOMAIN bos : bos[i].dma <= a /\ a < bos[i].dma + Len(bos[i].mem)}

Cell(bos, a) == LET i == Min(Holders(bos, a)) IN bos[i].mem[a - bos[i].dma + 1]

\* What a list leaves in register r, 0 when it does not write it.
Left(words, r) == LET W == {k \in DOMAIN words : words[k][1] = r}
                  IN IF W = {} THEN 0 ELSE words[Max(W)][2]

(***************************************************************************)
(* One task: fetch the words at "regcmd", read what the address registers  *)
(* point at, write one cell of output.  An address no buffer holds is a    *)
(* fault of the IOMMU and nothing is written.                              *)
(***************************************************************************)
Execute(bos, task) ==
  LET words == [k \in 1..task.count |-> Cell(bos, task.regcmd + k - 1)]
      At(r) == Left(words, r)
      fetched == \A k \in 0..(task.count - 1) : Holders(bos, task.regcmd + k) # {}
      out == Min(Holders(bos, At(DST)))
      cell == At(DST) - bos[out].dma + 1
      result == 1 + Cell(bos, At(SRC))[2] + 3 * Cell(bos, At(WT))[2]
                  + 9 * Cell(bos, At(BIAS))[2] + 27 * Cell(bos, At(SCALE))[2]
                  + 81 * At(PAD) + At(CBUF)
  IN IF fetched /\ \A r \in {SRC, WT, DST, BIAS, SCALE} : Holders(bos, At(r)) # {}
     THEN [bos EXCEPT ![out].mem[cell] = <<0, result>>]
     ELSE bos

\* The tasks of a sequence, in order.
ExecuteAll(bos, tasks) ==
  LET after[t \in 0..Len(tasks)] == IF t = 0 THEN bos ELSE Execute(after[t - 1], tasks[t])
  IN after[Len(tasks)]

Zeros(n) == [k \in 1..n |-> <<0, 0>>]
=============================================================================
