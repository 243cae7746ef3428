---------------------------- MODULE ReplayProofs ----------------------------
(***************************************************************************)
(* Proofs about the replay programs, for any captured plan of one or two   *)
(* tasks, any device addresses and any size of their tables that holds the *)
(* capture: what they show as output was computed in this replay, and what *)
(* they compute is what the captured process computed.                     *)
(***************************************************************************)
EXTENDS Replay, TLAPS

(* Where the captured runtime's buffers lie. *)
SizeIs(i) == IF i = 2 THEN 21 ELSE IF i = 3 THEN 1 ELSE 2
AddrIs(i) == Top - (IF i = 1 THEN 2 ELSE IF i = 2 THEN 23 ELSE IF i = 3 THEN 24
                    ELSE IF i = 4 THEN 26 ELSE 28)

IsSeq(s) == \E S : s \in Seq(S)

\* What a destination word of a captured list may say: the pool or the output.
Destinations == {Top - 24, Top - 28, Top - 27}

\* The lists from cell n + 1 on still hold captured destinations.
ListsFrom(mem, n) ==
  /\ DOMAIN mem = 1..21 /\ mem[1][1] # DST
  /\ \A k \in 1..21 : k > n /\ mem[k][1] = DST => k \in {8, 17} /\ mem[k][2] \in Destinations

TaskArray(mem, n) == /\ DOMAIN mem = 1..2
                     /\ \A t \in 1..n : mem[t] = <<9, Top - 23 + (t - 1) * 9>>

\* A task array that was never read in.
JunkArray(mem) == /\ DOMAIN mem = 1..2
                  /\ \A t \in 1..2 : mem[t] \in {<<0, 0>>, <<1, Top - 23>>}

BufferFields == {"dma", "mem"}
BoFields == {"vdma", "vsize", "created", "dma", "cpu", "mem"}
MeFields == {"prog", "onejob", "knobs", "pc", "bo", "ta", "tasks", "out", "ins", "outs",
             "jobs", "ran", "tries", "shown", "code"}

\* The captured process until its submission.
BufferOK(b, i) == /\ DOMAIN b = BufferFields
                  /\ b.dma = AddrIs(i) /\ IsSeq(b.mem) /\ Len(b.mem) = SizeIs(i)
                  /\ i \in {3, 5} => ~Nonzero(b.mem)

RunningInv ==
  /\ IsSeq(buffers) /\ Len(buffers) <= 5
  /\ recorded = [i \in 1..Len(buffers) |-> i]
  /\ \A i \in 1..Len(buffers) : BufferOK(buffers[i], i)
  /\ filled => /\ Len(buffers) = 5
               /\ TaskArray(buffers[1].mem, Length) /\ ListsFrom(buffers[2].mem, 0)

\* The capture.
DumpInv ==
  /\ dump.task_bo = 1 /\ dump.task_number = Length
  /\ DOMAIN dump.bo = 1..5 /\ Len(dump.bo) = 5
  /\ \A i \in 1..5 : dump.bo[i].vdma = AddrIs(i) /\ dump.bo[i].vsize = SizeIs(i)
  /\ dump.file[1] = <<>> \/ TaskArray(dump.file[1], Length)
  /\ dump.file[2] = <<>> \/ ListsFrom(dump.file[2], 0)
  /\ ~Nonzero(dump.file[3]) /\ ~Nonzero(dump.file[5])

CaptureInv ==
  /\ runtime \in {"rknn", "mesa"} /\ plan \in Plans
  /\ runtime = "rknn" => IF dump.done THEN DumpInv ELSE RunningInv

BoOK == /\ DOMAIN me.bo = 1..5 /\ \A i \in 1..5 : DOMAIN me.bo[i] = BoFields

\* The buffers a program is about to make.
CreateInv ==
  /\ me.tasks = <<>> /\ me.out = 0
  /\ DOMAIN me.bo = 1..5 /\ Len(me.bo) = 5
  /\ \A i \in 1..5 : /\ DOMAIN me.bo[i] = BoFields
                     /\ me.bo[i].vdma = AddrIs(i) /\ me.bo[i].vsize = SizeIs(i)
                     /\ ~me.bo[i].created

\* replay_rocket's buffers, loaded and patched up to the next task.
PatchInv ==
  /\ BoOK /\ Len(me.bo) = 5
  /\ \A i \in 1..5 : /\ me.bo[i].vdma = AddrIs(i) /\ me.bo[i].vsize = SizeIs(i)
                     /\ (me.bo[i].created <=> (i # 1))
  /\ IsSeq(me.tasks)
  /\ me.out \in {0, 3, 5}
  /\ TaskArray(me.ta, Length) \/ JunkArray(me.ta)
  /\ ListsFrom(me.bo[2].cpu, 9 * Len(me.tasks))
  /\ ~Nonzero(me.bo[3].cpu) /\ ~Nonzero(me.bo[5].cpu)

\* replay_mesa's buffers, loaded.
LoadedInv == BoOK /\ me.out = 5 /\ me.bo[5].created /\ ~Nonzero(me.bo[5].cpu)

\* The output until a task has run.
ShowInv == /\ BoOK /\ me.out \in 1..5
           /\ me.ran = 0 => ~Nonzero(me.bo[me.out].cpu) /\ ~Nonzero(me.bo[me.out].mem)

ProgramInv ==
  /\ DOMAIN me = MeFields /\ me.ran \in Nat
  /\ me.prog \in {"rknpu", "rocket", "mesa"} /\ ((me.prog = "mesa") <=> (runtime = "mesa"))
  /\ me.pc \in {"meta", "create", "patch", "submit", "wait", "report", "exit"}
  /\ me.pc \notin {"meta", "exit"} => dump.done
  /\ me.pc # "exit" => me.shown = <<>>
  /\ me.prog = "rknpu" /\ me.pc \in {"wait", "report"} => me.ran # 0
  /\ me.pc = "meta" => me.tasks = <<>> /\ me.out = 0
  /\ me.pc = "create" => CreateInv
  /\ me.prog = "rocket" /\ me.pc = "patch" => PatchInv
  /\ me.prog = "mesa" /\ me.pc = "patch" => LoadedInv
  /\ me.prog # "rknpu" /\ me.pc \in {"submit", "wait", "report"} => ShowInv
  /\ ShowsOwnOutput

ReplayInv == CaptureInv /\ ProgramInv

(* The layout, counted down from the top. *)
LEMMA LayoutIs ==
  ASSUME runtime = "rknn"
  PROVE  /\ Len(Layout) = 5 /\ DOMAIN Layout = 1..5
         /\ Layout[1][1] = "task" /\ Layout[2][1] = "weights" /\ Layout[3][1] = "scratch"
         /\ Layout[4][1] = "input" /\ Layout[5][1] = "output"
         /\ \A i \in 1..5 : Layout[i][2] = SizeIs(i)
         /\ Role("task") = 1 /\ Role("weights") = 2 /\ Role("scratch") = 3
         /\ Role("input") = 4 /\ Role("output") = 5
<1>1. Layout = << <<"task", 2>>, <<"weights", 21>>, <<"scratch", 1>>, <<"input", 2>>,
                  <<"output", 2>> >>
  BY DEF Layout, WordsOfAList
<1>2. DOMAIN Layout = 1..5 /\ Len(Layout) = 5
  BY <1>1
<1>3. /\ Layout[1][1] = "task" /\ Layout[2][1] = "weights" /\ Layout[3][1] = "scratch"
      /\ Layout[4][1] = "input" /\ Layout[5][1] = "output"
      /\ Layout[1][2] = 2 /\ Layout[2][2] = 21 /\ Layout[3][2] = 1
      /\ Layout[4][2] = 2 /\ Layout[5][2] = 2
  BY <1>1
<1>4. \A i \in 1..5 : Layout[i][2] = SizeIs(i)
  BY <1>3 DEF SizeIs
<1> HIDE DEF Layout
<1>5. \A i \in 1..5 : Layout[i][1] = Layout[Role(Layout[i][1])][1] /\ Role(Layout[i][1]) \in 1..5
  BY <1>2 DEF Role
<1> QED BY <1>2, <1>3, <1>4, <1>5

(* A sequence, whatever it is of. *)
LEMMA SeqIs ==
  ASSUME NEW s, IsSeq(s)
  PROVE  Len(s) \in Nat /\ DOMAIN s = 1..Len(s)
BY DEF IsSeq

(* Append, whatever the sequence is of. *)
LEMMA AppendIs ==
  ASSUME NEW s, IsSeq(s), NEW e
  PROVE  /\ IsSeq(Append(s, e)) /\ Len(Append(s, e)) = Len(s) + 1
         /\ Append(s, e)[Len(s) + 1] = e
         /\ \A i \in 1..Len(s) : Append(s, e)[i] = s[i]
<1>1. PICK S : s \in Seq(S) BY DEF IsSeq
<1>2. s \in Seq(S \cup {e}) BY <1>1
<1>3. Append(s, e) \in Seq(S \cup {e}) BY <1>2
<1>4. /\ Len(Append(s, e)) = Len(s) + 1 /\ Append(s, e)[Len(s) + 1] = e
      /\ \A i \in 1..Len(s) : Append(s, e)[i] = s[i]
  BY <1>2
<1> QED BY <1>3, <1>4 DEF IsSeq

(* A function on 1..n is a sequence. *)
LEMMA FunctionIs ==
  ASSUME NEW f, NEW n \in Nat, f = [k \in 1..n |-> f[k]]
  PROVE  IsSeq(f) /\ Len(f) = n /\ DOMAIN f = 1..n
<1> DEFINE S == {f[k] : k \in 1..n}
<1>1. f \in [1..n -> S] BY SMT
<1>2. f \in Seq(S) BY <1>1
<1>3. Len(f) = n BY <1>1
<1> QED BY <1>1, <1>2, <1>3 DEF IsSeq

(* Concatenation, whatever the sequences are of. *)
LEMMA ConcatIs ==
  ASSUME NEW s, IsSeq(s), NEW t, IsSeq(t)
  PROVE  /\ IsSeq(s \o t) /\ Len(s \o t) = Len(s) + Len(t)
         /\ \A k \in 1..Len(s) : (s \o t)[k] = s[k]
         /\ \A k \in 1..Len(t) : (s \o t)[Len(s) + k] = t[k]
<1>1. PICK S : s \in Seq(S) BY DEF IsSeq
<1>2. PICK T : t \in Seq(T) BY DEF IsSeq
<1>3. s \in Seq(S \cup T) /\ t \in Seq(S \cup T) BY <1>1, <1>2
<1>4. s \o t \in Seq(S \cup T) BY <1>3
<1>5. /\ Len(s \o t) = Len(s) + Len(t)
      /\ \A k \in 1..Len(s) : (s \o t)[k] = s[k]
      /\ \A k \in 1..Len(t) : (s \o t)[Len(s) + k] = t[k]
  BY <1>3
<1> QED BY <1>4, <1>5 DEF IsSeq

(* Blank cells say nothing. *)
LEMMA ZerosBlank ==
  ASSUME NEW n \in Nat
  PROVE  ~Nonzero(Zeros(n)) /\ IsSeq(Zeros(n)) /\ Len(Zeros(n)) = n
<1>1. Zeros(n) = [k \in 1..n |-> Zeros(n)[k]] BY DEF Zeros
<1> QED BY <1>1, FunctionIs DEF Nonzero, Zeros

(* MEM_CREATE goes down the layout. *)
LEMMA CreateKeeps == ASSUME ReplayInv, MemCreate PROVE CaptureInv'
<1>1. /\ runtime' = runtime /\ plan' = plan /\ dump' = dump /\ filled' = filled
      /\ runtime \in {"rknn", "mesa"} /\ plan \in Plans
  BY DEF MemCreate, ReplayInv, CaptureInv
<1>2. ASSUME runtime = "rknn", ~dump.done PROVE RunningInv'
  <2>1. RunningInv BY <1>2 DEF ReplayInv, CaptureInv
  <2>0. PICK n \in Nat : n = Len(buffers) BY <2>1, SeqIs DEF RunningInv
  <2>2. n = Len(buffers) BY <2>0
  <2>12. n \in 0..4
    <3>1. n < 5 BY <1>2, <2>0, LayoutIs DEF MemCreate
    <3> QED BY <3>1, <2>0
  <2> DEFINE size == Layout[n + 1][2]
             below == IF buffers = <<>> THEN Top ELSE Last(buffers).dma
             new == [dma |-> below - size, mem |-> Zeros(size)]
  <2>9. buffers' = Append(buffers, new) BY <2>0 DEF MemCreate
  <2>3. size = SizeIs(n + 1) /\ size \in Nat
    <3>1. n + 1 \in 1..5 BY <2>12
    <3>2. \A i \in 1..5 : Layout[i][2] = SizeIs(i) BY <1>2, LayoutIs
    <3>3. SizeIs(n + 1) \in Nat BY DEF SizeIs
    <3> QED BY <3>1, <3>2, <3>3
  <2>4. below \in Int /\ below - size = AddrIs(n + 1)
    <3>1. CASE n = 0
      <4>1. buffers = <<>> BY <3>1, <2>1, <2>2 DEF RunningInv, IsSeq
      <4>2. SizeIs(n + 1) = 2 /\ AddrIs(n + 1) = Top - 2 BY <3>1 DEF SizeIs, AddrIs
      <4> QED BY <4>1, <4>2, <2>3, ReplayConstantsOK
    <3>2. CASE n > 0
      <4>1. n \in 1..4 BY <3>2, <2>12
      <4>2. buffers # <<>> /\ Last(buffers) = buffers[n]
        BY <4>1, <2>2, <2>1 DEF Last, RunningInv, IsSeq
      <4>3. BufferOK(buffers[n], n) BY <4>1, <2>1, <2>2 DEF RunningInv
      <4>4. below = AddrIs(n) BY <4>2, <4>3 DEF BufferOK
      <4>5. AddrIs(n) \in Int /\ AddrIs(n) - SizeIs(n + 1) = AddrIs(n + 1)
        BY <4>1, ReplayConstantsOK DEF AddrIs, SizeIs
      <4> QED BY <4>4, <4>5, <2>3
    <3> QED BY <3>1, <3>2, <2>12
  <2> HIDE DEF size, below
  <2>5. BufferOK(new, n + 1)
    BY <2>3, <2>4, ZerosBlank DEF BufferOK, BufferFields
  <2> HIDE DEF new
  <2>6. /\ IsSeq(buffers') /\ Len(buffers') = n + 1
        /\ \A i \in 1..n : buffers'[i] = buffers[i]
        /\ buffers'[n + 1] = new
    <3>1. IsSeq(buffers) BY <2>1 DEF RunningInv
    <3> QED BY <3>1, <2>2, <2>9, AppendIs
  <2>7. recorded' = [i \in 1..(n + 1) |-> i]
    <3>1. recorded = [i \in 1..n |-> i] BY <2>1, <2>2 DEF RunningInv
    <3>2. recorded \in Seq(Nat) /\ Len(recorded) = n BY <3>1
    <3>4. n < MaxRecorded BY <2>12, ReplayConstantsOK
    <3>3. recorded' = Append(recorded, n + 1)
      BY <3>2, <3>4, <2>6, <1>2 DEF MemCreate
    <3> QED BY <3>1, <3>2, <3>3
  <2>8. ~filled /\ ~filled'
    BY <2>1, <2>2, <2>12, <1>1 DEF RunningInv
  <2>10. \A i \in 1..(n + 1) : BufferOK(buffers'[i], i)
    <3>1. \A i \in 1..n : BufferOK(buffers[i], i) BY <2>1, <2>2 DEF RunningInv
    <3>2. \A i \in 1..(n + 1) : i \in 1..n \/ i = n + 1 OBVIOUS
    <3> QED BY <3>1, <3>2, <2>6, <2>5
  <2>11. n + 1 <= 5 BY <2>12
  <2> QED
    BY <2>6, <2>7, <2>8, <2>10, <2>11 DEF RunningInv
<1> QED BY <1>1, <1>2 DEF ReplayInv, CaptureInv, DumpInv, TaskArray, ListsFrom, Length

(* The words of a captured list. *)
LEMMA ListIs ==
  ASSUME runtime = "rknn", IsSeq(buffers), Len(buffers) = 5,
         \A i \in 1..5 : buffers[i].dma = AddrIs(i), NEW t \in 1..Length, plan \in Plans
  PROVE  LET l == ListOf(plan[t]) IN
         /\ IsSeq(l) /\ Len(l) = 9 /\ l[1][1] # DST
         /\ \A k \in 1..9 : l[k][1] = DST => k = 8 /\ l[k][2] \in Destinations
<1> DEFINE d == plan[t].dst
<1>1. d \in {<<"scratch", 0>>, <<"output", 0>>, <<"output", 1>>}
  <2>1. plan \in Seq(Steps) BY ReplayConstantsOK
  <2>2. plan[t] \in Steps BY <2>1 DEF Length
  <2> QED BY <2>2 DEF Steps
<1>2. At(d[1], d[2]) \in Destinations
  <2>1. buffers[3].dma = Top - 24 /\ buffers[5].dma = Top - 28 BY DEF AddrIs
  <2>2. Role("scratch") = 3 /\ Role("output") = 5 BY LayoutIs
  <2>3. /\ At("scratch", 0) = Top - 24 /\ At("output", 0) = Top - 28
        /\ At("output", 1) = Top - 27
    <3>1. Top \in Nat BY ReplayConstantsOK
    <3>2. /\ At("scratch", 0) = Top - 24 + 0 /\ At("output", 0) = Top - 28 + 0
          /\ At("output", 1) = Top - 28 + 1
      BY <2>1, <2>2, Zenon DEF At
    <3> QED BY <3>1, <3>2
  <2>4. d = <<"scratch", 0>> \/ d = <<"output", 0>> \/ d = <<"output", 1>> BY <1>1
  <2>5. At(d[1], d[2]) \in {At("scratch", 0), At("output", 0), At("output", 1)} BY <2>4
  <2> QED BY <2>3, <2>5 DEF Destinations
<1> HIDE DEF d
<1> QED
  <2>1. PICK a1, a2, a3, a4, a5 : ListOf(plan[t]) =
           << <<SRC, a1>>, <<WT, a2>>, <<PAD, a3>>, <<CBUF, 5>>, <<0, 0>>, <<BIAS, a4>>,
              <<SCALE, a5>>, <<DST, At(d[1], d[2])>>, <<0, 0>> >>
    BY DEF ListOf, d
  <2> DEFINE l == ListOf(plan[t])
  <2>2. IsSeq(l) /\ Len(l) = 9
    <3>1. l = [k \in 1..9 |-> l[k]] BY <2>1
    <3> QED BY <3>1, FunctionIs
  <2>3. /\ l[1][1] = SRC /\ l[2][1] = WT /\ l[3][1] = PAD /\ l[4][1] = CBUF /\ l[5][1] = 0
        /\ l[6][1] = BIAS /\ l[7][1] = SCALE /\ l[8][2] = At(d[1], d[2]) /\ l[9][1] = 0
    BY <2>1
  <2> HIDE DEF l
  <2>4. \A k \in 1..9 : k = 8 \/ l[k][1] # DST
    BY <2>3 DEF SRC, WT, PAD, CBUF, BIAS, SCALE, DST
  <2> QED BY <2>2, <2>3, <2>4, <1>2 DEF l

(* The runtime fills its buffers in: the task array and the lists. *)
LEMMA FillKeeps == ASSUME ReplayInv, Fill PROVE CaptureInv'
<1>1. runtime' = runtime /\ plan' = plan /\ dump' = dump /\ filled' /\ recorded' = recorded
      /\ runtime \in {"rknn", "mesa"} /\ plan \in Plans
  BY DEF Fill, ReplayInv, CaptureInv
<1>2. ASSUME runtime = "rknn", ~dump.done PROVE RunningInv'
  <2>1. RunningInv BY <1>2 DEF ReplayInv, CaptureInv
  <2>2. IsSeq(buffers) /\ Len(buffers) = 5 /\ DOMAIN buffers = 1..5
    BY <1>2, <2>1, LayoutIs, SeqIs DEF Fill, RunningInv
  <2>3. \A i \in 1..5 : BufferOK(buffers[i], i) BY <2>1, <2>2 DEF RunningInv
  <2>4. \A i \in 1..5 : buffers[i].dma = AddrIs(i) /\ DOMAIN buffers[i] = BufferFields
    BY <2>3 DEF BufferOK
  <2> DEFINE full(i) == Filled(buffers[i].mem, Contents[Layout[i][1]])
  <2>5. buffers' = [i \in 1..5 |-> [buffers[i] EXCEPT !.mem = full(i)]]
    BY <2>2 DEF Fill
  <2> HIDE DEF full
  <2>6. \A i \in 1..5 : /\ DOMAIN buffers'[i] = BufferFields /\ buffers'[i].dma = AddrIs(i)
                        /\ buffers'[i].mem = full(i)
    BY <2>4, <2>5 DEF BufferFields
  <2>7. IsSeq(buffers') /\ Len(buffers') = 5
    <3>1. buffers' = [i \in 1..5 |-> buffers'[i]] BY <2>5
    <3> QED BY <3>1, FunctionIs
  <2>8. \A i \in 1..5 : IsSeq(full(i)) /\ Len(full(i)) = SizeIs(i) /\ DOMAIN full(i) = 1..SizeIs(i)
    <3> SUFFICES ASSUME NEW i \in 1..5
                 PROVE IsSeq(full(i)) /\ Len(full(i)) = SizeIs(i) /\ DOMAIN full(i) = 1..SizeIs(i)
      OBVIOUS
    <3>1. IsSeq(buffers[i].mem) /\ Len(buffers[i].mem) = SizeIs(i) BY <2>3 DEF BufferOK
    <3>2. SizeIs(i) \in Nat /\ DOMAIN buffers[i].mem = 1..SizeIs(i) BY <3>1, SeqIs
    <3>3. full(i) = [k \in 1..SizeIs(i) |-> full(i)[k]] BY <3>2 DEF full, Filled
    <3> QED BY <3>2, <3>3, FunctionIs
  <2>16. \A i \in 1..5 : IsSeq(buffers[i].mem) /\ DOMAIN buffers[i].mem = 1..SizeIs(i)
    <3> SUFFICES ASSUME NEW i \in 1..5
                 PROVE IsSeq(buffers[i].mem) /\ DOMAIN buffers[i].mem = 1..SizeIs(i)
      OBVIOUS
    <3>1. IsSeq(buffers[i].mem) /\ Len(buffers[i].mem) = SizeIs(i) BY <2>3 DEF BufferOK
    <3> QED BY <3>1, SeqIs
  <2>9. \A i \in {3, 5} : full(i) = buffers[i].mem
    <3>1. /\ Contents["scratch"] = <<>> /\ Contents["output"] = <<>>
          /\ Layout[3][1] = "scratch" /\ Layout[5][1] = "output"
      BY <1>2, LayoutIs DEF Contents
    <3>2. ASSUME NEW mem, IsSeq(mem) PROVE Filled(mem, <<>>) = mem
      <4>1. PICK S : mem \in Seq(S) BY <3>2 DEF IsSeq
      <4>2. DOMAIN <<>> = {} OBVIOUS
      <4>3. mem = [k \in DOMAIN mem |-> mem[k]] BY <4>1
      <4> QED BY <4>2, <4>3 DEF Filled
    <3>3. IsSeq(buffers[3].mem) /\ IsSeq(buffers[5].mem) BY <2>3 DEF BufferOK
    <3> QED BY <3>1, <3>2, <3>3 DEF full
  <2>10. TaskArray(full(1), Length)
    <3>1. Contents["task"] = [t \in 1..Length |-> <<9, At("weights", (t - 1) * 9)>>]
      BY DEF Contents, WordsOfAList
    <3>2. Layout[1][1] = "task" /\ Role("weights") = 2 BY <1>2, LayoutIs
    <3>3. Length \in {1, 2} BY <1>1, ReplayConstantsOK DEF Length
    <3>4. buffers[2].dma = Top - 23 BY <2>4 DEF AddrIs
    <3>5. \A t \in 1..Length : At("weights", (t - 1) * 9) = Top - 23 + (t - 1) * 9
      BY <3>2, <3>4 DEF At
    <3>6. DOMAIN full(1) = 1..2 /\ DOMAIN buffers[1].mem = 1..2
      <4>1. SizeIs(1) = 2 BY DEF SizeIs
      <4>2. DOMAIN full(1) = 1..SizeIs(1) BY <2>8
      <4>3. DOMAIN buffers[1].mem = 1..SizeIs(1) BY <2>16
      <4> QED BY <4>1, <4>2, <4>3
    <3>7. \A t \in 1..Length : full(1)[t] = Contents["task"][t]
      <4>1. \A t \in 1..Length : t \in 1..2 BY <3>3
      <4>2. DOMAIN Contents["task"] = 1..Length BY <3>1
      <4> QED BY <4>1, <4>2, <3>2, <3>6 DEF full, Filled
    <3> QED BY <3>1, <3>5, <3>6, <3>7 DEF TaskArray
  <2>11. ListsFrom(full(2), 0)
    <3> DEFINE one == ListOf(plan[1])
               two == IF Length = 2 THEN ListOf(plan[2]) ELSE Zeros(WordsOfAList)
               data == << <<0, 1>>, <<0, 2>>, <<0, 1>> >>
               w == Contents["weights"]
               Good(l) == \A k \in DOMAIN l : l[k][1] = DST => l[k][2] \in Destinations
    <3>1. w = (one \o two) \o data
      BY <1>2, Zenon DEF Contents
    <3>2. Length \in {1, 2} BY <1>1, ReplayConstantsOK DEF Length
    <3>3. IsSeq(one) /\ Len(one) = 9 /\ one[1][1] # DST
          /\ \A k \in 1..9 : one[k][1] = DST => k = 8 /\ one[k][2] \in Destinations
      BY <1>1, <1>2, <2>2, <2>4, <3>2, ListIs
    <3>4. IsSeq(two) /\ Len(two) = 9
          /\ \A k \in 1..9 : two[k][1] = DST => k = 8 /\ two[k][2] \in Destinations
      <4>1. CASE Length = 2
        BY <4>1, <1>1, <1>2, <2>2, <2>4, ListIs
      <4>2. CASE Length # 2
        <5>1. two = Zeros(9) BY <4>2 DEF WordsOfAList
        <5>2. \A k \in 1..9 : Zeros(9)[k][1] # DST BY DEF Zeros, DST
        <5> QED BY <5>1, <5>2, ZerosBlank
      <4> QED BY <4>1, <4>2
    <3>5. IsSeq(data) /\ Len(data) = 3 /\ \A k \in 1..3 : data[k][1] # DST
      <4>1. data = [k \in 1..3 |-> data[k]] OBVIOUS
      <4>2. data[1][1] = 0 /\ data[2][1] = 0 /\ data[3][1] = 0 OBVIOUS
      <4>3. \A k \in 1..3 : k = 1 \/ k = 2 \/ k = 3 OBVIOUS
      <4>4. \A k \in 1..3 : data[k][1] = 0 BY <4>2, <4>3
      <4> HIDE DEF data
      <4>5. IsSeq(data) /\ Len(data) = 3 BY <4>1, FunctionIs
      <4>6. 0 # DST BY DEF DST
      <4> QED BY <4>4, <4>5, <4>6
    <3> HIDE DEF one, two, data, w
    <3>6. /\ IsSeq(one \o two) /\ Len(one \o two) = 18
          /\ \A k \in 1..9 : (one \o two)[k] = one[k]
          /\ \A k \in 1..9 : (one \o two)[9 + k] = two[k]
      <4>1. IsSeq(one) /\ IsSeq(two) BY <3>3, <3>4
      <4>2. Len(one) = 9 /\ Len(two) = 9 BY <3>3, <3>4
      <4>3. /\ IsSeq(one \o two) /\ Len(one \o two) = Len(one) + Len(two)
            /\ \A k \in 1..Len(one) : (one \o two)[k] = one[k]
            /\ \A k \in 1..Len(two) : (one \o two)[Len(one) + k] = two[k]
        BY <4>1, ConcatIs
      <4>4. Len(one \o two) = 9 + 9 BY <4>2, <4>3, Zenon
      <4>5. \A k \in 1..9 : (one \o two)[k] = one[k] BY <4>2, <4>3, Zenon
      <4>6. \A k \in 1..9 : (one \o two)[9 + k] = two[k] BY <4>2, <4>3, Zenon
      <4>7. Len(one \o two) = 18 BY <4>4
      <4> QED BY <4>3, <4>5, <4>6, <4>7, Zenon
    <3>7. /\ IsSeq(w) /\ Len(w) = 21
          /\ \A k \in 1..18 : w[k] = (one \o two)[k]
          /\ \A k \in 1..3 : w[18 + k] = data[k]
      <4>1. IsSeq(one \o two) /\ IsSeq(data) BY <3>5, <3>6
      <4>2. Len(one \o two) = 18 /\ Len(data) = 3 BY <3>5, <3>6
      <4>3. /\ IsSeq(w) /\ Len(w) = Len(one \o two) + Len(data)
            /\ \A k \in 1..Len(one \o two) : w[k] = (one \o two)[k]
            /\ \A k \in 1..Len(data) : w[Len(one \o two) + k] = data[k]
        BY <3>1, <4>1, ConcatIs
      <4>4. Len(w) = 18 + 3 BY <4>2, <4>3, Zenon
      <4>5. \A k \in 1..18 : w[k] = (one \o two)[k] BY <4>2, <4>3, Zenon
      <4>6. \A k \in 1..3 : w[18 + k] = data[k] BY <4>2, <4>3, Zenon
      <4>7. IsSeq(w) BY <4>3
      <4>8. Len(w) = 21 BY <4>4
      <4> QED BY <4>5, <4>6, <4>7, <4>8, Zenon
    <3>8. \A k \in 1..21 : w[k][1] = DST => k \in {8, 17} /\ w[k][2] \in Destinations
      <4> SUFFICES ASSUME NEW k \in 1..21, w[k][1] = DST
                   PROVE  k \in {8, 17} /\ w[k][2] \in Destinations
        OBVIOUS
      <4>1. CASE k \in 1..9
        <5>1. k \in 1..18 BY <4>1
        <5>2. w[k] = (one \o two)[k] BY <5>1, <3>7
        <5>3. (one \o two)[k] = one[k] BY <4>1, <3>6
        <5> QED BY <4>1, <5>2, <5>3, <3>3
      <4>2. CASE k \in 10..18
        <5>1. PICK j \in 1..9 : k = 9 + j BY <4>2
        <5>3. k \in 1..18 BY <4>2
        <5>4. w[k] = (one \o two)[k] BY <5>3, <3>7
        <5>5. (one \o two)[9 + j] = two[j] BY <3>6
        <5>2. w[k] = two[j] BY <5>1, <5>4, <5>5
        <5>6. two[j][1] = DST => j = 8 /\ two[j][2] \in Destinations BY <3>4
        <5> QED BY <5>1, <5>2, <5>6
      <4>3. CASE k \in 19..21
        <5>1. PICK j \in 1..3 : k = 18 + j BY <4>3
        <5>2. w[k] = data[j] BY <5>1, <3>7
        <5> QED BY <5>2, <3>5
      <4> QED BY <4>1, <4>2, <4>3
    <3>9. w[1][1] # DST
      <4>3. 1 \in 1..18 /\ 1 \in 1..9 OBVIOUS
      <4>1. w[1] = (one \o two)[1] BY <3>7, <4>3, Zenon
      <4>2. (one \o two)[1] = one[1] BY <3>6, <4>3, Zenon
      <4> QED BY <3>3, <4>1, <4>2
    <3>10. full(2) = w
      <4>1. Layout[2][1] = "weights" BY <1>2, LayoutIs
      <4>2. SizeIs(2) = 21 BY DEF SizeIs
      <4>3. DOMAIN buffers[2].mem = 1..SizeIs(2) BY <2>16
      <4>4. DOMAIN buffers[2].mem = 1..21 BY <4>2, <4>3
      <4>5. DOMAIN w = 1..21 BY <3>7, SeqIs
      <4>6. PICK S : w \in Seq(S) BY <3>7 DEF IsSeq
      <4>7. w = [k \in 1..21 |-> w[k]] BY <4>5, <4>6
      <4>8. full(2) = [k \in 1..21 |-> w[k]] BY <4>1, <4>4, <4>5 DEF full, Filled, w
      <4> QED BY <4>7, <4>8
    <3>11. DOMAIN w = 1..21 BY <3>7, SeqIs
    <3> QED BY <3>8, <3>9, <3>10, <3>11 DEF ListsFrom
  <2>12. \A i \in 1..5 : BufferOK(buffers'[i], i)
    <3>1. \A i \in {3, 5} : ~Nonzero(full(i)) BY <2>3, <2>9 DEF BufferOK
    <3> QED BY <2>6, <2>8, <3>1 DEF BufferOK
  <2>13. TaskArray(buffers'[1].mem, Length) /\ ListsFrom(buffers'[2].mem, 0)
    BY <2>6, <2>10, <2>11
  <2>15. Length' = Length BY <1>1 DEF Length
  <2>14. recorded' = [i \in 1..5 |-> i] BY <1>1, <2>1, <2>2 DEF RunningInv
  <2> QED BY <2>7, <2>12, <2>13, <2>14, <2>15 DEF RunningInv
<1> QED BY <1>1, <1>2 DEF ReplayInv, CaptureInv, DumpInv, TaskArray, ListsFrom, Length

(* The shim writes what it saw. *)
LEMMA SubmitKeeps ==
  ASSUME ReplayInv, NEW missing \in 0..3, Submit(missing)
  PROVE  CaptureInv'
<1>1. /\ runtime' = runtime /\ plan' = plan /\ runtime = "rknn" /\ ~dump.done /\ filled
      /\ dump' = Dumped(buffers, missing) /\ plan \in Plans
  BY DEF Submit, ReplayInv, CaptureInv
<1>2. RunningInv BY <1>1 DEF ReplayInv, CaptureInv
<1>3. /\ Len(buffers) = 5 /\ recorded = [i \in 1..5 |-> i]
      /\ \A i \in 1..5 : BufferOK(buffers[i], i)
      /\ TaskArray(buffers[1].mem, Length) /\ ListsFrom(buffers[2].mem, 0)
  BY <1>1, <1>2 DEF RunningInv
<1>4. /\ dump'.done /\ dump'.task_number = Length
      /\ dump'.bo = [i \in 1..5 |-> [vdma |-> buffers[i].dma, vsize |-> Len(buffers[i].mem)]]
      /\ dump'.file = [i \in 1..5 |-> IF i = missing THEN <<>> ELSE buffers[i].mem]
      /\ dump'.task_bo = Max({0} \cup {i \in 1..5 : Layout[i][1] = "task"})
  <2>1. DOMAIN recorded = 1..5 /\ \A i \in 1..5 : recorded[i] = i BY <1>3
  <2> QED BY <1>1, <2>1 DEF Dumped
<1>5. dump'.task_bo = 1
  <2>1. \A i \in 1..5 : Layout[i][1] = "task" <=> i = 1
    <3>1. \A i \in 1..5 : i = 1 \/ i = 2 \/ i = 3 \/ i = 4 \/ i = 5 OBVIOUS
    <3> QED BY <3>1, <1>1, LayoutIs
  <2>2. {0} \cup {i \in 1..5 : Layout[i][1] = "task"} = {0, 1} BY <2>1
  <2>3. Max({0, 1}) = 1 BY DEF Max
  <2> QED BY <1>4, <2>2, <2>3
<1>6. DOMAIN dump'.bo = 1..5 /\ Len(dump'.bo) = 5
  <2>1. dump'.bo = [i \in 1..5 |-> dump'.bo[i]] BY <1>4
  <2> QED BY <2>1, FunctionIs
<1>7. \A i \in 1..5 : dump'.bo[i].vdma = AddrIs(i) /\ dump'.bo[i].vsize = SizeIs(i)
  <2> SUFFICES ASSUME NEW i \in 1..5
               PROVE  dump'.bo[i].vdma = AddrIs(i) /\ dump'.bo[i].vsize = SizeIs(i)
    OBVIOUS
  <2>1. dump'.bo[i] = [vdma |-> buffers[i].dma, vsize |-> Len(buffers[i].mem)] BY <1>4
  <2>2. buffers[i].dma = AddrIs(i) /\ Len(buffers[i].mem) = SizeIs(i) BY <1>3 DEF BufferOK
  <2> QED BY <2>1, <2>2
<1>8. \A i \in 1..5 : dump'.file[i] = <<>> \/ dump'.file[i] = buffers[i].mem
  BY <1>4
<1>9. ~Nonzero(<<>>) BY DEF Nonzero
<1>10. ~Nonzero(buffers[3].mem) /\ ~Nonzero(buffers[5].mem) BY <1>3 DEF BufferOK
<1>11. ~Nonzero(dump'.file[3]) /\ ~Nonzero(dump'.file[5]) BY <1>8, <1>9, <1>10
<1>12. Length' = Length BY <1>1 DEF Length
<1>13. DumpInv'
  BY <1>1, <1>3, <1>4, <1>5, <1>6, <1>7, <1>8, <1>11, <1>12 DEF DumpInv
<1> QED BY <1>1, <1>4, <1>13 DEF CaptureInv

(* The captured process. *)
LEMMA CaptureKeeps ==
  ASSUME ReplayInv, CaptureNext \/ UNCHANGED capture
  PROVE  CaptureInv' /\ (dump.done => dump'.done) /\ runtime' = runtime /\ plan' = plan
<1>1. ASSUME MesaDumps PROVE CaptureInv'
  BY <1>1 DEF MesaDumps, ReplayInv, CaptureInv
<1>2. ASSUME UNCHANGED capture PROVE CaptureInv'
  BY <1>2
     DEF capture, ReplayInv, CaptureInv, RunningInv, DumpInv, TaskArray, ListsFrom, Length
<1>3. CaptureInv' BY <1>1, <1>2, CreateKeeps, FillKeeps, SubmitKeeps DEF CaptureNext
<1>4. (dump.done => dump'.done) /\ runtime' = runtime /\ plan' = plan
  <2>1. CASE MemCreate BY <2>1 DEF MemCreate
  <2>2. CASE Fill BY <2>2 DEF Fill
  <2>3. ASSUME NEW m \in 0..3, Submit(m)
        PROVE  (dump.done => dump'.done) /\ runtime' = runtime /\ plan' = plan
    BY <2>3 DEF Submit
  <2>4. CASE MesaDumps BY <2>4 DEF MesaDumps
  <2>5. CASE UNCHANGED capture BY <2>5 DEF capture
  <2> QED BY <2>1, <2>2, <2>3, <2>4, <2>5 DEF CaptureNext
<1> QED BY <1>3, <1>4

(* It does not touch the program. *)
LEMMA ProgramRests ==
  ASSUME ProgramInv, me' = me, dump.done => dump'.done, runtime' = runtime, plan' = plan
  PROVE  ProgramInv'
<1>1. Length' = Length BY DEF Length
<1>2. CreateInv' <=> CreateInv BY DEF CreateInv
<1>3. PatchInv' <=> PatchInv BY <1>1 DEF PatchInv, BoOK
<1>4. (LoadedInv' <=> LoadedInv) /\ (ShowInv' <=> ShowInv) BY DEF LoadedInv, ShowInv, BoOK
<1>5. ShowsOwnOutput' <=> ShowsOwnOutput BY DEF ShowsOwnOutput
<1> QED BY <1>2, <1>3, <1>4, <1>5 DEF ProgramInv

(* The program knows the captured ranges. *)
Ranges == \A i \in 1..5 : me.bo[i].vdma = AddrIs(i) /\ me.bo[i].vsize = SizeIs(i)

(* which_bo() finds the pool or the output for a destination, the buffer of the
   lists for an address in it, and nothing for 0. *)
LEMMA WhichIs ==
  ASSUME DOMAIN me.bo = 1..5, Ranges
  PROVE  /\ \A v \in Destinations : which_bo(v) \in {3, 5}
         /\ \A v \in Top - 23 .. Top - 3 : which_bo(v) = 2
         /\ which_bo(0) = 0
<1>0. Top \in Nat /\ Top > 33 BY ReplayConstantsOK
<1>1. \A i \in 1..5 : AddrIs(i) \in Int /\ SizeIs(i) \in Int BY <1>0 DEF AddrIs, SizeIs
<1> DEFINE S(v) == {i \in DOMAIN me.bo : Within(v, me.bo[i])}
<1>2. \A v \in Int, i \in 1..5 : i \in S(v) <=> (AddrIs(i) <= v /\ v < AddrIs(i) + SizeIs(i))
  BY <1>1 DEF Ranges, Within
<1>3. \A v \in Int : which_bo(v) = IF S(v) = {} THEN 0 ELSE Min(S(v)) BY DEF which_bo
<1>4. \A i \in Nat : Min({i}) = i BY DEF Min
<1>5. \A v : S(v) \subseteq 1..5 BY DEF S
<1> HIDE DEF S
<1>6. ASSUME NEW v \in Int, v = Top - 24 PROVE S(v) = {3}
  <2>1. \A i \in 1..5 : i \in S(v) <=> i = 3 BY <1>6, <1>0, <1>2 DEF AddrIs, SizeIs
  <2> QED BY <2>1, <1>5
<1>7. ASSUME NEW v \in Int, v = Top - 28 \/ v = Top - 27 PROVE S(v) = {5}
  <2>1. \A i \in 1..5 : i \in S(v) <=> i = 5 BY <1>7, <1>0, <1>2 DEF AddrIs, SizeIs
  <2> QED BY <2>1, <1>5
<1>8. ASSUME NEW v \in Int, Top - 23 <= v, v <= Top - 3 PROVE S(v) = {2}
  <2>1. \A i \in 1..5 : i \in S(v) <=> i = 2 BY <1>8, <1>0, <1>2 DEF AddrIs, SizeIs
  <2> QED BY <2>1, <1>5
<1>9. S(0) = {}
  <2>1. \A i \in 1..5 : i \notin S(0) BY <1>0, <1>2 DEF AddrIs, SizeIs
  <2> QED BY <2>1, <1>5
<1>10. ASSUME NEW v \in Int, NEW i \in 1..5, S(v) = {i} PROVE which_bo(v) = i
  BY <1>3, <1>4, <1>10
<1>11. \A v \in Destinations : which_bo(v) \in {3, 5}
  <2> SUFFICES ASSUME NEW v \in Destinations PROVE which_bo(v) \in {3, 5}
    OBVIOUS
  <2>1. v \in Int /\ (v = Top - 24 \/ v = Top - 28 \/ v = Top - 27) BY <1>0 DEF Destinations
  <2> QED BY <2>1, <1>6, <1>7, <1>10
<1>12. \A v \in Top - 23 .. Top - 3 : which_bo(v) = 2
  <2> SUFFICES ASSUME NEW v \in Top - 23 .. Top - 3 PROVE which_bo(v) = 2
    OBVIOUS
  <2>1. v \in Int /\ Top - 23 <= v /\ v <= Top - 3 BY <1>0
  <2> QED BY <2>1, <1>8, <1>10
<1> QED BY <1>3, <1>9, <1>11, <1>12

(* A failed call ends the program; nothing is shown. *)
LEMMA ExitKeeps ==
  ASSUME ReplayInv, me.pc # "exit", me' = Exits(1), UNCHANGED capture
  PROVE  ProgramInv'
<1>1. DOMAIN me = MeFields /\ me.ran \in Nat /\ me.shown = <<>>
  BY DEF ReplayInv, ProgramInv
<1>2. /\ DOMAIN me' = MeFields /\ me'.prog = me.prog /\ me'.pc = "exit" /\ me'.ran = me.ran
      /\ me'.shown = <<>>
  BY <1>1 DEF Exits, MeFields
<1>3. runtime' = runtime BY DEF capture
<1> QED BY <1>1, <1>2, <1>3 DEF ProgramInv, ReplayInv, ShowsOwnOutput

(* What holds of a program on its way, whatever it does to its buffers. *)
OnTheWay == /\ DOMAIN me = MeFields /\ me.ran \in Nat /\ me.prog \in {"rknpu", "rocket", "mesa"}
            /\ ((me.prog = "mesa") <=> (runtime = "mesa"))
            /\ me.pc \in {"meta", "create", "patch", "submit", "wait", "report"}
            /\ (me.pc # "meta" => dump.done)
            /\ me.shown = <<>>

(* A program that has not ended has shown nothing. *)
LEMMA Going == ASSUME ReplayInv, me.pc # "exit" PROVE OnTheWay
BY DEF ReplayInv, ProgramInv, OnTheWay

(* The manifest is read: the ranges are those of the capture. *)
LEMMA MetaKeeps == ASSUME ReplayInv, Meta PROVE ProgramInv'
<1>1. /\ me.prog \in {"rknpu", "rocket"} /\ me.pc = "meta" /\ dump.done
      /\ UNCHANGED capture /\ OnTheWay
  BY Going DEF Meta, In
<1>2. runtime = "rknn" /\ runtime' = runtime /\ dump'.done
  BY <1>1 DEF ReplayInv, CaptureInv, OnTheWay, capture
<1>3. DumpInv /\ me.tasks = <<>> /\ me.out = 0
  BY <1>1, <1>2 DEF ReplayInv, CaptureInv, ProgramInv
<1>4. PICK fresh : /\ me' = [Goes("create") EXCEPT !.bo = fresh] \/ me' = Exits(1)
                   /\ fresh = [i \in 1..5 |-> [vdma |-> dump.bo[i].vdma, vsize |-> dump.bo[i].vsize,
                                     created |-> FALSE, dma |-> -1,
                                     cpu |-> <<>>, mem |-> <<>>]]
  <2>1. Min({Len(dump.bo), MaxBo}) = 5
    <3>1. Len(dump.bo) = 5 BY <1>3 DEF DumpInv
    <3>2. \A m \in Nat : m >= 5 => Min({5, m}) = 5 BY DEF Min
    <3> QED BY <3>1, <3>2, ReplayConstantsOK
  <2> QED BY <2>1 DEF Meta
<1>5. CASE me' = Exits(1)
  BY <1>1, <1>5, ExitKeeps
<1>6. CASE me' = [Goes("create") EXCEPT !.bo = fresh]
  <2>1. /\ DOMAIN me' = MeFields /\ me'.prog = me.prog /\ me'.pc = "create" /\ me'.bo = fresh
        /\ me'.ran = me.ran /\ me'.shown = <<>> /\ me'.tasks = <<>> /\ me'.out = 0
    BY <1>1, <1>3, <1>6 DEF Goes, MeFields, OnTheWay
  <2>2. CreateInv'
    <3>1. me'.bo = [i \in 1..5 |-> me'.bo[i]] BY <2>1, <1>4
    <3>2. DOMAIN me'.bo = 1..5 /\ Len(me'.bo) = 5 BY <3>1, FunctionIs
    <3>3. \A i \in 1..5 : /\ DOMAIN me'.bo[i] = BoFields /\ ~me'.bo[i].created
                          /\ me'.bo[i].vdma = AddrIs(i) /\ me'.bo[i].vsize = SizeIs(i)
      <4> SUFFICES ASSUME NEW i \in 1..5
                   PROVE  /\ DOMAIN me'.bo[i] = BoFields /\ ~me'.bo[i].created
                          /\ me'.bo[i].vdma = AddrIs(i) /\ me'.bo[i].vsize = SizeIs(i)
        OBVIOUS
      <4>1. me'.bo[i] = [vdma |-> dump.bo[i].vdma, vsize |-> dump.bo[i].vsize,
                         created |-> FALSE, dma |-> -1, cpu |-> <<>>, mem |-> <<>>]
        BY <2>1, <1>4
      <4>2. dump.bo[i].vdma = AddrIs(i) /\ dump.bo[i].vsize = SizeIs(i) BY <1>3 DEF DumpInv
      <4> QED BY <4>1, <4>2 DEF BoFields
    <3> QED BY <2>1, <3>2, <3>3 DEF CreateInv
  <2> QED BY <1>1, <1>2, <2>1, <2>2 DEF ProgramInv, ShowsOwnOutput, OnTheWay
<1> QED BY <1>4, <1>5, <1>6

(* The vendor's driver is all that replay.c relies on. *)
LEMMA RknpuKeeps ==
  ASSUME ReplayInv, ReplayNext, me.prog = "rknpu", me.pc # "meta"
  PROVE  ProgramInv'
<1>1. UNCHANGED capture /\ me.pc # "exit" /\ OnTheWay
  <2>1. me.pc # "exit" /\ UNCHANGED capture
    BY
       DEF ReplayNext, Meta, Create, PatchTask, Flush, SubmitRocket, SubmitRknpu,
           NpuRuns, Poll, SyncBack, Report, MesaLoad, MesaPatch, In
  <2> QED BY <2>1, Going
<1>2. runtime = "rknn" /\ runtime' = runtime /\ dump'.done /\ dump.done
  BY <1>1 DEF ReplayInv, CaptureInv, OnTheWay, capture
<1>3. dump.task_number # 0 /\ dump.task_number \in Nat
  <2>1. DumpInv BY <1>2 DEF ReplayInv, CaptureInv
  <2>2. Len(plan) \in {1, 2} BY ReplayConstantsOK DEF ReplayInv, CaptureInv
  <2>3. dump.task_number = 1 \/ dump.task_number = 2 BY <2>1, <2>2 DEF DumpInv, Length
  <2> QED BY <2>3
<1>4. CASE me' = Exits(1)
  BY <1>1, <1>4, ExitKeeps
<1>5. ASSUME DOMAIN me' = MeFields, me'.prog = "rknpu", me'.pc \in {"patch", "submit"},
             me'.ran \in Nat, me'.shown = <<>>
      PROVE  ProgramInv'
  BY <1>5, <1>2 DEF ProgramInv, ShowsOwnOutput
<1>6. CASE Create
  <2>1. PICK bo, ta : me' = Exits(1) \/ me' = [Goes("patch") EXCEPT !.bo = bo, !.ta = ta]
    BY <1>6 DEF Create
  <2> QED BY <2>1, <1>1, <1>4, <1>5 DEF Goes, MeFields, OnTheWay
<1>7. CASE PatchTask
  <2>1. me.pc = "patch" BY <1>7 DEF PatchTask, In
  <2>2. PICK tasks, out, bo :
          me' = Exits(1) \/ me' = [me EXCEPT !.tasks = tasks, !.out = out, !.bo = bo]
    BY <1>7 DEF PatchTask
  <2> QED BY <2>1, <2>2, <1>1, <1>4, <1>5 DEF MeFields, OnTheWay
<1>8. CASE Flush
  <2>1. PICK out, bo : me' = [Goes("submit") EXCEPT !.bo = bo, !.out = out]
    BY <1>8, <1>1 DEF Flush, OnTheWay, MeFields, Goes
  <2> QED BY <2>1, <1>1, <1>5 DEF Goes, MeFields, OnTheWay
<1>9. CASE SubmitRknpu
  <2>1. PICK bo : me' = Exits(1) \/ me' = [Goes("wait") EXCEPT !.bo = bo, !.ran = dump.task_number]
    BY <1>9 DEF SubmitRknpu
  <2>2. CASE me' = [Goes("wait") EXCEPT !.bo = bo, !.ran = dump.task_number]
    <3>1. /\ DOMAIN me' = MeFields /\ me'.prog = "rknpu" /\ me'.pc = "wait"
          /\ me'.ran = dump.task_number /\ me'.shown = <<>>
      BY <2>2, <1>1 DEF Goes, MeFields, OnTheWay
    <3> QED BY <3>1, <1>2, <1>3 DEF ProgramInv, ShowsOwnOutput
  <2> QED BY <2>1, <2>2, <1>4
<1>10. CASE SyncBack
  <2>0. me.pc = "wait" /\ me.ran # 0 BY <1>10 DEF SyncBack, In, ReplayInv, ProgramInv
  <2>1. /\ DOMAIN me' = MeFields /\ me'.prog = "rknpu" /\ me'.pc = "report"
        /\ me'.ran = me.ran /\ me'.shown = <<>>
    BY <1>10, <1>1 DEF SyncBack, Goes, MeFields, OnTheWay
  <2> QED BY <2>0, <2>1, <1>1, <1>2 DEF ProgramInv, ShowsOwnOutput, OnTheWay
<1>11. CASE Report
  <2>0. me.pc = "report" /\ me.ran # 0 BY <1>11 DEF Report, In, ReplayInv, ProgramInv
  <2>1. DOMAIN me' = MeFields /\ me'.prog = "rknpu" /\ me'.pc = "exit" /\ me'.ran = me.ran
    BY <1>11, <1>1 DEF Report, Exits, MeFields, OnTheWay
  <2> QED BY <2>0, <2>1, <1>1, <1>2 DEF ProgramInv, ShowsOwnOutput, OnTheWay
<1> QED
  BY <1>6, <1>7, <1>8, <1>9, <1>10, <1>11
     DEF ReplayNext, Meta, SubmitRocket, NpuRuns, Poll, MesaLoad, MesaPatch, In

(* replay_rocket loads its buffers; the task array only into its own memory. *)
LEMMA RocketCreate == ASSUME ReplayInv, Create, me.prog = "rocket" PROVE ProgramInv'
<1>1. me.pc = "create" /\ UNCHANGED capture /\ OnTheWay
  BY Going DEF Create, In
<1>2. runtime = "rknn" /\ runtime' = runtime /\ plan' = plan /\ dump'.done /\ dump.done
  BY <1>1 DEF ReplayInv, CaptureInv, OnTheWay, capture
<1>3. DumpInv /\ CreateInv /\ BoOK
  BY <1>1, <1>2 DEF ReplayInv, CaptureInv, ProgramInv, CreateInv, BoOK
<1>4. CASE me' = Exits(1)
  BY <1>1, <1>4, ExitKeeps
<1>5. CASE me' # Exits(1)
  <2>1. PICK dma \in Places, junk \in {<<0, 0>>, <<1, me.bo[2].vdma>>} :
          me' = [Goes("patch") EXCEPT !.bo = [i \in DOMAIN me.bo |-> Made(dma, i)],
                                      !.ta = ReadIn(junk)]
    BY <1>5 DEF Create
  <2> DEFINE new == [i \in 1..5 |-> Made(dma, i)]
             array == ReadIn(junk)
  <2>2. me' = [Goes("patch") EXCEPT !.bo = new, !.ta = array]
    BY <2>1, <1>3 DEF CreateInv
  <2>3. /\ IsSeq(new) /\ Len(new) = 5 /\ DOMAIN new = 1..5
    <3>1. new = [i \in 1..5 |-> new[i]] OBVIOUS
    <3> QED BY <3>1, FunctionIs
  <2>4. \A i \in 1..5 : /\ DOMAIN new[i] = BoFields
                        /\ new[i].vdma = AddrIs(i) /\ new[i].vsize = SizeIs(i)
                        /\ (new[i].created <=> (i # 1)) /\ (i # 1 => new[i].cpu = File(i))
    <3>1. dump.task_bo = 1 BY <1>3 DEF DumpInv
    <3> SUFFICES ASSUME NEW i \in 1..5
                 PROVE /\ DOMAIN new[i] = BoFields
                       /\ new[i].vdma = AddrIs(i) /\ new[i].vsize = SizeIs(i)
                       /\ (new[i].created <=> (i # 1)) /\ (i # 1 => new[i].cpu = File(i))
      OBVIOUS
    <3>2. /\ DOMAIN me.bo[i] = BoFields /\ me.bo[i].vdma = AddrIs(i)
          /\ me.bo[i].vsize = SizeIs(i) /\ ~me.bo[i].created
      BY <1>3 DEF CreateInv
    <3>3. CASE i = 1
      <4>1. new[i] = me.bo[i] BY <3>1, <3>3 DEF Made, Own
      <4> QED BY <3>2, <3>3, <4>1
    <3>4. CASE i # 1
      <4>1. PICK a : new[i] = [me.bo[i] EXCEPT !.created = TRUE, !.dma = a,
                                     !.cpu = File(i), !.mem = Zeros(me.bo[i].vsize)]
        BY <3>1, <3>4 DEF Made, Own
      <4> HIDE DEF new
      <4> QED BY <3>2, <3>4, <4>1 DEF BoFields
    <3> QED BY <3>3, <3>4
  <2>5. \A i \in 1..5 : me.bo[i].vsize = SizeIs(i) BY <1>3 DEF CreateInv
  <2>6. ListsFrom(File(2), 0)
    <3>1. SizeIs(2) = 21 BY DEF SizeIs
    <3>2. ListsFrom(Zeros(21), 0) BY DEF ListsFrom, Zeros, DST
    <3>3. dump.file[2] = <<>> \/ ListsFrom(dump.file[2], 0) BY <1>3 DEF DumpInv
    <3>4. File(2) = IF dump.file[2] = <<>> THEN Zeros(21) ELSE dump.file[2]
      BY <3>1, <2>5 DEF File
    <3> QED BY <3>2, <3>3, <3>4
  <2>7. ~Nonzero(File(3)) /\ ~Nonzero(File(5))
    <3>1. \A i \in {3, 5} : File(i) = Zeros(SizeIs(i)) \/ File(i) = dump.file[i] BY <2>5 DEF File
    <3>2. ~Nonzero(Zeros(1)) /\ ~Nonzero(Zeros(2)) BY ZerosBlank
    <3>3. SizeIs(3) = 1 /\ SizeIs(5) = 2 BY DEF SizeIs
    <3>4. ~Nonzero(dump.file[3]) /\ ~Nonzero(dump.file[5]) BY <1>3 DEF DumpInv
    <3> QED BY <3>1, <3>2, <3>3, <3>4
  <2>8. TaskArray(array, Length) \/ JunkArray(array)
    <3>1. CASE dump.file[1] = <<>>
      <4>1. SizeIs(1) = 2 /\ AddrIs(2) = Top - 23 BY DEF SizeIs, AddrIs
      <4>2. me.bo[2].vdma = Top - 23 BY <1>3, <4>1 DEF CreateInv
      <4>3. array = [k \in 1..2 |-> junk]
        BY <3>1, <4>1, <2>5, <1>3 DEF ReadIn, DumpInv
      <4>4. junk \in {<<0, 0>>, <<1, Top - 23>>} BY <4>2
      <4> HIDE DEF array
      <4> QED BY <4>3, <4>4 DEF JunkArray
    <3>2. CASE dump.file[1] # <<>>
      <4>1. array = dump.file[1] BY <3>2, <1>3 DEF File, ReadIn, DumpInv
      <4> QED BY <4>1, <3>2, <1>3 DEF DumpInv
    <3> QED BY <3>1, <3>2
  <2> HIDE DEF new, array
  <2>9. /\ DOMAIN me' = MeFields /\ me'.prog = "rocket" /\ me'.pc = "patch" /\ me'.ran = me.ran
        /\ me'.shown = <<>>
        /\ me'.bo = new /\ me'.ta = array /\ me'.tasks = <<>> /\ me'.out = 0
    BY <1>1, <1>3, <2>2 DEF Goes, MeFields, OnTheWay, CreateInv
  <2>10. PatchInv'
    <3>1. BoOK' /\ Len(me'.bo) = 5 BY <2>3, <2>4, <2>9 DEF BoOK
    <3>2. Length' = Length BY <1>2 DEF Length
    <3>3. IsSeq(<<>>) /\ Len(<<>>) = 0 BY DEF IsSeq
    <3>4. ListsFrom(me'.bo[2].cpu, 9 * Len(me'.tasks))
      <4>1. 9 * Len(me'.tasks) = 0 BY <2>9, <3>3
      <4>2. me'.bo[2].cpu = File(2) BY <2>4, <2>9
      <4> QED BY <4>1, <4>2, <2>6
    <3>5. ~Nonzero(me'.bo[3].cpu) /\ ~Nonzero(me'.bo[5].cpu) BY <2>4, <2>7, <2>9
    <3>6. \A i \in 1..5 : /\ me'.bo[i].vdma = AddrIs(i) /\ me'.bo[i].vsize = SizeIs(i)
                          /\ (me'.bo[i].created <=> (i # 1))
      BY <2>4, <2>9
    <3>7. (TaskArray(me.ta, Length) \/ JunkArray(me.ta))' BY <2>8, <2>9, <3>2
    <3> QED BY <3>1, <3>3, <3>4, <3>5, <3>6, <3>7, <2>9 DEF PatchInv
  <2> QED BY <2>9, <2>10, <1>1, <1>2 DEF ProgramInv, ShowsOwnOutput, OnTheWay
<1> QED BY <1>4, <1>5

(* Patching a list spoils that list only, and finds the output or nothing. *)
LEMMA PatchList ==
  ASSUME ReplayInv, me.prog = "rocket", me.pc = "patch", DOMAIN me.bo = 1..5, Ranges,
         NEW cpu, NEW n \in Nat, ListsFrom(cpu, 9 * n),
         me.out \in {0, 3, 5},
         NEW off \in Nat, NEW count \in Nat,
         \/ off = 9 * n /\ count = 9
         \/ off = 0 /\ count = 1,
         n <= 1
  PROVE  /\ ListsFrom(Relocated(cpu, off, count), 9 * (n + 1))
         /\ OutputOf(cpu, off, count) \in {0, 3, 5}
<1>1. ListsFrom(Relocated(cpu, off, count), 9 * (n + 1))
  <2> DEFINE r == Relocated(cpu, off, count)
  <2>1. DOMAIN cpu = 1..21 /\ cpu[1][1] # DST BY DEF ListsFrom
  <2>2. r = [k \in 1..21 |-> IF off < k /\ k <= off + count THEN Remapped(cpu[k]) ELSE cpu[k]]
    BY <2>1 DEF Relocated
  <2> HIDE DEF r
  <2>3. DOMAIN r = 1..21 BY <2>2
  <2>4. r[1][1] # DST
    <3>1. r[1] = cpu[1] \/ r[1] = Remapped(cpu[1]) BY <2>2
    <3>2. Remapped(cpu[1])[1] = cpu[1][1]
      <4> DEFINE x == me.bo[Min(Candidates(cpu[1][2]))].dma
                        + (cpu[1][2] - me.bo[Min(Candidates(cpu[1][2]))].vdma)
      <4>1. Remapped(cpu[1]) = <<cpu[1][1], x>> \/ Remapped(cpu[1]) = cpu[1] BY DEF Remapped
      <4> HIDE DEF x
      <4> QED BY <4>1
    <3> QED BY <3>1, <3>2, <2>1
  <2>5. \A k \in 1..21 : k > 9 * (n + 1) => r[k] = cpu[k] /\ k > 9 * n
    <3> SUFFICES ASSUME NEW k \in 1..21, k > 9 * (n + 1) PROVE r[k] = cpu[k] /\ k > 9 * n
      OBVIOUS
    <3>1. k > 9 * n /\ ~(off < k /\ k <= off + count) OBVIOUS
    <3> QED BY <3>1, <2>2
  <2>6. \A k \in 1..21 : k > 9 * n /\ cpu[k][1] = DST => k \in {8, 17} /\ cpu[k][2] \in Destinations
    BY DEF ListsFrom
  <2> QED BY <2>3, <2>4, <2>5, <2>6 DEF ListsFrom, r
<1>2. OutputOf(cpu, off, count) \in {0, 3, 5}
  <2> DEFINE D == {k \in (off + 1)..(off + count) :
                     cpu[k][1] = DST /\ (me.prog = "rocket" => Candidates(cpu[k][2]) # {})}
  <2>1. OutputOf(cpu, off, count) = IF D = {} THEN me.out ELSE which_bo(cpu[Max(D)][2])
    BY DEF OutputOf
  <2>2. cpu[1][1] # DST BY DEF ListsFrom
  <2>3. \A k \in D : k = 9 * n + 8 /\ cpu[k][2] \in Destinations
    <3> SUFFICES ASSUME NEW k \in D PROVE k = 9 * n + 8 /\ cpu[k][2] \in Destinations
      OBVIOUS
    <3>1. k \in Int /\ off < k /\ k <= off + count /\ cpu[k][1] = DST OBVIOUS
    <3>2. off = 9 * n /\ count = 9
      <4>1. CASE off = 0 /\ count = 1
        <5>1. k = 1 BY <3>1, <4>1
        <5> QED BY <5>1, <3>1, <2>2
      <4> QED BY <4>1
    <3>3. k > 9 * n /\ k <= 9 * n + 9 /\ k \in 1..21 BY <3>1, <3>2
    <3>4. k \in {8, 17} /\ cpu[k][2] \in Destinations BY <3>1, <3>3 DEF ListsFrom
    <3>5. n = 0 \/ n = 1 OBVIOUS
    <3> QED BY <3>3, <3>4, <3>5
  <2> HIDE DEF D
  <2>4. CASE D = {} BY <2>1, <2>4
  <2>5. CASE D # {}
    <3>1. PICK k \in D : TRUE BY <2>5
    <3>2. D = {k} BY <2>3, <3>1
    <3>3. k \in Int BY <3>1, <2>3
    <3>4. Max({k}) = k BY <3>3 DEF Max
    <3>5. OutputOf(cpu, off, count) = which_bo(cpu[k][2]) BY <2>1, <2>5, <3>2, <3>4
    <3>6. cpu[k][2] \in Destinations BY <2>3, <3>1
    <3>7. which_bo(cpu[k][2]) \in {3, 5} BY <3>6, WhichIs
    <3> QED BY <3>5, <3>7
  <2> QED BY <2>4, <2>5
<1> QED BY <1>1, <1>2

(* replay_rocket points one more list into its own buffers. *)
LEMMA RocketPatch == ASSUME ReplayInv, PatchTask, me.prog = "rocket" PROVE ProgramInv'
<1>1. me.pc = "patch" /\ UNCHANGED capture /\ OnTheWay
  BY Going DEF PatchTask, In
<1>2. runtime = "rknn" /\ runtime' = runtime /\ plan' = plan /\ dump'.done /\ dump.done
  BY <1>1 DEF ReplayInv, CaptureInv, OnTheWay, capture
<1>3. DumpInv /\ PatchInv BY <1>1, <1>2 DEF ReplayInv, CaptureInv, ProgramInv
<1>4. CASE me' = Exits(1)
  BY <1>1, <1>4, ExitKeeps
<1>5. CASE me' # Exits(1)
  <2>1. PICK n \in Nat : n = Len(me.tasks) BY <1>3, SeqIs DEF PatchInv
  <2>2. Length = 1 \/ Length = 2
    <3>1. Len(plan) \in {1, 2} BY ReplayConstantsOK DEF ReplayInv, CaptureInv
    <3> QED BY <3>1 DEF Length
  <2>3. n < Length BY <2>1, <1>3 DEF PatchTask, DumpInv
  <2>4. n \in 0..1 /\ n + 1 \in 1..Length /\ n + 1 \in 1..2 BY <2>2, <2>3
  <2> DEFINE e == me.ta[n + 1]
             wb == which_bo(e[2])
             off == e[2] - me.bo[wb].vdma
  <2>5. /\ wb # 0 /\ me.bo[wb].created
        /\ \E task : me' = [me EXCEPT !.tasks = Append(@, task),
                              !.out = OutputOf(me.bo[wb].cpu, off, e[1]),
                              !.bo = [me.bo EXCEPT ![wb].cpu = Relocated(@, off, e[1])]]
    BY <1>5, <2>1 DEF PatchTask
  <2>6. Ranges /\ DOMAIN me.bo = 1..5 BY <1>3 DEF PatchInv, BoOK, Ranges
  <2>7. Top \in Nat /\ Top > 28 BY ReplayConstantsOK
  <2>8. \/ e = <<9, Top - 23 + n * 9>>
        \/ e = <<0, 0>> \/ e = <<1, Top - 23>>
    <3>1. CASE TaskArray(me.ta, Length)
      <4>1. me.ta[n + 1] = <<9, Top - 23 + ((n + 1) - 1) * 9>> BY <3>1, <2>4 DEF TaskArray
      <4>2. (n + 1) - 1 = n OBVIOUS
      <4> QED BY <4>1, <4>2
    <3>2. CASE JunkArray(me.ta)
      BY <3>2, <2>4 DEF JunkArray
    <3> QED BY <3>1, <3>2, <1>3 DEF PatchInv
  <2>9. e[2] # 0
    <3>1. which_bo(0) = 0 BY <2>6, WhichIs
    <3> QED BY <3>1, <2>5
  <2>10. \/ e[1] = 9 /\ e[2] = Top - 23 + n * 9
         \/ e[1] = 1 /\ e[2] = Top - 23
    <3> HIDE DEF e
    <3> QED BY <2>8, <2>9
  <2> HIDE DEF e
  <2>11. e[2] \in Top - 23 .. Top - 3 BY <2>10, <2>4, <2>7
  <2>12. wb = 2 BY <2>6, <2>11, WhichIs
  <2>13. me.bo[2].vdma = Top - 23
    <3>1. AddrIs(2) = Top - 23 BY DEF AddrIs
    <3> QED BY <3>1, <2>6 DEF Ranges
  <2>14. (off = 9 * n /\ e[1] = 9) \/ (off = 0 /\ e[1] = 1)
    BY <2>7, <2>10, <2>12, <2>13
  <2>15. off \in Nat /\ e[1] \in Nat BY <2>14
  <2>16. ListsFrom(me.bo[2].cpu, 9 * n) /\ me.out \in {0, 3, 5} BY <1>3, <2>1 DEF PatchInv
  <2>17. n <= 1 BY <2>4
  <2> HIDE DEF off, wb
  <2>18. /\ ListsFrom(Relocated(me.bo[2].cpu, off, e[1]), 9 * (n + 1))
         /\ OutputOf(me.bo[2].cpu, off, e[1]) \in {0, 3, 5}
    BY <1>1, <2>6, <2>14, <2>15, <2>16, <2>17, PatchList
  <2>19. PICK task : me' = [me EXCEPT !.tasks = Append(@, task),
                              !.out = OutputOf(me.bo[2].cpu, off, e[1]),
                              !.bo = [me.bo EXCEPT ![2].cpu = Relocated(@, off, e[1])]]
    BY <2>5, <2>12
  <2> DEFINE new == [me.bo EXCEPT ![2].cpu = Relocated(@, off, e[1])]
  <2>20. /\ DOMAIN me' = MeFields /\ me'.prog = "rocket" /\ me'.pc = "patch" /\ me'.ran = me.ran
         /\ me'.shown = <<>> /\ me'.tasks = Append(me.tasks, task)
         /\ me'.out = OutputOf(me.bo[2].cpu, off, e[1])
         /\ me'.bo = new /\ me'.ta = me.ta
    BY <1>1, <2>19 DEF MeFields, OnTheWay
  <2>21. PatchInv'
    <3>1. Length' = Length BY <1>2 DEF Length
    <3>2. IsSeq(me'.tasks) /\ Len(me'.tasks) = n + 1
      BY <1>3, <2>1, <2>20, AppendIs DEF PatchInv
    <3>3. \A i \in 1..5 : DOMAIN me.bo[i] = BoFields BY <1>3 DEF PatchInv, BoOK
    <3>4. /\ \A i \in 1..5 : i # 2 => new[i] = me.bo[i]
          /\ new[2] = [me.bo[2] EXCEPT !.cpu = Relocated(me.bo[2].cpu, off, e[1])]
          /\ DOMAIN new = 1..5
      BY <2>6
    <3>5. /\ DOMAIN new[2] = BoFields
          /\ new[2].vdma = me.bo[2].vdma /\ new[2].vsize = me.bo[2].vsize
          /\ new[2].created = me.bo[2].created /\ new[2].cpu = Relocated(me.bo[2].cpu, off, e[1])
      BY <3>3, <3>4 DEF BoFields
    <3>6. Len(new) = 5
      <4>1. new = [i \in 1..5 |-> new[i]] BY <2>6
      <4> QED BY <4>1, FunctionIs
    <3> HIDE DEF new
    <3>7. BoOK'
      BY <2>20, <3>3, <3>4, <3>5 DEF BoOK
    <3>8. \A i \in 1..5 : /\ new[i].vdma = AddrIs(i) /\ new[i].vsize = SizeIs(i)
                          /\ (new[i].created <=> (i # 1))
      <4>1. \A i \in 1..5 : /\ me.bo[i].vdma = AddrIs(i) /\ me.bo[i].vsize = SizeIs(i)
                            /\ (me.bo[i].created <=> (i # 1))
        BY <1>3 DEF PatchInv
      <4> SUFFICES ASSUME NEW i \in 1..5
                   PROVE  /\ new[i].vdma = AddrIs(i) /\ new[i].vsize = SizeIs(i)
                          /\ (new[i].created <=> (i # 1))
        OBVIOUS
      <4>2. CASE i = 2 BY <4>1, <4>2, <3>5
      <4>3. CASE i # 2
        <5>1. new[i] = me.bo[i] BY <3>4, <4>3
        <5> QED BY <4>1, <5>1
      <4> QED BY <4>2, <4>3
    <3>9. ~Nonzero(new[3].cpu) /\ ~Nonzero(new[5].cpu) BY <3>4, <1>3 DEF PatchInv
    <3>10. (TaskArray(me.ta, Length) \/ JunkArray(me.ta))' BY <2>20, <3>1, <1>3 DEF PatchInv
    <3>11. ListsFrom(me'.bo[2].cpu, 9 * Len(me'.tasks)) BY <2>18, <2>20, <3>2, <3>5
    <3>12. me'.out \in {0, 3, 5} BY <2>18, <2>20
    <3> QED BY <2>20, <3>2, <3>6, <3>7, <3>8, <3>9, <3>10, <3>11, <3>12 DEF PatchInv
  <2> QED BY <2>20, <2>21, <1>1, <1>2 DEF ProgramInv, ShowsOwnOutput, OnTheWay
<1> QED BY <1>4, <1>5

(* With the buffers flushed the device sees what was loaded. *)
LEMMA FlushIs ==
  ASSUME NEW bo, DOMAIN bo = 1..5, \A i \in 1..5 : DOMAIN bo[i] = BoFields,
         NEW o \in 1..5, bo[o].created, ~Nonzero(bo[o].cpu)
  PROVE  LET f == FlushedAll(bo) IN
         /\ DOMAIN f = 1..5 /\ \A i \in 1..5 : DOMAIN f[i] = BoFields
         /\ ~Nonzero(f[o].cpu) /\ ~Nonzero(f[o].mem)
<1> DEFINE f == FlushedAll(bo)
<1>1. f = [i \in 1..5 |-> IF bo[i].created THEN [bo[i] EXCEPT !.mem = bo[i].cpu] ELSE bo[i]]
  BY DEF FlushedAll
<1> HIDE DEF f
<1>2. \A i \in 1..5 : DOMAIN f[i] = BoFields
  <2> SUFFICES ASSUME NEW i \in 1..5 PROVE DOMAIN f[i] = BoFields
    OBVIOUS
  <2>1. f[i] = bo[i] \/ f[i] = [bo[i] EXCEPT !.mem = bo[i].cpu] BY <1>1
  <2> QED BY <2>1
<1>3. f[o] = [bo[o] EXCEPT !.mem = bo[o].cpu] BY <1>1
<1>4. f[o].cpu = bo[o].cpu /\ f[o].mem = bo[o].cpu BY <1>3 DEF BoFields
<1> QED BY <1>1, <1>2, <1>4 DEF f

(* replay_rocket hands its buffers over and settles which one is the output. *)
LEMMA RocketFlush == ASSUME ReplayInv, Flush, me.prog = "rocket" PROVE ProgramInv'
<1>1. me.pc = "patch" /\ UNCHANGED capture /\ OnTheWay
  BY Going DEF Flush, In
<1>2. runtime = "rknn" /\ runtime' = runtime /\ dump'.done
  BY <1>1 DEF ReplayInv, CaptureInv, OnTheWay, capture
<1>3. PatchInv /\ BoOK BY <1>1 DEF ReplayInv, ProgramInv, PatchInv
<1> DEFINE o == IF me.out = 0 THEN 5 ELSE me.out
           new == FlushedAll(me.bo)
<1>4. me' = [Goes("submit") EXCEPT !.bo = new, !.out = o]
  <2>1. Goes("submit").bo = me.bo /\ Goes("submit").out = me.out
    BY <1>1 DEF Goes, MeFields, OnTheWay
  <2>2. Len(me.bo) = 5 BY <1>3 DEF PatchInv
  <2> QED BY <2>1, <2>2 DEF Flush
<1>5. o \in {3, 5} BY <1>3 DEF PatchInv
<1>6. o \in 1..5 /\ me.bo[o].created /\ ~Nonzero(me.bo[o].cpu)
  BY <1>3, <1>5 DEF PatchInv
<1>7. /\ DOMAIN new = 1..5 /\ \A i \in 1..5 : DOMAIN new[i] = BoFields
      /\ ~Nonzero(new[o].cpu) /\ ~Nonzero(new[o].mem)
  BY <1>3, <1>6, FlushIs DEF BoOK
<1> HIDE DEF o, new
<1>8. /\ DOMAIN me' = MeFields /\ me'.prog = "rocket" /\ me'.pc = "submit" /\ me'.ran = me.ran
      /\ me'.shown = <<>> /\ me'.bo = new /\ me'.out = o
  BY <1>1, <1>4 DEF Goes, MeFields, OnTheWay
<1>9. ShowInv' BY <1>6, <1>7, <1>8 DEF ShowInv, BoOK
<1> QED BY <1>1, <1>2, <1>8, <1>9 DEF ProgramInv, ShowsOwnOutput, OnTheWay

(* The submission itself touches no buffer. *)
LEMMA RocketSubmit == ASSUME ReplayInv, SubmitRocket PROVE ProgramInv'
<1>1. me.prog = "rocket" /\ me.pc = "submit" /\ UNCHANGED capture /\ OnTheWay
  BY Going DEF SubmitRocket, In
<1>2. runtime = "rknn" /\ runtime' = runtime /\ dump'.done
  BY <1>1 DEF ReplayInv, CaptureInv, OnTheWay, capture
<1>3. ShowInv BY <1>1 DEF ReplayInv, ProgramInv
<1>4. CASE me' = Exits(1)
  BY <1>1, <1>4, ExitKeeps
<1>5. CASE me' # Exits(1)
  <2>1. PICK ins, outs, jobs :
          me' = [Goes("wait") EXCEPT !.ins = ins, !.outs = outs, !.jobs = jobs]
    BY <1>5 DEF SubmitRocket
  <2>2. /\ DOMAIN me' = MeFields /\ me'.prog = "rocket" /\ me'.pc = "wait" /\ me'.ran = me.ran
        /\ me'.shown = <<>> /\ me'.bo = me.bo /\ me'.out = me.out
    BY <1>1, <2>1 DEF Goes, MeFields, OnTheWay
  <2>3. ShowInv' BY <1>3, <2>2 DEF ShowInv, BoOK
  <2> QED BY <1>1, <1>2, <2>2, <2>3 DEF ProgramInv, ShowsOwnOutput, OnTheWay
<1> QED BY <1>4, <1>5

(* A task that ran ends the time the property is about. *)
LEMMA RunKeeps == ASSUME ReplayInv, NpuRuns PROVE ProgramInv'
<1>1. me.prog \in {"rocket", "mesa"} /\ me.pc = "wait" /\ UNCHANGED capture /\ OnTheWay
  BY Going DEF NpuRuns, In
<1>2. runtime' = runtime /\ dump'.done
  BY <1>1 DEF OnTheWay, capture
<1>3. ShowInv BY <1>1 DEF ReplayInv, ProgramInv
<1>4. PICK bos : me' = [me EXCEPT !.ran = me.ran + 1, !.bo = After(bos)]
  BY DEF NpuRuns
<1> DEFINE new == After(bos)
<1>5. new = [i \in 1..5 |-> [me.bo[i] EXCEPT !.mem = bos[i].mem]]
  BY <1>3 DEF After, ShowInv, BoOK
<1>6. DOMAIN new = 1..5 /\ \A i \in 1..5 : DOMAIN new[i] = DOMAIN me.bo[i]
  BY <1>5
<1> HIDE DEF new
<1>7. /\ DOMAIN me' = MeFields /\ me'.prog = me.prog /\ me'.pc = "wait" /\ me'.ran = me.ran + 1
      /\ me'.shown = <<>> /\ me'.bo = new /\ me'.out = me.out
  BY <1>1, <1>4 DEF new, MeFields, OnTheWay
<1>8. me'.ran \in Nat /\ me'.ran # 0 BY <1>1, <1>7 DEF OnTheWay
<1>9. ShowInv' BY <1>3, <1>6, <1>7, <1>8 DEF ShowInv, BoOK
<1> QED BY <1>1, <1>2, <1>7, <1>8, <1>9 DEF ProgramInv, ShowsOwnOutput, OnTheWay

(* Looking at the output shows the CPU what the device has. *)
LEMMA PollKeeps == ASSUME ReplayInv, Poll PROVE ProgramInv'
<1>1. me.prog \in {"rocket", "mesa"} /\ me.pc = "wait" /\ UNCHANGED capture /\ OnTheWay
  BY Going DEF Poll, In
<1>2. runtime' = runtime /\ dump'.done
  BY <1>1 DEF OnTheWay, capture
<1>3. ShowInv BY <1>1 DEF ReplayInv, ProgramInv
<1> DEFINE new == [me.bo EXCEPT ![me.out].cpu = me.bo[me.out].mem]
<1>4. PICK tries : \/ me' = [me EXCEPT !.bo = new, !.tries = tries]
                   \/ me' = [[me EXCEPT !.bo = new, !.tries = tries] EXCEPT !.pc = "report"]
  <2>1. [me EXCEPT !.bo[me.out].cpu = me.bo[me.out].mem, !.tries = @ + 1]
          = [me EXCEPT !.bo = new, !.tries = me.tries + 1]
    BY <1>1 DEF OnTheWay, MeFields
  <2> DEFINE seen == [me EXCEPT !.bo = new, !.tries = me.tries + 1]
  <2>2. me' = [seen EXCEPT !.pc = "report"] \/ me' = seen
    BY <2>1 DEF Poll
  <2> QED BY <2>2
<1>5. /\ DOMAIN new = 1..5
      /\ \A i \in 1..5 : i # me.out => new[i] = me.bo[i]
      /\ new[me.out] = [me.bo[me.out] EXCEPT !.cpu = me.bo[me.out].mem]
  BY <1>3 DEF ShowInv, BoOK
<1> HIDE DEF new
<1>6. /\ \A i \in 1..5 : DOMAIN new[i] = BoFields
      /\ new[me.out].cpu = me.bo[me.out].mem /\ new[me.out].mem = me.bo[me.out].mem
  BY <1>3, <1>5 DEF ShowInv, BoOK, BoFields
<1>7. /\ DOMAIN me' = MeFields /\ me'.prog = me.prog /\ me'.pc \in {"wait", "report"}
      /\ me'.ran = me.ran /\ me'.shown = <<>> /\ me'.bo = new /\ me'.out = me.out
  BY <1>1, <1>4 DEF MeFields, OnTheWay
<1>8. ShowInv' BY <1>3, <1>5, <1>6, <1>7 DEF ShowInv, BoOK
<1> QED BY <1>1, <1>2, <1>7, <1>8 DEF ProgramInv, ShowsOwnOutput, OnTheWay

(* What the report shows is what the CPU last saw of the output. *)
LEMMA ReportKeeps == ASSUME ReplayInv, Report, me.prog # "rknpu" PROVE ProgramInv'
<1>1. me.pc = "report" /\ UNCHANGED capture /\ OnTheWay
  BY Going DEF Report, In
<1>2. runtime' = runtime /\ dump'.done
  BY <1>1 DEF OnTheWay, capture
<1>3. ShowInv BY <1>1 DEF ReplayInv, ProgramInv, OnTheWay
<1>4. /\ DOMAIN me' = MeFields /\ me'.prog = me.prog /\ me'.pc = "exit" /\ me'.ran = me.ran
      /\ me'.shown = me.bo[me.out].cpu
  BY <1>1 DEF Report, Exits, MeFields, OnTheWay
<1>5. ShowsOwnOutput' BY <1>3, <1>4 DEF ShowsOwnOutput, ShowInv
<1> QED BY <1>1, <1>2, <1>4, <1>5 DEF ProgramInv, OnTheWay

(* replay_mesa's output buffer is blank, whatever was captured. *)
LEMMA MesaLoads == ASSUME ReplayInv, MesaLoad PROVE ProgramInv'
<1>1. me.prog = "mesa" /\ me.pc = "meta" /\ UNCHANGED capture /\ OnTheWay /\ dump.done
  BY Going DEF MesaLoad, In
<1>2. runtime' = runtime /\ dump'.done
  BY <1>1 DEF capture
<1>3. CASE me' = Exits(1)
  BY <1>1, <1>3, ExitKeeps
<1>4. CASE me' # Exits(1)
  <2>1. PICK dma \in Places :
          LET content == <<dump.file[1], dump.file[2], dump.file[3], Ramp, Zeros(2)>>
              sizes == [i \in 1..5 |-> Len(content[i])]
          IN me' = [Goes("patch") EXCEPT !.out = B_OUT,
               !.bo = [i \in 1..5 |-> [vdma |-> -1, vsize |-> 0, created |-> TRUE,
                                       dma |-> dma[i],
                                       cpu |-> content[i], mem |-> Zeros(sizes[i])]]]
    BY <1>4 DEF MesaLoad
  <2> DEFINE content == <<dump.file[1], dump.file[2], dump.file[3], Ramp, Zeros(2)>>
             sizes == [i \in 1..5 |-> Len(content[i])]
             new == [i \in 1..5 |-> [vdma |-> -1, vsize |-> 0, created |-> TRUE,
                                       dma |-> dma[i],
                                       cpu |-> content[i], mem |-> Zeros(sizes[i])]]
  <2>2. me' = [Goes("patch") EXCEPT !.out = B_OUT, !.bo = new] BY <2>1
  <2>3. content[5] = Zeros(2) OBVIOUS
  <2> HIDE DEF content, sizes
  <2>4. DOMAIN new = 1..5 /\ (\A i \in 1..5 : DOMAIN new[i] = BoFields)
        /\ new[5].created /\ new[5].cpu = Zeros(2)
    BY <2>3 DEF BoFields
  <2> HIDE DEF new
  <2>5. /\ DOMAIN me' = MeFields /\ me'.prog = "mesa" /\ me'.pc = "patch" /\ me'.ran = me.ran
        /\ me'.shown = <<>> /\ me'.bo = new /\ me'.out = 5
    BY <1>1, <2>2 DEF Goes, MeFields, OnTheWay, B_OUT
  <2>6. LoadedInv' BY <2>4, <2>5, ZerosBlank DEF LoadedInv, BoOK
  <2> QED BY <1>1, <1>2, <2>5, <2>6 DEF ProgramInv, ShowsOwnOutput, OnTheWay
<1> QED BY <1>3, <1>4

(* replay_mesa patches its register list only. *)
LEMMA MesaPatches == ASSUME ReplayInv, MesaPatch, me' # Exits(1) PROVE ProgramInv'
<1>1. me.prog = "mesa" /\ me.pc = "patch" /\ UNCHANGED capture /\ OnTheWay
  BY Going DEF MesaPatch, In
<1>2. runtime' = runtime /\ dump'.done
  BY <1>1 DEF OnTheWay, capture
<1>3. LoadedInv BY <1>1 DEF ReplayInv, ProgramInv
<1>4. PICK cpu, tasks, ins, outs, jobs :
        me' = [Goes("wait") EXCEPT !.bo = FlushedAll([me.bo EXCEPT ![B_RC].cpu = cpu]),
                 !.tasks = tasks, !.ins = ins, !.outs = outs, !.jobs = jobs]
  <2> DEFINE words == [k \in DOMAIN me.bo[B_RC].cpu |-> MesaWord(me.bo[B_RC].cpu[k])]
             kept == Stripped(words)
             list == kept \o SubSeq(words, Len(kept) + 1, Len(words))
             task == << [regcmd |-> me.bo[B_RC].dma, count |-> Len(kept)] >>
  <2>1. me' = [Goes("wait") EXCEPT !.bo = FlushedAll([me.bo EXCEPT ![B_RC].cpu = list]),
                 !.tasks = task, !.ins = {B_WT, B_IN}, !.outs = {B_OUT, B_BIAS}, !.jobs = <<1>>]
    BY DEF MesaPatch
  <2> HIDE DEF list, task
  <2> QED BY <2>1
<1> DEFINE bos == [me.bo EXCEPT ![1].cpu = cpu]
           new == FlushedAll(bos)
<1>5. /\ DOMAIN bos = 1..5 /\ (\A i \in 1..5 : DOMAIN bos[i] = BoFields)
      /\ bos[5] = me.bo[5]
  <2>1. /\ DOMAIN bos = 1..5 /\ \A i \in 1..5 : i # 1 => bos[i] = me.bo[i]
        /\ bos[1] = [me.bo[1] EXCEPT !.cpu = cpu]
    BY <1>3 DEF LoadedInv, BoOK
  <2> HIDE DEF bos
  <2> QED BY <1>3, <2>1 DEF LoadedInv, BoOK
<1> HIDE DEF bos
<1>6. /\ DOMAIN new = 1..5 /\ \A i \in 1..5 : DOMAIN new[i] = BoFields
      /\ ~Nonzero(new[5].cpu) /\ ~Nonzero(new[5].mem)
  BY <1>3, <1>5, FlushIs DEF LoadedInv
<1>7. me' = [Goes("wait") EXCEPT !.bo = new, !.tasks = tasks, !.ins = ins, !.outs = outs,
                                   !.jobs = jobs]
  BY <1>4 DEF bos, B_RC
<1> HIDE DEF new
<1>8. /\ DOMAIN me' = MeFields /\ me'.prog = "mesa" /\ me'.pc = "wait" /\ me'.ran = me.ran
      /\ me'.shown = <<>> /\ me'.bo = new /\ me'.out = me.out
  BY <1>1, <1>7 DEF Goes, MeFields, OnTheWay
<1>9. ShowInv' BY <1>3, <1>6, <1>8 DEF ShowInv, BoOK, LoadedInv
<1> QED BY <1>1, <1>2, <1>8, <1>9 DEF ProgramInv, ShowsOwnOutput, OnTheWay

(* A program starts before it has read anything. *)
LEMMA ReplayStarts == ASSUME Init PROVE ReplayInv
<1>1. CaptureInv
  <2>1. /\ buffers = <<>> /\ recorded = <<>> /\ ~filled /\ ~dump.done
        /\ runtime \in {"rknn", "mesa"} /\ plan \in Plans
    BY DEF Init, CaptureInit, NoDump
  <2>2. IsSeq(<<>>) /\ Len(<<>>) = 0 BY DEF IsSeq
  <2>3. <<>> = [i \in 1..0 |-> i] OBVIOUS
  <2> QED BY <2>1, <2>2, <2>3 DEF CaptureInv, RunningInv
<1>2. PICK prog \in {"rknpu", "rocket", "mesa"}, onejob \in BOOLEAN, knobs \in Knobs :
        (prog = "mesa") = (runtime = "mesa") /\ me = Started(prog, onejob, knobs)
  BY DEF Init, ReplayInit
<1>3. /\ DOMAIN me = MeFields /\ me.prog = prog /\ me.pc = "meta" /\ me.ran = 0 /\ me.shown = <<>>
      /\ me.tasks = <<>> /\ me.out = 0
  BY <1>2 DEF Started, MeFields
<1> QED BY <1>1, <1>2, <1>3 DEF ReplayInv, ProgramInv, ShowsOwnOutput

(* Every step of the capture and of the programs keeps the invariant. *)
LEMMA ReplayKeeps == ASSUME ReplayInv, [Next]_vars PROVE ReplayInv'
<1>1. CASE CaptureNext /\ UNCHANGED me
  BY <1>1, CaptureKeeps, ProgramRests DEF ReplayInv
<1>2. CASE UNCHANGED vars
  BY <1>2, CaptureKeeps, ProgramRests DEF ReplayInv, vars
<1>3. CASE ReplayNext
  <2>1. UNCHANGED capture
    BY <1>3
       DEF ReplayNext, Meta, Create, PatchTask, Flush, SubmitRocket, SubmitRknpu,
           NpuRuns, Poll, SyncBack, Report, MesaLoad, MesaPatch, In
  <2>2. CaptureInv' BY <2>1, CaptureKeeps
  <2>3. me.prog \in {"rknpu", "rocket", "mesa"} BY DEF ReplayInv, ProgramInv
  <2>4. CASE Meta BY <2>4, MetaKeeps, <2>2 DEF ReplayInv
  <2>5. CASE me.prog = "rknpu" /\ me.pc # "meta"
    BY <2>5, <1>3, RknpuKeeps, <2>2 DEF ReplayInv
  <2>6. CASE me.prog = "rocket" /\ ~Meta
    <3>1. Create \/ PatchTask \/ Flush \/ SubmitRocket \/ NpuRuns \/ Poll \/ Report
      BY <2>6, <1>3 DEF ReplayNext, SubmitRknpu, SyncBack, MesaLoad, MesaPatch, In
    <3> QED
      BY <3>1, <2>2, <2>6, RocketCreate, RocketPatch, RocketFlush, RocketSubmit,
         RunKeeps, PollKeeps, ReportKeeps DEF ReplayInv
  <2>7. CASE me.prog = "mesa"
    <3>1. MesaLoad \/ MesaPatch \/ NpuRuns \/ Poll \/ Report
      BY <2>7, <1>3
         DEF ReplayNext, Meta, Create, PatchTask, Flush, SubmitRocket, SubmitRknpu,
             SyncBack, In
    <3>2. ASSUME MesaPatch, me' = Exits(1) PROVE ProgramInv'
      <4>1. me.pc # "exit" /\ OnTheWay BY <3>2, Going DEF MesaPatch, In
      <4> QED BY <4>1, <2>1, <3>2, ExitKeeps
    <3> QED
      BY <3>1, <3>2, <2>2, <2>7, MesaLoads, MesaPatches, RunKeeps, PollKeeps, ReportKeeps
         DEF ReplayInv
  <2>8. me.prog = "rknpu" /\ me.pc = "meta" => Meta
    BY <1>3
       DEF ReplayNext, Create, PatchTask, Flush, SubmitRocket, SubmitRknpu, NpuRuns,
           Poll, SyncBack, Report, MesaLoad, MesaPatch, In
  <2> QED BY <2>3, <2>4, <2>5, <2>6, <2>7, <2>8
<1> QED BY <1>1, <1>2, <1>3 DEF Next

(* ShowsOwnOutput, for every instance of the constants: what a replay shows was
   written by the NPU in this replay. *)
THEOREM OutputTheorem == Spec => []ShowsOwnOutput
<1>1. Init => ReplayInv BY ReplayStarts
<1>2. ReplayInv /\ [Next]_vars => ReplayInv' BY ReplayKeeps
<1>3. ReplayInv => ShowsOwnOutput BY DEF ReplayInv, ProgramInv
<1> QED BY <1>1, <1>2, <1>3, PTL DEF Spec
-----------------------------------------------------------------------------
(* ReplaysTheSame.  First the device: what a task reads, writes and leaves. *)

(* The least and the greatest of one number. *)
LEMMA MaxOne == ASSUME NEW k \in Nat PROVE Max({k}) = k /\ Min({k}) = k
BY DEF Max, Min

(* What a list that writes a register once leaves in it. *)
LEMMA LeftIs ==
  ASSUME NEW n \in Nat, NEW w, DOMAIN w = 1..n, NEW k \in 1..n, NEW r,
         \A j \in 1..n : w[j][1] = r <=> j = k
  PROVE  Left(w, r) = w[k][2]
<1>1. {j \in DOMAIN w : w[j][1] = r} = {k} OBVIOUS
<1>2. Max({k}) = k BY MaxOne
<1> QED BY <1>1, <1>2 DEF Left

(* An address that one buffer holds. *)
LEMMA CellIs ==
  ASSUME NEW bos, NEW a, NEW i \in Nat, Holders(bos, a) = {i}
  PROVE  Cell(bos, a) = bos[i].mem[a - bos[i].dma + 1]
BY MaxOne DEF Cell

\* One cell written.
Put(bos, j, k, v) == [bos EXCEPT ![j].mem[k] = v]

\* The words a task fetches, and what it writes.
Fetches(bos, task, w) ==
  /\ DOMAIN w = 1..task.count /\ w = [k \in 1..task.count |-> w[k]]
  /\ \A k \in 1..task.count : /\ Holders(bos, task.regcmd + k - 1) # {}
                             /\ Cell(bos, task.regcmd + k - 1) = w[k]

Outcome(bos, w) ==
  <<0, 1 + Cell(bos, Left(w, SRC))[2] + 3 * Cell(bos, Left(w, WT))[2]
         + 9 * Cell(bos, Left(w, BIAS))[2] + 27 * Cell(bos, Left(w, SCALE))[2]
         + 81 * Left(w, PAD) + Left(w, CBUF)>>

(* One task, in terms of what its registers are left with. *)
LEMMA ExecuteIs ==
  ASSUME NEW bos, NEW task, task.count \in Nat, task.regcmd \in Int,
         NEW w, Fetches(bos, task, w),
         \A r \in {SRC, WT, BIAS, SCALE} : Holders(bos, Left(w, r)) # {},
         NEW j \in Nat, Holders(bos, Left(w, DST)) = {j}
  PROVE  Execute(bos, task) = Put(bos, j, Left(w, DST) - bos[j].dma + 1, Outcome(bos, w))
<1>1. [k \in 1..task.count |-> Cell(bos, task.regcmd + k - 1)] = w
  BY Zenon DEF Fetches
<1>2. \A k \in 0..(task.count - 1) : Holders(bos, task.regcmd + k) # {}
  <2> SUFFICES ASSUME NEW k \in 0..(task.count - 1) PROVE Holders(bos, task.regcmd + k) # {}
    OBVIOUS
  <2>1. k + 1 \in 1..task.count /\ task.regcmd + (k + 1) - 1 = task.regcmd + k OBVIOUS
  <2>2. Holders(bos, task.regcmd + (k + 1) - 1) # {} BY <2>1 DEF Fetches
  <2> QED BY <2>1, <2>2
<1>3. Min(Holders(bos, Left(w, DST))) = j BY MaxOne
<1>4. \A r \in {SRC, WT, DST, BIAS, SCALE} : Holders(bos, Left(w, r)) # {} OBVIOUS
<1> QED BY <1>1, <1>2, <1>3, <1>4, Zenon DEF Execute, Put, Outcome

(* All tasks, one after the other. *)
LEMMA AllIs ==
  ASSUME NEW bos, NEW tasks, Len(tasks) \in {1, 2}
  PROVE  /\ Len(tasks) = 1 => ExecuteAll(bos, tasks) = Execute(bos, tasks[1])
         /\ Len(tasks) = 2 =>
              ExecuteAll(bos, tasks) = Execute(Execute(bos, tasks[1]), tasks[2])
<1> DEFINE n == Len(tasks)
           one == Execute(bos, tasks[1])
           two == Execute(one, tasks[2])
           P(f) == f = [t \in 0..n |-> IF t = 0 THEN bos ELSE Execute(f[t - 1], tasks[t])]
           g == [t \in 0..n |-> IF t = 0 THEN bos ELSE IF t = 1 THEN one ELSE two]
           f == CHOOSE f : P(f)
<1>1. P(g)
  <2> SUFFICES ASSUME NEW t \in 0..n
               PROVE  g[t] = IF t = 0 THEN bos ELSE Execute(g[t - 1], tasks[t])
    BY Zenon
  <2>1. t = 0 \/ t = 1 \/ t = 2
    <3>1. PICK m \in {1, 2} : m = Len(tasks) OBVIOUS
    <3>2. t \in 0..m BY <3>1
    <3> QED BY <3>2
  <2>2. CASE t = 0 BY <2>2
  <2>3. CASE t = 1
    <3>1. g[0] = bos /\ g[1] = one BY <2>3
    <3> QED BY <2>3, <3>1
  <2>4. CASE t = 2
    <3>1. g[1] = one /\ g[2] = two BY <2>4
    <3> QED BY <2>4, <3>1
  <2> QED BY <2>1, <2>2, <2>3, <2>4
<1>2. P(f) BY <1>1
<1>3. ExecuteAll(bos, tasks) = f[n] BY DEF ExecuteAll
<1> HIDE DEF f
<1>4. f[0] = bos BY <1>2
<1>5. f[1] = Execute(f[0], tasks[1]) BY <1>2
<1>6. n = 2 => f[2] = Execute(f[1], tasks[2]) BY <1>2
<1> QED BY <1>3, <1>4, <1>5, <1>6

(* What is computed, as a function of the plan alone: M[i] is the content
   of the pool (3), the input (4) and the output (5). *)
Idx(r) == IF r = "scratch" THEN 3 ELSE IF r = "input" THEN 4 ELSE 5
Source(p) == Idx(p.src[1])
Target(p) == Idx(p.dst[1])
Val(c) == 1 + c[2] + 3 * 1 + 9 * 2 + 27 * 1 + 81 * (Top - 1) + 5
M0 == [i \in 3..5 |-> IF i = 3 THEN Zeros(1) ELSE IF i = 4 THEN Ramp ELSE Zeros(2)]
Stepped(M, p) == [i \in 3..5 |-> IF i = Target(p)
                                 THEN [M[i] EXCEPT ![p.dst[2] + 1] =
                                         <<0, Val(M[Source(p)][p.src[2] + 1])>>]
                                 ELSE M[i]]
Results(n) == IF n = 0 THEN M0 ELSE IF n = 1 THEN Stepped(M0, plan[1])
                               ELSE Stepped(Stepped(M0, plan[1]), plan[2])

(* The list of task p at offset o, with the buffers at the addresses a. *)
IsList(mem, o, a, p) ==
  /\ mem[o + 1] = <<SRC, a[Source(p)] + p.src[2]>> /\ mem[o + 2] = <<WT, a[2] + 18>>
  /\ mem[o + 3] = <<PAD, Top - 1>> /\ mem[o + 4] = <<CBUF, 5>> /\ mem[o + 5] = <<0, 0>>
  /\ mem[o + 6] = <<BIAS, a[2] + 19>> /\ mem[o + 7] = <<SCALE, a[2] + 20>>
  /\ mem[o + 8] = <<DST, a[Target(p)] + p.dst[2]>> /\ mem[o + 9] = <<0, 0>>

DataAre(mem) == mem[19] = <<0, 1>> /\ mem[20] = <<0, 2>> /\ mem[21] = <<0, 1>>

Addresses(bos) == [i \in 1..5 |-> bos[i].dma]

(* Buffers in which every address inside a buffer has one holder. *)
Placed(bos) ==
  /\ DOMAIN bos = 1..5
  /\ \A i \in 1..5 : DOMAIN bos[i] = BufferFields
  /\ \A i \in 2..5 : bos[i].dma \in Int /\ IsSeq(bos[i].mem) /\ Len(bos[i].mem) = SizeIs(i)
  /\ \A i \in 2..5 : \A o \in 0..(SizeIs(i) - 1) : Holders(bos, bos[i].dma + o) = {i}

(* A vendor payload with n lists ready to run, with M in its buffers. *)
Ready(bos, M, n) ==
  /\ Placed(bos)
  /\ \A t \in 1..n : IsList(bos[2].mem, (t - 1) * 9, Addresses(bos), plan[t])
  /\ DataAre(bos[2].mem)
  /\ \A i \in 3..5 : bos[i].mem = M[i]

(* The steps of a plan. *)
LEMMA StepIs ==
  ASSUME plan \in Plans, NEW t \in 1..Length
  PROVE  LET p == plan[t] IN
         /\ Length \in {1, 2}
         /\ Source(p) \in 3..4 /\ p.src[2] \in 0..(SizeIs(Source(p)) - 1)
         /\ Target(p) \in {3, 5} /\ p.dst[2] \in 0..(SizeIs(Target(p)) - 1)
<1> DEFINE p == plan[t]
<1>1. plan \in Seq(Steps) /\ Len(plan) \in {1, 2} BY ReplayConstantsOK
<1>2. p \in Steps BY <1>1 DEF Length
<1> HIDE DEF p
<1>3. /\ p.src \in {<<"input", 0>>, <<"input", 1>>, <<"scratch", 0>>}
      /\ p.dst \in {<<"scratch", 0>>, <<"output", 0>>, <<"output", 1>>}
  BY <1>2 DEF Steps
<1>4. Source(p) \in 3..4 /\ p.src[2] \in 0..(SizeIs(Source(p)) - 1)
  <2>1. CASE p.src = <<"input", 0>> BY <2>1 DEF Source, Idx, SizeIs
  <2>2. CASE p.src = <<"input", 1>> BY <2>2 DEF Source, Idx, SizeIs
  <2>3. CASE p.src = <<"scratch", 0>> BY <2>3 DEF Source, Idx, SizeIs
  <2> QED BY <1>3, <2>1, <2>2, <2>3
<1>5. Target(p) \in {3, 5} /\ p.dst[2] \in 0..(SizeIs(Target(p)) - 1)
  <2>1. CASE p.dst = <<"output", 0>> BY <2>1 DEF Target, Idx, SizeIs
  <2>2. CASE p.dst = <<"output", 1>> BY <2>2 DEF Target, Idx, SizeIs
  <2>3. CASE p.dst = <<"scratch", 0>> BY <2>3 DEF Target, Idx, SizeIs
  <2> QED BY <1>3, <2>1, <2>2, <2>3
<1> QED BY <1>1, <1>4, <1>5 DEF p, Length

(* The registers of a list differ. *)
LEMMA LeftOfList ==
  ASSUME NEW w, DOMAIN w = 1..9, NEW a, NEW p, IsList(w, 0, a, p)
  PROVE  /\ Left(w, SRC) = a[Source(p)] + p.src[2] /\ Left(w, WT) = a[2] + 18
         /\ Left(w, BIAS) = a[2] + 19 /\ Left(w, SCALE) = a[2] + 20
         /\ Left(w, DST) = a[Target(p)] + p.dst[2]
         /\ Left(w, PAD) = Top - 1 /\ Left(w, CBUF) = 5
<1>1. /\ w[1] = <<SRC, a[Source(p)] + p.src[2]>> /\ w[2] = <<WT, a[2] + 18>>
      /\ w[3] = <<PAD, Top - 1>> /\ w[4] = <<CBUF, 5>> /\ w[5] = <<0, 0>>
      /\ w[6] = <<BIAS, a[2] + 19>> /\ w[7] = <<SCALE, a[2] + 20>>
      /\ w[8] = <<DST, a[Target(p)] + p.dst[2]>> /\ w[9] = <<0, 0>>
  BY DEF IsList
<1>2. /\ w[1][1] = SRC /\ w[2][1] = WT /\ w[3][1] = PAD /\ w[4][1] = CBUF /\ w[5][1] = 0
      /\ w[6][1] = BIAS /\ w[7][1] = SCALE /\ w[8][1] = DST /\ w[9][1] = 0
  BY <1>1
<1>3. \A j \in 1..9 : \/ j = 1 \/ j = 2 \/ j = 3 \/ j = 4 \/ j = 5 \/ j = 6 \/ j = 7 \/ j = 8 \/ j = 9
  OBVIOUS
<1>4. /\ \A j \in 1..9 : w[j][1] = SRC <=> j = 1
      /\ \A j \in 1..9 : w[j][1] = WT <=> j = 2
      /\ \A j \in 1..9 : w[j][1] = PAD <=> j = 3
      /\ \A j \in 1..9 : w[j][1] = CBUF <=> j = 4
      /\ \A j \in 1..9 : w[j][1] = BIAS <=> j = 6
      /\ \A j \in 1..9 : w[j][1] = SCALE <=> j = 7
      /\ \A j \in 1..9 : w[j][1] = DST <=> j = 8
  BY <1>2, <1>3 DEF SRC, WT, PAD, CBUF, BIAS, SCALE, DST
<1>5. /\ Left(w, SRC) = w[1][2] /\ Left(w, WT) = w[2][2] /\ Left(w, PAD) = w[3][2]
      /\ Left(w, CBUF) = w[4][2] /\ Left(w, BIAS) = w[6][2] /\ Left(w, SCALE) = w[7][2]
      /\ Left(w, DST) = w[8][2]
  <2>1. \A k \in 1..9 : \A r : (\A j \in 1..9 : w[j][1] = r <=> j = k) => Left(w, r) = w[k][2]
    <3> SUFFICES ASSUME NEW k \in 1..9, NEW r, \A j \in 1..9 : w[j][1] = r <=> j = k
                 PROVE  Left(w, r) = w[k][2]
      OBVIOUS
    <3>1. 9 \in Nat OBVIOUS
    <3> QED BY <3>1, LeftIs
  <2>2. 1 \in 1..9 /\ 2 \in 1..9 /\ 3 \in 1..9 /\ 4 \in 1..9 /\ 6 \in 1..9 /\ 7 \in 1..9 /\ 8 \in 1..9
    OBVIOUS
  <2> QED BY <1>4, <2>1, <2>2, Zenon
<1>6. /\ w[1][2] = a[Source(p)] + p.src[2] /\ w[2][2] = a[2] + 18 /\ w[3][2] = Top - 1
      /\ w[4][2] = 5 /\ w[6][2] = a[2] + 19 /\ w[7][2] = a[2] + 20
      /\ w[8][2] = a[Target(p)] + p.dst[2]
  BY <1>1
<1> QED BY <1>5, <1>6, Zenon

(* Writing one cell moves nothing. *)
LEMMA WriteIs ==
  ASSUME NEW bos, Placed(bos), NEW d \in 2..5, NEW o \in 0..(SizeIs(d) - 1), NEW v,
         NEW after, after = Put(bos, d, o + 1, v)
  PROVE  /\ Placed(after) /\ Addresses(after) = Addresses(bos)
         /\ after[d].mem = [bos[d].mem EXCEPT ![o + 1] = v]
         /\ \A i \in 1..5 : i # d => after[i] = bos[i]
<1> DEFINE mem == [bos[d].mem EXCEPT ![o + 1] = v]
<1>1. /\ DOMAIN bos = 1..5 /\ \A i \in 1..5 : DOMAIN bos[i] = BufferFields
      /\ \A i \in 2..5 : bos[i].dma \in Int /\ IsSeq(bos[i].mem) /\ Len(bos[i].mem) = SizeIs(i)
  BY DEF Placed
<1>2. /\ DOMAIN after = 1..5 /\ \A i \in 1..5 : i # d => after[i] = bos[i]
      /\ after[d] = [bos[d] EXCEPT !.mem = mem]
  <2>1. after = [bos EXCEPT ![d] = [bos[d] EXCEPT !.mem = mem]] BY Zenon DEF Put
  <2> HIDE DEF mem
  <2>2. d \in DOMAIN bos /\ DOMAIN after = DOMAIN bos BY <1>1, <2>1
  <2>3. after[d] = [bos[d] EXCEPT !.mem = mem] BY <2>1, <2>2
  <2>4. \A i \in 1..5 : i # d => after[i] = bos[i] BY <1>1, <2>1
  <2> QED BY <1>1, <2>2, <2>3, <2>4, Zenon
<1>3. IsSeq(mem) /\ Len(mem) = SizeIs(d)
  <2>1. SizeIs(d) \in Nat BY DEF SizeIs
  <2>2. DOMAIN bos[d].mem = 1..SizeIs(d) BY <1>1, SeqIs
  <2>3. mem = [k \in 1..SizeIs(d) |-> mem[k]] BY <2>2
  <2> QED BY <2>1, <2>3, FunctionIs
<1> HIDE DEF mem
<1>4. DOMAIN after[d] = BufferFields /\ after[d].dma = bos[d].dma /\ after[d].mem = mem
  <2>1. d \in 1..5 OBVIOUS
  <2>2. DOMAIN bos[d] = BufferFields BY <1>1, <2>1
  <2>3. after[d] = [bos[d] EXCEPT !.mem = mem] BY <1>2
  <2> QED BY <2>2, <2>3 DEF BufferFields
<1>5. \A i \in 1..5 : DOMAIN after[i] = BufferFields /\ after[i].dma = bos[i].dma
                      /\ Len(after[i].mem) = Len(bos[i].mem)
  <2> SUFFICES ASSUME NEW i \in 1..5
               PROVE  DOMAIN after[i] = BufferFields /\ after[i].dma = bos[i].dma
                      /\ Len(after[i].mem) = Len(bos[i].mem)
    OBVIOUS
  <2>1. CASE i = d BY <2>1, <1>1, <1>3, <1>4
  <2>2. CASE i # d BY <2>2, <1>1, <1>2
  <2> QED BY <2>1, <2>2
<1>6. \A i \in 2..5 : after[i].dma \in Int /\ IsSeq(after[i].mem) /\ Len(after[i].mem) = SizeIs(i)
  <2> SUFFICES ASSUME NEW i \in 2..5
               PROVE  after[i].dma \in Int /\ IsSeq(after[i].mem) /\ Len(after[i].mem) = SizeIs(i)
    OBVIOUS
  <2>1. CASE i = d BY <2>1, <1>1, <1>3, <1>4
  <2>2. CASE i # d
    <3>1. i \in 1..5 OBVIOUS
    <3>2. after[i] = bos[i] BY <2>2, <3>1, <1>2
    <3> QED BY <3>2, <1>1
  <2> QED BY <2>1, <2>2
<1>7. \A x : Holders(after, x) = Holders(bos, x)
  <2> SUFFICES ASSUME NEW x PROVE Holders(after, x) = Holders(bos, x)
    OBVIOUS
  <2> QED BY <1>1, <1>2, <1>5, Zenon DEF Holders
<1>8. Addresses(after) = Addresses(bos) BY <1>5 DEF Addresses
<1>9. Placed(after)
  <2>1. \A i \in 2..5 : \A u \in 0..(SizeIs(i) - 1) : Holders(after, after[i].dma + u) = {i}
    <3> SUFFICES ASSUME NEW i \in 2..5, NEW u \in 0..(SizeIs(i) - 1)
                 PROVE  Holders(after, after[i].dma + u) = {i}
      OBVIOUS
    <3>1. after[i].dma = bos[i].dma BY <1>5
    <3>2. Holders(bos, bos[i].dma + u) = {i} BY DEF Placed
    <3> QED BY <3>1, <3>2, <1>7
  <2> QED BY <1>2, <1>5, <1>6, <2>1 DEF Placed
<1> QED BY <1>2, <1>4, <1>8, <1>9 DEF mem

(* One task of a payload that is ready. *)
LEMMA RunOne ==
  ASSUME plan \in Plans, NEW bos, NEW M, NEW n \in 0..Length, Ready(bos, M, n), NEW t \in 1..n,
         NEW task, task.regcmd = bos[2].dma + (t - 1) * 9, task.count = 9
  PROVE  /\ Ready(Execute(bos, task), Stepped(M, plan[t]), n)
         /\ Addresses(Execute(bos, task)) = Addresses(bos)
<1> DEFINE p == plan[t]
           s == Source(p)
           d == Target(p)
           so == p.src[2]
           do == p.dst[2]
           a == Addresses(bos)
           w == [k \in 1..9 |-> bos[2].mem[(t - 1) * 9 + k]]
<1>1. /\ Length \in {1, 2} /\ s \in 3..4 /\ so \in 0..(SizeIs(s) - 1)
      /\ d \in {3, 5} /\ do \in 0..(SizeIs(d) - 1)
  <2>1. PICK m \in Nat : m = Length
    <3>1. Len(plan) \in {1, 2} BY ReplayConstantsOK
    <3> QED BY <3>1 DEF Length
  <2>2. t \in 1..Length BY <2>1
  <2> QED BY <2>2, StepIs
<1>2. t = 1 \/ t = 2
  <2>1. PICK m \in {1, 2} : m = Length BY <1>1
  <2>2. t \in 1..m BY <2>1
  <2> QED BY <2>2
<1>3. Placed(bos) /\ DataAre(bos[2].mem) /\ IsList(bos[2].mem, (t - 1) * 9, a, p)
      /\ \A i \in 3..5 : bos[i].mem = M[i]
  BY DEF Ready
<1>4. /\ \A i \in 2..5 : bos[i].dma \in Int /\ a[i] = bos[i].dma
      /\ \A i \in 2..5 : \A o \in 0..(SizeIs(i) - 1) : Holders(bos, bos[i].dma + o) = {i}
  <2>1. \A i \in 2..5 : bos[i].dma \in Int BY <1>3 DEF Placed
  <2>2. \A i \in 2..5 : a[i] = bos[i].dma BY DEF Addresses
  <2>3. \A i \in 2..5 : \A o \in 0..(SizeIs(i) - 1) : Holders(bos, bos[i].dma + o) = {i}
    BY <1>3, Zenon DEF Placed
  <2> QED BY <2>1, <2>2, <2>3, Zenon
<1>5. /\ IsList(w, 0, a, p) /\ DOMAIN w = 1..9 /\ w = [k \in 1..9 |-> w[k]]
  BY <1>2, <1>3 DEF IsList
<1>6. \A k \in 1..9 : w[k] = bos[2].mem[(t - 1) * 9 + k] OBVIOUS
<1>20. /\ Left(w, SRC) = a[s] + so /\ Left(w, WT) = a[2] + 18
       /\ Left(w, BIAS) = a[2] + 19 /\ Left(w, SCALE) = a[2] + 20
       /\ Left(w, DST) = a[d] + do /\ Left(w, PAD) = Top - 1 /\ Left(w, CBUF) = 5
  <2> HIDE DEF p, a, w
  <2> QED BY <1>5, LeftOfList
<1> HIDE DEF p, s, d, so, do, a, w
<1>7. \A i \in 2..5 : \A o \in 0..(SizeIs(i) - 1) :
        /\ Holders(bos, bos[i].dma + o) = {i}
        /\ Cell(bos, bos[i].dma + o) = bos[i].mem[o + 1]
  <2> SUFFICES ASSUME NEW i \in 2..5, NEW o \in 0..(SizeIs(i) - 1)
               PROVE  /\ Holders(bos, bos[i].dma + o) = {i}
                      /\ Cell(bos, bos[i].dma + o) = bos[i].mem[o + 1]
    OBVIOUS
  <2>1. Holders(bos, bos[i].dma + o) = {i} BY <1>4
  <2>2. Cell(bos, bos[i].dma + o) = bos[i].mem[(bos[i].dma + o) - bos[i].dma + 1]
    BY <2>1, CellIs
  <2>3. o \in Int BY DEF SizeIs
  <2>4. (bos[i].dma + o) - bos[i].dma + 1 = o + 1 BY <1>4, <2>3
  <2> QED BY <2>1, <2>2, <2>4
<1>8. \A k \in 1..9 : /\ Holders(bos, task.regcmd + k - 1) # {}
                      /\ Cell(bos, task.regcmd + k - 1) = w[k]
  <2> SUFFICES ASSUME NEW k \in 1..9
               PROVE  /\ Holders(bos, task.regcmd + k - 1) # {}
                      /\ Cell(bos, task.regcmd + k - 1) = w[k]
    OBVIOUS
  <2> DEFINE o == (t - 1) * 9 + k - 1
  <2>1. o \in 0..20 /\ o + 1 = (t - 1) * 9 + k /\ task.regcmd + k - 1 = bos[2].dma + o
    BY <1>2, <1>4
  <2>2. SizeIs(2) = 21 BY DEF SizeIs
  <2>3. o \in 0..(SizeIs(2) - 1) BY <2>1, <2>2
  <2>4. Holders(bos, bos[2].dma + o) = {2} /\ Cell(bos, bos[2].dma + o) = bos[2].mem[o + 1]
    BY <2>3, <1>7
  <2> QED BY <2>1, <2>4, <1>6
<1>9. /\ Left(w, SRC) = bos[s].dma + so /\ Left(w, WT) = bos[2].dma + 18
      /\ Left(w, BIAS) = bos[2].dma + 19 /\ Left(w, SCALE) = bos[2].dma + 20
      /\ Left(w, DST) = bos[d].dma + do /\ Left(w, PAD) = Top - 1 /\ Left(w, CBUF) = 5
  <2>1. a[s] = bos[s].dma /\ a[d] = bos[d].dma /\ a[2] = bos[2].dma
    <3>1. s \in 2..5 /\ d \in 2..5 /\ 2 \in 2..5 BY <1>1
    <3> QED BY <3>1, <1>4
  <2>2. /\ Left(w, SRC) = a[s] + so /\ Left(w, WT) = a[2] + 18
        /\ Left(w, BIAS) = a[2] + 19 /\ Left(w, SCALE) = a[2] + 20
        /\ Left(w, DST) = a[d] + do /\ Left(w, PAD) = Top - 1 /\ Left(w, CBUF) = 5
    BY <1>20
  <2> QED BY <2>1, <2>2, Zenon
<1>10. /\ Holders(bos, Left(w, SRC)) = {s} /\ Cell(bos, Left(w, SRC)) = M[s][so + 1]
  <2>1. s \in 2..5 /\ s \in 3..5 BY <1>1
  <2> QED BY <2>1, <1>1, <1>3, <1>7, <1>9
<1>11. /\ Holders(bos, Left(w, WT)) = {2} /\ Cell(bos, Left(w, WT)) = <<0, 1>>
       /\ Holders(bos, Left(w, BIAS)) = {2} /\ Cell(bos, Left(w, BIAS)) = <<0, 2>>
       /\ Holders(bos, Left(w, SCALE)) = {2} /\ Cell(bos, Left(w, SCALE)) = <<0, 1>>
  <2>1. 18 \in 0..(SizeIs(2) - 1) /\ 19 \in 0..(SizeIs(2) - 1) /\ 20 \in 0..(SizeIs(2) - 1)
    BY DEF SizeIs
  <2>2. /\ Cell(bos, bos[2].dma + 18) = bos[2].mem[18 + 1]
        /\ Cell(bos, bos[2].dma + 19) = bos[2].mem[19 + 1]
        /\ Cell(bos, bos[2].dma + 20) = bos[2].mem[20 + 1]
    <3>1. 2 \in 2..5 OBVIOUS
    <3>2. \A o \in 0..(SizeIs(2) - 1) : Cell(bos, bos[2].dma + o) = bos[2].mem[o + 1] BY <3>1, <1>7
    <3> QED BY <2>1, <3>2, Zenon
  <2>3. 18 + 1 = 19 /\ 19 + 1 = 20 /\ 20 + 1 = 21 OBVIOUS
  <2>4. /\ Cell(bos, bos[2].dma + 18) = <<0, 1>> /\ Cell(bos, bos[2].dma + 19) = <<0, 2>>
        /\ Cell(bos, bos[2].dma + 20) = <<0, 1>>
    BY <2>2, <2>3, <1>3 DEF DataAre
  <2>5. /\ Holders(bos, bos[2].dma + 18) = {2} /\ Holders(bos, bos[2].dma + 19) = {2}
        /\ Holders(bos, bos[2].dma + 20) = {2}
    <3>1. 2 \in 2..5 OBVIOUS
    <3>2. \A o \in 0..(SizeIs(2) - 1) : Holders(bos, bos[2].dma + o) = {2} BY <3>1, <1>7
    <3> QED BY <2>1, <3>2, Zenon
  <2> QED BY <2>4, <2>5, <1>9, Zenon
<1>12. Holders(bos, Left(w, DST)) = {d} /\ Left(w, DST) - bos[d].dma + 1 = do + 1
  <2>1. d \in 2..5 BY <1>1
  <2>2. do \in Int BY <1>1 DEF SizeIs
  <2>3. (bos[d].dma + do) - bos[d].dma + 1 = do + 1 BY <2>1, <2>2, <1>4
  <2> QED BY <2>1, <2>3, <1>1, <1>7, <1>9
<1> DEFINE v == <<0, Val(M[s][so + 1])>>
           after == Execute(bos, task)
<1>13. after = Put(bos, d, do + 1, v)
  <2>1. \A r \in {SRC, WT, BIAS, SCALE} : Holders(bos, Left(w, r)) # {} BY <1>10, <1>11
  <2>2. task.regcmd \in Int /\ task.count \in Nat BY <1>2, <1>4
  <2>3. d \in Nat BY <1>1
  <2>4. Fetches(bos, task, w) BY <1>5, <1>8 DEF Fetches
  <2>5. after = Put(bos, d, Left(w, DST) - bos[d].dma + 1, Outcome(bos, w))
    BY <2>1, <2>2, <2>3, <2>4, <1>12, ExecuteIs
  <2>6. /\ Cell(bos, Left(w, SRC))[2] = M[s][so + 1][2] /\ Cell(bos, Left(w, WT))[2] = 1
        /\ Cell(bos, Left(w, BIAS))[2] = 2 /\ Cell(bos, Left(w, SCALE))[2] = 1
        /\ Left(w, PAD) = Top - 1 /\ Left(w, CBUF) = 5
    BY <1>9, <1>10, <1>11
  <2>7. Outcome(bos, w) = v BY <2>6, Zenon DEF Val, Outcome
  <2> QED BY <2>5, <2>7, <1>12
<1> HIDE DEF v, after
<1>14. /\ Placed(after) /\ Addresses(after) = a
       /\ after[d].mem = [bos[d].mem EXCEPT ![do + 1] = v]
       /\ \A i \in 1..5 : i # d => after[i] = bos[i]
  <2>1. d \in 2..5 BY <1>1
  <2>2. Placed(bos) BY <1>3
  <2>3. do \in 0..(SizeIs(d) - 1) BY <1>1
  <2>4. a = Addresses(bos) BY DEF a
  <2> QED BY <2>1, <2>2, <2>3, <2>4, <1>13, WriteIs
<1>15. \A i \in 3..5 : after[i].mem = Stepped(M, p)[i]
  <2> SUFFICES ASSUME NEW i \in 3..5 PROVE after[i].mem = Stepped(M, p)[i]
    OBVIOUS
  <2>1. bos[i].mem = M[i] BY <1>3
  <2>2. CASE i = d
    <3>1. Stepped(M, p)[i] = [M[i] EXCEPT ![do + 1] = v]
      BY <2>2, Zenon DEF Stepped, v, s, d, so, do
    <3> QED BY <2>1, <2>2, <3>1, <1>14
  <2>3. CASE i # d
    <3>1. Stepped(M, p)[i] = M[i] BY <2>3, Zenon DEF Stepped, d
    <3>2. i \in 1..5 OBVIOUS
    <3> QED BY <2>1, <2>3, <3>1, <3>2, <1>14
  <2> QED BY <2>2, <2>3
<1>16. after[2] = bos[2] BY <1>1, <1>14
<1>17. Ready(after, Stepped(M, p), n)
  <2>1. \A u \in 1..n : IsList(bos[2].mem, (u - 1) * 9, Addresses(bos), plan[u]) BY DEF Ready
  <2> QED BY <2>1, <1>3, <1>14, <1>15, <1>16 DEF Ready, a
<1> QED BY <1>14, <1>17 DEF after, p, a

(* All tasks of a payload that is ready. *)
LEMMA RunAll ==
  ASSUME plan \in Plans, NEW bos, Ready(bos, M0, Length),
         NEW tasks, Len(tasks) = Length,
         \A t \in 1..Length : /\ tasks[t].regcmd = bos[2].dma + (t - 1) * 9
                              /\ tasks[t].count = 9
  PROVE  /\ Ready(ExecuteAll(bos, tasks), Results(Length), Length)
         /\ Addresses(ExecuteAll(bos, tasks)) = Addresses(bos)
<1>1. PICK m \in {1, 2} : m = Length
  <2>1. Len(plan) \in {1, 2} BY ReplayConstantsOK
  <2> QED BY <2>1 DEF Length
<1>2. m \in 0..Length /\ 1 \in 1..Length BY <1>1
<1> DEFINE one == Execute(bos, tasks[1])
           two == Execute(one, tasks[2])
<1>3. Ready(one, Stepped(M0, plan[1]), Length) /\ Addresses(one) = Addresses(bos)
  <2>1. Length \in 0..Length BY <1>1
  <2> QED BY <1>2, <2>1, RunOne
<1>4. CASE m = 1
  <2>1. ExecuteAll(bos, tasks) = one BY <1>1, <1>4, AllIs
  <2>2. Results(Length) = Stepped(M0, plan[1]) BY <1>1, <1>4 DEF Results
  <2> QED BY <1>3, <2>1, <2>2
<1>5. CASE m = 2
  <2>1. ExecuteAll(bos, tasks) = two BY <1>1, <1>5, AllIs
  <2>2. Results(Length) = Stepped(Stepped(M0, plan[1]), plan[2]) BY <1>1, <1>5 DEF Results
  <2>3. one[2].dma = bos[2].dma
    <3>1. Addresses(one)[2] = one[2].dma /\ Addresses(bos)[2] = bos[2].dma BY DEF Addresses
    <3> QED BY <1>3, <3>1
  <2>4. 2 \in 1..Length /\ Length \in 0..Length BY <1>1, <1>5
  <2>5. tasks[2].regcmd = one[2].dma + (2 - 1) * 9 /\ tasks[2].count = 9 BY <2>3, <2>4
  <2> HIDE DEF one
  <2>6. Ready(two, Stepped(Stepped(M0, plan[1]), plan[2]), Length) /\ Addresses(two) = Addresses(one)
    BY <1>3, <2>4, <2>5, RunOne
  <2> QED BY <2>1, <2>2, <2>6, <1>3
<1> QED BY <1>4, <1>5

(* Two views of the same buffers. *)
LEMMA ReadySame ==
  ASSUME NEW bos, NEW M, NEW n, Ready(bos, M, n), NEW other, DOMAIN other = 1..5,
         \A i \in 1..5 : /\ DOMAIN other[i] = BufferFields
                         /\ other[i].dma = bos[i].dma /\ other[i].mem = bos[i].mem
  PROVE  Ready(other, M, n)
<1>1. Placed(bos) BY DEF Ready
<1>2. \A x : Holders(other, x) = Holders(bos, x) BY <1>1, Zenon DEF Holders, Placed
<1>3. Addresses(other) = Addresses(bos) BY DEF Addresses
<1>4. \A i \in 2..5 : i \in 1..5 OBVIOUS
<1>5. Placed(other)
  <2>1. \A i \in 2..5 : other[i].dma = bos[i].dma /\ other[i].mem = bos[i].mem BY <1>4
  <2>2. \A i \in 2..5 : other[i].dma \in Int /\ IsSeq(other[i].mem) /\ Len(other[i].mem) = SizeIs(i)
    BY <1>1, <2>1 DEF Placed
  <2>3. \A i \in 2..5 : \A o \in 0..(SizeIs(i) - 1) : Holders(other, other[i].dma + o) = {i}
    BY <1>1, <1>2, <2>1, Zenon DEF Placed
  <2> QED BY <2>2, <2>3 DEF Placed
<1>6. other[2].mem = bos[2].mem /\ \A i \in 3..5 : other[i].mem = bos[i].mem OBVIOUS
<1> QED BY <1>3, <1>5, <1>6 DEF Ready

(* Buffers that lie apart. *)
LEMMA PlacedIs ==
  ASSUME NEW bos, DOMAIN bos = 1..5,
         \A i \in 1..5 : /\ DOMAIN bos[i] = BufferFields /\ bos[i].dma \in Int
                         /\ Len(bos[i].mem) \in Nat,
         \A i \in 2..5 : IsSeq(bos[i].mem) /\ Len(bos[i].mem) = SizeIs(i),
         \A i \in 1..5, j \in 2..5 : i # j =>
            \/ Len(bos[i].mem) = 0
            \/ bos[i].dma + Len(bos[i].mem) <= bos[j].dma
            \/ bos[j].dma + Len(bos[j].mem) <= bos[i].dma
  PROVE  Placed(bos)
<1>1. ASSUME NEW j \in 2..5, NEW o \in 0..(SizeIs(j) - 1) PROVE Holders(bos, bos[j].dma + o) = {j}
  <2>1. j \in 1..5 /\ SizeIs(j) \in Nat /\ bos[j].dma \in Int /\ Len(bos[j].mem) = SizeIs(j)
    <3>1. j \in 1..5 /\ SizeIs(j) \in Nat BY DEF SizeIs
    <3> QED BY <3>1
  <2>2. \A i \in 1..5 : (bos[i].dma <= bos[j].dma + o /\ bos[j].dma + o < bos[i].dma + Len(bos[i].mem))
                         <=> i = j
    <3> SUFFICES ASSUME NEW i \in 1..5
                 PROVE (bos[i].dma <= bos[j].dma + o /\ bos[j].dma + o < bos[i].dma + Len(bos[i].mem))
                         <=> i = j
      OBVIOUS
    <3>1. PICK x \in Int, y \in Nat : x = bos[i].dma /\ y = Len(bos[i].mem) OBVIOUS
    <3>2. PICK u \in Int, z \in Nat : u = bos[j].dma /\ z = Len(bos[j].mem) /\ z = SizeIs(j) BY <2>1
    <3>3. i # j => y = 0 \/ x + y <= u \/ u + z <= x BY <3>1, <3>2
    <3>4. o \in 0..(z - 1) BY <3>2
    <3>5. i = j => x = u /\ y = z BY <3>1, <3>2
    <3>6. (x <= u + o /\ u + o < x + y) <=> i = j BY <3>3, <3>4, <3>5
    <3> QED BY <3>1, <3>2, <3>6
  <2> QED BY <2>1, <2>2 DEF Holders
<1>2. \A i \in 2..5 : i \in 1..5 OBVIOUS
<1> QED BY <1>1, <1>2 DEF Placed
-----------------------------------------------------------------------------
(* The vendor's capture: its lists, its data, and its own run. *)

Captured == [i \in 1..5 |-> AddrIs(i)]

\* The vendor's buffer of lists, n of them pointing at a1 and the rest at a2.
ListsAre(mem, n, a1, a2) ==
  /\ IsSeq(mem) /\ Len(mem) = 21 /\ DataAre(mem)
  /\ \A t \in 1..Length : IsList(mem, (t - 1) * 9, IF t <= n THEN a1 ELSE a2, plan[t])

\* The vendor's capture: what its buffers hold, and its files.
FilesInv ==
  /\ DOMAIN dump.file = 1..5
  /\ dump.file[1] = <<>> \/ (IsSeq(dump.file[1]) /\ Len(dump.file[1]) = 2)
  /\ dump.file[2] = <<>> \/ ListsAre(dump.file[2], 0, Captured, Captured)
  /\ \A i \in 3..5 : dump.file[i] = <<>> \/ dump.file[i] = M0[i]

VendorSame ==
  IF dump.done THEN /\ filled /\ Len(buffers) = 5
                    /\ Ready(buffers, Results(Length), Length) /\ FilesInv
  ELSE IF filled THEN /\ ListsAre(buffers[2].mem, 0, Captured, Captured)
                      /\ \A i \in 3..5 : buffers[i].mem = M0[i]
  ELSE \A i \in 1..Len(buffers) : buffers[i].mem = Zeros(SizeIs(i))

(* A plan has one or two tasks. *)
LEMMA LengthIs == ASSUME plan \in Plans PROVE Length = 1 \/ Length = 2
<1>1. Len(plan) \in {1, 2} BY ReplayConstantsOK
<1> QED BY <1>1 DEF Length

(* The words of a captured list, one by one. *)
LEMMA ListWords ==
  ASSUME runtime = "rknn", plan \in Plans, \A i \in 1..5 : buffers[i].dma = AddrIs(i),
         NEW t \in 1..Length
  PROVE  LET l == ListOf(plan[t]) IN
         IsSeq(l) /\ Len(l) = 9 /\ IsList(l, 0, Captured, plan[t])
<1> DEFINE p == plan[t]
           l == ListOf(p)
<1>1. /\ Source(p) \in 3..4 /\ p.src[2] \in 0..(SizeIs(Source(p)) - 1)
      /\ Target(p) \in {3, 5} /\ p.dst[2] \in 0..(SizeIs(Target(p)) - 1)
  BY StepIs
<1>2. At(p.src[1], p.src[2]) = Captured[Source(p)] + p.src[2]
      /\ At(p.dst[1], p.dst[2]) = Captured[Target(p)] + p.dst[2]
  <2>1. plan \in Seq(Steps) BY ReplayConstantsOK
  <2>2. p \in Steps BY <2>1 DEF Length
  <2> HIDE DEF p
  <2>3. p.src[1] \in {"input", "scratch"} /\ p.dst[1] \in {"scratch", "output"}
    <3>1. /\ p.src \in {<<"input", 0>>, <<"input", 1>>, <<"scratch", 0>>}
          /\ p.dst \in {<<"scratch", 0>>, <<"output", 0>>, <<"output", 1>>}
      BY <2>2 DEF Steps
    <3> QED BY <3>1
  <2>4. \A r \in {"input", "scratch", "output"} : Role(r) = Idx(r) BY LayoutIs DEF Idx
  <2>5. Role(p.src[1]) = Source(p) /\ Role(p.dst[1]) = Target(p)
    BY <2>3, <2>4, Zenon DEF Source, Target
  <2>6. Source(p) \in 1..5 /\ Target(p) \in 1..5 BY <1>1
  <2> QED BY <2>5, <2>6 DEF At, Captured
<1>3. /\ At("weights", Data) = Captured[2] + 18 /\ At("weights", Data + 1) = Captured[2] + 19
      /\ At("weights", Data + 2) = Captured[2] + 20
  <2>1. Data = 18 BY DEF Data, WordsOfAList
  <2>2. Role("weights") = 2 BY LayoutIs
  <2> QED BY <2>1, <2>2 DEF At, Captured
<1> DEFINE s == At(p.src[1], p.src[2])
           d == At(p.dst[1], p.dst[2])
           a == At("weights", Data)
           b == At("weights", Data + 1)
           c == At("weights", Data + 2)
<1>4. l = << <<SRC, s>>, <<WT, a>>, <<PAD, Top - 1>>, <<CBUF, 5>>, <<0, 0>>, <<BIAS, b>>,
             <<SCALE, c>>, <<DST, d>>, <<0, 0>> >>
  BY Zenon DEF ListOf
<1> HIDE DEF s, d, a, b, c
<1>5. /\ l[1] = <<SRC, s>> /\ l[2] = <<WT, a>> /\ l[3] = <<PAD, Top - 1>> /\ l[4] = <<CBUF, 5>>
      /\ l[5] = <<0, 0>> /\ l[6] = <<BIAS, b>> /\ l[7] = <<SCALE, c>> /\ l[8] = <<DST, d>>
      /\ l[9] = <<0, 0>> /\ l = [k \in 1..9 |-> l[k]]
  BY <1>4
<1> HIDE DEF l
<1>6. IsSeq(l) /\ Len(l) = 9 BY <1>5, FunctionIs
<1>7. IsList(l, 0, Captured, p)
  BY <1>2, <1>3, <1>5 DEF IsList, s, d, a, b, c
<1> QED BY <1>6, <1>7 DEF l

IsSeqOf(s, n) == IsSeq(s) /\ Len(s) = n
IsCat(w, s, t) == w = s \o t

(* Concatenation, by lengths. *)
LEMMA CatIs ==
  ASSUME NEW m \in Nat, NEW n \in Nat, NEW s, IsSeqOf(s, m), NEW t, IsSeqOf(t, n),
         NEW w, IsCat(w, s, t)
  PROVE  /\ IsSeqOf(w, m + n)
         /\ \A k \in 1..m : w[k] = s[k]
         /\ \A k \in 1..n : w[m + k] = t[k]
<1>1. IsSeq(s) /\ IsSeq(t) BY DEF IsSeqOf
<1>2. /\ IsSeq(s \o t) /\ Len(s \o t) = Len(s) + Len(t)
      /\ \A k \in 1..Len(s) : (s \o t)[k] = s[k]
      /\ \A k \in 1..Len(t) : (s \o t)[Len(s) + k] = t[k]
  BY <1>1, ConcatIs
<1>3. Len(s) = m /\ Len(t) = n BY DEF IsSeqOf
<1> QED BY <1>2, <1>3, Zenon DEF IsSeqOf, IsCat

(* The three parts of the buffer of lists. *)
LEMMA PartsAre ==
  ASSUME NEW one, IsSeqOf(one, 9), NEW two, IsSeqOf(two, 9), NEW data, IsSeqOf(data, 3),
         NEW u, IsCat(u, one, two), NEW w, IsCat(w, u, data)
  PROVE  /\ IsSeqOf(w, 21)
         /\ \A k \in 1..9 : w[k] = one[k] /\ w[9 + k] = two[k]
         /\ \A k \in 1..3 : w[18 + k] = data[k]
<1>1. 9 \in Nat /\ 18 \in Nat /\ 3 \in Nat OBVIOUS
<1>2. IsSeqOf(u, 18) /\ \A k \in 1..9 : u[k] = one[k] /\ u[9 + k] = two[k] BY <1>1, CatIs
<1>3. /\ IsSeqOf(w, 21)
      /\ \A k \in 1..18 : w[k] = u[k]
      /\ \A k \in 1..3 : w[18 + k] = data[k]
  BY <1>1, <1>2, CatIs
<1>4. \A k \in 1..9 : w[k] = one[k] /\ w[9 + k] = two[k]
  <2> SUFFICES ASSUME NEW k \in 1..9 PROVE w[k] = one[k] /\ w[9 + k] = two[k]
    OBVIOUS
  <2>1. k \in 1..18 /\ 9 + k \in 1..18 OBVIOUS
  <2> QED BY <2>1, <1>2, <1>3
<1> QED BY <1>3, <1>4

(* A buffer that is filled from end to end. *)
LEMMA FilledIs ==
  ASSUME NEW mem, NEW n \in Nat, DOMAIN mem = 1..n, NEW cells, IsSeq(cells), Len(cells) = n
  PROVE  Filled(mem, cells) = cells
<1>1. DOMAIN cells = 1..n BY SeqIs
<1>2. PICK S : cells \in Seq(S) BY DEF IsSeq
<1>3. cells = [k \in 1..n |-> cells[k]] BY <1>1, <1>2
<1>4. Filled(mem, cells) = [k \in 1..n |-> cells[k]] BY <1>1 DEF Filled
<1> QED BY <1>3, <1>4

(* New buffers are blank. *)
LEMMA CreateSame ==
  ASSUME CaptureInv, runtime = "rknn", VendorSame, MemCreate
  PROVE  VendorSame'
<1>1. ~dump.done
  <2>1. dump.done => Len(buffers) = 5 BY DEF VendorSame
  <2> QED BY <2>1, LayoutIs DEF MemCreate
<1>2. RunningInv BY <1>1 DEF CaptureInv
<1>3. PICK n \in Nat : n = Len(buffers) BY <1>2, SeqIs DEF RunningInv
<1>4. n \in 0..4 /\ ~filled
  <2>1. n < 5 BY <1>3, LayoutIs DEF MemCreate
  <2> QED BY <2>1, <1>2, <1>3 DEF RunningInv
<1>5. PICK new : buffers' = Append(buffers, new) /\ new.mem = Zeros(SizeIs(n + 1))
  <2> DEFINE size == Layout[n + 1][2]
             new == [dma |-> (IF buffers = <<>> THEN Top ELSE Last(buffers).dma) - size,
                     mem |-> Zeros(size)]
  <2>1. buffers' = Append(buffers, new) BY <1>3 DEF MemCreate
  <2>2. n + 1 \in 1..5 BY <1>4
  <2>3. new.mem = Zeros(size) OBVIOUS
  <2>4. size = SizeIs(n + 1) BY <2>2, LayoutIs
  <2> HIDE DEF new, size
  <2> QED BY <2>1, <2>3, <2>4
<1>6. /\ Len(buffers') = n + 1 /\ buffers'[n + 1] = new
      /\ \A i \in 1..n : buffers'[i] = buffers[i]
  <2>1. IsSeq(buffers) BY <1>2 DEF RunningInv
  <2> QED BY <2>1, <1>3, <1>5, AppendIs
<1>7. filled' = filled /\ dump' = dump BY DEF MemCreate
<1>8. \A i \in 1..(n + 1) : buffers'[i].mem = Zeros(SizeIs(i))
  <2>1. \A i \in 1..n : buffers[i].mem = Zeros(SizeIs(i)) BY <1>1, <1>3, <1>4 DEF VendorSame
  <2>2. \A i \in 1..(n + 1) : i \in 1..n \/ i = n + 1 OBVIOUS
  <2> QED BY <2>1, <2>2, <1>5, <1>6
<1> QED BY <1>1, <1>4, <1>6, <1>7, <1>8 DEF VendorSame

(* The runtime writes its lists, the weights and the input. *)
LEMMA FillSame ==
  ASSUME CaptureInv, runtime = "rknn", VendorSame, Fill
  PROVE  VendorSame'
<1>1. ~dump.done /\ ~filled /\ filled' /\ ~dump'.done /\ plan' = plan /\ plan \in Plans
  <2>1. dump.done => filled BY DEF VendorSame
  <2> QED BY <2>1 DEF Fill, CaptureInv
<1>2. RunningInv BY <1>1 DEF CaptureInv
<1>3. Len(buffers) = 5 /\ DOMAIN buffers = 1..5
  BY <1>2, LayoutIs, SeqIs DEF Fill, RunningInv
<1>4. \A i \in 1..5 : BufferOK(buffers[i], i) BY <1>2, <1>3 DEF RunningInv
<1>5. \A i \in 1..5 : buffers[i].dma = AddrIs(i) BY <1>4 DEF BufferOK
<1>6. \A i \in 1..5 : /\ buffers[i].mem = Zeros(SizeIs(i)) /\ DOMAIN buffers[i].mem = 1..SizeIs(i)
                      /\ DOMAIN buffers[i] = BufferFields
  <2>1. \A i \in 1..5 : buffers[i].mem = Zeros(SizeIs(i)) BY <1>1, <1>3 DEF VendorSame
  <2>2. \A i \in 1..5 : SizeIs(i) \in Nat BY DEF SizeIs
  <2>3. \A i \in 1..5 : DOMAIN buffers[i].mem = 1..SizeIs(i) BY <2>1, <2>2 DEF Zeros
  <2>4. \A i \in 1..5 : DOMAIN buffers[i] = BufferFields BY <1>4 DEF BufferOK
  <2> QED BY <2>1, <2>3, <2>4
<1> DEFINE full(i) == Filled(buffers[i].mem, Contents[Layout[i][1]])
<1>7. \A i \in 1..5 : buffers'[i].mem = full(i)
  <2> SUFFICES ASSUME NEW i \in 1..5 PROVE buffers'[i].mem = full(i)
    OBVIOUS
  <2>1. buffers' = [k \in 1..5 |-> [buffers[k] EXCEPT !.mem = full(k)]] BY <1>3 DEF Fill
  <2> HIDE DEF full
  <2>2. buffers'[i] = [buffers[i] EXCEPT !.mem = full(i)] BY <2>1
  <2> QED BY <2>2, <1>6 DEF BufferFields
<1>8. full(3) = Zeros(1) /\ full(5) = Zeros(2)
  <2>1. /\ Contents["scratch"] = <<>> /\ Contents["output"] = <<>>
        /\ Layout[3][1] = "scratch" /\ Layout[5][1] = "output"
    BY LayoutIs DEF Contents
  <2>2. \A n \in Nat : Filled(Zeros(n), <<>>) = Zeros(n) BY DEF Filled, Zeros
  <2>3. SizeIs(3) = 1 /\ SizeIs(5) = 2 BY DEF SizeIs
  <2>4. buffers[3].mem = Zeros(1) /\ buffers[5].mem = Zeros(2) BY <1>6, <2>3
  <2> QED BY <2>1, <2>2, <2>4
<1>9. full(4) = Ramp
  <2>1. Contents["input"] = Ramp /\ Layout[4][1] = "input" BY LayoutIs DEF Contents
  <2>2. DOMAIN buffers[4].mem = 1..2
    <3>1. SizeIs(4) = 2 BY DEF SizeIs
    <3> QED BY <3>1, <1>6
  <2>3. IsSeq(Ramp) /\ Len(Ramp) = 2
    <3>1. Ramp = [k \in 1..2 |-> Ramp[k]] BY DEF Ramp
    <3> QED BY <3>1, FunctionIs
  <2> QED BY <2>1, <2>2, <2>3, FilledIs
<1> DEFINE one == ListOf(plan[1])
           two == IF Length = 2 THEN ListOf(plan[2]) ELSE Zeros(WordsOfAList)
           data == << <<0, 1>>, <<0, 2>>, <<0, 1>> >>
<1>10. Contents["weights"] = (one \o two) \o data /\ Layout[2][1] = "weights"
  <2>1. Contents["weights"] = (one \o two) \o data BY Zenon DEF Contents
  <2> QED BY <2>1, LayoutIs
<1>11. IsSeqOf(one, 9) /\ IsList(one, 0, Captured, plan[1])
  <2>1. 1 \in 1..Length BY <1>1, LengthIs
  <2> QED BY <2>1, <1>1, <1>5, ListWords DEF IsSeqOf
<1>12. IsSeqOf(two, 9) /\ (Length = 2 => IsList(two, 0, Captured, plan[2]))
  <2>1. CASE Length = 2
    <3>1. 2 \in 1..Length BY <2>1
    <3> QED BY <2>1, <3>1, <1>1, <1>5, ListWords DEF IsSeqOf
  <2>2. CASE Length # 2
    <3>1. two = Zeros(9) BY <2>2 DEF WordsOfAList
    <3> QED BY <2>2, <3>1, ZerosBlank DEF IsSeqOf
  <2> QED BY <2>1, <2>2
<1>13. IsSeqOf(data, 3) /\ data[1] = <<0, 1>> /\ data[2] = <<0, 2>> /\ data[3] = <<0, 1>>
  <2>1. data = [k \in 1..3 |-> data[k]] OBVIOUS
  <2>2. data[1] = <<0, 1>> /\ data[2] = <<0, 2>> /\ data[3] = <<0, 1>> OBVIOUS
  <2> HIDE DEF data
  <2> QED BY <2>1, <2>2, FunctionIs DEF IsSeqOf
<1> HIDE DEF one, two, data, full
<1>14. PICK u, w : IsCat(u, one, two) /\ IsCat(w, u, data) /\ w = Contents["weights"]
  BY <1>10 DEF IsCat
<1>15. /\ IsSeqOf(w, 21)
       /\ \A k \in 1..9 : w[k] = one[k] /\ w[9 + k] = two[k]
       /\ \A k \in 1..3 : w[18 + k] = data[k]
  BY <1>11, <1>12, <1>13, <1>14, PartsAre
<1>16. full(2) = w
  <2>1. DOMAIN buffers[2].mem = 1..21
    <3>1. SizeIs(2) = 21 BY DEF SizeIs
    <3> QED BY <3>1, <1>6
  <2>2. IsSeq(w) /\ Len(w) = 21 BY <1>15 DEF IsSeqOf
  <2> QED BY <2>1, <2>2, <1>10, <1>14, FilledIs DEF full
<1>17. ListsAre(w, 0, Captured, Captured)
  <2>1. DataAre(w)
    <3>1. w[18 + 1] = data[1] /\ w[18 + 2] = data[2] /\ w[18 + 3] = data[3]
      BY <1>15
    <3>2. w[19] = data[1] /\ w[20] = data[2] /\ w[21] = data[3] BY <3>1
    <3> QED BY <3>2, <1>13 DEF DataAre
  <2>2. IsList(w, (1 - 1) * 9, Captured, plan[1])
    <3>1. IsList(w, 0, Captured, plan[1]) BY <1>11, <1>15 DEF IsList
    <3>2. (1 - 1) * 9 = 0 OBVIOUS
    <3> QED BY <3>1, <3>2
  <2>3. Length = 2 => IsList(w, (2 - 1) * 9, Captured, plan[2])
    <3> SUFFICES ASSUME Length = 2 PROVE IsList(w, (2 - 1) * 9, Captured, plan[2])
      OBVIOUS
    <3>1. IsList(two, 0, Captured, plan[2]) BY <1>12
    <3>2. IsList(w, 9, Captured, plan[2]) BY <3>1, <1>15 DEF IsList
    <3>3. (2 - 1) * 9 = 9 OBVIOUS
    <3> QED BY <3>2, <3>3
  <2>4. \A t \in 1..Length : t = 1 \/ (t = 2 /\ Length = 2)
    <3>1. Length = 1 \/ Length = 2 BY <1>1, LengthIs
    <3> QED BY <3>1
  <2>5. \A t \in 1..Length : IsList(w, (t - 1) * 9, IF t <= 0 THEN Captured ELSE Captured, plan[t])
    BY <2>2, <2>3, <2>4
  <2>6. IsSeq(w) /\ Len(w) = 21 BY <1>15 DEF IsSeqOf
  <2> QED BY <2>1, <2>5, <2>6 DEF ListsAre
<1>18. \A i \in 3..5 : full(i) = M0[i] BY <1>8, <1>9 DEF M0
<1>19. Length' = Length /\ Captured' = Captured /\ M0' = M0
  BY <1>1 DEF Length, Captured, M0, AddrIs
<1>20. buffers'[2].mem = w /\ \A i \in 3..5 : buffers'[i].mem = M0[i] BY <1>7, <1>16, <1>18
<1>21. ListsAre(buffers[2].mem, 0, Captured, Captured)'
  BY <1>1, <1>17, <1>19, <1>20 DEF ListsAre
<1> QED BY <1>1, <1>19, <1>20, <1>21 DEF VendorSame

(* A task neither makes nor loses buffers. *)
LEMMA ExecuteLen ==
  ASSUME NEW bos, IsSeq(bos), Len(bos) = 5, NEW task
  PROVE  IsSeq(Execute(bos, task)) /\ Len(Execute(bos, task)) = 5
<1> DEFINE f == Execute(bos, task)
<1>1. DOMAIN bos = 1..5 BY SeqIs
<1>2. PICK S : bos \in Seq(S) BY DEF IsSeq
<1>3. bos = [i \in 1..5 |-> bos[i]] BY <1>1, <1>2
<1>4. f = bos \/ \E j, m : f = [bos EXCEPT ![j] = m]
  <2>1. f = bos \/ \E j, k, v : f = [bos EXCEPT ![j].mem[k] = v] BY Zenon DEF Execute
  <2>2. ASSUME NEW j, NEW k, NEW v, f = [bos EXCEPT ![j].mem[k] = v]
        PROVE  \E m : f = [bos EXCEPT ![j] = m]
    <3>1. f = [bos EXCEPT ![j] = [bos[j] EXCEPT !.mem = [bos[j].mem EXCEPT ![k] = v]]]
      BY <2>2, Zenon
    <3> QED BY <3>1
  <2> QED BY <2>1, <2>2
<1>5. f = [i \in 1..5 |-> f[i]] BY <1>1, <1>3, <1>4
<1> HIDE DEF f
<1>6. 5 \in Nat OBVIOUS
<1>7. IsSeq(f) /\ Len(f) = 5 BY <1>5, <1>6, FunctionIs
<1> QED BY <1>7 DEF f

(* The captured buffers, full. *)
LEMMA BuffersReady ==
  ASSUME plan \in Plans, Len(buffers) = 5, IsSeq(buffers),
         \A i \in 1..5 : BufferOK(buffers[i], i),
         ListsAre(buffers[2].mem, 0, Captured, Captured),
         \A i \in 3..5 : buffers[i].mem = M0[i]
  PROVE  Ready(buffers, M0, Length) /\ buffers[2].dma = Top - 23
<1>0. Top \in Nat BY ReplayConstantsOK
<1>1. DOMAIN buffers = 1..5 BY SeqIs
<1>2. \A i \in 1..5 : AddrIs(i) \in Int /\ SizeIs(i) \in Nat BY <1>0 DEF AddrIs, SizeIs
<1>3. \A i \in 1..5 : /\ DOMAIN buffers[i] = BufferFields /\ buffers[i].dma = AddrIs(i)
                      /\ IsSeq(buffers[i].mem) /\ Len(buffers[i].mem) = SizeIs(i)
  BY DEF BufferOK
<1>4. \A i \in 1..5, j \in 2..5 : i # j =>
        AddrIs(i) + SizeIs(i) <= AddrIs(j) \/ AddrIs(j) + SizeIs(j) <= AddrIs(i)
  BY <1>0 DEF AddrIs, SizeIs
<1>5. \A i \in 2..5 : i \in 1..5 OBVIOUS
<1>6. Placed(buffers)
  <2>1. \A i \in 1..5 : /\ DOMAIN buffers[i] = BufferFields /\ buffers[i].dma \in Int
                        /\ Len(buffers[i].mem) \in Nat
    BY <1>2, <1>3
  <2>2. \A i \in 2..5 : IsSeq(buffers[i].mem) /\ Len(buffers[i].mem) = SizeIs(i) BY <1>3, <1>5
  <2>3. \A i \in 1..5, j \in 2..5 : i # j =>
            \/ Len(buffers[i].mem) = 0
            \/ buffers[i].dma + Len(buffers[i].mem) <= buffers[j].dma
            \/ buffers[j].dma + Len(buffers[j].mem) <= buffers[i].dma
    BY <1>3, <1>4, <1>5
  <2> QED BY <1>1, <2>1, <2>2, <2>3, PlacedIs
<1>7. Addresses(buffers) = Captured BY <1>3 DEF Addresses, Captured
<1>8. DataAre(buffers[2].mem)
      /\ \A t \in 1..Length : IsList(buffers[2].mem, (t - 1) * 9, Captured, plan[t])
  BY DEF ListsAre
<1>9. AddrIs(2) = Top - 23 BY DEF AddrIs
<1> QED BY <1>3, <1>6, <1>7, <1>8, <1>9 DEF Ready

(* The driver runs what was captured; the files say what it was given. *)
LEMMA SubmitSame ==
  ASSUME CaptureInv, runtime = "rknn", VendorSame, NEW missing \in 0..3, Submit(missing)
  PROVE  VendorSame'
<1>1. /\ ~dump.done /\ filled /\ plan' = plan /\ plan \in Plans /\ filled' = filled
      /\ dump' = Dumped(buffers, missing) /\ buffers' = Computed(buffers)
  BY DEF Submit, CaptureInv
<1>2. RunningInv BY <1>1 DEF CaptureInv
<1>3. /\ Len(buffers) = 5 /\ IsSeq(buffers) /\ recorded = [i \in 1..5 |-> i]
      /\ \A i \in 1..5 : BufferOK(buffers[i], i)
  BY <1>1, <1>2 DEF RunningInv
<1>4. /\ ListsAre(buffers[2].mem, 0, Captured, Captured)
      /\ \A i \in 3..5 : buffers[i].mem = M0[i]
  BY <1>1 DEF VendorSame
<1>5. Ready(buffers, M0, Length) /\ buffers[2].dma = Top - 23 BY <1>1, <1>3, <1>4, BuffersReady
<1>6. PICK tasks : /\ buffers' = ExecuteAll(buffers, tasks)
                   /\ Len(tasks) = Length
                   /\ \A t \in 1..Length : /\ tasks[t].regcmd = buffers[2].dma + (t - 1) * 9
                                           /\ tasks[t].count = 9
  <2> DEFINE tasks == [t \in 1..Length |-> [regcmd |-> At("weights", (t - 1) * WordsOfAList),
                                            count |-> WordsOfAList]]
  <2>1. buffers' = ExecuteAll(buffers, tasks) BY <1>1 DEF Computed
  <2>2. Len(tasks) = Length
    <3>1. PICK m \in Nat : m = Length BY <1>1, LengthIs
    <3>2. tasks = [t \in 1..m |-> tasks[t]] BY <3>1
    <3> HIDE DEF tasks
    <3> QED BY <3>1, <3>2, FunctionIs
  <2>3. \A t \in 1..Length : /\ tasks[t].regcmd = buffers[2].dma + (t - 1) * 9
                             /\ tasks[t].count = 9
    <3>1. Role("weights") = 2 BY LayoutIs
    <3> QED BY <3>1 DEF At, WordsOfAList
  <2> HIDE DEF tasks
  <2> QED BY <2>1, <2>2, <2>3
<1>7. Ready(buffers', Results(Length), Length) BY <1>1, <1>5, <1>6, RunAll
<1>8. Len(buffers') = 5
  <2>1. PICK m \in {1, 2} : m = Length BY <1>1, LengthIs
  <2> DEFINE one == Execute(buffers, tasks[1])
             two == Execute(one, tasks[2])
  <2>2. IsSeq(one) /\ Len(one) = 5 BY <1>3, ExecuteLen
  <2> HIDE DEF one
  <2>3. IsSeq(two) /\ Len(two) = 5 BY <2>2, ExecuteLen
  <2>4. buffers' = one \/ buffers' = two
    <3>1. Len(tasks) \in {1, 2} /\ (Len(tasks) = 1 \/ Len(tasks) = 2) BY <2>1, <1>6
    <3>2. /\ Len(tasks) = 1 => ExecuteAll(buffers, tasks) = one
          /\ Len(tasks) = 2 => ExecuteAll(buffers, tasks) = two
      BY <3>1, AllIs DEF one
    <3> HIDE DEF two
    <3> QED BY <3>1, <3>2, <1>6
  <2> QED BY <2>2, <2>3, <2>4
<1>9. dump'.done /\ dump'.file = [i \in 1..5 |-> IF i = missing THEN <<>> ELSE buffers[i].mem]
  <2>1. DOMAIN recorded = 1..5 /\ \A i \in 1..5 : recorded[i] = i BY <1>3
  <2> QED BY <1>1, <2>1 DEF Dumped
<1>10. Length' = Length /\ Captured' = Captured /\ M0' = M0
  BY <1>1 DEF Length, Captured, M0, AddrIs
<1>11. FilesInv'
  <2>1. DOMAIN dump'.file = 1..5 BY <1>9
  <2>2. dump'.file[2] = <<>> \/ dump'.file[2] = buffers[2].mem BY <1>9
  <2>3. ListsAre(dump.file[2], 0, Captured, Captured)' \/ dump'.file[2] = <<>>
    BY <2>2, <1>1, <1>4, <1>10 DEF ListsAre
  <2>4. \A i \in 3..5 : dump'.file[i] = <<>> \/ dump'.file[i] = M0[i]
    <3> SUFFICES ASSUME NEW i \in 3..5 PROVE dump'.file[i] = <<>> \/ dump'.file[i] = M0[i]
      OBVIOUS
    <3>1. i \in 1..5 OBVIOUS
    <3> QED BY <3>1, <1>4, <1>9
  <2>5. dump'.file[1] = <<>> \/ (IsSeq(dump'.file[1]) /\ Len(dump'.file[1]) = 2)
    <3>1. dump'.file[1] = <<>> \/ dump'.file[1] = buffers[1].mem BY <1>9
    <3>2. IsSeq(buffers[1].mem) /\ Len(buffers[1].mem) = SizeIs(1) BY <1>3 DEF BufferOK
    <3>3. SizeIs(1) = 2 BY DEF SizeIs
    <3>4. IsSeq(buffers[1].mem) /\ Len(buffers[1].mem) = 2 BY <3>2, <3>3
    <3>5. CASE dump'.file[1] = <<>> BY <3>5
    <3>6. CASE dump'.file[1] = buffers[1].mem BY <3>4, <3>6
    <3> QED BY <3>1, <3>5, <3>6
  <2> QED BY <2>1, <2>3, <2>4, <2>5, <1>10 DEF FilesInv
<1>12. Ready(buffers, Results(Length), Length)'
  <2>1. Results(Length)' = Results(Length) BY <1>1, <1>10 DEF Results
  <2> QED BY <2>1, <1>1, <1>7, <1>10 DEF Ready
<1> QED BY <1>1, <1>8, <1>9, <1>11, <1>12 DEF VendorSame
-----------------------------------------------------------------------------
(* The vendor's payload in the program's buffers: created, patched, flushed, run. *)

OwnAt == [i \in 1..5 |-> me.bo[i].dma]

\* The buffers of replay.c and replay_rocket.c, made: the latter has no first one.
VendorBo ==
  /\ me.prog \in {"rknpu", "rocket"}
  /\ BoOK /\ Ranges
  /\ \A i \in 1..5 : me.bo[i].dma \in Int
  /\ \A i \in 2..5 : me.bo[i].created /\ IsSeq(me.bo[i].cpu) /\ Len(me.bo[i].cpu) = SizeIs(i)
  /\ IF me.prog = "rocket" THEN ~me.bo[1].created /\ me.bo[1].mem = <<>>
     ELSE me.bo[1].created /\ IsSeq(me.bo[1].cpu) /\ Len(me.bo[1].cpu) = 2
  /\ \A i \in 1..5, j \in 2..5 : i # j =>
       \/ i = 1 /\ me.prog = "rocket"
       \/ me.bo[i].dma + SizeIs(i) <= me.bo[j].dma
       \/ me.bo[j].dma + SizeIs(j) <= me.bo[i].dma

(* Which captured ranges hold an address. *)
LEMMA CandidatesAre ==
  ASSUME VendorBo
  PROVE  /\ \A i \in 2..5 : \A o \in 0..(SizeIs(i) - 1) : Candidates(AddrIs(i) + o) = {i}
         /\ Candidates(5) = {} /\ Candidates(0) = {}
         /\ me.prog = "rocket" => Candidates(Top - 1) = {}
<1>0. Top \in Nat /\ Top > 33 BY ReplayConstantsOK
<1>1. \A i \in 1..5 : AddrIs(i) \in Int /\ SizeIs(i) \in Nat BY <1>0 DEF AddrIs, SizeIs
<1>2. DOMAIN me.bo = 1..5 /\ \A i \in 1..5 : me.bo[i].vdma = AddrIs(i) /\ me.bo[i].vsize = SizeIs(i)
  BY DEF VendorBo, BoOK, Ranges
<1>3. \A v \in Int, i \in 1..5 : Within(v, me.bo[i]) <=> (AddrIs(i) <= v /\ v < AddrIs(i) + SizeIs(i))
  BY <1>2 DEF Within
<1>4. \A i \in 2..5 : me.bo[i].created BY DEF VendorBo
<1>5. \A v : Candidates(v) \subseteq 1..5 BY <1>2 DEF Candidates
<1>6. ASSUME NEW i \in 2..5, NEW o \in 0..(SizeIs(i) - 1) PROVE Candidates(AddrIs(i) + o) = {i}
  <2>1. i \in 1..5 /\ o \in Int /\ AddrIs(i) + o \in Int BY <1>1
  <2>2. \A j \in 1..5 : (AddrIs(j) <= AddrIs(i) + o /\ AddrIs(i) + o < AddrIs(j) + SizeIs(j)) <=> j = i
    BY <1>0 DEF AddrIs, SizeIs
  <2>3. \A j \in 1..5 : Within(AddrIs(i) + o, me.bo[j]) <=> j = i BY <2>1, <2>2, <1>3
  <2>4. me.bo[i].created BY <1>4
  <2>5. \A j \in 1..5 : j \in Candidates(AddrIs(i) + o) <=> j = i
    BY <2>3, <2>4, <1>2, Zenon DEF Candidates
  <2> QED BY <2>1, <2>5, <1>5
<1>7. ASSUME NEW v \in {0, 5} PROVE Candidates(v) = {}
  <2>1. \A j \in 1..5 : ~(AddrIs(j) <= v) BY <1>0 DEF AddrIs
  <2>2. v \in Int OBVIOUS
  <2>3. \A j \in 1..5 : ~Within(v, me.bo[j]) BY <2>1, <2>2, <1>3
  <2> QED BY <2>3, <1>2 DEF Candidates
<1>8. ASSUME me.prog = "rocket" PROVE Candidates(Top - 1) = {}
  <2>1. \A j \in 1..5 : (AddrIs(j) <= Top - 1 /\ Top - 1 < AddrIs(j) + SizeIs(j)) => j = 1
    BY <1>0 DEF AddrIs, SizeIs
  <2>2. Top - 1 \in Int BY <1>0
  <2>3. \A j \in 1..5 : Within(Top - 1, me.bo[j]) => j = 1 BY <2>1, <2>2, <1>3
  <2>4. ~me.bo[1].created BY <1>8 DEF VendorBo
  <2> QED BY <1>8, <2>3, <2>4, <1>2 DEF Candidates
<1> QED BY <1>6, <1>7, <1>8

(* Words that hold an address of a captured buffer, and words that do not. *)
LEMMA RemapIs ==
  ASSUME VendorBo
  PROVE  /\ \A r \in {SRC, WT, DST, BIAS, SCALE}, i \in 2..5 : \A o \in 0..(SizeIs(i) - 1) :
              Remapped(<<r, AddrIs(i) + o>>) = <<r, me.bo[i].dma + o>>
         /\ Remapped(<<PAD, Top - 1>>) = <<PAD, Top - 1>>
         /\ Remapped(<<CBUF, 5>>) = <<CBUF, 5>>
         /\ Remapped(<<0, 0>>) = <<0, 0>>
<1>0. Top \in Nat /\ Top > 33 BY ReplayConstantsOK
<1>1. ASSUME NEW r \in {SRC, WT, DST, BIAS, SCALE}, NEW i \in 2..5, NEW o \in 0..(SizeIs(i) - 1)
      PROVE  Remapped(<<r, AddrIs(i) + o>>) = <<r, me.bo[i].dma + o>>
  <2> DEFINE v == AddrIs(i) + o
             word == <<r, v>>
  <2>1. Candidates(v) = {i} BY CandidatesAre
  <2>2. Min({i}) = i BY MaxOne
  <2>3. AddrIs(i) \in Int /\ o \in Int BY <1>0 DEF AddrIs, SizeIs
  <2>4. v - me.bo[i].vdma = o
    <3>1. i \in 1..5 OBVIOUS
    <3>2. me.bo[i].vdma = AddrIs(i) BY <3>1 DEF VendorBo, Ranges
    <3> QED BY <3>2, <2>3
  <2> HIDE DEF v
  <2>5. word[1] = r /\ word[2] = v OBVIOUS
  <2>6. IsAddress(word[1]) BY <2>5 DEF IsAddress
  <2> HIDE DEF word
  <2>7. Remapped(word) = <<word[1], me.bo[i].dma + (word[2] - me.bo[i].vdma)>>
    <3>1. Candidates(word[2]) = {i} BY <2>1, <2>5
    <3>2. Candidates(word[2]) # {} BY <3>1
    <3>3. Min(Candidates(word[2])) = i BY <3>1, <2>2
    <3> QED BY <3>2, <3>3, <2>6, Zenon DEF Remapped
  <2> QED BY <2>4, <2>5, <2>7 DEF v, word
<1>2. ASSUME NEW r, NEW v, Candidates(v) = {} \/ ~IsAddress(r)
      PROVE  Remapped(<<r, v>>) = <<r, v>>
  <2>1. PICK word : word = <<r, v>> OBVIOUS
  <2>2. word[1] = r /\ word[2] = v BY <2>1
  <2>3. Remapped(word) = word BY <1>2, <2>2, Zenon DEF Remapped
  <2> QED BY <2>1, <2>3
<1>3. Candidates(5) = {} /\ Candidates(0) = {} BY CandidatesAre
<1>4. Candidates(Top - 1) = {} \/ ~IsAddress(PAD)
  <2>1. CASE me.prog = "rocket" BY <2>1, CandidatesAre
  <2>2. CASE me.prog # "rocket" BY <2>2 DEF IsAddress, PAD, SRC, WT, DST, BIAS, SCALE
  <2> QED BY <2>1, <2>2
<1>5. Remapped(<<PAD, Top - 1>>) = <<PAD, Top - 1>> BY <1>2, <1>4
<1>6. Remapped(<<CBUF, 5>>) = <<CBUF, 5>> BY <1>2, <1>3
<1>7. Remapped(<<0, 0>>) = <<0, 0>> BY <1>2, <1>3
<1> QED BY <1>1, <1>5, <1>6, <1>7

(* One more list points into the program's own buffers. *)
LEMMA RelocatedIs ==
  ASSUME VendorBo, plan \in Plans, NEW n \in Nat, n < Length,
         NEW cpu, ListsAre(cpu, n, OwnAt, Captured)
  PROVE  ListsAre(Relocated(cpu, n * 9, 9), n + 1, OwnAt, Captured)
<1> DEFINE off == n * 9
           new == Relocated(cpu, off, 9)
           p == plan[n + 1]
<1>1. IsSeq(cpu) /\ Len(cpu) = 21 /\ DataAre(cpu) BY DEF ListsAre
<1>2. DOMAIN cpu = 1..21 BY <1>1, SeqIs
<1>3. n \in 0..1 /\ (Length = 1 \/ Length = 2) /\ n + 1 \in 1..Length
  <2>1. Length = 1 \/ Length = 2 BY LengthIs
  <2> QED BY <2>1
<1>4. new = [k \in 1..21 |-> IF off < k /\ k <= off + 9 THEN Remapped(cpu[k]) ELSE cpu[k]]
  BY <1>2 DEF Relocated
<1> HIDE DEF new
<1>5. IsSeq(new) /\ Len(new) = 21
  <2>1. new = [k \in 1..21 |-> new[k]] BY <1>4
  <2> QED BY <2>1, FunctionIs
<1>6. DataAre(new)
  <2>1. new[19] = cpu[19] /\ new[20] = cpu[20] /\ new[21] = cpu[21] BY <1>3, <1>4
  <2> QED BY <2>1, <1>1 DEF DataAre
<1>7. \A k \in 1..9 : new[off + k] = Remapped(cpu[off + k]) BY <1>3, <1>4
<1>8. IsList(new, off, OwnAt, p)
  <2>1. IsList(cpu, off, Captured, p)
    <3>1. IsList(cpu, ((n + 1) - 1) * 9, IF n + 1 <= n THEN OwnAt ELSE Captured, plan[n + 1])
      BY <1>3 DEF ListsAre
    <3>2. (n + 1) - 1 = n /\ ~(n + 1 <= n) OBVIOUS
    <3> QED BY <3>1, <3>2
  <2>2. /\ Source(p) \in 3..4 /\ p.src[2] \in 0..(SizeIs(Source(p)) - 1)
        /\ Target(p) \in {3, 5} /\ p.dst[2] \in 0..(SizeIs(Target(p)) - 1)
    BY <1>3, StepIs
  <2> HIDE DEF p
  <2>3. PICK s \in 2..5, so \in Nat, d \in 2..5, do \in Nat :
          /\ s = Source(p) /\ so = p.src[2] /\ so \in 0..(SizeIs(s) - 1)
          /\ d = Target(p) /\ do = p.dst[2] /\ do \in 0..(SizeIs(d) - 1)
    <3>1. Source(p) \in 2..5 /\ Target(p) \in 2..5 BY <2>2
    <3>2. p.src[2] \in Nat /\ p.dst[2] \in Nat
      <4>1. \A i \in 2..5 : SizeIs(i) \in Nat BY DEF SizeIs
      <4> QED BY <2>2, <3>1, <4>1
    <3> QED BY <2>2, <3>1, <3>2
  <2>4. /\ cpu[off + 1] = <<SRC, AddrIs(s) + so>> /\ cpu[off + 2] = <<WT, AddrIs(2) + 18>>
        /\ cpu[off + 3] = <<PAD, Top - 1>> /\ cpu[off + 4] = <<CBUF, 5>> /\ cpu[off + 5] = <<0, 0>>
        /\ cpu[off + 6] = <<BIAS, AddrIs(2) + 19>> /\ cpu[off + 7] = <<SCALE, AddrIs(2) + 20>>
        /\ cpu[off + 8] = <<DST, AddrIs(d) + do>> /\ cpu[off + 9] = <<0, 0>>
    <3>1. Captured[s] = AddrIs(s) /\ Captured[d] = AddrIs(d) /\ Captured[2] = AddrIs(2)
      BY DEF Captured
    <3> QED BY <2>1, <2>3, <3>1, Zenon DEF IsList
  <2>5. 18 \in 0..(SizeIs(2) - 1) /\ 19 \in 0..(SizeIs(2) - 1) /\ 20 \in 0..(SizeIs(2) - 1)
    BY DEF SizeIs
  <2>6. /\ Remapped(<<SRC, AddrIs(s) + so>>) = <<SRC, me.bo[s].dma + so>>
        /\ Remapped(<<WT, AddrIs(2) + 18>>) = <<WT, me.bo[2].dma + 18>>
        /\ Remapped(<<PAD, Top - 1>>) = <<PAD, Top - 1>>
        /\ Remapped(<<CBUF, 5>>) = <<CBUF, 5>> /\ Remapped(<<0, 0>>) = <<0, 0>>
        /\ Remapped(<<BIAS, AddrIs(2) + 19>>) = <<BIAS, me.bo[2].dma + 19>>
        /\ Remapped(<<SCALE, AddrIs(2) + 20>>) = <<SCALE, me.bo[2].dma + 20>>
        /\ Remapped(<<DST, AddrIs(d) + do>>) = <<DST, me.bo[d].dma + do>>
    <3>1. 2 \in 2..5 OBVIOUS
    <3> QED BY <2>3, <3>1, <2>5, RemapIs
  <2>7. /\ new[off + 1] = Remapped(cpu[off + 1]) /\ new[off + 2] = Remapped(cpu[off + 2])
        /\ new[off + 3] = Remapped(cpu[off + 3]) /\ new[off + 4] = Remapped(cpu[off + 4])
        /\ new[off + 5] = Remapped(cpu[off + 5]) /\ new[off + 6] = Remapped(cpu[off + 6])
        /\ new[off + 7] = Remapped(cpu[off + 7]) /\ new[off + 8] = Remapped(cpu[off + 8])
        /\ new[off + 9] = Remapped(cpu[off + 9])
    BY <1>7
  <2>8. OwnAt[s] = me.bo[s].dma /\ OwnAt[d] = me.bo[d].dma /\ OwnAt[2] = me.bo[2].dma
    BY DEF OwnAt
  <2> QED BY <2>3, <2>4, <2>6, <2>7, <2>8, Zenon DEF IsList
<1>9. ASSUME NEW t \in 1..Length
      PROVE  IsList(new, (t - 1) * 9, IF t <= n + 1 THEN OwnAt ELSE Captured, plan[t])
  <2>1. IsList(cpu, (t - 1) * 9, IF t <= n THEN OwnAt ELSE Captured, plan[t]) BY DEF ListsAre
  <2>2. CASE t = n + 1
    <3>1. (t - 1) * 9 = off /\ t <= n + 1 BY <2>2
    <3> QED BY <2>2, <3>1, <1>8
  <2>3. CASE t # n + 1
    <3>1. t \in 1..2 BY <1>3
    <3>2. (t <= n + 1) <=> (t <= n) BY <2>3, <3>1
    <3>3. \A k \in 1..9 : new[(t - 1) * 9 + k] = cpu[(t - 1) * 9 + k]
      BY <1>3, <1>4, <2>3, <3>1
    <3>4. PICK o, a : o = (t - 1) * 9 /\ a = IF t <= n THEN OwnAt ELSE Captured OBVIOUS
    <3>5. \A k \in 1..9 : new[o + k] = cpu[o + k] BY <3>3, <3>4
    <3>6. IsList(new, o, a, plan[t]) BY <2>1, <3>4, <3>5 DEF IsList
    <3> QED BY <3>2, <3>4, <3>6
  <2> QED BY <2>2, <2>3
<1> QED BY <1>5, <1>6, <1>9 DEF ListsAre, new

\* The tasks made so far point at the program's own lists.
TasksAre ==
  /\ IsSeq(me.tasks) /\ Len(me.tasks) \in 0..Length
  /\ \A t \in 1..Len(me.tasks) : /\ me.tasks[t].regcmd = me.bo[2].dma + (t - 1) * 9
                                 /\ me.tasks[t].count = 9

Entries(cells) == \A t \in 1..Len(me.tasks) : cells[t] = <<9, me.bo[2].dma + (t - 1) * 9>>

\* Patched up to the next task.
PatchSame ==
  /\ VendorBo /\ TasksAre /\ me.ran = 0 /\ TaskArray(me.ta, Length)
  /\ ListsAre(me.bo[2].cpu, Len(me.tasks), OwnAt, Captured)
  /\ \A i \in 3..5 : me.bo[i].cpu = M0[i]
  /\ me.prog = "rknpu" => Entries(me.bo[1].cpu)

\* With the device, and run up to the next task.
RunSame ==
  /\ BoOK /\ TasksAre /\ me.ran \in 0..Len(me.tasks)
  /\ Ready(Devices, Results(me.ran), Len(me.tasks))
  /\ me.prog = "rknpu" => /\ Len(me.tasks) = Length
                          /\ me.pc = "submit" => Entries(me.bo[1].mem)
                          /\ me.pc # "submit" => me.ran = Length

VendorRuns ==
  /\ me.pc \in {"meta", "create", "patch", "submit"} => me.ran = 0
  /\ me.pc = "create" => me.bo[1].dma = -1 /\ me.bo[1].mem = <<>>
  /\ dump.done /\ Complete => /\ me.pc = "patch" => PatchSame
                              /\ me.pc \in {"submit", "wait", "report"} => RunSame

VendorInv == ReplayInv /\ runtime = "rknn" /\ VendorSame /\ VendorRuns

(* The files of a complete capture. *)
LEMMA FilesAre ==
  ASSUME VendorInv, dump.done, Complete
  PROVE  /\ DumpInv /\ plan \in Plans
         /\ TaskArray(dump.file[1], Length)
         /\ IsSeq(dump.file[1]) /\ Len(dump.file[1]) = 2
         /\ ListsAre(dump.file[2], 0, Captured, Captured)
         /\ \A i \in 3..5 : dump.file[i] = M0[i]
         /\ \A i \in 1..5 : dump.file[i] # <<>>
<1>1. DumpInv /\ plan \in Plans BY DEF VendorInv, ReplayInv, CaptureInv
<1>2. FilesInv BY DEF VendorInv, VendorSame
<1>3. \A i \in 1..5 : dump.file[i] # <<>> BY <1>2 DEF Complete, FilesInv, VendorInv
<1>4. \A i \in 3..5 : i \in 1..5 OBVIOUS
<1> QED BY <1>1, <1>2, <1>3, <1>4 DEF DumpInv, FilesInv

(* The buffers are made and loaded with the files. *)
LEMMA CreateRuns ==
  ASSUME VendorInv, dump.done, Complete, Create, me' # Exits(1)
  PROVE  PatchSame'
<1>1. me.pc = "create" /\ me.prog \in {"rknpu", "rocket"} /\ UNCHANGED capture /\ OnTheWay
  BY Going DEF Create, In, VendorInv
<1>2. CreateInv /\ me.ran = 0 /\ me.bo[1].dma = -1 /\ me.bo[1].mem = <<>>
  BY <1>1 DEF VendorInv, ReplayInv, ProgramInv, VendorRuns
<1>3. /\ DumpInv /\ plan \in Plans
      /\ TaskArray(dump.file[1], Length)
      /\ IsSeq(dump.file[1]) /\ Len(dump.file[1]) = 2
      /\ ListsAre(dump.file[2], 0, Captured, Captured)
      /\ \A i \in 3..5 : dump.file[i] = M0[i]
      /\ \A i \in 1..5 : dump.file[i] # <<>>
  BY FilesAre
<1>4. dump.task_bo = 1 BY <1>3 DEF DumpInv
<1>5. DOMAIN me.bo = 1..5 /\ \A i \in 1..5 : /\ DOMAIN me.bo[i] = BoFields
                                             /\ me.bo[i].vdma = AddrIs(i) /\ me.bo[i].vsize = SizeIs(i)
                                             /\ ~me.bo[i].created
  BY <1>2 DEF CreateInv
<1>6. PICK dma \in Places, junk \in {<<0, 0>>, <<1, me.bo[2].vdma>>} :
        /\ NoOverlap(dma, [i \in {k \in DOMAIN me.bo : Own(k)} |-> me.bo[i].vsize])
        /\ me' = [Goes("patch") EXCEPT !.bo = [i \in DOMAIN me.bo |-> Made(dma, i)],
                                       !.ta = ReadIn(junk)]
  BY DEF Create
<1> DEFINE new == [i \in 1..5 |-> Made(dma, i)]
           array == ReadIn(junk)
<1>7. me' = [Goes("patch") EXCEPT !.bo = new, !.ta = array] BY <1>5, <1>6
<1>8. \A i \in 1..5 : File(i) = dump.file[i] BY <1>3 DEF File
<1>9. array = dump.file[1] BY <1>3, <1>4, <1>8 DEF ReadIn
<1>10. \A i \in 1..5 : dma[i] \in Int
  <2>1. dma \in [1..MaxBo -> Nat] BY ReplayConstantsOK
  <2>2. \A i \in 1..5 : i \in 1..MaxBo BY ReplayConstantsOK
  <2> QED BY <2>1, <2>2
<1>11. \A i \in 1..5 : Own(i) <=> (me.prog = "rknpu" \/ i # 1) BY <1>4 DEF Own
<1>12. \A i \in 1..5 : Own(i) => /\ DOMAIN new[i] = BoFields /\ new[i].created /\ new[i].dma = dma[i]
                                 /\ new[i].cpu = dump.file[i]
                                 /\ new[i].vdma = AddrIs(i) /\ new[i].vsize = SizeIs(i)
  <2> SUFFICES ASSUME NEW i \in 1..5, Own(i)
               PROVE  /\ DOMAIN new[i] = BoFields /\ new[i].created /\ new[i].dma = dma[i]
                      /\ new[i].cpu = dump.file[i]
                      /\ new[i].vdma = AddrIs(i) /\ new[i].vsize = SizeIs(i)
    OBVIOUS
  <2>1. PICK zeros : new[i] = [me.bo[i] EXCEPT !.created = TRUE, !.dma = dma[i], !.cpu = File(i),
                                               !.mem = zeros]
    BY DEF Made
  <2> HIDE DEF new
  <2> QED BY <2>1, <1>5, <1>8 DEF BoFields
<1>13. \A i \in 1..5 : ~Own(i) => new[i] = me.bo[i] BY DEF Made
<1>14. DOMAIN new = 1..5 OBVIOUS
<1> DEFINE sizes == [i \in {k \in DOMAIN me.bo : Own(k)} |-> me.bo[i].vsize]
<1>15. \A i, j \in 1..5 : Own(i) /\ Own(j) /\ i # j =>
         dma[i] + SizeIs(i) <= dma[j] \/ dma[j] + SizeIs(j) <= dma[i]
  <2> SUFFICES ASSUME NEW i \in 1..5, NEW j \in 1..5, Own(i), Own(j), i # j
               PROVE dma[i] + SizeIs(i) <= dma[j] \/ dma[j] + SizeIs(j) <= dma[i]
    OBVIOUS
  <2>1. i \in DOMAIN sizes /\ j \in DOMAIN sizes BY <1>5
  <2>2. sizes[i] = SizeIs(i) /\ sizes[j] = SizeIs(j) BY <1>5
  <2> HIDE DEF sizes
  <2>3. dma[i] + sizes[i] <= dma[j] \/ dma[j] + sizes[j] <= dma[i]
    BY <1>6, <2>1 DEF NoOverlap, sizes
  <2> QED BY <2>2, <2>3
<1> HIDE DEF new, array
<1>16. /\ me'.prog = me.prog /\ me'.bo = new /\ me'.ta = array /\ me'.tasks = <<>> /\ me'.ran = 0
  BY <1>1, <1>2, <1>7 DEF Goes, MeFields, OnTheWay, CreateInv
<1>17. /\ Length' = Length /\ Captured' = Captured /\ M0' = M0 /\ plan' = plan
       /\ \A i \in 1..5 : AddrIs(i)' = AddrIs(i) /\ SizeIs(i)' = SizeIs(i)
  BY <1>1 DEF capture, Length, Captured, M0, AddrIs, SizeIs
<1>18. Own(2) /\ Own(3) /\ Own(4) /\ Own(5) /\ \A i \in 2..5 : i \in 1..5 /\ Own(i) BY <1>11
<1>19. VendorBo'
  <2>1. BoOK'
    <3>1. \A i \in 1..5 : DOMAIN new[i] = BoFields
      <4> SUFFICES ASSUME NEW i \in 1..5 PROVE DOMAIN new[i] = BoFields
        OBVIOUS
      <4>1. CASE Own(i) BY <4>1, <1>12
      <4>2. CASE ~Own(i) BY <4>2, <1>13, <1>5
      <4> QED BY <4>1, <4>2
    <3> QED BY <3>1, <1>14, <1>16 DEF BoOK
  <2>2. Ranges'
    <3>1. \A i \in 1..5 : new[i].vdma = AddrIs(i) /\ new[i].vsize = SizeIs(i)
      <4> SUFFICES ASSUME NEW i \in 1..5 PROVE new[i].vdma = AddrIs(i) /\ new[i].vsize = SizeIs(i)
        OBVIOUS
      <4>1. CASE Own(i) BY <4>1, <1>12
      <4>2. CASE ~Own(i) BY <4>2, <1>13, <1>5
      <4> QED BY <4>1, <4>2
    <3> QED BY <3>1, <1>16 DEF Ranges
  <2>3. \A i \in 1..5 : new[i].dma \in Int
    <3> SUFFICES ASSUME NEW i \in 1..5 PROVE new[i].dma \in Int
      OBVIOUS
    <3>1. CASE Own(i) BY <3>1, <1>12, <1>10
    <3>2. CASE ~Own(i)
      <4>1. i = 1 BY <3>2, <1>11
      <4>2. new[i].dma = -1 BY <3>2, <4>1, <1>2, <1>13
      <4> QED BY <4>2
    <3> QED BY <3>1, <3>2
  <2>4. \A i \in 2..5 : new[i].created /\ IsSeq(new[i].cpu) /\ Len(new[i].cpu) = SizeIs(i)
    <3>1. \A i \in 2..5 : new[i].created /\ new[i].cpu = dump.file[i] BY <1>12, <1>18
    <3>2. IsSeq(dump.file[2]) /\ Len(dump.file[2]) = 21 BY <1>3 DEF ListsAre
    <3>3. \A i \in 3..5 : dump.file[i] = M0[i] BY <1>3
    <3>4. \A i \in 3..5 : IsSeq(M0[i]) /\ Len(M0[i]) = SizeIs(i)
      <4>1. Ramp = [k \in 1..2 |-> Ramp[k]] BY DEF Ramp
      <4>2. IsSeq(Ramp) /\ Len(Ramp) = 2 BY <4>1, FunctionIs
      <4>3. IsSeq(Zeros(1)) /\ Len(Zeros(1)) = 1 /\ IsSeq(Zeros(2)) /\ Len(Zeros(2)) = 2
        BY ZerosBlank
      <4>4. M0[3] = Zeros(1) /\ M0[4] = Ramp /\ M0[5] = Zeros(2) BY DEF M0
      <4>5. SizeIs(3) = 1 /\ SizeIs(4) = 2 /\ SizeIs(5) = 2 BY DEF SizeIs
      <4>6. \A i \in 3..5 : i = 3 \/ i = 4 \/ i = 5 OBVIOUS
      <4> QED BY <4>2, <4>3, <4>4, <4>5, <4>6
    <3>5. SizeIs(2) = 21 BY DEF SizeIs
    <3> SUFFICES ASSUME NEW i \in 2..5
                 PROVE  new[i].created /\ IsSeq(new[i].cpu) /\ Len(new[i].cpu) = SizeIs(i)
      OBVIOUS
    <3>6. CASE i = 2 BY <3>1, <3>2, <3>5, <3>6
    <3>7. CASE i # 2
      <4>1. i \in 3..5 BY <3>7
      <4>2. dump.file[i] = M0[i] /\ IsSeq(M0[i]) /\ Len(M0[i]) = SizeIs(i) BY <4>1, <3>3, <3>4
      <4>3. new[i].created /\ new[i].cpu = M0[i] BY <3>1, <4>2
      <4> QED BY <4>2, <4>3
    <3> QED BY <3>6, <3>7
  <2>5. IF me.prog = "rocket" THEN ~new[1].created /\ new[1].mem = <<>>
        ELSE new[1].created /\ IsSeq(new[1].cpu) /\ Len(new[1].cpu) = 2
    <3>1. CASE me.prog = "rocket"
      <4>1. ~Own(1) BY <3>1, <1>11
      <4>2. new[1] = me.bo[1] BY <4>1, <1>13
      <4> QED BY <3>1, <4>2, <1>2, <1>5
    <3>2. CASE me.prog # "rocket"
      <4>1. Own(1) BY <3>2, <1>1, <1>11
      <4>2. new[1].created /\ new[1].cpu = dump.file[1] BY <4>1, <1>12
      <4> QED BY <1>3, <3>2, <4>2
    <3> QED BY <3>1, <3>2
  <2>6. \A i \in 1..5, j \in 2..5 : i # j =>
          \/ i = 1 /\ me.prog = "rocket"
          \/ new[i].dma + SizeIs(i) <= new[j].dma
          \/ new[j].dma + SizeIs(j) <= new[i].dma
    <3> SUFFICES ASSUME NEW i \in 1..5, NEW j \in 2..5, i # j, ~(i = 1 /\ me.prog = "rocket")
                 PROVE  \/ new[i].dma + SizeIs(i) <= new[j].dma
                        \/ new[j].dma + SizeIs(j) <= new[i].dma
      OBVIOUS
    <3>1. Own(i) /\ Own(j) /\ j \in 1..5 BY <1>1, <1>11
    <3>2. new[i].dma = dma[i] /\ new[j].dma = dma[j] BY <3>1, <1>12
    <3>3. dma[i] + SizeIs(i) <= dma[j] \/ dma[j] + SizeIs(j) <= dma[i] BY <3>1, <1>15
    <3> QED BY <3>2, <3>3
  <2> QED BY <2>1, <2>2, <2>3, <2>4, <2>5, <2>6, <1>1, <1>16 DEF VendorBo
<1>20. TasksAre' /\ Len(me'.tasks) = 0
  <2>1. IsSeq(<<>>) /\ Len(<<>>) = 0 BY DEF IsSeq
  <2>2. 0 \in 0..Length BY <1>3, LengthIs
  <2> QED BY <2>1, <2>2, <1>16, <1>17 DEF TasksAre
<1>21. TaskArray(me.ta, Length)' BY <1>3, <1>9, <1>16, <1>17 DEF TaskArray
<1>22. me'.bo[2].cpu = dump.file[2] /\ \A i \in 3..5 : me'.bo[i].cpu = M0[i]
  BY <1>3, <1>12, <1>16, <1>18
<1>23. ListsAre(me.bo[2].cpu, Len(me.tasks), OwnAt, Captured)'
  <2>1. \A t \in 1..Length : ~(t <= 0) BY <1>3, LengthIs
  <2> QED BY <2>1, <1>3, <1>17, <1>20, <1>22 DEF ListsAre
<1>24. Entries(me.bo[1].cpu)' BY <1>20 DEF Entries
<1> QED BY <1>16, <1>17, <1>19, <1>20, <1>21, <1>22, <1>23, <1>24 DEF PatchSame

PutCpu(bos, j, k, v) == [bos EXCEPT ![j].cpu[k] = v]

(* One more task and its list. *)
LEMMA PatchRuns ==
  ASSUME VendorInv, dump.done, Complete, PatchTask, me' # Exits(1)
  PROVE  PatchSame'
<1>1. me.pc = "patch" /\ me.prog \in {"rknpu", "rocket"} /\ UNCHANGED capture /\ OnTheWay
  BY Going DEF PatchTask, In, VendorInv
<1>2. PatchSame BY <1>1 DEF VendorInv, VendorRuns
<1>3. /\ DumpInv /\ plan \in Plans /\ dump.task_number = Length /\ dump.task_bo = 1
  BY FilesAre DEF DumpInv
<1>4. Length = 1 \/ Length = 2 BY <1>3, LengthIs
<1>5. PICK n \in Nat : n = Len(me.tasks) BY <1>2, SeqIs DEF PatchSame, TasksAre
<1>6. n < Length /\ n \in 0..1 /\ n + 1 \in 1..Length
  <2>1. n < Length BY <1>3, <1>5 DEF PatchTask
  <2> QED BY <2>1, <1>4
<1>7. VendorBo /\ TasksAre /\ TaskArray(me.ta, Length) /\ me.ran = 0
      /\ ListsAre(me.bo[2].cpu, n, OwnAt, Captured)
      /\ \A i \in 3..5 : me.bo[i].cpu = M0[i]
  BY <1>2, <1>5 DEF PatchSame
<1>8. BoOK /\ Ranges /\ DOMAIN me.bo = 1..5 /\ \A i \in 1..5 : DOMAIN me.bo[i] = BoFields
  BY <1>7 DEF VendorBo, BoOK
<1>9. me.ta[n + 1][1] = 9 /\ me.ta[n + 1][2] = Top - 23 + n * 9
  <2>1. me.ta[n + 1] = <<9, Top - 23 + ((n + 1) - 1) * 9>> BY <1>6, <1>7 DEF TaskArray
  <2>2. (n + 1) - 1 = n OBVIOUS
  <2> QED BY <2>1, <2>2
<1>10. which_bo(me.ta[n + 1][2]) = 2
  <2>1. Top - 23 + n * 9 \in Top - 23 .. Top - 3
    <3>1. Top \in Nat BY ReplayConstantsOK
    <3> QED BY <1>6, <3>1
  <2> QED BY <2>1, <1>8, <1>9, WhichIs
<1>11. me.ta[n + 1][2] - me.bo[2].vdma = n * 9
  <2>1. me.bo[2].vdma = Top - 23 BY <1>8 DEF Ranges, AddrIs
  <2>2. Top \in Nat BY ReplayConstantsOK
  <2> QED BY <2>1, <2>2, <1>9
<1> DEFINE at == me.bo[2].dma + n * 9
           task == [regcmd |-> at, count |-> 9]
           list == Relocated(me.bo[2].cpu, n * 9, 9)
           patched == [me.bo EXCEPT ![2].cpu = list]
           both == [patched EXCEPT ![1].cpu[n + 1] = <<9, at>>]
           new == IF me.prog = "rocket" THEN patched ELSE both
<1>12. PICK out : me' = [me EXCEPT !.tasks = Append(@, task), !.out = out, !.bo = new]
  <2> DEFINE t == Len(me.tasks) + 1
             e == me.ta[t]
             wb == which_bo(e[2])
             b == me.bo[wb]
             off == e[2] - b.vdma
             p == [me.bo EXCEPT ![wb].cpu = Relocated(@, off, e[1])]
             q == IF me.prog = "rocket" THEN p
                  ELSE [p EXCEPT ![dump.task_bo].cpu[t] = <<e[1], b.dma + off>>]
  <2>1. \E out : me' = [me EXCEPT !.tasks = Append(@, [regcmd |-> b.dma + off, count |-> e[1]]),
                                 !.out = out, !.bo = q]
    BY Zenon DEF PatchTask
  <2>2. t = n + 1 BY <1>5
  <2>3. e[1] = 9 /\ wb = 2 /\ off = n * 9 BY <2>2, <1>9, <1>10, <1>11
  <2>4. p = patched /\ b.dma + off = at BY <2>3, Zenon
  <2>5. q = new
    <3>1. q = IF me.prog = "rocket" THEN p ELSE PutCpu(p, dump.task_bo, t, <<e[1], b.dma + off>>)
      BY Zenon DEF PutCpu
    <3>2. new = IF me.prog = "rocket" THEN patched ELSE PutCpu(patched, 1, n + 1, <<9, at>>)
      BY Zenon DEF PutCpu
    <3> HIDE DEF q, new, p, patched, e, b, off, at, t
    <3> QED BY <3>1, <3>2, <2>2, <2>3, <2>4, <1>3
  <2>6. [regcmd |-> b.dma + off, count |-> e[1]] = task BY <2>3, <2>4, Zenon
  <2> HIDE DEF q, new, task, e, b, off, t
  <2> QED BY <2>1, <2>5, <2>6, Zenon
<1>13. /\ DOMAIN patched = 1..5 /\ \A i \in 1..5 : i # 2 => patched[i] = me.bo[i]
       /\ patched[2] = [me.bo[2] EXCEPT !.cpu = list]
  <2> HIDE DEF list
  <2> QED BY <1>8
<1> HIDE DEF patched
<1>14. /\ DOMAIN both = 1..5 /\ \A i \in 1..5 : i # 1 => both[i] = patched[i]
       /\ both[1] = [patched[1] EXCEPT !.cpu = [patched[1].cpu EXCEPT ![n + 1] = <<9, at>>]]
  <2> DEFINE cpu == [patched[1].cpu EXCEPT ![n + 1] = <<9, at>>]
  <2>1. both = [patched EXCEPT ![1] = [patched[1] EXCEPT !.cpu = cpu]] BY Zenon
  <2> HIDE DEF cpu, both
  <2> QED BY <2>1, <1>13 DEF cpu
<1> DEFINE array == IF me.prog = "rocket" THEN me.bo[1].cpu
                    ELSE [me.bo[1].cpu EXCEPT ![n + 1] = <<9, at>>]
<1>15. /\ DOMAIN new = 1..5 /\ \A i \in 3..5 : new[i] = me.bo[i]
       /\ new[2] = [me.bo[2] EXCEPT !.cpu = list]
       /\ new[1] = me.bo[1] \/ new[1] = [me.bo[1] EXCEPT !.cpu = array]
       /\ new[1].cpu = array
  <2> HIDE DEF both, list
  <2>1. CASE me.prog = "rocket"
    <3>1. new = patched /\ array = me.bo[1].cpu BY <2>1
    <3> HIDE DEF new, array
    <3> QED BY <3>1, <1>13
  <2>2. CASE me.prog # "rocket"
    <3>1. new = both /\ array = [me.bo[1].cpu EXCEPT ![n + 1] = <<9, at>>] BY <2>2
    <3> HIDE DEF new, array
    <3>2. patched[1] = me.bo[1] /\ DOMAIN me.bo[1] = BoFields BY <1>8, <1>13
    <3>3. new[1] = [me.bo[1] EXCEPT !.cpu = array] BY <3>1, <3>2, <1>14, Zenon
    <3>4. new[1].cpu = array BY <3>2, <3>3 DEF BoFields
    <3> QED BY <3>1, <3>3, <3>4, <1>13, <1>14
  <2> QED BY <2>1, <2>2
<1> HIDE DEF new
<1>16. \A i \in 1..5 : /\ DOMAIN new[i] = BoFields /\ new[i].dma = me.bo[i].dma
                       /\ new[i].vdma = me.bo[i].vdma /\ new[i].vsize = me.bo[i].vsize
                       /\ (new[i].created <=> me.bo[i].created) /\ new[i].mem = me.bo[i].mem
  <2> SUFFICES ASSUME NEW i \in 1..5
               PROVE  /\ DOMAIN new[i] = BoFields /\ new[i].dma = me.bo[i].dma
                      /\ new[i].vdma = me.bo[i].vdma /\ new[i].vsize = me.bo[i].vsize
                      /\ (new[i].created <=> me.bo[i].created) /\ new[i].mem = me.bo[i].mem
    OBVIOUS
  <2> HIDE DEF array, list
  <2>1. new[i] = me.bo[i] \/ \E cpu : new[i] = [me.bo[i] EXCEPT !.cpu = cpu]
    <3>1. i = 1 \/ i = 2 \/ i \in 3..5 OBVIOUS
    <3> QED BY <3>1, <1>15
  <2> QED BY <2>1, <1>8 DEF BoFields
<1>17. new[2].cpu = list BY <1>8, <1>15 DEF BoFields
<1> HIDE DEF task, list
<1>18. /\ me'.prog = me.prog /\ me'.bo = new /\ me'.ta = me.ta /\ me'.tasks = Append(me.tasks, task)
       /\ me'.ran = 0
  BY <1>1, <1>7, <1>12 DEF MeFields, OnTheWay
<1>19. Len(me'.tasks) = n + 1 /\ IsSeq(me'.tasks) /\ me'.tasks[n + 1] = task
       /\ \A t \in 1..n : me'.tasks[t] = me.tasks[t]
  <2>1. IsSeq(me.tasks) BY <1>7 DEF TasksAre
  <2> QED BY <2>1, <1>5, <1>18, AppendIs
<1>20. /\ Length' = Length /\ Captured' = Captured /\ M0' = M0 /\ plan' = plan
  BY <1>1 DEF capture, Length, Captured, M0, AddrIs
<1>21. OwnAt' = OwnAt BY <1>16, <1>18 DEF OwnAt
<1>22. ListsAre(list, n + 1, OwnAt, Captured) BY <1>3, <1>6, <1>7, RelocatedIs DEF list
<1>23. ListsAre(me.bo[2].cpu, Len(me.tasks), OwnAt, Captured)'
  BY <1>17, <1>18, <1>19, <1>20, <1>21, <1>22 DEF ListsAre
<1>24. \A t \in 1..(n + 1) : t \in 1..n \/ (t = n + 1 /\ (t - 1) * 9 = n * 9) OBVIOUS
<1>25. at = me.bo[2].dma + n * 9 /\ new[2].dma = me.bo[2].dma BY <1>16
<1> HIDE DEF at
<1>26. TasksAre'
  <2>1. \A t \in 1..n : /\ me.tasks[t].regcmd = me.bo[2].dma + (t - 1) * 9
                        /\ me.tasks[t].count = 9
    BY <1>5, <1>7 DEF TasksAre
  <2>2. task.regcmd = at /\ task.count = 9 BY DEF task
  <2>3. \A t \in 1..(n + 1) : /\ me'.tasks[t].regcmd = new[2].dma + (t - 1) * 9
                              /\ me'.tasks[t].count = 9
    BY <2>1, <2>2, <1>19, <1>24, <1>25
  <2>4. n + 1 \in 0..Length BY <1>6
  <2> QED BY <2>3, <2>4, <1>18, <1>19, <1>20 DEF TasksAre
<1>27. \A i \in 3..5 : new[i].cpu = M0[i] BY <1>7, <1>15
<1>28. ASSUME me.prog = "rknpu" PROVE Entries(me.bo[1].cpu)'
  <2>1. array = [me.bo[1].cpu EXCEPT ![n + 1] = <<9, at>>] BY <1>28
  <2>2. \A t \in 1..n : me.bo[1].cpu[t] = <<9, me.bo[2].dma + (t - 1) * 9>>
    BY <1>2, <1>5, <1>28 DEF PatchSame, Entries
  <2>3. DOMAIN me.bo[1].cpu = 1..2
    <3>1. IsSeq(me.bo[1].cpu) /\ Len(me.bo[1].cpu) = 2 BY <1>7, <1>28 DEF VendorBo
    <3> QED BY <3>1, SeqIs
  <2>4. n + 1 \in 1..2 BY <1>6
  <2> HIDE DEF array
  <2>5. array[n + 1] = <<9, at>> /\ \A t \in 1..n : array[t] = me.bo[1].cpu[t]
    BY <2>1, <2>3, <2>4
  <2>6. \A t \in 1..(n + 1) : array[t] = <<9, new[2].dma + (t - 1) * 9>>
    BY <2>2, <2>5, <1>24, <1>25
  <2> QED BY <2>6, <1>15, <1>18, <1>19 DEF Entries
<1>29. VendorBo'
  <2>1. BoOK' /\ Ranges' BY <1>8, <1>15, <1>16, <1>18 DEF BoOK, Ranges
  <2>2. \A i \in 1..5 : new[i].dma \in Int BY <1>7, <1>16 DEF VendorBo
  <2>3. \A i \in 2..5 : new[i].created /\ IsSeq(new[i].cpu) /\ Len(new[i].cpu) = SizeIs(i)
    <3> SUFFICES ASSUME NEW i \in 2..5
                 PROVE new[i].created /\ IsSeq(new[i].cpu) /\ Len(new[i].cpu) = SizeIs(i)
      OBVIOUS
    <3>1. i \in 1..5 /\ me.bo[i].created /\ IsSeq(me.bo[i].cpu) /\ Len(me.bo[i].cpu) = SizeIs(i)
      <4>1. \A j \in 2..5 : me.bo[j].created /\ IsSeq(me.bo[j].cpu) /\ Len(me.bo[j].cpu) = SizeIs(j)
        BY <1>7, Zenon DEF VendorBo
      <4>2. i \in 1..5 OBVIOUS
      <4> QED BY <4>1, <4>2, Zenon
    <3>2. new[i].created BY <3>1, <1>16
    <3>3. CASE i = 2
      <4>1. IsSeq(list) /\ Len(list) = 21 BY <1>22 DEF ListsAre
      <4>2. SizeIs(2) = 21 BY DEF SizeIs
      <4> QED BY <3>2, <3>3, <4>1, <4>2, <1>17
    <3>4. CASE i # 2
      <4>1. i \in 3..5 BY <3>4
      <4>2. new[i] = me.bo[i] BY <4>1, <1>15
      <4> QED BY <3>1, <3>2, <4>2
    <3> QED BY <3>3, <3>4
  <2>4. IF me.prog = "rocket" THEN ~new[1].created /\ new[1].mem = <<>>
        ELSE new[1].created /\ IsSeq(new[1].cpu) /\ Len(new[1].cpu) = 2
    <3>1. 1 \in 1..5 OBVIOUS
    <3>2. CASE me.prog = "rocket" BY <3>1, <3>2, <1>7, <1>16 DEF VendorBo
    <3>3. CASE me.prog # "rocket"
      <4>1. me.bo[1].created /\ IsSeq(me.bo[1].cpu) /\ Len(me.bo[1].cpu) = 2
        BY <3>3, <1>7 DEF VendorBo
      <4>2. DOMAIN me.bo[1].cpu = 1..2 BY <4>1, SeqIs
      <4>3. array = [me.bo[1].cpu EXCEPT ![n + 1] = <<9, at>>] BY <3>3
      <4> HIDE DEF array
      <4>4. array = [k \in 1..2 |-> array[k]] BY <4>2, <4>3
      <4>5. IsSeq(array) /\ Len(array) = 2 BY <4>4, FunctionIs
      <4>6. new[1].created BY <4>1, <3>1, <1>16
      <4> QED BY <3>3, <4>5, <4>6, <1>15
    <3> QED BY <3>2, <3>3
  <2>5. \A i \in 1..5, j \in 2..5 : i # j =>
          \/ i = 1 /\ me.prog = "rocket"
          \/ new[i].dma + SizeIs(i) <= new[j].dma
          \/ new[j].dma + SizeIs(j) <= new[i].dma
    <3>1. \A j \in 2..5 : j \in 1..5 OBVIOUS
    <3>2. \A i \in 1..5 : new[i].dma = me.bo[i].dma BY <1>16
    <3> QED BY <3>1, <3>2, <1>7 DEF VendorBo
  <2> QED BY <2>1, <2>2, <2>3, <2>4, <2>5, <1>1, <1>18 DEF VendorBo
<1>30. TaskArray(me.ta, Length)' BY <1>7, <1>18, <1>20 DEF TaskArray
<1> QED BY <1>18, <1>20, <1>23, <1>26, <1>27, <1>28, <1>29, <1>30 DEF PatchSame

(* The device's view. *)
LEMMA DevicesAre ==
  ASSUME NEW bo, DOMAIN bo = 1..5,
         NEW view, view = [i \in DOMAIN bo |-> [dma |-> bo[i].dma, mem |-> bo[i].mem]]
  PROVE  /\ DOMAIN view = 1..5
         /\ \A i \in 1..5 : /\ DOMAIN view[i] = BufferFields
                            /\ view[i].dma = bo[i].dma /\ view[i].mem = bo[i].mem
<1>1. view = [i \in 1..5 |-> [dma |-> bo[i].dma, mem |-> bo[i].mem]] OBVIOUS
<1>2. \A i \in 1..5 : view[i] = [dma |-> bo[i].dma, mem |-> bo[i].mem] BY <1>1
<1> QED BY <1>1, <1>2 DEF BufferFields

(* The buffers are flushed: the device has the lists and the data. *)
LEMMA FlushRuns ==
  ASSUME VendorInv, dump.done, Complete, Flush
  PROVE  RunSame' /\ me'.ran = 0
<1>1. me.pc = "patch" /\ me.prog \in {"rknpu", "rocket"} /\ UNCHANGED capture /\ OnTheWay
  BY Going DEF Flush, In, VendorInv
<1>2. PatchSame BY <1>1 DEF VendorInv, VendorRuns
<1>3. DumpInv /\ plan \in Plans /\ dump.task_number = Length BY FilesAre DEF DumpInv
<1>4. VendorBo /\ TasksAre /\ me.ran = 0
      /\ ListsAre(me.bo[2].cpu, Len(me.tasks), OwnAt, Captured)
      /\ \A i \in 3..5 : me.bo[i].cpu = M0[i]
  BY <1>2 DEF PatchSame
<1>5. DOMAIN me.bo = 1..5 /\ \A i \in 1..5 : DOMAIN me.bo[i] = BoFields
  BY <1>4 DEF VendorBo, BoOK
<1> DEFINE f == FlushedAll(me.bo)
<1>6. f = [i \in 1..5 |-> IF me.bo[i].created THEN [me.bo[i] EXCEPT !.mem = me.bo[i].cpu]
                          ELSE me.bo[i]]
  BY <1>5 DEF FlushedAll
<1> HIDE DEF f
<1>7. \A i \in 1..5 : /\ DOMAIN f[i] = BoFields /\ f[i].dma = me.bo[i].dma
                      /\ f[i].mem = IF me.bo[i].created THEN me.bo[i].cpu ELSE me.bo[i].mem
  <2> SUFFICES ASSUME NEW i \in 1..5
               PROVE  /\ DOMAIN f[i] = BoFields /\ f[i].dma = me.bo[i].dma
                      /\ f[i].mem = IF me.bo[i].created THEN me.bo[i].cpu ELSE me.bo[i].mem
    OBVIOUS
  <2>1. CASE me.bo[i].created
    <3>1. f[i] = [me.bo[i] EXCEPT !.mem = me.bo[i].cpu] BY <1>6, <2>1
    <3> QED BY <2>1, <3>1, <1>5 DEF BoFields
  <2>2. CASE ~me.bo[i].created
    <3>1. f[i] = me.bo[i] BY <1>6, <2>2
    <3> QED BY <2>2, <3>1, <1>5
  <2> QED BY <2>1, <2>2
<1>8. PICK out : me' = [Goes("submit") EXCEPT !.bo = f, !.out = out]
  BY <1>1 DEF Flush, f, Goes, MeFields, OnTheWay
<1>9. /\ me'.prog = me.prog /\ me'.bo = f /\ me'.tasks = me.tasks /\ me'.ran = 0
      /\ me'.pc = "submit"
  BY <1>1, <1>4, <1>8 DEF Goes, MeFields, OnTheWay
<1>10. /\ Length' = Length /\ Captured' = Captured /\ M0' = M0 /\ plan' = plan
  BY <1>1 DEF capture, Length, Captured, M0, AddrIs
<1>11. \A i \in 2..5 : i \in 1..5 /\ f[i].mem = me.bo[i].cpu
  <2>1. \A i \in 2..5 : me.bo[i].created BY <1>4, Zenon DEF VendorBo
  <2>2. \A i \in 2..5 : i \in 1..5 OBVIOUS
  <2> QED BY <2>1, <2>2, <1>7
<1> DEFINE view == Devices'
<1>12. /\ DOMAIN view = 1..5
       /\ \A i \in 1..5 : /\ DOMAIN view[i] = BufferFields
                          /\ view[i].dma = me.bo[i].dma /\ view[i].mem = f[i].mem
  <2>1. DOMAIN f = 1..5 BY <1>6
  <2>2. view = [i \in DOMAIN f |-> [dma |-> f[i].dma, mem |-> f[i].mem]] BY <1>9 DEF Devices
  <2> HIDE DEF view
  <2>3. \A i \in 1..5 : /\ DOMAIN view[i] = BufferFields
                        /\ view[i].dma = f[i].dma /\ view[i].mem = f[i].mem
    BY <2>1, <2>2, DevicesAre
  <2> QED BY <2>1, <2>2, <2>3, <1>7
<1> HIDE DEF view
<1>13. \A i \in 2..5 : IsSeq(view[i].mem) /\ Len(view[i].mem) = SizeIs(i)
  <2>1. \A i \in 2..5 : IsSeq(me.bo[i].cpu) /\ Len(me.bo[i].cpu) = SizeIs(i)
    BY <1>4, Zenon DEF VendorBo
  <2> QED BY <2>1, <1>11, <1>12
<1>14. IF me.prog = "rocket" THEN Len(view[1].mem) = 0
       ELSE Len(view[1].mem) = 2 /\ view[1].mem = me.bo[1].cpu
  <2>1. 1 \in 1..5 /\ view[1].mem = f[1].mem BY <1>12
  <2>2. CASE me.prog = "rocket"
    <3>1. ~me.bo[1].created /\ me.bo[1].mem = <<>> BY <1>4, <2>2 DEF VendorBo
    <3>2. view[1].mem = <<>> BY <3>1, <2>1, <1>7
    <3> QED BY <2>2, <3>2
  <2>3. CASE me.prog # "rocket"
    <3>1. me.bo[1].created /\ Len(me.bo[1].cpu) = 2 BY <1>4, <2>3 DEF VendorBo
    <3>2. view[1].mem = me.bo[1].cpu BY <3>1, <2>1, <1>7
    <3> QED BY <2>3, <3>1, <3>2
  <2> QED BY <2>2, <2>3
<1>15. Placed(view)
  <2>1. \A i \in 1..5 : me.bo[i].dma \in Int BY <1>4, Zenon DEF VendorBo
  <2>2. \A i \in 2..5 : SizeIs(i) \in Nat BY DEF SizeIs
  <2>3. SizeIs(1) = 2 BY DEF SizeIs
  <2>4. \A i \in 1..5 : Len(view[i].mem) = SizeIs(i) \/ (i = 1 /\ me.prog = "rocket" /\ Len(view[i].mem) = 0)
    <3> SUFFICES ASSUME NEW i \in 1..5
                 PROVE Len(view[i].mem) = SizeIs(i) \/ (i = 1 /\ me.prog = "rocket" /\ Len(view[i].mem) = 0)
      OBVIOUS
    <3>1. CASE i = 1 BY <3>1, <2>3, <1>14
    <3>2. CASE i # 1
      <4>1. i \in 2..5 BY <3>2
      <4> QED BY <4>1, <1>13
    <3> QED BY <3>1, <3>2
  <2>5. \A i \in 1..5 : Len(view[i].mem) \in Nat
    <3>1. \A i \in 1..5 : SizeIs(i) \in Nat BY DEF SizeIs
    <3> QED BY <3>1, <2>4
  <2>6. \A i \in 1..5, j \in 2..5 : i # j =>
            \/ Len(view[i].mem) = 0
            \/ view[i].dma + Len(view[i].mem) <= view[j].dma
            \/ view[j].dma + Len(view[j].mem) <= view[i].dma
    <3> SUFFICES ASSUME NEW i \in 1..5, NEW j \in 2..5, i # j
                 PROVE  \/ Len(view[i].mem) = 0
                        \/ view[i].dma + Len(view[i].mem) <= view[j].dma
                        \/ view[j].dma + Len(view[j].mem) <= view[i].dma
      OBVIOUS
    <3>1. \/ i = 1 /\ me.prog = "rocket"
          \/ me.bo[i].dma + SizeIs(i) <= me.bo[j].dma
          \/ me.bo[j].dma + SizeIs(j) <= me.bo[i].dma
      BY <1>4, Zenon DEF VendorBo
    <3>2. j \in 1..5 /\ Len(view[j].mem) = SizeIs(j) BY <1>13
    <3>3. view[i].dma = me.bo[i].dma /\ view[j].dma = me.bo[j].dma BY <3>2, <1>12
    <3>4. CASE i = 1 /\ me.prog = "rocket" BY <3>4, <1>14
    <3>5. CASE ~(i = 1 /\ me.prog = "rocket")
      <4>1. Len(view[i].mem) = SizeIs(i) BY <3>5, <2>4
      <4> QED BY <3>1, <3>2, <3>3, <3>5, <4>1
    <3> QED BY <3>4, <3>5
  <2>7. \A i \in 1..5 : DOMAIN view[i] = BufferFields /\ view[i].dma \in Int BY <1>12, <2>1
  <2> QED BY <1>12, <1>13, <2>5, <2>6, <2>7, PlacedIs
<1>16. Addresses(view) = OwnAt BY <1>12 DEF Addresses, OwnAt
<1>17. Ready(view, M0, Len(me.tasks))
  <2>1. view[2].mem = me.bo[2].cpu
    <3>1. 2 \in 2..5 /\ 2 \in 1..5 OBVIOUS
    <3> QED BY <3>1, <1>11, <1>12
  <2>2. \A i \in 3..5 : view[i].mem = M0[i]
    <3>1. \A i \in 3..5 : i \in 2..5 OBVIOUS
    <3> QED BY <3>1, <1>4, <1>11, <1>12
  <2>3. PICK n \in Nat : n = Len(me.tasks) /\ n \in 0..Length
    BY <1>4, SeqIs DEF TasksAre
  <2>4. \A t \in 1..n : IsList(me.bo[2].cpu, (t - 1) * 9, OwnAt, plan[t])
    <3>1. \A t \in 1..n : t \in 1..Length /\ t <= n
      <4>1. Length = 1 \/ Length = 2 BY <1>3, LengthIs
      <4> QED BY <2>3, <4>1
    <3>2. \A t \in 1..Length : IsList(me.bo[2].cpu, (t - 1) * 9, IF t <= n THEN OwnAt ELSE Captured, plan[t])
      BY <1>4, <2>3 DEF ListsAre
    <3> QED BY <3>1, <3>2
  <2>5. DataAre(me.bo[2].cpu) BY <1>4 DEF ListsAre
  <2> QED BY <1>15, <1>16, <2>1, <2>2, <2>3, <2>4, <2>5 DEF Ready
<1>18. BoOK' BY <1>6, <1>7, <1>9 DEF BoOK
<1>19. f[2].dma = me.bo[2].dma
  <2>1. 2 \in 1..5 OBVIOUS
  <2> QED BY <2>1, <1>7
<1>20. TasksAre' BY <1>4, <1>9, <1>10, <1>19 DEF TasksAre
<1>21. ASSUME me.prog = "rknpu" PROVE Len(me.tasks) = Length /\ Entries(f[1].mem)
  <2>1. Len(me.tasks) = Length BY <1>3, <1>21 DEF Flush
  <2>2. Entries(me.bo[1].cpu) BY <1>2, <1>21 DEF PatchSame
  <2>3. f[1].mem = me.bo[1].cpu
    <3>1. 1 \in 1..5 OBVIOUS
    <3> QED BY <3>1, <1>12, <1>14, <1>21
  <2> QED BY <2>1, <2>2, <2>3
<1>22. Ready(Devices, Results(me.ran), Len(me.tasks))'
  <2>1. Results(me.ran)' = M0 BY <1>9, <1>10 DEF Results
  <2> QED BY <2>1, <1>9, <1>10, <1>17 DEF Ready, view
<1>23. me.prog = "rknpu" => Entries(me.bo[1].mem)' BY <1>9, <1>19, <1>21 DEF Entries
<1>24. 0 \in 0..Len(me.tasks)
  <2>1. IsSeq(me.tasks) BY <1>4 DEF TasksAre
  <2> QED BY <2>1, SeqIs
<1> QED BY <1>9, <1>10, <1>18, <1>20, <1>21, <1>22, <1>23, <1>24 DEF RunSame

(* The program's buffers with the memory the device left. *)
LEMMA AfterIs ==
  ASSUME BoOK, NEW bos, Addresses(bos) = OwnAt
  PROVE  /\ DOMAIN After(bos) = 1..5
         /\ \A i \in 1..5 : /\ DOMAIN After(bos)[i] = BoFields
                            /\ After(bos)[i].dma = me.bo[i].dma /\ After(bos)[i].dma = bos[i].dma
                            /\ After(bos)[i].mem = bos[i].mem
<1>1. DOMAIN me.bo = 1..5 /\ \A i \in 1..5 : DOMAIN me.bo[i] = BoFields BY DEF BoOK
<1> DEFINE f == After(bos)
<1>2. f = [i \in 1..5 |-> [me.bo[i] EXCEPT !.mem = bos[i].mem]] BY <1>1 DEF After
<1> HIDE DEF f
<1>3. \A i \in 1..5 : /\ DOMAIN f[i] = BoFields /\ f[i].dma = me.bo[i].dma
                      /\ f[i].mem = bos[i].mem
  <2> SUFFICES ASSUME NEW i \in 1..5
               PROVE  /\ DOMAIN f[i] = BoFields /\ f[i].dma = me.bo[i].dma
                      /\ f[i].mem = bos[i].mem
    OBVIOUS
  <2>1. f[i] = [me.bo[i] EXCEPT !.mem = bos[i].mem] BY <1>2
  <2> QED BY <2>1, <1>1 DEF BoFields
<1>4. \A i \in 1..5 : me.bo[i].dma = bos[i].dma
  <2>1. \A i \in 1..5 : Addresses(bos)[i] = bos[i].dma /\ OwnAt[i] = me.bo[i].dma
    BY DEF Addresses, OwnAt
  <2> QED BY <2>1
<1>5. DOMAIN f = 1..5 BY <1>2
<1> QED BY <1>3, <1>4, <1>5 DEF f

(* The device's view of the program's buffers. *)
LEMMA ViewIs ==
  ASSUME BoOK
  PROVE  /\ DOMAIN Devices = 1..5
         /\ \A i \in 1..5 : /\ DOMAIN Devices[i] = BufferFields
                            /\ Devices[i].dma = me.bo[i].dma /\ Devices[i].mem = me.bo[i].mem
         /\ Addresses(Devices) = OwnAt
<1>1. DOMAIN me.bo = 1..5 BY DEF BoOK
<1>2. /\ DOMAIN Devices = 1..5
      /\ \A i \in 1..5 : /\ DOMAIN Devices[i] = BufferFields
                         /\ Devices[i].dma = me.bo[i].dma /\ Devices[i].mem = me.bo[i].mem
  <2> DEFINE view == Devices
  <2>1. view = [i \in DOMAIN me.bo |-> [dma |-> me.bo[i].dma, mem |-> me.bo[i].mem]]
    BY DEF Devices
  <2> HIDE DEF view
  <2>2. /\ DOMAIN view = 1..5
        /\ \A i \in 1..5 : /\ DOMAIN view[i] = BufferFields
                           /\ view[i].dma = me.bo[i].dma /\ view[i].mem = me.bo[i].mem
    BY <1>1, <2>1, DevicesAre
  <2> QED BY <2>2 DEF view
<1>3. Addresses(Devices) = OwnAt BY <1>2 DEF Addresses, OwnAt
<1> QED BY <1>2, <1>3

(* The same of the next state. *)
LEMMA NextView ==
  ASSUME BoOK'
  PROVE  /\ DOMAIN Devices' = 1..5
         /\ \A i \in 1..5 : /\ DOMAIN Devices'[i] = BufferFields
                            /\ Devices'[i].dma = me'.bo[i].dma /\ Devices'[i].mem = me'.bo[i].mem
<1> DEFINE view == Devices'
           bo == me'.bo
<1>1. DOMAIN bo = 1..5 BY DEF BoOK
<1>2. view = [i \in DOMAIN bo |-> [dma |-> bo[i].dma, mem |-> bo[i].mem]]
  BY DEF Devices
<1> HIDE DEF view, bo
<1>3. /\ DOMAIN view = 1..5
      /\ \A i \in 1..5 : /\ DOMAIN view[i] = BufferFields
                         /\ view[i].dma = bo[i].dma /\ view[i].mem = bo[i].mem
  BY <1>1, <1>2, DevicesAre
<1> QED BY <1>3 DEF view, bo

(* The state after the device has worked on the buffers. *)
LEMMA WorkedIs ==
  ASSUME BoOK, NEW bos, NEW M, NEW n, Ready(bos, M, n), Addresses(bos) = OwnAt,
         me'.bo = After(bos)
  PROVE  BoOK' /\ Ready(Devices', M, n) /\ \A i \in 1..5 : me'.bo[i].dma = me.bo[i].dma
<1> DEFINE f == After(bos)
<1>1. /\ DOMAIN f = 1..5
      /\ \A i \in 1..5 : /\ DOMAIN f[i] = BoFields /\ f[i].dma = me.bo[i].dma
                         /\ f[i].dma = bos[i].dma /\ f[i].mem = bos[i].mem
  BY AfterIs
<1>2. me'.bo = f OBVIOUS
<1> HIDE DEF f
<1>3. BoOK' BY <1>1, <1>2 DEF BoOK
<1>4. /\ DOMAIN Devices' = 1..5
      /\ \A i \in 1..5 : /\ DOMAIN Devices'[i] = BufferFields
                         /\ Devices'[i].dma = me'.bo[i].dma /\ Devices'[i].mem = me'.bo[i].mem
  BY <1>3, NextView
<1> DEFINE view == Devices'
<1>5. /\ DOMAIN view = 1..5
      /\ \A i \in 1..5 : /\ DOMAIN view[i] = BufferFields
                         /\ view[i].dma = bos[i].dma /\ view[i].mem = bos[i].mem
  BY <1>1, <1>2, <1>4
<1> HIDE DEF view
<1>6. Ready(view, M, n) BY <1>5, ReadySame
<1> QED BY <1>1, <1>2, <1>3, <1>6 DEF view

(* A step that changes what the CPU sees at most. *)
LEMMA StillSame ==
  ASSUME RunSame, UNCHANGED capture, BoOK',
         \A i \in 1..5 : me'.bo[i].dma = me.bo[i].dma /\ me'.bo[i].mem = me.bo[i].mem,
         me'.tasks = me.tasks, me'.ran = me.ran, me'.prog = me.prog, me'.pc # "submit",
         me.prog = "rknpu" => me.pc # "submit"
  PROVE  RunSame'
<1>1. /\ Length' = Length /\ M0' = M0 /\ plan' = plan
  BY DEF capture, Length, M0
<1>2. BoOK /\ Ready(Devices, Results(me.ran), Len(me.tasks)) BY DEF RunSame
<1>3. /\ DOMAIN Devices' = 1..5
      /\ \A i \in 1..5 : /\ DOMAIN Devices'[i] = BufferFields
                         /\ Devices'[i].dma = me'.bo[i].dma /\ Devices'[i].mem = me'.bo[i].mem
  BY NextView
<1>4. \A i \in 1..5 : Devices[i].dma = me.bo[i].dma /\ Devices[i].mem = me.bo[i].mem
  BY <1>2, ViewIs
<1> DEFINE view == Devices'
<1>5. /\ DOMAIN view = 1..5
      /\ \A i \in 1..5 : /\ DOMAIN view[i] = BufferFields
                         /\ view[i].dma = Devices[i].dma /\ view[i].mem = Devices[i].mem
  BY <1>3, <1>4
<1> HIDE DEF view
<1>6. Ready(view, Results(me.ran), Len(me.tasks)) BY <1>2, <1>5, ReadySame
<1>7. Ready(Devices, Results(me.ran), Len(me.tasks))'
  <2>1. Results(me.ran)' = Results(me.ran) BY <1>1 DEF Results
  <2> QED BY <1>1, <1>6, <2>1 DEF Ready, view
<1>8. TasksAre'
  <2>1. me'.bo[2].dma = me.bo[2].dma
    <3>1. 2 \in 1..5 OBVIOUS
    <3> QED BY <3>1
  <2> QED BY <1>1, <2>1 DEF TasksAre, RunSame
<1> QED BY <1>1, <1>7, <1>8 DEF RunSame

(* The first buffer, before it is made. *)
LEMMA MetaRuns ==
  ASSUME VendorInv, Meta
  PROVE  me'.ran = 0 /\ (me'.pc = "create" => me'.bo[1].dma = -1 /\ me'.bo[1].mem = <<>>)
<1>1. me.pc = "meta" /\ me.ran = 0 /\ OnTheWay /\ dump.done
  BY Going DEF Meta, In, VendorInv, VendorRuns
<1>2. DumpInv BY <1>1 DEF VendorInv, ReplayInv, CaptureInv
<1>3. Min({Len(dump.bo), MaxBo}) = 5
  <2>1. Len(dump.bo) = 5 BY <1>2 DEF DumpInv
  <2>2. \A m \in Nat : m >= 5 => Min({5, m}) = 5 BY DEF Min
  <2> QED BY <2>1, <2>2, ReplayConstantsOK
<1>4. PICK fresh : /\ me' = [Goes("create") EXCEPT !.bo = fresh] \/ me' = Exits(1)
                   /\ fresh = [i \in 1..5 |-> [vdma |-> dump.bo[i].vdma, vsize |-> dump.bo[i].vsize,
                                     created |-> FALSE, dma |-> -1,
                                     cpu |-> <<>>, mem |-> <<>>]]
  BY <1>3 DEF Meta
<1>5. fresh[1].dma = -1 /\ fresh[1].mem = <<>> BY <1>4
<1>6. CASE me' = Exits(1)
  BY <1>1, <1>6 DEF Exits, MeFields, OnTheWay
<1>7. CASE me' = [Goes("create") EXCEPT !.bo = fresh]
  <2> HIDE <1>4
  <2>1. me'.ran = me.ran /\ me'.bo = fresh BY <1>1, <1>7 DEF Goes, MeFields, OnTheWay
  <2> QED BY <2>1, <1>1, <1>5
<1> QED BY <1>4, <1>6, <1>7

(* rocket is given the tasks. *)
LEMMA GiveRuns ==
  ASSUME VendorInv, dump.done, Complete, SubmitRocket, me' # Exits(1)
  PROVE  RunSame'
<1>1. me.pc = "submit" /\ me.prog = "rocket" /\ UNCHANGED capture /\ OnTheWay
  BY Going DEF SubmitRocket, In, VendorInv
<1>2. RunSame BY <1>1 DEF VendorInv, VendorRuns
<1>3. PICK ins, outs, jobs : me' = [Goes("wait") EXCEPT !.ins = ins, !.outs = outs, !.jobs = jobs]
  BY DEF SubmitRocket
<1>4. /\ me'.bo = me.bo /\ me'.tasks = me.tasks /\ me'.ran = me.ran /\ me'.prog = me.prog
      /\ me'.pc = "wait"
  BY <1>1, <1>3 DEF Goes, MeFields, OnTheWay
<1>5. BoOK' BY <1>2, <1>4 DEF RunSame, BoOK
<1> QED BY <1>1, <1>2, <1>4, <1>5, StillSame

(* The vendor's driver takes the tasks from the task array and runs them all. *)
LEMMA DriverRuns ==
  ASSUME VendorInv, dump.done, Complete, SubmitRknpu, me' # Exits(1)
  PROVE  RunSame'
<1>1. me.pc = "submit" /\ me.prog = "rknpu" /\ UNCHANGED capture /\ OnTheWay
  BY Going DEF SubmitRknpu, In, VendorInv
<1>2. RunSame /\ me.ran = 0 BY <1>1 DEF VendorInv, VendorRuns
<1>3. DumpInv /\ plan \in Plans /\ dump.task_number = Length /\ dump.task_bo = 1
  BY FilesAre DEF DumpInv
<1>4. BoOK /\ TasksAre /\ Len(me.tasks) = Length /\ Entries(me.bo[1].mem)
      /\ Ready(Devices, M0, Length)
  <2>1. Results(0) = M0 BY DEF Results
  <2> QED BY <2>1, <1>1, <1>2 DEF RunSame
<1> DEFINE tasks == [t \in 1..Length |-> [regcmd |-> me.bo[1].mem[t][2], count |-> me.bo[1].mem[t][1]]]
           done == ExecuteAll(Devices, tasks)
<1>5. me' = [Goes("wait") EXCEPT !.bo = After(done), !.ran = Length]
  BY <1>3 DEF SubmitRknpu
<1>6. PICK m \in Nat : m = Length /\ m # 0 BY <1>3, LengthIs
<1>7. Len(tasks) = Length
  <2>1. tasks = [t \in 1..m |-> tasks[t]] BY <1>6
  <2> HIDE DEF tasks
  <2> QED BY <1>6, <2>1, FunctionIs
<1>8. \A t \in 1..Length : /\ tasks[t].regcmd = Devices[2].dma + (t - 1) * 9
                           /\ tasks[t].count = 9
  <2>1. Devices[2].dma = me.bo[2].dma
    <3>1. 2 \in 1..5 OBVIOUS
    <3> QED BY <3>1, <1>4, ViewIs
  <2>2. \A t \in 1..Length : me.bo[1].mem[t] = <<9, me.bo[2].dma + (t - 1) * 9>>
    BY <1>4 DEF Entries
  <2> QED BY <2>1, <2>2
<1> HIDE DEF tasks
<1>9. Ready(done, Results(Length), Length) /\ Addresses(done) = OwnAt
  <2>1. Addresses(Devices) = OwnAt BY <1>4, ViewIs
  <2> QED BY <2>1, <1>3, <1>4, <1>7, <1>8, RunAll
<1> HIDE DEF done
<1>10. /\ me'.bo = After(done) /\ me'.tasks = me.tasks /\ me'.ran = Length /\ me'.prog = me.prog
       /\ me'.pc = "wait"
  BY <1>1, <1>5 DEF Goes, MeFields, OnTheWay
<1>11. BoOK' /\ Ready(Devices', Results(Length), Length)
       /\ \A i \in 1..5 : me'.bo[i].dma = me.bo[i].dma
  BY <1>4, <1>9, <1>10, WorkedIs
<1>12. /\ Length' = Length /\ M0' = M0 /\ plan' = plan
  BY <1>1 DEF capture, Length, M0
<1>13. Ready(Devices, Results(me.ran), Len(me.tasks))'
  <2>1. Results(me.ran)' = Results(Length) BY <1>10, <1>12 DEF Results
  <2> QED BY <2>1, <1>4, <1>10, <1>11, <1>12 DEF Ready
<1>14. TasksAre'
  <2>1. me'.bo[2].dma = me.bo[2].dma
    <3>1. 2 \in 1..5 OBVIOUS
    <3> QED BY <3>1, <1>11
  <2> QED BY <1>4, <1>10, <1>12, <2>1 DEF TasksAre
<1>15. me'.ran \in 0..Len(me'.tasks) BY <1>4, <1>6, <1>10
<1> QED BY <1>4, <1>10, <1>11, <1>12, <1>13, <1>14, <1>15 DEF RunSame

(* rocket runs the next task. *)
LEMMA TaskRuns ==
  ASSUME VendorInv, dump.done, Complete, NpuRuns
  PROVE  RunSame'
<1>1. me.pc = "wait" /\ me.prog = "rocket" /\ UNCHANGED capture /\ OnTheWay
  BY Going DEF NpuRuns, In, VendorInv, OnTheWay
<1>2. RunSame BY <1>1 DEF VendorInv, VendorRuns
<1>3. plan \in Plans BY FilesAre
<1>4. PICK n \in Nat : n = Len(me.tasks) BY <1>2, SeqIs DEF RunSame, TasksAre
<1>5. PICK k \in Nat : k = me.ran BY <1>1 DEF OnTheWay
<1>6. k < n /\ n \in 0..Length /\ (Length = 1 \/ Length = 2)
  BY <1>2, <1>3, <1>4, <1>5, LengthIs DEF NpuRuns, RunSame, TasksAre
<1>7. /\ BoOK /\ TasksAre /\ Ready(Devices, Results(k), n)
      /\ me.tasks[k + 1].regcmd = me.bo[2].dma + k * 9 /\ me.tasks[k + 1].count = 9
  <2>1. \A t \in 1..n : /\ me.tasks[t].regcmd = me.bo[2].dma + (t - 1) * 9
                        /\ me.tasks[t].count = 9
    BY <1>2, <1>4 DEF RunSame, TasksAre
  <2>2. k + 1 \in 1..n /\ (k + 1) - 1 = k BY <1>6
  <2>3. /\ me.tasks[k + 1].regcmd = me.bo[2].dma + ((k + 1) - 1) * 9
        /\ me.tasks[k + 1].count = 9
    BY <2>1, <2>2
  <2> QED BY <2>2, <2>3, <1>2, <1>4, <1>5 DEF RunSame
<1> DEFINE task == me.tasks[k + 1]
           done == Execute(Devices, task)
<1>8. me' = [me EXCEPT !.ran = k + 1, !.bo = After(done)] BY <1>5 DEF NpuRuns
<1>9. Ready(done, Results(k + 1), n) /\ Addresses(done) = OwnAt
  <2>1. Addresses(Devices) = OwnAt /\ Devices[2].dma = me.bo[2].dma
    <3>1. 2 \in 1..5 OBVIOUS
    <3> QED BY <3>1, <1>7, ViewIs
  <2>2. k + 1 \in 1..n /\ (k + 1) - 1 = k BY <1>6
  <2>3. task.regcmd = Devices[2].dma + ((k + 1) - 1) * 9 /\ task.count = 9 BY <2>1, <2>2, <1>7
  <2> HIDE DEF task
  <2>4. Ready(done, Stepped(Results(k), plan[k + 1]), n) /\ Addresses(done) = Addresses(Devices)
    BY <1>3, <1>6, <1>7, <2>2, <2>3, RunOne
  <2>5. Stepped(Results(k), plan[k + 1]) = Results(k + 1)
    <3>1. k = 0 \/ k = 1 BY <1>6
    <3>2. CASE k = 0 BY <3>2 DEF Results
    <3>3. CASE k = 1 BY <3>3 DEF Results
    <3> QED BY <3>1, <3>2, <3>3
  <2> QED BY <2>1, <2>4, <2>5
<1> HIDE DEF done, task
<1>10. /\ me'.bo = After(done) /\ me'.tasks = me.tasks /\ me'.ran = k + 1 /\ me'.prog = me.prog
       /\ me'.pc = "wait"
  BY <1>1, <1>8 DEF MeFields, OnTheWay
<1>11. BoOK' /\ Ready(Devices', Results(k + 1), n)
       /\ \A i \in 1..5 : me'.bo[i].dma = me.bo[i].dma
  BY <1>7, <1>9, <1>10, WorkedIs
<1>12. /\ Length' = Length /\ M0' = M0 /\ plan' = plan
  BY <1>1 DEF capture, Length, M0
<1>13. Ready(Devices, Results(me.ran), Len(me.tasks))'
  <2>1. Results(me.ran)' = Results(k + 1) BY <1>10, <1>12 DEF Results
  <2> QED BY <2>1, <1>4, <1>10, <1>11, <1>12 DEF Ready
<1>14. TasksAre'
  <2>1. me'.bo[2].dma = me.bo[2].dma
    <3>1. 2 \in 1..5 OBVIOUS
    <3> QED BY <3>1, <1>11
  <2> QED BY <1>7, <1>10, <1>12, <2>1 DEF TasksAre
<1>15. me'.ran \in 0..Len(me'.tasks) BY <1>4, <1>6, <1>10
<1> QED BY <1>1, <1>10, <1>11, <1>12, <1>13, <1>14, <1>15 DEF RunSame

(* What the CPU sees of one buffer changes nothing for the device. *)
LEMMA SeenIs ==
  ASSUME BoOK, NEW o, NEW v, NEW new, new = [me.bo EXCEPT ![o] = [me.bo[o] EXCEPT !.cpu = v]]
  PROVE  /\ DOMAIN new = 1..5
         /\ \A i \in 1..5 : /\ DOMAIN new[i] = BoFields
                            /\ new[i].dma = me.bo[i].dma /\ new[i].mem = me.bo[i].mem
<1>1. DOMAIN me.bo = 1..5 /\ \A i \in 1..5 : DOMAIN me.bo[i] = BoFields BY DEF BoOK
<1> SUFFICES ASSUME NEW i \in 1..5
             PROVE  /\ DOMAIN new[i] = BoFields
                    /\ new[i].dma = me.bo[i].dma /\ new[i].mem = me.bo[i].mem
  BY <1>1
<1>2. new[i] = me.bo[i] \/ new[i] = [me.bo[i] EXCEPT !.cpu = v] BY <1>1
<1> QED BY <1>1, <1>2 DEF BoFields

(* Looking at the output. *)
LEMMA LookRuns ==
  ASSUME VendorInv, dump.done, Complete, Poll \/ SyncBack
  PROVE  RunSame'
<1>1. me.pc = "wait" /\ UNCHANGED capture /\ OnTheWay
  BY Going DEF Poll, SyncBack, In, VendorInv
<1>2. RunSame BY <1>1 DEF VendorInv, VendorRuns
<1> DEFINE o == me.out
           new == [me.bo EXCEPT ![o] = [me.bo[o] EXCEPT !.cpu = me.bo[o].mem]]
<1>3. PICK tries : \/ me' = [me EXCEPT !.bo = new, !.tries = tries]
                   \/ me' = [[me EXCEPT !.bo = new, !.tries = tries] EXCEPT !.pc = "report"]
                   \/ me' = [Goes("report") EXCEPT !.bo = new]
  <2>1. CASE Poll
    <3>1. [me EXCEPT !.bo[me.out].cpu = me.bo[me.out].mem, !.tries = @ + 1]
            = [me EXCEPT !.bo = new, !.tries = me.tries + 1]
      BY <1>1 DEF OnTheWay, MeFields
    <3> DEFINE seen == [me EXCEPT !.bo = new, !.tries = me.tries + 1]
    <3>2. me' = [seen EXCEPT !.pc = "report"] \/ me' = seen
      BY <2>1, <3>1 DEF Poll
    <3> QED BY <3>2
  <2>2. CASE SyncBack
    <3>1. [Goes("report") EXCEPT !.bo[me.out].cpu = me.bo[me.out].mem]
            = [Goes("report") EXCEPT !.bo = new]
      BY <1>1 DEF OnTheWay, MeFields, Goes
    <3> QED BY <2>2, <3>1 DEF SyncBack
  <2> QED BY <2>1, <2>2
<1>4. /\ DOMAIN new = 1..5
      /\ \A i \in 1..5 : /\ DOMAIN new[i] = BoFields
                         /\ new[i].dma = me.bo[i].dma /\ new[i].mem = me.bo[i].mem
  <2>1. BoOK BY <1>2 DEF RunSame
  <2> HIDE DEF o
  <2>2. new = [me.bo EXCEPT ![o] = [me.bo[o] EXCEPT !.cpu = me.bo[o].mem]] OBVIOUS
  <2> HIDE DEF new
  <2> QED BY <2>1, <2>2, SeenIs
<1> HIDE DEF new
<1>5. /\ me'.bo = new /\ me'.tasks = me.tasks /\ me'.ran = me.ran /\ me'.prog = me.prog
      /\ me'.pc \in {"wait", "report"}
  BY <1>1, <1>3 DEF Goes, MeFields, OnTheWay
<1>6. BoOK' BY <1>4, <1>5 DEF BoOK
<1>7. \A i \in 1..5 : me'.bo[i].dma = me.bo[i].dma /\ me'.bo[i].mem = me.bo[i].mem
  BY <1>4, <1>5
<1> QED BY <1>1, <1>2, <1>5, <1>6, <1>7, StillSame

(* Nothing is captured twice, and a program leaves the capture alone. *)
LEMMA VendorRests ==
  ASSUME VendorSame, UNCHANGED capture
  PROVE  VendorSame'
<1>1. /\ Length' = Length /\ Captured' = Captured /\ M0' = M0 /\ plan' = plan
      /\ buffers' = buffers /\ dump' = dump /\ filled' = filled
  BY DEF capture, Length, Captured, M0, AddrIs
<1>2. FilesInv => FilesInv' BY <1>1 DEF FilesInv, ListsAre
<1>3. Ready(buffers, Results(Length), Length) => Ready(buffers, Results(Length), Length)'
  <2>1. Results(Length)' = Results(Length) BY <1>1 DEF Results
  <2> QED BY <1>1, <2>1 DEF Ready
<1> QED BY <1>1, <1>2, <1>3 DEF VendorSame, ListsAre

(* The captured process goes on: no program has begun. *)
LEMMA VendorCaptures ==
  ASSUME VendorInv, CaptureNext, UNCHANGED me
  PROVE  VendorSame' /\ VendorRuns'
<1>1. CaptureInv /\ runtime = "rknn" /\ VendorSame BY DEF VendorInv, ReplayInv
<1>2. ~dump.done
  <2>1. dump.done => filled /\ Len(buffers) = 5 BY <1>1 DEF VendorSame
  <2>2. Len(Layout) = 5 BY <1>1, LayoutIs
  <2>3. ASSUME MemCreate PROVE ~dump.done
    <3>1. Len(buffers) < Len(Layout) BY <2>3 DEF MemCreate
    <3> QED BY <2>1, <2>2, <3>1
  <2>4. ASSUME Fill PROVE ~dump.done BY <2>1, <2>4 DEF Fill
  <2>5. ASSUME MesaDumps \/ \E missing \in 0..3 : Submit(missing) PROVE ~dump.done
    BY <2>5 DEF Submit, MesaDumps
  <2> QED BY <2>3, <2>4, <2>5 DEF CaptureNext
<1>3. me.pc \in {"meta", "exit"} BY <1>2 DEF VendorInv, ReplayInv, ProgramInv
<1>4. VendorSame'
  <2>1. MemCreate \/ Fill \/ \E missing \in 0..3 : Submit(missing)
    BY <1>1 DEF CaptureNext, MesaDumps
  <2> QED BY <2>1, <1>1, CreateSame, FillSame, SubmitSame
<1>5. me.pc = "meta" => me.ran = 0 BY DEF VendorInv, VendorRuns
<1>6. VendorRuns'
  BY <1>3, <1>5 DEF VendorRuns
<1> QED BY <1>4, <1>6

(* Which step leads where. *)
LEMMA VendorSteps ==
  ASSUME VendorInv, ReplayNext
  PROVE  /\ UNCHANGED capture /\ (me.pc # "meta" => dump.done)
         /\ me'.pc = "create" => Meta
         /\ me'.pc = "patch" => (Create \/ PatchTask) /\ me' # Exits(1)
         /\ me'.pc = "submit" => Flush
         /\ me'.pc \in {"wait", "report"} => \/ (SubmitRocket \/ SubmitRknpu) /\ me' # Exits(1)
                                            \/ NpuRuns \/ Poll \/ SyncBack
         /\ me'.pc = "meta" => FALSE
<1>1. me.pc # "exit" /\ UNCHANGED capture
  BY DEF ReplayNext, Meta, Create, PatchTask, Flush, SubmitRocket, SubmitRknpu,
         NpuRuns, Poll, SyncBack, Report, MesaLoad, MesaPatch, In
<1>2. OnTheWay /\ runtime = "rknn" BY <1>1, Going DEF VendorInv
<1>3. DOMAIN me = MeFields /\ me.prog \in {"rknpu", "rocket"} BY <1>2 DEF OnTheWay
<1>4. Exits(1).pc = "exit" BY <1>3 DEF Exits, MeFields
<1>5. ~MesaLoad /\ ~MesaPatch BY <1>3 DEF MesaLoad, MesaPatch, In
<1>6. ASSUME Meta PROVE me'.pc \in {"create", "exit"}
  <2>1. \E bo : me' = Exits(1) \/ me' = [Goes("create") EXCEPT !.bo = bo] BY <1>6 DEF Meta
  <2> QED BY <2>1, <1>3 DEF Exits, Goes, MeFields
<1>7. ASSUME Create PROVE me'.pc \in {"patch", "exit"}
  <2>1. \E bo, ta : me' = Exits(1) \/ me' = [Goes("patch") EXCEPT !.bo = bo, !.ta = ta]
    BY <1>7 DEF Create
  <2> QED BY <2>1, <1>3 DEF Exits, Goes, MeFields
<1>8. ASSUME PatchTask PROVE me'.pc \in {"patch", "exit"}
  <2>1. me.pc = "patch" BY <1>8 DEF PatchTask, In
  <2>2. \E tasks, out, bo :
          me' = Exits(1) \/ me' = [me EXCEPT !.tasks = tasks, !.out = out, !.bo = bo]
    BY <1>8 DEF PatchTask
  <2> QED BY <2>1, <2>2, <1>3 DEF Exits, MeFields
<1>9. ASSUME Flush PROVE me'.pc = "submit"
  <2>1. \E out, bo : me' = [Goes("submit") EXCEPT !.bo = bo, !.out = out]
    BY <1>9, <1>3 DEF Flush, MeFields, Goes
  <2> QED BY <2>1, <1>3 DEF Goes, MeFields
<1>10. ASSUME SubmitRocket \/ SubmitRknpu PROVE me'.pc \in {"wait", "exit"}
  <2>1. CASE SubmitRocket
    <3>1. \E ins, outs, jobs :
            \/ me' = Exits(1)
            \/ me' = [Goes("wait") EXCEPT !.ins = ins, !.outs = outs, !.jobs = jobs]
      BY <2>1 DEF SubmitRocket
    <3> QED BY <3>1, <1>3 DEF Exits, Goes, MeFields
  <2>2. CASE SubmitRknpu
    <3>1. \E bo, ran : me' = Exits(1) \/ me' = [Goes("wait") EXCEPT !.bo = bo, !.ran = ran]
      BY <2>2 DEF SubmitRknpu
    <3> QED BY <3>1, <1>3 DEF Exits, Goes, MeFields
  <2> QED BY <1>10, <2>1, <2>2
<1>11. ASSUME NpuRuns PROVE me'.pc = "wait"
  <2>1. me.pc = "wait" /\ \E ran, bo : me' = [me EXCEPT !.ran = ran, !.bo = bo]
    BY <1>11 DEF NpuRuns, In
  <2> QED BY <2>1, <1>3 DEF MeFields
<1>12. ASSUME Poll PROVE me'.pc \in {"wait", "report"}
  <2>1. me.pc = "wait" BY <1>12 DEF Poll, In
  <2> DEFINE seen == [me EXCEPT !.bo[me.out].cpu = me.bo[me.out].mem, !.tries = @ + 1]
  <2>2. me' = [seen EXCEPT !.pc = "report"] \/ me' = seen BY <1>12 DEF Poll
  <2>3. DOMAIN seen = MeFields /\ seen.pc = me.pc BY <1>3 DEF MeFields
  <2> HIDE DEF seen
  <2> QED BY <2>1, <2>2, <2>3 DEF MeFields
<1>13. ASSUME SyncBack PROVE me'.pc = "report"
  <2>1. me' = [Goes("report") EXCEPT !.bo[me.out].cpu = me.bo[me.out].mem] BY <1>13 DEF SyncBack
  <2> QED BY <2>1, <1>3 DEF Goes, MeFields
<1>14. ASSUME Report PROVE me'.pc = "exit"
  <2>1. \E shown : me' = [Exits(0) EXCEPT !.shown = shown] BY <1>14 DEF Report
  <2> QED BY <2>1, <1>3 DEF Exits, MeFields
<1>15. \/ Meta \/ Create \/ PatchTask \/ Flush \/ SubmitRocket \/ SubmitRknpu \/ NpuRuns \/ Poll
       \/ SyncBack \/ Report
  BY <1>5 DEF ReplayNext
<1>16. me.pc # "meta" => dump.done BY <1>2 DEF OnTheWay
<1> QED
  BY <1>1, <1>4, <1>6, <1>7, <1>8, <1>9, <1>10, <1>11, <1>12, <1>13, <1>14, <1>15, <1>16

(* The invariant of the vendor's payload is kept. *)
LEMMA VendorKeeps ==
  ASSUME VendorInv, [Next]_vars
  PROVE  VendorSame' /\ VendorRuns'
<1>1. CASE CaptureNext /\ UNCHANGED me BY <1>1, VendorCaptures
<1>2. CASE UNCHANGED vars
  <2>1. UNCHANGED capture /\ me' = me BY <1>2 DEF vars
  <2>2. VendorSame' BY <2>1, VendorRests DEF VendorInv
  <2>3. /\ Length' = Length /\ Captured' = Captured /\ M0' = M0 /\ plan' = plan /\ dump' = dump
        /\ Complete' = Complete /\ OwnAt' = OwnAt
        /\ \A i \in 1..5 : AddrIs(i)' = AddrIs(i) /\ SizeIs(i)' = SizeIs(i)
    BY <2>1 DEF capture, Length, Captured, M0, AddrIs, SizeIs, Complete, OwnAt
  <2>4. PatchSame => PatchSame'
    <3>1. VendorBo => VendorBo' BY <2>1, <2>3 DEF VendorBo, BoOK, Ranges
    <3> QED BY <3>1, <2>1, <2>3 DEF PatchSame, TasksAre, TaskArray, ListsAre, Entries
  <2>5. RunSame => RunSame'
    <3>1. Ready(Devices, Results(me.ran), Len(me.tasks))
            => Ready(Devices, Results(me.ran), Len(me.tasks))'
      <4>1. Results(me.ran)' = Results(me.ran) /\ Devices' = Devices
        BY <2>1, <2>3 DEF Results, Devices
      <4> QED BY <2>1, <2>3, <4>1 DEF Ready
    <3> QED BY <3>1, <2>1, <2>3 DEF RunSame, BoOK, TasksAre, Entries
  <2> QED BY <2>1, <2>2, <2>3, <2>4, <2>5 DEF VendorInv, VendorRuns
<1>3. CASE ReplayNext
  <2>1. /\ UNCHANGED capture /\ (me.pc # "meta" => dump.done)
        /\ me'.pc = "create" => Meta
        /\ me'.pc = "patch" => (Create \/ PatchTask) /\ me' # Exits(1)
        /\ me'.pc = "submit" => Flush
        /\ me'.pc \in {"wait", "report"} => \/ (SubmitRocket \/ SubmitRknpu) /\ me' # Exits(1)
                                           \/ NpuRuns \/ Poll \/ SyncBack
        /\ me'.pc = "meta" => FALSE
    BY <1>3, VendorSteps
  <2>2. VendorSame' BY <2>1, VendorRests DEF VendorInv
  <2>3. dump' = dump /\ Complete' = Complete BY <2>1 DEF capture, Complete
  <2>4. me'.pc = "create" => me'.ran = 0 /\ me'.bo[1].dma = -1 /\ me'.bo[1].mem = <<>>
    BY <2>1, MetaRuns
  <2>5. me'.pc \in {"patch", "submit"} => me'.ran = 0
    <3>1. me'.pc \in {"patch", "submit"} => me.pc \in {"create", "patch"} /\ me'.ran = me.ran
      <4>1. me.pc # "exit" =>  OnTheWay BY Going DEF VendorInv
      <4>2. ASSUME Create, me' # Exits(1) PROVE me.pc = "create" /\ me'.ran = me.ran
        <5>1. me.pc = "create" /\ \E bo, ta : me' = [Goes("patch") EXCEPT !.bo = bo, !.ta = ta]
          BY <4>2 DEF Create, In
        <5> QED BY <5>1, <4>1 DEF Goes, MeFields, OnTheWay
      <4>3. ASSUME PatchTask, me' # Exits(1) PROVE me.pc = "patch" /\ me'.ran = me.ran
        <5>1. me.pc = "patch" /\ \E tasks, out, bo :
                 me' = [me EXCEPT !.tasks = tasks, !.out = out, !.bo = bo]
          BY <4>3 DEF PatchTask, In
        <5> QED BY <5>1, <4>1 DEF MeFields, OnTheWay
      <4>4. ASSUME Flush PROVE me.pc = "patch" /\ me'.ran = me.ran
        <5>0. me.pc = "patch" BY <4>4 DEF Flush, In
        <5>1. \E out, bo : me' = [Goes("submit") EXCEPT !.bo = bo, !.out = out]
          BY <4>4, <4>1, <5>0 DEF Flush, In, MeFields, Goes, OnTheWay
        <5> QED BY <5>0, <5>1, <4>1 DEF Goes, MeFields, OnTheWay
      <4> QED BY <2>1, <4>2, <4>3, <4>4
    <3>2. me.pc \in {"create", "patch"} => me.ran = 0 BY DEF VendorInv, VendorRuns
    <3> QED BY <3>1, <3>2
  <2>6. ASSUME dump.done, Complete, me'.pc = "patch" PROVE PatchSame'
    BY <2>1, <2>6, CreateRuns, PatchRuns
  <2>7. ASSUME dump.done, Complete, me'.pc \in {"submit", "wait", "report"} PROVE RunSame'
    BY <2>1, <2>7, FlushRuns, GiveRuns, DriverRuns, TaskRuns, LookRuns
  <2> QED BY <2>1, <2>2, <2>3, <2>4, <2>5, <2>6, <2>7 DEF VendorRuns
<1> QED BY <1>1, <1>2, <1>3 DEF Next

(* What the vendor's payload gives when it has run. *)
LEMMA VendorGives ==
  ASSUME VendorInv, me.pc \in {"wait", "report"}, me.ran = Length, Complete
  PROVE  \A r \in {"output", "scratch"} : me.bo[Role(r)].mem = buffers[Role(r)].mem
<1>1. dump.done BY DEF VendorInv, ReplayInv, ProgramInv
<1>2. RunSame /\ Ready(buffers, Results(Length), Length)
  BY <1>1 DEF VendorInv, VendorRuns, VendorSame
<1>3. \A i \in 3..5 : Devices[i].mem = Results(Length)[i] /\ buffers[i].mem = Results(Length)[i]
  BY <1>2 DEF RunSame, Ready
<1>4. \A i \in 1..5 : Devices[i].mem = me.bo[i].mem
  <2>1. BoOK BY <1>2 DEF RunSame
  <2> QED BY <2>1, ViewIs
<1>5. Role("output") = 5 /\ Role("scratch") = 3 BY LayoutIs DEF VendorInv
<1>6. 5 \in 3..5 /\ 3 \in 3..5 /\ 5 \in 1..5 /\ 3 \in 1..5 OBVIOUS
<1> QED BY <1>3, <1>4, <1>5, <1>6

(* Nothing is captured at first. *)
LEMMA VendorStarts == ASSUME Init, runtime = "rknn" PROVE VendorSame /\ VendorRuns
<1>1. buffers = <<>> /\ ~filled /\ ~dump.done BY DEF Init, CaptureInit, NoDump
<1>2. PICK prog, onejob, knobs : me = Started(prog, onejob, knobs) BY DEF Init, ReplayInit
<1>3. me.pc = "meta" /\ me.ran = 0 BY <1>2 DEF Started
<1>4. \A i \in 1..Len(buffers) : FALSE BY <1>1
<1> QED BY <1>1, <1>3, <1>4 DEF VendorSame, VendorRuns
-----------------------------------------------------------------------------
(* Mesa's payload: its list, what is left of it, and its task. *)

\* The registers a task is computed from, and where Mesa's list writes them.
Registers == {SRC, WT, PAD, CBUF, BIAS, SCALE, DST}
Place(r) == IF r = SRC THEN 1 ELSE IF r = WT THEN 2 ELSE IF r = PAD THEN 3 ELSE IF r = CBUF THEN 4
            ELSE IF r = BIAS THEN 6 ELSE IF r = SCALE THEN 7 ELSE 8

\* Mesa's list, with the buffers at the addresses a.
MesaList(mem, a) ==
  /\ IsSeq(mem) /\ Len(mem) = 9
  /\ mem[1] = <<SRC, a[4]>> /\ mem[2] = <<WT, a[2]>> /\ mem[3] = <<PAD, Top - 1>>
  /\ mem[4] = <<CBUF, 5>> /\ mem[5] = <<OPEN, 1>> /\ mem[6] = <<BIAS, a[3]>>
  /\ mem[7] = <<SCALE, a[3] + 1>> /\ mem[8] = <<DST, a[5]>> /\ mem[9] = <<0, 0>>

\* A list that writes register r not at all, or once.
Never(s, r) == \A j \in 1..Len(s) : s[j][1] # r
Once(s, r, v) == \E k \in 1..Len(s) : /\ s[k][2] = v
                                      /\ \A j \in 1..Len(s) : s[j][1] = r <=> j = k

\* The words that stay of the first k.
Upto(s, words, k) ==
  /\ IsSeq(s) /\ Len(s) \in 0..k
  /\ \A r \in Registers : IF Place(r) <= k THEN Once(s, r, words[Place(r)][2]) ELSE Never(s, r)

(* One more word. *)
LEMMA OneMore ==
  ASSUME NEW s, IsSeq(s), NEW e, NEW r
  PROVE  /\ Never(s, r) => IF e[1] = r THEN Once(Append(s, e), r, e[2]) ELSE Never(Append(s, e), r)
         /\ e[1] # r => \A v : Once(s, r, v) => Once(Append(s, e), r, v)
<1>1. PICK n \in Nat : n = Len(s) BY SeqIs
<1> DEFINE t == Append(s, e)
<1>2. Len(t) = n + 1 /\ t[n + 1] = e /\ \A k \in 1..n : t[k] = s[k] BY <1>1, AppendIs
<1> HIDE DEF t
<1>3. \A j \in 1..(n + 1) : j \in 1..n \/ j = n + 1 OBVIOUS
<1>4. ASSUME Never(s, r), e[1] = r PROVE Once(t, r, e[2])
  <2>1. \A j \in 1..(n + 1) : t[j][1] = r <=> j = n + 1 BY <1>1, <1>2, <1>3, <1>4 DEF Never
  <2>2. n + 1 \in 1..(n + 1) OBVIOUS
  <2> QED BY <2>1, <2>2, <1>2 DEF Once
<1>5. ASSUME Never(s, r), e[1] # r PROVE Never(t, r)
  BY <1>1, <1>2, <1>3, <1>5 DEF Never
<1>6. ASSUME e[1] # r, NEW v, Once(s, r, v) PROVE Once(t, r, v)
  <2>1. PICK k \in 1..n : s[k][2] = v /\ \A j \in 1..n : s[j][1] = r <=> j = k
    BY <1>1, <1>6 DEF Once
  <2>2. k \in 1..(n + 1) /\ t[k][2] = v BY <2>1, <1>2
  <2>3. \A j \in 1..(n + 1) : t[j][1] = r <=> j = k BY <2>1, <1>2, <1>3, <1>6
  <2> QED BY <2>2, <2>3, <1>2 DEF Once
<1> QED BY <1>4, <1>5, <1>6 DEF t

(* The words of a list that stay, after one more word. *)
LEMMA NextUpto ==
  ASSUME NEW words, NEW k \in 1..9, NEW s, Upto(s, words, k - 1),
         \A r \in Registers : words[k][1] = r <=> Place(r) = k,
         words[k][1] \in Registers => Stays(words[k]),
         NEW t, t = IF Stays(words[k]) THEN Append(s, words[k]) ELSE s
  PROVE  Upto(t, words, k)
<1> DEFINE e == words[k]
<1>1. IsSeq(s) /\ Len(s) \in 0..(k - 1) BY DEF Upto
<1>2. \A r \in Registers : Place(r) \in 1..9 BY DEF Place
<1>3. \A r \in Registers : IF Place(r) <= k - 1 THEN Once(s, r, words[Place(r)][2]) ELSE Never(s, r)
  BY DEF Upto
<1>4. CASE Stays(e)
  <2>1. t = Append(s, e) BY <1>4
  <2>2. IsSeq(t) /\ Len(t) \in 0..k BY <2>1, <1>1, AppendIs
  <2>3. ASSUME NEW r \in Registers
        PROVE  IF Place(r) <= k THEN Once(t, r, words[Place(r)][2]) ELSE Never(t, r)
    <3>1. /\ Never(s, r) => IF e[1] = r THEN Once(t, r, e[2]) ELSE Never(t, r)
          /\ e[1] # r => \A v : Once(s, r, v) => Once(t, r, v)
      BY <1>1, <2>1, OneMore
    <3>2. e[1] = r <=> Place(r) = k OBVIOUS
    <3>3. Place(r) \in 1..9 BY <1>2
    <3>4. CASE Place(r) = k BY <3>1, <3>2, <3>4, <1>3
    <3>5. CASE Place(r) < k
      <4>1. Place(r) <= k - 1 /\ Place(r) # k /\ Place(r) <= k BY <3>3, <3>5
      <4> QED BY <3>1, <3>2, <4>1, <1>3
    <3>6. CASE Place(r) > k
      <4>1. ~(Place(r) <= k - 1) /\ Place(r) # k /\ ~(Place(r) <= k) BY <3>3, <3>6
      <4> QED BY <3>1, <3>2, <4>1, <1>3
    <3> QED BY <3>3, <3>4, <3>5, <3>6
  <2> QED BY <2>2, <2>3 DEF Upto
<1>5. CASE ~Stays(e)
  <2>1. t = s /\ e[1] \notin Registers BY <1>5
  <2>2. \A r \in Registers : Place(r) # k BY <2>1
  <2>3. \A r \in Registers : Place(r) <= k <=> Place(r) <= k - 1 BY <1>2, <2>2
  <2>4. Len(s) \in 0..k BY <1>1
  <2> QED BY <1>1, <1>3, <2>1, <2>3, <2>4 DEF Upto
<1> QED BY <1>4, <1>5

(* Where each register is written in Mesa's list. *)
LEMMA MesaPlaces ==
  ASSUME NEW w, NEW a, MesaList(w, a)
  PROVE  \A k \in 1..9 : /\ \A r \in Registers : w[k][1] = r <=> Place(r) = k
                         /\ w[k][1] \in Registers => Stays(w[k])
<1>1. /\ w[1] = <<SRC, a[4]>> /\ w[2] = <<WT, a[2]>> /\ w[3] = <<PAD, Top - 1>>
      /\ w[4] = <<CBUF, 5>> /\ w[5] = <<OPEN, 1>> /\ w[6] = <<BIAS, a[3]>>
      /\ w[7] = <<SCALE, a[3] + 1>> /\ w[8] = <<DST, a[5]>> /\ w[9] = <<0, 0>>
  BY DEF MesaList
<1>2. /\ w[1][1] = SRC /\ w[2][1] = WT /\ w[3][1] = PAD /\ w[4][1] = CBUF /\ w[5][1] = OPEN
      /\ w[6][1] = BIAS /\ w[7][1] = SCALE /\ w[8][1] = DST /\ w[9][1] = 0
  BY <1>1
<1>3. \A k \in 1..9, r \in Registers : w[k][1] = r <=> Place(r) = k
  BY <1>2 DEF Registers, Place, SRC, WT, DST, BIAS, SCALE, PAD, CBUF, OPEN
<1>4. \A r \in Registers : r # OPEN /\ r # 0
  BY DEF Registers, SRC, WT, DST, BIAS, SCALE, PAD, CBUF, OPEN
<1>5. ASSUME NEW k \in 1..9, w[k][1] \in Registers PROVE Stays(w[k])
  <2>1. w[k][1] # OPEN /\ w[k][1] # 0 BY <1>4, <1>5
  <2>2. w[k] # <<0, 0>> BY <2>1
  <2> QED BY <2>1, <2>2 DEF Stays
<1> QED BY <1>3, <1>5

(* The words of Mesa's list that stay leave in every register what the list does. *)
LEMMA StrippedIs ==
  ASSUME NEW words, NEW a, MesaList(words, a)
  PROVE  Upto(Stripped(words), words, 9)
<1> DEFINE P(f) == f = [k \in 0..9 |-> IF k = 0 THEN <<>>
                                       ELSE IF Stays(words[k]) THEN Append(f[k - 1], words[k])
                                                               ELSE f[k - 1]]
           More(s, k) == IF Stays(words[k]) THEN Append(s, words[k]) ELSE s
           s1 == More(<<>>, 1)
           s2 == More(s1, 2)
           s3 == More(s2, 3)
           s4 == More(s3, 4)
           s5 == More(s4, 5)
           s6 == More(s5, 6)
           s7 == More(s6, 7)
           s8 == More(s7, 8)
           s9 == More(s8, 9)
           g == [k \in 0..9 |-> IF k = 0 THEN <<>> ELSE IF k = 1 THEN s1 ELSE IF k = 2 THEN s2
                                ELSE IF k = 3 THEN s3 ELSE IF k = 4 THEN s4 ELSE IF k = 5 THEN s5
                                ELSE IF k = 6 THEN s6 ELSE IF k = 7 THEN s7 ELSE IF k = 8 THEN s8
                                ELSE s9]
           f == CHOOSE h : P(h)
<1>1. P(g)
  <2> HIDE DEF s1, s2, s3, s4, s5, s6, s7, s8, s9
  <2>1. /\ g[0] = <<>> /\ g[1] = s1 /\ g[2] = s2 /\ g[3] = s3 /\ g[4] = s4 /\ g[5] = s5
        /\ g[6] = s6 /\ g[7] = s7 /\ g[8] = s8 /\ g[9] = s9
    OBVIOUS
  <2>2. g = [k \in 0..9 |-> g[k]] OBVIOUS
  <2> HIDE DEF g
  <2>3. ASSUME NEW k \in 0..9
        PROVE  g[k] = IF k = 0 THEN <<>> ELSE More(g[k - 1], k)
    <3> HIDE DEF More
    <3>1. k = 0 \/ k = 1 \/ k = 2 \/ k = 3 \/ k = 4 \/ k = 5 \/ k = 6 \/ k = 7 \/ k = 8 \/ k = 9
      OBVIOUS
    <3> QED BY <2>1, <3>1 DEF s1, s2, s3, s4, s5, s6, s7, s8, s9
  <2>4. g = [k \in 0..9 |-> IF k = 0 THEN <<>> ELSE More(g[k - 1], k)]
    <3> HIDE DEF More
    <3> QED BY <2>2, <2>3, Zenon
  <2> QED BY <2>4, Zenon
<1>2. P(f)
  <2> HIDE DEF g
  <2> QED BY <1>1, Zenon
<1>3. Stripped(words) = f[9]
  <2>1. Len(words) = 9 BY DEF MesaList
  <2> QED BY <2>1, Zenon DEF Stripped
<1> HIDE DEF f
<1>4. f[0] = <<>> /\ \A k \in 1..9 : f[k] = More(f[k - 1], k)
  <2>1. \A k \in 1..9 : k \in 0..9 /\ k # 0 OBVIOUS
  <2>2. 0 \in 0..9 OBVIOUS
  <2> HIDE DEF More
  <2>3. f = [k \in 0..9 |-> IF k = 0 THEN <<>> ELSE More(f[k - 1], k)] BY <1>2, Zenon DEF More
  <2> QED BY <2>1, <2>2, <2>3
<1>5. Upto(f[0], words, 0)
  <2>1. IsSeq(<<>>) /\ Len(<<>>) = 0 BY DEF IsSeq
  <2>2. \A r \in Registers : ~(Place(r) <= 0) /\ Never(<<>>, r) BY <2>1 DEF Place, Never
  <2> QED BY <2>1, <2>2, <1>4 DEF Upto
<1>6. \A k \in 1..9 : Upto(f[k - 1], words, k - 1) => Upto(f[k], words, k)
  <2> SUFFICES ASSUME NEW k \in 1..9, Upto(f[k - 1], words, k - 1) PROVE Upto(f[k], words, k)
    OBVIOUS
  <2>1. /\ \A r \in Registers : words[k][1] = r <=> Place(r) = k
        /\ words[k][1] \in Registers => Stays(words[k])
    BY MesaPlaces
  <2>2. f[k] = IF Stays(words[k]) THEN Append(f[k - 1], words[k]) ELSE f[k - 1] BY <1>4
  <2> QED BY <2>1, <2>2, NextUpto
<1>7. Upto(f[9], words, 9)
  <2> DEFINE Q(k) == Upto(f[k], words, k)
  <2> HIDE DEF Q
  <2>1. \A k \in 1..9 : Q(k - 1) => Q(k) BY <1>6 DEF Q
  <2>2. Q(0) BY <1>5 DEF Q
  <2>3. Q(1) /\ Q(2) /\ Q(3)
    <3>1. Q(1 - 1) => Q(1) BY <2>1
    <3>2. Q(2 - 1) => Q(2) BY <2>1
    <3>3. Q(3 - 1) => Q(3) BY <2>1
    <3> QED BY <2>2, <3>1, <3>2, <3>3
  <2>4. Q(4) /\ Q(5) /\ Q(6)
    <3>1. Q(4 - 1) => Q(4) BY <2>1
    <3>2. Q(5 - 1) => Q(5) BY <2>1
    <3>3. Q(6 - 1) => Q(6) BY <2>1
    <3> QED BY <2>3, <3>1, <3>2, <3>3
  <2>5. Q(7) /\ Q(8) /\ Q(9)
    <3>1. Q(7 - 1) => Q(7) BY <2>1
    <3>2. Q(8 - 1) => Q(8) BY <2>1
    <3>3. Q(9 - 1) => Q(9) BY <2>1
    <3> QED BY <2>4, <3>1, <3>2, <3>3
  <2> QED BY <2>5 DEF Q
<1> QED BY <1>3, <1>7

\* Mesa's buffers: the list, the weights, the biases, the input and the output.
MesaSize(i) == IF i = 1 THEN 9 ELSE IF i = 2 THEN 1 ELSE 2
MesaAddr(i) == Top - (IF i = 1 THEN 9 ELSE IF i = 2 THEN 10 ELSE IF i = 3 THEN 12
                      ELSE IF i = 4 THEN 14 ELSE 16)
MesaData(i) == IF i = 2 THEN << <<0, 1>> >> ELSE IF i = 3 THEN << <<0, 2>>, <<0, 1>> >>
               ELSE IF i = 4 THEN Ramp ELSE Zeros(2)
MesaOut == [Zeros(2) EXCEPT ![1] = <<0, Val(<<0, 3>>)>>]

MesaPlaced(bos) ==
  /\ DOMAIN bos = 1..5
  /\ \A i \in 1..5 : /\ DOMAIN bos[i] = BufferFields /\ bos[i].dma \in Int
                     /\ IsSeq(bos[i].mem) /\ Len(bos[i].mem) = MesaSize(i)
  /\ \A i \in 1..5 : \A o \in 0..(MesaSize(i) - 1) : Holders(bos, bos[i].dma + o) = {i}

\* The list Mesa wrote, w of it left, at the start of the first buffer.
MesaFetches(bos, task, w, words) ==
  /\ MesaList(words, Addresses(bos)) /\ Upto(w, words, 9)
  /\ task.count = Len(w) /\ task.regcmd = bos[1].dma
  /\ \A k \in 1..Len(w) : bos[1].mem[k] = w[k]

MesaReady(bos, task) ==
  /\ MesaPlaced(bos) /\ \A i \in 2..5 : bos[i].mem = MesaData(i)
  /\ \E w, words : MesaFetches(bos, task, w, words)

(* Mesa's buffers that lie apart. *)
LEMMA MesaPlacedIs ==
  ASSUME NEW bos, DOMAIN bos = 1..5,
         \A i \in 1..5 : /\ DOMAIN bos[i] = BufferFields /\ bos[i].dma \in Int
                         /\ IsSeq(bos[i].mem) /\ Len(bos[i].mem) = MesaSize(i),
         \A i, j \in 1..5 : i # j =>
            \/ bos[i].dma + MesaSize(i) <= bos[j].dma
            \/ bos[j].dma + MesaSize(j) <= bos[i].dma
  PROVE  MesaPlaced(bos)
<1>1. ASSUME NEW j \in 1..5, NEW o \in 0..(MesaSize(j) - 1) PROVE Holders(bos, bos[j].dma + o) = {j}
  <2>1. \A i \in 1..5 : MesaSize(i) \in Nat BY DEF MesaSize
  <2>2. \A i \in 1..5 : (bos[i].dma <= bos[j].dma + o /\ bos[j].dma + o < bos[i].dma + Len(bos[i].mem))
                         <=> i = j
    <3> SUFFICES ASSUME NEW i \in 1..5
                 PROVE (bos[i].dma <= bos[j].dma + o /\ bos[j].dma + o < bos[i].dma + Len(bos[i].mem))
                         <=> i = j
      OBVIOUS
    <3>1. PICK x \in Int, y \in Nat : x = bos[i].dma /\ y = Len(bos[i].mem) /\ y = MesaSize(i) BY <2>1
    <3>2. PICK u \in Int, z \in Nat : u = bos[j].dma /\ z = Len(bos[j].mem) /\ z = MesaSize(j) BY <2>1
    <3>3. i # j => x + y <= u \/ u + z <= x BY <3>1, <3>2
    <3>4. o \in 0..(z - 1) BY <3>2
    <3>5. i = j => x = u /\ y = z BY <3>1, <3>2
    <3>6. (x <= u + o /\ u + o < x + y) <=> i = j BY <3>3, <3>4, <3>5
    <3> QED BY <3>1, <3>2, <3>6
  <2> QED BY <2>2 DEF Holders
<1> QED BY <1>1 DEF MesaPlaced

(* What is left in the registers. *)
LEMMA MesaLeft ==
  ASSUME NEW a, NEW words, MesaList(words, a), NEW w, Upto(w, words, 9)
  PROVE  /\ Left(w, SRC) = a[4] /\ Left(w, WT) = a[2] /\ Left(w, BIAS) = a[3]
         /\ Left(w, SCALE) = a[3] + 1 /\ Left(w, DST) = a[5] /\ Left(w, PAD) = Top - 1
         /\ Left(w, CBUF) = 5
<1>1. PICK n \in Nat : n = Len(w) /\ DOMAIN w = 1..n BY SeqIs DEF Upto
<1>2. \A r \in Registers : Left(w, r) = words[Place(r)][2]
  <2> SUFFICES ASSUME NEW r \in Registers PROVE Left(w, r) = words[Place(r)][2]
    OBVIOUS
  <2>1. Place(r) <= 9 BY DEF Place
  <2>2. Once(w, r, words[Place(r)][2]) BY <2>1 DEF Upto
  <2>3. PICK k \in 1..n : /\ w[k][2] = words[Place(r)][2]
                          /\ \A j \in 1..n : w[j][1] = r <=> j = k
    BY <1>1, <2>2 DEF Once
  <2>4. Left(w, r) = w[k][2] BY <1>1, <2>3, LeftIs
  <2> QED BY <2>3, <2>4
<1>3. /\ words[1] = <<SRC, a[4]>> /\ words[2] = <<WT, a[2]>> /\ words[3] = <<PAD, Top - 1>>
      /\ words[4] = <<CBUF, 5>> /\ words[6] = <<BIAS, a[3]>>
      /\ words[7] = <<SCALE, a[3] + 1>> /\ words[8] = <<DST, a[5]>>
  BY DEF MesaList
<1>4. /\ words[1][2] = a[4] /\ words[2][2] = a[2] /\ words[3][2] = Top - 1 /\ words[4][2] = 5
      /\ words[6][2] = a[3] /\ words[7][2] = a[3] + 1 /\ words[8][2] = a[5]
  BY <1>3
<1>5. /\ Place(SRC) = 1 /\ Place(WT) = 2 /\ Place(PAD) = 3 /\ Place(CBUF) = 4 /\ Place(BIAS) = 6
      /\ Place(SCALE) = 7 /\ Place(DST) = 8
  BY DEF Place, SRC, WT, DST, BIAS, SCALE, PAD, CBUF
<1>6. {SRC, WT, PAD, CBUF, BIAS, SCALE, DST} \subseteq Registers BY DEF Registers
<1>7. /\ Left(w, SRC) = words[1][2] /\ Left(w, WT) = words[2][2] /\ Left(w, PAD) = words[3][2]
      /\ Left(w, CBUF) = words[4][2] /\ Left(w, BIAS) = words[6][2]
      /\ Left(w, SCALE) = words[7][2] /\ Left(w, DST) = words[8][2]
  BY <1>2, <1>5, <1>6
<1> QED BY <1>4, <1>7, Zenon

(* Mesa's task, wherever its buffers are. *)
LEMMA MesaRun ==
  ASSUME NEW bos, NEW task, MesaReady(bos, task)
  PROVE  Execute(bos, task)[5].mem = MesaOut
<1>1. /\ MesaPlaced(bos) /\ \A i \in 2..5 : bos[i].mem = MesaData(i)
  BY DEF MesaReady
<1>2. PICK w, words : MesaFetches(bos, task, w, words) BY DEF MesaReady
<1> DEFINE a == Addresses(bos)
<1>3. /\ MesaList(words, a) /\ Upto(w, words, 9) /\ task.count = Len(w) /\ task.regcmd = bos[1].dma
      /\ \A k \in 1..Len(w) : bos[1].mem[k] = w[k]
  BY <1>2 DEF MesaFetches
<1>4. /\ Left(w, SRC) = a[4] /\ Left(w, WT) = a[2] /\ Left(w, BIAS) = a[3]
      /\ Left(w, SCALE) = a[3] + 1 /\ Left(w, DST) = a[5] /\ Left(w, PAD) = Top - 1
      /\ Left(w, CBUF) = 5
  BY <1>3, MesaLeft
<1>5. \A i \in 1..5 : a[i] = bos[i].dma /\ bos[i].dma \in Int BY <1>1 DEF Addresses, MesaPlaced
<1> HIDE DEF a
<1>6. PICK n \in 0..9 : n = Len(w) /\ IsSeq(w) BY <1>3 DEF Upto
<1>7. DOMAIN w = 1..n /\ w = [k \in 1..n |-> w[k]]
  <2>1. PICK S : w \in Seq(S) BY <1>6 DEF IsSeq
  <2> QED BY <2>1, <1>6
<1>8. \A i \in 1..5 : \A o \in 0..(MesaSize(i) - 1) :
        Holders(bos, bos[i].dma + o) = {i} /\ Cell(bos, bos[i].dma + o) = bos[i].mem[o + 1]
  <2> SUFFICES ASSUME NEW i \in 1..5, NEW o \in 0..(MesaSize(i) - 1)
               PROVE  /\ Holders(bos, bos[i].dma + o) = {i}
                      /\ Cell(bos, bos[i].dma + o) = bos[i].mem[o + 1]
    OBVIOUS
  <2>1. Holders(bos, bos[i].dma + o) = {i} BY <1>1 DEF MesaPlaced
  <2>2. Cell(bos, bos[i].dma + o) = bos[i].mem[(bos[i].dma + o) - bos[i].dma + 1]
    BY <2>1, CellIs
  <2>3. o \in Int BY DEF MesaSize
  <2>4. (bos[i].dma + o) - bos[i].dma + 1 = o + 1 BY <2>3, <1>5
  <2> QED BY <2>1, <2>2, <2>4
<1>9. Fetches(bos, task, w)
  <2>1. \A k \in 1..n : /\ Holders(bos, task.regcmd + k - 1) # {}
                        /\ Cell(bos, task.regcmd + k - 1) = w[k]
    <3> SUFFICES ASSUME NEW k \in 1..n
                 PROVE  /\ Holders(bos, task.regcmd + k - 1) # {}
                        /\ Cell(bos, task.regcmd + k - 1) = w[k]
      OBVIOUS
    <3>1. k - 1 \in 0..(9 - 1) /\ (k - 1) + 1 = k /\ MesaSize(1) = 9 /\ 1 \in 1..5 BY DEF MesaSize
    <3>2. task.regcmd + k - 1 = bos[1].dma + (k - 1) BY <3>1, <1>3, <1>5
    <3>3. Holders(bos, bos[1].dma + (k - 1)) = {1} /\ Cell(bos, bos[1].dma + (k - 1)) = bos[1].mem[(k - 1) + 1]
      BY <3>1, <1>8
    <3>4. bos[1].mem[k] = w[k] BY <1>3, <1>6
    <3> QED BY <3>1, <3>2, <3>3, <3>4
  <2> QED BY <2>1, <1>3, <1>6, <1>7 DEF Fetches
<1>10. \A i \in 1..5 : /\ Holders(bos, bos[i].dma) = {i} /\ Cell(bos, bos[i].dma) = bos[i].mem[1]
  <2> SUFFICES ASSUME NEW i \in 1..5
               PROVE  Holders(bos, bos[i].dma) = {i} /\ Cell(bos, bos[i].dma) = bos[i].mem[1]
    OBVIOUS
  <2>1. 0 \in 0..(MesaSize(i) - 1) BY DEF MesaSize
  <2>2. Holders(bos, bos[i].dma + 0) = {i} /\ Cell(bos, bos[i].dma + 0) = bos[i].mem[0 + 1]
    BY <2>1, <1>8
  <2>3. bos[i].dma + 0 = bos[i].dma /\ 0 + 1 = 1 BY <1>5
  <2> QED BY <2>2, <2>3
<1>11. Holders(bos, bos[3].dma + 1) = {3} /\ Cell(bos, bos[3].dma + 1) = bos[3].mem[2]
  <2>1. 1 \in 0..(MesaSize(3) - 1) /\ 3 \in 1..5 BY DEF MesaSize
  <2>2. Cell(bos, bos[3].dma + 1) = bos[3].mem[1 + 1] /\ Holders(bos, bos[3].dma + 1) = {3}
    BY <2>1, <1>8
  <2>3. 1 + 1 = 2 OBVIOUS
  <2> QED BY <2>2, <2>3
<1>12. /\ Left(w, SRC) = bos[4].dma /\ Left(w, WT) = bos[2].dma /\ Left(w, BIAS) = bos[3].dma
       /\ Left(w, SCALE) = bos[3].dma + 1 /\ Left(w, DST) = bos[5].dma
  <2>1. 2 \in 1..5 /\ 3 \in 1..5 /\ 4 \in 1..5 /\ 5 \in 1..5 OBVIOUS
  <2>2. a[2] = bos[2].dma /\ a[3] = bos[3].dma /\ a[4] = bos[4].dma /\ a[5] = bos[5].dma
    BY <2>1, <1>5
  <2> QED BY <2>2, <1>4, Zenon
<1>13. /\ Cell(bos, Left(w, SRC)) = <<0, 3>> /\ Cell(bos, Left(w, WT)) = <<0, 1>>
       /\ Cell(bos, Left(w, BIAS)) = <<0, 2>> /\ Cell(bos, Left(w, SCALE)) = <<0, 1>>
  <2>1. 2 \in 1..5 /\ 3 \in 1..5 /\ 4 \in 1..5 /\ 2 \in 2..5 /\ 3 \in 2..5 /\ 4 \in 2..5 OBVIOUS
  <2>2. /\ Cell(bos, Left(w, SRC)) = bos[4].mem[1] /\ Cell(bos, Left(w, WT)) = bos[2].mem[1]
        /\ Cell(bos, Left(w, BIAS)) = bos[3].mem[1] /\ Cell(bos, Left(w, SCALE)) = bos[3].mem[2]
    BY <2>1, <1>10, <1>11, <1>12
  <2>3. bos[2].mem = MesaData(2) /\ bos[3].mem = MesaData(3) /\ bos[4].mem = MesaData(4)
    BY <2>1, <1>1
  <2>4. MesaData(4)[1] = <<0, 3>> /\ MesaData(2)[1] = <<0, 1>> /\ MesaData(3)[1] = <<0, 2>>
        /\ MesaData(3)[2] = <<0, 1>>
    BY DEF MesaData, Ramp
  <2> QED BY <2>2, <2>3, <2>4
<1>14. /\ \A r \in {SRC, WT, BIAS, SCALE} : Holders(bos, Left(w, r)) # {}
       /\ Holders(bos, Left(w, DST)) = {5} /\ Left(w, DST) - bos[5].dma + 1 = 1
  <2>1. 2 \in 1..5 /\ 3 \in 1..5 /\ 4 \in 1..5 /\ 5 \in 1..5 OBVIOUS
  <2>2. /\ Holders(bos, bos[2].dma) = {2} /\ Holders(bos, bos[3].dma) = {3}
        /\ Holders(bos, bos[4].dma) = {4} /\ Holders(bos, bos[5].dma) = {5}
    BY <2>1, <1>10
  <2>3. bos[5].dma - bos[5].dma + 1 = 1 BY <2>1, <1>5
  <2> QED BY <2>2, <2>3, <1>11, <1>12
<1> DEFINE v == <<0, Val(<<0, 3>>)>>
           after == Execute(bos, task)
<1>15. after = Put(bos, 5, 1, v)
  <2>1. task.regcmd \in Int /\ task.count \in Nat
    <3>1. 1 \in 1..5 OBVIOUS
    <3> QED BY <3>1, <1>3, <1>5, <1>6
  <2>2. 5 \in Nat OBVIOUS
  <2>3. after = Put(bos, 5, Left(w, DST) - bos[5].dma + 1, Outcome(bos, w))
    BY <2>1, <2>2, <1>9, <1>14, ExecuteIs
  <2>4. /\ Cell(bos, Left(w, SRC))[2] = 3 /\ Cell(bos, Left(w, WT))[2] = 1
        /\ Cell(bos, Left(w, BIAS))[2] = 2 /\ Cell(bos, Left(w, SCALE))[2] = 1
    BY <1>13
  <2>5. <<0, 3>>[2] = 3 OBVIOUS
  <2>6. Outcome(bos, w) = v BY <2>4, <2>5, <1>4, Zenon DEF Val, Outcome
  <2> QED BY <2>3, <2>6, <1>14
<1> HIDE DEF after, v
<1>16. after[5].mem = [bos[5].mem EXCEPT ![1] = v]
  <2> DEFINE mem == [bos[5].mem EXCEPT ![1] = v]
  <2>1. after = [bos EXCEPT ![5] = [bos[5] EXCEPT !.mem = mem]] BY <1>15, Zenon DEF Put
  <2> HIDE DEF mem
  <2>2. 5 \in DOMAIN bos /\ DOMAIN bos[5] = BufferFields BY <1>1 DEF MesaPlaced
  <2>3. after[5] = [bos[5] EXCEPT !.mem = mem] BY <2>1, <2>2
  <2>4. after[5].mem = mem BY <2>2, <2>3 DEF BufferFields
  <2> QED BY <2>4 DEF mem
<1>17. bos[5].mem = Zeros(2)
  <2>1. 5 \in 2..5 OBVIOUS
  <2> QED BY <2>1, <1>1 DEF MesaData
<1> QED BY <1>16, <1>17 DEF MesaOut, v, after
-----------------------------------------------------------------------------
(* Mesa's capture. *)

MesaCaptured == [i \in 1..5 |-> MesaAddr(i)]

MesaBuffer(b, i) == /\ DOMAIN b = BufferFields /\ b.dma = MesaAddr(i)
                    /\ IsSeq(b.mem) /\ Len(b.mem) = MesaSize(i)

\* Mesa's capture: what its buffers hold, and its files.
MesaSame ==
  /\ Length = 1 /\ plan[1].src = <<"input", 0>> /\ plan[1].dst = <<"output", 0>>
  /\ IF dump.done
     THEN /\ filled /\ Len(buffers) = 5 /\ buffers[5].mem = MesaOut
          /\ MesaList(dump.file[1], MesaCaptured)
          /\ \A i \in 2..3 : dump.file[i] = MesaData(i)
     ELSE /\ IsSeq(buffers) /\ Len(buffers) <= 5
          /\ \A i \in 1..Len(buffers) : MesaBuffer(buffers[i], i)
          /\ IF filled THEN /\ Len(buffers) = 5 /\ MesaList(buffers[1].mem, MesaCaptured)
                            /\ \A i \in 2..5 : buffers[i].mem = MesaData(i)
             ELSE \A i \in 1..Len(buffers) : buffers[i].mem = Zeros(MesaSize(i))

(* Mesa's layout. *)
LEMMA MesaLayout ==
  ASSUME runtime = "mesa"
  PROVE  /\ Len(Layout) = 5 /\ DOMAIN Layout = 1..5
         /\ Layout[1][1] = "regcmd" /\ Layout[2][1] = "weights" /\ Layout[3][1] = "bias"
         /\ Layout[4][1] = "input" /\ Layout[5][1] = "output"
         /\ \A i \in 1..5 : Layout[i][2] = MesaSize(i)
         /\ Role("regcmd") = 1 /\ Role("weights") = 2 /\ Role("bias") = 3
         /\ Role("input") = 4 /\ Role("output") = 5
<1>1. Layout = << <<"regcmd", 9>>, <<"weights", 1>>, <<"bias", 2>>, <<"input", 2>>,
                  <<"output", 2>> >>
  BY DEF Layout, WordsOfAList
<1>2. DOMAIN Layout = 1..5 /\ Len(Layout) = 5 BY <1>1
<1>3. /\ Layout[1][1] = "regcmd" /\ Layout[2][1] = "weights" /\ Layout[3][1] = "bias"
      /\ Layout[4][1] = "input" /\ Layout[5][1] = "output"
      /\ Layout[1][2] = 9 /\ Layout[2][2] = 1 /\ Layout[3][2] = 2
      /\ Layout[4][2] = 2 /\ Layout[5][2] = 2
  BY <1>1
<1>4. \A i \in 1..5 : Layout[i][2] = MesaSize(i) BY <1>3 DEF MesaSize
<1> HIDE DEF Layout
<1>5. \A i \in 1..5 : Layout[i][1] = Layout[Role(Layout[i][1])][1] /\ Role(Layout[i][1]) \in 1..5
  BY <1>2 DEF Role
<1> QED BY <1>2, <1>3, <1>4, <1>5

(* Mesa's buffers go down its layout. *)
LEMMA MesaCreates ==
  ASSUME runtime = "mesa", MesaSame, MemCreate
  PROVE  MesaSame'
<1>1. ~dump.done /\ ~filled /\ IsSeq(buffers) /\ Len(buffers) <= 4
  <2>1. Len(Layout) = 5 BY MesaLayout
  <2>2. Len(buffers) < Len(Layout) BY DEF MemCreate
  <2>3. dump.done \/ filled => Len(buffers) = 5 BY DEF MesaSame
  <2>4. ~dump.done /\ ~filled BY <2>1, <2>2, <2>3
  <2>5. IsSeq(buffers) BY <2>4 DEF MesaSame
  <2>6. Len(buffers) \in Nat BY <2>5, SeqIs
  <2> QED BY <2>1, <2>2, <2>4, <2>5, <2>6
<1>2. PICK n \in 0..4 : n = Len(buffers)
  <2>1. PICK n \in Nat : n = Len(buffers) BY <1>1, SeqIs
  <2>2. n \in 0..4 BY <1>1, <2>1
  <2> QED BY <2>1, <2>2
<1>3. \A i \in 1..n : MesaBuffer(buffers[i], i) /\ buffers[i].mem = Zeros(MesaSize(i))
  BY <1>1, <1>2 DEF MesaSame
<1>4. n + 1 \in 1..5 /\ MesaSize(n + 1) \in Nat BY DEF MesaSize
<1> DEFINE size == Layout[n + 1][2]
           below == IF buffers = <<>> THEN Top ELSE Last(buffers).dma
           new == [dma |-> below - size, mem |-> Zeros(size)]
<1>5. buffers' = Append(buffers, new) BY <1>2 DEF MemCreate
<1>6. size = MesaSize(n + 1) BY <1>4, MesaLayout
<1>7. below - size = MesaAddr(n + 1)
  <2>0. Top \in Nat BY ReplayConstantsOK
  <2>1. CASE n = 0
    <3>1. buffers = <<>> BY <2>1, <1>1, <1>2 DEF IsSeq
    <3>2. MesaSize(n + 1) = 9 /\ MesaAddr(n + 1) = Top - 9 BY <2>1 DEF MesaSize, MesaAddr
    <3> QED BY <2>0, <3>1, <3>2, <1>6
  <2>2. CASE n > 0
    <3>1. buffers # <<>> /\ Last(buffers) = buffers[n]
      BY <2>2, <1>1, <1>2 DEF Last, IsSeq
    <3>2. n \in 1..n /\ n \in 1..4 BY <2>2
    <3>3. below = MesaAddr(n) BY <3>1, <3>2, <1>3 DEF MesaBuffer
    <3>4. MesaAddr(n) - MesaSize(n + 1) = MesaAddr(n + 1)
      BY <2>0, <3>2 DEF MesaAddr, MesaSize
    <3> HIDE DEF below, size
    <3> QED BY <3>3, <3>4, <1>6
  <2> QED BY <2>1, <2>2
<1> HIDE DEF size, below
<1>8. MesaBuffer(new, n + 1) /\ new.mem = Zeros(MesaSize(n + 1))
  BY <1>4, <1>6, <1>7, ZerosBlank DEF MesaBuffer, BufferFields
<1> HIDE DEF new
<1>9. /\ IsSeq(buffers') /\ Len(buffers') = n + 1 /\ buffers'[n + 1] = new
      /\ \A i \in 1..n : buffers'[i] = buffers[i]
  BY <1>1, <1>2, <1>5, AppendIs
<1>10. \A i \in 1..(n + 1) : MesaBuffer(buffers'[i], i) /\ buffers'[i].mem = Zeros(MesaSize(i))
  <2>1. \A i \in 1..(n + 1) : i \in 1..n \/ i = n + 1 OBVIOUS
  <2> QED BY <2>1, <1>3, <1>8, <1>9
<1>11. filled' = filled /\ dump' = dump /\ plan' = plan /\ Length' = Length
  BY DEF MemCreate, Length
<1>12. \A i \in 1..(n + 1) : MesaBuffer(buffers[i], i)' BY <1>10 DEF MesaBuffer, MesaAddr
<1>13. n + 1 <= 5 BY <1>4
<1> QED BY <1>1, <1>9, <1>10, <1>11, <1>12, <1>13 DEF MesaSame

(* The list Mesa writes. *)
LEMMA MesaListIs ==
  ASSUME runtime = "mesa", plan[1].src = <<"input", 0>>, plan[1].dst = <<"output", 0>>,
         \A i \in 1..5 : buffers[i].dma = MesaAddr(i)
  PROVE  MesaList(ListOf(plan[1]), MesaCaptured)
<1> DEFINE p == plan[1]
           l == ListOf(p)
           s == At(p.src[1], p.src[2])
           d == At(p.dst[1], p.dst[2])
           a == At("weights", Data)
           b == At("bias", 0)
           c == At("bias", 1)
<1>1. s = MesaCaptured[4] /\ d = MesaCaptured[5] /\ a = MesaCaptured[2]
      /\ b = MesaCaptured[3] /\ c = MesaCaptured[3] + 1
  <2>0. Top \in Nat BY ReplayConstantsOK
  <2>1. Role("weights") = 2 /\ Role("bias") = 3 /\ Role("input") = 4 /\ Role("output") = 5
    BY MesaLayout
  <2>2. Data = 0 BY DEF Data
  <2>3. /\ s = At("input", 0) /\ d = At("output", 0) OBVIOUS
  <2>4. \A i \in 1..5 : MesaCaptured[i] = MesaAddr(i) /\ MesaAddr(i) \in Int
    BY <2>0 DEF MesaCaptured, MesaAddr
  <2>5. /\ At("input", 0) = buffers[4].dma + 0 /\ At("output", 0) = buffers[5].dma + 0
        /\ At("weights", Data) = buffers[2].dma + 0 /\ At("bias", 0) = buffers[3].dma + 0
        /\ At("bias", 1) = buffers[3].dma + 1
    BY <2>1, <2>2, Zenon DEF At
  <2>6. 2 \in 1..5 /\ 3 \in 1..5 /\ 4 \in 1..5 /\ 5 \in 1..5 OBVIOUS
  <2> HIDE DEF s, d
  <2> QED BY <2>3, <2>4, <2>5, <2>6
<1>2. l = << <<SRC, s>>, <<WT, a>>, <<PAD, Top - 1>>, <<CBUF, 5>>, <<OPEN, 1>>, <<BIAS, b>>,
             <<SCALE, c>>, <<DST, d>>, <<0, 0>> >>
  <2>1. runtime # "rknn" OBVIOUS
  <2> QED BY <2>1, Zenon DEF ListOf
<1> HIDE DEF s, d, a, b, c
<1>3. /\ l[1] = <<SRC, s>> /\ l[2] = <<WT, a>> /\ l[3] = <<PAD, Top - 1>> /\ l[4] = <<CBUF, 5>>
      /\ l[5] = <<OPEN, 1>> /\ l[6] = <<BIAS, b>> /\ l[7] = <<SCALE, c>> /\ l[8] = <<DST, d>>
      /\ l[9] = <<0, 0>> /\ l = [k \in 1..9 |-> l[k]]
  BY <1>2
<1> HIDE DEF l
<1>4. IsSeq(l) /\ Len(l) = 9 BY <1>3, FunctionIs
<1> QED BY <1>1, <1>3, <1>4, Zenon DEF MesaList, l

(* Mesa fills its buffers in. *)
LEMMA MesaFills ==
  ASSUME runtime = "mesa", MesaSame, Fill
  PROVE  MesaSame'
<1>1. /\ ~dump.done /\ ~filled /\ filled' /\ dump' = dump /\ plan' = plan /\ Length' = Length
      /\ IsSeq(buffers)
  <2>1. dump.done => filled BY DEF MesaSame
  <2>2. ~filled BY DEF Fill
  <2> QED BY <2>1, <2>2 DEF Fill, MesaSame, Length
<1>2. Len(buffers) = 5 /\ DOMAIN buffers = 1..5
  <2>1. Len(buffers) = 5 BY MesaLayout DEF Fill
  <2> QED BY <2>1, <1>1, SeqIs
<1>3. \A i \in 1..5 : MesaBuffer(buffers[i], i) /\ buffers[i].mem = Zeros(MesaSize(i))
  BY <1>1, <1>2 DEF MesaSame
<1>4. \A i \in 1..5 : /\ buffers[i].dma = MesaAddr(i) /\ DOMAIN buffers[i] = BufferFields
                      /\ DOMAIN buffers[i].mem = 1..MesaSize(i) /\ MesaSize(i) \in Nat
  <2>1. \A i \in 1..5 : MesaSize(i) \in Nat BY DEF MesaSize
  <2>2. \A i \in 1..5 : DOMAIN buffers[i].mem = 1..MesaSize(i) BY <2>1, <1>3 DEF Zeros
  <2> QED BY <2>1, <2>2, <1>3 DEF MesaBuffer
<1> DEFINE full(i) == Filled(buffers[i].mem, Contents[Layout[i][1]])
<1>5. buffers' = [i \in 1..5 |-> [buffers[i] EXCEPT !.mem = full(i)]] BY <1>2 DEF Fill
<1> HIDE DEF full
<1>6. \A i \in 1..5 : /\ buffers'[i].mem = full(i) /\ buffers'[i].dma = MesaAddr(i)
                      /\ DOMAIN buffers'[i] = BufferFields
  <2> SUFFICES ASSUME NEW i \in 1..5
               PROVE  /\ buffers'[i].mem = full(i) /\ buffers'[i].dma = MesaAddr(i)
                      /\ DOMAIN buffers'[i] = BufferFields
    OBVIOUS
  <2>1. buffers'[i] = [buffers[i] EXCEPT !.mem = full(i)] BY <1>5
  <2> QED BY <2>1, <1>4 DEF BufferFields
<1>7. /\ Contents["regcmd"] = ListOf(plan[1]) /\ Contents["weights"] = << <<0, 1>> >>
      /\ Contents["bias"] = << <<0, 2>>, <<0, 1>> >> /\ Contents["input"] = Ramp
      /\ Contents["output"] = <<>>
  <2>1. runtime # "rknn" OBVIOUS
  <2> QED BY <2>1, Zenon DEF Contents
<1>8. full(1) = ListOf(plan[1]) /\ MesaList(ListOf(plan[1]), MesaCaptured)
  <2>1. MesaList(ListOf(plan[1]), MesaCaptured) BY <1>4, MesaListIs DEF MesaSame
  <2>2. IsSeq(ListOf(plan[1])) /\ Len(ListOf(plan[1])) = 9 BY <2>1 DEF MesaList
  <2>3. DOMAIN buffers[1].mem = 1..9
    <3>1. MesaSize(1) = 9 /\ 1 \in 1..5 BY DEF MesaSize
    <3> QED BY <3>1, <1>4
  <2>4. Layout[1][1] = "regcmd" BY MesaLayout
  <2>5. 9 \in Nat OBVIOUS
  <2>6. full(1) = Filled(buffers[1].mem, ListOf(plan[1])) BY <2>4, <1>7, Zenon DEF full
  <2> QED BY <2>1, <2>2, <2>3, <2>5, <2>6, FilledIs
<1>9. full(2) = MesaData(2)
  <2>1. DOMAIN buffers[2].mem = 1..1
    <3>1. MesaSize(2) = 1 /\ 2 \in 1..5 BY DEF MesaSize
    <3> QED BY <3>1, <1>4
  <2> DEFINE cells == << <<0, 1>> >>
  <2>2. cells = [k \in 1..1 |-> cells[k]] OBVIOUS
  <2>3. full(2) = Filled(buffers[2].mem, cells) BY <1>7, MesaLayout DEF full
  <2>4. cells = MesaData(2) BY DEF MesaData
  <2> HIDE DEF cells
  <2>5. 1 \in Nat OBVIOUS
  <2>6. IsSeq(cells) /\ Len(cells) = 1 BY <2>2, <2>5, FunctionIs
  <2> QED BY <2>1, <2>3, <2>4, <2>5, <2>6, FilledIs
<1>10. full(3) = MesaData(3) /\ full(4) = MesaData(4)
  <2>1. DOMAIN buffers[3].mem = 1..2 /\ DOMAIN buffers[4].mem = 1..2
    <3>1. MesaSize(3) = 2 /\ MesaSize(4) = 2 /\ 3 \in 1..5 /\ 4 \in 1..5 BY DEF MesaSize
    <3> QED BY <3>1, <1>4
  <2> DEFINE cells == << <<0, 2>>, <<0, 1>> >>
  <2>2. cells = [k \in 1..2 |-> cells[k]] /\ Ramp = [k \in 1..2 |-> Ramp[k]] BY DEF Ramp
  <2>3. full(3) = Filled(buffers[3].mem, cells) /\ full(4) = Filled(buffers[4].mem, Ramp)
    BY <1>7, MesaLayout DEF full
  <2>4. cells = MesaData(3) /\ Ramp = MesaData(4) BY DEF MesaData
  <2> HIDE DEF cells
  <2>5. 2 \in Nat OBVIOUS
  <2>6. IsSeq(cells) /\ Len(cells) = 2 /\ IsSeq(Ramp) /\ Len(Ramp) = 2 BY <2>2, <2>5, FunctionIs
  <2> QED BY <2>1, <2>3, <2>4, <2>5, <2>6, FilledIs
<1>11. full(5) = MesaData(5)
  <2>1. buffers[5].mem = Zeros(2)
    <3>1. MesaSize(5) = 2 /\ 5 \in 1..5 BY DEF MesaSize
    <3> QED BY <3>1, <1>3
  <2>2. full(5) = Filled(Zeros(2), <<>>) BY <2>1, <1>7, MesaLayout DEF full
  <2>3. Filled(Zeros(2), <<>>) = Zeros(2) BY DEF Filled, Zeros
  <2> QED BY <2>2, <2>3 DEF MesaData
<1>12. \A i \in 2..5 : full(i) = MesaData(i)
  <2>1. \A i \in 2..5 : i = 2 \/ i = 3 \/ i = 4 \/ i = 5 OBVIOUS
  <2> QED BY <2>1, <1>9, <1>10, <1>11
<1>13. \A i \in 1..5 : IsSeq(full(i)) /\ Len(full(i)) = MesaSize(i)
  <2> SUFFICES ASSUME NEW i \in 1..5 PROVE IsSeq(full(i)) /\ Len(full(i)) = MesaSize(i)
    OBVIOUS
  <2>1. DOMAIN buffers[i].mem = 1..MesaSize(i) /\ MesaSize(i) \in Nat BY <1>4
  <2>2. full(i) = [k \in 1..MesaSize(i) |-> full(i)[k]] BY <2>1 DEF full, Filled
  <2> QED BY <2>1, <2>2, FunctionIs
<1>14. IsSeq(buffers') /\ Len(buffers') = 5
  <2>1. buffers' = [i \in 1..5 |-> buffers'[i]] BY <1>5
  <2>2. 5 \in Nat OBVIOUS
  <2> QED BY <2>1, <2>2, FunctionIs
<1>15. \A i \in 1..5 : MesaBuffer(buffers[i], i)' BY <1>6, <1>13 DEF MesaBuffer, MesaAddr
<1>16. MesaList(buffers[1].mem, MesaCaptured)' /\ \A i \in 2..5 : buffers'[i].mem = MesaData(i)
  <2>1. buffers'[1].mem = ListOf(plan[1])
    <3>1. 1 \in 1..5 OBVIOUS
    <3> QED BY <3>1, <1>6, <1>8
  <2>2. \A i \in 2..5 : i \in 1..5 OBVIOUS
  <2> QED BY <2>1, <2>2, <1>6, <1>8, <1>12 DEF MesaList, MesaCaptured, MesaAddr
<1> QED BY <1>1, <1>14, <1>15, <1>16 DEF MesaSame

(* A part of a sequence, whatever it is of. *)
LEMMA PartIs ==
  ASSUME NEW s, IsSeq(s), NEW m \in Nat \ {0}, NEW n \in Nat, n = Len(s), NEW l \in Nat, l <= n, m <= l + 1
  PROVE  IsSeqOf(SubSeq(s, m, l), l - m + 1) /\ \A k \in 1..(l - m + 1) : SubSeq(s, m, l)[k] = s[m + k - 1]
<1>1. PICK S : s \in Seq(S) BY DEF IsSeq
<1> DEFINE t == SubSeq(s, m, l)
           d == l - m + 1
<1>2. d \in Nat /\ t \in Seq(S) BY <1>1
<1>3. \A k \in 1..d : t[k] = s[m + k - 1] BY <1>1
<1>4. Len(t) = d BY <1>1
<1>5. IsSeq(t) BY <1>2 DEF IsSeq
<1> QED BY <1>2, <1>3, <1>4, <1>5 DEF IsSeqOf

(* Mesa's dump, and the run that follows it. *)
LEMMA MesaDumped ==
  ASSUME runtime = "mesa", MesaSame, MesaDumps
  PROVE  MesaSame'
<1>1. /\ ~dump.done /\ filled /\ filled' = filled /\ plan' = plan /\ Length' = Length
      /\ plan[1].src = <<"input", 0>> /\ plan[1].dst = <<"output", 0>> /\ Length = 1
  BY DEF MesaDumps, MesaSame, Length
<1>2. /\ IsSeq(buffers) /\ Len(buffers) = 5 /\ MesaList(buffers[1].mem, MesaCaptured)
      /\ \A i \in 1..5 : MesaBuffer(buffers[i], i)
      /\ \A i \in 2..5 : buffers[i].mem = MesaData(i)
  BY <1>1 DEF MesaSame
<1>3. DOMAIN buffers = 1..5 BY <1>2, SeqIs
<1>4. Top \in Nat BY ReplayConstantsOK
<1>5. \A i \in 1..5 : /\ DOMAIN buffers[i] = BufferFields /\ buffers[i].dma = MesaAddr(i)
                      /\ buffers[i].dma \in Int
                      /\ IsSeq(buffers[i].mem) /\ Len(buffers[i].mem) = MesaSize(i)
  <2>1. \A i \in 1..5 : MesaAddr(i) \in Int BY <1>4 DEF MesaAddr
  <2> QED BY <2>1, <1>2 DEF MesaBuffer
<1>6. MesaPlaced(buffers)
  <2>1. \A i, j \in 1..5 : i # j => \/ MesaAddr(i) + MesaSize(i) <= MesaAddr(j)
                                    \/ MesaAddr(j) + MesaSize(j) <= MesaAddr(i)
    BY <1>4 DEF MesaAddr, MesaSize
  <2>2. \A i, j \in 1..5 : i # j => \/ buffers[i].dma + MesaSize(i) <= buffers[j].dma
                                    \/ buffers[j].dma + MesaSize(j) <= buffers[i].dma
    BY <2>1, <1>5
  <2> QED BY <2>2, <1>3, <1>5, MesaPlacedIs
<1> DEFINE words == buffers[1].mem
           tasks == [t \in 1..1 |-> [regcmd |-> buffers[1].dma, count |-> 9]]
           task == tasks[1]
           file == [i \in DOMAIN buffers |-> buffers[i].mem]
<1>7. Addresses(buffers) = MesaCaptured BY <1>5 DEF Addresses, MesaCaptured
<1>8. MesaList(words, Addresses(buffers)) /\ Len(words) = 9 /\ IsSeq(words)
  BY <1>2, <1>7 DEF MesaList
<1>9. Upto(words, words, 9)
  <2>1. \A k \in 1..9 : \A r \in Registers : words[k][1] = r <=> Place(r) = k
    BY <1>8, MesaPlaces
  <2>2. \A r \in Registers : Place(r) \in 1..9 BY DEF Place
  <2>3. ASSUME NEW r \in Registers
        PROVE  IF Place(r) <= 9 THEN Once(words, r, words[Place(r)][2]) ELSE Never(words, r)
    <3>1. PICK p \in 1..9 : p = Place(r) BY <2>2
    <3>2. \A j \in 1..9 : words[j][1] = r <=> j = p BY <2>1, <3>1
    <3>3. Once(words, r, words[p][2]) BY <3>2, <1>8 DEF Once
    <3> QED BY <3>1, <3>3
  <2>4. Len(words) \in 0..9 BY <1>8
  <2> QED BY <1>8, <2>3, <2>4 DEF Upto
<1>10. MesaReady(buffers, task)
  <2>1. task.regcmd = buffers[1].dma /\ task.count = 9 OBVIOUS
  <2>2. \A k \in 1..Len(words) : buffers[1].mem[k] = words[k] OBVIOUS
  <2>3. task.count = Len(words) BY <2>1, <1>8
  <2> HIDE DEF words, tasks
  <2>4. MesaFetches(buffers, task, words, words) BY <1>8, <1>9, <2>1, <2>2, <2>3 DEF MesaFetches
  <2> QED BY <1>2, <1>6, <2>4 DEF MesaReady
<1>11. buffers' = Execute(buffers, task)
  <2>1. At("regcmd", 0) = buffers[1].dma
    <3>1. Role("regcmd") = 1 BY MesaLayout
    <3>2. At("regcmd", 0) = buffers[1].dma + 0 BY <3>1 DEF At
    <3>3. 1 \in 1..5 OBVIOUS
    <3> QED BY <3>2, <3>3, <1>5
  <2>2. runtime # "rknn" OBVIOUS
  <2>3. buffers' = ExecuteAll(buffers, tasks) BY <1>1, <2>1, <2>2 DEF MesaDumps, Computed, WordsOfAList
  <2>4. Len(tasks) = 1 OBVIOUS
  <2> HIDE DEF tasks
  <2> QED BY <2>3, <2>4, AllIs
<1> HIDE DEF tasks
<1>12. Len(buffers') = 5 /\ buffers'[5].mem = MesaOut BY <1>2, <1>10, <1>11, MesaRun, ExecuteLen
<1>13. dump' = [NoDump EXCEPT !.done = TRUE, !.file = SubSeq(file, 1, 3)]
  BY DEF MesaDumps
<1>14. IsSeq(file) /\ Len(file) = 5 /\ \A i \in 1..5 : file[i] = buffers[i].mem
  <2>1. file = [i \in 1..5 |-> file[i]] /\ \A i \in 1..5 : file[i] = buffers[i].mem BY <1>3
  <2>2. 5 \in Nat OBVIOUS
  <2> HIDE DEF file
  <2> QED BY <2>1, <2>2, FunctionIs
<1> HIDE DEF file
<1>15. dump'.done /\ dump'.file = SubSeq(file, 1, 3) BY <1>13 DEF NoDump
<1>16. \A k \in 1..3 : dump'.file[k] = buffers[k].mem
  <2>1. 1 \in Nat \ {0} /\ 5 \in Nat /\ 3 \in Nat /\ 3 <= 5 /\ 1 <= 3 + 1 /\ 3 - 1 + 1 = 3 OBVIOUS
  <2>2. \A k \in 1..(3 - 1 + 1) : SubSeq(file, 1, 3)[k] = file[1 + k - 1] BY <2>1, <1>14, PartIs
  <2>3. \A k \in 1..3 : 1 + k - 1 = k /\ k \in 1..5 OBVIOUS
  <2> QED BY <2>1, <2>2, <2>3, <1>14, <1>15
<1>17. MesaList(dump'.file[1], MesaCaptured) /\ \A i \in 2..3 : dump'.file[i] = MesaData(i)
  <2>1. 1 \in 1..3 /\ \A i \in 2..3 : i \in 1..3 /\ i \in 2..5 OBVIOUS
  <2> QED BY <2>1, <1>2, <1>16
<1>18. MesaList(dump.file[1], MesaCaptured)'
  BY <1>17 DEF MesaList, MesaCaptured, MesaAddr
<1> QED BY <1>1, <1>12, <1>15, <1>17, <1>18 DEF MesaSame

(* A program leaves the capture alone. *)
LEMMA MesaRests ==
  ASSUME MesaSame, UNCHANGED capture
  PROVE  MesaSame'
<1>1. /\ Length' = Length /\ plan' = plan /\ buffers' = buffers /\ dump' = dump /\ filled' = filled
      /\ MesaCaptured' = MesaCaptured
  BY DEF capture, Length, MesaCaptured, MesaAddr
<1>2. \A i : MesaBuffer(buffers[i], i) => MesaBuffer(buffers[i], i)' BY <1>1 DEF MesaBuffer, MesaAddr
<1>3. MesaList(dump.file[1], MesaCaptured) => MesaList(dump.file[1], MesaCaptured)'
  BY <1>1 DEF MesaList
<1>4. MesaList(buffers[1].mem, MesaCaptured) => MesaList(buffers[1].mem, MesaCaptured)'
  BY <1>1 DEF MesaList
<1> QED BY <1>1, <1>2, <1>3, <1>4 DEF MesaSame

(* Mesa goes on: it has not written its files. *)
LEMMA MesaCaptures ==
  ASSUME ReplayInv, runtime = "mesa", MesaSame, CaptureNext
  PROVE  MesaSame' /\ ~dump.done
<1>1. ~dump.done
  <2>1. dump.done => filled /\ Len(buffers) = 5 BY DEF MesaSame
  <2>2. Len(Layout) = 5 BY MesaLayout
  <2>3. ASSUME MemCreate PROVE ~dump.done
    <3>1. Len(buffers) < Len(Layout) BY <2>3 DEF MemCreate
    <3> QED BY <2>1, <2>2, <3>1
  <2>4. ASSUME Fill PROVE ~dump.done BY <2>1, <2>4 DEF Fill
  <2>5. ASSUME MesaDumps \/ \E missing \in 0..3 : Submit(missing) PROVE ~dump.done
    BY <2>5 DEF Submit, MesaDumps
  <2> QED BY <2>3, <2>4, <2>5 DEF CaptureNext
<1>2. MemCreate \/ Fill \/ MesaDumps BY DEF CaptureNext, Submit
<1> QED BY <1>1, <1>2, MesaCreates, MesaFills, MesaDumped
-----------------------------------------------------------------------------
(* Mesa's payload in the program's buffers. *)

\* replay_mesa's buffers, loaded, and until its task has run and after.
MesaLoaded ==
  /\ DOMAIN me.bo = 1..5
  /\ \A i \in 1..5 : /\ DOMAIN me.bo[i] = BoFields /\ me.bo[i].created /\ me.bo[i].dma \in Int
  /\ \A i, j \in 1..5 : i # j => \/ me.bo[i].dma + MesaSize(i) <= me.bo[j].dma
                                 \/ me.bo[j].dma + MesaSize(j) <= me.bo[i].dma
  /\ MesaList(me.bo[1].cpu, MesaCaptured)
  /\ \A i \in 2..5 : me.bo[i].cpu = MesaData(i)

MesaWorks ==
  /\ BoOK /\ Len(me.tasks) = 1 /\ me.ran \in {0, 1}
  /\ me.ran = 0 => MesaReady(Devices, me.tasks[1])
  /\ me.ran = 1 => me.bo[5].mem = MesaOut

MesaRuns ==
  /\ me.pc \in {"meta", "patch"} => me.ran = 0
  /\ "cbuf" \notin me.knobs /\ me.pc = "patch" => MesaLoaded
  /\ "cbuf" \notin me.knobs /\ me.pc \in {"wait", "report"} => MesaWorks

MesaInv == ReplayInv /\ runtime = "mesa" /\ MesaSame /\ MesaRuns

(* What Mesa loads fits its buffers. *)
LEMMA MesaDataIs == \A i \in 2..5 : IsSeq(MesaData(i)) /\ Len(MesaData(i)) = MesaSize(i)
<1>1. \A i \in 2..5 : i = 2 \/ i = 3 \/ i = 4 \/ i = 5 OBVIOUS
<1> DEFINE a == << <<0, 1>> >>
           b == << <<0, 2>>, <<0, 1>> >>
<1>2. a = [k \in 1..1 |-> a[k]] /\ b = [k \in 1..2 |-> b[k]] /\ Ramp = [k \in 1..2 |-> Ramp[k]]
  BY DEF Ramp
<1>3. MesaData(2) = a /\ MesaData(3) = b /\ MesaData(4) = Ramp /\ MesaData(5) = Zeros(2)
  BY DEF MesaData
<1>4. MesaSize(2) = 1 /\ MesaSize(3) = 2 /\ MesaSize(4) = 2 /\ MesaSize(5) = 2 BY DEF MesaSize
<1> HIDE DEF a, b
<1>5. 1 \in Nat /\ 2 \in Nat OBVIOUS
<1>6. /\ IsSeq(a) /\ Len(a) = 1 /\ IsSeq(b) /\ Len(b) = 2 /\ IsSeq(Ramp) /\ Len(Ramp) = 2
      /\ IsSeq(Zeros(2)) /\ Len(Zeros(2)) = 2
  <2>1. IsSeq(a) /\ Len(a) = 1 BY <1>2, <1>5, FunctionIs
  <2>2. IsSeq(b) /\ Len(b) = 2 BY <1>2, <1>5, FunctionIs
  <2>3. IsSeq(Ramp) /\ Len(Ramp) = 2 BY <1>2, <1>5, FunctionIs
  <2>4. IsSeq(Zeros(2)) /\ Len(Zeros(2)) = 2 BY <1>5, ZerosBlank
  <2> QED BY <2>1, <2>2, <2>3, <2>4
<1> QED BY <1>1, <1>3, <1>4, <1>6

(* The files are loaded. *)
LEMMA LoadRuns ==
  ASSUME MesaInv, MesaLoad, me' # Exits(1)
  PROVE  MesaLoaded' /\ me'.ran = 0 /\ me'.pc = "patch" /\ me'.knobs = me.knobs
<1>1. me.prog = "mesa" /\ me.pc = "meta" /\ UNCHANGED capture /\ OnTheWay /\ dump.done /\ me.ran = 0
  BY Going DEF MesaLoad, In, MesaInv, MesaRuns
<1> DEFINE content == <<dump.file[1], dump.file[2], dump.file[3], Ramp, Zeros(2)>>
           sizes == [i \in 1..5 |-> Len(content[i])]
           New(dma) == [i \in 1..5 |-> [vdma |-> -1, vsize |-> 0, created |-> TRUE, dma |-> dma[i],
                                        cpu |-> content[i], mem |-> Zeros(sizes[i])]]
<1>2. PICK dma \in Places : /\ NoOverlap(dma, sizes)
                            /\ me' = [Goes("patch") EXCEPT !.out = B_OUT, !.bo = New(dma)]
  BY DEF MesaLoad
<1> DEFINE new == New(dma)
<1>3. /\ MesaList(dump.file[1], MesaCaptured) /\ dump.file[2] = MesaData(2)
      /\ dump.file[3] = MesaData(3)
  <2>1. 2 \in 2..3 /\ 3 \in 2..3 OBVIOUS
  <2> QED BY <2>1, <1>1 DEF MesaInv, MesaSame
<1>4. /\ content[1] = dump.file[1] /\ content[2] = dump.file[2] /\ content[3] = dump.file[3]
      /\ content[4] = Ramp /\ content[5] = Zeros(2)
  OBVIOUS
<1> HIDE DEF content
<1>5. \A i \in 2..5 : content[i] = MesaData(i)
  <2>1. \A i \in 2..5 : i = 2 \/ i = 3 \/ i = 4 \/ i = 5 OBVIOUS
  <2>2. content[4] = MesaData(4) /\ content[5] = MesaData(5) BY <1>4 DEF MesaData
  <2> QED BY <2>1, <2>2, <1>3, <1>4
<1>6. \A i \in 1..5 : Len(content[i]) = MesaSize(i)
  <2>1. Len(content[1]) = 9 BY <1>3, <1>4 DEF MesaList
  <2>2. Len(MesaData(2)) = 1 /\ Len(MesaData(3)) = 2 /\ Len(MesaData(4)) = 2 /\ Len(MesaData(5)) = 2
    <3>1. Len(Zeros(2)) = 2 BY ZerosBlank
    <3> QED BY <3>1 DEF MesaData, Ramp
  <2>3. \A i \in 1..5 : i = 1 \/ i = 2 \/ i = 3 \/ i = 4 \/ i = 5 OBVIOUS
  <2>4. 2 \in 2..5 /\ 3 \in 2..5 /\ 4 \in 2..5 /\ 5 \in 2..5 OBVIOUS
  <2> QED BY <2>1, <2>2, <2>3, <2>4, <1>5 DEF MesaSize
<1>7. \A i \in 1..5 : dma[i] \in Int
  <2>1. dma \in [1..MaxBo -> Nat] /\ MaxBo \in Nat /\ MaxBo >= 5 BY ReplayConstantsOK
  <2> QED BY <2>1
<1>8. \A i, j \in 1..5 : i # j => dma[i] + MesaSize(i) <= dma[j] \/ dma[j] + MesaSize(j) <= dma[i]
  <2>1. DOMAIN sizes = 1..5 /\ \A i \in 1..5 : sizes[i] = MesaSize(i) BY <1>6
  <2> HIDE DEF sizes
  <2> QED BY <1>2, <2>1 DEF NoOverlap
<1> HIDE DEF sizes
<1>9. DOMAIN new = 1..5 /\ \A i \in 1..5 : /\ DOMAIN new[i] = BoFields /\ new[i].created
                                           /\ new[i].dma = dma[i] /\ new[i].cpu = content[i]
  BY DEF BoFields
<1> HIDE DEF new
<1>10. /\ me'.bo = new /\ me'.ran = me.ran /\ me'.pc = "patch" /\ me'.knobs = me.knobs
  <2>1. me' = [Goes("patch") EXCEPT !.out = B_OUT, !.bo = new] BY <1>2 DEF new
  <2> QED BY <2>1, <1>1 DEF Goes, MeFields, OnTheWay
<1>11. MesaList(me.bo[1].cpu, MesaCaptured)'
  <2>1. me'.bo[1].cpu = dump.file[1]
    <3>1. 1 \in 1..5 OBVIOUS
    <3> QED BY <3>1, <1>4, <1>9, <1>10
  <2> QED BY <2>1, <1>3 DEF MesaList, MesaCaptured, MesaAddr
<1>12. \A i \in 2..5 : me'.bo[i].cpu = MesaData(i)
  <2>1. \A i \in 2..5 : i \in 1..5 OBVIOUS
  <2> QED BY <2>1, <1>5, <1>9, <1>10
<1> QED BY <1>1, <1>7, <1>8, <1>9, <1>10, <1>11, <1>12 DEF MesaLoaded

(* The word Mesa's replay writes for a register. *)
LEMMA WordIs ==
  ASSUME NEW w, "cbuf" \notin me.knobs
  PROVE  /\ w[1] = SRC => MesaWord(w) = <<SRC, OwnAt[4]>>
         /\ w[1] = WT => MesaWord(w) = <<WT, OwnAt[2]>>
         /\ w[1] = DST => MesaWord(w) = <<DST, OwnAt[5]>>
         /\ w[1] = BIAS => MesaWord(w) = <<BIAS, OwnAt[3]>>
         /\ w[1] = SCALE => MesaWord(w) = <<SCALE, OwnAt[3] + 1>>
         /\ w[1] \in {PAD, CBUF, OPEN, 0} => MesaWord(w) = <<w[1], w[2]>>
<1>1. /\ OwnAt[2] = me.bo[2].dma /\ OwnAt[3] = me.bo[3].dma /\ OwnAt[4] = me.bo[4].dma
      /\ OwnAt[5] = me.bo[5].dma
  BY DEF OwnAt
<1> DEFINE v == IF w[1] = SRC THEN me.bo[4].dma
            ELSE IF w[1] = WT THEN me.bo[2].dma
            ELSE IF w[1] = DST THEN me.bo[5].dma
            ELSE IF w[1] = BIAS THEN me.bo[3].dma
            ELSE IF w[1] = SCALE THEN me.bo[3].dma + 1
            ELSE w[2]
<1>2. MesaWord(w) = <<w[1], v>>
  BY DEF MesaWord, B_IN, B_WT, B_OUT, B_BIAS
<1>3. /\ w[1] = SRC => v = OwnAt[4]
      /\ w[1] = WT => v = OwnAt[2]
      /\ w[1] = DST => v = OwnAt[5]
      /\ w[1] = BIAS => v = OwnAt[3]
      /\ w[1] = SCALE => v = OwnAt[3] + 1
      /\ w[1] \in {PAD, CBUF, OPEN, 0} => v = w[2]
  BY <1>1 DEF SRC, WT, DST, BIAS, SCALE, PAD, CBUF, OPEN
<1> HIDE DEF v
<1> QED BY <1>2, <1>3

(* Every word of Mesa's list that held an address points into the program's buffers. *)
LEMMA WordsAre ==
  ASSUME MesaLoaded, "cbuf" \notin me.knobs,
         NEW words, words = [k \in DOMAIN me.bo[1].cpu |-> MesaWord(me.bo[1].cpu[k])]
  PROVE  MesaList(words, OwnAt)
<1> DEFINE l == me.bo[1].cpu
<1>1. /\ IsSeq(l) /\ Len(l) = 9
      /\ l[1] = <<SRC, MesaCaptured[4]>> /\ l[2] = <<WT, MesaCaptured[2]>> /\ l[3] = <<PAD, Top - 1>>
      /\ l[4] = <<CBUF, 5>> /\ l[5] = <<OPEN, 1>> /\ l[6] = <<BIAS, MesaCaptured[3]>>
      /\ l[7] = <<SCALE, MesaCaptured[3] + 1>> /\ l[8] = <<DST, MesaCaptured[5]>> /\ l[9] = <<0, 0>>
  BY DEF MesaLoaded, MesaList
<1>2. DOMAIN l = 1..9 BY <1>1, SeqIs
<1> HIDE DEF l
<1>3. words = [k \in 1..9 |-> MesaWord(l[k])] BY <1>2 DEF l
<1>4. words = [k \in 1..9 |-> words[k]] /\ \A k \in 1..9 : words[k] = MesaWord(l[k]) BY <1>3
<1>5. IsSeq(words) /\ Len(words) = 9
  <2>1. 9 \in Nat OBVIOUS
  <2> QED BY <1>4, <2>1, FunctionIs
<1>7. /\ l[1][1] = SRC /\ l[2][1] = WT /\ l[3][1] = PAD /\ l[4][1] = CBUF /\ l[5][1] = OPEN
      /\ l[6][1] = BIAS /\ l[7][1] = SCALE /\ l[8][1] = DST /\ l[9][1] = 0
      /\ l[3][2] = Top - 1 /\ l[4][2] = 5 /\ l[5][2] = 1 /\ l[9][2] = 0
  BY <1>1
<1>8. /\ words[1] = MesaWord(l[1]) /\ words[2] = MesaWord(l[2]) /\ words[3] = MesaWord(l[3])
      /\ words[4] = MesaWord(l[4]) /\ words[5] = MesaWord(l[5]) /\ words[6] = MesaWord(l[6])
      /\ words[7] = MesaWord(l[7]) /\ words[8] = MesaWord(l[8]) /\ words[9] = MesaWord(l[9])
  BY <1>4
<1>9. /\ words[1] = <<SRC, OwnAt[4]>> /\ words[2] = <<WT, OwnAt[2]>> /\ words[3] = <<PAD, Top - 1>>
  <2>1. words[1] = <<SRC, OwnAt[4]>> BY <1>7, <1>8, WordIs
  <2>2. words[2] = <<WT, OwnAt[2]>> BY <1>7, <1>8, WordIs
  <2>3. words[3] = <<PAD, Top - 1>> BY <1>7, <1>8, WordIs
  <2> QED BY <2>1, <2>2, <2>3
<1>10. /\ words[4] = <<CBUF, 5>> /\ words[5] = <<OPEN, 1>> /\ words[6] = <<BIAS, OwnAt[3]>>
  <2>1. words[4] = <<CBUF, 5>> BY <1>7, <1>8, WordIs
  <2>2. words[5] = <<OPEN, 1>> BY <1>7, <1>8, WordIs
  <2>3. words[6] = <<BIAS, OwnAt[3]>> BY <1>7, <1>8, WordIs
  <2> QED BY <2>1, <2>2, <2>3
<1>11. /\ words[7] = <<SCALE, OwnAt[3] + 1>> /\ words[8] = <<DST, OwnAt[5]>> /\ words[9] = <<0, 0>>
  <2>1. words[7] = <<SCALE, OwnAt[3] + 1>> BY <1>7, <1>8, WordIs
  <2>2. words[8] = <<DST, OwnAt[5]>> BY <1>7, <1>8, WordIs
  <2>3. words[9] = <<0, 0>> BY <1>7, <1>8, WordIs
  <2> QED BY <2>1, <2>2, <2>3
<1> QED BY <1>5, <1>9, <1>10, <1>11 DEF MesaList

(* The list is patched, its words that stay moved to the front, and everything flushed. *)
LEMMA MesaPatchRuns ==
  ASSUME MesaInv, MesaPatch, me' # Exits(1), "cbuf" \notin me.knobs
  PROVE  MesaWorks'
<1>1. me.prog = "mesa" /\ me.pc = "patch" /\ OnTheWay BY Going DEF MesaPatch, In, MesaInv
<1>2. MesaLoaded /\ me.ran = 0 BY <1>1 DEF MesaInv, MesaRuns
<1> DEFINE words == [k \in DOMAIN me.bo[1].cpu |-> MesaWord(me.bo[1].cpu[k])]
           kept == Stripped(words)
           rest == SubSeq(words, Len(kept) + 1, Len(words))
           list == kept \o rest
           bos == [me.bo EXCEPT ![1].cpu = list]
           new == FlushedAll(bos)
           tasks == << [regcmd |-> me.bo[1].dma, count |-> Len(kept)] >>
<1>3. me' = [Goes("wait") EXCEPT !.bo = new, !.tasks = tasks,
                !.ins = {B_WT, B_IN}, !.outs = {B_OUT, B_BIAS}, !.jobs = <<1>>]
  BY DEF MesaPatch, B_RC
<1>4. tasks[1].regcmd = me.bo[1].dma /\ tasks[1].count = Len(kept) /\ Len(tasks) = 1 OBVIOUS
<1> HIDE DEF tasks
<1>5. MesaList(words, OwnAt) BY <1>2, WordsAre
<1> HIDE DEF words
<1>6. Upto(kept, words, 9) BY <1>5, StrippedIs
<1>7. IsCat(list, kept, rest) BY DEF IsCat
<1> HIDE DEF kept
<1>8. PICK n \in 0..9 : n = Len(kept) /\ IsSeq(kept) BY <1>6 DEF Upto
<1>9. IsSeq(words) /\ Len(words) = 9 BY <1>5 DEF MesaList
<1>10. IsSeqOf(rest, 9 - n)
  <2>1. n + 1 \in Nat \ {0} /\ 9 \in Nat /\ 9 <= 9 /\ n + 1 <= 9 + 1 /\ 9 - (n + 1) + 1 = 9 - n
    OBVIOUS
  <2>2. rest = SubSeq(words, n + 1, 9) BY <1>8, <1>9
  <2>3. IsSeqOf(SubSeq(words, n + 1, 9), 9 - (n + 1) + 1) BY <1>9, <2>1, PartIs
  <2> QED BY <2>1, <2>2, <2>3
<1> HIDE DEF rest, list
<1>11. IsSeqOf(list, 9) /\ \A k \in 1..n : list[k] = kept[k]
  <2>1. n \in Nat /\ 9 - n \in Nat /\ n + (9 - n) = 9 OBVIOUS
  <2>2. IsSeqOf(kept, n) BY <1>8 DEF IsSeqOf
  <2>3. IsSeqOf(list, n + (9 - n)) /\ \A k \in 1..n : list[k] = kept[k] BY <1>7, <1>10, <2>1, <2>2, CatIs
  <2> QED BY <2>1, <2>3
<1>12. IsSeq(list) /\ Len(list) = 9 BY <1>11 DEF IsSeqOf
<1>13. /\ DOMAIN me.bo = 1..5
       /\ \A i \in 1..5 : DOMAIN me.bo[i] = BoFields /\ me.bo[i].created /\ me.bo[i].dma \in Int
       /\ \A i, j \in 1..5 : i # j => \/ me.bo[i].dma + MesaSize(i) <= me.bo[j].dma
                                      \/ me.bo[j].dma + MesaSize(j) <= me.bo[i].dma
       /\ \A i \in 2..5 : me.bo[i].cpu = MesaData(i)
  BY <1>2 DEF MesaLoaded
<1>14. /\ DOMAIN bos = 1..5 /\ \A i \in 2..5 : bos[i] = me.bo[i]
       /\ bos[1] = [me.bo[1] EXCEPT !.cpu = list]
  BY <1>13
<1> HIDE DEF bos
<1>15. /\ DOMAIN bos[1] = BoFields /\ bos[1].created /\ bos[1].dma = me.bo[1].dma /\ bos[1].cpu = list
  <2>1. DOMAIN me.bo[1] = BoFields /\ me.bo[1].created
    <3>1. 1 \in 1..5 OBVIOUS
    <3> QED BY <3>1, <1>13
  <2> QED BY <2>1, <1>14 DEF BoFields
<1>16. \A i \in 1..5 : i = 1 \/ i \in 2..5 OBVIOUS
<1>17. \A i \in 1..5 : DOMAIN bos[i] = BoFields /\ bos[i].created /\ bos[i].dma = me.bo[i].dma
  BY <1>13, <1>14, <1>15, <1>16
<1>18. /\ DOMAIN new = 1..5
       /\ \A i \in 1..5 : /\ DOMAIN new[i] = BoFields /\ new[i].dma = me.bo[i].dma
                          /\ new[i].mem = bos[i].cpu
  <2>1. \A i \in 1..5 : new[i] = [bos[i] EXCEPT !.mem = bos[i].cpu] BY <1>14, <1>17 DEF FlushedAll
  <2>2. DOMAIN new = 1..5 BY <1>14 DEF FlushedAll
  <2> HIDE DEF new
  <2> QED BY <2>1, <2>2, <1>17 DEF BoFields
<1> HIDE DEF new
<1>19. me'.bo = new /\ me'.tasks = tasks /\ me'.ran = 0
  BY <1>1, <1>2, <1>3 DEF Goes, MeFields, OnTheWay
<1>20. BoOK' BY <1>18, <1>19 DEF BoOK
<1> DEFINE view == Devices'
<1>21. /\ DOMAIN view = 1..5
       /\ \A i \in 1..5 : /\ DOMAIN view[i] = BufferFields
                          /\ view[i].dma = me.bo[i].dma /\ view[i].mem = bos[i].cpu
  <2>1. /\ DOMAIN view = 1..5
        /\ \A i \in 1..5 : /\ DOMAIN view[i] = BufferFields
                           /\ view[i].dma = me'.bo[i].dma /\ view[i].mem = me'.bo[i].mem
    BY <1>20, NextView
  <2> QED BY <2>1, <1>18, <1>19
<1> HIDE DEF view
<1>22. /\ view[1].mem = list /\ \A i \in 2..5 : view[i].mem = MesaData(i)
  <2>1. 1 \in 1..5 /\ \A i \in 2..5 : i \in 1..5 OBVIOUS
  <2> QED BY <2>1, <1>13, <1>14, <1>15, <1>21
<1>23. \A i \in 1..5 : IsSeq(view[i].mem) /\ Len(view[i].mem) = MesaSize(i)
  <2>1. IsSeq(view[1].mem) /\ Len(view[1].mem) = MesaSize(1) BY <1>12, <1>22 DEF MesaSize
  <2>2. \A i \in 2..5 : IsSeq(MesaData(i)) /\ Len(MesaData(i)) = MesaSize(i) BY MesaDataIs
  <2> QED BY <2>1, <2>2, <1>16, <1>22
<1>24. MesaPlaced(view) BY <1>13, <1>21, <1>23, MesaPlacedIs
<1>25. Addresses(view) = OwnAt BY <1>21 DEF Addresses, OwnAt
<1>26. MesaFetches(view, tasks[1], kept, words)
  <2>1. 1 \in 1..5 OBVIOUS
  <2>2. tasks[1].count = Len(kept) /\ tasks[1].regcmd = view[1].dma BY <2>1, <1>4, <1>21
  <2>3. \A k \in 1..Len(kept) : view[1].mem[k] = kept[k] BY <1>8, <1>11, <1>22
  <2> QED BY <2>2, <2>3, <1>5, <1>6, <1>25 DEF MesaFetches
<1>27. MesaReady(view, tasks[1]) BY <1>22, <1>24, <1>26 DEF MesaReady
<1>28. MesaReady(Devices, me.tasks[1])'
  BY <1>19, <1>27 DEF MesaReady, MesaPlaced, MesaFetches, MesaList, Upto, view
<1> QED BY <1>4, <1>19, <1>20, <1>28 DEF MesaWorks

(* Mesa's task runs. *)
LEMMA MesaTaskRuns ==
  ASSUME MesaInv, NpuRuns, "cbuf" \notin me.knobs
  PROVE  MesaWorks'
<1>1. me.pc = "wait" /\ OnTheWay BY Going DEF NpuRuns, In, MesaInv, OnTheWay
<1>2. MesaWorks BY <1>1 DEF MesaInv, MesaRuns
<1>3. me.ran = 0 /\ Len(me.tasks) = 1 /\ BoOK /\ MesaReady(Devices, me.tasks[1])
  BY <1>2 DEF NpuRuns, MesaWorks
<1> DEFINE done == Execute(Devices, me.tasks[1])
           new == After(done)
<1>4. me' = [me EXCEPT !.ran = 1, !.bo = new] BY <1>3 DEF NpuRuns
<1>5. done[5].mem = MesaOut BY <1>3, MesaRun
<1> HIDE DEF done
<1>6. /\ DOMAIN new = 1..5 /\ \A i \in 1..5 : DOMAIN new[i] = BoFields
      /\ new[5].mem = done[5].mem
  <2>1. new = [i \in 1..5 |-> [me.bo[i] EXCEPT !.mem = done[i].mem]] BY <1>3 DEF After, BoOK
  <2>2. \A i \in 1..5 : DOMAIN me.bo[i] = BoFields BY <1>3 DEF BoOK
  <2> HIDE DEF new
  <2>3. DOMAIN new = 1..5 /\ \A i \in 1..5 : DOMAIN new[i] = BoFields BY <2>1, <2>2
  <2>4. 5 \in 1..5 OBVIOUS
  <2>5. new[5] = [me.bo[5] EXCEPT !.mem = done[5].mem] BY <2>1, <2>4
  <2> QED BY <2>2, <2>3, <2>4, <2>5 DEF BoFields
<1> HIDE DEF new
<1>7. me'.bo = new /\ me'.ran = 1 /\ me'.tasks = me.tasks
  BY <1>1, <1>4 DEF MeFields, OnTheWay
<1> QED BY <1>3, <1>5, <1>6, <1>7 DEF MesaWorks, BoOK

(* Looking at the output changes nothing for the device. *)
LEMMA MesaLooks ==
  ASSUME MesaInv, Poll, "cbuf" \notin me.knobs
  PROVE  MesaWorks'
<1>1. me.pc = "wait" /\ OnTheWay BY Going DEF Poll, In, MesaInv, OnTheWay
<1>2. MesaWorks /\ BoOK BY <1>1 DEF MesaInv, MesaRuns, MesaWorks
<1> DEFINE o == me.out
           new == [me.bo EXCEPT ![o] = [me.bo[o] EXCEPT !.cpu = me.bo[o].mem]]
<1>3. PICK tries : \/ me' = [me EXCEPT !.bo = new, !.tries = tries]
                   \/ me' = [[me EXCEPT !.bo = new, !.tries = tries] EXCEPT !.pc = "report"]
  <2>1. [me EXCEPT !.bo[me.out].cpu = me.bo[me.out].mem, !.tries = @ + 1]
          = [me EXCEPT !.bo = new, !.tries = me.tries + 1]
    BY <1>1 DEF OnTheWay, MeFields
  <2> DEFINE seen == [me EXCEPT !.bo = new, !.tries = me.tries + 1]
  <2>2. me' = [seen EXCEPT !.pc = "report"] \/ me' = seen BY <2>1 DEF Poll
  <2> QED BY <2>2
<1>4. /\ DOMAIN new = 1..5
      /\ \A i \in 1..5 : /\ DOMAIN new[i] = BoFields
                         /\ new[i].dma = me.bo[i].dma /\ new[i].mem = me.bo[i].mem
  <2> HIDE DEF o
  <2>1. new = [me.bo EXCEPT ![o] = [me.bo[o] EXCEPT !.cpu = me.bo[o].mem]] OBVIOUS
  <2> HIDE DEF new
  <2> QED BY <1>2, <2>1, SeenIs
<1> HIDE DEF new
<1>5. me'.bo = new /\ me'.ran = me.ran /\ me'.tasks = me.tasks
  BY <1>1, <1>3 DEF MeFields, OnTheWay
<1>6. BoOK' BY <1>4, <1>5 DEF BoOK
<1> DEFINE view == Devices'
<1>7. view = Devices
  <2> DEFINE Of(i) == [dma |-> me.bo[i].dma, mem |-> me.bo[i].mem]
             New(i) == [dma |-> new[i].dma, mem |-> new[i].mem]
  <2>1. Devices = [i \in 1..5 |-> Of(i)] BY <1>2 DEF Devices, BoOK
  <2>2. view = [i \in 1..5 |-> New(i)] BY <1>4, <1>5 DEF Devices
  <2>3. \A i \in 1..5 : New(i) = Of(i) BY <1>4
  <2> HIDE DEF Of, New, view
  <2> QED BY <2>1, <2>2, <2>3
<1> HIDE DEF view
<1>8. me.ran = 0 => MesaReady(view, me'.tasks[1]) BY <1>2, <1>5, <1>7 DEF MesaWorks
<1>9. me'.ran = 0 => MesaReady(Devices, me.tasks[1])'
  BY <1>5, <1>8 DEF MesaReady, MesaPlaced, MesaFetches, MesaList, Upto, view
<1>10. me'.bo[5].mem = me.bo[5].mem
  <2>1. 5 \in 1..5 OBVIOUS
  <2> QED BY <2>1, <1>4, <1>5
<1> QED BY <1>2, <1>5, <1>6, <1>9, <1>10 DEF MesaWorks

(* Which step leads where. *)
LEMMA MesaSteps ==
  ASSUME MesaInv, ReplayNext
  PROVE  /\ UNCHANGED capture /\ me'.knobs = me.knobs /\ me'.pc # "meta"
         /\ me'.pc = "patch" => MesaLoad /\ me' # Exits(1)
         /\ me'.pc \in {"wait", "report"} => \/ MesaPatch /\ me' # Exits(1)
                                            \/ NpuRuns \/ Poll
<1>1. me.pc # "exit" /\ UNCHANGED capture
  BY DEF ReplayNext, Meta, Create, PatchTask, Flush, SubmitRocket, SubmitRknpu,
         NpuRuns, Poll, SyncBack, Report, MesaLoad, MesaPatch, In
<1>2. OnTheWay /\ runtime = "mesa" BY <1>1, Going DEF MesaInv
<1>3. DOMAIN me = MeFields /\ me.prog = "mesa" BY <1>2 DEF OnTheWay
<1>4. Exits(1).pc = "exit" BY <1>3 DEF Exits, MeFields
<1>5. MesaLoad \/ MesaPatch \/ NpuRuns \/ Poll \/ Report
  BY <1>3 DEF ReplayNext, Meta, Create, PatchTask, Flush, SubmitRocket, SubmitRknpu, SyncBack, In
<1>6. ASSUME MesaLoad PROVE me'.pc \in {"patch", "exit"} /\ me'.knobs = me.knobs
  <2>1. \E bo : me' = Exits(1) \/ me' = [Goes("patch") EXCEPT !.out = B_OUT, !.bo = bo]
    BY <1>6 DEF MesaLoad
  <2> QED BY <2>1, <1>3 DEF Exits, Goes, MeFields
<1>7. ASSUME MesaPatch PROVE me'.pc \in {"wait", "exit"} /\ me'.knobs = me.knobs
  <2> DEFINE words == [k \in DOMAIN me.bo[B_RC].cpu |-> MesaWord(me.bo[B_RC].cpu[k])]
             kept == Stripped(words)
             list == kept \o SubSeq(words, Len(kept) + 1, Len(words))
             flushed == FlushedAll([me.bo EXCEPT ![B_RC].cpu = list])
             task == << [regcmd |-> me.bo[B_RC].dma, count |-> Len(kept)] >>
  <2>1. \/ me' = Exits(1)
        \/ me' = [Goes("wait") EXCEPT !.bo = flushed, !.tasks = task,
                     !.ins = {B_WT, B_IN}, !.outs = {B_OUT, B_BIAS}, !.jobs = <<1>>]
    BY <1>7 DEF MesaPatch
  <2> HIDE DEF flushed, task
  <2> QED BY <2>1, <1>3 DEF Exits, Goes, MeFields
<1>8. ASSUME NpuRuns PROVE me'.pc = "wait" /\ me'.knobs = me.knobs
  <2>1. me.pc = "wait" /\ \E ran, bo : me' = [me EXCEPT !.ran = ran, !.bo = bo]
    BY <1>8 DEF NpuRuns, In
  <2> QED BY <2>1, <1>3 DEF MeFields
<1>9. ASSUME Poll PROVE me'.pc \in {"wait", "report"} /\ me'.knobs = me.knobs
  <2>1. me.pc = "wait" BY <1>9 DEF Poll, In
  <2> DEFINE seen == [me EXCEPT !.bo[me.out].cpu = me.bo[me.out].mem, !.tries = @ + 1]
  <2>2. me' = [seen EXCEPT !.pc = "report"] \/ me' = seen BY <1>9 DEF Poll
  <2>3. DOMAIN seen = MeFields /\ seen.pc = me.pc /\ seen.knobs = me.knobs BY <1>3 DEF MeFields
  <2> HIDE DEF seen
  <2> QED BY <2>1, <2>2, <2>3 DEF MeFields
<1>10. ASSUME Report PROVE me'.pc = "exit" /\ me'.knobs = me.knobs
  <2>1. \E shown : me' = [Exits(0) EXCEPT !.shown = shown] BY <1>10 DEF Report
  <2> QED BY <2>1, <1>3 DEF Exits, MeFields
<1> QED BY <1>1, <1>4, <1>5, <1>6, <1>7, <1>8, <1>9, <1>10

(* The invariant of Mesa's payload is kept. *)
LEMMA MesaKeeps ==
  ASSUME MesaInv, [Next]_vars
  PROVE  MesaSame' /\ MesaRuns'
<1>1. CASE CaptureNext /\ UNCHANGED me
  <2>1. MesaSame' /\ ~dump.done BY <1>1, MesaCaptures DEF MesaInv
  <2>2. me.pc \in {"meta", "exit"} BY <2>1 DEF MesaInv, ReplayInv, ProgramInv
  <2>3. me.pc = "meta" => me.ran = 0 BY DEF MesaInv, MesaRuns
  <2> QED BY <1>1, <2>1, <2>2, <2>3 DEF MesaRuns
<1>2. CASE UNCHANGED vars
  <2>1. UNCHANGED capture /\ me' = me BY <1>2 DEF vars
  <2>2. MesaSame' BY <2>1, MesaRests DEF MesaInv
  <2>3. MesaLoaded => MesaLoaded'
    BY <2>1 DEF MesaLoaded, MesaList, MesaCaptured, MesaAddr
  <2>4. MesaWorks => MesaWorks'
    <3>1. Devices' = Devices BY <2>1 DEF Devices
    <3>2. MesaReady(Devices, me.tasks[1]) => MesaReady(Devices, me.tasks[1])'
      <4> DEFINE view == Devices'
      <4>1. view = Devices BY <3>1
      <4> HIDE DEF view
      <4>2. MesaReady(Devices, me.tasks[1]) => MesaReady(view, me'.tasks[1]) BY <2>1, <4>1
      <4> QED BY <4>2 DEF MesaReady, MesaPlaced, MesaFetches, MesaList, Upto, view
    <3> QED BY <2>1, <3>2 DEF MesaWorks, BoOK
  <2> QED BY <2>1, <2>2, <2>3, <2>4 DEF MesaInv, MesaRuns
<1>3. CASE ReplayNext
  <2>1. /\ UNCHANGED capture /\ me'.knobs = me.knobs /\ me'.pc # "meta"
        /\ me'.pc = "patch" => MesaLoad /\ me' # Exits(1)
        /\ me'.pc \in {"wait", "report"} => \/ MesaPatch /\ me' # Exits(1)
                                           \/ NpuRuns \/ Poll
    BY <1>3, MesaSteps
  <2>2. MesaSame' BY <2>1, MesaRests DEF MesaInv
  <2>3. me'.pc = "patch" => MesaLoaded' /\ me'.ran = 0 BY <2>1, LoadRuns
  <2>4. ASSUME "cbuf" \notin me.knobs, me'.pc \in {"wait", "report"} PROVE MesaWorks'
    BY <2>1, <2>4, MesaPatchRuns, MesaTaskRuns, MesaLooks
  <2> QED BY <2>1, <2>2, <2>3, <2>4 DEF MesaRuns
<1> QED BY <1>1, <1>2, <1>3 DEF Next

(* What Mesa's payload gives when it has run. *)
LEMMA MesaGives ==
  ASSUME MesaInv, me.pc \in {"wait", "report"}, me.ran = Length, "cbuf" \notin me.knobs
  PROVE  me.bo[Role("output")].mem = buffers[Role("output")].mem
<1>1. dump.done /\ MesaWorks BY DEF MesaInv, ReplayInv, ProgramInv, MesaRuns
<1>2. Length = 1 /\ buffers[5].mem = MesaOut BY <1>1 DEF MesaInv, MesaSame
<1>3. me.bo[5].mem = MesaOut BY <1>1, <1>2 DEF MesaWorks
<1>4. Role("output") = 5 BY MesaLayout DEF MesaInv
<1> QED BY <1>2, <1>3, <1>4

(* Nothing is captured at first. *)
LEMMA MesaStarts == ASSUME Init, runtime = "mesa" PROVE MesaSame /\ MesaRuns
<1>1. buffers = <<>> /\ ~filled /\ ~dump.done BY DEF Init, CaptureInit, NoDump
<1>2. PICK prog, onejob, knobs : me = Started(prog, onejob, knobs) BY DEF Init, ReplayInit
<1>3. me.pc = "meta" /\ me.ran = 0 BY <1>2 DEF Started
<1>4. \A i \in 1..Len(buffers) : FALSE BY <1>1
<1>5. IsSeq(buffers) /\ Len(buffers) <= 5 BY <1>1 DEF IsSeq
<1>6. Length = 1 /\ plan[1].src = <<"input", 0>> /\ plan[1].dst = <<"output", 0>>
  <2>1. plan = << [src |-> <<"input", 0>>, dst |-> <<"output", 0>>] >> BY DEF Init, CaptureInit
  <2> QED BY <2>1 DEF Length
<1> QED BY <1>1, <1>3, <1>4, <1>5, <1>6 DEF MesaSame, MesaRuns

SameInv == /\ ReplayInv
           /\ runtime = "rknn" => VendorSame /\ VendorRuns
           /\ runtime = "mesa" => MesaSame /\ MesaRuns

(* A step does not change the runtime. *)
LEMMA RuntimeStays == ASSUME [Next]_vars PROVE runtime' = runtime
<1>1. CaptureNext => runtime' = runtime BY DEF CaptureNext, MemCreate, Fill, Submit, MesaDumps
<1>2. ReplayNext => runtime' = runtime
  BY DEF ReplayNext, Meta, Create, PatchTask, Flush, SubmitRocket, SubmitRknpu,
         NpuRuns, Poll, SyncBack, Report, MesaLoad, MesaPatch, In, capture
<1> QED BY <1>1, <1>2 DEF Next, vars, capture

(*************************************************************************)
(* ReplaysTheSame: once its tasks have run, a replay of a complete       *)
(* capture holds in its own buffers what the captured process computed   *)
(* in its own, wherever the driver placed them, for the vendor's payload *)
(* through replay.c and replay_rocket.c and for Mesa's through           *)
(* replay_mesa.c with any of its knobs but the one that changes the      *)
(* computation.                                                          *)
(*************************************************************************)
THEOREM SameTheorem == Spec => []ReplaysTheSame
<1>1. Init => SameInv BY ReplayStarts, VendorStarts, MesaStarts DEF SameInv
<1>2. SameInv /\ [Next]_vars => SameInv'
  <2> SUFFICES ASSUME SameInv, [Next]_vars PROVE SameInv'
    OBVIOUS
  <2>1. ReplayInv' BY ReplayKeeps DEF SameInv
  <2>2. runtime' = runtime BY RuntimeStays
  <2>3. runtime = "rknn" => VendorSame' /\ VendorRuns' BY VendorKeeps DEF SameInv, VendorInv
  <2>4. runtime = "mesa" => MesaSame' /\ MesaRuns' BY MesaKeeps DEF SameInv, MesaInv
  <2> QED BY <2>1, <2>2, <2>3, <2>4 DEF SameInv
<1>3. SameInv => ReplaysTheSame
  <2> SUFFICES ASSUME SameInv, me.pc \in {"wait", "report"}, me.ran = Length, Complete,
                      "cbuf" \notin me.knobs,
                      NEW r \in {"output"} \cup (IF runtime = "rknn" THEN {"scratch"} ELSE {})
               PROVE  me.bo[Role(r)].mem = buffers[Role(r)].mem
    BY DEF ReplaysTheSame
  <2>1. runtime \in {"rknn", "mesa"} BY DEF SameInv, ReplayInv, CaptureInv
  <2>2. CASE runtime = "rknn"
    <3>1. VendorInv BY <2>2 DEF SameInv, VendorInv
    <3>2. r \in {"output", "scratch"} BY <2>2
    <3> QED BY <3>1, <3>2, VendorGives
  <2>3. CASE runtime = "mesa"
    <3>1. MesaInv BY <2>3 DEF SameInv, MesaInv
    <3>2. r = "output" BY <2>3
    <3> QED BY <3>1, <3>2, MesaGives
  <2> QED BY <2>1, <2>2, <2>3
<1> QED BY <1>1, <1>2, <1>3, PTL DEF Spec
=============================================================================
