-------------------------------- MODULE Replay --------------------------------
(***************************************************************************)
(* The programs that submit a captured payload again: replay.c through the *)
(* vendor driver ("rknpu"), replay_rocket.c through rocket ("rocket") and  *)
(* replay_mesa.c for the payload Mesa dumps ("mesa").  Each creates its    *)
(* own buffers, at other addresses than the captured ones, loads the files *)
(* into them, points the words that held an address of a captured buffer   *)
(* into its own, flushes the buffers to the device, submits, and looks at  *)
(* the output.  The vendor's driver returns when the tasks have run;       *)
(* rocket runs them later, and the program waits and looks again.          *)
(***************************************************************************)
EXTENDS Capture

CONSTANTS MaxBo,        \* MAXBO
          MaxTasks,     \* entries of tasks[] and of jobs[]
          MaxTries,     \* how often the output is looked at
          Places,       \* where a driver may place the buffers
          Knobs         \* the environment of replay_mesa that is tried

(***************************************************************************)
(* The runtime's buffers, 28 cells, lie above the small constants of the   *)
(* lists, the tables have room for them, and a plan has one or two tasks,  *)
(* each of which reads the input or the intermediate pool and writes the   *)
(* pool or the output.                                                     *)
(***************************************************************************)
Steps == [src : {<<"input", 0>>, <<"input", 1>>, <<"scratch", 0>>},
          dst : {<<"scratch", 0>>, <<"output", 0>>, <<"output", 1>>}]

ASSUME ReplayConstantsOK ==
  /\ {Top, MaxRecorded, MaxBo, MaxTasks, MaxTries} \subseteq Nat
  /\ Places \subseteq [1..MaxBo -> Nat]
  /\ Top > 33 /\ MaxRecorded >= 5 /\ MaxBo >= 5
  /\ \A p \in Plans :
       /\ p \in Seq(Steps)
       /\ Len(p) \in {1, 2}

VARIABLE me

vars == <<capture, me>>

(***************************************************************************)
(* me.bo[i]: the captured range (vdma, vsize) and the program's own buffer *)
(* (created, dma), as the CPU sees it (cpu) and as the device does (mem).  *)
(***************************************************************************)
Started(prog, onejob, knobs) ==
  [prog |-> prog, onejob |-> onejob, knobs |-> knobs, pc |-> "meta", bo |-> <<>>,
   ta |-> <<>>, tasks |-> <<>>, out |-> 0, ins |-> {}, outs |-> {}, jobs |-> <<>>,
   ran |-> 0, tries |-> 0, shown |-> <<>>, code |-> 0]

ReplayInit == \E prog \in {"rknpu", "rocket", "mesa"}, onejob \in BOOLEAN, knobs \in Knobs :
                /\ (prog = "mesa") = (runtime = "mesa")
                /\ onejob => prog = "rocket"
                /\ knobs # {} => prog = "mesa"
                /\ me = Started(prog, onejob, knobs)

Init == CaptureInit /\ ReplayInit

Goes(pc) == [me EXCEPT !.pc = pc]
Exits(code) == [me EXCEPT !.pc = "exit", !.code = code]
In(progs, pc) == me.prog \in progs /\ me.pc = pc /\ UNCHANGED capture

Created == {i \in DOMAIN me.bo : me.bo[i].created}
Within(v, b) == b.vdma <= v /\ v < b.vdma + b.vsize

\* The first buffer whose captured range holds v, 0 (the code's -1) when none does.
which_bo(v) == LET S == {i \in DOMAIN me.bo : Within(v, me.bo[i])}
               IN IF S = {} THEN 0 ELSE Min(S)

(***************************************************************************)
(* replay_rocket.c looks at every word but only at created buffers, so     *)
(* never at the task array; replay.c looks at the address registers only.  *)
(***************************************************************************)
\* Mutant: the task array is a candidate like the others.
RemapAll(v) == {i \in DOMAIN me.bo : Within(v, me.bo[i])}

Candidates(v) == {i \in DOMAIN me.bo : Within(v, me.bo[i])
                                       /\ (me.prog = "rocket" => me.bo[i].created)}

IsAddress(reg) == me.prog = "rocket" \/ reg \in {SRC, WT, DST, BIAS, SCALE}

Remapped(word) ==
  LET S == Candidates(word[2])
      b == me.bo[Min(S)]
  IN IF IsAddress(word[1]) /\ S # {} THEN <<word[1], b.dma + (word[2] - b.vdma)>> ELSE word
-----------------------------------------------------------------------------
Meta ==
  /\ In({"rknpu", "rocket"}, "meta") /\ dump.done
  /\ LET nbo == Min({Len(dump.bo), MaxBo})
         fresh == [i \in 1..nbo |-> [vdma |-> dump.bo[i].vdma, vsize |-> dump.bo[i].vsize,
                                     created |-> FALSE, dma |-> -1,
                                     cpu |-> <<>>, mem |-> <<>>]]
     IN me' = IF nbo < 2 \/ dump.task_bo = 0 THEN Exits(1)
              ELSE [Goes("create") EXCEPT !.bo = fresh]

\* What the driver gives: fresh zeroed memory, no two buffers over each other.
NoOverlap(dma, sizes) ==
  \A i, j \in DOMAIN sizes :
    i # j => dma[i] + sizes[i] <= dma[j] \/ dma[j] + sizes[j] <= dma[i]

File(i) == IF dump.file[i] = <<>> THEN Zeros(me.bo[i].vsize) ELSE dump.file[i]

\* Every buffer; rocket leaves the task array out.
Own(i) == me.prog = "rknpu" \/ i # dump.task_bo

Made(dma, i) == IF Own(i) THEN [me.bo[i] EXCEPT !.created = TRUE, !.dma = dma[i], !.cpu = File(i),
                                                !.mem = Zeros(me.bo[i].vsize)]
                          ELSE me.bo[i]

(***************************************************************************)
(* rocket only reads the task array into memory the program gets from      *)
(* malloc().  When its file is missing that memory is not initialised: it  *)
(* may say anything, zeros for example, or a list that is there.           *)
(***************************************************************************)
ReadIn(junk) == IF dump.file[dump.task_bo] = <<>> /\ me.prog = "rocket"
                THEN [k \in 1..me.bo[dump.task_bo].vsize |-> junk]
                ELSE File(dump.task_bo)

Create ==
  /\ In({"rknpu", "rocket"}, "create")
  /\ \/ me' = Exits(1)
     \/ \E dma \in Places, junk \in {<<0, 0>>, <<1, me.bo[2].vdma>>} :
          /\ NoOverlap(dma, [i \in {k \in DOMAIN me.bo : Own(k)} |-> me.bo[i].vsize])
          /\ me' = [Goes("patch") EXCEPT !.bo = [i \in DOMAIN me.bo |-> Made(dma, i)],
                                         !.ta = ReadIn(junk)]

\* The words of list [off, off + count) of buffer b, pointed into the program's buffers.
Relocated(cpu, off, count) ==
  [k \in DOMAIN cpu |-> IF off < k /\ k <= off + count THEN Remapped(cpu[k]) ELSE cpu[k]]

\* The buffer the last relocated DST word meant; rocket only counts one it relocated.
OutputOf(cpu, off, count) ==
  LET D == {k \in (off + 1)..(off + count) :
              cpu[k][1] = DST /\ (me.prog = "rocket" => Candidates(cpu[k][2]) # {})}
  IN IF D = {} THEN me.out ELSE which_bo(cpu[Max(D)][2])

\* One turn of the loop over the tasks.
PatchTask ==
  /\ In({"rknpu", "rocket"}, "patch") /\ Len(me.tasks) < dump.task_number
  /\ me.prog = "rocket" => Len(me.tasks) < MaxTasks
  /\ LET t == Len(me.tasks) + 1
         count == me.ta[t][1]
         wb == which_bo(me.ta[t][2])
         b == me.bo[wb]
         off == me.ta[t][2] - b.vdma
         patched == [me.bo EXCEPT ![wb].cpu = Relocated(@, off, count)]
     IN me' = IF wb = 0 \/ ~b.created THEN Exits(1)
              ELSE [me EXCEPT !.tasks = Append(@, [regcmd |-> b.dma + off, count |-> count]),
                              !.out = OutputOf(b.cpu, off, count),
                              !.bo = IF me.prog = "rocket" THEN patched
                                     ELSE [patched EXCEPT ![dump.task_bo].cpu[t] =
                                                            <<count, b.dma + off>>]]

\* fini_bo() or a sync to the device: the device sees what the CPU wrote.
FlushedAll(bos) == [i \in DOMAIN bos |-> IF bos[i].created
                                         THEN [bos[i] EXCEPT !.mem = bos[i].cpu] ELSE bos[i]]

Flush ==
  /\ In({"rknpu", "rocket"}, "patch")
  /\ Len(me.tasks) = IF me.prog = "rocket" THEN Min({dump.task_number, MaxTasks})
                                           ELSE dump.task_number
  /\ me' = [Goes("submit") EXCEPT !.bo = FlushedAll(@),
                                  !.out = IF @ = 0 THEN Len(me.bo) ELSE @]

(***************************************************************************)
(* rocket: one job of all tasks, or a job for each.  Every job reads every *)
(* buffer but the intermediate pool, which is taken to be buffer 2 (the    *)
(* third), and the output, and writes these two.                           *)
(***************************************************************************)
SubmitRocket ==
  /\ In({"rocket"}, "submit")
  /\ \/ me' = Exits(1)
     \/ me' = [Goes("wait") EXCEPT
                 !.ins = Created \ {dump.task_bo, 3, me.out},
                 !.outs = {3, me.out},
                 !.jobs = IF me.onejob THEN <<dump.task_number>>
                          ELSE [t \in 1..dump.task_number |-> 1]]

\* The device's view of the program's buffers, as Execute wants it.
Devices == [i \in DOMAIN me.bo |-> [dma |-> me.bo[i].dma, mem |-> me.bo[i].mem]]
After(bos) == [i \in DOMAIN me.bo |-> [me.bo[i] EXCEPT !.mem = bos[i].mem]]

\* The vendor's driver takes the tasks from its task array, and blocks.
SubmitRknpu ==
  /\ In({"rknpu"}, "submit")
  /\ \/ me' = Exits(1)
     \/ LET entry(t) == me.bo[dump.task_bo].mem[t]
            tasks == [t \in 1..dump.task_number |-> [regcmd |-> entry(t)[2], count |-> entry(t)[1]]]
            done == ExecuteAll(Devices, tasks)
        IN me' = [Goes("wait") EXCEPT !.bo = After(done), !.ran = dump.task_number]

\* rocket runs the tasks in order, some time after the submission.
NpuRuns ==
  /\ In({"rocket", "mesa"}, "wait") /\ me.ran < Len(me.tasks)
  /\ me' = [me EXCEPT !.ran = @ + 1, !.bo = After(Execute(Devices, me.tasks[me.ran + 1]))]

Nonzero(cells) == \E k \in DOMAIN cells : cells[k] # <<0, 0>>

(***************************************************************************)
(* PREP_BO waits for the fences of the output, and gives up or finds none  *)
(* yet (the comment above the loop): it may return before the tasks ran.   *)
(* The loop ends at the first byte that is not zero.                       *)
(***************************************************************************)
Poll ==
  /\ In({"rocket", "mesa"}, "wait") /\ me.tries < MaxTries
  /\ LET seen == [me EXCEPT !.bo[me.out].cpu = me.bo[me.out].mem, !.tries = @ + 1]
     IN me' = IF Nonzero(me.bo[me.out].mem) \/ seen.tries = MaxTries
              THEN [seen EXCEPT !.pc = "report"] ELSE seen

\* The output is synced back once: the submission has waited for it.
SyncBack == /\ In({"rknpu"}, "wait")
            /\ me' = [Goes("report") EXCEPT !.bo[me.out].cpu = me.bo[me.out].mem]

\* The statistics, the file of output, and the verdict against a reference.
Report == /\ In({"rknpu", "rocket", "mesa"}, "report")
          /\ me' = [Exits(0) EXCEPT !.shown = me.bo[me.out].cpu]
-----------------------------------------------------------------------------
(***************************************************************************)
(* replay_mesa.c: five buffers of fixed sizes, the words by register.      *)
(***************************************************************************)
B_RC == 1
B_WT == 2
B_BIAS == 3
B_IN == 4
B_OUT == 5

MesaLoad ==
  /\ In({"mesa"}, "meta") /\ dump.done
  /\ \/ me' = Exits(1)
     \/ \E dma \in Places :
          LET content == <<dump.file[1], dump.file[2], dump.file[3], Ramp, Zeros(2)>>
              sizes == [i \in 1..5 |-> Len(content[i])]
          IN /\ NoOverlap(dma, sizes)
             /\ me' = [Goes("patch") EXCEPT !.out = B_OUT,
                  !.bo = [i \in 1..5 |-> [vdma |-> -1, vsize |-> 0, created |-> TRUE, dma |-> dma[i],
                                          cpu |-> content[i], mem |-> Zeros(sizes[i])]]]

MesaWord(word) ==
  LET reg == word[1]
  IN <<reg, IF reg = SRC THEN me.bo[B_IN].dma
            ELSE IF reg = WT THEN me.bo[B_WT].dma
            ELSE IF reg = DST THEN me.bo[B_OUT].dma
            ELSE IF reg = BIAS THEN me.bo[B_BIAS].dma
            ELSE IF reg = SCALE THEN me.bo[B_BIAS].dma + 1
            ELSE IF reg = CBUF /\ "cbuf" \in me.knobs THEN 7
            ELSE word[2]>>

\* MESA_STRIPOPEN and MESA_STRIPPAD move the words that stay to the front.
Stays(word) == /\ "stripopen" \in me.knobs => word[1] # OPEN
               /\ "strippad" \in me.knobs => word # <<0, 0>>

Stripped(words) ==
  LET kept[k \in 0..Len(words)] == IF k = 0 THEN <<>>
                                   ELSE IF Stays(words[k]) THEN Append(kept[k - 1], words[k])
                                                           ELSE kept[k - 1]
  IN kept[Len(words)]

MesaPatch ==
  /\ In({"mesa"}, "patch")
  /\ LET words == [k \in DOMAIN me.bo[B_RC].cpu |-> MesaWord(me.bo[B_RC].cpu[k])]
         kept == Stripped(words)
         bos == [me.bo EXCEPT ![B_RC].cpu = kept \o SubSeq(words, Len(kept) + 1, Len(words))]
     IN \/ me' = Exits(1)
        \/ me' = [Goes("wait") EXCEPT !.bo = FlushedAll(bos),
                    !.tasks = << [regcmd |-> me.bo[B_RC].dma, count |-> Len(kept)] >>,
                    !.ins = {B_WT, B_IN}, !.outs = {B_OUT, B_BIAS}, !.jobs = <<1>>]

ReplayNext == \/ Meta \/ Create \/ PatchTask \/ Flush
              \/ SubmitRocket \/ SubmitRknpu \/ NpuRuns \/ Poll \/ SyncBack \/ Report
              \/ MesaLoad \/ MesaPatch

Next == \/ CaptureNext /\ UNCHANGED me
        \/ ReplayNext

Spec == Init /\ [][Next]_vars
-----------------------------------------------------------------------------
Complete == runtime = "mesa" \/ \A i \in DOMAIN dump.file : dump.file[i] # <<>>

(***************************************************************************)
(* What the replays are for: once its tasks have run, a replay of a        *)
(* complete capture has computed, in its own buffers, exactly what the     *)
(* captured process computed in its own: no word was lost, none that held  *)
(* an address still points at the old buffers, and no constant was taken   *)
(* for an address (the padding constant lies in the range of a buffer).    *)
(***************************************************************************)
ReplaysTheSame ==
  me.pc \in {"wait", "report"} /\ me.ran = Length /\ Complete /\ "cbuf" \notin me.knobs
    => \A r \in {"output"} \cup (IF runtime = "rknn" THEN {"scratch"} ELSE {}) :
         me.bo[Role(r)].mem = buffers[Role(r)].mem

(***************************************************************************)
(* What a program shows as output has been written by the NPU in this      *)
(* replay: the captured content of the output, which the program loads     *)
(* with all the others, is from before any task ran.                       *)
(***************************************************************************)
ShowsOwnOutput == me.shown # <<>> /\ me.ran = 0 => ~Nonzero(me.shown)

=============================================================================
