-------------------------------- MODULE Runners --------------------------------
(***************************************************************************)
(* The programs that run a model through the vendor's runtime: runner.c    *)
(* (one inference, nothing read back), runner_out.c (counts the values     *)
(* below the zero point of the output) and runner_multi.c (several         *)
(* inferences on one context, each with another input, compared with the   *)
(* first).  The runtime is external: rknn_api.h says what its calls do,    *)
(* and the question these programs ask is whether a second inference       *)
(* computes at all or leaves the output as it was.                         *)
(***************************************************************************)
EXTENDS Integers, Sequences

CONSTANTS NumRuns,
          Bytes,        \* bytes an output may hold
          ZeroPoints

ASSUME RunnersConstantsOK == /\ NumRuns \in Nat \ {0}
                             /\ Bytes \subseteq Nat /\ ZeroPoints \subseteq Int

VARIABLE rn

RunnersInit == \E prog \in {"runner", "runner_out", "runner_multi"}, zp \in ZeroPoints,
           type \in {"INT8", "UINT8"} :
          /\ prog = "runner_out" \/ (zp = 0 /\ type = "INT8")
          /\ rn = [prog |-> prog, pc |-> "init", zp |-> zp, type |-> type, run |-> 0,
                   input |-> -1, fresh |-> <<>>, got |-> <<>>, output |-> 0,
                   sum0 |-> 0, differed |-> 0, below |-> 0, seen |-> {},
                   verdict |-> "none", code |-> -1]

RunnerExit(code) == [rn EXCEPT !.pc = "exit", !.code = code]
RunnerGoes(pc) == [rn EXCEPT !.pc = pc]

Runs == IF rn.prog = "runner_multi" THEN NumRuns ELSE 1

\* Reading the model and rknn_init(): runner_out.c takes any result but 0 for a failure.
Start == /\ rn.pc = "init"
         /\ \E ret \in {-1, 0, 1} :
              rn' = IF IF rn.prog = "runner_out" THEN ret # 0 ELSE ret < 0
                    THEN RunnerExit(1) ELSE RunnerGoes("set")

\* Mutant: the input is written once, before the loop.
InputOnce(run) == 0

\* The first byte of the ramp: the ramp of each run is another.
Input(run) == (run * 37) % 251

\* rknn_inputs_set(); what it returns is not looked at.
InputsSet == /\ rn.pc = "set"
             /\ rn' = [RunnerGoes("run") EXCEPT !.input = Input(rn.run)]

\* rknn_run() computes, or returns without having computed: what it returns
\* is printed and nothing depends on it.
Infer == /\ rn.pc = "run"
         /\ \E computed \in BOOLEAN :
              rn' = [RunnerGoes(IF rn.prog = "runner" THEN "destroy" ELSE "get") EXCEPT
                       !.fresh = Append(@, computed),
                       !.output = IF computed THEN rn.input + 1 ELSE @]

\* rknn_outputs_get(): a buffer the runtime allocates, or a failure.
OutputsGet == /\ rn.pc = "get"
              /\ \/ \E bytes \in (SUBSET Bytes) \ {{}} :
                      rn' = [RunnerGoes("judge") EXCEPT !.got = Append(@, TRUE),
                               !.seen = IF rn.prog = "runner_out" THEN bytes ELSE {}]
                 \/ rn' = IF rn.prog = "runner_out" THEN RunnerExit(1)
                          ELSE [RunnerGoes("release") EXCEPT !.got = Append(@, FALSE)]

\* The hash of an output; the hashes of different outputs differ.
Sum == 100 + rn.output

JudgeMulti ==
  /\ rn.pc = "judge" /\ rn.prog = "runner_multi"
  /\ rn' = [RunnerGoes("release") EXCEPT !.sum0 = IF rn.run = 0 THEN Sum ELSE @,
                                   !.differed = IF rn.run > 0 /\ Sum # rn.sum0 THEN @ + 1 ELSE @]

Signed(byte) == IF byte < 128 THEN byte ELSE byte - 256
Read(byte) == IF rn.type = "INT8" THEN Signed(byte) ELSE byte

\* Whether any value of the output is below its zero point.
JudgeOut ==
  /\ rn.pc = "judge" /\ rn.prog = "runner_out"
  /\ LET low == {b \in rn.seen : Read(b) < rn.zp}
     IN rn' = [RunnerGoes("release") EXCEPT !.below = IF low = {} THEN 0 ELSE 1]

\* rknn_outputs_release(), after every run, whether or not there was an output.
Release == /\ rn.pc = "release"
           /\ rn' = [rn EXCEPT !.run = @ + 1,
                               !.pc = IF rn.run + 1 < Runs THEN "set" ELSE "destroy"]

MultiVerdict == CASE Runs = 1 -> "none"
                  [] Runs > 1 /\ rn.differed = Runs - 1 -> "recomputes"
                  [] Runs > 1 /\ rn.differed = 0 -> "wall"
                  [] OTHER -> "mixed"

Destroy ==
  /\ rn.pc = "destroy"
  /\ rn' = [RunnerExit(0) EXCEPT
              !.verdict = CASE rn.prog = "runner" -> "none"
                            [] rn.prog = "runner_out" -> IF rn.below > 0 THEN "below" ELSE "clamped"
                            [] OTHER -> MultiVerdict]

RunnersNext == \/ Start \/ InputsSet \/ Infer \/ OutputsGet \/ JudgeMulti \/ JudgeOut
               \/ Release \/ Destroy

RunnersSpec == RunnersInit /\ [][RunnersNext]_rn
-----------------------------------------------------------------------------
\* Run r was given the input of the first run again, and both computed.
Repeats(fresh, r) == fresh[1] /\ (r - 1) % 251 = 0

\* After run r the output is that of a later run than the first, with another
\* input: the last run up to r to compute, not necessarily r itself.
Replaced(fresh, r) == \E k \in 2..r : /\ fresh[k] /\ ~Repeats(fresh, k)
                                      /\ \A j \in (k + 1)..r : ~fresh[j]

\* Run r counts as a difference: it gave an output, and the first gave none or
\* another.
Counts(fresh, got, r) == got[r] /\ (got[1] => Replaced(fresh, r))

Later == 2..NumRuns

Real(byte) == (IF rn.type = "INT8" /\ byte >= 128 THEN byte - 256 ELSE byte) - rn.zp

(***************************************************************************)
(* What the verdicts mean.  runner_multi reports recomputation on every    *)
(* submit exactly when each later run found the output replaced: that the  *)
(* second run computed is enough, those after it may leave its output in   *)
(* place, and without an output of the first run any output is enough.  It *)
(* reports that the output never changed exactly when no later run that    *)
(* gave an output found it replaced.  runner_out reports a value below the *)
(* zero point exactly when a value of the output is negative.              *)
(***************************************************************************)
VerdictsHold ==
  rn.code = 0 =>
    /\ rn.prog = "runner_multi" /\ NumRuns > 1 =>
         /\ (rn.verdict = "recomputes") <=> \A r \in Later : Counts(rn.fresh, rn.got, r)
         /\ (rn.verdict = "wall") <=> \A r \in Later : ~Counts(rn.fresh, rn.got, r)
    /\ rn.prog = "runner_out" =>
         ((rn.verdict = "below") <=> \E b \in rn.seen : Real(b) < 0)
=============================================================================
