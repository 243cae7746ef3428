------------------------------ MODULE FrameLife ------------------------------
(***************************************************************************)
(* What the encoder promises about frames, with no interrupt, watchdog or  *)
(* power management in sight: one frame is encoded at a time, the frames   *)
(* of a context in the order they were queued, and a frame comes back      *)
(* "done" only when its bitstream is complete.                             *)
(***************************************************************************)
EXTENDS Naturals

CONSTANTS Jobs, Owner

VARIABLES
  life,     \* life[j]: "new", "queued", "running", "done", "error"
  encoded   \* frames whose bitstream is complete

Init ==
  /\ life = [j \in Jobs |-> "new"]
  /\ encoded = {}

Queue(j) ==
  /\ life[j] = "new"
  /\ life' = [life EXCEPT ![j] = "queued"]
  /\ UNCHANGED encoded

(* Frames that were never started go back to user space together. *)
Return(S, how) ==
  /\ \A j \in S : life[j] = "queued"
  /\ life' = [j \in Jobs |-> IF j \in S THEN how ELSE life[j]]
  /\ UNCHANGED encoded

Start(j) ==
  /\ life[j] = "queued"
  /\ \A k \in Jobs : life[k] # "running"
  /\ \A k \in Jobs : k < j /\ Owner[k] = Owner[j] => life[k] # "queued"
  /\ life' = [life EXCEPT ![j] = "running"]
  /\ UNCHANGED encoded

Encode(j) ==
  /\ life[j] = "running"
  /\ encoded' = encoded \cup {j}
  /\ UNCHANGED life

Complete(j) ==
  /\ life[j] = "running"
  /\ \/ life' = [life EXCEPT ![j] = "error"]
     \/ j \in encoded /\ life' = [life EXCEPT ![j] = "done"]
  /\ UNCHANGED encoded

Next ==
  \/ \E j \in Jobs : Queue(j) \/ Start(j) \/ Encode(j) \/ Complete(j)
  \/ \E S \in SUBSET Jobs, how \in {"new", "error"} : Return(S, how)

Spec == Init /\ [][Next]_<<life, encoded>>
=============================================================================
