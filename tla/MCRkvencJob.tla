---------------------------- MODULE MCRkvencJob ----------------------------
(* Instances of RkvencJob for TLC: two contexts that share two or three
   frames, so that a job of one context can follow a job of the other and, of
   three frames, two are of one context. *)
EXTENDS RkvencJob

CONSTANTS c1, c2

MCCtxs   == {c1, c2}
MCOwner3 == <<c1, c2, c1>>
MCOwner2 == <<c1, c2>>

(* Bound: after a stray the last frame is not submitted. The properties of
   the frames are about what comes before a stray; those of the job are
   checked beyond it over the two other frames, one of each context. *)
StrayBound == strayed => job[NumJobs] = "new"
=============================================================================
