------------------------------- MODULE MCH264 -------------------------------
(***************************************************************************)
(* rkvenc-h264.c on one bench: the stream of a session (RkvencH264), the   *)
(* parameter sets and registers of every set of controls (ParamSets), and  *)
(* the NAL writer on every short RBSP (NalWriter). They share no state; a  *)
(* behaviour exercises one of them and the others rest in one fixed state. *)
(***************************************************************************)
EXTENDS MCRkvencH264, MCParamSets, MCNalWriter

VARIABLE bench   \* what this behaviour exercises

sessionVars == vars
benchVars   == <<bench, sessionVars, paramVars, nalVars>>

RestingSession ==
  /\ fmt = [q \in Queues |-> 2] /\ gopSize = 1
RestingParams ==
  ctrl = [width |-> 1080, height |-> 1088, main |-> TRUE, cabac |-> TRUE,
          level |-> 40, qp |-> 26]
RestingNal == writer = Begin(30, 103)

BenchInit ==
  /\ bench \in {"session", "params", "nal"}
  /\ Init /\ ParamInit /\ NalInit
  /\ bench # "session" => RestingSession
  /\ bench # "params" => RestingParams
  /\ bench # "nal" => RestingNal

BenchNext ==
  \/ bench = "session" /\ Next /\ UNCHANGED <<bench, paramVars, nalVars>>
  \/ bench = "params" /\ ParamNext /\ UNCHANGED <<bench, sessionVars, nalVars>>
  \/ bench = "nal" /\ NalNext /\ UNCHANGED <<bench, sessionVars, paramVars>>
  \/ bench # "session" /\ UNCHANGED benchVars   \* the last input has been read

BenchSpec == BenchInit /\ [][BenchNext]_benchVars
=============================================================================
