------------------------------ MODULE MCClients ------------------------------
(***************************************************************************)
(* Instances for TLC of the models of the programs in replay, vepu-test    *)
(* and vendor-capture, one at a time: which is chosen in the initial       *)
(* state.                                                                  *)
(***************************************************************************)
EXTENDS Replay, EncoderTest, VendorTest, Runners

CONSTANT Benches

VARIABLE bench

BenchInit == bench \in Benches /\ Init /\ EncoderInit /\ VendorInit /\ RunnersInit
                \* What is not under test has one initial state.
                /\ (bench # "replay" => me.prog = "mesa" /\ me.knobs = {})
                /\ (bench # "vendor" => vt.size = <<176, 144>>)
                /\ (bench # "runners" => rn.prog = "runner")

BenchNext == /\ \/ bench = "replay" /\ Next /\ UNCHANGED <<encoder, vt, rn>>
                \/ bench = "encoder" /\ EncoderNext /\ UNCHANGED <<vars, vt, rn>>
                \/ bench = "vendor" /\ VendorNext /\ UNCHANGED <<vars, encoder, rn>>
                \/ bench = "runners" /\ RunnersNext /\ UNCHANGED <<vars, encoder, vt>>
             /\ UNCHANGED bench

BenchSpec == BenchInit /\ [][BenchNext]_<<bench, vars, encoder, vt, rn>>

-----------------------------------------------------------------------------

\* One or two tasks; the last writes the output, as in the captures, or all
\* of them write the intermediate pool.
MCPlans ==
  LET Sources == {<<"input", 0>>, <<"input", 1>>, <<"scratch", 0>>}
      Outputs == {<<"output", 0>>, <<"output", 1>>}
      Pool == <<"scratch", 0>>
      Step(S, D) == {[src |-> s, dst |-> d] : s \in S, d \in D}
      First == {<<"input", 0>>}
  IN {<<a>> : a \in Step(First, Outputs \cup {Pool})}
     \cup {<<a, b>> : a \in Step(First, Outputs \cup {Pool}), b \in Step(Sources, Outputs)}
     \cup {<<a, b>> : a \in Step(First, {Pool}), b \in Step(Sources, {Pool})}
\* The last two with offsets that need more than 22 bits.
MCSizes == {<<176, 144>>, <<1920, 1080>>, <<2048, 2032>>, <<2048, 2048>>, <<16384, 16384>>}
MCZeroPoints == {-128, 0, 17}
\* Upwards over the captured range, in the sizes of either runtime, and downwards.
MCPlaces == {[i \in 1..8 |-> IF i <= 5 THEN p[i] ELSE 90 + i] :
               p \in {<<30, 32, 53, 54, 56>>, <<30, 39, 40, 42, 44>>, <<50, 9, 5, 3, 1>>}}
MCKnobs == {{}, {"cbuf"}, {"stripopen"}, {"strippad"}, {"stripopen", "strippad"}}
=============================================================================
