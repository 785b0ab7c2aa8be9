---------------------------- MODULE MCWaveCampaign ----------------------------
(***************************************************************************)
(* A wave of five of the fifteen steps of run_wave1.py: the gates, the     *)
(* calibration, a step without trials, the two arms of Exp 1 and one       *)
(* condition of Exp 13, with two trials an arm.                            *)
(***************************************************************************)
EXTENDS WaveCampaign

MCStepOrder == << "gates", "exp6p1", "exp9", "exp1", "exp13" >>

MCArmsOf ==
  [s \in {"gates", "exp6p1", "exp9", "exp1", "exp13"} |->
    CASE s = "exp6p1" -> << "calibration" >>
      [] s = "exp1"   -> << "vulnerable", "defended" >>
      [] s = "exp13"  -> << "recovery" >>
      [] OTHER        -> << >>]

MCResume ==
  [s \in {"gates", "exp6p1", "exp9", "exp1", "exp13"} |->
    CASE s = "exp6p1" -> "strict" [] s = "exp13" -> "count" [] OTHER -> "readable"]

MCNeedsKStar == {"exp1", "exp13"}
MCDefended   == {"defended", "recovery"}
MCSize == [a \in {"calibration", "vulnerable", "defended", "recovery"} |-> 2]
MCGateOrder == << "G0", "G1" >>

Measured(qs) == [i \in DOMAIN qs |-> [k |-> i - 1, q |-> qs[i]]]

(* No policy call; a fall at the first step; one that the rounding of a    *)
(* trial file hides, so that the file has its onset at the second step.    *)
MCSession == {Measured(<<900>>), Measured(<<900, 850>>), Measured(<<900, 898, 700>>)}

WaiveG1  == [AutoResume EXCEPT !.from = "gates", !.skipGate = {"G1"}]
WaiveAll == [AutoResume EXCEPT !.from = "gates", !.skipGate = {"G0", "G1"}]
OnlyExp1 == [AutoResume EXCEPT !.only = "exp1"]
FromExp9 == [AutoResume EXCEPT !.from = "exp9", !.skip = {"exp9"}]

MCOption == {AutoResume, WaiveG1, WaiveAll, OnlyExp1, FromExp9}

=============================================================================
