--------------------------- MODULE MCExperimentHost ---------------------------
(***************************************************************************)
(* Two cells; the second stage runs the cells of the first in another      *)
(* order, with one repeat left out.  Waves are subsequences of the wave's  *)
(* order of steps.                                                         *)
(***************************************************************************)
EXTENDS ExperimentHost

CONSTANTS c1, c2

MCCell  == {c1, c2}
MCChain == << << c1, c1 >>, << c2, c1 >> >>

MCWaves == {<<"gates", "exp9", "exp2", "exp1">>, <<"exp14", "exp10bc", "exp13">>, <<"mm">>}

MCArms  == << "standard", "isolated", "standard" >>

=============================================================================
