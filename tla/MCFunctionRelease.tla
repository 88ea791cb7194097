-------------------------- MODULE MCFunctionRelease --------------------------
(* Instances of FunctionRelease for TLC.                                    *)
EXTENDS FunctionRelease, TLC

(* Contents and requests are interchangeable: no action and no property     *)
(* names one of them.                                                       *)
Symmetry == Permutations(Contents) \cup Permutations(Workers)
              \cup Permutations(Functions)
=============================================================================
