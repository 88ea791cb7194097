-------------------------- MODULE MCFunctionWorkflow --------------------------
(* Instances of FunctionWorkflow for TLC: enough texts for a second product *)
(* document and the technical document and code made from the first one.    *)
EXTENDS FunctionWorkflow, TLC

Symmetry == Permutations(Workers)
=============================================================================
