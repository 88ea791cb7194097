--------------------------- MODULE MCFunctionOutbox ---------------------------
(* Instances of FunctionOutbox for TLC: the ticker, one or two other        *)
(* processors, and two events, so that batches, claims of the same event    *)
(* and marks across processors all occur.                                   *)
EXTENDS FunctionOutbox
=============================================================================
