------------------------ MODULE MCConversationOperation ------------------------
(* Instances of ConversationOperation for TLC.                              *)
EXTENDS ConversationOperation, TLC

Symmetry == Permutations(Clients) \cup Permutations(Tools)
=============================================================================
