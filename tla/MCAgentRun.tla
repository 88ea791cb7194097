----------------------------- MODULE MCAgentRun -----------------------------
(* Instances of AgentRun for TLC. *)
EXTENDS AgentRun

CONSTANTS r1, s1

OneConversation == [r \in Runs |-> s1]
AllOfFirst == [t \in Tools |-> r1]
=============================================================================
