--------------------------- MODULE MCAgentSockets ---------------------------
(***************************************************************************)
(* AgentSockets for TLC.  Document ids other than the founder's, request   *)
(* handlers and connections are interchangeable; the run that checks a     *)
(* liveness property takes no symmetry.                                    *)
(***************************************************************************)
EXTENDS AgentSockets, TLC

Symmetry ==
  Permutations(Docs \ {FounderDoc}) \cup Permutations(Requests)
    \cup Permutations(Sockets)
=============================================================================
