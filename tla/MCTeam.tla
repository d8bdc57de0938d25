------------------------------- MODULE MCTeam -------------------------------
(***************************************************************************)
(* Team for TLC.  Users other than the founder, document ids other than    *)
(* the founder's, request handlers and conversations are interchangeable.  *)
(***************************************************************************)
EXTENDS Team, TLC

Symmetry ==
  Permutations(Users \ {Founder}) \cup Permutations(Docs \ {FounderDoc})
    \cup Permutations(Requests) \cup Permutations(Convs)
=============================================================================
