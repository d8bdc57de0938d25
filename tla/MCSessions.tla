----------------------------- MODULE MCSessions -----------------------------
(***************************************************************************)
(* Sessions for TLC: one person's browser.  A session that expires is the  *)
(* only one there is when it does, and its account is active.  (Purged     *)
(* ones are gone.)                                                         *)
(***************************************************************************)
EXTENDS Sessions, TLC

CONSTANT u1

TheirUser == [b \in Browsers |-> u1]

OneEnd ==
  now' = MaxTime =>
    disabled' = {} /\ \E s \in Sids : sessions'[s].state \in {"none", "purged"}

Symmetry == Permutations(Browsers) \cup Permutations(Requests) \cup Permutations(Sids)
=============================================================================
