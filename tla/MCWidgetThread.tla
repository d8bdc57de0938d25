--------------------------- MODULE MCWidgetThread ---------------------------
(***************************************************************************)
(* WidgetThread for TLC: one visitor, who gives details while nothing      *)
(* worse happens to the connection, or whose connection breaks or is slow. *)
(***************************************************************************)
EXTENDS WidgetThread, TLC

AllCalls == StaffSlots \cup SendSlots \cup {BootSlot}

AllBodies == Texts \cup {"reply"}

OneTrouble == details'.form # "offered" => drops' = 0 /\ unanswered' = {}

Symmetry ==
  Permutations(StaffSlots) \cup Permutations(SendSlots) \cup Permutations(Walkers)
    \cup Permutations(Texts)
=============================================================================
