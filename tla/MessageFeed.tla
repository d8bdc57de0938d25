---------------------------- MODULE MessageFeed ----------------------------
(***************************************************************************)
(* What a list of messages on a screen promises, whoever shows it: it only *)
(* ever shows stored messages of the thread it is about, shows none twice, *)
(* and what it has shown stays where it is until the whole list is cleared *)
(* for another thread.                                                     *)
(* WidgetThread and AgentInbox are shown to implement it.                  *)
(***************************************************************************)
EXTENDS Naturals, Sequences, SequencesExt

VARIABLES
  stored,   \* the messages that may be shown
  shown     \* what the list shows, in order

Init == shown = <<>>

\* The collection only grows: no code edits or deletes a message.
Store ==
  /\ stored \subseteq stored'
  /\ UNCHANGED shown

\* A batch of stored messages is appended, none of them a second time.
Show ==
  /\ stored \subseteq stored'
  /\ IsPrefix(shown, shown')
  /\ ToSet(shown') \subseteq stored'
  /\ IsInjective(shown')

\* The list is about another thread now, or the same one anew.
Clear == shown' = <<>>

Next == Store \/ Show \/ Clear

Spec == Init /\ [][Next]_<<stored, shown>>
=============================================================================
