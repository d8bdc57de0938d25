---------------------------- MODULE MCAgentInbox ----------------------------
(***************************************************************************)
(* AgentInbox for TLC: the socket breaks, or lastMessageAt is not written. *)
(***************************************************************************)
EXTENDS AgentInbox, TLC

AllCalls == StaffSlots \cup {ReplySlot, ActionSlot}

OneTrouble == drops' = 0 \/ untouched' = {}
=============================================================================
