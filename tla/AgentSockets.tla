---------------------------- MODULE AgentSockets ----------------------------
(***************************************************************************)
(* The agents' half of the socket gateway (realtime/createSocketServer.ts, *)
(* realtime/socketAuthentication.ts), composed with Team: connections of   *)
(* staff to the inbox room of one organization, and the subscriber that    *)
(* disconnects a member whose access was revoked.                          *)
(*                                                                         *)
(*   none -> handshake -> proved -> joined                                 *)
(*                                                                         *)
(* A handshake reads the membership, then awaits the organization, then    *)
(* joins; from there on nobody looks at the membership again.  A           *)
(* revocation is what a handler of Team publishes when it is at            *)
(* "announce": the subscriber asks the adapter for the sockets in the room *)
(* in the same turn, and disconnects them when the answer resolves.        *)
(*                                                                         *)
(* Rooms, members and handlers are those of one server process, the only   *)
(* deployment the code supports.                                           *)
(***************************************************************************)
EXTENDS Team

CONSTANTS
  Sockets,       \* connections that may be open or opening at once
  Listeners,     \* users who open connections
  GatewayFaults  \* of "lostReply": a revocation may be written and reported as failed

\* Otherwise handlers do not fail one by one here: the process dies as a whole.
ASSUME SocketsAssumption ==
  /\ Faults = {}
  /\ Listeners \subseteq Users
  /\ GatewayFaults \subseteq {"lostReply"}

VARIABLES
  sock,       \* where each connection is, and whose access token it presents
  closing,    \* sockets fetched by the subscriber and not yet disconnected
  overtaken   \* history: connections that had read their membership when a
              \* revocation of their user was published, not having joined, or
              \* was given up unpublished

gateway == <<sock, closing, overtaken>>

all == <<vars, gateway>>

Closed == [pc |-> "none", user |-> NoUser]

Connections == [pc : {"none", "handshake", "proved", "joined"},
                user : Users \cup {NoUser}]

Stage(s, pc) == sock[s].pc = pc

Joined(s, u) == sock[s] = [pc |-> "joined", user |-> u]

SocketsOf(u) == {s \in Sockets : sock[s].user = u}

\* Mutant: a connection that ends stays in the subscriber's list.
ForgetSocket(gone) ==
  /\ sock' = [s \in Sockets |-> IF s \in gone THEN Closed ELSE sock[s]]
  /\ overtaken' = overtaken \ gone
  /\ UNCHANGED closing

\* These connections end, whoever ends them: the adapter takes them out of
\* the room and disconnecting them again does nothing.
Drop(gone) ==
  /\ sock' = [s \in Sockets |-> IF s \in gone THEN Closed ELSE sock[s]]
  /\ overtaken' = overtaken \ gone
  /\ closing' = closing \ gone

----------------------------------------------------------------------------
(* The connection.                                                         *)

\* A client presents an access token and the organization's id.  Tokens live
\* on after a revocation, so it may be anybody's.
Connect(s, u) ==
  /\ Stage(s, "none")
  /\ sock' = [sock EXCEPT ![s] = [pc |-> "handshake", user |-> u]]
  /\ UNCHANGED <<vars, closing, overtaken>>

\* authenticateAgent's gates on the membership it loads.
MayListen(u) ==
  \E d \in Docs : /\ Active(members, d) /\ members[d].user = u
                  /\ Can(members[d].role, "conversation.read")

ReadMembership(s) ==
  /\ Stage(s, "handshake")
  /\ IF MayListen(sock[s].user)
     THEN sock' = [sock EXCEPT ![s].pc = "proved"] /\ UNCHANGED <<closing, overtaken>>
     ELSE Drop({s})
  /\ UNCHANGED vars

\* The organization was read and is active; onAgentConnected joins the room.
JoinInbox(s) ==
  /\ Stage(s, "proved")
  /\ sock' = [sock EXCEPT ![s].pc = "joined"]
  /\ UNCHANGED <<vars, closing, overtaken>>

\* The client leaves or the transport breaks, at any point.
Disconnect(s) ==
  /\ ~Stage(s, "none")
  /\ Drop({s})
  /\ UNCHANGED vars

----------------------------------------------------------------------------
(* The revocation subscriber.                                              *)

\* Mutant: only a suspension is published, as before ADR-029.
PublishSuspension(r) ==
  /\ Announce(r)
  /\ closing' = closing \cup
       {s \in SocketsOf(req[r].subject) : Stage(s, "joined") /\ Is(r, "changeStatus")}
  /\ overtaken' = overtaken \cup
       {s \in SocketsOf(req[r].subject) : Stage(s, "proved")}
  /\ UNCHANGED sock

\* announceRevocation publishes and the subscriber fetches the sockets in the
\* room, of which it will disconnect the ones of this user.
Publish(r) ==
  /\ Announce(r)
  /\ closing' = closing \cup
       {s \in SocketsOf(req[r].subject) : Stage(s, "joined")}
  /\ overtaken' = overtaken \cup
       {s \in SocketsOf(req[r].subject) : Stage(s, "proved")}
  /\ UNCHANGED sock

\* The revocation was written but the driver reports a failure: the handler
\* throws before it has announced anything.
GiveUp(r) ==
  /\ "lostReply" \in GatewayFaults
  /\ At(r, "announce")
  /\ Finish(r)
  /\ overtaken' = overtaken \cup
       {s \in SocketsOf(req[r].subject) : sock[s].pc \in {"proved", "joined"}}
  /\ UNCHANGED <<members, assignee, replyLost, sock, closing>>

\* Mutant: the loop returns at the first socket it has disconnected.
DisconnectFirst ==
  /\ closing # {}
  /\ \E s \in closing :
       /\ sock' = [sock EXCEPT ![s] = Closed]
       /\ overtaken' = overtaken \ {s}
  /\ closing' = {}
  /\ UNCHANGED vars

\* fetchSockets resolved: the loop over what it returned.
DisconnectFetched ==
  /\ closing # {}
  /\ Drop(closing)
  /\ UNCHANGED vars

\* The process dies and starts again: handlers and connections die together.
Restart ==
  /\ req' = [r \in Requests |-> Idle]
  /\ Drop(Sockets)
  /\ UNCHANGED <<members, assignee, replyLost>>

----------------------------------------------------------------------------
(* The specification.                                                      *)

GatewayInit ==
  /\ Init
  /\ sock = [s \in Sockets |-> Closed]
  /\ closing = {}
  /\ overtaken = {}

\* A handler goes on; at "announce" that means publishing.
Resume(r) ==
  \/ ~At(r, "announce") /\ Serve(r) /\ UNCHANGED gateway
  \/ Publish(r)

GatewayNext ==
  \/ \E r \in Requests : Resume(r) \/ GiveUp(r) \/ (Arrive(r) /\ UNCHANGED gateway)
  \/ \E s \in Sockets :
       \/ \E u \in Listeners : Connect(s, u)
       \/ ReadMembership(s) \/ JoinInbox(s) \/ Disconnect(s)
  \/ DisconnectFetched
  \/ Restart

GatewaySpec == GatewayInit /\ [][GatewayNext]_all

\* The event loop resumes handlers and the subscriber's continuation.
\* Clients owe nothing.
FairGatewaySpec ==
  /\ GatewaySpec
  /\ \A r \in Requests : WF_all(Resume(r))
  /\ WF_all(DisconnectFetched)

----------------------------------------------------------------------------
(* Properties.                                                             *)

\* Every variable has its type, and the subscriber's list and the history
\* only hold connections that are there.
GatewayTypeOK ==
  /\ TypeOK
  /\ sock \in [Sockets -> Connections]
  /\ \A s \in Sockets : Stage(s, "none") <=> sock[s].user = NoUser
  /\ closing \subseteq {s \in Sockets : Stage(s, "joined")}
  /\ overtaken \subseteq {s \in Sockets : sock[s].pc \in {"proved", "joined"}}

\* A revocation of u is written and not yet published.
RevocationDue(u) == \E r \in Requests : At(r, "announce") /\ req[r].subject = u

\* s listens to the inbox although u, whose connection it is, is no member.
Stale(s, u) == Joined(s, u) /\ ~ActiveMember(members, u)

\* The inbox room holds a socket of somebody who is not an active member only
\* while the revocation is on its way to that socket, or if the handshake had
\* read the membership before the revocation and joined after the subscriber
\* looked, or if the revocation was reported as failed though it was written and
\* so was never published: suspensions, removals, re-additions and reconnections, in whatever
\* order, leave no other.
StaleSocketOnlyByHandshake ==
  \A s \in Sockets, u \in Users :
    Stale(s, u) => s \in closing \cup overtaken \/ RevocationDue(u)

\* A stale socket that neither excuses does not stay: the handler
\* that revoked its user publishes and the subscriber disconnects it, unless
\* the user is made a member again first.
RevocationDisconnects ==
  \A s \in Sockets, u \in Users :
    (Stale(s, u) /\ s \notin overtaken) ~> (~Stale(s, u) \/ s \in overtaken)

\* ADR-029, sections 9 and 16: the subscriber closes the channel of a revoked
\* member, and what is left is bounded by a reconnection, which is gated.
\* Once every publication is done nobody but members listens.
OnlyMembersListen ==
  closing = {} =>
    \A s \in Sockets, u \in Users : Stale(s, u) => RevocationDue(u)
=============================================================================
