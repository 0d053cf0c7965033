---------------------------- MODULE PlaneStream ----------------------------
(***************************************************************************)
(* The command channel down to the node: GET /plane/{node}/desired.        *)
(*                                                                         *)
(* The stream subscribes to the node's topic, then yields a snapshot made  *)
(* of two reads of the row (the state with its version; the commands),     *)
(* then the messages of the topic: the deltas of the handlers of           *)
(* DesiredState, and what other handlers publish about the node (its       *)
(* heartbeats, facts, probe reports, reputation and silence).  It ends at  *)
(* the overflow marker, with the connection, or with the process.          *)
(*                                                                         *)
(* The node's adapter is not in this repository: it is modelled from the   *)
(* rules of the protocol (apply what is newer than the applied version;    *)
(* with operator keys, only what a signature covers, snapshots whole).     *)
(***************************************************************************)
EXTENDS DesiredState, Broadcast, FiniteSets

CONSTANT MaxNotices   \* bound: messages other than deltas that are published

ASSUME NoticesAssumption == MaxNotices \in Nat

VARIABLES
  bus,        \* history: what was published to the node's topic, in order
  link,       \* "down", "subscribed" (topic joined), "stated" (state read), "open"
  sub,        \* the stream's subscription
  snap,       \* the version and state the stream read for its snapshot
  heard,      \* history: requests whose delta this stream has yielded
  overran,    \* history: the places on the topic of the messages that overran a queue
  torn,       \* history: a write came between the two reads of a snapshot it refused
  node,       \* the adapter: applied version, value per key, values it was ever given,
              \* and whether it refused the last snapshot
  verifies    \* the adapter was configured with operator keys

streamVars == <<bus, link, sub, snap, heard, overran, torn, node, verifies>>
allVars == <<vars, streamVars>>

(* A delta carries the version its request landed at; a message that is    *)
(* not a delta has none, and says nothing of the row.                      *)
Delta(r) == [version |-> landed[r], req |-> r]
Notice == [version |-> 0, req |-> None]
TopicMessage == [version: Nat, req: Req \cup {None}]
Held == [Key -> Req \cup {None}]

NoSnap == [version |-> 0, state |-> NoRow.state]

StreamInit ==
  /\ Init
  /\ bus = <<>>
  /\ link = "down"
  /\ sub = Unsubscribed
  /\ snap = NoSnap
  /\ heard = {} /\ overran = {} /\ torn = FALSE
  /\ node = [applied |-> 0, holds |-> NoRow.state, given |-> {}, refused |-> FALSE]
  /\ verifies = (posture = "signed")

(* The handlers of DesiredState, with a node that acks what it was given.  *)
ArriveStep(r) ==
  /\ \/ ReceiveCommand(r) \/ ReceiveCascade(r)
     \/ ReceiveAck(r) /\ job'[r].consumed \in node.given
  /\ UNCHANGED streamVars

HandlerStep(r) ==
  /\ Read(r) \/ Write(r) \/ Lose(r) \/ OpenHeal(r)
  /\ UNCHANGED streamVars

(* A message goes to the topic and, while there is one, to the queue.      *)
Send(m) ==
  /\ bus' = Append(bus, m)
  /\ sub' = Put(sub, m)
  /\ overran' = IF sub.listening /\ ~sub'.listening THEN overran \cup {Len(bus')} ELSE overran
  /\ UNCHANGED <<link, snap, heard, torn, node, verifies>>

PublishStep(r) == Publish(r) /\ Send(Delta(r))

(* A heartbeat, a fact, a probe report, a reputation or a silence; where   *)
(* nobody listens its publication changes nothing.                         *)
PublishNotice ==
  /\ sub.listening
  /\ Cardinality({i \in DOMAIN bus : bus[i] = Notice}) < MaxNotices
  /\ Send(Notice)
  /\ UNCHANGED vars

Subscribe ==
  /\ link = "down"
  /\ link' = "subscribed"
  /\ sub' = Subscribed
  /\ UNCHANGED <<vars, bus, snap, heard, overran, torn, node, verifies>>

(* The first read: get_desired.                                            *)
ReadState ==
  /\ link = "subscribed"
  /\ snap' = [version |-> row.version, state |-> row.state]
  /\ link' = "stated"
  /\ UNCHANGED <<vars, bus, sub, heard, overran, torn, node, verifies>>

(* The adapter, given a snapshot of `s` vouched for by the commands `by`:  *)
(* with operator keys it replays the commands, and refuses the whole of it *)
(* if a key has none.                                                      *)
Vouched(s, by) == \A k \in Key : s.state[k] # None => by[k] # NoCommand

Take(version, holds) ==
  [applied |-> version, holds |-> holds, refused |-> FALSE,
   given |-> node.given \cup ({holds[k] : k \in Key} \ {None})]

TakeSnapshot(s, by) ==
  IF verifies /\ ~Vouched(s, by) THEN [node EXCEPT !.refused = TRUE]
  ELSE IF s.version > node.applied
       THEN Take(s.version, IF verifies THEN [k \in Key |-> by[k].sig] ELSE s.state)
       ELSE [node EXCEPT !.refused = FALSE]

(* The second read, desired_commands, and the snapshot event.              *)
YieldSnapshot ==
  /\ link = "stated"
  /\ node' = TakeSnapshot(snap, row.by)
  /\ torn' = (node'.refused /\ row.version # snap.version)
  /\ link' = "open"
  /\ UNCHANGED <<vars, bus, sub, snap, heard, overran, verifies>>

(* The adapter, given a message: nothing but a delta has a version.        *)
TakeDelta(m) ==
  IF m.version > node.applied /\ (verifies => job[m.req].signed)
  THEN Take(m.version,
            [k \in Key |-> IF k \in job[m.req].keys THEN m.req ELSE node.holds[k]])
  ELSE node

(* The generator's `finally` leaves the topic; what the stream read and    *)
(* yielded goes with it.                                                   *)
Close ==
  /\ link' = "down"
  /\ sub' = Unsubscribed
  /\ snap' = NoSnap
  /\ heard' = {}

(* Fault: the stream passes over the overflow marker and keeps waiting.    *)
BugYieldDeltaDeaf ==
  /\ link = "open"
  /\ sub.queue # <<>>
  /\ sub' = [sub EXCEPT !.queue = Tail(@)]
  /\ UNCHANGED <<vars, bus, link, snap, overran, torn, verifies>>
  /\ IF Head(sub.queue) = Overflow THEN UNCHANGED <<heard, node>>
     ELSE /\ heard' = heard \cup ({Head(sub.queue).req} \ {None})
          /\ node' = TakeDelta(Head(sub.queue))

YieldDelta ==
  /\ link = "open"
  /\ sub.queue # <<>>
  /\ UNCHANGED <<vars, bus, overran, torn, verifies>>
  /\ \/ /\ Head(sub.queue) = Overflow
        /\ Close
        /\ UNCHANGED node
     \/ /\ Head(sub.queue) # Overflow
        /\ sub' = [sub EXCEPT !.queue = Tail(@)]
        /\ heard' = heard \cup ({Head(sub.queue).req} \ {None})
        /\ node' = TakeDelta(Head(sub.queue))
        /\ UNCHANGED <<link, snap>>

(* The connection breaks.                                                  *)
Disconnect ==
  /\ link # "down"
  /\ Close
  /\ UNCHANGED <<vars, bus, overran, torn, node, verifies>>

(* The process dies: every handler and every stream with it.               *)
PlaneRestart ==
  /\ Restart
  /\ Close
  /\ UNCHANGED <<bus, overran, torn, node, verifies>>

Stream == ReadState \/ YieldSnapshot \/ YieldDelta

StreamNext ==
  \/ \E r \in Req : ArriveStep(r) \/ HandlerStep(r) \/ PublishStep(r)
  \/ PublishNotice \/ Subscribe \/ Stream \/ Disconnect \/ PlaneRestart

StreamSpec == StreamInit /\ [][StreamNext]_allVars

(* The event loop serves a handler that can run and an open stream; nobody *)
(* need send a request, and the node need not connect at all.              *)
FairStreamSpec ==
  /\ StreamSpec
  /\ \A r \in Req : WF_allVars(HandlerStep(r) \/ PublishStep(r))
  /\ WF_allVars(Stream)

-----------------------------------------------------------------------------
(* Types of the stream's variables.                                        *)
StreamTypeOK ==
  /\ bus \in Seq(TopicMessage)
  /\ link \in {"down", "subscribed", "stated", "open"}
  /\ sub \in Subscriber(TopicMessage) /\ Len(sub.queue) <= QueueCap
  /\ link = "down" => sub = Unsubscribed
  /\ snap \in [version: Nat, state: Held]
  /\ heard \subseteq Req /\ overran \subseteq Nat /\ torn \in BOOLEAN
  /\ node \in [applied: Nat, holds: Held, given: SUBSET Req, refused: BOOLEAN]

Queued(r) == \E i \in DOMAIN sub.queue : sub.queue[i] = Delta(r)

(* Nothing falls between the snapshot and the deltas: what a 202 promised  *)
(* and the snapshot does not contain has been yielded, or waits in the     *)
(* queue, for as long as the bus has not dropped the stream.               *)
NoDeltaIsMissed ==
  link \in {"stated", "open"} /\ sub.listening =>
    \A r \in Req : answer[r] = "202" /\ landed[r] > snap.version => r \in heard \/ Queued(r)

(* A stream that was dropped is told so: the marker is in its queue.       *)
DroppedIsMarked ==
  link # "down" /\ ~sub.listening => \E i \in DOMAIN sub.queue : sub.queue[i] = Overflow

(* A node whose stream is open and has nothing left to bring, and a key at *)
(* which it holds what was acknowledged.                                   *)
Drained == link = "open" /\ sub = Subscribed /\ ~verifies /\ \A r \in Req : ~InFlight(r)
InForce(k) == row.state[k] = node.holds[k] \/ answer[row.state[k]] # "202"

Overtaken(r) ==
  \E i, j \in DOMAIN bus : i < j /\ bus[j].req = r /\ bus[j].version < bus[i].version

(* A full queue gives up its first message for the marker, and the node    *)
(* comes back for a snapshot; but it still applies what stood behind that  *)
(* message, and where one of those is newer, and newer than what overran   *)
(* the queue, the snapshot may be no newer than what the node then has.    *)
GivenUp(r) ==
  \E j \in overran, h, i \in DOMAIN bus :
    /\ h = j - QueueCap /\ bus[h].req = r
    /\ h < i /\ i < j /\ bus[h].version < bus[i].version
    /\ bus[j].version < bus[i].version

(* A command that was acknowledged is in force at a node whose stream is   *)
(* open and drained, one-shots apart, unless a later version was published *)
(* before it, or stood behind it in a queue that was overrun by a message  *)
(* older than that one, or by one that is no delta at all.                 *)
OnlyOvertakenIsNotInForce ==
  Drained => \A k \in Key \ OneShot :
               InForce(k) \/ Overtaken(row.state[k]) \/ GivenUp(row.state[k])

(* A node with operator keys refuses a snapshot only if a write committed  *)
(* between its two reads, or if some write was not signed: read whole, the *)
(* row's commands vouch for every value in it.                             *)
AllWereSigned == \A i \in DOMAIN log : log[i].val # None => job[log[i].req].signed
OnlyTornIsRefused == node.refused => torn \/ ~AllWereSigned

(* No change is lost without the node being able to tell: as long as the   *)
(* bus keeps the stream nothing is missing, and when it does not, the       *)
(* stream carries the mark that sends the node back for a snapshot, which  *)
(* a node with operator keys can verify unless it is torn.                 *)
NothingIsLostSilently ==
  /\ StreamTypeOK
  /\ NoDeltaIsMissed
  /\ OnlyOvertakenIsNotInForce
  /\ OnlyTornIsRefused
  /\ DroppedIsMarked

(* A stream the bus dropped ends, so that the node can come back for a     *)
(* snapshot, and does not wait open and deaf for ever.                     *)
DroppedStreamEnds == (link # "down" /\ ~sub.listening) ~> link = "down"

(* A deployment all of whose writes were signed serves snapshots that its  *)
(* adapter accepts.                                                        *)
SignedSnapshotIsAccepted == node.refused => ~AllWereSigned

(* Not kept: a command that was acknowledged is in force at a node whose   *)
(* stream is open and drained, one-shots apart.                            *)
AcknowledgedIsInForce == Drained => \A k \in Key \ OneShot : InForce(k)

(* Not kept by a queue of two messages, two requests and one notice: what  *)
(* is not in force was published after a later version; the snapshot that  *)
(* follows an overflow covers the delta the bus discarded.                 *)
ReplayCoversOverflow ==
  Drained => \A k \in Key \ OneShot : InForce(k) \/ Overtaken(row.state[k])
=============================================================================
