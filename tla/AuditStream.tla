---------------------------- MODULE AuditStream ----------------------------
(***************************************************************************)
(* The live audit stream of one run: GET /v1/runs/{run}/stream, fed by the *)
(* ingest handlers of EventLog.                                            *)
(*                                                                         *)
(* The stream subscribes, replays the rows after the client's Last-Event-  *)
(* ID, then yields what the handlers publish, skipping ids at or below the *)
(* last one delivered.  The client reconnects when a stream ends and       *)
(* resumes from the id it saw last.  A handler publishes after its commit, *)
(* when the event loop resumes it: commits and publishes may be in         *)
(* different orders, and neither need be the order of the ids.             *)
(***************************************************************************)
EXTENDS EventLog, Broadcast, SequencesExt

CONSTANT MaxDrops   \* bound: connections the network breaks

(* The overflow marker is told apart from every row id.                    *)
ASSUME StreamAssumption == MaxDrops \in Nat /\ Overflow \notin Nat \ {0}

VARIABLES
  link,       \* "down", "subscribed", "open"
  sub,        \* the stream's subscription
  backlog,    \* replayed rows the stream has not yet yielded
  delivered,  \* the stream's cursor
  received,   \* history: ids the client received, in order; the last is its Last-Event-ID
  drops,      \* connections broken so far
  evicted,    \* history: ids a full queue discarded to make room
  overtaken,  \* history: ids not yet published when a higher one was sent to streams
  unseen      \* history: a batch was measured while another that had been was open

streamVars == <<link, sub, backlog, delivered, received, drops, evicted, overtaken, unseen>>
auditVars == <<logVars, streamVars>>

AuditInit ==
  /\ LogInit
  /\ link = "down"
  /\ sub = Unsubscribed
  /\ backlog = <<>>
  /\ delivered = 0
  /\ received = <<>>
  /\ drops = 0
  /\ evicted = {}
  /\ overtaken = {} /\ unseen = FALSE

LastEventId == IF received = <<>> THEN 0 ELSE Last(received)

(* The ids of rows, in ascending order: one sequence for every set of rows.*)
InOrder(R) ==
  LET ids == IdOf(R) IN
  {s \in [1..Cardinality(ids) -> ids] :
     ToSet(s) = ids /\ \A k \in DOMAIN s : \A j \in 1..(k - 1) : s[j] < s[k]}

(* A transaction that has measured the log, and whose rows the next one to *)
(* measure it does not see.                                                *)
Uncommitted(b) == pc[b] \in {"measured", "inserted"}

StoreStep ==
  /\ \E b \in Batch : Store(b)
  /\ unseen' = (unseen \/ \E b, c \in Batch :
                  b # c /\ Uncommitted(b)' /\ ~Uncommitted(b) /\ Uncommitted(c))
  /\ UNCHANGED <<link, sub, backlog, delivered, received, drops, evicted, overtaken>>

(* Ids that a committed row or an open transaction holds and no handler    *)
(* has published.                                                          *)
Unpublished == UNION {IdOf(own[b]) : b \in Batch}

(* The handler resumes: it publishes its rows in the order of their ids,   *)
(* without an await between them, and answers.                             *)
PublishStep ==
  /\ \E b \in Batch : \E arriving \in InOrder(own[b]) :
       /\ Respond(b)
       /\ sub' = PutAll(sub, arriving)
       /\ evicted' = IF sub.listening /\ ~sub'.listening
                     THEN evicted \cup {Head(sub.queue \o arriving)} ELSE evicted
       /\ overtaken' = overtaken \cup
            {i \in Unpublished \ IdOf(own[b]) : \E j \in IdOf(own[b]) : i < j}
  /\ UNCHANGED <<link, backlog, delivered, received, drops, unseen>>

CloseStream ==
  /\ link' = "down"
  /\ sub' = Unsubscribed
  /\ backlog' = <<>>

(* A crash also loses the publish of what was committed.                   *)
CrashStep ==
  /\ Crash
  /\ CloseStream
  /\ overtaken' = overtaken \cup {i \in Unpublished : i < LastEventId}
  /\ UNCHANGED <<delivered, received, drops, evicted, unseen>>

(* Fault: a reconnect starts at the tip of the log.                        *)
BugConnectAtTip ==
  /\ link = "down"
  /\ link' = "subscribed"
  /\ sub' = Subscribed
  /\ delivered' = nextId - 1
  /\ UNCHANGED <<logVars, backlog, received, drops, evicted, overtaken, unseen>>

Connect ==
  /\ link = "down"
  /\ link' = "subscribed"
  /\ sub' = Subscribed
  /\ delivered' = LastEventId
  /\ UNCHANGED <<logVars, backlog, received, drops, evicted, overtaken, unseen>>

Replay ==
  /\ link = "subscribed"
  /\ LET replayed == {e \in rows : e.id > delivered} IN
       /\ backlog' \in InOrder(replayed)
       /\ overtaken' = overtaken \cup
            {i \in Unpublished \ IdOf(rows) : \E e \in replayed : i < e.id}
  /\ link' = "open"
  /\ UNCHANGED <<logVars, sub, delivered, received, drops, evicted, unseen>>

Yield(i) ==
  /\ delivered' = i
  /\ received' = Append(received, i)

YieldReplayed ==
  /\ link = "open"
  /\ backlog # <<>>
  /\ Yield(Head(backlog))
  /\ backlog' = Tail(backlog)
  /\ UNCHANGED <<logVars, link, sub, drops, evicted, overtaken, unseen>>

(* Fault: a live message at or below the cursor is delivered again.        *)
BugYieldLiveTwice ==
  /\ link = "open" /\ backlog = <<>>
  /\ sub.queue # <<>>
  /\ \/ Head(sub.queue) = Overflow /\ CloseStream /\ UNCHANGED <<delivered, received>>
     \/ /\ Head(sub.queue) # Overflow
        /\ Yield(Head(sub.queue))
        /\ sub' = [sub EXCEPT !.queue = Tail(@)]
        /\ UNCHANGED <<link, backlog>>
  /\ UNCHANGED <<logVars, drops, evicted, overtaken, unseen>>

YieldLive ==
  /\ link = "open" /\ backlog = <<>>
  /\ sub.queue # <<>>
  /\ \/ Head(sub.queue) = Overflow /\ CloseStream /\ UNCHANGED <<delivered, received>>
     \/ /\ Head(sub.queue) # Overflow
        /\ IF Head(sub.queue) <= delivered THEN UNCHANGED <<delivered, received>>
                                           ELSE Yield(Head(sub.queue))
        /\ sub' = [sub EXCEPT !.queue = Tail(@)]
        /\ UNCHANGED <<link, backlog>>
  /\ UNCHANGED <<logVars, drops, evicted, overtaken, unseen>>

Break ==
  /\ link # "down" /\ drops < MaxDrops
  /\ drops' = drops + 1
  /\ CloseStream
  /\ UNCHANGED <<logVars, delivered, received, evicted, overtaken, unseen>>

Stream == Connect \/ Replay \/ YieldReplayed \/ YieldLive

AuditNext == StoreStep \/ PublishStep \/ CrashStep \/ Stream \/ Break

(* The event loop runs handlers and streams; EventSource reconnects by     *)
(* itself when a stream ends.                                              *)
AuditFairness ==
  /\ \A b \in Batch : WF_auditVars(pc[b] # "idle" /\ (StoreStep \/ PublishStep))
  /\ WF_auditVars(Stream)

AuditSpec == AuditInit /\ [][AuditNext]_auditVars /\ AuditFairness

-----------------------------------------------------------------------------
(* Types of the stream's variables.                                        *)
AuditTypeOK ==
  /\ link \in {"down", "subscribed", "open"}
  /\ sub \in Subscriber(Nat) /\ Len(sub.queue) <= QueueCap
  /\ link = "down" => sub = Unsubscribed /\ backlog = <<>>
  /\ backlog \in Seq(Nat) /\ received \in Seq(Nat)
  /\ delivered \in Nat /\ drops \in 0..MaxDrops
  /\ IdOf(rows) \subseteq 1..(nextId - 1) /\ unseen \in BOOLEAN

(* The client sees an event once and in the order of the log, across every *)
(* reconnect, replay and overflow.                                         *)
ReceivedInOrder ==
  /\ AuditTypeOK
  /\ \A i, j \in DOMAIN received : i < j => received[i] < received[j]

(* The log outgrows its ceiling only if two batches were measured before   *)
(* either was committed.                                                   *)
OnlyOverlapOverflows == CeilingHolds \/ unseen

(* The log keeps to its ceiling, overlaps apart, and the client sees each  *)
(* of its events once and in order.                                        *)
LogIsFollowed == ReceivedInOrder /\ OnlyOverlapOverflows

Passed == {i \in IdOf(rows) : i <= LastEventId}

(* The exact extent of what a stream may lose: an event the client's       *)
(* cursor has passed was received, or was overtaken by the publish of a    *)
(* later one, or made room in a full queue.                                *)
EveryGapHasACause == Passed \subseteq ToSet(received) \cup overtaken \cup evicted

(* Every other event that is stored reaches a client that keeps coming     *)
(* back.                                                                   *)
StoredIsDelivered ==
  \A i \in 1..Cardinality(Line) :
    i \in IdOf(rows) ~> i \in ToSet(received) \cup overtaken \cup evicted

(* The replay after an overflow covers the message the overflow discarded. *)
ReplayCoversOverflow == Passed \subseteq ToSet(received) \cup overtaken

(* A reconnect resumes exactly where the stream stopped: nothing at or     *)
(* below the cursor is missing, overflows apart.                           *)
CursorIsComplete == Passed \subseteq ToSet(received) \cup evicted
=============================================================================
