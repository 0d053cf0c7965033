----------------------------- MODULE Broadcast -----------------------------
(***************************************************************************)
(* The in-process fan-out behind both SSE routes.  A subscriber is a       *)
(* bounded queue in the topic's set: a record of the queue and of whether  *)
(* it is still in the set.  A publish that does not fit makes room, leaves *)
(* the overflow marker in its place and takes the subscriber off the set;  *)
(* the stream that reads the queue ends at the marker.                     *)
(***************************************************************************)
EXTENDS Naturals, Sequences

CONSTANTS QueueCap, Overflow   \* QueueCap: messages a subscriber may fall behind, 1000 in the code

ASSUME QueueAssumption == QueueCap \in Nat \ {0}

Subscriber(Message) == [queue: Seq(Message \cup {Overflow}), listening: BOOLEAN]
Subscribed == [queue |-> <<>>, listening |-> TRUE]
Unsubscribed == [queue |-> <<>>, listening |-> FALSE]

(* Fault: a full queue drops its oldest message and goes on listening.     *)
BugPutLossy(sub, m) ==
  IF ~sub.listening THEN sub
  ELSE IF Len(sub.queue) < QueueCap THEN [sub EXCEPT !.queue = Append(@, m)]
  ELSE [sub EXCEPT !.queue = Append(Tail(@), m)]

Put(sub, m) ==
  IF ~sub.listening THEN sub
  ELSE IF Len(sub.queue) < QueueCap THEN [sub EXCEPT !.queue = Append(@, m)]
  ELSE [queue |-> Append(Tail(sub.queue), Overflow), listening |-> FALSE]

(* Fault: the bus drops a slow subscriber and leaves it no marker.         *)
BugPutAllSilently(sub, ms) ==
  IF ~sub.listening THEN sub
  ELSE IF Len(sub.queue) + Len(ms) <= QueueCap THEN [queue |-> sub.queue \o ms, listening |-> TRUE]
  ELSE [queue |-> SubSeq(sub.queue \o ms, 1, QueueCap), listening |-> FALSE]

(* The messages of ms, put one after the other: the one that does not fit  *)
(* takes the subscriber off the set, and the rest are not for it.          *)
PutAll(sub, ms) ==
  IF ~sub.listening THEN sub
  ELSE IF Len(sub.queue) + Len(ms) <= QueueCap THEN [queue |-> sub.queue \o ms, listening |-> TRUE]
  ELSE [queue |-> Append(SubSeq(sub.queue \o ms, 2, QueueCap), Overflow), listening |-> FALSE]
=============================================================================
