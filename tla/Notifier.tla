------------------------------ MODULE Notifier ------------------------------
(***************************************************************************)
(* The webhook notifier (notifications.py), the two routes that change its  *)
(* subscriptions (routers/notifications_api.py) and the tables it is        *)
(* rebuilt from at boot.  A hook is the identity of a stored subscription:  *)
(* tenant, URL, node pattern and the triggers as they were listed, sorted.  *)
(* Memory knows it by the set of its triggers, so a trigger listed twice    *)
(* makes another row of one subscription: KeyOf is the listing without      *)
(* repeats.  A slot is what an event is about (trigger, node, tenant), so   *)
(* Wants stands for the three matches of emit.                              *)
(***************************************************************************)
EXTENDS Integers, Sequences, FiniteSets, SequencesExt

CONSTANTS Hooks, Slots,
          Wants,        \* hook -> the slots its triggers, pattern and tenant match
          UrlOf,        \* hook -> the URL it posts to
          KeyOf,        \* hook -> the one memory knows it by
          Windows,      \* debounce windows a caller asks for
          Requests,     \* subscribe and unsubscribe requests
          MaxInFlight, MaxAttempts, MaxKeys, MaxLetters,
          BlockPrivate  \* whether an address is refused when it does not resolve

ASSUME NotifierAssumption ==
  /\ Windows \subseteq Nat
  /\ \A h \in Hooks : Wants[h] \subseteq Slots
  /\ \A h \in Hooks : /\ KeyOf[h] \in Hooks /\ KeyOf[KeyOf[h]] = KeyOf[h]
                       /\ UrlOf[KeyOf[h]] = UrlOf[h] /\ Wants[KeyOf[h]] = Wants[h]
  /\ {MaxInFlight, MaxAttempts, MaxKeys, MaxLetters} \subseteq Nat \ {0}
  /\ BlockPrivate \in BOOLEAN

VARIABLES rows,      \* the stored subscriptions [hook, window], oldest first
          subs,      \* those of the process: [hook, window, last]
          asks,      \* request -> [op, hook, window, stage]
          inFlight,  \* tasks: [n, hook, kind, attempt]
          letters,   \* the stored dead letters, oldest first
          clock,     \* the notifier's monotonic clock
          up         \* "up", "draining" or "down"

(* What was asked of the notifier and what came of it, kept to state        *)
(* properties about; no code reads it.                                      *)
VARIABLES offers,    \* {[n, slot, hook, at, window, era, fired]}: what emit decided
          delivered, \* {<<n, hook>>} a receiver answered with 2xx
          gone,      \* {<<n, hook>>} a stop or a failing table took
          overlapped,\* whether two requests about one URL were in hand at once
          era        \* moves when a stamp no longer says enough: at a stop, an unsubscribe,
                     \* a window that grows

notes == <<offers, delivered, gone, overlapped, era>>
notifierVars == <<rows, subs, asks, inFlight, letters, clock, up, notes>>

NoAsk == [op |-> "none", hook |-> CHOOSE h \in Hooks : TRUE, window |-> 0, stage |-> "none"]

(* After a boot.                                                            *)
NotifierInit ==
  /\ letters = <<>>
  /\ asks = [q \in Requests |-> NoAsk]
  /\ inFlight = {}
  /\ clock = 0 /\ up = "up"
  /\ offers = {} /\ delivered = {} /\ gone = {} /\ overlapped = FALSE /\ era = 0

HooksIn(list) == {list[i].hook : i \in DOMAIN list}

(* ---- the subscriptions: store first, memory second ---------------------- *)

(* _add_subscription: a row of the same identity is updated in place.       *)
AddRow(h, window) ==
  IF h \in HooksIn(rows)
  THEN [i \in DOMAIN rows |-> IF rows[i].hook = h THEN [hook |-> h, window |-> window] ELSE rows[i]]
  ELSE Append(rows, [hook |-> h, window |-> window])

BugRegister(list, h, window) ==    \* registers a repeated subscription again
  Append(list, [hook |-> h, window |-> window, last |-> [s \in {} |-> 0]])

(* subscribe: the one already here keeps the stamps it holds.  Its hook is  *)
(* a key.                                                                   *)
Register(list, h, window) ==
  IF h \in HooksIn(list)
  THEN [i \in DOMAIN list |-> IF list[i].hook = h THEN [hook |-> h, window |-> window, last |-> list[i].last]
                              ELSE list[i]]
  ELSE Append(list, [hook |-> h, window |-> window, last |-> [s \in {} |-> 0]])

Grows(h, window) == \E i \in DOMAIN subs : subs[i].hook = h /\ subs[i].window < window

(* The place of i in a set of positions, counted from one.                  *)
Rank(places, i) == Cardinality({j \in places : j <= i})

(* The entries at some positions, in their order.                           *)
Only(list, places) ==
  [k \in 1..Cardinality(places) |-> list[CHOOSE i \in places : Rank(places, i) = k]]

Without(list, url) == Only(list, {i \in DOMAIN list : UrlOf[list[i].hook] # url})

Meets(q, h) ==
  \E p \in Requests \ {q} :
    /\ asks[p].stage \notin {"none", "answered", "refused", "cut"}
    /\ UrlOf[asks[p].hook] = UrlOf[h]

(* The checks of the route have passed: what is left is two steps with an   *)
(* await between them.                                                      *)
Ask(q, op, h, window) ==
  /\ up = "up" /\ asks[q].stage = "none"
  /\ asks' = [asks EXCEPT ![q] = [op |-> op, hook |-> h, window |-> window, stage |-> "asked"]]
  /\ overlapped' = (overlapped \/ Meets(q, h))
  /\ UNCHANGED <<rows, subs, inFlight, letters, clock, up, offers, delivered, gone, era>>

At(q, op, stage) == asks[q].op = op /\ asks[q].stage = stage

Reach(q, stage) == asks' = [asks EXCEPT ![q].stage = stage]

StoreRow(q) ==
  /\ At(q, "subscribe", "asked")
  /\ rows' = AddRow(asks[q].hook, asks[q].window)
  /\ Reach(q, "stored")
  /\ UNCHANGED <<subs, inFlight, letters, clock, up, notes>>

(* subscribe runs the address check once more: a host that has stopped      *)
(* resolving since is refused after its row is stored.                      *)
RegisterHook(q) ==
  /\ At(q, "subscribe", "stored")
  /\ subs' = Register(subs, KeyOf[asks[q].hook], asks[q].window)
  /\ Reach(q, "answered")
  /\ era' = IF Grows(KeyOf[asks[q].hook], asks[q].window) THEN era + 1 ELSE era
  /\ UNCHANGED <<rows, inFlight, letters, clock, up, offers, delivered, gone, overlapped>>

RefuseHook(q) ==
  /\ At(q, "subscribe", "stored")
  /\ BlockPrivate
  /\ Reach(q, "refused")
  /\ UNCHANGED <<rows, subs, inFlight, letters, clock, up, notes>>

RemoveRows(q) ==
  /\ At(q, "unsubscribe", "asked")
  /\ rows' = Without(rows, UrlOf[asks[q].hook])
  /\ Reach(q, "stored")
  /\ UNCHANGED <<subs, inFlight, letters, clock, up, notes>>

(* unsubscribe: memory follows whether or not a row went (404).             *)
Forget(q) ==
  /\ At(q, "unsubscribe", "stored")
  /\ subs' = Without(subs, UrlOf[asks[q].hook])
  /\ Reach(q, "answered")
  /\ era' = era + 1
  /\ UNCHANGED <<rows, inFlight, letters, clock, up, offers, delivered, gone, overlapped>>

(* ---- emit --------------------------------------------------------------- *)

Due(sub, slot) ==
  \/ sub.window = 0
  \/ slot \notin DOMAIN sub.last
  \/ clock - sub.last[slot] >= sub.window

(* due: the firing is stamped, and past MaxKeys stamps the expired go.      *)
Stamps(sub, slot) ==
  LET last == [s \in DOMAIN sub.last \cup {slot} |-> IF s = slot THEN clock ELSE sub.last[s]]
      live == {s \in DOMAIN last : last[s] + sub.window >= clock}
  IN  IF sub.window = 0 THEN sub.last
      ELSE IF Cardinality(DOMAIN last) > MaxKeys THEN [s \in live |-> last[s]] ELSE last

Stamp(sub, slot) == [hook |-> sub.hook, window |-> sub.window, last |-> Stamps(sub, slot)]

Task(n, h, kind) == [n |-> n, hook |-> h, kind |-> kind, attempt |-> 1]

BugSchedule(place, n, h) ==     \* a delivery past the cap is only logged
  IF place > MaxInFlight THEN {} ELSE {Task(n, h, "deliver")}

(* _schedule: past the cap the delivery is not attempted, and the task that *)
(* records that is itself one more in flight (_bury, _schedule_persist), so *)
(* a delivery finds what was in flight and what this event scheduled before *)
(* it.                                                                      *)
Schedule(place, n, h) == {Task(n, h, IF place > MaxInFlight THEN "persist" ELSE "deliver")}

(* The subscriptions an event of a slot is for, and those it fires.         *)
Matching(slot) == {i \in DOMAIN subs : slot \in Wants[subs[i].hook]}
Firing(slot) == {i \in Matching(slot) : Due(subs[i], slot)}

Offer(n, slot, i) ==
  [n |-> n, slot |-> slot, hook |-> subs[i].hook, at |-> clock, window |-> subs[i].window,
   era |-> era, fired |-> i \in Firing(slot)]

(* emit, which awaits nothing: every subscription in turn.                  *)
Emit(n, slot) ==
  /\ up # "down"
  /\ subs' = [i \in DOMAIN subs |-> IF i \in Firing(slot) THEN Stamp(subs[i], slot) ELSE subs[i]]
  /\ inFlight' = inFlight \cup
       UNION {Schedule(Cardinality(inFlight) + Rank(Firing(slot), i), n, subs[i].hook) : i \in Firing(slot)}
  /\ offers' = offers \cup {Offer(n, slot, i) : i \in Matching(slot)}
  /\ UNCHANGED <<rows, asks, letters, clock, up, delivered, gone, overlapped, era>>

(* ---- the deliveries ------------------------------------------------------ *)

Delivered(t) ==
  /\ t \in inFlight /\ t.kind = "deliver"
  /\ inFlight' = inFlight \ {t}
  /\ delivered' = delivered \cup {<<t.n, t.hook>>}
  /\ UNCHANGED <<rows, subs, asks, letters, clock, up, offers, gone, overlapped, era>>

(* A refusal, an error, a timeout or an address that is refused now: tried  *)
(* again, and after the last attempt the same task writes the letter.       *)
AttemptFails(t) ==
  /\ t \in inFlight /\ t.kind = "deliver"
  /\ inFlight' = (inFlight \ {t}) \cup
       {IF t.attempt < MaxAttempts THEN [Task(t.n, t.hook, "deliver") EXCEPT !.attempt = t.attempt + 1]
        ELSE [Task(t.n, t.hook, "persist") EXCEPT !.attempt = t.attempt]}
  /\ UNCHANGED <<rows, subs, asks, letters, clock, up, notes>>

(* add_dead_letter: the insert and the trim are one transaction, and no     *)
(* other is between them (on PostgreSQL one may be, and the cap is passed). *)
Trimmed(list) == IF Len(list) <= MaxLetters THEN list ELSE Tail(list)

Persist(t) ==
  /\ t \in inFlight /\ t.kind = "persist"
  /\ letters' = Trimmed(Append(letters, <<t.n, t.hook>>))
  /\ inFlight' = inFlight \ {t}
  /\ UNCHANGED <<rows, subs, asks, clock, up, notes>>

PersistFails(t) ==
  /\ t \in inFlight /\ t.kind = "persist"
  /\ inFlight' = inFlight \ {t}
  /\ gone' = gone \cup {<<t.n, t.hook>>}
  /\ UNCHANGED <<rows, subs, asks, letters, clock, up, offers, delivered, overlapped, era>>

(* ---- the process --------------------------------------------------------- *)

Drain == up = "up" /\ up' = "draining" /\ UNCHANGED <<rows, subs, asks, inFlight, letters, clock, notes>>

Cut == asks' = [q \in Requests |->
         IF asks[q].stage \in {"asked", "stored"} THEN [asks[q] EXCEPT !.stage = "cut"] ELSE asks[q]]

(* The process ends: when nothing is in flight any more, when drain's five  *)
(* seconds are over, or because it is killed.                               *)
Stops ==
  /\ up # "down"
  /\ up' = "down"
  /\ gone' = gone \cup {<<t.n, t.hook>> : t \in inFlight}
  /\ inFlight' = {}
  /\ subs' = <<>>
  /\ Cut
  /\ overlapped' = FALSE
  /\ era' = era + 1
  /\ UNCHANGED <<rows, letters, clock, offers, delivered>>

(* rehydrate: every stored row is subscribed again, in turn, so the rows of *)
(* one key are one subscription, with the window of the last.  Each checks  *)
(* its host: where private addresses are blocked, one that does not resolve *)
(* raises and the boot ends there.                                          *)
KeyAt(i) == KeyOf[rows[i].hook]

LastAt(i) == CHOOSE j \in DOMAIN rows :
  KeyAt(j) = KeyAt(i) /\ \A k \in DOMAIN rows : KeyAt(k) = KeyAt(i) => k <= j

FirstOfKey == {i \in DOMAIN rows : \A j \in DOMAIN rows : KeyAt(j) = KeyAt(i) => i <= j}

Rehydrated ==
  Only([i \in DOMAIN rows |-> [hook |-> KeyAt(i), window |-> rows[LastAt(i)].window, last |-> [s \in {} |-> 0]]],
       FirstOfKey)

Boots ==
  /\ up = "down" /\ up' = "up"
  /\ subs' = Rehydrated
  /\ UNCHANGED <<rows, asks, inFlight, letters, clock, notes>>

Passes == clock' = clock + 1 /\ UNCHANGED <<rows, subs, asks, inFlight, letters, up, notes>>

Deliver(t) == Delivered(t) \/ AttemptFails(t) \/ Persist(t) \/ PersistFails(t)

(* ------------------------------------------------------------------------ *)

NotifierTypeOK ==
  /\ rows \in Seq([hook : Hooks, window : Windows])
  /\ \A i \in DOMAIN subs :
       /\ subs[i].hook \in Hooks /\ subs[i].window \in Windows
       /\ DOMAIN subs[i].last \subseteq Wants[subs[i].hook]
       /\ \A s \in DOMAIN subs[i].last : subs[i].last[s] <= clock
  /\ \A t \in inFlight : t.kind \in {"deliver", "persist"} /\ t.attempt \in 1..MaxAttempts
  /\ Len(letters) <= MaxLetters
  /\ up = "down" => inFlight = {} /\ subs = <<>>

(* A delivery that was scheduled is under way, was answered by its receiver,*)
(* or is in the dead-letter log, whatever the cap, the retries and the      *)
(* order did; only a stop, a table that refuses the letter or a full log    *)
(* takes it away.  With it, the deliveries under way never pass the cap.    *)
LostIsEvidence ==
  /\ NotifierTypeOK
  /\ Cardinality({t \in inFlight : t.kind = "deliver"}) <= MaxInFlight
  /\ \A o \in offers : o.fired =>
       \/ <<o.n, o.hook>> \in delivered \cup gone \cup ToSet(letters)
       \/ \E t \in inFlight : t.n = o.n /\ t.hook = o.hook
       \/ Len(letters) = MaxLetters

InHand(q) == asks[q].stage \in {"asked", "stored"}

AtRest == up = "up" /\ ~overlapped /\ \A q \in Requests : ~InHand(q) /\ asks[q].stage # "refused"

(* Between requests, what fires is what is stored: there is a subscription   *)
(* for every key with a row and for no other, once, with the window of such *)
(* a row, and no listing has two rows.  Repeated subscribes, unsubscribes,  *)
(* restarts and the order of a request's two steps never change that.  Two  *)
(* requests about one URL at once can (overlapped), and so can a host       *)
(* refused after its row was stored.                                        *)
MemoryFollowsTable ==
  AtRest =>
    /\ HooksIn(subs) = {KeyOf[h] : h \in HooksIn(rows)}
    /\ \A i \in DOMAIN subs : \E j \in DOMAIN rows :
         KeyAt(j) = subs[i].hook /\ rows[j].window = subs[i].window
    /\ Cardinality(HooksIn(subs)) = Len(subs)
    /\ Cardinality(HooksIn(rows)) = Len(rows)

(* Not kept: memory and the table are said to have the same identity of a   *)
(* subscription (notifications.py:152-154), and the table tells apart two   *)
(* listings of the same triggers; a restart then takes the window of the    *)
(* row stored last, whichever was asked for last.                           *)
OneRowEach == AtRest => Len(subs) = Len(rows)

SameSlot(o, p) == o.hook = p.hook /\ o.slot = p.slot

(* The debounce is a window and never a mute: an event that did not fire    *)
(* had one of its slot fire less than the window before, and two of a slot  *)
(* that fired are a window apart, however the stamps were swept and the     *)
(* subscription repeated in between, unless that made the window grow.      *)
DebounceIsAWindow ==
  \A o \in offers :
    IF o.fired
    THEN \A p \in offers :
           SameSlot(o, p) /\ p.fired /\ p.n < o.n /\ p.era = o.era /\ p.window > 0 =>
             o.at - p.at >= o.window
    ELSE \E p \in offers : SameSlot(o, p) /\ p.fired /\ p.n < o.n /\ o.at - p.at < o.window

(* An event that was due went out or left a letter, and one that was not    *)
(* due is covered by one that was.                                          *)
EventsAreAccounted == LostIsEvidence /\ DebounceIsAWindow

(* Not kept: the comment of _schedule has it that a flood does not grow the *)
(* task list, and every delivery refused at the cap adds a task.            *)
TasksCapped == Cardinality(inFlight) <= MaxInFlight

(* Not kept: the shutdown waits so that a delivery is not lost without a    *)
(* letter (lifecycle.py), and the wait is shorter than the retries.         *)
DrainLosesNothing == [][up = "draining" /\ up' = "down" => gone' = gone]_notifierVars
=============================================================================
