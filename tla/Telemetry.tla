----------------------------- MODULE Telemetry -----------------------------
(***************************************************************************)
(* The reported state of one node: POST /plane/{node}/telemetry and the    *)
(* stale monitor.                                                          *)
(*                                                                         *)
(* A node sends its reports in order and repeats one until it is answered, *)
(* under the report's Idempotency-Key; a repeat may overtake a handler the *)
(* node has given up on.  A handler ingests the batch (one transaction:    *)
(* see EventLog), folds its last heartbeat into the node's row unless the  *)
(* batch was a replay, pages upward level transitions, notes the node as   *)
(* active today, and answers.  The monitor lists the rows, and pages once  *)
(* for each silence: the flag that says so is in the row, and every        *)
(* heartbeat clears it.                                                    *)
(***************************************************************************)
EXTENDS Naturals

CONSTANTS
  Handler,     \* requests
  Reports,     \* the node sends the reports 1..Reports, one heartbeat each
  LevelOf,     \* LevelOf[n]: the degradation level in report n; NORMAL is 0
  Collides,    \* reports whose event rows are all in the log already
  Monitor,     \* stale monitors
  StaleAfter,  \* clock ticks of silence that make a node stale
  MaxClock,    \* bound: the last tick
  MaxSends,    \* bound: requests the node sends
  MaxCrashes   \* bound: times the process dies

Report == 1..Reports

ASSUME TelemetryAssumption ==
  /\ Reports \in Nat \ {0} /\ LevelOf \in [Report -> Nat] /\ Collides \subseteq Report
  /\ StaleAfter \in Nat \ {0} /\ MaxClock \in Nat /\ MaxSends \in Nat /\ MaxCrashes \in Nat

VARIABLES
  acked,      \* reports the node has had a 202 for
  accepted,   \* reports whose Idempotency-Key is committed
  pc,         \* pc[h]: the stage of handler h
  of,         \* of[h]: the report h carries
  sends,      \* requests sent so far
  replay,     \* replay[h]: h's batch was accepted before
  prior,      \* prior[h]: the level h read before its fold
  found,      \* found[h]: the row (or activity row) h's SELECT found was there
  row,        \* the reported_state row; report 0 is no row
  active,     \* the node's activity row for today exists
  folds,      \* history: folds[n]: times report n was folded
  fresh,      \* history: reports answered 202 by the handler that stored them
  replayed,   \* history: reports answered 202 as a replay
  rises,      \* history: reports whose write raised the level of the row
  climbs,     \* history: reports whose climb was paged
  cut,        \* history: reports whose fold failed, or died with the process
  clock,
  mon,        \* mon[m]: a monitor's stage, the row it listed and the time it read
  pages,      \* history: pages[n]: node_stale pages claimed since the n-th heartbeat
  sent,       \* history: heartbeats whose silence was paged
  crashes

nodeVars == <<acked, of, sends>>
histVars == <<folds, fresh, replayed, rises, climbs, cut>>
reportVars == <<nodeVars, accepted, pc, replay, prior, found, row, active, histVars>>
watchVars == <<mon, pages, sent>>
vars == <<reportVars, watchVars, clock, crashes>>

NoRow == [report |-> 0, ts |-> 0, flagged |-> FALSE, beats |-> 0]
Off == [at |-> "idle", listed |-> NoRow, now |-> 0]

Init ==
  /\ acked = 0 /\ sends = 0 /\ accepted = {}
  /\ pc = [h \in Handler |-> "idle"]
  /\ of = [h \in Handler |-> 1]
  /\ replay = [h \in Handler |-> FALSE]
  /\ prior = [h \in Handler |-> 0]
  /\ found = [h \in Handler |-> FALSE]
  /\ row = NoRow /\ active = FALSE
  /\ folds = [n \in Report |-> 0]
  /\ fresh = {} /\ replayed = {} /\ rises = {} /\ climbs = {} /\ cut = {}
  /\ clock = 0
  /\ mon = [m \in Monitor |-> Off]
  /\ pages = [b \in 0..(2 * Reports) |-> 0]
  /\ sent = {}
  /\ crashes = 0

Goto(h, stage) == pc' = [pc EXCEPT ![h] = stage]
Folding(h) == pc[h] \in {"prior", "select", "write"}
Level(n) == IF n = 0 THEN 0 ELSE LevelOf[n]

(* The node sends the report it has no 202 for, maybe again.  The last     *)
(* ticks of the clock are left to silence.                                 *)
Send(h) ==
  /\ pc[h] = "idle" /\ acked < Reports
  /\ sends < MaxSends /\ clock + StaleAfter <= MaxClock
  /\ sends' = sends + 1
  /\ of' = [of EXCEPT ![h] = acked + 1]
  /\ Goto(h, "ingest")
  /\ UNCHANGED <<acked, accepted, replay, prior, found, row, active, histVars>>

IngestAs(h, again) ==
  /\ pc[h] = "ingest"
  /\ accepted' = accepted \cup {of[h]}
  /\ replay' = [replay EXCEPT ![h] = of[h] \in accepted]
  /\ Goto(h, IF again THEN "note" ELSE "prior")
  /\ UNCHANGED <<nodeVars, prior, found, row, active, histVars>>

(* Fault: a batch is taken for a replay when it stored no rows.            *)
BugIngestByRows(h) == IngestAs(h, of[h] \in accepted \cup Collides)

(* ingest_events: a key seen before is a replay, whatever rows it stored.  *)
Ingest(h) == IngestAs(h, of[h] \in accepted)

(* _fold_reported: the level the climbs are measured from.                 *)
ReadPrior(h) ==
  /\ pc[h] = "prior"
  /\ prior' = [prior EXCEPT ![h] = Level(row.report)]
  /\ Goto(h, "select")
  /\ UNCHANGED <<nodeVars, accepted, replay, found, row, active, histVars>>

(* upsert_reported: SELECT, then INSERT or UPDATE.                         *)
SelectRow(h) ==
  /\ pc[h] = "select"
  /\ found' = [found EXCEPT ![h] = row.report # 0]
  /\ Goto(h, "write")
  /\ UNCHANGED <<nodeVars, accepted, replay, prior, row, active, histVars>>

(* The primary key refuses an INSERT: a 500, which the node will repeat.   *)
Fail(h) ==
  /\ Goto(h, "idle")
  /\ UNCHANGED <<row, active, folds, rises>>

WriteRow(h) ==
  /\ pc[h] = "write"
  /\ \/ ~found[h] /\ row.report # 0 /\ Fail(h) /\ cut' = cut \cup {of[h]}
     \/ /\ found[h] \/ row.report = 0
        /\ row' = [report |-> of[h], ts |-> clock, flagged |-> FALSE, beats |-> row.beats + 1]
        /\ folds' = [folds EXCEPT ![of[h]] = @ + 1]
        /\ rises' = IF Level(of[h]) > Level(row.report) THEN rises \cup {of[h]} ELSE rises
        /\ Goto(h, "emit")
        /\ UNCHANGED <<active, cut>>
  /\ UNCHANGED <<nodeVars, accepted, replay, prior, found, fresh, replayed, climbs>>

(* The climb is paged, measured from the level read before.                *)
EmitClimb(h) ==
  /\ pc[h] = "emit"
  /\ climbs' = IF Level(of[h]) > prior[h] THEN climbs \cup {of[h]} ELSE climbs
  /\ Goto(h, "note")
  /\ UNCHANGED <<nodeVars, accepted, replay, prior, found, row, active, folds, fresh, replayed, rises, cut>>

(* record_node_activity: SELECT, then INSERT.                              *)
NoteActive(h) ==
  /\ pc[h] = "note"
  /\ Goto(h, IF active THEN "answer" ELSE "insert")
  /\ UNCHANGED <<nodeVars, accepted, replay, prior, found, row, active, histVars>>

InsertActive(h) ==
  /\ pc[h] = "insert"
  /\ \/ active /\ Fail(h)
     \/ ~active /\ active' = TRUE /\ Goto(h, "answer") /\ UNCHANGED <<row, folds, rises>>
  /\ UNCHANGED <<nodeVars, accepted, replay, prior, found, fresh, replayed, climbs, cut>>

(* The answer reaches the node, or the node has stopped waiting for it.    *)
Answer(h) ==
  /\ pc[h] = "answer"
  /\ Goto(h, "idle")
  /\ acked' \in {acked, IF of[h] = acked + 1 THEN acked + 1 ELSE acked}
  /\ IF replay[h] THEN replayed' = replayed \cup {of[h]} /\ UNCHANGED fresh
                  ELSE fresh' = fresh \cup {of[h]} /\ UNCHANGED replayed
  /\ UNCHANGED <<of, sends, accepted, replay, prior, found, row, active, folds, rises, climbs, cut>>

-----------------------------------------------------------------------------
(* The monitor reads the time, then the rows.                              *)
List(m) ==
  /\ mon[m].at = "idle" /\ row.report # 0
  /\ mon' = [mon EXCEPT ![m] = [at |-> "listed", listed |-> row, now |-> clock]]
  /\ UNCHANGED <<reportVars, pages, sent>>

(* Fault: the silence is measured backwards.                               *)
BugStaleBackwards(m) == /\ mon[m].listed.ts - mon[m].now >= StaleAfter
                        /\ ~mon[m].listed.flagged

Stale(m) == /\ mon[m].now - mon[m].listed.ts >= StaleAfter
            /\ ~mon[m].listed.flagged

(* Fault: the flag is set whether or not it was set before.                *)
BugClaimAlways(m) ==
  /\ mon[m].at = "listed"
  /\ IF Stale(m)
     THEN /\ row' = [row EXCEPT !.flagged = TRUE]
          /\ pages' = [pages EXCEPT ![row.beats] = @ + 1]
          /\ mon' = [mon EXCEPT ![m].at = "claimed"]
     ELSE mon' = [mon EXCEPT ![m] = Off] /\ UNCHANGED <<row, pages>>
  /\ UNCHANGED <<nodeVars, accepted, pc, replay, prior, found, active, histVars, sent>>

(* mark_stale_notified: UPDATE ... WHERE stale_notified IS NULL.           *)
Claim(m) ==
  /\ mon[m].at = "listed"
  /\ IF Stale(m) /\ ~row.flagged
     THEN /\ row' = [row EXCEPT !.flagged = TRUE]
          /\ pages' = [pages EXCEPT ![row.beats] = @ + 1]
          /\ mon' = [mon EXCEPT ![m].at = "claimed"]
     ELSE mon' = [mon EXCEPT ![m] = Off] /\ UNCHANGED <<row, pages>>
  /\ UNCHANGED <<nodeVars, accepted, pc, replay, prior, found, active, histVars, sent>>

(* The page goes out, for the heartbeat that was listed.                   *)
Emit(m) ==
  /\ mon[m].at = "claimed"
  /\ sent' = sent \cup {mon[m].listed.beats}
  /\ mon' = [mon EXCEPT ![m] = Off]
  /\ UNCHANGED <<reportVars, pages>>

(* The last ticks pass when the node has nothing under way.                *)
Tick ==
  /\ clock < MaxClock
  /\ clock + StaleAfter >= MaxClock => \A h \in Handler : pc[h] = "idle"
  /\ clock' = clock + 1
  /\ UNCHANGED <<reportVars, watchVars, crashes>>

(* The process dies with its handlers and its monitor.                     *)
Crash ==
  /\ crashes < MaxCrashes
  /\ crashes' = crashes + 1
  /\ pc' = [h \in Handler |-> "idle"]
  /\ mon' = [m \in Monitor |-> Off]
  /\ cut' = cut \cup {of[h] : h \in {k \in Handler : Folding(k)}}
  /\ UNCHANGED <<nodeVars, accepted, replay, prior, found, row, active, folds, fresh,
                 replayed, rises, climbs, pages, sent, clock>>

Handle(h) == Ingest(h) \/ ReadPrior(h) \/ SelectRow(h) \/ WriteRow(h) \/ EmitClimb(h)
             \/ NoteActive(h) \/ InsertActive(h) \/ Answer(h)
Serve(h) == Handle(h) /\ UNCHANGED <<watchVars, clock, crashes>>
Sweep(m) == (List(m) \/ Claim(m) \/ Emit(m)) /\ UNCHANGED <<clock, crashes>>

Next == \/ \E h \in Handler : Send(h) /\ UNCHANGED <<watchVars, clock, crashes>>
        \/ \E h \in Handler : Serve(h)
        \/ \E m \in Monitor : Sweep(m)
        \/ Tick \/ Crash

(* The loops of the process and the clock go on; a node may fall silent.   *)
Spec == /\ Init /\ [][Next]_vars
        /\ \A h \in Handler : WF_vars(Serve(h))
        /\ \A m \in Monitor : WF_vars(Sweep(m))
        /\ WF_vars(Tick)

-----------------------------------------------------------------------------
(* Types of every variable.                                                *)
RowType == [report: 0..Reports, ts: 0..MaxClock, flagged: BOOLEAN, beats: 0..(2 * Reports)]
TypeOK ==
  /\ acked \in 0..Reports /\ accepted \subseteq Report
  /\ pc \in [Handler -> {"idle", "ingest", "prior", "select", "write", "emit", "note", "insert", "answer"}]
  /\ of \in [Handler -> Report]
  /\ row \in RowType /\ (row.report = 0 <=> row.beats = 0) /\ row.ts <= clock
  /\ active \in BOOLEAN /\ fresh \subseteq Report /\ cut \subseteq Report
  /\ clock \in 0..MaxClock
  /\ mon \in [Monitor -> [at: {"idle", "listed", "claimed"}, listed: RowType, now: 0..MaxClock]]
  /\ sent \subseteq 0..(2 * Reports)

(* A report takes effect once, however often it is delivered.              *)
FoldedOnce == \A n \in Report : folds[n] <= 1

(* The handler that stored a report answers only after the report took     *)
(* effect, also when its event rows were in the log already: a restarted   *)
(* node does not go dark.                                                  *)
FreshIsFolded == \A n \in fresh : folds[n] > 0

(* A report that is stored takes effect, unless the handler that stored it *)
(* failed on another's first row or died with the process: the resend is a *)
(* replay and will not make up for it.                                     *)
OnlyCutIsUnfolded ==
  \A n \in accepted : folds[n] = 1 \/ n \in cut \/ \E h \in Handler : of[h] = n /\ Folding(h)

(* A fold puts the row back to an older report only if the node resent it  *)
(* while this handler was slow, and was answered by a replay.              *)
OnlyResentGoesBack ==
  \A h \in Handler : Folding(h) /\ of[h] < row.report => of[h] \in replayed

(* Every report takes effect exactly once by the time the handler that     *)
(* stored it answers: not twice when it is resent, and not never when its  *)
(* rows collide with rows of an earlier life of the node.  What the code   *)
(* does not keep beyond that is confined to the two cases above.           *)
EffectIsOnce ==
  /\ TypeOK
  /\ FoldedOnce
  /\ FreshIsFolded
  /\ OnlyCutIsUnfolded
  /\ OnlyResentGoesBack

(* One silence is paged at most once, by however many monitors, before or  *)
(* after a restart.                                                        *)
OnePagePerSilence == \A b \in DOMAIN pages : pages[b] <= 1

(* A node that has gone silent for good is flagged.                        *)
SilenceIsFlagged == row.report # 0 ~> row.flagged

(* A replay is answered only for a batch whose effects have happened.      *)
ReplayedHasHappened == \A n \in replayed : folds[n] > 0

(* The reported state does not go back to a report the node has left.      *)
ReportedMovesForward == [][row'.report >= row.report]_row

(* Whenever the stored level rose, the rise was paged.                     *)
RiseIsPaged == (\A h \in Handler : pc[h] = "idle") /\ crashes = 0 => rises \subseteq climbs

(* The flag in a row is about the silence since the row's own heartbeat.   *)
FlagIsForThisSilence ==
  row.flagged => \/ row.beats \in sent
                 \/ \E m \in Monitor : mon[m].at = "claimed" /\ mon[m].listed.beats = row.beats

(* A silence that is flagged has been paged, or is about to be.            *)
FlaggedIsPaged == row.flagged => sent # {} \/ \E m \in Monitor : mon[m].at = "claimed"
=============================================================================
