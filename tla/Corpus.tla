------------------------------- MODULE Corpus -------------------------------
(***************************************************************************)
(* The pinned regression corpus (corpus.py), the routes that pin and        *)
(* schedule (routers/corpus_api.py) and the loop that fires a due schedule  *)
(* (lifecycle.py).  A run's trace is the set of its calls, each with the    *)
(* verdict it recorded; a configuration is the set of calls it denies.      *)
(***************************************************************************)
EXTENDS Naturals, Sequences, FiniteSets

CONSTANTS Traces,       \* run -> {[call, verdict]}: its kernel events; {} is telemetry only
          Demo,         \* the runs the product ships
          Configs,      \* configuration -> the calls it denies under replay
          Intervals,    \* hours a caller asks for
          NoSchedule

(* What the setting regression_schedule holds.                               *)
SavedSchedule == [enabled: BOOLEAN, interval: Intervals, config: DOMAIN Configs, last: Nat \cup {NoSchedule}]

ASSUME CorpusAssumption ==
  /\ Demo \subseteq DOMAIN Traces
  /\ Intervals \subseteq Nat \ {0}
  /\ NoSchedule \notin Nat /\ NoSchedule \notin SavedSchedule
  /\ \A r \in DOMAIN Traces : \A c \in Traces[r] : c.verdict \in {"deny", "pass"}

PinnedRuns == DOMAIN Traces

VARIABLES pins,      \* run -> "must_block", "must_pass" or "none"
          kept,      \* the runs whose events are stored
          sched,     \* the setting regression_schedule, or NoSchedule
          hour,
          job,       \* the report being drawn: [stage, config, todo, rows, skipped, at]
          reports    \* the stored history, in order: [rows, skipped, safe, at]

(* For the properties: the operator's last write of the schedule, and the   *)
(* reports whose time was stored after them.                                 *)
VARIABLES written, stamped

corpusNotes == <<written, stamped>>
corpusVars == <<pins, kept, sched, hour, job, reports, corpusNotes>>

NoJob == [stage |-> "rest", config |-> {}, todo |-> {}, rows |-> {}, skipped |-> {}, at |-> 0, interval |-> 0]

CorpusInit ==
  /\ pins = [r \in PinnedRuns |-> "none"]
  /\ kept = PinnedRuns
  /\ sched = NoSchedule /\ hour = 0 /\ job = NoJob /\ reports = <<>>
  /\ written = NoSchedule /\ stamped = {}

(* ---- what a row and a report say ----------------------------------------- *)

BugOutcome(r, side, denied) ==     \* any denial holds a pin
  LET pinned == {c \in Traces[r] : c.verdict = "deny"}
      new    == {c \in Traces[r] : c.verdict = "pass" /\ c.call \in denied}
  IN  IF side = "must_block"
      THEN IF pinned = {} THEN "unanchored"
           ELSE IF \E c \in Traces[r] : c.call \in denied THEN "held" ELSE "escaped"
      ELSE IF new # {} THEN "regressed" ELSE "passed"

(* regression_row: the recorded denials, and the recorded passes that the   *)
(* candidate denies.                                                        *)
Outcome(r, side, denied) ==
  LET pinned == {c \in Traces[r] : c.verdict = "deny"}
      new    == {c \in Traces[r] : c.verdict = "pass" /\ c.call \in denied}
  IN  IF side = "must_block"
      THEN IF pinned = {} THEN "unanchored"
           ELSE IF \E c \in pinned : c.call \notin denied THEN "escaped" ELSE "held"
      ELSE IF new # {} THEN "regressed" ELSE "passed"

SafeToShip(rows, skipped) ==
  /\ \E w \in rows : w.run \notin Demo
  /\ skipped = {}
  /\ \A w \in rows : w.outcome \in {"held", "passed"}

(* ---- the routes ------------------------------------------------------------ *)

Pin(r, side) ==
  /\ pins' = [pins EXCEPT ![r] = side]
  /\ UNCHANGED <<kept, sched, hour, job, reports, corpusNotes>>

(* prune_runs_older_than: the run, its events and its pin.                   *)
PruneRun(r) ==
  /\ r \in kept
  /\ kept' = kept \ {r}
  /\ pins' = [pins EXCEPT ![r] = "none"]
  /\ UNCHANGED <<sched, hour, job, reports, corpusNotes>>

(* put_regression_schedule: one atomic change; the time of the last run      *)
(* belongs to the loop.                                                     *)
PutSchedule(enabled, interval, config) ==
  /\ sched' = [enabled |-> enabled, interval |-> interval, config |-> config,
               last |-> IF sched = NoSchedule THEN NoSchedule ELSE sched.last]
  /\ written' = <<enabled, interval, config>>
  /\ UNCHANGED <<pins, kept, hour, job, reports, stamped>>

(* ---- the loop --------------------------------------------------------------- *)

ScheduleDue ==
  /\ sched # NoSchedule /\ sched.enabled
  /\ sched.last # NoSchedule => hour - sched.last >= sched.interval

RunDueSchedule(entitled) ==
  /\ job.stage = "rest" /\ entitled /\ ScheduleDue
  /\ job' = [NoJob EXCEPT !.stage = "pins", !.config = Configs[sched.config], !.at = hour,
                          !.interval = sched.interval]
  /\ UNCHANGED <<pins, kept, sched, hour, reports, corpusNotes>>

ReadPins ==
  /\ job.stage = "pins"
  /\ job' = [job EXCEPT !.stage = "rows",
                        !.todo = {[run |-> r, side |-> pins[r]] : r \in {q \in PinnedRuns : pins[q] # "none"}}]
  /\ UNCHANGED <<pins, kept, sched, hour, reports, corpusNotes>>

(* regression_report, the next pin: its events are read when it is reached, so a *)
(* run that went in between is skipped, as is one with nothing to replay.    *)
DrawRow ==
  LET pin == CHOOSE w \in job.todo : TRUE
  IN
  /\ job.stage = "rows" /\ job.todo # {}
  /\ job' = [job EXCEPT !.todo = @ \ {pin},
       !.rows = IF pin.run \in kept /\ Traces[pin.run] # {}
                THEN @ \cup {[run |-> pin.run, side |-> pin.side, outcome |-> Outcome(pin.run, pin.side, job.config)]}
                ELSE @,
       !.skipped = IF pin.run \in kept /\ Traces[pin.run] # {} THEN @ ELSE @ \cup {pin.run}]
  /\ UNCHANGED <<pins, kept, sched, hour, reports, corpusNotes>>

Report == [rows |-> job.rows, skipped |-> job.skipped, config |-> job.config, at |-> job.at,
           interval |-> job.interval, safe |-> SafeToShip(job.rows, job.skipped)]

(* record_corpus_run: history first, then the alarm of a failing report.    *)
RecordReport ==
  /\ job.stage = "rows" /\ job.todo = {}
  /\ reports' = Append(reports, Report)
  /\ job' = [job EXCEPT !.stage = IF Report.safe THEN "stamp" ELSE "alarm"]
  /\ UNCHANGED <<pins, kept, sched, hour, corpusNotes>>

Alarmed ==
  /\ job.stage = "alarm"
  /\ job' = [job EXCEPT !.stage = "stamp"]
  /\ UNCHANGED <<pins, kept, sched, hour, reports, corpusNotes>>

(* The time goes into what is stored now, not into what was read at the     *)
(* start.                                                                   *)
StampRun ==
  /\ job.stage = "stamp"
  /\ sched' = [sched EXCEPT !.last = job.at]
  /\ stamped' = stamped \cup {Len(reports)}
  /\ job' = NoJob
  /\ UNCHANGED <<pins, kept, hour, reports, written>>

(* A read or a write that fails, or the end of the process.                  *)
JobEnds ==
  /\ job' = NoJob
  /\ UNCHANGED <<pins, kept, sched, hour, reports, corpusNotes>>

HourPasses == hour' = hour + 1 /\ UNCHANGED <<pins, kept, sched, job, reports, corpusNotes>>

JobStep(entitled) ==
  \/ RunDueSchedule(entitled) \/ ReadPins \/ DrawRow
  \/ RecordReport \/ StampRun \/ (job.stage # "rest" /\ JobEnds)

(* ------------------------------------------------------------------------ *)

CorpusTypeOK ==
  /\ \A r \in PinnedRuns : pins[r] \in {"none", "must_block", "must_pass"}
  /\ job.stage \in {"rest", "pins", "rows", "alarm", "stamp"}
  /\ job.stage # "rest" => sched # NoSchedule
  /\ stamped \subseteq DOMAIN reports

(* "Every attack still blocked" is said only of what was checked: every pin *)
(* read has a row, every denial a must_block trace recorded is denied again *)
(* and there is one, nothing a must_pass trace recorded as passed is        *)
(* denied, and a run of this deployment's own is among them.                 *)
SafeIsEvidence ==
  /\ CorpusTypeOK
  /\ \A i \in DOMAIN reports : reports[i].safe =>
       /\ reports[i].skipped = {}
       /\ {w.run : w \in reports[i].rows} \ Demo # {}
       /\ \A w \in reports[i].rows :
            LET calls(v) == {c.call : c \in {d \in Traces[w.run] : d.verdict = v}}
            IN  IF w.side = "must_block"
                THEN calls("deny") # {} /\ calls("deny") \subseteq reports[i].config
                ELSE calls("pass") \cap reports[i].config = {}

(* The operator's schedule is never undone by the loop, nor its last run by  *)
(* the operator: what is stored is the last write, and two scheduled reports *)
(* are an interval apart unless the first one's time was never stored.       *)
ScheduledOnce ==
  /\ sched # NoSchedule => <<sched.enabled, sched.interval, sched.config>> = written
  /\ \A i, j \in DOMAIN reports :
       i < j /\ i \in stamped => reports[j].at - reports[i].at >= reports[j].interval

(* A scheduled report is worth its word: drawn when it was due, under the   *)
(* schedule of the operator, and safe only on evidence.                     *)
ReportsAreSound == SafeIsEvidence /\ ScheduledOnce

(* Not kept: list_pins' "guard against forever": retention takes the pin    *)
(* with its run.                                                             *)
PinnedForever == [][\A r \in PinnedRuns : pins[r] # "none" => pins'[r] # "none"]_corpusVars
=============================================================================
