------------------------------ MODULE RunViews ------------------------------
(***************************************************************************)
(* What the plane derives from a run's log, beside EventLog: the cached    *)
(* causal subgraph (process memory, built on open), the evidence (derived  *)
(* when a batch carries the agent's claim), what follows from having it,   *)
(* and retention, which deletes the run.  A derived value is identified    *)
(* with the set of lines it was derived from.                              *)
(*                                                                         *)
(* Two routes write the log, POST /v1/ingest/{run} and the telemetry of a  *)
(* node, POST /v1/plane/{node}/telemetry.  Both store a batch by the same  *)
(* ingest_events; only the first drops the cache and derives.              *)
(***************************************************************************)
EXTENDS EventLog

CONSTANTS
  Telemetry,  \* the batches sent as telemetry
  Claims,     \* the batches that carry the agent's claim
  Faults,     \* the lines a claim can contradict: without one there is no case
  Denials,    \* the lines that record a denial
  Anchor,     \* the line whose subgraph is asked for
  NoView,     \* nothing derived
  MaxPrunes   \* bound: times retention deletes the run

ASSUME ViewAssumption ==
  /\ Telemetry \subseteq Batch /\ Claims \subseteq Batch
  /\ Faults \subseteq Line /\ Denials \subseteq Line /\ Anchor \in Line /\ MaxPrunes \in Nat
  /\ \A L \in SUBSET Line : L # NoView

VARIABLES
  cache,      \* the cached subgraph of the run
  reader,     \* a request for the subgraph: "idle", "missed", "deriving"
  readerView, \* the lines that request has read
  audit,      \* audit[b]: "none", or the stage of b's derivation: "read", "store",
              \* "ask" (did the run record a denial), "pin"
  view,       \* view[b]: the lines b's derivation has read
  evidence,   \* the evidence stored with the run
  pinned,     \* the run is pinned must_block
  told,       \* history: evidence_run was emitted
  prunes,     \* times retention deleted the run
  late,       \* history: lines by which a subgraph differed from the log when it was cached
  silent,     \* history: lines telemetry stored and retention deleted since then
  outdone,    \* history: lines of evidence that a derivation of fewer lines was stored over
  met         \* history: retention deleted the run while a handler was storing a batch

cacheVars == <<cache, reader, readerView, late, silent>>
evidenceVars == <<audit, view, evidence, pinned, told, outdone>>
viewVars == <<cacheVars, evidenceVars, prunes, met>>
allVars == <<logVars, viewVars>>

ViewsInit ==
  /\ LogInit
  /\ cache = NoView
  /\ reader = "idle"
  /\ readerView = NoView
  /\ audit = [b \in Batch |-> "none"]
  /\ view = [b \in Batch |-> NoView]
  /\ evidence = NoView
  /\ pinned = FALSE /\ told = FALSE
  /\ prunes = 0
  /\ late = {} /\ silent = {} /\ outdone = {} /\ met = FALSE

(* ingest_events has returned, with rows or as a replay.                   *)
Returned(b) == pc[b] = "committed" \/ (pc[b] = "opened" /\ KeyOf[b] \in keys)

(* The transactions of ingest_events, alike on both routes.                *)
IngestStep(b) ==
  /\ ~Returned(b)
  /\ Store(b)
  /\ silent' = IF b \in Telemetry /\ pc[b] = "inserted" THEN silent \cup LineOf(own[b]) ELSE silent
  /\ UNCHANGED <<cache, reader, readerView, late, evidenceVars, prunes, met>>

Answer202(b) == IF pc[b] = "committed" THEN Respond(b) ELSE Begin(b)

DropRun ==
  /\ cache' = NoView /\ late' = {} /\ silent' = {}
  /\ UNCHANGED <<reader, readerView>>

(* With a claim in the request a handler goes on to derive the evidence,   *)
(* replayed or not; without one it answers.                                *)
DeriveOrAnswer(b) ==
  /\ IF b \in Claims
     THEN audit' = [audit EXCEPT ![b] = "read"] /\ UNCHANGED logVars
     ELSE Answer202(b) /\ UNCHANGED audit
  /\ UNCHANGED <<view, evidence, pinned, told, outdone, prunes, met>>

Ingested(b) == b \notin Telemetry /\ Returned(b) /\ audit[b] = "none"

(* Fault: the cache is left alone after an ingest.                         *)
BugResumeKeeps(b) == Ingested(b) /\ UNCHANGED cacheVars /\ DeriveOrAnswer(b)

(* Fault: only a batch that stored something derives the evidence.         *)
BugResumeFresh(b) ==
  /\ Ingested(b)
  /\ DropRun
  /\ \/ pc[b] = "committed" /\ DeriveOrAnswer(b)
     \/ pc[b] # "committed" /\ Answer202(b) /\ UNCHANGED <<evidenceVars, prunes, met>>

(* The ingest handler resumes: it drops the run's cache entries.           *)
Resume(b) == Ingested(b) /\ DropRun /\ DeriveOrAnswer(b)

(* The telemetry handler resumes: the run's views are not its concern.     *)
ResumeTelemetry(b) ==
  /\ b \in Telemetry /\ Returned(b)
  /\ Answer202(b)
  /\ UNCHANGED viewVars

ReadTrace(b) ==
  /\ audit[b] = "read"
  /\ view' = [view EXCEPT ![b] = LineOf(rows)]
  /\ audit' = [audit EXCEPT ![b] = "store"]
  /\ UNCHANGED <<logVars, cacheVars, evidence, pinned, told, outdone, prunes, met>>

(* A handler has done all that follows from its claim, and answers.        *)
Finish(b) ==
  /\ audit' = [audit EXCEPT ![b] = "none"]
  /\ Answer202(b)

(* set_evidence: an UPDATE of the run's row, if there are cases.           *)
StoreEvidence(b) ==
  /\ audit[b] = "store"
  /\ \/ /\ view[b] \cap Faults = {}
        /\ Finish(b)
        /\ UNCHANGED <<evidence, outdone>>
     \/ /\ view[b] \cap Faults # {}
        /\ evidence' = IF run THEN view[b] ELSE evidence
        /\ outdone' = IF evidence = NoView \/ ~run THEN outdone
                      ELSE outdone \cup (evidence \ view[b])
        /\ audit' = [audit EXCEPT ![b] = "ask"]
        /\ UNCHANGED logVars
  /\ view' = [view EXCEPT ![b] = NoView]
  /\ UNCHANGED <<cacheVars, pinned, told, prunes, met>>

(* has_recorded_denial; a run without one is not pinned, only told of.     *)
AskDenial(b) ==
  /\ audit[b] = "ask"
  /\ \/ /\ LineOf(rows) \cap Denials # {}
        /\ audit' = [audit EXCEPT ![b] = "pin"]
        /\ UNCHANGED <<logVars, told>>
     \/ /\ LineOf(rows) \cap Denials = {}
        /\ told' = TRUE
        /\ Finish(b)
  /\ UNCHANGED <<cacheVars, view, evidence, pinned, outdone, prunes, met>>

PinRun(b) ==
  /\ audit[b] = "pin"
  /\ pinned' = TRUE
  /\ told' = TRUE
  /\ Finish(b)
  /\ UNCHANGED <<cacheVars, view, evidence, outdone, prunes, met>>

(* GET /runs/{run}/subgraph: a miss reads the log, derives off the event   *)
(* loop, and caches the result; without the anchor it is a 404.            *)
Miss ==
  /\ reader = "idle" /\ cache = NoView
  /\ reader' = "missed"
  /\ UNCHANGED <<logVars, cache, readerView, late, silent, evidenceVars, prunes, met>>

ReadLog ==
  /\ reader = "missed"
  /\ readerView' = LineOf(rows)
  /\ reader' = "deriving"
  /\ UNCHANGED <<logVars, cache, late, silent, evidenceVars, prunes, met>>

Difference(A, B) == (A \ B) \cup (B \ A)

CachePut ==
  /\ reader = "deriving"
  /\ IF Anchor \in readerView
     THEN /\ cache' = readerView
          /\ late' = Difference(readerView, LineOf(rows))
          /\ silent' = {}
     ELSE UNCHANGED <<cache, late, silent>>
  /\ reader' = "idle"
  /\ readerView' = NoView
  /\ UNCHANGED <<logVars, evidenceVars, prunes, met>>

(* Between the transaction that opens the run and the end of the one that  *)
(* stores the events.                                                      *)
Storing(b) == pc[b] \in {"opened", "begun", "measured", "inserted"}

(* Retention deletes the run with its events, evidence, pins and links.    *)
Prune ==
  /\ run /\ prunes < MaxPrunes
  /\ prunes' = prunes + 1
  /\ run' = FALSE
  /\ rows' = {}
  /\ evidence' = NoView
  /\ pinned' = FALSE
  /\ silent' = silent \cup LineOf(rows)
  /\ met' = (met \/ \E b \in Batch : Storing(b))
  /\ UNCHANGED <<keys, nextId, pc, fresh, own, sends, answer, crashes,
                 cache, reader, readerView, late, audit, view, told, outdone>>

ViewsCrash ==
  /\ Crash
  /\ cache' = NoView /\ late' = {} /\ silent' = {}
  /\ reader' = "idle" /\ readerView' = NoView
  /\ audit' = [b \in Batch |-> "none"]
  /\ view' = [b \in Batch |-> NoView]
  /\ UNCHANGED <<evidence, pinned, told, outdone, prunes, met>>

Ingest(b) ==
  \/ IngestStep(b) \/ Resume(b) \/ ResumeTelemetry(b)
  \/ ReadTrace(b) \/ StoreEvidence(b) \/ AskDenial(b) \/ PinRun(b)

ViewsNext ==
  \/ \E b \in Batch : Ingest(b)
  \/ Miss \/ ReadLog \/ CachePut \/ Prune \/ ViewsCrash

(* A handler that can run is run; a client need not send anything.         *)
ViewsFairness == \A b \in Batch : WF_allVars(pc[b] # "idle" /\ Ingest(b))

ViewsSpec == ViewsInit /\ [][ViewsNext]_allVars /\ ViewsFairness

-----------------------------------------------------------------------------
(* Types of the log and of the derived values.                             *)
ViewsTypeOK ==
  /\ LogTypeOK
  /\ cache \in (SUBSET Line) \cup {NoView} /\ evidence \in (SUBSET Line) \cup {NoView}
  /\ reader \in {"idle", "missed", "deriving"}
  /\ readerView \in (SUBSET Line) \cup {NoView} /\ (reader = "deriving" <=> readerView # NoView)
  /\ audit \in [Batch -> {"none", "read", "store", "ask", "pin"}]
  /\ view \in [Batch -> (SUBSET Line) \cup {NoView}]
  /\ pinned \in BOOLEAN /\ told \in BOOLEAN /\ prunes \in 0..MaxPrunes
  /\ late \subseteq Line /\ silent \subseteq Line /\ outdone \subseteq Line /\ met \in BOOLEAN

(* Events are left without their run only by a retention that came between *)
(* the two transactions of an ingest.                                      *)
OnlyMetIsOrphaned == rows # {} => run \/ met

(* However batches overlap, race, crash or are repeated, the log holds a   *)
(* line once; until retention deletes the run, a 202 means the batch is in *)
(* it, also when it was answered by its key alone after a crash lost the   *)
(* first answer; and retention orphans no events of a run nobody writes.   *)
AnsweredIsKept ==
  /\ ViewsTypeOK
  /\ StoredOnce
  /\ OnlyMetIsOrphaned
  /\ prunes = 0 => AnsweredIsStored

(* A claim sent to ingest and answered 202 was compared with everything    *)
(* stored before it, also when the handler that stored it died before it   *)
(* could derive; the evidence covers it but for lines a late derivation    *)
(* has taken out again, it was told of, and a run with a denial is pinned. *)
AnsweredClaimIsAudited ==
  \A b \in Claims \ Telemetry :
    answer[b] = "202" /\ prunes = 0 /\ Lines[b] \cap Faults # {} =>
      /\ evidence # NoView /\ Lines[b] \subseteq evidence \cup outdone
      /\ told
      /\ Lines[b] \cap Denials # {} => pinned

(* The lines an ingest has stored and has yet to drop the cache for.       *)
Undropped ==
  UNION {LineOf(own[b]) : b \in {c \in Batch \ Telemetry : pc[c] = "committed" /\ audit[c] = "none"}}

(* The cached subgraph is that of the log, but for the lines of an ingest  *)
(* that is about to drop it, those by which a derivation that overlapped a *)
(* write was out of date when it was cached, and those that telemetry has  *)
(* stored or retention deleted since, neither of which drops it.           *)
CacheFollowsTheLog ==
  cache # NoView => Difference(cache, LineOf(rows)) \subseteq Undropped \cup late \cup silent

Quiet == reader = "idle" /\ \A b \in Batch : pc[b] = "idle"

(* Not kept: with nobody at work, and nothing but ingests since it was     *)
(* cached, the cached subgraph is that of the log.                         *)
CacheIsCurrent == Quiet /\ cache # NoView /\ silent = {} => cache = LineOf(rows)

(* Not kept: the writers of the log drop the cache.                        *)
WritersDropTheCache ==
  Quiet /\ cache # NoView /\ late = {} /\ prunes = 0 => cache = LineOf(rows)

(* Not kept: the subgraph of a run that was deleted is not served.         *)
DeletedIsForgotten == Quiet /\ cache # NoView /\ late = {} => Anchor \in LineOf(rows)

(* Not kept: a claim answered 202 was compared with what was stored.       *)
EveryClaimIsAudited ==
  \A b \in Claims :
    answer[b] = "202" /\ prunes = 0 /\ Lines[b] \cap Faults # {} => evidence # NoView

(* The evidence is never replaced by one of fewer lines.                   *)
EvidenceGrows ==
  [][evidence # NoView /\ evidence' # NoView => evidence \subseteq evidence']_evidence

(* Retention leaves no events behind without their run.                    *)
NoOrphans == rows # {} => run
=============================================================================
