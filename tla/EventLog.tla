------------------------------ MODULE EventLog ------------------------------
(***************************************************************************)
(* The append-only event log of one run and the ingest handlers that write *)
(* it: POST /v1/ingest/{run}, up to and including the answer.              *)
(*                                                                         *)
(* A batch of lines is stored in one transaction, under READ COMMITTED: it *)
(* looks its Idempotency-Key up, claims it, drops the lines the log holds, *)
(* measures the log against its ceiling, inserts.  A unique index decides  *)
(* between two transactions that claim one key or insert one line: the     *)
(* second waits, and fails if the first commits.  Row ids come from a      *)
(* sequence that a rollback does not give back.  On SQLite (`Serial`) one  *)
(* transaction writes at a time.                                           *)
(*                                                                         *)
(* A batch is one request.  A client repeats a request that failed, and    *)
(* one that timed out may still be running: the repeat is then another     *)
(* request, with the lines and the key of the first.                       *)
(***************************************************************************)
EXTENDS Naturals, FiniteSets

CONSTANTS
  Batch,      \* the requests clients send
  Line,       \* event coordinates: a node and its sequence number
  Lines,      \* Lines[b]: the lines of batch b
  Key, NoKey, \* idempotency keys
  KeyOf,      \* KeyOf[b]: the Idempotency-Key of batch b
  MaxEvents,  \* AXOR_MAX_EVENTS_PER_RUN
  Serial,     \* TRUE: SQLite, one writer at a time; FALSE: PostgreSQL
  MaxSends,   \* bound: times a client sends a batch
  MaxCrashes  \* bound: times the process dies

ASSUME LogAssumption ==
  /\ Lines \in [Batch -> SUBSET Line] /\ \A b \in Batch : IsFiniteSet(Lines[b])
  /\ NoKey \notin Key /\ KeyOf \in [Batch -> Key \cup {NoKey}]
  /\ \A a, b \in Batch : KeyOf[a] = KeyOf[b] /\ KeyOf[a] # NoKey => Lines[a] = Lines[b]
  /\ MaxEvents \in Nat /\ MaxSends \in Nat /\ MaxCrashes \in Nat
  /\ Serial \in BOOLEAN

VARIABLES
  run,      \* the run has a row in the runs table
  rows,     \* the committed event rows
  keys,     \* the committed keys
  nextId,   \* the id sequence
  pc,       \* pc[b]: the stage of batch b's handler
  fresh,    \* fresh[b]: the lines b found missing from the log
  own,      \* own[b]: the rows b has inserted and not committed; once committed, its result
  sends,    \* sends[b]: times b was sent
  answer,   \* answer[b]: the last answer to b
  crashes   \* times the process died

logVars == <<run, rows, keys, nextId, pc, fresh, own, sends, answer, crashes>>

Stages == {"idle", "opened", "begun", "measured", "inserted", "committed"}

LineOf(R) == {e.line : e \in R}
IdOf(R) == {e.id : e \in R}

LogInit ==
  /\ run = FALSE
  /\ rows = {}
  /\ keys = {}
  /\ nextId = 1
  /\ pc = [b \in Batch |-> "idle"]
  /\ fresh = [b \in Batch |-> {}]
  /\ own = [b \in Batch |-> {}]
  /\ sends = [b \in Batch |-> 0]
  /\ answer = [b \in Batch |-> "none"]
  /\ crashes = 0

Goto(b, stage) == pc' = [pc EXCEPT ![b] = stage]

(* The handler answers; the transaction, if one is open, is rolled back.   *)
End(b, status) ==
  /\ Goto(b, "idle")
  /\ answer' = [answer EXCEPT ![b] = status]
  /\ own' = [own EXCEPT ![b] = {}]

(* upsert_run: a transaction of its own, idempotent.                       *)
Open(b) ==
  /\ pc[b] = "idle" /\ answer[b] \notin {"202", "413"} /\ sends[b] < MaxSends
  /\ sends' = [sends EXCEPT ![b] = @ + 1]
  /\ run' = TRUE
  /\ Goto(b, "opened")
  /\ UNCHANGED <<rows, keys, nextId, fresh, own, answer, crashes>>

(* The key is looked up: a batch that was accepted before is replayed.     *)
Begin(b) ==
  /\ pc[b] = "opened"
  /\ \/ /\ KeyOf[b] \in keys
        /\ End(b, "202")
     \/ /\ KeyOf[b] \notin keys
        /\ Goto(b, "begun")
        /\ UNCHANGED <<answer, own>>
  /\ UNCHANGED <<run, rows, keys, nextId, fresh, sends, crashes>>

(* Who has written in a transaction that is open: its first write is the   *)
(* key if there is one, and the rows if not.  SQLite lets one in.          *)
Writing(b) == pc[b] = "inserted" \/ (pc[b] = "measured" /\ KeyOf[b] # NoKey)
MayWrite(b) == Serial => \A c \in Batch \ {b} : ~Writing(c)

(* The key is claimed: it waits for a transaction that has claimed the     *)
(* same one.  Then the lines the log holds are dropped, and what is left   *)
(* is measured against the ceiling.                                        *)
Measure(b) ==
  /\ pc[b] = "begun"
  /\ KeyOf[b] # NoKey =>
       MayWrite(b) /\ \A c \in Batch \ {b} : Writing(c) => KeyOf[c] # KeyOf[b]
  /\ fresh' = [fresh EXCEPT ![b] = Lines[b] \ LineOf(rows)]
  /\ LET fits == fresh'[b] = {} \/ Cardinality(rows) + Cardinality(fresh'[b]) <= MaxEvents
     IN \/ KeyOf[b] \in keys /\ End(b, "500")
        \/ KeyOf[b] \notin keys /\ ~fits /\ End(b, "413")
        \/ KeyOf[b] \notin keys /\ fits /\ Goto(b, "measured") /\ UNCHANGED <<answer, own>>
  /\ UNCHANGED <<run, rows, keys, nextId, sends, crashes>>

(* The rows of a batch, with consecutive ids in the order of its lines.    *)
Numbered(b) ==
  {{[id |-> f[x], line |-> x] : x \in fresh[b]} :
     f \in {g \in [fresh[b] -> nextId..(nextId + Cardinality(fresh[b]) - 1)] :
              \A x, y \in fresh[b] : g[x] = g[y] => x = y}}

Insertion(b) ==
  /\ own' \in {[own EXCEPT ![b] = R] : R \in Numbered(b)}
  /\ Goto(b, "inserted")
  /\ UNCHANGED answer

(* Fault: batches lock their lines before they insert them.                *)
BugInsertLocksEarly(b) ==
  /\ pc[b] = "measured"
  /\ \A c \in Batch \ {b} :
       pc[c] \in {"measured", "inserted"} => fresh[c] \cap fresh[b] = {}
  /\ nextId' = nextId + Cardinality(fresh[b])
  /\ Insertion(b)
  /\ UNCHANGED <<run, rows, keys, fresh, sends, crashes>>

(* One INSERT of every missing line.  It waits for a transaction that has  *)
(* inserted one of them, and fails on the index if that one committed.     *)
Insert(b) ==
  /\ pc[b] = "measured"
  /\ MayWrite(b)
  /\ \A c \in Batch \ {b} : pc[c] = "inserted" => LineOf(own[c]) \cap fresh[b] = {}
  /\ nextId' = nextId + Cardinality(fresh[b])
  /\ \/ fresh[b] \cap LineOf(rows) # {} /\ End(b, "500")
     \/ fresh[b] \cap LineOf(rows) = {} /\ Insertion(b)
  /\ UNCHANGED <<run, rows, keys, fresh, sends, crashes>>

Commit(b) ==
  /\ pc[b] = "inserted"
  /\ rows' = rows \cup own[b]
  /\ keys' = keys \cup ({KeyOf[b]} \ {NoKey})
  /\ Goto(b, "committed")
  /\ UNCHANGED <<run, nextId, fresh, own, sends, answer, crashes>>

(* The handler resumes with its result and answers.                        *)
Respond(b) ==
  /\ pc[b] = "committed"
  /\ End(b, "202")
  /\ UNCHANGED <<run, rows, keys, nextId, fresh, sends, crashes>>

(* The process dies: what was not committed is rolled back.                *)
Crash ==
  /\ crashes < MaxCrashes
  /\ \E b \in Batch : pc[b] # "idle"
  /\ crashes' = crashes + 1
  /\ pc' = [b \in Batch |-> "idle"]
  /\ own' = [b \in Batch |-> {}]
  /\ UNCHANGED <<run, rows, keys, nextId, fresh, sends, answer>>

(* Fault: the key is claimed in a transaction of its own.                  *)
BugStoreKeyFirst(b) ==
  \/ Open(b) \/ Begin(b) \/ Insert(b) \/ Commit(b)
  \/ KeyOf[b] = NoKey /\ Measure(b)
  \/ /\ pc[b] = "begun" /\ KeyOf[b] \notin keys \cup {NoKey}
     /\ keys' = keys \cup {KeyOf[b]}
     /\ fresh' = [fresh EXCEPT ![b] = Lines[b] \ LineOf(rows)]
     /\ Goto(b, "measured")
     /\ UNCHANGED <<run, rows, nextId, own, sends, answer, crashes>>

Store(b) == Open(b) \/ Begin(b) \/ Measure(b) \/ Insert(b) \/ Commit(b)

LogNext == Crash \/ \E b \in Batch : Store(b) \/ Respond(b)

(* A handler that can run is run; a client need not send anything.         *)
LogFairness == \A b \in Batch : WF_logVars(pc[b] # "idle" /\ (Store(b) \/ Respond(b)))

LogSpec == LogInit /\ [][LogNext]_logVars /\ LogFairness

-----------------------------------------------------------------------------
(* Types of every variable.                                                *)
LogTypeOK ==
  /\ run \in BOOLEAN
  /\ rows \subseteq [id: 1..(nextId - 1), line: Line]
  /\ keys \subseteq Key
  /\ pc \in [Batch -> Stages]
  /\ fresh \in [Batch -> SUBSET Line]
  /\ \A b \in Batch : own[b] \subseteq [id: 1..(nextId - 1), line: Line]
  /\ sends \in [Batch -> 0..MaxSends]
  /\ answer \in [Batch -> {"none", "202", "413", "500"}]
  /\ crashes \in 0..MaxCrashes

(* A line is in the log once and an id names one row, however batches      *)
(* overlap, race or are repeated.                                          *)
StoredOnce ==
  \A d, e \in rows : d.line = e.line \/ d.id = e.id => d = e

(* A 202 means the batch is in the log, whole, also when it was answered   *)
(* by its key alone after a crash or an error lost the first answer.       *)
AnsweredIsStored ==
  \A b \in Batch : answer[b] = "202" => Lines[b] \subseteq LineOf(rows)

(* No handler waits for ever on the locks of the others.                   *)
EveryBatchEnds == \A b \in Batch : pc[b] # "idle" ~> pc[b] = "idle"

(* The log never outgrows the ceiling.                                     *)
CeilingHolds == Cardinality(rows) <= MaxEvents
=============================================================================
