---------------------------- MODULE RunManager -----------------------------
(***************************************************************************)
(* The proxy's armed runs (runs.py) and their traces (recorder.py).  A      *)
(* writer is a tool call or a claim.  A line is decided before an await and  *)
(* reaches the file after it.  The file interleaves the lines of its        *)
(* writers; kept here is each writer's own sequence.  The number a line     *)
(* carries is taken with no await between reading and advancing it, and is  *)
(* left out.                                                                *)
(***************************************************************************)
EXTENDS Naturals, Sequences, SequencesExt

CONSTANTS Runs, Tools, Writers,
          Faults,      \* run -> sequence of [tool, mode, index]; see FaultSpec
          Always,      \* the index of a fault on every call
          NoRun, NoFault, NoLine

ASSUME FaultsAssumption ==
  /\ NoRun \notin Runs
  /\ \A r \in Runs : DOMAIN Faults[r] \subseteq Nat /\ \A i \in DOMAIN Faults[r] :
       /\ Faults[r][i] # NoFault
       /\ Faults[r][i].tool \in Tools
       /\ Faults[r][i].index \in Nat \cup {Always}

VARIABLES armed,     \* _armed: runs in arming order
          started,   \* the names start has used: it draws a new one each time
          known,     \* _runs: the runs a claim or a reader can name
          counted,   \* run -> tool -> the calls counted (call_counts is its length)
          writing,   \* writer -> the line it is appending, or NoLine
          trace      \* run -> writer -> its lines in the file of the run

runVars == <<armed, started, known, counted, writing, trace>>

RunInit ==
  /\ armed = <<>>
  /\ started = {}
  /\ known = {}
  /\ counted = [r \in Runs |-> [t \in Tools |-> <<>>]]
  /\ writing = [w \in Writers |-> NoLine]
  /\ trace = [r \in Runs |-> [w \in Writers |-> <<>>]]

IsArmed(r) == Contains(armed, r)

(* active_for: the run a header names, or the one armed last. *)
ActiveFor(named) ==
  IF named = NoRun
  THEN IF armed = <<>> THEN NoRun ELSE Last(armed)
  ELSE IF IsArmed(named) THEN named ELSE NoRun

(* start: a run under a new name is armed, and the traces past the         *)
(* retention window go, those of armed runs excepted (prune_traces).        *)
Start(r, old) ==
  /\ r \notin started
  /\ started' = started \cup {r}
  /\ armed' = Append(armed, r)
  /\ known' = (known \cup {r}) \ old
  /\ trace' = [q \in Runs |-> IF q \in old THEN [w \in Writers |-> <<>>] ELSE trace[q]]
  /\ UNCHANGED <<counted, writing>>

Prunable(q) == q \in known /\ ~IsArmed(q)

Disarm(r) == armed' = RemoveFirst(armed, r)

(* fault_for_call: the first fault of this tool whose index is the number   *)
(* of calls counted so far, or that applies to every call.                  *)
FaultForCall(r, t) ==
  LET hits == {i \in DOMAIN Faults[r] :
                 /\ Faults[r][i].tool = t
                 /\ Faults[r][i].index \in {Always, Len(counted[r][t])}}
  IN  IF hits = {} THEN NoFault ELSE Faults[r][Min(hits)]

NeedsUpstream(spec) == spec.mode \notin {"silent_fail", "tool_substitution"}

CountCall(r, t, c) == counted' = [counted EXCEPT ![r][t] = Append(@, c)]

(* record: the line is made up now, and appended once the file is open;     *)
(* TraceRecorder.record.                                                    *)
Record(w, kind, extra) ==
  writing' = [writing EXCEPT ![w] = [kind |-> kind, extra |-> extra]]

Written(r, w) ==
  /\ writing[w] # NoLine
  /\ trace' = [trace EXCEPT ![r][w] = Append(@, writing[w])]

Idle(w) == writing' = [writing EXCEPT ![w] = NoLine]

Kinds(lines) == [i \in DOMAIN lines |-> lines[i].kind]
=============================================================================
