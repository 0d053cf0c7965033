---------------------------- MODULE DesiredState ----------------------------
(***************************************************************************)
(* The command channel of one node: the desired-state row the plane keeps  *)
(* for it, and the HTTP handlers that write that row concurrently.         *)
(*                                                                         *)
(*   POST /command        an operator's delta, signed for one version      *)
(*   POST /cascade-stop   one leg of the unsigned cascade (a retried bump) *)
(*   POST /consumed       a node's ack of a one-shot key                   *)
(*                                                                         *)
(* The store has no lock.  A handler SELECTs the row, merges, and UPDATEs  *)
(* it only where the version is still the one it read; the handler is here *)
(* split at every await, so any other handler may run between two stages. *)
(* Rows of different nodes do not interact: one row is enough.             *)
(***************************************************************************)
EXTENDS DesiredRow, Sequences

CONSTANTS
  OneShot,     \* keys a node acks: pending_injection, pending_excision
  Excision,    \* the key whose write opens a heal attempt
  Stopped,     \* the key a cascade leg writes
  Attempts,    \* passes of an unversioned write before it gives up (12 in the code)
  MaxVersion   \* bound: the highest version an operator may sign for

ASSUME KeyAssumption ==
  /\ OneShot \subseteq Key
  /\ Excision \in OneShot
  /\ Stopped \in Key \ OneShot
ASSUME BoundAssumption == Attempts \in Nat \ {0} /\ MaxVersion \in Nat \ {0}

VARIABLES
  posture,   \* "signed": operator keys loaded; "open": allow_unsigned; "closed": neither
  row,       \* the desired_state row; version 0 is no row
  pc,        \* pc[r]: the stage request r's handler has reached
  job,       \* job[r]: what request r asks for
  seen,      \* seen[r]: the row as r's transaction SELECTed it
  tries,     \* tries[r]: passes of the optimistic write r has lost
  landed,    \* landed[r]: the version r's write was given; 0 if it wrote nothing
  answer,    \* answer[r]: the HTTP status r was answered with
  heals,     \* requests whose excision was recorded as an open heal attempt
  log        \* history: the write behind every version of the row

store == <<row, log, landed>>
vars == <<posture, row, pc, job, seen, tries, landed, answer, heals, log>>

-----------------------------------------------------------------------------
Stages == {"idle", "read", "write", "heal", "publish", "done", "lost"}
Answers == {"none", "200", "202", "400", "403", "409", "500"}
InFlight(r) == pc[r] \in {"read", "write", "heal", "publish"}

(* A versioned command gets one pass, any other write Attempts of them.    *)
Passes(r) == IF job[r].kind = "command" THEN 1 ELSE Attempts

-----------------------------------------------------------------------------
Init ==
  /\ posture \in {"signed", "open", "closed"}
  /\ row = NoRow
  /\ pc = [r \in Req |-> "idle"]
  /\ job = [r \in Req |-> NoJob]
  /\ seen = [r \in Req |-> NoRow]
  /\ tries = [r \in Req |-> 0]
  /\ landed = [r \in Req |-> 0]
  /\ answer = [r \in Req |-> "none"]
  /\ heals = {}
  /\ log = <<>>

Goto(r, stage) == pc' = [pc EXCEPT ![r] = stage]

Answer(r, status) ==
  /\ Goto(r, "done")
  /\ answer' = [answer EXCEPT ![r] = status]

Refuse(r, status) ==
  /\ Answer(r, status)
  /\ UNCHANGED <<posture, store, job, seen, tries, heals>>

Accept(r, j) ==
  /\ job' = [job EXCEPT ![r] = j]
  /\ Goto(r, "read")
  /\ UNCHANGED <<posture, store, seen, tries, answer, heals>>

(* The first half of `command`: the early version check, then the keyring. *)
ReceiveCommand(r) ==
  /\ pc[r] = "idle"
  /\ \E v \in 1..MaxVersion, keys \in (SUBSET Key) \ {{}}, valid, hasId \in BOOLEAN :
       \/ /\ v # row.version + 1
          /\ Refuse(r, "409")
       \/ /\ v = row.version + 1
          /\ posture = "closed" \/ (posture = "signed" /\ ~valid)
          /\ Refuse(r, "403")
       \/ /\ v = row.version + 1
          /\ posture = "open" \/ (posture = "signed" /\ valid)
          /\ hasId \/ Excision \in keys
          /\ Accept(r, [NoJob EXCEPT !.kind = "command", !.keys = keys,
                                     !.expect = v - 1,
                                     !.signed = (posture = "signed"),
                                     !.hasId = hasId])

(* One leg of the unsigned cascade: `_apply` with no expected version.     *)
ReceiveCascade(r) ==
  /\ pc[r] = "idle"
  /\ posture # "signed"
  /\ Accept(r, [NoJob EXCEPT !.kind = "cascade", !.keys = {Stopped}])

(* A node acks a one-shot it was given: the body names the key alone.      *)
ReceiveAck(r) ==
  /\ pc[r] = "idle"
  /\ \E k \in OneShot, i \in DOMAIN log :
       /\ log[i].val # None /\ k \in log[i].keys
       /\ Accept(r, [NoJob EXCEPT !.kind = "ack", !.keys = {k},
                                  !.consumed = log[i].val])

(* Fault: the store does not look at the version a command was signed for. *)
BugReadUnversioned(r) ==
  /\ pc[r] = "read"
  /\ seen' = [seen EXCEPT ![r] = row]
  /\ Goto(r, "write")
  /\ UNCHANGED <<posture, store, job, tries, answer, heals>>

(* The SELECT of _merge_desired, with the outcomes that write nothing.     *)
Read(r) ==
  /\ pc[r] = "read"
  /\ \/ /\ job[r].kind = "command" /\ row.version # job[r].expect
        /\ Refuse(r, "409")
     \/ /\ job[r].kind = "ack" /\ \A k \in job[r].keys : row.state[k] = None
        /\ Refuse(r, "200")
     \/ /\ job[r].kind = "command" => row.version = job[r].expect
        /\ job[r].kind = "ack" => \E k \in job[r].keys : row.state[k] # None
        /\ seen' = [seen EXCEPT ![r] = row]
        /\ Goto(r, "write")
        /\ UNCHANGED <<posture, store, job, tries, answer, heals>>

(* Fault: the UPDATE has no version condition.                             *)
BugCanWriteAlways(r) == TRUE

(* The INSERT, or the UPDATE ... WHERE version = the version read.         *)
CanWrite(r) == row.version = seen[r].version

Write(r) ==
  /\ pc[r] = "write"
  /\ CanWrite(r)
  /\ row' = Merge(seen[r], job[r], r)
  /\ log' = Append(log, [req |-> r, keys |-> job[r].keys, val |-> Written(job[r], r)])
  /\ landed' = [landed EXCEPT ![r] = row'.version]
  /\ \/ /\ job[r].kind = "command" /\ Goto(r, "heal") /\ UNCHANGED answer
     \/ /\ job[r].kind = "cascade" /\ Goto(r, "publish") /\ UNCHANGED answer
     \/ /\ job[r].kind = "ack" /\ Answer(r, "200")
  /\ UNCHANGED <<posture, job, seen, tries, heals>>

(* Fault: the loser repeats the UPDATE without reading the row again.      *)
BugLoseStubborn(r) == pc[r] = "write" /\ ~CanWrite(r) /\ UNCHANGED vars

(* Zero rows updated, or an IntegrityError: another writer was faster.     *)
Lose(r) ==
  /\ pc[r] = "write"
  /\ ~CanWrite(r)
  /\ tries' = [tries EXCEPT ![r] = @ + 1]
  /\ \/ /\ tries'[r] < Passes(r) /\ Goto(r, "read") /\ UNCHANGED answer
     \/ /\ tries'[r] = Passes(r)
        /\ Answer(r, IF job[r].kind = "ack" THEN "500" ELSE "409")
  /\ UNCHANGED <<posture, store, job, seen, heals>>

(* _open_heal runs after the write: an excision with no id is refused here. *)
OpenHeal(r) ==
  /\ pc[r] = "heal"
  /\ \/ /\ Excision \in job[r].keys /\ ~job[r].hasId
        /\ Answer(r, "400")
        /\ UNCHANGED heals
     \/ /\ Excision \in job[r].keys /\ job[r].hasId
        /\ heals' = heals \cup {r}
        /\ Goto(r, "publish")
        /\ UNCHANGED answer
     \/ /\ Excision \notin job[r].keys
        /\ Goto(r, "publish")
        /\ UNCHANGED <<heals, answer>>
  /\ UNCHANGED <<posture, store, job, seen, tries>>

(* The delta goes to the node's topic (PlaneStream), and the caller is     *)
(* answered.                                                               *)
Publish(r) ==
  /\ pc[r] = "publish"
  /\ Answer(r, "202")
  /\ UNCHANGED <<posture, store, job, seen, tries, heals>>

(* The process dies and boots again, maybe with other operator keys: the  *)
(* handlers in flight are gone, what was committed is not.                *)
Restart ==
  /\ \E r \in Req : InFlight(r)
  /\ pc' = [r \in Req |-> IF InFlight(r) THEN "lost" ELSE pc[r]]
  /\ posture' \in {"signed", "open", "closed"}
  /\ UNCHANGED <<store, job, seen, tries, answer, heals>>

Receive(r) == ReceiveCommand(r) \/ ReceiveCascade(r) \/ ReceiveAck(r)
Handle(r) == Read(r) \/ Write(r) \/ Lose(r) \/ OpenHeal(r) \/ Publish(r)

Next == Restart \/ \E r \in Req : Receive(r) \/ Handle(r)

Spec == Init /\ [][Next]_vars

-----------------------------------------------------------------------------
(* Types of every variable.                                                *)
LogEntry == [req: Req, keys: SUBSET Key, val: Req \cup {None}]
TypeOK ==
  /\ posture \in {"signed", "open", "closed"}
  /\ row \in Row
  /\ pc \in [Req -> Stages]
  /\ job \in [Req -> Job]
  /\ seen \in [Req -> Row]
  /\ tries \in [Req -> 0..Attempts]
  /\ landed \in [Req -> Nat]
  /\ answer \in [Req -> Answers]
  /\ heals \subseteq Req
  /\ log \in Seq(LogEntry)

LastWrite(k, i) == /\ k \in log[i].keys
                   /\ \A j \in DOMAIN log : j > i => k \notin log[j].keys

(* No update is lost: the row holds exactly the last of all the writes the *)
(* store accepted, key by key, and has one version for each of them.       *)
NoLostUpdate ==
  /\ row.version = Len(log)
  /\ \A k \in Key : \/ \E i \in DOMAIN log : LastWrite(k, i) /\ row.state[k] = log[i].val
                    \/ row.state[k] = None /\ \A i \in DOMAIN log : k \notin log[i].keys

(* A command answered 202 is in the log, at the one version it was         *)
(* published with and, if signed, the one version its signature covers.  A *)
(* request that was refused is not, but for an excision without an id,     *)
(* which the heal hook refuses with 400 after the write.                   *)
AckedIsApplied ==
  \A r \in Req :
    /\ answer[r] = "202" => landed[r] \in DOMAIN log /\ log[landed[r]].req = r
    /\ landed[r] > 0 /\ job[r].kind = "command" => landed[r] = job[r].expect + 1
    /\ answer[r] \in {"400", "403", "409", "500"} /\ landed[r] > 0 =>
         answer[r] = "400" /\ Excision \in job[r].keys /\ ~job[r].hasId

(* No write lands twice, however often an unversioned one is retried.      *)
AtMostOnce ==
  \A i, j \in DOMAIN log : log[i].req = log[j].req => i = j

(* The command recorded behind a key is the signed write that gave the key *)
(* its value: a snapshot never pairs a value with a superseded signature,  *)
(* nor leaves a signed value without its command.                          *)
CommandsVouch ==
  \A k \in Key :
    /\ row.by[k] # NoCommand =>
         /\ row.state[k] # None /\ row.state[k] = row.by[k].sig
         /\ row.by[k].version = landed[row.by[k].sig]
         /\ k \in job[row.by[k].sig].keys
    /\ row.state[k] # None /\ job[row.state[k]].signed => row.by[k].sig = row.state[k]

(* The inductive invariant behind the properties above.  Its heart is      *)
(* ReadsAreCurrent: versions only grow, so a handler whose version still   *)
(* matches at the UPDATE read the very row it is about to replace.         *)
ReadsAreCurrent ==
  \A r \in Req : pc[r] = "write" =>
    /\ seen[r].version <= row.version
    /\ CanWrite(r) => seen[r] = row
    /\ job[r].kind = "command" => seen[r].version = job[r].expect

LandedIsLogged ==
  /\ \A i \in DOMAIN log : landed[log[i].req] = i
  /\ \A r \in Req : landed[r] > 0 => landed[r] \in DOMAIN log /\ log[landed[r]].req = r

StagesAgree ==
  \A r \in Req :
    /\ pc[r] \in {"idle", "read", "write"} => landed[r] = 0
    /\ pc[r] \in {"heal", "publish"} => landed[r] > 0
    /\ answer[r] = "202" => landed[r] > 0
    /\ answer[r] # "none" => pc[r] = "done"
    /\ answer[r] \in {"403", "409", "500"} => landed[r] = 0
    /\ answer[r] = "400" => Excision \in job[r].keys /\ ~job[r].hasId
    /\ landed[r] > 0 /\ job[r].kind = "command" => landed[r] = job[r].expect + 1
    /\ job[r].kind = "ack" => ~job[r].signed
    /\ pc[r] = "idle" => tries[r] = 0
    /\ pc[r] \in {"read", "write"} => tries[r] < Passes(r)

ValuesLanded ==
  \A k \in Key : row.state[k] # None => landed[row.state[k]] > 0

IInv ==
  /\ TypeOK /\ NoLostUpdate /\ CommandsVouch
  /\ ReadsAreCurrent /\ LandedIsLogged /\ StagesAgree /\ ValuesLanded

(* What a caller was told did not happen did not happen.                   *)
RefusedIsNotApplied ==
  \A r \in Req : answer[r] \in {"403", "409", "400"} => landed[r] = 0

(* A node's ack clears the one-shot it consumed, never a newer command.    *)
AckClearsWhatWasConsumed ==
  [][\A r \in Req, k \in OneShot :
       pc[r] = "write" /\ pc'[r] = "done" /\ row' # row /\ k \in job[r].keys
         => row.state[k] = job[r].consumed]_vars

Outcome(r) == IF pc[r] = "idle" THEN "new"
              ELSE IF landed[r] > 0 THEN "applied"
              ELSE IF InFlight(r) THEN "open" ELSE "void"

Register == INSTANCE AtomicRegister
              WITH reg <- row, want <- job, outcome <- [r \in Req |-> Outcome(r)]

(* SELECT, merge, conditional UPDATE and retry amount to one atomic write: *)
(* the store implements the register it promises.                          *)
WritesAreAtomic == Register!RSpec

(* A request that was accepted is answered, unless the process dies first. *)
EveryRequestIsAnswered ==
  \A r \in Req : InFlight(r) ~> (answer[r] # "none" \/ pc[r] = "lost")
=============================================================================
