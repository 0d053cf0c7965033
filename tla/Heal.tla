-------------------------------- MODULE Heal --------------------------------
(***************************************************************************)
(* The self-heal loop of one node: a command that carries an excision (a   *)
(* cut) opens a heal attempt after its write has landed, and the health    *)
(* checks the node posts close the attempts that are open.                 *)
(*                                                                         *)
(* An attempt is opened by a SELECT on the excision id and an INSERT that  *)
(* no unique index guards.  A health check is appended, the open attempts  *)
(* are listed, and each is closed by an UPDATE of its own, conditional on  *)
(* its still being open.                                                   *)
(***************************************************************************)
EXTENDS Naturals, Sequences, FiniteSets

CONSTANTS
  Command,    \* commands that carry an excision
  Cut,        \* excision ids
  CutOf,      \* CutOf[c]: the excision of command c; a re-sent command repeats it
  Check,      \* health checks the node posts
  Verdict,    \* their verdicts
  Nobody,     \* the check that verified an open attempt
  MaxCrashes  \* bound: times the process dies

ASSUME HealAssumption ==
  /\ CutOf \in [Command -> Cut] /\ Nobody \notin Check /\ MaxCrashes \in Nat

VARIABLES
  pc,         \* pc[c]: the stage of command c
  attempts,   \* the heal_attempts rows, by id: the cut, and the check whose verdict it has
  at,         \* at[p]: the stage of health check p
  verdict,    \* verdict[p]: what check p found
  todo,       \* todo[p]: ids of the attempts p listed and has yet to close
  told,       \* told[p]: ids p's answer will report as verified by p
  known,      \* history: known[p]: attempts there were when p was stored
  overlap,    \* history: cuts of which two commands were being recorded at once
  crashes

cutVars == <<pc, overlap>>
checkVars == <<at, verdict, todo, told, known>>
vars == <<cutVars, attempts, checkVars, crashes>>

Id == 1..Cardinality(Command)
Recording(c) == pc[c] \in {"select", "insert"}

Init ==
  /\ pc = [c \in Command |-> "idle"]
  /\ attempts = <<>>
  /\ at = [p \in Check |-> "idle"]
  /\ verdict \in [Check -> Verdict]
  /\ todo = [p \in Check |-> {}]
  /\ told = [p \in Check |-> {}]
  /\ known = [p \in Check |-> 0]
  /\ overlap = {} /\ crashes = 0

Goto(c, stage) == pc' = [pc EXCEPT ![c] = stage]

(* The command's write has landed (see DesiredState).                      *)
Land(c) ==
  /\ pc[c] = "idle"
  /\ Goto(c, "select")
  /\ overlap' = IF \E d \in Command : Recording(d) /\ CutOf[d] = CutOf[c]
                THEN overlap \cup {CutOf[c]} ELSE overlap
  /\ UNCHANGED <<attempts, checkVars, crashes>>

SelectAs(c, held) ==
  /\ pc[c] = "select"
  /\ Goto(c, IF held THEN "publish" ELSE "insert")
  /\ UNCHANGED <<attempts, overlap, checkVars, crashes>>

(* Fault: only an open attempt counts as the cut's own.                    *)
BugSelectOpen(c) ==
  SelectAs(c, \E i \in DOMAIN attempts :
                attempts[i].cut = CutOf[c] /\ attempts[i].by = Nobody)

(* open_heal_attempt: a cut that has an attempt does not get a second.     *)
Select(c) == SelectAs(c, \E i \in DOMAIN attempts : attempts[i].cut = CutOf[c])

Insert(c) ==
  /\ pc[c] = "insert"
  /\ attempts' = Append(attempts, [cut |-> CutOf[c], by |-> Nobody])
  /\ Goto(c, "publish")
  /\ UNCHANGED <<overlap, checkVars, crashes>>

(* The delta is published and the caller has a 202.                        *)
Publish(c) ==
  /\ pc[c] = "publish"
  /\ Goto(c, "done")
  /\ UNCHANGED <<overlap, attempts, checkVars, crashes>>

-----------------------------------------------------------------------------
(* add_probe_report: every health check is a row of its own.               *)
Post(p) ==
  /\ at[p] = "idle"
  /\ known' = [known EXCEPT ![p] = Len(attempts)]
  /\ at' = [at EXCEPT ![p] = "list"]
  /\ UNCHANGED <<cutVars, attempts, verdict, todo, told, crashes>>

OpenAttempts == {i \in DOMAIN attempts : attempts[i].by = Nobody}

ListAs(p, ids) ==
  /\ at[p] = "list"
  /\ todo' = [todo EXCEPT ![p] = ids]
  /\ at' = [at EXCEPT ![p] = "close"]
  /\ UNCHANGED <<cutVars, attempts, verdict, told, known, crashes>>

(* Fault: a check verifies one attempt, the newest.                        *)
BugListNewest(p) == ListAs(p, {i \in OpenAttempts : \A j \in OpenAttempts : j <= i})

(* open_heal_attempts: two cuts can be in flight.                          *)
List(p) == ListAs(p, OpenAttempts)

(* The attempts are closed in the order of their ids, a transaction each.  *)
CloseAs(p, i, closes) ==
  /\ at[p] = "close" /\ i \in todo[p] /\ \A j \in todo[p] : i <= j
  /\ attempts' = IF closes THEN [attempts EXCEPT ![i].by = p] ELSE attempts
  /\ todo' = [todo EXCEPT ![p] = @ \ {i}]
  /\ told' = [told EXCEPT ![p] = @ \cup {i}]
  /\ UNCHANGED <<cutVars, at, verdict, known, crashes>>

(* Fault: the UPDATE does not ask whether the attempt is open.             *)
BugCloseAgain(p, i) == CloseAs(p, i, TRUE)

(* close_heal_attempt: the outcome is told, recorded or not.               *)
Close(p, i) == CloseAs(p, i, attempts[i].by = Nobody)

Answer(p) ==
  /\ at[p] = "close" /\ todo[p] = {}
  /\ at' = [at EXCEPT ![p] = "done"]
  /\ UNCHANGED <<cutVars, attempts, verdict, todo, told, known, crashes>>

-----------------------------------------------------------------------------
(* The process dies with its handlers.                                     *)
Crash ==
  /\ crashes < MaxCrashes
  /\ crashes' = crashes + 1
  /\ pc' = [c \in Command |-> IF pc[c] \in {"idle", "done"} THEN pc[c] ELSE "lost"]
  /\ at' = [p \in Check |-> IF at[p] \in {"idle", "done"} THEN at[p] ELSE "lost"]
  /\ UNCHANGED <<overlap, attempts, verdict, todo, told, known>>

Next ==
  \/ \E c \in Command : Land(c) \/ Select(c) \/ Insert(c) \/ Publish(c)
  \/ \E p \in Check : Post(p) \/ List(p) \/ Answer(p) \/ \E i \in Id : Close(p, i)
  \/ Crash

Spec == Init /\ [][Next]_vars

-----------------------------------------------------------------------------
(* Types of every variable.                                                *)
TypeOK ==
  /\ pc \in [Command -> {"idle", "select", "insert", "publish", "done", "lost"}]
  /\ attempts \in Seq([cut: Cut, by: Check \cup {Nobody}])
  /\ at \in [Check -> {"idle", "list", "close", "done", "lost"}]
  /\ verdict \in [Check -> Verdict]
  /\ todo \in [Check -> SUBSET DOMAIN attempts] /\ told \in [Check -> SUBSET DOMAIN attempts]
  /\ known \in [Check -> Nat] /\ overlap \subseteq Cut /\ crashes \in 0..MaxCrashes

(* The verdict a cut was first given is never overwritten, also by two     *)
(* checks that read the same open attempt.                                 *)
FirstVerdictStands ==
  [][\A i \in DOMAIN attempts :
       attempts[i].by # Nobody => attempts'[i] = attempts[i]]_vars

(* A check that was answered left no attempt open that was there when it   *)
(* arrived: no cut waits for ever while the node reports.                  *)
AnsweredClosesAll ==
  \A p \in Check : at[p] = "done" =>
    \A i \in DOMAIN attempts : i <= known[p] => attempts[i].by # Nobody

(* A cut whose command was answered has an attempt, also when other cuts   *)
(* were in flight.                                                         *)
AnsweredIsTracked ==
  \A c \in Command : pc[c] = "done" => \E i \in DOMAIN attempts : attempts[i].cut = CutOf[c]

(* The heal of an answered command is on record, and no answered check     *)
(* leaves one open that it could have closed: no cut is lost, and none     *)
(* waits for ever while the node reports.                                  *)
HealsAreFollowed ==
  /\ TypeOK
  /\ AnsweredIsTracked
  /\ AnsweredClosesAll

SameCut(i, j) == i # j /\ attempts[i].cut = attempts[j].cut

(* A cut has two attempts only if two commands were recording it at once.  *)
OnlyOverlapDuplicates ==
  \A i, j \in DOMAIN attempts : SameCut(i, j) => attempts[i].cut \in overlap

(* A command sent again is the same heal, not a second one.                *)
OneAttemptPerCut == \A i, j \in DOMAIN attempts : ~SameCut(i, j)

(* A cut is verified by a check that arrived after it.                     *)
VerifiedAfterwards ==
  \A i \in DOMAIN attempts : attempts[i].by # Nobody => i <= known[attempts[i].by]

(* What a check is told it verified is what is recorded.                   *)
ToldIsRecorded ==
  \A p \in Check : \A i \in told[p] : verdict[attempts[i].by] = verdict[p]
=============================================================================
