--------------------------- MODULE SettingsStore ---------------------------
(***************************************************************************)
(* One row of the settings table and the requests that write it.           *)
(*                                                                         *)
(*   mutate_setting   SELECT, change, UPDATE where the revision is still   *)
(*                    the one read; else again, up to Attempts passes      *)
(*   set_setting      SELECT, then INSERT or an UPDATE without condition;  *)
(*                    once more if the INSERT met another                  *)
(*                                                                         *)
(* Every SELECT and every write is a step: another request may come in     *)
(* between.  A request may die at any stage.                               *)
(***************************************************************************)
EXTENDS Naturals

CONSTANTS
  Writer, Value, Absent, Refused, Change(_, _),   \* see AtomicSetting
  Setter,     \* the writers that use set_setting: their value depends on nothing
  Attempts    \* passes of mutate_setting (24 in the code)

ASSUME ChangeAssumption ==
  /\ Absent \notin Value /\ Refused \notin Value \cup {Absent}
  /\ \A w \in Writer, v \in Value \cup {Absent} : Change(w, v) \in Value \cup {Refused}
ASSUME SetterAssumption ==
  /\ Setter \subseteq Writer
  /\ \A w \in Setter, v \in Value \cup {Absent} :
       Change(w, v) = Change(w, Absent) /\ Change(w, v) # Refused
ASSUME AttemptsAssumption == Attempts \in Nat \ {0}

VARIABLES
  row,      \* the row's revision and value; revision 0 is no row
  pc,       \* pc[w]: "idle", "read", "write", "stored", "refused", "gaveup", "lost"
  seen,     \* seen[w]: the row as w SELECTed it
  tries     \* tries[w]: passes w has lost

storeVars == <<row, pc, seen, tries>>

NoRow == [revision |-> 0, value |-> Absent]
Row == [revision: Nat, value: Value \cup {Absent}]
Ended == {"stored", "refused", "gaveup", "lost"}

StoreInit ==
  /\ row = NoRow
  /\ pc = [w \in Writer |-> "idle"]
  /\ seen = [w \in Writer |-> NoRow]
  /\ tries = [w \in Writer |-> 0]

Goto(w, stage) == pc' = [pc EXCEPT ![w] = stage]

Begin(w) == pc[w] = "idle" /\ Goto(w, "read") /\ UNCHANGED <<row, seen, tries>>

(* The SELECT; the change is computed at once, and may refuse.             *)
Read(w) ==
  /\ pc[w] = "read"
  /\ \/ /\ Change(w, row.value) = Refused
        /\ Goto(w, "refused")
        /\ UNCHANGED seen
     \/ /\ Change(w, row.value) # Refused
        /\ seen' = [seen EXCEPT ![w] = row]
        /\ Goto(w, "write")
  /\ UNCHANGED <<row, tries>>

(* An INSERT needs the key to be absent still, a conditional UPDATE the    *)
(* revision read, a set_setting's UPDATE only a row.                       *)
Wins(w) ==
  IF w \in Setter THEN seen[w].revision = 0 => row.revision = 0
                  ELSE row.revision = seen[w].revision

(* Fault: a set leaves the revision alone.                                 *)
BugNextRevisionKeeps(w) ==
  IF w \in Setter /\ row.revision > 0 THEN row.revision ELSE seen[w].revision + 1

NextRevision(w) == IF w \in Setter THEN row.revision + 1 ELSE seen[w].revision + 1

Write(w) ==
  /\ pc[w] = "write" /\ Wins(w)
  /\ row' = [revision |-> NextRevision(w), value |-> Change(w, seen[w].value)]
  /\ Goto(w, "stored")
  /\ UNCHANGED <<seen, tries>>

(* Fault: a pass that lost is not counted.                                 *)
BugLoseUncounted(w) ==
  /\ pc[w] = "write" /\ ~Wins(w)
  /\ Goto(w, "write")
  /\ UNCHANGED <<row, seen, tries>>

(* No row updated, or an IntegrityError.                                   *)
Lose(w) ==
  /\ pc[w] = "write" /\ ~Wins(w)
  /\ tries' = [tries EXCEPT ![w] = @ + 1]
  /\ Goto(w, IF w \in Setter \/ tries'[w] < Attempts THEN "read" ELSE "gaveup")
  /\ UNCHANGED <<row, seen>>

(* The client or the process goes away.                                    *)
Die(w) ==
  /\ pc[w] \in {"read", "write"}
  /\ Goto(w, "lost")
  /\ UNCHANGED <<row, seen, tries>>

Handle(w) == Read(w) \/ Write(w) \/ Lose(w)

StoreNext == \E w \in Writer : Begin(w) \/ Handle(w) \/ Die(w)

StoreSpec == StoreInit /\ [][StoreNext]_storeVars

(* The event loop keeps running a request that can run.                    *)
FairStoreSpec == StoreSpec /\ \A w \in Writer : WF_storeVars(Handle(w))

-----------------------------------------------------------------------------
(* Types of every variable.                                                *)
TypeOK ==
  /\ row \in Row
  /\ pc \in [Writer -> {"idle", "read", "write"} \cup Ended]
  /\ seen \in [Writer -> Row]
  /\ tries \in [Writer -> Nat]
  /\ \A w \in Writer \ Setter : tries[w] <= Attempts

(* Revisions only grow and a revision names one value: a writer whose      *)
(* revision still matches read the row it replaces.  A value that was read *)
(* for a write is one the writer's change accepts.                         *)
ReadsAreCurrent ==
  \A w \in Writer : pc[w] = "write" =>
    /\ seen[w].revision <= row.revision
    /\ row.revision = seen[w].revision => seen[w] = row
    /\ Change(w, seen[w].value) # Refused

PassesAreCounted ==
  \A w \in Writer \ Setter : pc[w] \in {"read", "write"} => tries[w] < Attempts
NotBegun == \A w \in Writer : pc[w] = "idle" => tries[w] = 0

IInv == TypeOK /\ ReadsAreCurrent /\ PassesAreCounted /\ NotBegun

OutcomeOf(w) == IF pc[w] \in {"stored", "refused"} THEN pc[w]
              ELSE IF pc[w] \in {"gaveup", "lost"} THEN "void" ELSE "open"

Setting == INSTANCE AtomicSetting
             WITH val <- row.value, outcome <- [w \in Writer |-> OutcomeOf(w)]

(* A read-modify-write of a setting, retried or not, among others and      *)
(* among unconditional sets, is one atomic change.                         *)
ChangesAreAtomic == Setting!SSpec

(* A pass is lost only to another write: with no more writers than passes, *)
(* nobody gives up.                                                        *)
GivesUpOnlyUnderContention ==
  \A w \in Writer : tries[w] > 0 =>
    \E S \in SUBSET (Writer \ {w}) :
      /\ \A x \in S : pc[x] = "stored"
      /\ \E f \in [1..tries[w] -> S] : \A i, j \in 1..tries[w] : f[i] = f[j] => i = j

(* Every write ends.                                                       *)
EveryWriteEnds == \A w \in Writer : pc[w] = "read" ~> pc[w] \in Ended
=============================================================================
