------------------------- MODULE RunEvidence_proofs -------------------------
(***************************************************************************)
(* Machine-checked safety of what the plane keeps of a run and of what it  *)
(* hands out of it.                                                        *)
(*                                                                         *)
(* First the run's event log and the cache beside it, for every set of     *)
(* batches, lines and keys, any ceiling, both databases, and any number    *)
(* of crashes and prunes.                                                  *)
(*                                                                         *)
(* Then the live stream of the same log, for every queue and any number of *)
(* broken connections: the client sees every event once and in order, and  *)
(* what it missed was overtaken or evicted.  The ids a client may still    *)
(* miss are those of rows that are committed or open; each of them that    *)
(* lies below the cursor, below a queued message or below a replayed row   *)
(* is accounted for, and that is what every step keeps.                    *)
(*                                                                         *)
(* Then the ledger of an exported run, which stays closed whatever was     *)
(* recorded and whatever the gate decides: values are only added, and an   *)
(* event is numbered past all of them, so what a new value derives from    *)
(* is older than it is.  A call's binding is a value that is there, one    *)
(* minted with the call, or the cause of a reason; reasons are never       *)
(* withdrawn, so a run that is exported has no binding of the third kind.  *)
(*                                                                         *)
(* Last the package itself.  While nothing is held against the run, each   *)
(* of its calls is planned in its place and each value has the content of  *)
(* its first use; what is exported is read off that.  The walk that finds  *)
(* the sources of a value follows the equation of the recursive function   *)
(* it is compared with, and of the values on which two functions that do   *)
(* so disagree there is no first.                                          *)
(***************************************************************************)
EXTENDS RunViews, AuditStream, LabExport, FiniteSetTheorems, WellFoundedInduction, TLAPS

Event(n) == [id: 1..(n - 1), line: Line]

LogTypes ==
  /\ LogTypeOK
  /\ nextId \in Nat \ {0}
  /\ own \in [Batch -> SUBSET Event(nextId)]

(* What a transaction found missing is its own, and what it has inserted   *)
(* is exactly that.                                                        *)
InsertsWhatIsMissing ==
  \A b \in Batch : /\ fresh[b] \subseteq Lines[b]
                   /\ pc[b] = "inserted" => LineOf(own[b]) = fresh[b]

Apart(R, T) == \A d \in R, e \in T : d.line # e.line /\ d.id # e.id
Unique(R) == \A d, e \in R : d.line = e.line \/ d.id = e.id => d = e

(* What an open transaction has inserted is in nobody else's hands, and    *)
(* not in the log.                                                         *)
OpenIsApart ==
  \A b \in Batch : pc[b] = "inserted" =>
    /\ Unique(own[b])
    /\ Apart(own[b], rows)
    /\ \A c \in Batch \ {b} : pc[c] = "inserted" => Apart(own[b], own[c])

Whole(b) == Lines[b] \subseteq LineOf(rows)

(* Until retention deletes, a batch is in the log whole once it has        *)
(* committed, was answered, or has its key there; on the way there, what   *)
(* is not its own to insert is.                                            *)
AcceptedIsWhole ==
  prunes = 0 => \A b \in Batch :
    /\ answer[b] = "202" \/ pc[b] = "committed" \/ KeyOf[b] \in keys => Whole(b)
    /\ pc[b] \in {"measured", "inserted"} => Lines[b] \subseteq fresh[b] \cup LineOf(rows)

(* What the handlers keep whoever else writes the tables.                  *)
LogCore ==
  /\ LogTypes
  /\ InsertsWhatIsMissing
  /\ StoredOnce
  /\ OpenIsApart

LogInv == LogCore /\ AcceptedIsWhole

(* A derivation is under way only in a handler whose ingest has returned.  *)
DerivesAfterIngest ==
  \A b \in Batch : audit[b] # "none" => Returned(b) /\ b \notin Telemetry

(* A handler at work has opened the run.                                   *)
RunIsOpen == prunes = 0 => \A b \in Batch : pc[b] # "idle" => run

(* A derivation that has read the log has read its own batch.              *)
TraceIsWhole ==
  prunes = 0 => \A b \in Batch :
    audit[b] = "store" => view[b] \in SUBSET Line /\ Lines[b] \subseteq view[b]

(* One that is past the evidence has left its batch in it, and what later  *)
(* derivations take out of it is on record.                                *)
Covered(b) == evidence # NoView /\ Lines[b] \subseteq evidence \cup outdone
EvidenceCovers ==
  prunes = 0 => \A b \in Batch : audit[b] \in {"ask", "pin"} => Covered(b)

AuditInv ==
  /\ RunIsOpen
  /\ TraceIsWhole
  /\ EvidenceCovers
  /\ AnsweredClaimIsAudited

(* The inductive invariant.                                                *)
IInv ==
  /\ LogInv
  /\ ViewsTypeOK
  /\ DerivesAfterIngest
  /\ CacheFollowsTheLog
  /\ AuditInv

-----------------------------------------------------------------------------
(* Ids below one bound are below a higher one.                             *)
LEMMA EventGrows ==
  ASSUME NEW m \in Nat, NEW n \in Nat, m <= n
  PROVE  Event(m) \subseteq Event(n)
BY DEF Event

(* The rows of an insertion: one for each missing line, with new ids.      *)
LEMMA NumberedFacts ==
  ASSUME NEW b \in Batch, LogTypes, fresh[b] \subseteq Lines[b], NEW R \in Numbered(b)
  PROVE  /\ Cardinality(fresh[b]) \in Nat
         /\ R \subseteq Event(nextId + Cardinality(fresh[b]))
         /\ \A e \in R : e.id >= nextId
         /\ LineOf(R) = fresh[b]
         /\ Unique(R)
<1> DEFINE n == Cardinality(fresh[b])
<1>1. n \in Nat
  <2>1. IsFiniteSet(Lines[b])
    BY LogAssumption
  <2> QED
    BY <2>1, FS_Subset, FS_CardinalityType
<1>2. nextId \in Nat \ {0} /\ fresh[b] \subseteq Line
  BY DEF LogTypes, LogTypeOK
<1>3. PICK f \in [fresh[b] -> nextId..(nextId + n - 1)] :
        /\ \A x, y \in fresh[b] : f[x] = f[y] => x = y
        /\ R = {[id |-> f[x], line |-> x] : x \in fresh[b]}
  BY DEF Numbered
<1> HIDE DEF n
<1>4. \A x \in fresh[b] : f[x] \in nextId..(nextId + n - 1)
  BY <1>3
<1>5. \A e \in R : \E x \in fresh[b] : e = [id |-> f[x], line |-> x]
  BY <1>3
<1>6. \A x \in fresh[b] : [id |-> f[x], line |-> x] \in R
  BY <1>3
<1>7. ASSUME NEW e \in R PROVE e \in Event(nextId + n) /\ e.id >= nextId
  <2>1. PICK x \in fresh[b] : e = [id |-> f[x], line |-> x]
    BY <1>5
  <2>2. f[x] \in nextId..(nextId + n - 1)
    BY <1>4
  <2>3. f[x] \in 1..(nextId + n - 1) /\ f[x] >= nextId /\ x \in Line
    BY <1>1, <1>2, <2>2
  <2>4. PICK i \in 1..((nextId + n) - 1) : i = f[x]
    BY <1>1, <1>2, <2>3
  <2>5. e = [id |-> i, line |-> x] /\ i >= nextId
    BY <2>1, <2>3, <2>4
  <2>6. e \in [id: 1..((nextId + n) - 1), line: Line] /\ e.id = i
    BY <2>3, <2>5
  <2> QED
    BY <2>5, <2>6 DEF Event
<1>8. LineOf(R) = fresh[b]
  <2>1. ASSUME NEW x \in fresh[b] PROVE x \in LineOf(R)
    <3>1. [id |-> f[x], line |-> x] \in R /\ [id |-> f[x], line |-> x].line = x
      BY <1>6
    <3> QED
      BY <3>1 DEF LineOf
  <2>2. ASSUME NEW e \in R PROVE e.line \in fresh[b]
    <3>1. PICK x \in fresh[b] : e = [id |-> f[x], line |-> x]
      BY <1>5
    <3> QED
      BY <3>1
  <2> QED
    BY <2>1, <2>2 DEF LineOf
<1>9. Unique(R)
  <2> SUFFICES ASSUME NEW d \in R, NEW e \in R, d.line = e.line \/ d.id = e.id
               PROVE  d = e
    BY DEF Unique
  <2>1. PICK x \in fresh[b] : d = [id |-> f[x], line |-> x]
    BY <1>5
  <2>2. PICK y \in fresh[b] : e = [id |-> f[y], line |-> y]
    BY <1>5
  <2>3. x = y
    BY <1>3, <2>1, <2>2
  <2> QED
    BY <2>1, <2>2, <2>3
<1> QED
  BY <1>1, <1>7, <1>8, <1>9 DEF n

(* Rows keep their types as the sequence moves on.                         *)
LEMMA TypesGrow ==
  ASSUME LogTypes, nextId' \in Nat, nextId <= nextId'
  PROVE  /\ rows \subseteq [id: 1..(nextId' - 1), line: Line]
         /\ \A b \in Batch : own[b] \subseteq [id: 1..(nextId' - 1), line: Line]
         /\ \A R \in SUBSET Event(nextId) : R \subseteq [id: 1..(nextId' - 1), line: Line]
         /\ nextId' \in Nat \ {0}
<1>1. nextId \in Nat /\ Event(nextId) \subseteq Event(nextId')
  BY EventGrows DEF LogTypes
<1> QED
  BY <1>1 DEF LogTypes, LogTypeOK, Event

(* Ending a handler.                                                       *)
LEMMA EndStep ==
  ASSUME LogCore, NEW b \in Batch, NEW status \in {"202", "413", "500"}, End(b, status),
         UNCHANGED <<run, rows, keys, sends, crashes>>,
         nextId' \in Nat, nextId <= nextId',
         fresh' \in [Batch -> SUBSET Line], fresh'[b] \subseteq Lines[b],
         \A c \in Batch \ {b} : fresh'[c] = fresh[c]
  PROVE  LogCore'
<1> USE DEF End, Goto
<1>1. LogTypes'
  <2>1. own' \in [Batch -> SUBSET Event(nextId')]
    BY TypesGrow DEF LogCore, LogTypes, Event
  <2>2. \A c \in Batch : own'[c] \subseteq [id: 1..(nextId' - 1), line: Line]
    BY <2>1 DEF Event
  <2>3. pc' \in [Batch -> Stages] /\ answer' \in [Batch -> {"none", "202", "413", "500"}]
    BY DEF LogCore, LogTypes, LogTypeOK, Stages
  <2> QED
    BY <2>1, <2>2, <2>3, TypesGrow DEF LogCore, LogTypes, LogTypeOK
<1>2. InsertsWhatIsMissing'
  BY DEF LogCore, LogTypes, LogTypeOK, InsertsWhatIsMissing, LineOf
<1>3. StoredOnce'
  BY DEF LogCore, StoredOnce
<1>4. OpenIsApart'
  BY DEF LogCore, LogTypes, LogTypeOK, OpenIsApart
<1> QED
  BY <1>1, <1>2, <1>3, <1>4 DEF LogCore

(* A request arrives and opens the run.                                    *)
LEMMA OpenStep ==
  ASSUME LogCore, NEW b \in Batch, Open(b)
  PROVE  LogCore'
<1> USE DEF Open, Goto
<1>1. LogTypes'
  <2>1. sends' \in [Batch -> 0..MaxSends]
    BY LogAssumption DEF LogCore, LogTypes, LogTypeOK
  <2> QED
    BY <2>1 DEF LogCore, LogTypes, LogTypeOK, Stages
<1>2. InsertsWhatIsMissing' /\ StoredOnce'
  BY DEF LogCore, LogTypes, LogTypeOK, InsertsWhatIsMissing, StoredOnce, LineOf
<1>3. OpenIsApart'
  BY DEF LogCore, LogTypes, LogTypeOK, OpenIsApart
<1> QED
  BY <1>1, <1>2, <1>3 DEF LogCore

(* The key is looked up: a batch whose key is there is whole.              *)
LEMMA BeginStep ==
  ASSUME LogCore, NEW b \in Batch, Begin(b)
  PROVE  LogCore'
<1>1. UNCHANGED <<run, rows, keys, nextId, fresh, sends, crashes>> /\ pc[b] = "opened"
  BY DEF Begin
<1>2. CASE KeyOf[b] \in keys /\ End(b, "202")
  <2>1. nextId' \in Nat /\ nextId <= nextId' /\ fresh' \in [Batch -> SUBSET Line]
        /\ fresh'[b] \subseteq Lines[b] /\ \A c \in Batch \ {b} : fresh'[c] = fresh[c]
    BY <1>1 DEF LogCore, LogTypes, LogTypeOK, InsertsWhatIsMissing
  <2> QED
    BY <1>1, <1>2, <2>1, EndStep
<1>3. CASE Goto(b, "begun") /\ UNCHANGED <<answer, own>>
  <2> USE DEF Goto
  <2>1. LogTypes'
    BY <1>1, <1>3 DEF LogCore, LogTypes, LogTypeOK, Stages
  <2>2. InsertsWhatIsMissing' /\ StoredOnce'
    BY <1>1, <1>3 DEF LogCore, LogTypes, LogTypeOK, InsertsWhatIsMissing, StoredOnce, LineOf
  <2>3. OpenIsApart'
    BY <1>1, <1>3 DEF LogCore, LogTypes, LogTypeOK, OpenIsApart
  <2> QED
    BY <2>1, <2>2, <2>3 DEF LogCore
<1> QED
  BY <1>2, <1>3 DEF Begin

(* The key is claimed and the missing lines are found: what is not missing *)
(* is in the log.                                                          *)
LEMMA MeasureStep ==
  ASSUME LogCore, NEW b \in Batch, Measure(b)
  PROVE  LogCore'
<1>1. /\ UNCHANGED <<run, rows, keys, nextId, sends, crashes>> /\ pc[b] = "begun"
      /\ fresh' = [fresh EXCEPT ![b] = Lines[b] \ LineOf(rows)]
  BY DEF Measure
<1>2. /\ nextId' \in Nat /\ nextId <= nextId' /\ fresh' \in [Batch -> SUBSET Line]
      /\ fresh'[b] = Lines[b] \ LineOf(rows)
      /\ \A c \in Batch \ {b} : fresh'[c] = fresh[c]
  <2>1. Lines[b] \ LineOf(rows) \in SUBSET Line /\ fresh \in [Batch -> SUBSET Line]
    BY LogAssumption DEF LogCore, LogTypes, LogTypeOK
  <2>2. nextId' = nextId /\ nextId \in Nat
    BY <1>1 DEF LogCore, LogTypes
  <2> QED
    BY <1>1, <2>1, <2>2
<1>3. ASSUME NEW status \in {"413", "500"}, End(b, status) PROVE LogCore'
  BY <1>1, <1>2, <1>3, EndStep
<1>4. CASE Goto(b, "measured") /\ UNCHANGED <<answer, own>>
  <2> USE DEF Goto
  <2>1. LogTypes'
    BY <1>1, <1>2, <1>4 DEF LogCore, LogTypes, LogTypeOK, Stages
  <2>2. InsertsWhatIsMissing' /\ StoredOnce'
    BY <1>1, <1>2, <1>4 DEF LogCore, LogTypes, LogTypeOK, InsertsWhatIsMissing, StoredOnce, LineOf
  <2>3. OpenIsApart'
    BY <1>1, <1>4 DEF LogCore, LogTypes, LogTypeOK, OpenIsApart
  <2> QED
    BY <2>1, <2>2, <2>3 DEF LogCore
<1> QED
  BY <1>3, <1>4 DEF Measure

(* A row inserted now has an id that no row has, and by the index a line   *)
(* that nobody has.                                                        *)
LEMMA InsertionStep ==
  ASSUME LogCore, NEW b \in Batch, pc[b] = "measured",
         \A c \in Batch \ {b} : pc[c] = "inserted" => LineOf(own[c]) \cap fresh[b] = {},
         fresh[b] \cap LineOf(rows) = {}, Insertion(b),
         nextId' = nextId + Cardinality(fresh[b]),
         UNCHANGED <<run, rows, keys, fresh, sends, crashes>>
  PROVE  LogCore'
<1>1. PICK R \in Numbered(b) : own' = [own EXCEPT ![b] = R]
  BY DEF Insertion
<1>2. fresh[b] \subseteq Lines[b] /\ LogTypes
  BY DEF LogCore, InsertsWhatIsMissing
<1>3. /\ Cardinality(fresh[b]) \in Nat
      /\ R \subseteq Event(nextId')
      /\ \A e \in R : e.id >= nextId
      /\ LineOf(R) = fresh[b]
      /\ Unique(R)
  BY <1>2, NumberedFacts
<1>4. nextId \in Nat /\ nextId' \in Nat /\ nextId <= nextId'
  BY <1>2, <1>3 DEF LogTypes
<1>5. own'[b] = R /\ \A c \in Batch : c # b => own'[c] = own[c]
  BY <1>1, <1>2 DEF LogTypes
<1>6. pc' = [pc EXCEPT ![b] = "inserted"] /\ answer' = answer
  BY DEF Insertion, Goto
<1>7. LogTypes'
  <2>1. \A c \in Batch : own'[c] \subseteq [id: 1..(nextId' - 1), line: Line]
    BY <1>2, <1>3, <1>4, <1>5, TypesGrow DEF Event
  <2>2. own' \in [Batch -> SUBSET Event(nextId')]
    BY <1>1, <1>2, <2>1 DEF Event, LogTypes
  <2>3. rows \subseteq [id: 1..(nextId' - 1), line: Line] /\ nextId' \in Nat \ {0}
    BY <1>2, <1>4, TypesGrow
  <2> QED
    BY <1>2, <1>6, <2>1, <2>2, <2>3 DEF LogTypes, LogTypeOK, Stages
<1>8. InsertsWhatIsMissing'
  <2> SUFFICES ASSUME NEW c \in Batch
               PROVE  fresh[c] \subseteq Lines[c]
                      /\ (pc'[c] = "inserted" => LineOf(own'[c]) = fresh[c])
    BY DEF InsertsWhatIsMissing, LineOf
  <2>1. CASE c = b
    BY <1>2, <1>3, <1>5, <2>1
  <2>2. CASE c # b
    BY <1>5, <1>6, <2>2 DEF LogCore, InsertsWhatIsMissing
  <2> QED
    BY <2>1, <2>2
<1>9. StoredOnce'
  BY DEF LogCore, StoredOnce
<1>10. ASSUME NEW T, T \subseteq Event(nextId), LineOf(T) \cap fresh[b] = {}
       PROVE  Apart(R, T) /\ Apart(T, R)
  <2>1. \A e \in T : e.id \in Nat /\ e.id < nextId
    BY <1>4, <1>10 DEF Event
  <2>2. \A d \in R : d.id \in Nat /\ d.id >= nextId /\ d.line \in fresh[b]
    BY <1>3, <1>4 DEF Event, LineOf
  <2>3. \A d \in R, e \in T : d.line # e.line
    BY <1>10, <2>2 DEF LineOf
  <2>4. \A d \in R, e \in T : d.id # e.id
    BY <1>4, <2>1, <2>2
  <2> QED
    BY <2>3, <2>4 DEF Apart
<1>11. rows \subseteq Event(nextId) /\ \A c \in Batch : own[c] \subseteq Event(nextId)
  BY <1>2 DEF LogTypes, LogTypeOK, Event
<1>12. Apart(R, rows)
  BY <1>10, <1>11
<1>13. \A c \in Batch \ {b} : pc[c] = "inserted" => Apart(R, own[c]) /\ Apart(own[c], R)
  BY <1>10, <1>11
<1>14. OpenIsApart'
  <2> SUFFICES ASSUME NEW c \in Batch, pc'[c] = "inserted"
               PROVE  /\ Unique(own'[c]) /\ Apart(own'[c], rows)
                      /\ \A d \in Batch \ {c} : pc'[d] = "inserted" => Apart(own'[c], own'[d])
    BY DEF OpenIsApart, Unique, Apart
  <2>1. \A d \in Batch : d # b => pc'[d] = pc[d]
    BY <1>6
  <2>2. CASE c = b
    BY <1>3, <1>5, <1>12, <1>13, <2>1, <2>2
  <2>3. CASE c # b
    <3>1. pc[c] = "inserted"
      BY <2>1, <2>3
    <3>2. Unique(own[c]) /\ Apart(own[c], rows)
          /\ \A d \in Batch \ {c} : pc[d] = "inserted" => Apart(own[c], own[d])
      BY <3>1 DEF LogCore, OpenIsApart
    <3>3. \A d \in Batch \ {c} : pc'[d] = "inserted" => Apart(own[c], own'[d])
      BY <1>5, <1>13, <2>1, <2>3, <3>1, <3>2
    <3> QED
      BY <1>5, <2>3, <3>2, <3>3
  <2> QED
    BY <2>2, <2>3
<1> QED
  BY <1>7, <1>8, <1>9, <1>14 DEF LogCore

(* The missing lines are inserted, or one of them is no longer missing.    *)
LEMMA InsertStep ==
  ASSUME LogCore, NEW b \in Batch, Insert(b)
  PROVE  LogCore'
<1>1. /\ UNCHANGED <<run, rows, keys, fresh, sends, crashes>> /\ pc[b] = "measured"
      /\ \A c \in Batch \ {b} : pc[c] = "inserted" => LineOf(own[c]) \cap fresh[b] = {}
      /\ nextId' = nextId + Cardinality(fresh[b])
  BY DEF Insert
<1>2. CASE End(b, "500")
  <2>1. fresh[b] \subseteq Lines[b] /\ IsFiniteSet(Lines[b])
        /\ nextId \in Nat /\ fresh \in [Batch -> SUBSET Line]
    BY LogAssumption DEF LogCore, InsertsWhatIsMissing, LogTypes, LogTypeOK
  <2>2. Cardinality(fresh[b]) \in Nat
    BY <2>1, FS_Subset, FS_CardinalityType
  <2>3. /\ nextId' \in Nat /\ nextId <= nextId' /\ fresh' \in [Batch -> SUBSET Line]
        /\ fresh'[b] \subseteq Lines[b] /\ \A c \in Batch \ {b} : fresh'[c] = fresh[c]
    BY <1>1, <2>1, <2>2
  <2> QED
    BY <1>1, <1>2, <2>3, EndStep
<1>3. CASE fresh[b] \cap LineOf(rows) = {} /\ Insertion(b)
  BY <1>1, <1>3, InsertionStep
<1> QED
  BY <1>2, <1>3 DEF Insert

(* A commit adds what is apart to what is there, and the key with it.      *)
LEMMA CommitStep ==
  ASSUME LogCore, NEW b \in Batch, Commit(b)
  PROVE  LogCore'
<1>1. /\ pc[b] = "inserted" /\ rows' = rows \cup own[b]
      /\ keys' = keys \cup ({KeyOf[b]} \ {NoKey})
      /\ pc' = [pc EXCEPT ![b] = "committed"]
      /\ UNCHANGED <<run, nextId, fresh, own, sends, answer, crashes>>
  BY DEF Commit, Goto
<1>2. LogTypes'
  BY <1>1, LogAssumption DEF LogCore, LogTypes, LogTypeOK, Stages
<1>3. InsertsWhatIsMissing'
  BY <1>1 DEF LogCore, LogTypes, LogTypeOK, InsertsWhatIsMissing, LineOf
<1>4. Unique(own[b]) /\ Apart(own[b], rows)
  BY <1>1 DEF LogCore, OpenIsApart
<1>5. StoredOnce'
  <2> SUFFICES ASSUME NEW d \in rows', NEW e \in rows', d.line = e.line \/ d.id = e.id
               PROVE  d = e
    BY DEF StoredOnce
  <2>1. CASE d \in rows /\ e \in rows
    BY <2>1 DEF LogCore, StoredOnce
  <2>2. CASE d \in own[b] /\ e \in own[b]
    BY <1>4, <2>2 DEF Unique
  <2>3. CASE d \in own[b] /\ e \in rows
    BY <1>4, <2>3 DEF Apart
  <2>4. CASE d \in rows /\ e \in own[b]
    BY <1>4, <2>4 DEF Apart
  <2> QED
    BY <1>1, <2>1, <2>2, <2>3, <2>4
<1>6. OpenIsApart'
  <2> SUFFICES ASSUME NEW c \in Batch, pc'[c] = "inserted"
               PROVE  /\ Unique(own[c]) /\ Apart(own[c], rows')
                      /\ \A d \in Batch \ {c} : pc'[d] = "inserted" => Apart(own[c], own[d])
    BY <1>1 DEF OpenIsApart, Unique, Apart
  <2>1. c # b /\ pc[c] = "inserted" /\ \A d \in Batch : pc'[d] = "inserted" => pc[d] = "inserted"
    BY <1>1 DEF LogCore, LogTypes, LogTypeOK
  <2>2. Apart(own[c], rows) /\ Apart(own[c], own[b])
    BY <1>1, <2>1 DEF LogCore, OpenIsApart
  <2> QED
    BY <1>1, <2>1, <2>2 DEF LogCore, OpenIsApart, Apart
<1> QED
  BY <1>2, <1>3, <1>5, <1>6 DEF LogCore

(* The handler answers for what it committed.                              *)
LEMMA RespondStep ==
  ASSUME LogCore, NEW b \in Batch, Respond(b)
  PROVE  LogCore'
<1>1. UNCHANGED <<run, rows, keys, nextId, fresh, sends, crashes>> /\ pc[b] = "committed"
      /\ End(b, "202")
  BY DEF Respond
<1>2. nextId' \in Nat /\ nextId <= nextId' /\ fresh' \in [Batch -> SUBSET Line]
      /\ fresh'[b] \subseteq Lines[b] /\ \A c \in Batch \ {b} : fresh'[c] = fresh[c]
  BY <1>1 DEF LogCore, LogTypes, LogTypeOK, InsertsWhatIsMissing
<1> QED
  BY <1>1, <1>2, EndStep

(* A crash rolls every open transaction back.                              *)
LEMMA CoreCrash ==
  ASSUME LogCore, Crash
  PROVE  LogCore'
<1> USE DEF Crash
<1>1. LogTypes'
  BY LogAssumption DEF LogCore, LogTypes, LogTypeOK, Stages
<1>2. InsertsWhatIsMissing' /\ StoredOnce'
  BY DEF LogCore, InsertsWhatIsMissing, StoredOnce, LineOf
<1>3. OpenIsApart'
  BY DEF OpenIsApart
<1> QED
  BY <1>1, <1>2, <1>3 DEF LogCore

(* Nothing about the log changes.                                          *)
LEMMA CoreStutter ==
  ASSUME LogCore, UNCHANGED logVars
  PROVE  LogCore'
BY DEF LogCore, logVars, LogTypes, LogTypeOK, InsertsWhatIsMissing, StoredOnce, OpenIsApart,
       LineOf, Apart, Unique, Event

(* Every step of a handler is one of these.                                *)
LEMMA CoreStore ==
  ASSUME LogCore, NEW b \in Batch, Store(b) \/ Respond(b)
  PROVE  LogCore'
BY OpenStep, BeginStep, MeasureStep, InsertStep, CommitStep, RespondStep DEF Store

-----------------------------------------------------------------------------
(* A handler ends, with a 202 only for a batch the log holds.              *)
LEMMA EndAccepts ==
  ASSUME LogInv, NEW b \in Batch, NEW status \in {"202", "413", "500"}, End(b, status),
         UNCHANGED <<rows, keys, prunes>>,
         \A c \in Batch \ {b} : fresh'[c] = fresh[c],
         status = "202" /\ prunes = 0 => Whole(b)
  PROVE  AcceptedIsWhole'
BY DEF LogInv, LogCore, LogTypes, LogTypeOK, AcceptedIsWhole, Whole, LineOf, End, Goto

(* A commit adds a batch whole, and the key with it.                       *)
LEMMA CommitAccepts ==
  ASSUME LogInv, NEW b \in Batch, Commit(b), UNCHANGED prunes
  PROVE  AcceptedIsWhole'
<1>1. /\ pc[b] = "inserted" /\ rows' = rows \cup own[b]
      /\ keys' = keys \cup ({KeyOf[b]} \ {NoKey})
      /\ pc' = [pc EXCEPT ![b] = "committed"]
      /\ UNCHANGED <<run, nextId, fresh, own, sends, answer, crashes>>
  BY DEF Commit, Goto
<1> SUFFICES ASSUME prunes = 0, NEW c \in Batch
             PROVE  /\ answer[c] = "202" \/ pc'[c] = "committed" \/ KeyOf[c] \in keys'
                         => Lines[c] \subseteq LineOf(rows')
                    /\ pc'[c] \in {"measured", "inserted"}
                         => Lines[c] \subseteq fresh[c] \cup LineOf(rows')
  BY <1>1 DEF AcceptedIsWhole, Whole, LineOf
<1>2. LineOf(rows') = LineOf(rows) \cup LineOf(own[b])
  BY <1>1 DEF LineOf
<1>3. LineOf(own[b]) = fresh[b] /\ Lines[b] \subseteq fresh[b] \cup LineOf(rows)
  BY <1>1 DEF LogInv, LogCore, InsertsWhatIsMissing, AcceptedIsWhole
<1>4. Lines[b] \subseteq LineOf(rows')
  BY <1>2, <1>3
<1>5. /\ answer[c] = "202" \/ pc[c] = "committed" \/ KeyOf[c] \in keys => Whole(c)
      /\ pc[c] \in {"measured", "inserted"} => Lines[c] \subseteq fresh[c] \cup LineOf(rows)
  BY DEF LogInv, AcceptedIsWhole
<1>6. KeyOf[c] \in keys' => KeyOf[c] \in keys \/ Lines[c] = Lines[b]
  BY <1>1, LogAssumption
<1>7. pc'[c] = "committed" => c = b \/ pc[c] = "committed"
  BY <1>1 DEF LogInv, LogCore, LogTypes, LogTypeOK
<1>8. pc'[c] \in {"measured", "inserted"} => pc[c] \in {"measured", "inserted"}
  BY <1>1 DEF LogInv, LogCore, LogTypes, LogTypeOK
<1> QED
  BY <1>2, <1>4, <1>5, <1>6, <1>7, <1>8 DEF Whole

(* What is found missing when it is measured, and what was not, is all of  *)
(* the batch.                                                              *)
LEMMA MeasureAccepts ==
  ASSUME LogInv, NEW b \in Batch, Measure(b), UNCHANGED prunes
  PROVE  AcceptedIsWhole'
<1>1. /\ UNCHANGED <<run, rows, keys, nextId, sends, crashes>>
      /\ fresh' = [fresh EXCEPT ![b] = Lines[b] \ LineOf(rows)]
  BY DEF Measure
<1>2. fresh'[b] = Lines[b] \ LineOf(rows) /\ \A c \in Batch \ {b} : fresh'[c] = fresh[c]
  BY <1>1 DEF LogInv, LogCore, LogTypes, LogTypeOK
<1>3. ASSUME NEW status \in {"413", "500"}, End(b, status) PROVE AcceptedIsWhole'
  BY <1>1, <1>2, <1>3, EndAccepts
<1>4. CASE Goto(b, "measured") /\ UNCHANGED <<answer, own>>
  BY <1>1, <1>2, <1>4 DEF LogInv, LogCore, LogTypes, LogTypeOK, AcceptedIsWhole, Whole, LineOf, Goto
<1> QED
  BY <1>3, <1>4 DEF Measure

(* Until retention deletes, every step of a handler keeps the log's word.  *)
LEMMA StoreAccepts ==
  ASSUME LogInv, NEW b \in Batch, Store(b) \/ Respond(b), UNCHANGED prunes
  PROVE  AcceptedIsWhole'
<1> USE DEF LogInv, LogCore, LogTypes, LogTypeOK, AcceptedIsWhole, Whole, LineOf
<1>1. CASE Open(b)
  BY <1>1 DEF Open, Goto
<1>2. CASE Begin(b)
  <2>1. CASE KeyOf[b] \in keys /\ End(b, "202")
    BY <1>2, <2>1, EndAccepts DEF Begin
  <2>2. CASE Goto(b, "begun") /\ UNCHANGED <<answer, own>>
    BY <1>2, <2>2 DEF Begin, Goto
  <2> QED
    BY <1>2, <2>1, <2>2 DEF Begin
<1>3. CASE Insert(b)
  <2>1. CASE End(b, "500")
    BY <1>3, <2>1, EndAccepts DEF Insert
  <2>2. CASE Insertion(b)
    BY <1>3, <2>2 DEF Insert, Insertion, Goto
  <2> QED
    BY <1>3, <2>1, <2>2 DEF Insert
<1>4. CASE Respond(b)
  BY <1>4, EndAccepts DEF Respond
<1> QED
  BY <1>1, <1>2, <1>3, <1>4, MeasureAccepts, CommitAccepts DEF Store

(* A step of a handler, a crash and a step of somebody else keep what is   *)
(* said of the log.                                                        *)
LEMMA StoreLog ==
  ASSUME LogInv, NEW b \in Batch, Store(b) \/ Respond(b), UNCHANGED prunes
  PROVE  LogInv'
BY CoreStore, StoreAccepts DEF LogInv

LEMMA LogCrashStep ==
  ASSUME LogInv, Crash, UNCHANGED prunes
  PROVE  LogInv'
<1>1. AcceptedIsWhole'
  BY DEF LogInv, AcceptedIsWhole, Whole, LineOf, Crash
<1> QED
  BY <1>1, CoreCrash DEF LogInv

LEMMA LogStutter ==
  ASSUME LogInv, UNCHANGED logVars, UNCHANGED prunes
  PROVE  LogInv'
<1>1. AcceptedIsWhole'
  BY DEF LogInv, AcceptedIsWhole, Whole, LineOf, logVars
<1> QED
  BY <1>1, CoreStutter DEF LogInv

(* Retention empties the log; from then on nothing is promised to be there.*)
LEMMA PruneLog ==
  ASSUME LogInv, Prune, prunes \in Nat
  PROVE  LogInv'
<1> USE DEF Prune
<1>1. LogTypes'
  BY DEF LogInv, LogCore, LogTypes, LogTypeOK
<1>2. InsertsWhatIsMissing' /\ StoredOnce'
  BY DEF LogInv, LogCore, InsertsWhatIsMissing, StoredOnce, LineOf
<1>3. OpenIsApart'
  BY DEF LogInv, LogCore, OpenIsApart, Apart, Unique
<1>4. AcceptedIsWhole'
  BY DEF AcceptedIsWhole
<1> QED
  BY <1>1, <1>2, <1>3, <1>4 DEF LogInv, LogCore

-----------------------------------------------------------------------------
(* What a handler's step on the log leaves alone.                          *)
LEMMA StoreFacts ==
  ASSUME LogInv, NEW b \in Batch, Store(b) \/ Respond(b)
  PROVE  /\ \A c \in Batch : c # b => pc'[c] = pc[c]
         /\ keys \subseteq keys'
         /\ \/ rows' = rows
            \/ pc[b] = "inserted" /\ pc'[b] = "committed"
         /\ run' \/ (run' = run /\ pc[b] # "idle")
         /\ ~Returned(b) => \A c \in Batch : answer'[c] = "202" => answer[c] = "202"
<1> USE DEF LogInv, LogCore, LogTypes, LogTypeOK, Goto, End
<1>1. CASE Open(b)
  BY <1>1 DEF Open
<1>2. CASE Begin(b)
  BY <1>2 DEF Begin, Returned
<1>3. CASE Measure(b)
  BY <1>3 DEF Measure
<1>4. CASE Insert(b)
  BY <1>4 DEF Insert, Insertion
<1>5. CASE Commit(b)
  BY <1>5 DEF Commit
<1>6. CASE Respond(b)
  BY <1>6 DEF Respond, Returned
<1> QED
  BY <1>1, <1>2, <1>3, <1>4, <1>5, <1>6 DEF Store

(* A handler touches nobody else's rows.                                   *)
LEMMA StoreOwns ==
  ASSUME LogInv, NEW b \in Batch, Store(b) \/ Respond(b)
  PROVE  \A c \in Batch : c # b => own'[c] = own[c]
<1> USE DEF LogInv, LogCore, LogTypes, Goto, End
<1>1. CASE Open(b)
  BY <1>1 DEF Open
<1>2. CASE Begin(b)
  BY <1>2 DEF Begin
<1>3. CASE Measure(b)
  BY <1>3 DEF Measure
<1>4. CASE Insert(b)
  BY <1>4 DEF Insert, Insertion
<1>5. CASE Commit(b)
  BY <1>5 DEF Commit
<1>6. CASE Respond(b)
  BY <1>6 DEF Respond
<1> QED
  BY <1>1, <1>2, <1>3, <1>4, <1>5, <1>6 DEF Store

LEMMA AnswerOwns ==
  ASSUME LogInv, NEW b \in Batch, Answer202(b)
  PROVE  \A c \in Batch : c # b => own'[c] = own[c]
BY StoreOwns DEF Answer202, Store

(* An answer after an ingest: the log is as it was.                        *)
LEMMA AnswerFacts ==
  ASSUME LogInv, NEW b \in Batch, Answer202(b), Returned(b), UNCHANGED prunes
  PROVE  /\ LogInv' /\ UNCHANGED <<rows, run>> /\ keys \subseteq keys'
         /\ \A c \in Batch : c # b => pc'[c] = pc[c] /\ answer'[c] = answer[c]
         /\ pc[b] # "idle"
<1>1. Store(b) \/ Respond(b)
  BY DEF Answer202, Store
<1>2. pc[b] # "inserted" /\ pc[b] # "idle"
  BY DEF Returned
<1>3. run' = run /\ \A c \in Batch : c # b => answer'[c] = answer[c]
  BY DEF Answer202, Respond, Begin, End, LogInv, LogCore, LogTypes, LogTypeOK
<1> QED
  BY <1>1, <1>2, <1>3, StoreFacts, StoreLog

(* Initially nothing is stored, cached or under way.                       *)
LEMMA InitIInv == ViewsInit => IInv
<1> SUFFICES ASSUME ViewsInit PROVE IInv
  OBVIOUS
<1> USE DEF ViewsInit, LogInit
<1>1. LogTypes
  <2>1. LogTypeOK
    <3>1. 0 \in 0..MaxSends /\ 0 \in 0..MaxCrashes
      BY LogAssumption
    <3>2. sends \in [Batch -> 0..MaxSends] /\ crashes \in 0..MaxCrashes
      BY <3>1
    <3>3. pc \in [Batch -> Stages] /\ fresh \in [Batch -> SUBSET Line]
          /\ answer \in [Batch -> {"none", "202", "413", "500"}]
      BY DEF Stages
    <3>4. rows = {} /\ keys = {} /\ run \in BOOLEAN /\ \A b \in Batch : own[b] = {}
      OBVIOUS
    <3> QED
      BY <3>2, <3>3, <3>4 DEF LogTypeOK
  <2>2. own \in [Batch -> SUBSET Event(nextId)] /\ nextId \in Nat \ {0}
    OBVIOUS
  <2> QED
    BY <2>1, <2>2 DEF LogTypes
<1>2. InsertsWhatIsMissing /\ StoredOnce /\ OpenIsApart
  BY DEF InsertsWhatIsMissing, StoredOnce, OpenIsApart
<1>3. AcceptedIsWhole
  BY DEF AcceptedIsWhole
<1>4. ViewsTypeOK
  <2>1. LogTypeOK
    BY <1>1 DEF LogTypes
  <2>2. prunes \in 0..MaxPrunes
    BY ViewAssumption
  <2>5. /\ late \subseteq Line /\ silent \subseteq Line /\ outdone \subseteq Line
        /\ met \in BOOLEAN /\ pinned \in BOOLEAN /\ told \in BOOLEAN
    OBVIOUS
  <2>3. audit \in [Batch -> {"none", "read", "store", "ask", "pin"}]
        /\ view \in [Batch -> (SUBSET Line) \cup {NoView}]
    OBVIOUS
  <2>4. cache = NoView /\ evidence = NoView /\ reader = "idle" /\ readerView = NoView
    OBVIOUS
  <2> HIDE DEF ViewsInit, LogInit
  <2> QED
    BY <2>1, <2>2, <2>3, <2>4, <2>5 DEF ViewsTypeOK
<1>5. DerivesAfterIngest /\ CacheFollowsTheLog
  BY DEF DerivesAfterIngest, CacheFollowsTheLog
<1>6. AuditInv
  BY ViewAssumption DEF AuditInv, RunIsOpen, TraceIsWhole, EvidenceCovers, AnsweredClaimIsAudited
<1> QED
  BY <1>1, <1>2, <1>3, <1>4, <1>5, <1>6 DEF IInv, LogInv, LogCore

(* The lines of some rows and of some more.                                *)
LEMMA LineOfUnion == \A R, T : LineOf(R \cup T) = LineOf(R) \cup LineOf(T)
BY DEF LineOf

(* A handler at work on the log: what it outdates by its commit, it has    *)
(* yet to drop, unless it is telemetry.                                    *)
LEMMA StoreIInv ==
  ASSUME IInv, NEW b \in Batch, IngestStep(b)
  PROVE  IInv'
<1>1. Store(b) /\ ~Returned(b)
      /\ UNCHANGED <<cache, reader, readerView, late, audit, view, evidence, pinned, told, outdone, prunes, met>>
      /\ silent' = IF b \in Telemetry /\ pc[b] = "inserted" THEN silent \cup LineOf(own[b]) ELSE silent
  BY DEF IngestStep, evidenceVars
<1>2. LogInv'
  BY <1>1, StoreLog DEF IInv
<1>3. /\ \A c \in Batch : c # b => pc'[c] = pc[c]
      /\ keys \subseteq keys'
      /\ \/ rows' = rows
         \/ pc[b] = "inserted" /\ pc'[b] = "committed"
      /\ run' \/ (run' = run /\ pc[b] # "idle")
      /\ \A c \in Batch : answer'[c] = "202" => answer[c] = "202"
  BY <1>1, StoreFacts DEF IInv
<1>4. audit[b] = "none"
  BY <1>1 DEF IInv, DerivesAfterIngest
<1>5. ViewsTypeOK'
  <2>1. LineOf(own[b]) \subseteq Line
    BY DEF IInv, ViewsTypeOK, LogTypeOK, LineOf
  <2>2. silent' \subseteq Line
    BY <1>1, <2>1 DEF IInv, ViewsTypeOK
  <2> QED
    BY <1>1, <1>2, <2>2 DEF IInv, LogInv, LogCore, LogTypes, ViewsTypeOK
<1>6. DerivesAfterIngest'
  BY <1>1, <1>3, <1>4 DEF IInv, DerivesAfterIngest, Returned
<1>7. CacheFollowsTheLog'
  <2> SUFFICES ASSUME cache # NoView, NEW z \in Difference(cache, LineOf(rows'))
               PROVE  z \in Undropped' \cup late \cup silent'
    BY <1>1 DEF CacheFollowsTheLog
  <2>1. Undropped \subseteq Undropped'
    <3>1. \A c \in Batch : c # b => own'[c] = own[c]
      BY <1>1, StoreOwns DEF IInv
    <3> QED
      BY <1>1, <1>3, <3>1 DEF Undropped, Returned
  <2>2. silent \subseteq silent'
    BY <1>1
  <2>3. CASE z \in Difference(cache, LineOf(rows))
    BY <2>1, <2>2, <2>3 DEF IInv, CacheFollowsTheLog
  <2>4. CASE z \notin Difference(cache, LineOf(rows))
    <3>1. rows' # rows
      BY <2>4
    <3>2. Commit(b) /\ pc[b] = "inserted" /\ pc'[b] = "committed"
      BY <1>1, <1>3, <3>1 DEF Store, Open, Begin, Measure, Insert
    <3>3. rows' = rows \cup own[b] /\ own' = own
      BY <3>2 DEF Commit
    <3>4. z \in LineOf(own[b])
      BY <2>4, <3>3, LineOfUnion DEF Difference
    <3>5. CASE b \in Telemetry
      BY <1>1, <3>2, <3>4, <3>5
    <3>6. CASE b \notin Telemetry
      BY <1>1, <1>4, <3>2, <3>3, <3>4, <3>6 DEF Undropped
    <3> QED
      BY <3>5, <3>6
  <2> QED
    BY <2>3, <2>4
<1>8. RunIsOpen'
  <2>1. prunes = 0 => run'
    BY <1>3 DEF IInv, AuditInv, RunIsOpen
  <2> QED
    BY <1>1, <2>1 DEF RunIsOpen
<1>9. TraceIsWhole' /\ EvidenceCovers' /\ AnsweredClaimIsAudited'
  BY <1>1, <1>3, ViewAssumption
  DEF IInv, AuditInv, TraceIsWhole, EvidenceCovers, Covered, AnsweredClaimIsAudited
<1> QED
  BY <1>2, <1>5, <1>6, <1>7, <1>8, <1>9 DEF IInv, AuditInv

(* A handler that answers leaves what the others have yet to drop.         *)
LEMMA AnswerDrops ==
  ASSUME IInv, NEW b \in Batch, Answer202(b), Returned(b), UNCHANGED prunes,
         b \in Telemetry \/ audit[b] # "none",
         \A c \in Batch : c # b => audit'[c] = audit[c]
  PROVE  Undropped \subseteq Undropped'
<1>1. \A c \in Batch : c # b => pc'[c] = pc[c]
  BY AnswerFacts DEF IInv
<1>2. \A c \in Batch : c # b => own'[c] = own[c]
  BY AnswerOwns DEF IInv
<1> QED
  BY <1>1, <1>2 DEF Undropped

(* An ingest handler resumes: the cache is dropped.                        *)
LEMMA ResumeIInv ==
  ASSUME IInv, NEW b \in Batch, Resume(b)
  PROVE  IInv'
<1>1. /\ b \notin Telemetry /\ Returned(b) /\ audit[b] = "none"
      /\ cache' = NoView /\ late' = {} /\ silent' = {}
      /\ UNCHANGED <<reader, readerView, view, evidence, pinned, told, outdone, prunes, met>>
      /\ audit \in [Batch -> {"none", "read", "store", "ask", "pin"}]
      /\ b \in Claims => audit' = [audit EXCEPT ![b] = "read"] /\ UNCHANGED logVars
  BY DEF Resume, Ingested, DropRun, DeriveOrAnswer, IInv, ViewsTypeOK
<1>2. CASE audit' = [audit EXCEPT ![b] = "read"] /\ UNCHANGED logVars
  <2>1. LogInv'
    BY <1>1, <1>2, LogStutter DEF IInv
  <2>2. ViewsTypeOK'
    BY <1>1, <1>2, <2>1 DEF IInv, LogInv, LogCore, LogTypes, ViewsTypeOK
  <2>3. DerivesAfterIngest'
    BY <1>1, <1>2 DEF IInv, DerivesAfterIngest, Returned, logVars
  <2>4. CacheFollowsTheLog'
    BY <1>1 DEF CacheFollowsTheLog
  <2>5. AuditInv'
    BY <1>1, <1>2
    DEF IInv, AuditInv, RunIsOpen, TraceIsWhole, EvidenceCovers, Covered, AnsweredClaimIsAudited, logVars
  <2> QED
    BY <2>1, <2>2, <2>3, <2>4, <2>5 DEF IInv
<1>3. CASE b \notin Claims /\ Answer202(b) /\ UNCHANGED audit
  <2>1. /\ LogInv' /\ keys \subseteq keys' /\ run' = run /\ pc[b] # "idle"
        /\ \A c \in Batch : c # b => pc'[c] = pc[c] /\ answer'[c] = answer[c]
    BY <1>1, <1>3, AnswerFacts DEF IInv
  <2>2. ViewsTypeOK'
    BY <1>1, <1>3, <2>1 DEF IInv, LogInv, LogCore, LogTypes, ViewsTypeOK
  <2>3. DerivesAfterIngest'
    BY <1>1, <1>3, <2>1 DEF IInv, DerivesAfterIngest, Returned
  <2>4. CacheFollowsTheLog'
    BY <1>1 DEF CacheFollowsTheLog
  <2>5. RunIsOpen'
    BY <1>1, <2>1 DEF IInv, AuditInv, RunIsOpen
  <2>6. TraceIsWhole' /\ EvidenceCovers' /\ AnsweredClaimIsAudited'
    BY <1>1, <1>3, <2>1, ViewAssumption
    DEF IInv, AuditInv, TraceIsWhole, EvidenceCovers, Covered, AnsweredClaimIsAudited
  <2> QED
    BY <2>1, <2>2, <2>3, <2>4, <2>5, <2>6 DEF IInv, AuditInv
<1> QED
  BY <1>2, <1>3 DEF Resume, DeriveOrAnswer

(* A telemetry handler resumes: it answers, and nothing else.              *)
LEMMA TelemetryIInv ==
  ASSUME IInv, NEW b \in Batch, ResumeTelemetry(b)
  PROVE  IInv'
<1>1. /\ b \in Telemetry /\ Returned(b) /\ Answer202(b)
      /\ UNCHANGED <<cache, reader, readerView, late, silent, audit, view, evidence,
                     pinned, told, outdone, prunes, met>>
  BY DEF ResumeTelemetry, viewVars, cacheVars, evidenceVars
<1>2. /\ LogInv' /\ rows' = rows /\ keys \subseteq keys' /\ run' = run /\ pc[b] # "idle"
      /\ \A c \in Batch : c # b => pc'[c] = pc[c] /\ answer'[c] = answer[c]
  BY <1>1, AnswerFacts DEF IInv
<1>3. audit[b] = "none"
  BY <1>1 DEF IInv, DerivesAfterIngest
<1>4. ViewsTypeOK'
  BY <1>1, <1>2 DEF IInv, LogInv, LogCore, LogTypes, ViewsTypeOK
<1>5. DerivesAfterIngest'
  BY <1>1, <1>2, <1>3 DEF IInv, DerivesAfterIngest, Returned
<1>6. CacheFollowsTheLog'
  <2>1. Undropped \subseteq Undropped'
    BY <1>1, AnswerDrops
  <2> QED
    BY <1>1, <1>2, <2>1 DEF IInv, CacheFollowsTheLog
<1>7. RunIsOpen'
  BY <1>1, <1>2 DEF IInv, AuditInv, RunIsOpen
<1>8. TraceIsWhole' /\ EvidenceCovers'
  BY <1>1 DEF IInv, AuditInv, TraceIsWhole, EvidenceCovers, Covered
<1>9. AnsweredClaimIsAudited'
  BY <1>1, <1>2, ViewAssumption DEF IInv, AuditInv, AnsweredClaimIsAudited
<1> QED
  BY <1>2, <1>4, <1>5, <1>6, <1>7, <1>8, <1>9 DEF IInv, AuditInv

(* A derivation reads the log.                                             *)
LEMMA ReadTraceIInv ==
  ASSUME IInv, NEW b \in Batch, ReadTrace(b)
  PROVE  IInv'
<1>1. /\ audit[b] = "read" /\ audit' = [audit EXCEPT ![b] = "store"]
      /\ view' = [view EXCEPT ![b] = LineOf(rows)]
      /\ UNCHANGED <<logVars, cache, reader, readerView, late, silent, evidence,
                     pinned, told, outdone, prunes, met>>
      /\ audit \in [Batch -> {"none", "read", "store", "ask", "pin"}]
  BY DEF ReadTrace, cacheVars, IInv, ViewsTypeOK
<1>2. LogInv'
  BY <1>1, LogStutter DEF IInv
<1>3. LineOf(rows) \in SUBSET Line
  BY DEF IInv, ViewsTypeOK, LogTypeOK, LineOf
<1>4. ViewsTypeOK'
  BY <1>1, <1>2, <1>3 DEF IInv, LogInv, LogCore, LogTypes, ViewsTypeOK
<1>5. DerivesAfterIngest'
  BY <1>1 DEF IInv, DerivesAfterIngest, Returned, logVars
<1>6. CacheFollowsTheLog'
  <2>1. \A c \in Batch : audit[c] = "none" => audit'[c] = "none"
    BY <1>1
  <2>2. Undropped \subseteq Undropped'
    BY <1>1, <2>1 DEF Undropped, logVars
  <2> QED
    BY <1>1, <2>2 DEF IInv, CacheFollowsTheLog, logVars
<1>7. RunIsOpen' /\ EvidenceCovers' /\ AnsweredClaimIsAudited'
  BY <1>1 DEF IInv, AuditInv, RunIsOpen, EvidenceCovers, Covered, AnsweredClaimIsAudited, logVars
<1>8. TraceIsWhole'
  <2> SUFFICES ASSUME prunes = 0, NEW c \in Batch, audit'[c] = "store"
               PROVE  view'[c] \in SUBSET Line /\ Lines[c] \subseteq view'[c]
    BY <1>1 DEF TraceIsWhole
  <2>1. CASE c = b
    <3>1. Returned(b)
      BY <1>1 DEF IInv, DerivesAfterIngest
    <3>2. Whole(b)
      BY <3>1 DEF Returned, IInv, LogInv, LogCore, AcceptedIsWhole
    <3>3. view'[b] = LineOf(rows)
      BY <1>1 DEF IInv, ViewsTypeOK
    <3> QED
      BY <1>3, <2>1, <3>2, <3>3 DEF Whole
  <2>2. CASE c # b
    BY <1>1, <2>2 DEF IInv, ViewsTypeOK, AuditInv, TraceIsWhole
  <2> QED
    BY <2>1, <2>2
<1> QED
  BY <1>2, <1>4, <1>5, <1>6, <1>7, <1>8 DEF IInv, AuditInv

(* A handler that has done what its claim asks for answers: what is left   *)
(* to show is what it did.                                                 *)
LEMMA FinishIInv ==
  ASSUME IInv, NEW b \in Batch, audit[b] # "none", Finish(b),
         view' \in [Batch -> (SUBSET Line) \cup {NoView}],
         \A c \in Batch : c # b => view'[c] = view[c],
         pinned' \in BOOLEAN, told' \in BOOLEAN,
         pinned => pinned', told => told',
         UNCHANGED <<cache, reader, readerView, late, silent, evidence, outdone, prunes, met>>,
         prunes = 0 /\ Lines[b] \cap Faults # {} =>
           Covered(b) /\ told' /\ (Lines[b] \cap Denials # {} => pinned')
  PROVE  IInv'
<1>1. /\ audit' = [audit EXCEPT ![b] = "none"] /\ Answer202(b) /\ Returned(b)
      /\ audit \in [Batch -> {"none", "read", "store", "ask", "pin"}]
  BY DEF Finish, IInv, ViewsTypeOK, DerivesAfterIngest
<1>2. /\ LogInv' /\ rows' = rows /\ run' = run /\ keys \subseteq keys' /\ pc[b] # "idle"
      /\ \A c \in Batch : c # b => pc'[c] = pc[c] /\ answer'[c] = answer[c]
  BY <1>1, AnswerFacts DEF IInv
<1>3. ViewsTypeOK'
  BY <1>1, <1>2 DEF IInv, LogInv, LogCore, LogTypes, ViewsTypeOK
<1>4. DerivesAfterIngest'
  BY <1>1, <1>2 DEF IInv, DerivesAfterIngest, Returned
<1>5. CacheFollowsTheLog'
  <2>1. Undropped \subseteq Undropped'
    BY <1>1, AnswerDrops
  <2> QED
    BY <1>2, <2>1 DEF IInv, CacheFollowsTheLog
<1>6. RunIsOpen'
  BY <1>1, <1>2 DEF IInv, AuditInv, RunIsOpen
<1>7. TraceIsWhole'
  <2> SUFFICES ASSUME prunes = 0, NEW c \in Batch, audit'[c] = "store"
               PROVE  view'[c] \in SUBSET Line /\ Lines[c] \subseteq view'[c]
    BY DEF TraceIsWhole
  <2>1. c # b /\ audit[c] = "store"
    BY <1>1
  <2> QED
    BY <2>1 DEF IInv, AuditInv, TraceIsWhole
<1>8. EvidenceCovers'
  <2> SUFFICES ASSUME prunes = 0, NEW c \in Batch, audit'[c] \in {"ask", "pin"}
               PROVE  Covered(c)'
    BY DEF EvidenceCovers
  <2>1. audit[c] \in {"ask", "pin"}
    BY <1>1
  <2>2. Covered(c)
    BY <2>1 DEF IInv, AuditInv, EvidenceCovers
  <2> QED
    BY <2>2 DEF Covered
<1>9. AnsweredClaimIsAudited'
  <2> SUFFICES ASSUME NEW c \in Claims \ Telemetry, answer'[c] = "202", prunes = 0,
                      Lines[c] \cap Faults # {}
               PROVE  /\ evidence # NoView /\ Lines[c] \subseteq evidence \cup outdone
                      /\ told' /\ (Lines[c] \cap Denials # {} => pinned')
    BY DEF AnsweredClaimIsAudited
  <2>1. CASE c = b
    BY <2>1 DEF Covered
  <2>2. CASE c # b
    <3>1. answer[c] = "202"
      BY <1>2, <2>2, ViewAssumption
    <3> QED
      BY <3>1 DEF IInv, AuditInv, AnsweredClaimIsAudited
  <2> QED
    BY <2>1, <2>2
<1> QED
  BY <1>2, <1>3, <1>4, <1>5, <1>6, <1>7, <1>8, <1>9 DEF IInv, AuditInv

(* A derivation is stored, or had nothing to store.                        *)
LEMMA StoreEvidenceIInv ==
  ASSUME IInv, NEW b \in Batch, StoreEvidence(b)
  PROVE  IInv'
<1>1. /\ audit[b] = "store"
      /\ view' = [view EXCEPT ![b] = NoView]
      /\ UNCHANGED <<cache, reader, readerView, late, silent, pinned, told, prunes, met>>
      /\ audit \in [Batch -> {"none", "read", "store", "ask", "pin"}]
      /\ view \in [Batch -> (SUBSET Line) \cup {NoView}]
      /\ evidence \in (SUBSET Line) \cup {NoView}
      /\ Returned(b)
  BY DEF StoreEvidence, cacheVars, IInv, ViewsTypeOK, DerivesAfterIngest
<1>2. /\ view' \in [Batch -> (SUBSET Line) \cup {NoView}]
      /\ \A c \in Batch : c # b => view'[c] = view[c]
  BY <1>1
<1>3. prunes = 0 => run /\ view[b] \in SUBSET Line /\ Lines[b] \subseteq view[b] /\ view[b] # NoView
  <2>1. pc[b] # "idle"
    BY <1>1 DEF Returned
  <2> QED
    BY <1>1, <2>1, ViewAssumption DEF IInv, AuditInv, RunIsOpen, TraceIsWhole
<1>4. CASE view[b] \cap Faults = {} /\ Finish(b) /\ UNCHANGED <<evidence, outdone>>
  <2>1. prunes = 0 => Lines[b] \cap Faults = {}
    BY <1>3, <1>4
  <2>2. pinned' \in BOOLEAN /\ told' \in BOOLEAN
    BY <1>1 DEF IInv, ViewsTypeOK
  <2> QED
    BY <1>1, <1>2, <1>4, <2>1, <2>2, FinishIInv
<1>5. CASE /\ view[b] \cap Faults # {}
           /\ evidence' = IF run THEN view[b] ELSE evidence
           /\ outdone' = IF evidence = NoView \/ ~run THEN outdone
                         ELSE outdone \cup (evidence \ view[b])
           /\ audit' = [audit EXCEPT ![b] = "ask"]
           /\ UNCHANGED logVars
  <2>1. LogInv'
    BY <1>1, <1>5, LogStutter DEF IInv
  <2>2. view[b] \in (SUBSET Line) \cup {NoView}
    BY <1>1
  <2>3. ViewsTypeOK'
    <3>1. evidence' \in (SUBSET Line) \cup {NoView}
      BY <1>1, <1>5, <2>2
    <3>2. outdone' \subseteq Line
      BY <1>1, <1>5 DEF IInv, ViewsTypeOK
    <3> QED
      BY <1>1, <1>2, <1>5, <2>1, <3>1, <3>2 DEF IInv, LogInv, LogCore, LogTypes, ViewsTypeOK
  <2>4. DerivesAfterIngest'
    BY <1>1, <1>5 DEF IInv, DerivesAfterIngest, Returned, logVars
  <2>5. CacheFollowsTheLog'
    <3>1. \A c \in Batch : audit[c] = "none" => audit'[c] = "none"
      BY <1>1, <1>5
    <3>2. Undropped \subseteq Undropped'
      BY <1>5, <3>1 DEF Undropped, logVars
    <3> QED
      BY <1>1, <1>5, <3>2 DEF IInv, CacheFollowsTheLog, logVars
  <2>6. RunIsOpen'
    BY <1>1, <1>5 DEF IInv, AuditInv, RunIsOpen, logVars
  <2>7. TraceIsWhole'
    <3> SUFFICES ASSUME prunes = 0, NEW c \in Batch, audit'[c] = "store"
                 PROVE  view'[c] \in SUBSET Line /\ Lines[c] \subseteq view'[c]
      BY <1>1 DEF TraceIsWhole
    <3>1. c # b /\ audit[c] = "store"
      BY <1>1, <1>5
    <3> QED
      BY <1>2, <3>1 DEF IInv, AuditInv, TraceIsWhole
  <2>8. ASSUME prunes = 0, NEW c \in Batch, Covered(c) \/ c = b PROVE Covered(c)'
    <3>1. evidence' = view[b] /\ view[b] # NoView /\ Lines[b] \subseteq view[b]
      BY <1>3, <1>5, <2>8
    <3>2. CASE c = b
      BY <3>1, <3>2 DEF Covered
    <3>3. CASE Covered(c)
      <4>1. outdone' = outdone \cup (evidence \ view[b])
        BY <1>3, <1>5, <2>8, <3>3 DEF Covered
      <4> QED
        BY <3>1, <3>3, <4>1 DEF Covered
    <3> QED
      BY <2>8, <3>2, <3>3
  <2>9. EvidenceCovers'
    <3> SUFFICES ASSUME prunes = 0, NEW c \in Batch, audit'[c] \in {"ask", "pin"}
                 PROVE  Covered(c)'
      BY <1>1 DEF EvidenceCovers
    <3>1. c = b \/ audit[c] \in {"ask", "pin"}
      BY <1>1, <1>5
    <3> QED
      BY <2>8, <3>1 DEF IInv, AuditInv, EvidenceCovers
  <2>10. AnsweredClaimIsAudited'
    <3> SUFFICES ASSUME NEW c \in Claims \ Telemetry, answer'[c] = "202", prunes = 0,
                        Lines[c] \cap Faults # {}
                 PROVE  /\ evidence' # NoView /\ Lines[c] \subseteq evidence' \cup outdone'
                        /\ told' /\ (Lines[c] \cap Denials # {} => pinned')
      BY <1>1 DEF AnsweredClaimIsAudited
    <3>1. Covered(c) /\ told /\ (Lines[c] \cap Denials # {} => pinned) /\ c \in Batch
      BY <1>5, ViewAssumption DEF IInv, AuditInv, AnsweredClaimIsAudited, Covered, logVars
    <3>2. Covered(c)'
      BY <2>8, <3>1
    <3> QED
      BY <1>1, <3>1, <3>2 DEF Covered
  <2> QED
    BY <2>1, <2>3, <2>4, <2>5, <2>6, <2>7, <2>9, <2>10 DEF IInv, AuditInv
<1> QED
  BY <1>4, <1>5 DEF StoreEvidence

(* What follows from having the evidence: the run is told of, and pinned   *)
(* if it recorded a denial.                                                *)
LEMMA FollowIInv ==
  ASSUME IInv, NEW b \in Batch, AskDenial(b) \/ PinRun(b)
  PROVE  IInv'
<1>1. /\ audit[b] \in {"ask", "pin"}
      /\ UNCHANGED <<cache, reader, readerView, late, silent, view, evidence, outdone, prunes, met>>
      /\ audit \in [Batch -> {"none", "read", "store", "ask", "pin"}]
      /\ view \in [Batch -> (SUBSET Line) \cup {NoView}]
      /\ pinned \in BOOLEAN /\ told \in BOOLEAN
      /\ Returned(b)
  BY DEF AskDenial, PinRun, cacheVars, IInv, ViewsTypeOK, DerivesAfterIngest
<1>2. prunes = 0 => Covered(b) /\ Lines[b] \subseteq LineOf(rows)
  <2>1. prunes = 0 => Covered(b)
    BY <1>1 DEF IInv, AuditInv, EvidenceCovers
  <2>2. prunes = 0 => Whole(b)
    BY <1>1 DEF Returned, IInv, LogInv, LogCore, AcceptedIsWhole
  <2> QED
    BY <2>1, <2>2 DEF Whole
<1>3. CASE AskDenial(b) /\ LineOf(rows) \cap Denials = {}
  <2>1. told' = TRUE /\ Finish(b) /\ pinned' = pinned
    BY <1>3 DEF AskDenial
  <2>2. prunes = 0 => Lines[b] \cap Denials = {}
    BY <1>2, <1>3
  <2>3. audit[b] # "none" /\ pinned' \in BOOLEAN /\ told' \in BOOLEAN /\ (told => told')
        /\ (pinned => pinned') /\ view' \in [Batch -> (SUBSET Line) \cup {NoView}]
        /\ \A c \in Batch : c # b => view'[c] = view[c]
    BY <1>1, <2>1
  <2>4. prunes = 0 /\ Lines[b] \cap Faults # {} =>
          Covered(b) /\ told' /\ (Lines[b] \cap Denials # {} => pinned')
    BY <1>2, <2>1, <2>2
  <2> QED
    BY <1>1, <2>1, <2>3, <2>4, FinishIInv
<1>4. CASE PinRun(b)
  <2>1. told' = TRUE /\ Finish(b) /\ pinned' = TRUE
    BY <1>4 DEF PinRun
  <2>2. audit[b] # "none" /\ pinned' \in BOOLEAN /\ told' \in BOOLEAN /\ (told => told')
        /\ (pinned => pinned') /\ view' \in [Batch -> (SUBSET Line) \cup {NoView}]
        /\ \A c \in Batch : c # b => view'[c] = view[c]
    BY <1>1, <2>1
  <2>3. prunes = 0 /\ Lines[b] \cap Faults # {} =>
          Covered(b) /\ told' /\ (Lines[b] \cap Denials # {} => pinned')
    BY <1>2, <2>1
  <2> QED
    BY <1>1, <2>1, <2>2, <2>3, FinishIInv
<1>5. CASE AskDenial(b) /\ LineOf(rows) \cap Denials # {}
  <2>1. /\ audit' = [audit EXCEPT ![b] = "pin"] /\ audit[b] = "ask"
        /\ UNCHANGED <<logVars, told, pinned>>
    BY <1>5 DEF AskDenial
  <2>2. LogInv'
    BY <1>1, <2>1, LogStutter DEF IInv
  <2>3. ViewsTypeOK'
    BY <1>1, <2>1, <2>2 DEF IInv, LogInv, LogCore, LogTypes, ViewsTypeOK
  <2>4. DerivesAfterIngest'
    BY <1>1, <2>1 DEF IInv, DerivesAfterIngest, Returned, logVars
  <2>5. CacheFollowsTheLog'
    <3>1. \A c \in Batch : audit[c] = "none" => audit'[c] = "none"
      BY <1>1, <2>1
    <3>2. Undropped \subseteq Undropped'
      BY <2>1, <3>1 DEF Undropped, logVars
    <3> QED
      BY <1>1, <2>1, <3>2 DEF IInv, CacheFollowsTheLog, logVars
  <2>6. \A c \in Batch : /\ audit'[c] \in {"ask", "pin"} => audit[c] \in {"ask", "pin"}
                         /\ audit'[c] = "store" => audit[c] = "store"
    BY <1>1, <2>1
  <2>7. AuditInv'
    BY <1>1, <2>1, <2>6
    DEF IInv, AuditInv, RunIsOpen, TraceIsWhole, EvidenceCovers, Covered, AnsweredClaimIsAudited, logVars
  <2> QED
    BY <2>2, <2>3, <2>4, <2>5, <2>7 DEF IInv
<1> QED
  BY <1>3, <1>4, <1>5 DEF AskDenial

(* The reader of the subgraph: what it puts is the log, or it is late.     *)
LEMMA ReaderIInv ==
  ASSUME IInv, Miss \/ ReadLog \/ CachePut
  PROVE  IInv'
<1>1. UNCHANGED <<logVars, audit, view, evidence, pinned, told, outdone, prunes, met>>
  BY DEF Miss, ReadLog, CachePut, evidenceVars
<1>2. LogInv'
  BY <1>1, LogStutter DEF IInv
<1>3. LineOf(rows) \in SUBSET Line /\ LineOf(rows) # NoView
  BY ViewAssumption DEF IInv, ViewsTypeOK, LogTypeOK, LineOf
<1>4. ViewsTypeOK'
  <2>1. cache' \in (SUBSET Line) \cup {NoView} /\ reader' \in {"idle", "missed", "deriving"}
        /\ readerView' \in (SUBSET Line) \cup {NoView}
    BY <1>3 DEF IInv, ViewsTypeOK, Miss, ReadLog, CachePut
  <2>2. reader' = "deriving" <=> readerView' # NoView
    BY <1>3 DEF IInv, ViewsTypeOK, Miss, ReadLog, CachePut
  <2>3. late' \subseteq Line /\ silent' \subseteq Line
    <3>1. CASE Miss \/ ReadLog
      BY <3>1 DEF IInv, ViewsTypeOK, Miss, ReadLog
    <3>2. CASE CachePut
      <4>1. readerView \in SUBSET Line
        BY <3>2 DEF IInv, ViewsTypeOK, CachePut
      <4>2. late \subseteq Line /\ silent \subseteq Line
        BY DEF IInv, ViewsTypeOK
      <4> QED
        BY <1>3, <3>2, <4>1, <4>2 DEF CachePut, Difference
    <3> QED
      BY <3>1, <3>2
  <2> QED
    BY <1>1, <1>2, <2>1, <2>2, <2>3 DEF IInv, LogInv, LogCore, LogTypes, ViewsTypeOK
<1>5. DerivesAfterIngest'
  BY <1>1 DEF IInv, DerivesAfterIngest, Returned, logVars
<1>6. CacheFollowsTheLog'
  <2>1. CASE UNCHANGED <<cache, late, silent>>
    BY <1>1, <2>1 DEF IInv, CacheFollowsTheLog, Undropped, logVars
  <2>2. CASE CachePut /\ Anchor \in readerView
    BY <1>1, <2>2 DEF CacheFollowsTheLog, CachePut, logVars
  <2> QED
    BY <2>1, <2>2 DEF Miss, ReadLog, CachePut
<1>7. AuditInv'
  BY <1>1
  DEF IInv, AuditInv, RunIsOpen, TraceIsWhole, EvidenceCovers, Covered, AnsweredClaimIsAudited, logVars
<1> QED
  BY <1>2, <1>4, <1>5, <1>6, <1>7 DEF IInv

(* Retention deletes the run, and leaves the cache.                        *)
LEMMA PruneIInv ==
  ASSUME IInv, Prune
  PROVE  IInv'
<1> USE DEF Prune
<1>1. prunes \in Nat /\ prunes' # 0 /\ prunes' \in 0..MaxPrunes
  BY ViewAssumption DEF IInv, ViewsTypeOK
<1>2. LogInv'
  BY <1>1, PruneLog DEF IInv
<1>3. ViewsTypeOK'
  <2>1. silent' \subseteq Line
    BY DEF IInv, ViewsTypeOK, LogTypeOK, LineOf
  <2> QED
    BY <1>1, <1>2, <2>1 DEF IInv, LogInv, LogCore, LogTypes, ViewsTypeOK
<1>4. DerivesAfterIngest'
  BY DEF IInv, DerivesAfterIngest, Returned
<1>5. CacheFollowsTheLog'
  <2>1. LineOf(rows') = {} /\ Undropped' = Undropped
    BY DEF LineOf, Undropped
  <2>2. cache # NoView => Difference(cache, {}) \subseteq Difference(cache, LineOf(rows)) \cup LineOf(rows)
    BY DEF Difference
  <2> QED
    BY <2>1, <2>2 DEF IInv, CacheFollowsTheLog
<1>6. AuditInv'
  BY <1>1 DEF AuditInv, RunIsOpen, TraceIsWhole, EvidenceCovers, AnsweredClaimIsAudited
<1> QED
  BY <1>2, <1>3, <1>4, <1>5, <1>6 DEF IInv

(* The cache dies with the process.                                        *)
LEMMA CrashIInv ==
  ASSUME IInv, ViewsCrash
  PROVE  IInv'
<1> USE DEF ViewsCrash
<1>1. LogInv'
  BY LogCrashStep DEF IInv
<1>2. ViewsTypeOK'
  BY <1>1 DEF IInv, LogInv, LogCore, LogTypes, ViewsTypeOK
<1>3. DerivesAfterIngest' /\ CacheFollowsTheLog'
  BY DEF DerivesAfterIngest, CacheFollowsTheLog
<1>4. AuditInv'
  BY DEF Crash, IInv, AuditInv, RunIsOpen, TraceIsWhole, EvidenceCovers, AnsweredClaimIsAudited
<1> QED
  BY <1>1, <1>2, <1>3, <1>4 DEF IInv

(* Every step keeps the invariant.                                         *)
LEMMA NextIInv == IInv /\ [ViewsNext]_allVars => IInv'
<1> SUFFICES ASSUME IInv, [ViewsNext]_allVars PROVE IInv'
  OBVIOUS
<1>1. ASSUME NEW b \in Batch, IngestStep(b) PROVE IInv'
  BY <1>1, StoreIInv
<1>2. ASSUME NEW b \in Batch, Resume(b) PROVE IInv'
  BY <1>2, ResumeIInv
<1>3. ASSUME NEW b \in Batch, ReadTrace(b) PROVE IInv'
  BY <1>3, ReadTraceIInv
<1>4. ASSUME NEW b \in Batch, StoreEvidence(b) PROVE IInv'
  BY <1>4, StoreEvidenceIInv
<1>9. ASSUME NEW b \in Batch, AskDenial(b) \/ PinRun(b) PROVE IInv'
  BY <1>9, FollowIInv
<1>10. ASSUME NEW b \in Batch, ResumeTelemetry(b) PROVE IInv'
  BY <1>10, TelemetryIInv
<1>5. CASE Miss \/ ReadLog \/ CachePut
  BY <1>5, ReaderIInv
<1>6. CASE Prune
  BY <1>6, PruneIInv
<1>7. CASE ViewsCrash
  BY <1>7, CrashIInv
<1>8. CASE UNCHANGED allVars
  <2>1. LogInv'
    BY <1>8, LogStutter DEF IInv, allVars, viewVars
  <2> QED
    BY <1>8, <2>1 DEF allVars, viewVars, cacheVars, evidenceVars, logVars, IInv, LogInv, LogCore,
       LogTypes, ViewsTypeOK, DerivesAfterIngest, Returned, CacheFollowsTheLog, Undropped,
       AuditInv, RunIsOpen, TraceIsWhole, EvidenceCovers, Covered, AnsweredClaimIsAudited
<1> QED
  BY <1>1, <1>2, <1>3, <1>4, <1>5, <1>6, <1>7, <1>8, <1>9, <1>10 DEF ViewsNext, Ingest

(* The invariant holds throughout.                                         *)
THEOREM Invariance == ViewsSpec => []IInv
<1> QED
  BY InitIInv, NextIInv, PTL DEF ViewsSpec

(* A batch is stored under a run that has its row, or retention met it.    *)
RunIsThere == OnlyMetIsOrphaned /\ \A b \in Batch : Storing(b) => run \/ met

(* A handler at work: it opens the run before it stores anything, and only *)
(* an open transaction adds rows.                                          *)
LEMMA StoreRunIsThere ==
  ASSUME IInv, RunIsThere, NEW b \in Batch, Store(b), met' = met
  PROVE  RunIsThere'
<1>1. pc \in [Batch -> Stages] /\ met \in BOOLEAN
  BY DEF IInv, LogInv, LogCore, LogTypes, LogTypeOK, ViewsTypeOK
<1>2. CASE Open(b)
  BY <1>2 DEF Open, RunIsThere, OnlyMetIsOrphaned
<1>3. CASE Begin(b) \/ Measure(b) \/ Insert(b) \/ Commit(b)
  <2>1. Storing(b) /\ run' = run
    BY <1>3 DEF Begin, Measure, Insert, Commit, Storing
  <2>2. run \/ met
    BY <2>1 DEF RunIsThere
  <2> QED
    BY <2>1, <2>2 DEF RunIsThere, OnlyMetIsOrphaned
<1> QED
  BY <1>2, <1>3 DEF Store

(* Every step keeps it: retention says whom it met, a crash ends them all. *)
LEMMA NextRunIsThere == IInv /\ RunIsThere /\ [ViewsNext]_allVars => RunIsThere'
<1> SUFFICES ASSUME IInv, RunIsThere, [ViewsNext]_allVars PROVE RunIsThere'
  OBVIOUS
<1> USE DEF RunIsThere, OnlyMetIsOrphaned, Storing
<1>1. pc \in [Batch -> Stages] /\ met \in BOOLEAN
  BY DEF IInv, LogInv, LogCore, LogTypes, LogTypeOK, ViewsTypeOK
<1>2. ASSUME NEW b \in Batch, IngestStep(b) PROVE RunIsThere'
  BY <1>2, StoreRunIsThere DEF IngestStep
<1>3. ASSUME UNCHANGED <<logVars, met>> PROVE RunIsThere'
  BY <1>3 DEF logVars
<1>4. ASSUME NEW b \in Batch, Answer202(b), met' = met PROVE RunIsThere'
  <2>1. rows' = rows /\ run' = run /\ pc' \in {[pc EXCEPT ![b] = "idle"], [pc EXCEPT ![b] = "begun"]}
        /\ (pc[b] = "committed" => pc' = [pc EXCEPT ![b] = "idle"])
        /\ (pc[b] # "committed" => pc[b] = "opened")
    BY <1>4 DEF Answer202, Respond, Begin, End, Goto
  <2> QED
    BY <1>1, <1>4, <2>1
<1>5. ASSUME NEW b \in Batch, Resume(b) \/ ResumeTelemetry(b) PROVE RunIsThere'
  BY <1>3, <1>4, <1>5 DEF Resume, DeriveOrAnswer, ResumeTelemetry, viewVars
<1>6. ASSUME NEW b \in Batch, ReadTrace(b) PROVE RunIsThere'
  BY <1>3, <1>6 DEF ReadTrace
<1>7. ASSUME NEW b \in Batch, StoreEvidence(b) \/ AskDenial(b) \/ PinRun(b) PROVE RunIsThere'
  BY <1>3, <1>4, <1>7 DEF StoreEvidence, AskDenial, PinRun, Finish
<1>8. CASE Miss \/ ReadLog \/ CachePut
  BY <1>3, <1>8 DEF Miss, ReadLog, CachePut
<1>9. CASE Prune
  BY <1>9 DEF Prune
<1>10. CASE ViewsCrash
  BY <1>10 DEF ViewsCrash, Crash
<1>11. CASE UNCHANGED allVars
  BY <1>3, <1>11 DEF allVars, viewVars
<1> QED
  BY <1>2, <1>5, <1>6, <1>7, <1>8, <1>9, <1>10, <1>11 DEF ViewsNext, Ingest

(* However batches overlap, race, crash or are repeated, and under either  *)
(* database, a line is stored once, what was answered 202 is stored whole  *)
(* until retention deletes the run, and retention leaves events without    *)
(* their run only where it met an ingest.                                  *)
THEOREM AnsweredKept == ViewsSpec => []AnsweredIsKept
<1>1. ViewsInit => RunIsThere
  BY DEF ViewsInit, LogInit, RunIsThere, OnlyMetIsOrphaned, Storing
<1>2. IInv /\ RunIsThere => AnsweredIsKept
  BY DEF IInv, LogInv, LogCore, AcceptedIsWhole, Whole, AnsweredIsKept, AnsweredIsStored, RunIsThere
<1> QED
  BY <1>1, <1>2, NextRunIsThere, Invariance, PTL DEF ViewsSpec

(* A cached subgraph is that of the log, but for the lines of an ingest    *)
(* that has yet to drop it, those a derivation that overlapped a write had *)
(* wrong when it was cached, and those that telemetry stored or retention  *)
(* deleted since.                                                          *)
THEOREM CacheFollows == ViewsSpec => []CacheFollowsTheLog
<1>1. IInv => CacheFollowsTheLog
  BY DEF IInv
<1> QED
  BY <1>1, Invariance, PTL

(* A claim answered 202 was compared with everything stored before it,     *)
(* also when a replay had to finish what a dead handler began; what the    *)
(* evidence lacks of it, a late derivation of fewer lines has taken out.   *)
THEOREM ClaimsAudited == ViewsSpec => []AnsweredClaimIsAudited
<1>1. IInv => AnsweredClaimIsAudited
  BY DEF IInv, AuditInv
<1> QED
  BY <1>1, Invariance, PTL

-----------------------------------------------------------------------------
(* The live stream of the same log.                                        *)

(* Two sequences of naturals or markers one after the other.               *)
LEMMA ConcatFacts ==
  ASSUME NEW S, NEW p \in Seq(S), NEW q \in Seq(S)
  PROVE  /\ Len(p) \in Nat /\ Len(q) \in Nat
         /\ p \o q \in Seq(S) /\ Len(p \o q) = Len(p) + Len(q)
         /\ \A k \in 1..Len(p) : (p \o q)[k] = p[k]
         /\ \A k \in 1..Len(q) : (p \o q)[Len(p) + k] = q[k]
  OBVIOUS

(* A window of a sequence that drops its first element.                    *)
LEMMA WindowFacts ==
  ASSUME NEW S, NEW c \in Seq(S), NEW m \in S, NEW n \in Nat \ {0}, n <= Len(c)
  PROVE  /\ SubSeq(c, 2, n) \in Seq(S) /\ Len(SubSeq(c, 2, n)) = n - 1
         /\ \A k \in 1..(n - 1) : SubSeq(c, 2, n)[k] = c[k + 1]
         /\ Append(SubSeq(c, 2, n), m) \in Seq(S) /\ Len(Append(SubSeq(c, 2, n), m)) = n
         /\ Append(SubSeq(c, 2, n), m)[n] = m
         /\ \A k \in 1..(n - 1) : Append(SubSeq(c, 2, n), m)[k] = c[k + 1]
<1>1. Len(c) \in Nat /\ n \in 1..Len(c)
  OBVIOUS
<1>2. SubSeq(c, 2, n) \in Seq(S) /\ Len(SubSeq(c, 2, n)) = n - 1
      /\ \A k \in 1..(n - 1) : SubSeq(c, 2, n)[k] = c[k + 1]
  BY <1>1
<1> DEFINE w == SubSeq(c, 2, n)
<1>3. w \in Seq(S) /\ Len(w) = n - 1 /\ \A k \in 1..(n - 1) : w[k] = c[k + 1]
  BY <1>2
<1> HIDE DEF w
<1>4. /\ Append(w, m) \in Seq(S) /\ Len(Append(w, m)) = n /\ Append(w, m)[n] = m
      /\ \A k \in 1..(n - 1) : Append(w, m)[k] = w[k]
  BY <1>3
<1>5. \A k \in 1..(n - 1) : Append(w, m)[k] = c[k + 1]
  BY <1>3, <1>4
<1> QED
  BY <1>2, <1>4, <1>5 DEF w

(* The three outcomes, each written out.                                   *)
LEMMA PutAllForms ==
  ASSUME NEW M, NEW s \in Subscriber(M), NEW ms \in Seq(M)
  PROVE  /\ ~s.listening => PutAll(s, ms) = s
         /\ s.listening /\ Len(s.queue) + Len(ms) <= QueueCap =>
              PutAll(s, ms) = [queue |-> s.queue \o ms, listening |-> TRUE]
         /\ s.listening /\ Len(s.queue) + Len(ms) > QueueCap =>
              PutAll(s, ms) = [queue |-> Append(SubSeq(s.queue \o ms, 2, QueueCap), Overflow),
                               listening |-> FALSE]
<1>1. Len(s.queue) \in Nat /\ Len(ms) \in Nat /\ QueueCap \in Nat
  BY QueueAssumption DEF Subscriber
<1>2. Len(s.queue) + Len(ms) > QueueCap => ~(Len(s.queue) + Len(ms) <= QueueCap)
  BY <1>1
<1> QED
  BY ONLY <1>2 DEF PutAll

(* The messages behind the queue.                                          *)
LEMMA BehindQueue ==
  ASSUME NEW M, NEW s \in Subscriber(M), NEW ms \in Seq(M)
  PROVE  /\ s.queue \o ms \in Seq(M \cup {Overflow})
         /\ Len(s.queue) \in Nat /\ Len(ms) \in Nat
         /\ Len(s.queue \o ms) = Len(s.queue) + Len(ms)
         /\ \A k \in 1..Len(s.queue) : (s.queue \o ms)[k] = s.queue[k]
         /\ \A k \in 1..Len(ms) : (s.queue \o ms)[Len(s.queue) + k] = ms[k]
<1> DEFINE T == M \cup {Overflow}
<1>1. s.queue \in Seq(T) /\ ms \in Seq(T)
  <2>1. ms \in Seq(T)
    OBVIOUS
  <2> QED
    BY <2>1 DEF Subscriber
<1> HIDE DEF T
<1>2. /\ s.queue \o ms \in Seq(T)
      /\ Len(s.queue) \in Nat /\ Len(ms) \in Nat
      /\ Len(s.queue \o ms) = Len(s.queue) + Len(ms)
      /\ \A k \in 1..Len(s.queue) : (s.queue \o ms)[k] = s.queue[k]
      /\ \A k \in 1..Len(ms) : (s.queue \o ms)[Len(s.queue) + k] = ms[k]
  BY <1>1, ConcatFacts
<1> QED
  BY <1>2 DEF T

(* All of them fit.                                                        *)
LEMMA PutAllFits ==
  ASSUME NEW M, NEW s \in Subscriber(M), NEW ms \in Seq(M), s.listening,
         Len(s.queue) + Len(ms) <= QueueCap
  PROVE  /\ PutAll(s, ms) = [queue |-> s.queue \o ms, listening |-> TRUE]
         /\ PutAll(s, ms) \in Subscriber(M) /\ Len(PutAll(s, ms).queue) <= QueueCap
<1> DEFINE c == s.queue \o ms
           T == M \cup {Overflow}
<1>1. PutAll(s, ms) = [queue |-> c, listening |-> TRUE]
  BY DEF PutAll
<1>2. c \in Seq(T) /\ Len(c) <= QueueCap
  BY BehindQueue
<1> HIDE DEF c, T
<1>3. [queue |-> c, listening |-> TRUE] \in [queue: Seq(T), listening: BOOLEAN]
  BY <1>2
<1> QED
  BY <1>1, <1>2, <1>3 DEF Subscriber, T, c

(* One does not: the queue moves up by one and closes with the marker.     *)
LEMMA PutAllOverflows ==
  ASSUME NEW M, NEW s \in Subscriber(M), NEW ms \in Seq(M), s.listening,
         ~(Len(s.queue) + Len(ms) <= QueueCap)
  PROVE  /\ PutAll(s, ms) \in Subscriber(M)
         /\ ~PutAll(s, ms).listening /\ Len(PutAll(s, ms).queue) = QueueCap
         /\ PutAll(s, ms).queue[QueueCap] = Overflow
         /\ \A k \in 1..(QueueCap - 1) : PutAll(s, ms).queue[k] = (s.queue \o ms)[k + 1]
         /\ QueueCap <= Len(s.queue \o ms) /\ s.queue \o ms # <<>>
<1> DEFINE c == s.queue \o ms
           q == Append(SubSeq(c, 2, QueueCap), Overflow)
           T == M \cup {Overflow}
<1>1. PutAll(s, ms) = [queue |-> q, listening |-> FALSE]
  BY DEF PutAll
<1>2. c \in Seq(T) /\ Len(c) = Len(s.queue) + Len(ms) /\ Overflow \in T
      /\ Len(s.queue) \in Nat /\ Len(ms) \in Nat
  BY BehindQueue
<1>3. QueueCap \in Nat \ {0} /\ QueueCap <= Len(c)
  <2> HIDE DEF c
  <2> QED
    BY <1>2, QueueAssumption
<1> HIDE DEF c, T
<1>4. c # <<>>
  BY <1>2, <1>3
<1>5. /\ q \in Seq(T) /\ Len(q) = QueueCap /\ q[QueueCap] = Overflow
      /\ \A k \in 1..(QueueCap - 1) : q[k] = c[k + 1]
  BY <1>2, <1>3, WindowFacts
<1> HIDE DEF q
<1>6. [queue |-> q, listening |-> FALSE] \in [queue: Seq(T), listening: BOOLEAN]
  BY <1>5
<1>7. ~PutAll(s, ms).listening /\ PutAll(s, ms).queue = q
  BY <1>1
<1> QED
  BY <1>1, <1>3, <1>4, <1>5, <1>6, <1>7 DEF Subscriber, T, c

(* PutAll is Put, one message after the other: nothing for no message, and *)
(* one Put more for one message more.                                      *)
LEMMA PutAllIsPut ==
  ASSUME NEW M, NEW s \in Subscriber(M), Len(s.queue) <= QueueCap,
         NEW ms \in Seq(M), NEW m \in M
  PROVE  /\ PutAll(s, <<>>) = s
         /\ PutAll(s, Append(ms, m)) = Put(PutAll(s, ms), m)
<1> DEFINE T == M \cup {Overflow}
           c == s.queue \o ms
<1>1. /\ s.queue \in Seq(T) /\ s.listening \in BOOLEAN /\ ms \in Seq(T) /\ m \in T
      /\ QueueCap \in Nat \ {0}
      /\ s = [queue |-> s.queue, listening |-> s.listening]
  <2>1. ms \in Seq(T)
    OBVIOUS
  <2> QED
    BY <2>1, QueueAssumption DEF Subscriber
<1> HIDE DEF T
<1>2. /\ c \in Seq(T) /\ Len(c) = Len(s.queue) + Len(ms)
      /\ Len(s.queue) \in Nat /\ Len(ms) \in Nat
  BY <1>1, ConcatFacts
<1>3. s.queue \o Append(ms, m) = Append(c, m) /\ Len(Append(ms, m)) = Len(ms) + 1
      /\ s.queue \o <<>> = s.queue
  BY <1>1
<1> HIDE DEF c
<1>9. <<>> \in Seq(M) /\ Append(ms, m) \in Seq(M) /\ Len(<<>>) = 0
  OBVIOUS
<1> DEFINE n == Len(s.queue) + Len(ms)
<1>10. /\ s.listening /\ n <= QueueCap => PutAll(s, ms) = [queue |-> c, listening |-> TRUE]
       /\ s.listening /\ n > QueueCap =>
            PutAll(s, ms) = [queue |-> Append(SubSeq(c, 2, QueueCap), Overflow),
                             listening |-> FALSE]
  BY ONLY ZenonT(60), PutAllForms, s \in Subscriber(M), ms \in Seq(M) DEF c
<1>11. /\ s.listening /\ n + 1 <= QueueCap =>
            PutAll(s, Append(ms, m)) = [queue |-> Append(c, m), listening |-> TRUE]
       /\ s.listening /\ n + 1 > QueueCap =>
            PutAll(s, Append(ms, m))
              = [queue |-> Append(SubSeq(Append(c, m), 2, QueueCap), Overflow), listening |-> FALSE]
  <2> DEFINE a == Append(ms, m)
  <2>1. a \in Seq(M) /\ s.queue \o a = Append(c, m) /\ Len(a) = Len(ms) + 1
    BY <1>3, <1>9
  <2> HIDE DEF a
  <2>2. Len(s.queue) + Len(a) = n + 1
    <3>1. Len(a) = Len(ms) + 1 /\ Len(s.queue) \in Nat /\ Len(ms) \in Nat
      BY <1>2, <2>1
    <3>2. \A x, y \in Nat : \A z : z = y + 1 => x + z = (x + y) + 1
      BY ONLY TRUE
    <3> QED
      BY ONLY <3>1, <3>2, Zenon
  <2> HIDE DEF n
  <2>3. /\ s.listening /\ n + 1 <= QueueCap =>
             PutAll(s, a) = [queue |-> s.queue \o a, listening |-> TRUE]
        /\ s.listening /\ n + 1 > QueueCap =>
             PutAll(s, a) = [queue |-> Append(SubSeq(s.queue \o a, 2, QueueCap), Overflow),
                             listening |-> FALSE]
    BY ONLY PutAllForms, s \in Subscriber(M), <2>1, <2>2
  <2>4. /\ s.listening /\ n + 1 <= QueueCap =>
             PutAll(s, a) = [queue |-> Append(c, m), listening |-> TRUE]
        /\ s.listening /\ n + 1 > QueueCap =>
             PutAll(s, a)
               = [queue |-> Append(SubSeq(Append(c, m), 2, QueueCap), Overflow), listening |-> FALSE]
    BY ONLY <2>1, <2>3
  <2> QED
    BY <2>4 DEF a
<1>4. PutAll(s, <<>>) = s
  <2>1. Len(s.queue) + Len(<<>>) <= QueueCap
    BY <1>2, <1>9
  <2>2. /\ ~s.listening => PutAll(s, <<>>) = s
        /\ s.listening => PutAll(s, <<>>) = [queue |-> s.queue \o <<>>, listening |-> TRUE]
    <3> DEFINE none == <<>>
    <3>1. none \in Seq(M)
      OBVIOUS
    <3>2. Len(s.queue) + Len(none) <= QueueCap
      BY <2>1
    <3> HIDE DEF none
    <3>3. /\ ~s.listening => PutAll(s, none) = s
          /\ s.listening => PutAll(s, none) = [queue |-> s.queue \o none, listening |-> TRUE]
      BY ONLY <3>1, <3>2, PutAllForms, s \in Subscriber(M)
    <3> QED
      BY <3>3 DEF none
  <2>3. CASE s.listening
    <3>1. s.listening = TRUE
      BY <1>1, <2>3
    <3>2. s = [queue |-> s.queue, listening |-> TRUE]
      BY ONLY <1>1, <3>1, Zenon
    <3> QED
      BY ONLY <1>3, <2>2, <2>3, <3>2, Zenon
  <2> QED
    BY <2>2, <2>3
<1>12. n \in Nat /\ QueueCap \in Nat \ {0}
  BY <1>1, <1>2
<1>13. Len(c) = n
  BY <1>2
<1> HIDE DEF n
<1>5. CASE ~s.listening
  BY <1>4, <1>5 DEF PutAll, Put
<1>6. CASE s.listening /\ n < QueueCap
  <2>1. n <= QueueCap /\ n + 1 <= QueueCap
    BY <1>6, <1>12
  <2>2. Put([queue |-> c, listening |-> TRUE], m) = [queue |-> Append(c, m), listening |-> TRUE]
    BY <1>13, <1>6 DEF Put
  <2> QED
    BY <1>4, <1>6, <1>10, <1>11, <2>1, <2>2
<1>7. CASE s.listening /\ n = QueueCap
  <2>1. n <= QueueCap /\ n + 1 > QueueCap
    BY <1>7, <1>12
  <2>2. SubSeq(Append(c, m), 2, QueueCap) = Tail(c)
    BY <1>1, <1>2, <1>7, <1>12, <1>13
  <2>3. Put([queue |-> c, listening |-> TRUE], m)
          = [queue |-> Append(Tail(c), Overflow), listening |-> FALSE]
    BY <1>13, <1>12, <1>7 DEF Put
  <2> QED
    BY <1>4, <1>7, <1>10, <1>11, <2>1, <2>2, <2>3
<1>8. CASE s.listening /\ n > QueueCap
  <2>1. n > QueueCap /\ n + 1 > QueueCap
    BY <1>8, <1>12
  <2>2. SubSeq(Append(c, m), 2, QueueCap) = SubSeq(c, 2, QueueCap)
    BY <1>1, <1>2, <1>8, <1>12, <1>13
  <2>3. \A q : Put([queue |-> q, listening |-> FALSE], m) = [queue |-> q, listening |-> FALSE]
    BY DEF Put
  <2> QED
    BY <1>4, <1>8, <1>10, <1>11, <2>1, <2>2, <2>3
<1> QED
  BY <1>1, <1>12, <1>5, <1>6, <1>7, <1>8

-----------------------------------------------------------------------------
(* Every id the log has or may come to have, what the client has or will   *)
(* never get, and what a replay will still bring.                          *)
Held == IdOf(rows) \cup Unpublished
Settled == ToSet(received) \cup overtaken \cup evicted
Pending == IF link = "subscribed" THEN {i \in IdOf(rows) : i > delivered} ELSE ToSet(backlog)

OwnIsOpen ==
  \A b \in Batch : /\ pc[b] \notin {"inserted", "committed"} => own[b] = {}
                   /\ pc[b] = "committed" => own[b] \subseteq rows

(* The cursor is the id received last.                                     *)
CursorIsLast ==
  /\ link = "subscribed" => backlog = <<>>
  /\ ToSet(received) \subseteq IdOf(rows)
  /\ delivered = LastEventId

(* Nothing the cursor has passed is still to come.                         *)
PassedIsSettled == \A i \in Held : i <= delivered => i \in Settled

(* A queued message names a row, and what is below it is settled, before   *)
(* it in the queue, or in the replay.                                      *)
QueueIsComplete ==
  \A k \in DOMAIN sub.queue : sub.queue[k] # Overflow =>
    /\ sub.queue[k] \in IdOf(rows)
    /\ \A i \in Held : i < sub.queue[k] =>
         i \in Settled \cup Pending \/ \E j \in 1..(k - 1) : sub.queue[j] = i

BacklogIsComplete ==
  \A k \in DOMAIN backlog :
    /\ backlog[k] \in IdOf(rows)
    /\ backlog[k] > delivered
    /\ \A j \in 1..(k - 1) : backlog[j] < backlog[k]
    /\ \A i \in Held : i < backlog[k] =>
         i \in Settled \/ \E j \in 1..(k - 1) : backlog[j] = i

(* What has been published is settled or on its way to a stream that       *)
(* listens.                                                                *)
PublishedIsComing ==
  sub.listening =>
    /\ \A k \in DOMAIN sub.queue : sub.queue[k] # Overflow
    /\ \A i \in IdOf(rows) \ Unpublished : i \in Settled \cup ToSet(sub.queue) \cup Pending

StreamParts ==
  /\ CursorIsLast
  /\ PassedIsSettled
  /\ QueueIsComplete
  /\ BacklogIsComplete
  /\ PublishedIsComing

FollowInv ==
  /\ LogCore
  /\ ReceivedInOrder
  /\ OwnIsOpen
  /\ StreamParts

-----------------------------------------------------------------------------
(* Ids are numbers below the sequence.                                     *)
LEMMA IdFacts ==
  ASSUME LogCore
  PROVE  /\ nextId \in Nat \ {0}
         /\ IdOf(rows) \subseteq 1..(nextId - 1)
         /\ \A b \in Batch : IdOf(own[b]) \subseteq 1..(nextId - 1)
         /\ Held \subseteq 1..(nextId - 1)
         /\ \A i \in Held : i \in Nat /\ i # 0 /\ i < nextId /\ i # Overflow
<1>1. nextId \in Nat \ {0} /\ rows \subseteq Event(nextId) /\ \A b \in Batch : own[b] \subseteq Event(nextId)
  BY DEF LogCore, LogTypes, LogTypeOK, Event
<1>2. ASSUME NEW R \in SUBSET Event(nextId) PROVE IdOf(R) \subseteq 1..(nextId - 1)
  BY <1>2 DEF IdOf, Event
<1>3. /\ IdOf(rows) \subseteq 1..(nextId - 1)
      /\ \A b \in Batch : IdOf(own[b]) \subseteq 1..(nextId - 1)
  BY <1>1, <1>2
<1>4. Held \subseteq 1..(nextId - 1)
  BY <1>3 DEF Held, Unpublished
<1>5. \A i \in 1..(nextId - 1) : i \in Nat /\ i # 0 /\ i < nextId /\ i # Overflow
  BY <1>1, StreamAssumption
<1> QED
  BY <1>1, <1>3, <1>4, <1>5

(* Who holds an id that is not published.                                  *)
LEMMA UnpublishedFacts ==
  /\ \A i : i \in Unpublished <=> \E b \in Batch : i \in IdOf(own[b])
  /\ \A i : i \in Unpublished' <=> \E b \in Batch : i \in IdOf(own'[b])
BY DEF Unpublished, IdOf

(* What a step that leaves the rows of everybody leaves.                   *)
LEMMA SameIds ==
  ASSUME rows' = rows, \A b \in Batch : own'[b] = own[b]
  PROVE  IdOf(rows)' = IdOf(rows) /\ Unpublished' = Unpublished /\ Held' = Held
<1>1. IdOf(rows)' = IdOf(rows)
  BY DEF IdOf
<1>2. Unpublished' = Unpublished
  BY DEF Unpublished, IdOf
<1> QED
  BY <1>1, <1>2 DEF Held

(* A handler that has inserted nothing ends with nothing.                  *)
LEMMA EndsEmpty ==
  ASSUME LogCore, OwnIsOpen, NEW b \in Batch, NEW status, End(b, status),
         pc[b] \notin {"inserted", "committed"}, rows' = rows
  PROVE  /\ \A c \in Batch : own'[c] = own[c]
         /\ OwnIsOpen'
<1>1. own[b] = {} /\ own \in [Batch -> SUBSET Event(nextId)] /\ pc \in [Batch -> Stages]
  BY DEF OwnIsOpen, LogCore, LogTypes, LogTypeOK
<1>2. own' = [own EXCEPT ![b] = {}] /\ pc' = [pc EXCEPT ![b] = "idle"]
  BY DEF End, Goto
<1>3. \A c \in Batch : own'[c] = own[c]
  BY <1>1, <1>2
<1>4. OwnIsOpen'
  BY <1>1, <1>2, <1>3 DEF OwnIsOpen
<1> QED
  BY <1>3, <1>4

(* What a transaction does to the ids: new ones are above all there are,   *)
(* and a committed one is not published.                                   *)
LEMMA StoreIds ==
  ASSUME LogCore, OwnIsOpen, NEW b \in Batch, Store(b)
  PROVE  /\ OwnIsOpen'
         /\ nextId' \in Nat /\ nextId <= nextId'
         /\ IdOf(rows) \subseteq IdOf(rows)'
         /\ \A i \in Held' : i \in Held \/ (i \in Nat /\ i >= nextId)
         /\ IdOf(rows)' \ Unpublished' \subseteq IdOf(rows) \ Unpublished
<1>1. nextId \in Nat /\ pc \in [Batch -> Stages] /\ own \in [Batch -> SUBSET Event(nextId)]
  BY DEF LogCore, LogTypes, LogTypeOK
<1>2. ASSUME rows' = rows, \A c \in Batch : own'[c] = own[c], OwnIsOpen',
             nextId' \in Nat, nextId <= nextId'
      PROVE  /\ OwnIsOpen'
             /\ nextId' \in Nat /\ nextId <= nextId'
             /\ IdOf(rows) \subseteq IdOf(rows)'
             /\ \A i \in Held' : i \in Held \/ (i \in Nat /\ i >= nextId)
             /\ IdOf(rows)' \ Unpublished' \subseteq IdOf(rows) \ Unpublished
  BY <1>2, SameIds
<1>3. CASE Open(b)
  <2>1. OwnIsOpen'
    BY <1>1, <1>3 DEF Open, Goto, OwnIsOpen
  <2> QED
    BY <1>1, <1>2, <1>3, <2>1 DEF Open
<1>4. CASE Begin(b)
  <2>1. CASE End(b, "202")
    BY <1>1, <1>2, <1>4, <2>1, EndsEmpty DEF Begin
  <2>2. CASE Goto(b, "begun") /\ UNCHANGED <<answer, own>>
    <3>1. OwnIsOpen'
      BY <1>1, <1>4, <2>2 DEF Begin, Goto, OwnIsOpen
    <3> QED
      BY <1>1, <1>2, <1>4, <2>2, <3>1 DEF Begin
  <2> QED
    BY <1>4, <2>1, <2>2 DEF Begin
<1>5. CASE Measure(b)
  <2>1. ASSUME NEW status, End(b, status) PROVE OwnIsOpen' /\ \A c \in Batch : own'[c] = own[c]
    BY <1>5, <2>1, EndsEmpty DEF Measure
  <2>2. CASE Goto(b, "measured") /\ UNCHANGED <<answer, own>>
    <3>1. OwnIsOpen'
      BY <1>1, <1>5, <2>2 DEF Measure, Goto, OwnIsOpen
    <3> QED
      BY <1>1, <1>2, <1>5, <2>2, <3>1 DEF Measure
  <2>3. rows' = rows /\ nextId' = nextId
    BY <1>5 DEF Measure
  <2> QED
    BY <1>1, <1>2, <1>5, <2>1, <2>2, <2>3 DEF Measure
<1>6. CASE Insert(b)
  <2>1. rows' = rows /\ pc[b] = "measured" /\ nextId' = nextId + Cardinality(fresh[b])
    BY <1>6 DEF Insert
  <2>2. Cardinality(fresh[b]) \in Nat /\ fresh[b] \subseteq Lines[b]
    <3>1. fresh[b] \subseteq Lines[b] /\ IsFiniteSet(Lines[b])
      BY LogAssumption DEF LogCore, InsertsWhatIsMissing
    <3> QED
      BY <3>1, FS_Subset, FS_CardinalityType
  <2>3. nextId' \in Nat /\ nextId <= nextId'
    BY <1>1, <2>1, <2>2
  <2>4. CASE End(b, "500")
    BY <1>2, <2>1, <2>3, <2>4, EndsEmpty
  <2>5. CASE Insertion(b)
    <3>1. PICK R \in Numbered(b) : own' = [own EXCEPT ![b] = R]
      BY <2>5 DEF Insertion
    <3>2. \A e \in R : e.id \in Nat /\ e.id >= nextId
      <4>1. /\ R \subseteq Event(nextId + Cardinality(fresh[b]))
            /\ \A e \in R : e.id >= nextId
        BY <2>2, NumberedFacts DEF LogCore
      <4> QED
        BY <1>1, <2>2, <4>1 DEF Event
    <3>3. own[b] = {}
      BY <2>1 DEF OwnIsOpen
    <3>4. own'[b] = R /\ \A c \in Batch \ {b} : own'[c] = own[c]
      BY <1>1, <3>1
    <3>5. OwnIsOpen'
      BY <1>1, <2>1, <2>5, <3>4 DEF OwnIsOpen, Insertion, Goto
    <3>6. IdOf(rows)' = IdOf(rows)
      BY <2>1 DEF IdOf
    <3>7. ASSUME NEW i \in Unpublished' PROVE i \in Unpublished \/ (i \in Nat /\ i >= nextId)
      <4>1. PICK c \in Batch : i \in IdOf(own'[c])
        BY UnpublishedFacts
      <4>2. CASE c = b
        BY <3>2, <3>4, <4>1, <4>2 DEF IdOf
      <4>3. CASE c # b
        BY <3>4, <4>1, <4>3, UnpublishedFacts
      <4> QED
        BY <4>2, <4>3
    <3>8. Unpublished \subseteq Unpublished'
      <4> SUFFICES ASSUME NEW i \in Unpublished PROVE i \in Unpublished'
        OBVIOUS
      <4>1. PICK c \in Batch : i \in IdOf(own[c])
        BY UnpublishedFacts
      <4>2. c # b
        BY <3>3, <4>1 DEF IdOf
      <4> QED
        BY <3>4, <4>1, <4>2, UnpublishedFacts
    <3> QED
      BY <2>3, <3>5, <3>6, <3>7, <3>8 DEF Held
  <2> QED
    BY <1>6, <2>4, <2>5 DEF Insert
<1>7. CASE Commit(b)
  <2>1. rows' = rows \cup own[b] /\ nextId' = nextId /\ own' = own /\ pc' = [pc EXCEPT ![b] = "committed"]
    BY <1>7 DEF Commit, Goto
  <2>2. OwnIsOpen'
    <3> SUFFICES ASSUME NEW c \in Batch
                 PROVE  /\ pc'[c] \notin {"inserted", "committed"} => own[c] = {}
                        /\ pc'[c] = "committed" => own[c] \subseteq rows'
      BY <2>1 DEF OwnIsOpen
    <3>1. CASE c = b
      <4>1. pc'[c] = "committed" /\ own[c] \subseteq rows'
        BY <1>1, <2>1, <3>1
      <4> QED
        BY ONLY <4>1
    <3>2. CASE c # b
      <4>1. pc'[c] = pc[c]
        BY <1>1, <2>1, <3>2
      <4> QED
        BY <2>1, <4>1 DEF OwnIsOpen
    <3> QED
      BY <3>1, <3>2
  <2>3. IdOf(rows)' = IdOf(rows) \cup IdOf(own[b])
    BY <2>1 DEF IdOf
  <2>4. Unpublished' = Unpublished /\ IdOf(own[b]) \subseteq Unpublished
    BY <2>1 DEF Unpublished
  <2>5. nextId' \in Nat /\ nextId <= nextId'
    BY <1>1, <2>1
  <2>6. Held' = Held
    BY <2>3, <2>4 DEF Held
  <2>7. IdOf(rows)' \ Unpublished' \subseteq IdOf(rows) \ Unpublished
    BY <2>3, <2>4
  <2> QED
    BY <2>2, <2>3, <2>5, <2>6, <2>7
<1> QED
  BY <1>3, <1>4, <1>5, <1>6, <1>7 DEF Store

(* What the types say of the stream.                                       *)
LEMMA StreamTypes ==
  ASSUME LogCore, ReceivedInOrder, CursorIsLast
  PROVE  /\ delivered \in Nat
         /\ \A i \in ToSet(received) : i \in Nat
         /\ delivered < nextId
         /\ sub \in Subscriber(Nat) /\ Len(sub.queue) \in Nat /\ DOMAIN sub.queue = 1..Len(sub.queue)
         /\ backlog \in Seq(Nat) /\ Len(backlog) \in Nat /\ DOMAIN backlog = 1..Len(backlog)
         /\ \A k \in DOMAIN backlog : backlog[k] \in Nat
<1>1. /\ delivered \in Nat /\ received \in Seq(Nat) /\ sub \in Subscriber(Nat) /\ backlog \in Seq(Nat)
      /\ delivered = LastEventId
  BY DEF ReceivedInOrder, AuditTypeOK, CursorIsLast
<1>2. delivered < nextId
  <2>1. CASE received = <<>>
    BY <1>1, <2>1, IdFacts DEF LastEventId
  <2>2. CASE received # <<>>
    <3>1. delivered = received[Len(received)] /\ Len(received) \in DOMAIN received
      BY <1>1, <2>2 DEF LastEventId, Last
    <3>2. delivered \in IdOf(rows)
      BY <3>1 DEF CursorIsLast, ToSet
    <3> QED
      BY <3>2, IdFacts DEF Held
  <2> QED
    BY <2>1, <2>2
<1>3. \A i \in ToSet(received) : i \in Nat
  BY <1>1 DEF ToSet
<1>4. sub.queue \in Seq(Nat \cup {Overflow})
  BY <1>1 DEF Subscriber
<1>5. Len(sub.queue) \in Nat /\ DOMAIN sub.queue = 1..Len(sub.queue)
  BY <1>4
<1> QED
  BY <1>1, <1>2, <1>3, <1>5

(* The parts survive when the stream stands still and the log moves on:    *)
(* what is new is above everything the stream has seen.                    *)
LEMMA PartsKept ==
  ASSUME LogCore, ReceivedInOrder, StreamParts,
         UNCHANGED <<link, sub, backlog, delivered, received, evicted>>,
         overtaken \subseteq overtaken',
         IdOf(rows) \subseteq IdOf(rows)',
         \A i \in Held' : i \in Held \/ (i \in Nat /\ i >= nextId),
         IdOf(rows)' \ Unpublished' \subseteq IdOf(rows) \ Unpublished
  PROVE  StreamParts'
<1> USE DEF StreamParts
<1>1. Settled \subseteq Settled'
  BY DEF Settled, ToSet
<1>2. Pending \subseteq Pending'
  BY DEF Pending, ToSet
<1>3. ToSet(sub.queue)' = ToSet(sub.queue) /\ ToSet(received)' = ToSet(received)
  BY DEF ToSet
<1>4. nextId \in Nat /\ delivered \in Nat /\ delivered < nextId
      /\ \A i \in IdOf(rows) : i \in Nat /\ i < nextId
  BY IdFacts, StreamTypes DEF Held
<1>5. CursorIsLast'
  <2>1. LastEventId' = LastEventId
    BY DEF LastEventId, Last
  <2> QED
    BY <1>3, <2>1 DEF CursorIsLast
<1>6. ASSUME NEW n, n \in IdOf(rows) \/ n = delivered, NEW i \in Held', i <= n
      PROVE  i \in Held
  <2>1. n \in Nat /\ n < nextId
    BY <1>4, <1>6
  <2> QED
    BY <1>4, <1>6, <2>1
<1>7. PassedIsSettled'
  <2> SUFFICES ASSUME NEW i \in Held', i <= delivered' PROVE i \in Settled'
    BY DEF PassedIsSettled
  <2>1. i \in Held /\ i <= delivered
    BY <1>6
  <2> QED
    BY <1>1, <2>1 DEF PassedIsSettled
<1>8. ASSUME NEW n \in IdOf(rows), NEW i \in Held', i < n PROVE i \in Held
  <2>1. i \in Held \/ i \in Nat
    OBVIOUS
  <2>2. \A j \in Held : j \in Nat
    BY IdFacts
  <2>3. i <= n
    BY <1>4, <1>8, <2>1, <2>2
  <2> QED
    BY <1>6, <2>3
<1>9. QueueIsComplete'
  <2> SUFFICES ASSUME NEW k \in DOMAIN sub.queue, sub.queue[k] # Overflow
               PROVE  /\ sub.queue[k] \in IdOf(rows)'
                      /\ \A i \in Held' : i < sub.queue[k] =>
                           i \in Settled' \cup Pending' \/ \E j \in 1..(k - 1) : sub.queue[j] = i
    BY DEF QueueIsComplete
  <2>1. sub.queue[k] \in IdOf(rows)
    BY DEF QueueIsComplete
  <2>2. ASSUME NEW i \in Held', i < sub.queue[k]
        PROVE  i \in Settled' \cup Pending' \/ \E j \in 1..(k - 1) : sub.queue[j] = i
    <3>1. i \in Held
      BY <1>8, <2>1, <2>2
    <3>2. i \in Settled \cup Pending \/ \E j \in 1..(k - 1) : sub.queue[j] = i
      BY <2>2, <3>1 DEF QueueIsComplete
    <3> QED
      BY <1>1, <1>2, <3>2
  <2> QED
    BY <2>1, <2>2
<1>10. BacklogIsComplete'
  <2> SUFFICES ASSUME NEW k \in DOMAIN backlog
               PROVE  /\ backlog[k] \in IdOf(rows)'
                      /\ backlog[k] > delivered
                      /\ \A j \in 1..(k - 1) : backlog[j] < backlog[k]
                      /\ \A i \in Held' : i < backlog[k] =>
                           i \in Settled' \/ \E j \in 1..(k - 1) : backlog[j] = i
    BY DEF BacklogIsComplete
  <2>1. /\ backlog[k] \in IdOf(rows)
        /\ backlog[k] > delivered
        /\ \A j \in 1..(k - 1) : backlog[j] < backlog[k]
    BY DEF BacklogIsComplete
  <2>2. ASSUME NEW i \in Held', i < backlog[k]
        PROVE  i \in Settled' \/ \E j \in 1..(k - 1) : backlog[j] = i
    <3>1. i \in Held
      BY <1>8, <2>1, <2>2
    <3>2. i \in Settled \/ \E j \in 1..(k - 1) : backlog[j] = i
      BY <2>2, <3>1 DEF BacklogIsComplete
    <3> QED
      BY <1>1, <3>2
  <2> QED
    BY <2>1, <2>2
<1>11. PublishedIsComing'
  BY <1>1, <1>2, <1>3 DEF PublishedIsComing
<1> QED
  BY <1>5, <1>7, <1>9, <1>10, <1>11

(* The types of the ids, whatever the log's next state.                    *)
LEMMA IdsTyped ==
  ASSUME LogCore'
  PROVE  IdOf(rows)' \subseteq 1..(nextId' - 1)
<1>1. \A e \in rows' : e.id \in 1..(nextId' - 1)
  BY DEF LogCore, LogTypes, LogTypeOK
<1> QED
  BY <1>1 DEF IdOf

(* A transaction.                                                          *)
LEMMA StoreFollows ==
  ASSUME FollowInv, StoreStep
  PROVE  FollowInv'
<1>1. PICK b \in Batch : Store(b)
  BY DEF StoreStep
<1>2. LogCore'
  BY <1>1, CoreStore DEF FollowInv
<1>3. /\ OwnIsOpen'
      /\ IdOf(rows) \subseteq IdOf(rows)'
      /\ \A i \in Held' : i \in Held \/ (i \in Nat /\ i >= nextId)
      /\ IdOf(rows)' \ Unpublished' \subseteq IdOf(rows) \ Unpublished
  BY <1>1, StoreIds DEF FollowInv
<1>4. UNCHANGED <<link, sub, backlog, delivered, received, drops, evicted, overtaken>>
      /\ unseen' \in BOOLEAN
  BY DEF StoreStep, FollowInv, ReceivedInOrder, AuditTypeOK
<1>5. StreamParts'
  BY <1>3, <1>4, PartsKept DEF FollowInv
<1>6. ReceivedInOrder'
  BY <1>2, <1>4, IdsTyped DEF FollowInv, ReceivedInOrder, AuditTypeOK
<1> QED
  BY <1>2, <1>3, <1>5, <1>6 DEF FollowInv

(* The stream is closed: only the cursor's past matters.                   *)
LEMMA ClosedParts ==
  ASSUME StreamParts, CloseStream, UNCHANGED <<delivered, received, evicted>>,
         overtaken \subseteq overtaken', IdOf(rows)' = IdOf(rows), Held' \subseteq Held
  PROVE  StreamParts'
<1> USE DEF StreamParts, CloseStream
<1>1. Settled \subseteq Settled'
  BY DEF Settled, ToSet
<1>2. CursorIsLast'
  BY DEF CursorIsLast, LastEventId, Last, ToSet
<1>3. PassedIsSettled'
  BY <1>1 DEF PassedIsSettled
<1>4. sub'.queue = <<>> /\ ~sub'.listening /\ DOMAIN (<<>>) = {}
  BY DEF Unsubscribed
<1>5. QueueIsComplete' /\ PublishedIsComing'
  BY <1>4 DEF QueueIsComplete, PublishedIsComing
<1>6. BacklogIsComplete'
  BY <1>4 DEF BacklogIsComplete
<1> QED
  BY <1>2, <1>3, <1>5, <1>6

LEMMA ClosedTypes ==
  ASSUME ReceivedInOrder, LogCore', CloseStream,
         UNCHANGED <<delivered, received, unseen>>, drops' \in 0..MaxDrops
  PROVE  ReceivedInOrder'
<1>1. sub' \in Subscriber(Nat) /\ Len(sub'.queue) <= QueueCap /\ backlog' \in Seq(Nat)
  BY QueueAssumption DEF CloseStream, Unsubscribed, Subscriber
<1> QED
  BY <1>1, IdsTyped DEF ReceivedInOrder, AuditTypeOK, CloseStream

(* A crash rolls back what was open and closes the stream.                 *)
LEMMA CrashFollows ==
  ASSUME FollowInv, CrashStep
  PROVE  FollowInv'
<1>1. LogCore' /\ OwnIsOpen'
  BY CoreCrash DEF FollowInv, CrashStep, Crash, OwnIsOpen
<1>2. rows' = rows /\ \A b \in Batch : own'[b] = {}
  BY DEF CrashStep, Crash
<1>3. IdOf(rows)' = IdOf(rows) /\ Unpublished' = {}
  BY <1>2 DEF IdOf, Unpublished
<1>4. Held' \subseteq Held
  BY <1>3 DEF Held
<1>5. CloseStream /\ UNCHANGED <<delivered, received, drops, evicted, unseen>>
      /\ overtaken \subseteq overtaken'
  BY DEF CrashStep
<1>6. StreamParts'
  BY <1>3, <1>4, <1>5, ClosedParts DEF FollowInv
<1>7. ReceivedInOrder'
  BY <1>1, <1>5, ClosedTypes DEF FollowInv, ReceivedInOrder, AuditTypeOK
<1> QED
  BY <1>1, <1>6, <1>7 DEF FollowInv

(* The log stands still.                                                   *)
LEMMA StillLog ==
  ASSUME FollowInv, UNCHANGED logVars
  PROVE  /\ LogCore' /\ OwnIsOpen'
         /\ IdOf(rows)' = IdOf(rows) /\ Unpublished' = Unpublished /\ Held' = Held
<1>1. LogCore'
  BY CoreStutter DEF FollowInv
<1>2. rows' = rows /\ own' = own /\ pc' = pc
  BY DEF logVars
<1>3. OwnIsOpen'
  BY <1>2 DEF FollowInv, OwnIsOpen
<1> QED
  BY <1>1, <1>2, <1>3, SameIds

LEMMA BreakFollows ==
  ASSUME FollowInv, Break
  PROVE  FollowInv'
<1>1. UNCHANGED logVars /\ UNCHANGED <<delivered, received, evicted, overtaken, unseen>> /\ CloseStream
  BY DEF Break
<1>2. drops' \in 0..MaxDrops
  <2>1. drops \in 0..MaxDrops /\ drops < MaxDrops /\ drops' = drops + 1
    BY DEF Break, FollowInv, ReceivedInOrder, AuditTypeOK
  <2> QED
    BY <2>1, StreamAssumption
<1>3. StreamParts' /\ ReceivedInOrder'
  BY <1>1, <1>2, StillLog, ClosedParts, ClosedTypes DEF FollowInv
<1> QED
  BY <1>1, <1>3, StillLog DEF FollowInv

(* A reconnect: what is stored above the cursor is in the replay to come.  *)
LEMMA ConnectFollows ==
  ASSUME FollowInv, Connect
  PROVE  FollowInv'
<1>1. /\ UNCHANGED logVars /\ UNCHANGED <<backlog, received, drops, evicted, overtaken, unseen>>
      /\ link = "down" /\ link' = "subscribed" /\ sub' = Subscribed /\ delivered' = LastEventId
  BY DEF Connect
<1>2. /\ delivered' = delivered /\ delivered \in Nat /\ backlog = <<>>
      /\ CursorIsLast /\ PassedIsSettled
  BY <1>1 DEF FollowInv, StreamParts, CursorIsLast, ReceivedInOrder, AuditTypeOK
<1>3. /\ LogCore' /\ OwnIsOpen'
      /\ IdOf(rows)' = IdOf(rows) /\ Unpublished' = Unpublished /\ Held' = Held
  BY <1>1, StillLog
<1>4. sub'.queue = <<>> /\ sub'.listening /\ DOMAIN (<<>>) = {}
  BY <1>1 DEF Subscribed
<1>5. Settled' = Settled /\ LastEventId' = LastEventId /\ ToSet(received)' = ToSet(received)
  BY <1>1 DEF Settled, ToSet, LastEventId, Last
<1>6. CursorIsLast' /\ PassedIsSettled'
  BY <1>1, <1>2, <1>3, <1>5 DEF CursorIsLast, PassedIsSettled
<1>7. QueueIsComplete' /\ BacklogIsComplete'
  BY <1>1, <1>2, <1>4 DEF QueueIsComplete, BacklogIsComplete
<1>8. PublishedIsComing'
  <2>1. \A i \in IdOf(rows) : i \in Settled \/ i \in Pending'
    <3> SUFFICES ASSUME NEW i \in IdOf(rows) PROVE i \in Settled \/ i \in Pending'
      OBVIOUS
    <3>1. i \in Nat /\ i \in Held
      BY IdFacts DEF FollowInv, Held
    <3>2. CASE i <= delivered
      BY <1>2, <3>1, <3>2 DEF PassedIsSettled
    <3>3. CASE i > delivered
      BY <1>1, <1>2, <1>3, <3>3 DEF Pending
    <3> QED
      BY <1>2, <3>1, <3>2, <3>3
  <2> QED
    BY <1>3, <1>4, <1>5, <2>1 DEF PublishedIsComing
<1>9. ReceivedInOrder'
  <2>1. sub' \in Subscriber(Nat) /\ Len(sub'.queue) <= QueueCap
    BY <1>1, QueueAssumption DEF Subscribed, Subscriber
  <2> QED
    BY <1>1, <1>2, <1>3, <2>1, IdsTyped DEF FollowInv, ReceivedInOrder, AuditTypeOK
<1> QED
  BY <1>3, <1>6, <1>7, <1>8, <1>9 DEF FollowInv, StreamParts

(* Nothing happens.                                                        *)
LEMMA StillFollows ==
  ASSUME FollowInv, UNCHANGED auditVars
  PROVE  FollowInv'
<1>1. UNCHANGED logVars
      /\ UNCHANGED <<link, sub, backlog, delivered, received, drops, evicted, overtaken, unseen>>
  BY DEF auditVars, streamVars
<1>2. StreamParts'
  BY <1>1, StillLog, PartsKept DEF FollowInv
<1>3. ReceivedInOrder'
  BY <1>1, StillLog, IdsTyped DEF FollowInv, ReceivedInOrder, AuditTypeOK
<1> QED
  BY <1>1, <1>2, <1>3, StillLog DEF FollowInv

(* The ids of rows in order: all of them, each after the lower ones.       *)
LEMMA InOrderFacts ==
  ASSUME NEW R, NEW n \in Nat, IdOf(R) \subseteq 1..n, NEW s \in InOrder(R)
  PROVE  /\ s \in Seq(Nat) /\ Len(s) \in Nat /\ DOMAIN s = 1..Len(s)
         /\ \A k \in 1..Len(s) : s[k] \in IdOf(R)
         /\ \A i \in IdOf(R) : \E k \in 1..Len(s) : s[k] = i
         /\ \A k \in 1..Len(s) : \A j \in 1..(k - 1) : s[j] < s[k]
<1> DEFINE ids == IdOf(R)
           m == Cardinality(ids)
<1>1. m \in Nat
  <2>1. IsFiniteSet(1..n)
    BY FS_Interval
  <2> QED
    BY <2>1, FS_Subset, FS_CardinalityType
<1>2. /\ s \in [1..m -> ids] /\ ToSet(s) = ids
      /\ \A k \in DOMAIN s : \A j \in 1..(k - 1) : s[j] < s[k]
  BY DEF InOrder
<1>3. ids \subseteq Nat
  OBVIOUS
<1> HIDE DEF m, ids
<1>4. s \in Seq(ids) /\ Len(s) = m /\ DOMAIN s = 1..m
  <2>1. s \in [1..m -> ids]
    BY <1>2
  <2>2. s \in Seq(ids)
    BY ONLY <1>1, <2>1
  <2>3. Len(s) \in Nat /\ DOMAIN s = 1..Len(s)
    BY ONLY <2>2
  <2>4. DOMAIN s = 1..m
    BY <2>1
  <2>5. Len(s) = m
    <3>1. \A x, y \in Nat : 1..x = 1..y => x = y
      <4> SUFFICES ASSUME NEW x \in Nat, NEW y \in Nat, 1..x = 1..y PROVE x = y
        OBVIOUS
      <4>1. x = 0 \/ x \in 1..y
        BY ONLY x \in Nat, 1..x = 1..y
      <4>2. y = 0 \/ y \in 1..x
        BY ONLY y \in Nat, 1..x = 1..y
      <4> QED
        BY ONLY <4>1, <4>2, x \in Nat, y \in Nat
    <3> QED
      BY ONLY <1>1, <2>3, <2>4, <3>1, Zenon
  <2> QED
    BY <2>2, <2>4, <2>5
<1>6. \A k \in 1..m : s[k] \in ids
  BY <1>2
<1>5. s \in Seq(Nat)
  <2>1. \A k \in 1..m : s[k] \in Nat
    BY <1>3, <1>6
  <2>2. s \in [1..m -> Nat]
    BY <1>2, <2>1
  <2> QED
    BY ONLY <1>1, <2>2
<1>7. \A i \in ids : \E k \in 1..m : s[k] = i
  BY <1>2, <1>4 DEF ToSet
<1>8. \A k \in 1..m : \A j \in 1..(k - 1) : s[j] < s[k]
  BY <1>2, <1>4
<1> QED
  BY <1>1, <1>4, <1>5, <1>6, <1>7, <1>8 DEF ids

(* The replay: what it does not bring and is not settled is overtaken.     *)
LEMMA ReplayFollows ==
  ASSUME FollowInv, Replay
  PROVE  FollowInv'
<1> DEFINE replayed == {e \in rows : e.id > delivered}
<1>1. /\ UNCHANGED logVars /\ UNCHANGED <<sub, delivered, received, drops, evicted, unseen>>
      /\ link = "subscribed" /\ link' = "open"
      /\ backlog' \in InOrder(replayed)
      /\ overtaken' = overtaken \cup
           {i \in Unpublished \ IdOf(rows) : \E e \in replayed : i < e.id}
  BY DEF Replay
<1>2. /\ LogCore' /\ OwnIsOpen'
      /\ IdOf(rows)' = IdOf(rows) /\ Unpublished' = Unpublished /\ Held' = Held
  BY <1>1, StillLog
<1>3. IdOf(replayed) = {i \in IdOf(rows) : i > delivered}
  BY DEF IdOf
<1>4. /\ delivered \in Nat /\ nextId \in Nat \ {0} /\ IdOf(rows) \subseteq 1..(nextId - 1)
      /\ \A i \in Held : i \in Nat
  BY IdFacts, StreamTypes DEF FollowInv, StreamParts
<1>5. \A j \in IdOf(replayed) : \E e \in replayed : e.id = j
  BY DEF IdOf
<1> HIDE DEF replayed
<1>6. /\ backlog' \in Seq(Nat) /\ DOMAIN backlog' = 1..Len(backlog') /\ Len(backlog') \in Nat
      /\ \A k \in 1..Len(backlog') : backlog'[k] \in IdOf(replayed)
      /\ \A i \in IdOf(replayed) : \E k \in 1..Len(backlog') : backlog'[k] = i
      /\ \A k \in 1..Len(backlog') : \A j \in 1..(k - 1) : backlog'[j] < backlog'[k]
  <2>1. nextId - 1 \in Nat /\ IdOf(replayed) \subseteq 1..(nextId - 1)
    BY <1>3, <1>4
  <2> QED
    BY <1>1, <2>1, InOrderFacts
<1>7. Pending' = Pending
  <2>1. Pending' = ToSet(backlog)'
    BY <1>1 DEF Pending
  <2>2. Pending = IdOf(replayed)
    BY <1>1, <1>3 DEF Pending
  <2>3. ToSet(backlog)' = IdOf(replayed)
    BY <1>6 DEF ToSet
  <2> QED
    BY <2>1, <2>2, <2>3
<1>8. Settled \subseteq Settled' /\ overtaken' \subseteq Settled'
  BY <1>1 DEF Settled, ToSet
<1>9. CursorIsLast'
  BY <1>1, <1>2 DEF FollowInv, StreamParts, CursorIsLast, LastEventId, Last, ToSet
<1>10. PassedIsSettled'
  BY <1>1, <1>2, <1>8 DEF FollowInv, StreamParts, PassedIsSettled
<1>11. QueueIsComplete' /\ PublishedIsComing'
  <2>1. ToSet(sub.queue)' = ToSet(sub.queue) /\ sub' = sub
    BY <1>1 DEF ToSet
  <2> QED
    BY <1>2, <1>7, <1>8, <2>1 DEF FollowInv, StreamParts, QueueIsComplete, PublishedIsComing
<1>12. BacklogIsComplete'
  <2> SUFFICES ASSUME NEW k \in 1..Len(backlog')
               PROVE  /\ backlog'[k] \in IdOf(rows)'
                      /\ backlog'[k] > delivered'
                      /\ \A j \in 1..(k - 1) : backlog'[j] < backlog'[k]
                      /\ \A i \in Held' : i < backlog'[k] =>
                           i \in Settled' \/ \E j \in 1..(k - 1) : backlog'[j] = i
    BY <1>6 DEF BacklogIsComplete
  <2>1. backlog'[k] \in IdOf(rows) /\ backlog'[k] > delivered /\ backlog'[k] \in Nat
    BY <1>3, <1>4, <1>6
  <2>2. ASSUME NEW i \in Held, i < backlog'[k]
        PROVE  i \in Settled' \/ \E j \in 1..(k - 1) : backlog'[j] = i
    <3>1. CASE i <= delivered
      BY <1>8, <3>1 DEF FollowInv, StreamParts, PassedIsSettled
    <3>2. CASE i > delivered /\ i \in IdOf(rows)
      <4>1. PICK j \in 1..Len(backlog') : backlog'[j] = i
        BY <1>3, <1>6, <3>2
      <4>2. j \in 1..(k - 1)
        <5>1. j # k
          BY <1>4, <2>1, <2>2, <4>1
        <5>2. ~(k \in 1..(j - 1))
          BY <1>4, <1>6, <2>1, <2>2, <4>1
        <5> QED
          BY <5>1, <5>2
      <4> QED
        BY <4>1, <4>2
    <3>3. CASE i \notin IdOf(rows)
      <4>1. i \in Unpublished \ IdOf(rows)
        BY <3>3 DEF Held
      <4>2. \E e \in replayed : i < e.id
        BY <1>5, <1>6, <2>2
      <4> QED
        BY <1>1, <1>8, <4>1, <4>2
    <3> QED
      BY <1>4, <3>1, <3>2, <3>3
  <2> QED
    BY <1>1, <1>2, <1>6, <2>1, <2>2
<1>13. ReceivedInOrder'
  BY <1>1, <1>2, <1>6, IdsTyped DEF FollowInv, ReceivedInOrder, AuditTypeOK
<1> QED
  BY <1>2, <1>9, <1>10, <1>11, <1>12, <1>13 DEF FollowInv, StreamParts

(* One more id, above the cursor, for the client.                          *)
LEMMA YieldFacts ==
  ASSUME ReceivedInOrder, CursorIsLast, NEW i \in IdOf(rows), i \in Nat, i > delivered, Yield(i),
         IdOf(rows)' = IdOf(rows)
  PROVE  /\ delivered' = i /\ i \in Nat
         /\ received' \in Seq(Nat) /\ ToSet(received)' = ToSet(received) \cup {i}
         /\ \A j, k \in DOMAIN received' : j < k => received'[j] < received'[k]
         /\ ToSet(received)' \subseteq IdOf(rows)' /\ delivered' = LastEventId'
<1>1. /\ delivered' = i /\ received' = Append(received, i) /\ received \in Seq(Nat)
      /\ delivered \in Nat
      /\ \A j, k \in DOMAIN received : j < k => received[j] < received[k]
  BY DEF Yield, ReceivedInOrder, AuditTypeOK
<1> DEFINE n == Len(received)
<1>2. /\ received' \in Seq(Nat) /\ Len(received') = n + 1 /\ n \in Nat
      /\ DOMAIN received = 1..n /\ DOMAIN received' = 1..(n + 1)
      /\ \A k \in 1..n : received'[k] = received[k] /\ received[k] \in Nat
      /\ received'[n + 1] = i
  BY <1>1
<1> HIDE DEF n
<1>3. ToSet(received)' = ToSet(received) \cup {i}
  <2>1. \A k \in 1..(n + 1) : k \in 1..n \/ k = n + 1
    BY <1>2
  <2>2. \A k \in 1..n : k \in 1..(n + 1)
    BY <1>2
  <2>3. n + 1 \in 1..(n + 1)
    BY <1>2
  <2> QED
    BY <1>2, <2>1, <2>2, <2>3 DEF ToSet
<1>4. \A k \in 1..n : received[k] <= delivered
  <2>1. CASE n = 0
    BY ONLY <2>1
  <2>2. CASE n # 0
    <3>1. received # <<>> /\ delivered = received[n] /\ n \in 1..n
      BY <1>1, <1>2, <2>2 DEF CursorIsLast, LastEventId, Last, n
    <3>2. \A k \in 1..n : k < n \/ k = n
      BY <1>2
    <3>3. \A k \in 1..n : received[k] < received[n] \/ k = n
      BY <1>1, <1>2, <3>1, <3>2
    <3>4. \A k \in 1..n : received[k] \in Nat /\ delivered \in Nat
      BY <1>1, <1>2
    <3> QED
      BY ONLY <3>1, <3>3, <3>4
  <2> QED
    BY <2>1, <2>2
<1>5. \A j, k \in DOMAIN received' : j < k => received'[j] < received'[k]
  <2> SUFFICES ASSUME NEW j \in 1..(n + 1), NEW k \in 1..(n + 1), j < k
               PROVE  received'[j] < received'[k]
    BY <1>2
  <2>1. j \in 1..n
    BY <1>2
  <2>2. CASE k \in 1..n
    BY <1>1, <1>2, <2>1, <2>2
  <2>3. CASE k = n + 1
    BY <1>1, <1>2, <1>4, <2>1, <2>3
  <2> QED
    BY <1>2, <2>2, <2>3
<1>6. delivered' = LastEventId'
  <2>1. received' # <<>> /\ Last(received') = i
    BY <1>2 DEF Last
  <2> QED
    BY <1>1, <2>1 DEF LastEventId
<1>7. ToSet(received)' \subseteq IdOf(rows)'
  BY <1>3 DEF CursorIsLast
<1> QED
  BY <1>1, <1>2, <1>3, <1>5, <1>6, <1>7

(* The head and the tail of a sequence.                                    *)
LEMMA TailFacts ==
  ASSUME NEW S, NEW s \in Seq(S), s # <<>>
  PROVE  /\ Len(s) \in Nat /\ Len(s) >= 1 /\ Head(s) = s[1] /\ s[1] \in S /\ 1 \in DOMAIN s
         /\ DOMAIN s = 1..Len(s) /\ DOMAIN Tail(s) = 1..(Len(s) - 1)
         /\ Tail(s) \in Seq(S) /\ Len(Tail(s)) = Len(s) - 1
         /\ \A k \in 1..(Len(s) - 1) : Tail(s)[k] = s[k + 1] /\ k + 1 \in DOMAIN s
         /\ \A k \in DOMAIN s : k = 1 \/ (k - 1 \in DOMAIN Tail(s) /\ Tail(s)[k - 1] = s[k])
         /\ \A k \in Nat : \A j \in 1..k : j = 1 \/ j - 1 \in 1..(k - 1)
<1>1. /\ Len(s) \in Nat /\ Len(s) >= 1 /\ Head(s) = s[1] /\ s[1] \in S
      /\ DOMAIN s = 1..Len(s) /\ DOMAIN Tail(s) = 1..(Len(s) - 1)
      /\ Tail(s) \in Seq(S) /\ Len(Tail(s)) = Len(s) - 1
      /\ \A k \in 1..(Len(s) - 1) : Tail(s)[k] = s[k + 1]
  OBVIOUS
<1>2. 1 \in DOMAIN s /\ \A k \in 1..(Len(s) - 1) : k + 1 \in DOMAIN s
  BY <1>1
<1>3. ASSUME NEW k \in DOMAIN s, k # 1 PROVE k - 1 \in DOMAIN Tail(s) /\ Tail(s)[k - 1] = s[k]
  <2>1. k - 1 \in 1..(Len(s) - 1) /\ (k - 1) + 1 = k
    BY <1>1, <1>3
  <2> QED
    BY <1>1, <2>1
<1>4. \A k \in Nat : \A j \in 1..k : j = 1 \/ j - 1 \in 1..(k - 1)
  OBVIOUS
<1> QED
  BY <1>1, <1>2, <1>3, <1>4

(* The stream yields the next replayed row.                                *)
LEMMA YieldReplayedFollows ==
  ASSUME FollowInv, YieldReplayed
  PROVE  FollowInv'
<1> DEFINE h == Head(backlog)
           t == Tail(backlog)
<1>1. /\ UNCHANGED logVars /\ UNCHANGED <<link, sub, drops, evicted, overtaken, unseen>>
      /\ link = "open" /\ backlog # <<>> /\ Yield(h) /\ backlog' = t
  BY DEF YieldReplayed
<1>2. /\ LogCore' /\ OwnIsOpen'
      /\ IdOf(rows)' = IdOf(rows) /\ Unpublished' = Unpublished /\ Held' = Held
  BY <1>1, StillLog
<1>3. /\ delivered \in Nat /\ backlog \in Seq(Nat) /\ \A i \in Held : i \in Nat
      /\ \A k \in DOMAIN backlog : backlog[k] \in Nat
  BY IdFacts, StreamTypes DEF FollowInv, StreamParts
<1> DEFINE n == Len(backlog)
<1>4. /\ n \in Nat /\ n >= 1 /\ h = backlog[1] /\ 1 \in DOMAIN backlog
      /\ DOMAIN backlog = 1..n /\ DOMAIN t = 1..(n - 1) /\ t \in Seq(Nat)
      /\ \A k \in 1..(n - 1) : t[k] = backlog[k + 1] /\ k + 1 \in DOMAIN backlog
      /\ \A k \in DOMAIN backlog : k = 1 \/ (k - 1 \in DOMAIN t /\ t[k - 1] = backlog[k])
      /\ \A k \in Nat : \A j \in 1..k : j = 1 \/ j - 1 \in 1..(k - 1)
  BY <1>1, <1>3, TailFacts
<1>5. /\ h \in IdOf(rows) /\ h \in Nat /\ h > delivered
      /\ \A i \in Held : i < h => i \in Settled
  <2>1. /\ h \in IdOf(rows) /\ h > delivered
        /\ \A i \in Held : i < h => i \in Settled \/ \E j \in 1..(1 - 1) : backlog[j] = i
    BY <1>4 DEF FollowInv, StreamParts, BacklogIsComplete
  <2> QED
    BY <1>3, <1>4, <2>1
<1>6. /\ delivered' = h
      /\ received' \in Seq(Nat) /\ ToSet(received)' = ToSet(received) \cup {h}
      /\ \A j, k \in DOMAIN received' : j < k => received'[j] < received'[k]
      /\ ToSet(received)' \subseteq IdOf(rows)' /\ delivered' = LastEventId'
  BY <1>1, <1>2, <1>5, YieldFacts DEF FollowInv, StreamParts
<1> HIDE DEF h, t, n
<1>7. Settled' = Settled \cup {h}
  BY <1>1, <1>6 DEF Settled
<1>8. Pending \subseteq Pending' \cup {h}
  <2>1. Pending = ToSet(backlog) /\ Pending' = ToSet(t)
    BY <1>1 DEF Pending
  <2> QED
    BY <1>4, <2>1 DEF ToSet
<1>9. CursorIsLast'
  BY <1>1, <1>6 DEF CursorIsLast
<1>10. PassedIsSettled'
  <2> SUFFICES ASSUME NEW i \in Held, i <= h PROVE i \in Settled \cup {h}
    BY <1>2, <1>6, <1>7 DEF PassedIsSettled
  <2>1. i < h \/ i = h
    BY <1>3, <1>5
  <2> QED
    BY <1>5, <2>1
<1>11. QueueIsComplete'
  BY <1>1, <1>2, <1>7, <1>8 DEF FollowInv, StreamParts, QueueIsComplete
<1>12. PublishedIsComing'
  <2>1. ToSet(sub.queue)' = ToSet(sub.queue) /\ sub' = sub
    BY <1>1 DEF ToSet
  <2> QED
    BY <1>2, <1>7, <1>8, <2>1 DEF FollowInv, StreamParts, PublishedIsComing
<1>13. BacklogIsComplete'
  <2> SUFFICES ASSUME NEW k \in 1..(n - 1)
               PROVE  /\ t[k] \in IdOf(rows)
                      /\ t[k] > h
                      /\ \A j \in 1..(k - 1) : t[j] < t[k]
                      /\ \A i \in Held : i < t[k] =>
                           i \in Settled \cup {h} \/ \E j \in 1..(k - 1) : t[j] = i
    <3>1. DOMAIN backlog' = 1..(n - 1) /\ backlog' = t /\ delivered' = h
      BY <1>1, <1>4, <1>6
    <3> QED
      BY <3>1, <1>2, <1>7 DEF BacklogIsComplete
  <2>1. /\ t[k] = backlog[k + 1] /\ k + 1 \in DOMAIN backlog /\ k \in Nat
        /\ 1..((k + 1) - 1) = 1..k
    BY <1>4
  <2>2. /\ backlog[k + 1] \in IdOf(rows)
        /\ \A j \in 1..k : backlog[j] < backlog[k + 1]
        /\ \A i \in Held : i < backlog[k + 1] => i \in Settled \/ \E j \in 1..k : backlog[j] = i
    BY <2>1 DEF FollowInv, StreamParts, BacklogIsComplete
  <2>3. 1 \in 1..k /\ \A j \in 1..(k - 1) : j \in 1..(n - 1) /\ j + 1 \in 1..k
    BY <1>4
  <2>4. t[k] > h
    BY <1>3, <1>4, <2>1, <2>2, <2>3
  <2>5. \A j \in 1..(k - 1) : t[j] < t[k]
    BY <1>4, <2>1, <2>2, <2>3
  <2>6. ASSUME NEW i \in Held, i < t[k]
        PROVE  i \in Settled \cup {h} \/ \E j \in 1..(k - 1) : t[j] = i
    <3>1. CASE i \in Settled
      BY <3>1
    <3>2. CASE \E j \in 1..k : backlog[j] = i
      <4>1. PICK j \in 1..k : backlog[j] = i
        BY <3>2
      <4>2. CASE j = 1
        BY <1>4, <4>1, <4>2
      <4>3. CASE j # 1
        <5>1. j - 1 \in 1..(k - 1) /\ j \in DOMAIN backlog
          BY <1>4, <2>1, <4>3
        <5> QED
          BY <1>4, <4>1, <4>3, <5>1
      <4> QED
        BY <4>2, <4>3
    <3> QED
      BY <2>1, <2>2, <2>6, <3>1, <3>2
  <2> QED
    BY <2>1, <2>2, <2>4, <2>5, <2>6
<1>14. ReceivedInOrder'
  BY <1>1, <1>2, <1>4, <1>5, <1>6, IdsTyped DEF FollowInv, ReceivedInOrder, AuditTypeOK
<1> QED
  BY <1>2, <1>9, <1>10, <1>11, <1>12, <1>13, <1>14 DEF FollowInv, StreamParts

(* The stream takes a live message: it drops one at or below the cursor,   *)
(* which is settled, and yields one above it.                              *)
LEMMA YieldLiveFollows ==
  ASSUME FollowInv, YieldLive
  PROVE  FollowInv'
<1> DEFINE q == sub.queue
           h == Head(q)
           t == Tail(q)
           n == Len(q)
<1>1. /\ UNCHANGED logVars /\ UNCHANGED <<drops, evicted, overtaken, unseen>>
      /\ link = "open" /\ backlog = <<>> /\ q # <<>>
  BY DEF YieldLive
<1>2. /\ LogCore' /\ OwnIsOpen'
      /\ IdOf(rows)' = IdOf(rows) /\ Unpublished' = Unpublished /\ Held' = Held
  BY <1>1, StillLog
<1>3. CASE h = Overflow
  <2>1. CloseStream /\ UNCHANGED <<delivered, received>>
    BY <1>3 DEF YieldLive
  <2>2. StreamParts' /\ ReceivedInOrder'
    BY <1>1, <1>2, <2>1, ClosedParts, ClosedTypes DEF FollowInv, ReceivedInOrder, AuditTypeOK
  <2> QED
    BY <1>2, <2>2 DEF FollowInv
<1>4. CASE h # Overflow
  <2>1. /\ sub' = [sub EXCEPT !.queue = t] /\ UNCHANGED <<link, backlog>>
        /\ IF h <= delivered THEN UNCHANGED <<delivered, received>> ELSE Yield(h)
    BY <1>4 DEF YieldLive
  <2> DEFINE S == Nat \cup {Overflow}
  <2>2. /\ q \in Seq(S) /\ sub.listening \in BOOLEAN /\ delivered \in Nat /\ n <= QueueCap
        /\ sub' = [queue |-> t, listening |-> sub.listening]
        /\ \A i \in Held : i \in Nat
    <3>1. sub \in Subscriber(Nat) /\ n <= QueueCap
      BY DEF FollowInv, ReceivedInOrder, AuditTypeOK
    <3>2. sub = [queue |-> q, listening |-> sub.listening] /\ q \in Seq(S) /\ sub.listening \in BOOLEAN
      BY <3>1 DEF Subscriber
    <3>3. sub' = [queue |-> t, listening |-> sub.listening]
      BY <2>1, <3>2
    <3>4. delivered \in Nat /\ \A i \in Held : i \in Nat
      BY IdFacts, StreamTypes DEF FollowInv, StreamParts
    <3> QED
      BY <3>1, <3>2, <3>3, <3>4
  <2> HIDE DEF S
  <2>3. /\ n \in Nat /\ n >= 1 /\ h = q[1] /\ 1 \in DOMAIN q
        /\ DOMAIN q = 1..n /\ DOMAIN t = 1..(n - 1) /\ t \in Seq(S) /\ Len(t) = n - 1
        /\ \A k \in 1..(n - 1) : t[k] = q[k + 1] /\ k + 1 \in DOMAIN q
        /\ \A k \in DOMAIN q : k = 1 \/ (k - 1 \in DOMAIN t /\ t[k - 1] = q[k])
        /\ \A k \in Nat : \A j \in 1..k : j = 1 \/ j - 1 \in 1..(k - 1)
    BY <1>1, <2>2, TailFacts
  <2>4. Pending = {} /\ Pending' = {}
    BY <1>1, <2>1 DEF Pending, ToSet
  <2>5. h \in IdOf(rows) /\ \A i \in Held : i < h => i \in Settled
    <3>1. /\ q[1] \in IdOf(rows)
          /\ \A i \in Held : i < q[1] =>
               i \in Settled \cup Pending \/ \E j \in 1..(1 - 1) : q[j] = i
      BY <1>4, <2>3 DEF FollowInv, StreamParts, QueueIsComplete
    <3> QED
      BY <2>3, <2>4, <3>1
  <2>6. h \in Nat /\ h \in Held
    BY <2>2, <2>5 DEF Held
  <2>7. /\ Settled \subseteq Settled' /\ h \in Settled' /\ CursorIsLast'
        /\ delivered' \in Nat /\ received' \in Seq(Nat)
        /\ \A j, k \in DOMAIN received' : j < k => received'[j] < received'[k]
        /\ \A i \in Held : i <= delivered' => i \in Settled'
    <3>1. CASE h <= delivered
      <4>1. UNCHANGED <<delivered, received>>
        BY <2>1, <3>1
      <4>2. Settled' = Settled /\ ToSet(received)' = ToSet(received) /\ LastEventId' = LastEventId
        BY <1>1, <4>1 DEF Settled, ToSet, LastEventId, Last
      <4>3. CursorIsLast'
        BY <1>1, <1>2, <2>1, <4>1, <4>2 DEF FollowInv, StreamParts, CursorIsLast
      <4>4. \A i \in Held : i <= delivered => i \in Settled
        BY DEF FollowInv, StreamParts, PassedIsSettled
      <4>5. delivered \in Nat /\ received \in Seq(Nat)
            /\ \A j, k \in DOMAIN received : j < k => received[j] < received[k]
        BY DEF FollowInv, ReceivedInOrder, AuditTypeOK
      <4> QED
        BY <2>6, <3>1, <4>1, <4>2, <4>3, <4>4, <4>5
    <3>2. CASE ~(h <= delivered)
      <4>1. Yield(h) /\ h > delivered
        BY <2>1, <2>2, <2>6, <3>2
      <4>2. /\ delivered' = h
            /\ received' \in Seq(Nat) /\ ToSet(received)' = ToSet(received) \cup {h}
            /\ \A j, k \in DOMAIN received' : j < k => received'[j] < received'[k]
            /\ ToSet(received)' \subseteq IdOf(rows)' /\ delivered' = LastEventId'
        BY <1>2, <2>5, <2>6, <4>1, YieldFacts DEF FollowInv, StreamParts
      <4>3. Settled' = Settled \cup {h}
        BY <1>1, <4>2 DEF Settled
      <4>4. CursorIsLast'
        BY <1>1, <2>1, <4>2 DEF CursorIsLast
      <4>5. ASSUME NEW i \in Held, i <= h PROVE i \in Settled \cup {h}
        <5>1. i < h \/ i = h
          BY <2>2, <2>6, <4>5
        <5> QED
          BY <2>5, <5>1
      <4> QED
        BY <2>6, <4>2, <4>3, <4>4, <4>5
    <3> QED
      BY <3>1, <3>2
  <2>8. sub'.queue = t /\ sub'.listening = sub.listening
    BY <2>2
  <2> HIDE DEF q, h, t, n
  <2>9. PassedIsSettled'
    BY <1>2, <2>7 DEF PassedIsSettled
  <2>10. BacklogIsComplete'
    BY <1>1, <2>1 DEF BacklogIsComplete
  <2>11. QueueIsComplete'
    <3> SUFFICES ASSUME NEW k \in 1..(n - 1), t[k] # Overflow
                 PROVE  /\ t[k] \in IdOf(rows)
                        /\ \A i \in Held : i < t[k] =>
                             i \in Settled' \/ \E j \in 1..(k - 1) : t[j] = i
      <4>1. DOMAIN t = 1..(n - 1)
        BY <2>3
      <4> QED
        BY <4>1, <1>2, <2>4, <2>8 DEF QueueIsComplete
    <3>1. /\ t[k] = q[k + 1] /\ k + 1 \in DOMAIN q /\ k \in Nat
          /\ 1..((k + 1) - 1) = 1..k
      BY <2>3
    <3>2. /\ q[k + 1] \in IdOf(rows)
          /\ \A i \in Held : i < q[k + 1] => i \in Settled \/ \E j \in 1..k : q[j] = i
      BY <2>4, <3>1 DEF FollowInv, StreamParts, QueueIsComplete, q
    <3>3. ASSUME NEW i \in Held, i < t[k]
          PROVE  i \in Settled' \/ \E j \in 1..(k - 1) : t[j] = i
      <4>1. CASE i \in Settled
        BY <2>7, <4>1
      <4>2. CASE \E j \in 1..k : q[j] = i
        <5>1. PICK j \in 1..k : q[j] = i
          BY <4>2
        <5>2. CASE j = 1
          BY <2>3, <2>7, <5>1, <5>2
        <5>3. CASE j # 1
          <6>1. j - 1 \in 1..(k - 1) /\ j \in DOMAIN q
            BY <2>3, <3>1, <5>3
          <6> QED
            BY <2>3, <5>1, <5>3, <6>1
        <5> QED
          BY <5>2, <5>3
      <4> QED
        BY <3>1, <3>2, <3>3, <4>1, <4>2
    <3> QED
      BY <3>1, <3>2, <3>3
  <2>12. PublishedIsComing'
    <3> SUFFICES ASSUME sub.listening
                 PROVE  /\ \A k \in DOMAIN t : t[k] # Overflow
                        /\ \A i \in IdOf(rows) \ Unpublished : i \in Settled' \cup ToSet(t)
      BY <1>2, <2>4, <2>8 DEF PublishedIsComing, ToSet
    <3>1. /\ \A k \in DOMAIN q : q[k] # Overflow
          /\ \A i \in IdOf(rows) \ Unpublished : i \in Settled \cup ToSet(q)
      BY <2>4 DEF FollowInv, StreamParts, PublishedIsComing, q
    <3>2. \A i \in ToSet(q) : i = h \/ i \in ToSet(t)
      BY <2>3 DEF ToSet
    <3> QED
      BY <2>3, <2>7, <3>1, <3>2
  <2>13. ReceivedInOrder'
    <3>1. sub' \in Subscriber(Nat) /\ Len(sub'.queue) <= QueueCap
      <4>1. Len(t) <= QueueCap
        BY <2>2, <2>3, QueueAssumption
      <4> QED
        BY <2>2, <2>3, <2>8, <4>1 DEF Subscriber, S
    <3> QED
      BY <1>1, <1>2, <2>1, <2>7, <3>1, IdsTyped DEF FollowInv, ReceivedInOrder, AuditTypeOK
  <2> QED
    BY <1>2, <2>7, <2>9, <2>10, <2>11, <2>12, <2>13 DEF FollowInv, StreamParts
<1> QED
  BY <1>3, <1>4

(* What is published goes behind what is queued: below each of it, what is *)
(* not settled or before it was held by somebody else and is overtaken.    *)
LEMMA ArrivingIsComplete ==
  ASSUME FollowInv, sub.listening, NEW b \in Batch, own[b] \subseteq rows, NEW s \in InOrder(own[b]),
         NEW c \in Seq(Nat \cup {Overflow}), Len(c) = Len(sub.queue) + Len(s),
         \A k \in 1..Len(sub.queue) : c[k] = sub.queue[k],
         \A k \in 1..Len(s) : c[Len(sub.queue) + k] = s[k],
         NEW k \in 1..Len(c)
  PROVE  /\ c[k] \in IdOf(rows)
         /\ \A i \in Held : i < c[k] =>
              \/ i \in Settled \cup Pending
              \/ i \in Unpublished \ IdOf(own[b]) /\ \E j \in IdOf(own[b]) : i < j
              \/ \E j \in 1..(k - 1) : c[j] = i
<1> DEFINE n == Len(sub.queue)
           m == Len(s)
<1>1. /\ n \in Nat /\ DOMAIN sub.queue = 1..n /\ nextId \in Nat \ {0}
      /\ IdOf(own[b]) \subseteq 1..(nextId - 1) /\ \A i \in Held : i \in Nat
  BY IdFacts, StreamTypes DEF FollowInv, StreamParts
<1>2. /\ m \in Nat
      /\ \A p \in 1..m : s[p] \in IdOf(own[b])
      /\ \A i \in IdOf(own[b]) : \E p \in 1..m : s[p] = i
      /\ \A p \in 1..m : \A j \in 1..(p - 1) : s[j] < s[p]
  <2> DEFINE top == nextId - 1
  <2>1. top \in Nat /\ IdOf(own[b]) \subseteq 1..top
    BY <1>1
  <2> HIDE DEF top
  <2>2. /\ Len(s) \in Nat
        /\ \A p \in 1..Len(s) : s[p] \in IdOf(own[b])
        /\ \A i \in IdOf(own[b]) : \E p \in 1..Len(s) : s[p] = i
        /\ \A p \in 1..Len(s) : \A j \in 1..(p - 1) : s[j] < s[p]
    BY ONLY <2>1, InOrderFacts, s \in InOrder(own[b])
  <2> QED
    BY <2>2
<1>3. IdOf(own[b]) \subseteq IdOf(rows)
  BY DEF IdOf
<1>4. Len(c) = n + m
  OBVIOUS
<1> HIDE DEF n, m
<1>5. CASE k \in 1..n
  <2>1. sub.queue[k] = c[k] /\ k \in DOMAIN sub.queue /\ k \in Nat
    BY <1>1, <1>5 DEF n
  <2>2. sub.queue[k] # Overflow
    BY <2>1 DEF FollowInv, StreamParts, PublishedIsComing
  <2>3. /\ c[k] \in IdOf(rows)
        /\ \A i \in Held : i < c[k] =>
             i \in Settled \cup Pending \/ \E j \in 1..(k - 1) : sub.queue[j] = i
    BY <2>1, <2>2 DEF FollowInv, StreamParts, QueueIsComplete
  <2>4. \A j \in 1..(k - 1) : j \in 1..n
    BY <1>1, <1>5
  <2>5. \A j \in 1..(k - 1) : sub.queue[j] = c[j]
    BY <2>4 DEF n
  <2> QED
    BY <2>3, <2>5
<1>6. CASE k \notin 1..n
  <2> DEFINE p == k - n
  <2>1. p \in 1..m /\ k = n + p
    BY <1>1, <1>2, <1>4, <1>6
  <2> HIDE DEF p
  <2>2. c[k] = s[p] /\ c[k] \in IdOf(own[b])
    BY <1>2, <2>1 DEF n, m
  <2>3. ASSUME NEW i \in Held, i < c[k]
        PROVE  \/ i \in Settled \cup Pending
               \/ i \in Unpublished \ IdOf(own[b]) /\ \E j \in IdOf(own[b]) : i < j
               \/ \E j \in 1..(k - 1) : c[j] = i
    <3>1. CASE i \in Unpublished \ IdOf(own[b])
      BY <2>2, <2>3, <3>1
    <3>2. CASE i \in IdOf(own[b])
      <4>1. PICK r \in 1..m : s[r] = i
        BY <1>2, <3>2
      <4>2. s[p] \in Nat /\ i \in Nat /\ s[r] < s[p]
        BY <1>1, <2>2, <2>3, <4>1
      <4>3. r # p /\ ~(p \in 1..(r - 1))
        <5>1. r # p
          BY <4>2
        <5>2. ASSUME p \in 1..(r - 1) PROVE s[p] < s[r]
          BY <1>2, <4>1, <5>2
        <5>3. ~(s[p] < s[r])
          <6>1. s[r] \in Nat
            BY <4>1, <4>2
          <6> DEFINE u == s[p]
                     v == s[r]
          <6>2. u \in Nat /\ v \in Nat /\ v < u
            BY <4>2, <6>1
          <6> HIDE DEF u, v
          <6>3. ~(u < v)
            BY <6>2
          <6> QED
            BY <6>3 DEF u, v
        <5> QED
          BY <5>1, <5>2, <5>3
      <4>4. n + r \in 1..(k - 1)
        BY <1>1, <1>2, <2>1, <4>1, <4>3
      <4>5. c[n + r] = i
        BY <4>1 DEF n, m
      <4> QED
        BY <4>4, <4>5
    <3>3. CASE i \in IdOf(rows) \ Unpublished
      <4>1. i \in Settled \cup ToSet(sub.queue) \cup Pending
        BY <3>3 DEF FollowInv, StreamParts, PublishedIsComing
      <4>2. CASE i \in ToSet(sub.queue)
        <5>1. PICK j \in 1..n : sub.queue[j] = i
          BY <1>1, <4>2 DEF ToSet
        <5>2. c[j] = i
          BY <5>1 DEF n
        <5>3. j \in 1..(k - 1)
          BY <1>1, <2>1, <1>2, <5>1
        <5> QED
          BY <5>2, <5>3
      <4> QED
        BY <4>1, <4>2
    <3> QED
      BY <3>1, <3>2, <3>3 DEF Held
  <2> QED
    BY <1>3, <2>2, <2>3
<1> QED
  BY <1>5, <1>6

(* The handler answers and publishes.                                      *)
LEMMA PublishFollows ==
  ASSUME FollowInv, PublishStep
  PROVE  FollowInv'
<1>0. PICK b \in Batch : \E s \in InOrder(own[b]) :
        /\ Respond(b)
        /\ sub' = PutAll(sub, s)
        /\ evicted' = IF sub.listening /\ ~sub'.listening
                      THEN evicted \cup {Head(sub.queue \o s)} ELSE evicted
        /\ overtaken' = overtaken \cup
             {i \in Unpublished \ IdOf(own[b]) : \E j \in IdOf(own[b]) : i < j}
  BY DEF PublishStep
<1>1. PICK s \in InOrder(own[b]) :
        /\ Respond(b)
        /\ sub' = PutAll(sub, s)
        /\ evicted' = IF sub.listening /\ ~sub'.listening
                      THEN evicted \cup {Head(sub.queue \o s)} ELSE evicted
        /\ overtaken' = overtaken \cup
             {i \in Unpublished \ IdOf(own[b]) : \E j \in IdOf(own[b]) : i < j}
  BY <1>0
<1>2. UNCHANGED <<link, backlog, delivered, received, drops, unseen>>
  BY DEF PublishStep
<1>3. LogCore'
  BY <1>1, CoreStore DEF FollowInv
<1>4. /\ pc[b] = "committed" /\ rows' = rows /\ nextId' = nextId
      /\ own' = [own EXCEPT ![b] = {}] /\ pc' = [pc EXCEPT ![b] = "idle"]
  BY <1>1 DEF Respond, End, Goto
<1>5. own[b] \subseteq rows /\ own \in [Batch -> SUBSET Event(nextId)] /\ pc \in [Batch -> Stages]
  BY <1>4 DEF FollowInv, OwnIsOpen, LogCore, LogTypes, LogTypeOK
<1>6. own'[b] = {} /\ \A a \in Batch \ {b} : own'[a] = own[a]
  BY <1>4, <1>5
<1>7. OwnIsOpen'
  <2> SUFFICES ASSUME NEW a \in Batch
               PROVE  /\ pc'[a] \notin {"inserted", "committed"} => own'[a] = {}
                      /\ pc'[a] = "committed" => own'[a] \subseteq rows
    BY <1>4 DEF OwnIsOpen
  <2>1. CASE a = b
    BY <1>6, <2>1
  <2>2. CASE a # b
    <3>1. pc'[a] = pc[a] /\ own'[a] = own[a]
      BY <1>4, <1>5, <1>6, <2>2
    <3> QED
      BY <3>1 DEF FollowInv, OwnIsOpen
  <2> QED
    BY <2>1, <2>2
<1>8. IdOf(rows)' = IdOf(rows)
  BY <1>4 DEF IdOf
<1>9. ASSUME NEW i \in Unpublished' PROVE i \in Unpublished
  <2>1. PICK a \in Batch : i \in IdOf(own'[a])
    BY UnpublishedFacts
  <2>2. a # b
    BY <1>6, <2>1 DEF IdOf
  <2> QED
    BY <1>6, <2>1, <2>2, UnpublishedFacts
<1>10. ASSUME NEW i \in Unpublished, i \notin IdOf(own[b]) PROVE i \in Unpublished'
  <2>1. PICK a \in Batch : i \in IdOf(own[a])
    BY UnpublishedFacts
  <2>2. a # b
    BY <1>10, <2>1
  <2> QED
    BY <1>6, <2>1, <2>2, UnpublishedFacts
<1>11. Held' \subseteq Held
  BY <1>8, <1>9 DEF Held
<1>12. Settled \subseteq Settled' /\ overtaken' \subseteq Settled' /\ evicted' \subseteq Settled'
  BY <1>1, <1>2 DEF Settled, ToSet
<1>13. Pending' = Pending
  BY <1>2, <1>8 DEF Pending, ToSet
<1>14. CursorIsLast'
  BY <1>2, <1>8 DEF FollowInv, StreamParts, CursorIsLast, LastEventId, Last, ToSet
<1>15. PassedIsSettled'
  BY <1>2, <1>11, <1>12 DEF FollowInv, StreamParts, PassedIsSettled
<1>16. BacklogIsComplete'
  BY <1>2, <1>8, <1>11, <1>12 DEF FollowInv, StreamParts, BacklogIsComplete
<1>17. /\ sub \in Subscriber(Nat) /\ Len(sub.queue) <= QueueCap /\ Len(sub.queue) \in Nat
       /\ s \in Seq(Nat) /\ Len(s) \in Nat
       /\ \A p \in 1..Len(s) : s[p] \in IdOf(own[b])
       /\ \A i \in IdOf(own[b]) : \E p \in 1..Len(s) : s[p] = i
  <2>1. nextId - 1 \in Nat /\ IdOf(own[b]) \subseteq 1..(nextId - 1)
    BY IdFacts DEF FollowInv
  <2> QED
    BY <2>1, InOrderFacts, StreamTypes DEF FollowInv, StreamParts, ReceivedInOrder, AuditTypeOK
<1> DEFINE c == sub.queue \o s
           n == Len(sub.queue)
           T == Nat \cup {Overflow}
<1>18. /\ c \in Seq(T) /\ Len(c) = n + Len(s)
       /\ \A k \in 1..n : c[k] = sub.queue[k]
       /\ \A k \in 1..Len(s) : c[n + k] = s[k]
  <2>1. sub \in Subscriber(Nat) /\ s \in Seq(Nat)
    BY <1>17
  <2>2. /\ sub.queue \o s \in Seq(Nat \cup {Overflow})
        /\ Len(sub.queue \o s) = Len(sub.queue) + Len(s)
        /\ \A k \in 1..Len(sub.queue) : (sub.queue \o s)[k] = sub.queue[k]
        /\ \A k \in 1..Len(s) : (sub.queue \o s)[Len(sub.queue) + k] = s[k]
    BY ONLY SMTT(30), <2>1, BehindQueue
  <2> QED
    BY ONLY <2>2
<1>26. ~sub.listening => sub' = sub
  BY <1>1 DEF PutAll
<1>27. ASSUME sub.listening, n + Len(s) <= QueueCap
       PROVE  /\ sub' \in Subscriber(Nat) /\ Len(sub'.queue) <= QueueCap
              /\ sub'.queue = c /\ sub'.listening
  <2>1. /\ sub' = [queue |-> c, listening |-> TRUE]
        /\ sub' \in Subscriber(Nat) /\ Len(sub'.queue) <= QueueCap
    BY <1>1, <1>17, <1>27, PutAllFits
  <2> QED
    BY <2>1
<1>28. ASSUME sub.listening, ~(n + Len(s) <= QueueCap)
       PROVE  /\ sub' \in Subscriber(Nat) /\ Len(sub'.queue) <= QueueCap
              /\ ~sub'.listening /\ Len(sub'.queue) = QueueCap /\ sub'.queue[QueueCap] = Overflow
              /\ \A k \in 1..(QueueCap - 1) : sub'.queue[k] = c[k + 1]
              /\ QueueCap <= Len(c) /\ c # <<>>
  <2>1. sub \in Subscriber(Nat) /\ s \in Seq(Nat) /\ sub.listening
    BY <1>17, <1>28
  <2>2. ~(Len(sub.queue) + Len(s) <= QueueCap)
    BY <1>28
  <2>3. /\ PutAll(sub, s) \in Subscriber(Nat)
        /\ ~PutAll(sub, s).listening /\ Len(PutAll(sub, s).queue) = QueueCap
        /\ PutAll(sub, s).queue[QueueCap] = Overflow
        /\ \A k \in 1..(QueueCap - 1) : PutAll(sub, s).queue[k] = (sub.queue \o s)[k + 1]
        /\ QueueCap <= Len(sub.queue \o s) /\ sub.queue \o s # <<>>
    BY ONLY <2>1, <2>2, PutAllOverflows
  <2> DEFINE a == PutAll(sub, s)
  <2>4. /\ a \in Subscriber(Nat) /\ ~a.listening /\ Len(a.queue) = QueueCap
        /\ a.queue[QueueCap] = Overflow
        /\ \A k \in 1..(QueueCap - 1) : a.queue[k] = c[k + 1]
        /\ QueueCap <= Len(c) /\ c # <<>>
    BY ONLY <2>3
  <2>5. sub' = a
    BY <1>1
  <2> HIDE DEF a, c, n, T
  <2>6. QueueCap \in Nat \ {0}
    BY QueueAssumption
  <2> QED
    BY ONLY <2>4, <2>5, <2>6
<1>19. Len(c) \in Nat /\ DOMAIN c = 1..Len(c)
  <2>1. c \in Seq(T)
    BY <1>18
  <2> HIDE DEF c, T
  <2> QED
    BY ONLY <2>1
<1>20. ReceivedInOrder'
  <2>1. sub' \in Subscriber(Nat) /\ Len(sub'.queue) <= QueueCap
    BY <1>17, <1>26, <1>27, <1>28
  <2>2. link = "down" => sub' = Unsubscribed
    <3>1. link = "down" => sub = Unsubscribed
      BY DEF FollowInv, ReceivedInOrder, AuditTypeOK
    <3> QED
      BY <1>26, <3>1 DEF Unsubscribed
  <2> HIDE DEF c, n, T
  <2> QED
    BY <1>2, <1>3, <2>1, <2>2, IdsTyped DEF FollowInv, ReceivedInOrder, AuditTypeOK
<1>21. ASSUME sub.listening, NEW k \in 1..Len(c)
       PROVE  /\ c[k] \in IdOf(rows)
              /\ \A i \in Held : i < c[k] =>
                   i \in Settled' \cup Pending \/ \E j \in 1..(k - 1) : c[j] = i
  <2>1. /\ c[k] \in IdOf(rows)
        /\ \A i \in Held : i < c[k] =>
             \/ i \in Settled \cup Pending
             \/ i \in Unpublished \ IdOf(own[b]) /\ \E j \in IdOf(own[b]) : i < j
             \/ \E j \in 1..(k - 1) : c[j] = i
    BY ZenonT(60), <1>1, <1>5, <1>18, <1>21, ArrivingIsComplete
  <2> QED
    BY <1>1, <1>12, <2>1
<1>22. \A i \in IdOf(rows) : i # Overflow
  BY IdFacts DEF FollowInv, Held
<1> HIDE DEF c, n, T
<1>23. CASE ~sub.listening
  <2>1. sub' = sub
    BY <1>23, <1>26
  <2>2. QueueIsComplete' /\ PublishedIsComing'
    BY <1>8, <1>11, <1>12, <1>13, <1>23, <2>1
    DEF FollowInv, StreamParts, QueueIsComplete, PublishedIsComing
  <2> QED
    BY <1>3, <1>7, <1>14, <1>15, <1>16, <1>20, <2>2 DEF FollowInv, StreamParts
<1>24. CASE sub.listening /\ n + Len(s) <= QueueCap
  <2>1. sub'.queue = c /\ sub'.listening
    BY <1>24, <1>27
  <2>2. QueueIsComplete'
    BY <1>8, <1>11, <1>13, <1>19, <1>21, <1>24, <2>1 DEF QueueIsComplete
  <2>3. ASSUME NEW i \in IdOf(rows), i \notin Unpublished'
        PROVE  i \in Settled' \cup ToSet(c) \cup Pending
    <3>1. CASE i \in IdOf(own[b])
      <4>1. PICK p \in 1..Len(s) : s[p] = i
        BY <1>17, <3>1
      <4>2. n + p \in 1..Len(c) /\ c[n + p] = i
        <5>1. n \in Nat /\ Len(s) \in Nat /\ Len(c) = n + Len(s)
          BY <1>17, <1>18 DEF n
        <5> QED
          BY <1>18, <4>1, <5>1
      <4> QED
        BY <1>19, <4>2 DEF ToSet
    <3>2. CASE i \notin IdOf(own[b])
      <4>1. i \notin Unpublished
        BY <1>10, <2>3, <3>2
      <4>2. i \in Settled \cup ToSet(sub.queue) \cup Pending
        BY <1>24, <4>1 DEF FollowInv, StreamParts, PublishedIsComing
      <4>3. ToSet(sub.queue) \subseteq ToSet(c)
        <5>1. sub.queue \in Seq(T)
          BY <1>17 DEF Subscriber, T
        <5>2. DOMAIN sub.queue = 1..n /\ 1..n \subseteq 1..Len(c)
          BY <1>17, <1>18, <5>1 DEF n
        <5> QED
          BY <1>18, <1>19, <5>2 DEF ToSet
      <4> QED
        BY <1>12, <4>2, <4>3
    <3> QED
      BY <3>1, <3>2
  <2>4. PublishedIsComing'
    <3>1. ToSet(sub.queue)' = ToSet(c)
      BY <2>1 DEF ToSet
    <3> QED
      BY <1>8, <1>13, <1>19, <1>21, <1>22, <1>24, <2>1, <2>3, <3>1 DEF PublishedIsComing
  <2> QED
    BY <1>3, <1>7, <1>14, <1>15, <1>16, <1>20, <2>2, <2>4 DEF FollowInv, StreamParts
<1>25. CASE sub.listening /\ ~(n + Len(s) <= QueueCap)
  <2>1. /\ ~sub'.listening /\ Len(sub'.queue) = QueueCap /\ sub'.queue[QueueCap] = Overflow
        /\ \A k \in 1..(QueueCap - 1) : sub'.queue[k] = c[k + 1]
    BY <1>25, <1>28
  <2>2. DOMAIN sub'.queue = 1..QueueCap /\ QueueCap \in Nat \ {0} /\ QueueCap <= Len(c)
    <3>1. sub'.queue \in Seq(T)
      BY <1>25, <1>28 DEF Subscriber, T
    <3>3. QueueCap <= Len(c)
      BY <1>25, <1>28
    <3> QED
      BY <2>1, <3>1, <3>3, QueueAssumption
  <2>3. c[1] \in Settled'
    <3>1. Head(c) = c[1]
      OBVIOUS
    <3> QED
      BY <1>1, <1>12, <1>25, <2>1, <3>1 DEF c
  <2>4. QueueIsComplete'
    <3> DEFINE q == sub'.queue
    <3> SUFFICES ASSUME NEW k \in 1..QueueCap, q[k] # Overflow
                 PROVE  /\ q[k] \in IdOf(rows)
                        /\ \A i \in Held' : i < q[k] =>
                             i \in Settled' \cup Pending \/ \E j \in 1..(k - 1) : q[j] = i
      BY <1>8, <1>13, <2>2 DEF QueueIsComplete
    <3>1. k \in 1..(QueueCap - 1) /\ k + 1 \in 1..Len(c) /\ (k + 1) - 1 = k /\ k \in Nat
      <4>1. k # QueueCap
        BY <2>1
      <4> QED
        BY <1>19, <2>2, <4>1
    <3>2. q[k] = c[k + 1]
      BY <2>1, <3>1
    <3>3. /\ c[k + 1] \in IdOf(rows)
          /\ \A i \in Held : i < c[k + 1] =>
               i \in Settled' \cup Pending \/ \E j \in 1..((k + 1) - 1) : c[j] = i
      BY <1>21, <1>25, <3>1
    <3>4. ASSUME NEW i \in Held', i < q[k]
          PROVE  i \in Settled' \cup Pending \/ \E j \in 1..(k - 1) : q[j] = i
      <4>1. i \in Settled' \cup Pending \/ \E j \in 1..k : c[j] = i
        BY <1>11, <3>1, <3>2, <3>3, <3>4
      <4>2. ASSUME NEW j \in 1..k, c[j] = i, j # 1 PROVE \E r \in 1..(k - 1) : q[r] = i
        <5>1. j - 1 \in 1..(k - 1) /\ j - 1 \in 1..(QueueCap - 1) /\ (j - 1) + 1 = j
          BY <2>2, <3>1, <4>2
        <5>2. q[j - 1] = i
          BY <2>1, <4>2, <5>1
        <5> QED
          BY <5>1, <5>2
      <4> QED
        BY <2>3, <4>1, <4>2
    <3> QED
      BY <3>2, <3>3, <3>4
  <2>5. PublishedIsComing'
    BY <2>1 DEF PublishedIsComing
  <2> QED
    BY <1>3, <1>7, <1>14, <1>15, <1>16, <1>20, <2>4, <2>5 DEF FollowInv, StreamParts
<1> QED
  BY <1>23, <1>24, <1>25

-----------------------------------------------------------------------------
(* The room a batch was measured for is still there when it commits, unless*)
(* another was measured meanwhile.                                         *)
HasRoom(b) == fresh[b] = {} \/ Cardinality(rows) + Cardinality(fresh[b]) <= MaxEvents

RoomInv ==
  /\ IsFiniteSet(rows)
  /\ \A b \in Batch : pc[b] = "inserted" =>
       IsFiniteSet(own[b]) /\ Cardinality(own[b]) <= Cardinality(fresh[b])
  /\ ~unseen =>
       /\ CeilingHolds
       /\ \A b \in Batch : Uncommitted(b) => HasRoom(b) /\ \A c \in Batch \ {b} : ~Uncommitted(c)

(* Nobody measures, inserts or commits.                                    *)
LEMMA RoomStands ==
  ASSUME RoomInv, rows' = rows, unseen' = FALSE => unseen = FALSE, unseen \in BOOLEAN, unseen' \in BOOLEAN,
         \A b \in Batch : pc'[b] \in {"measured", "inserted"} =>
           pc'[b] = pc[b] /\ own'[b] = own[b] /\ fresh'[b] = fresh[b]
  PROVE  RoomInv'
<1>1. \A b \in Batch : Uncommitted(b)' =>
        Uncommitted(b) /\ pc'[b] = pc[b] /\ own'[b] = own[b] /\ fresh'[b] = fresh[b]
  BY DEF Uncommitted
<1>2. \A b \in Batch : pc'[b] = "inserted" =>
        IsFiniteSet(own'[b]) /\ Cardinality(own'[b]) <= Cardinality(fresh'[b])
  BY DEF RoomInv
<1>3. ASSUME ~unseen'
      PROVE  /\ CeilingHolds'
             /\ \A b \in Batch : Uncommitted(b)' =>
                  HasRoom(b)' /\ \A c \in Batch \ {b} : ~Uncommitted(c)'
  <2>1. ~unseen
    BY <1>3
  <2>2. CeilingHolds'
    BY <2>1 DEF RoomInv, CeilingHolds
  <2> SUFFICES ASSUME NEW b \in Batch, Uncommitted(b)'
               PROVE  HasRoom(b)' /\ \A c \in Batch \ {b} : ~Uncommitted(c)'
    BY <2>2
  <2>3. Uncommitted(b) /\ fresh'[b] = fresh[b]
    BY <1>1
  <2>4. HasRoom(b) /\ \A c \in Batch \ {b} : ~Uncommitted(c)
    BY <2>1, <2>3 DEF RoomInv
  <2>5. HasRoom(b)'
    BY <2>3, <2>4 DEF HasRoom
  <2> QED
    BY <1>1, <2>4, <2>5
<1> QED
  BY <1>2, <1>3 DEF RoomInv

(* One row for each missing line.                                          *)
LEMMA NumberedFits ==
  ASSUME NEW b \in Batch, fresh[b] \subseteq Lines[b], NEW R \in Numbered(b)
  PROVE  IsFiniteSet(R) /\ Cardinality(R) <= Cardinality(fresh[b])
<1>1. IsFiniteSet(fresh[b])
  <2>1. IsFiniteSet(Lines[b])
    BY LogAssumption
  <2> QED
    BY <2>1, FS_Subset
<1>2. PICK f \in [fresh[b] -> nextId..(nextId + Cardinality(fresh[b]) - 1)] :
        R = {[id |-> f[x], line |-> x] : x \in fresh[b]}
  BY DEF Numbered
<1> DEFINE g == [x \in fresh[b] |-> [id |-> f[x], line |-> x]]
<1>3. g \in Surjection(fresh[b], R)
  <2>1. g \in [fresh[b] -> R]
    BY <1>2
  <2>2. ASSUME NEW e \in R PROVE \E x \in fresh[b] : g[x] = e
    BY <1>2
  <2> QED
    BY <2>1, <2>2 DEF Surjection
<1> QED
  BY <1>1, <1>3, FS_Surjection

(* Who is measured now is alone, or a batch goes unseen.                   *)
LEMMA MeasuredAlone ==
  ASSUME NEW b \in Batch, StoreStep, ~Uncommitted(b), Uncommitted(b)', ~unseen'
  PROVE  ~unseen /\ \A c \in Batch \ {b} : ~Uncommitted(c)
BY DEF StoreStep

(* A transaction is measured.                                              *)
LEMMA MeasureRoom ==
  ASSUME FollowInv, RoomInv, StoreStep, NEW b \in Batch, Measure(b)
  PROVE  RoomInv'
<1>1. /\ rows' = rows /\ pc[b] = "begun" /\ fresh' = [fresh EXCEPT ![b] = Lines[b] \ LineOf(rows)]
      /\ pc \in [Batch -> Stages] /\ fresh \in [Batch -> SUBSET Line]
      /\ own \in [Batch -> SUBSET Event(nextId)]
      /\ (unseen => unseen') /\ unseen \in BOOLEAN /\ unseen' \in BOOLEAN
  BY DEF Measure, StoreStep, FollowInv, LogCore, LogTypes, LogTypeOK, ReceivedInOrder, AuditTypeOK
<1>2. \A c \in Batch \ {b} : fresh'[c] = fresh[c]
  BY <1>1
<1>3. ASSUME NEW status, End(b, status) PROVE RoomInv'
  <2>1. \A c \in Batch : pc'[c] \in {"measured", "inserted"} =>
          pc'[c] = pc[c] /\ own'[c] = own[c] /\ fresh'[c] = fresh[c]
    <3>1. pc' = [pc EXCEPT ![b] = "idle"] /\ own' = [own EXCEPT ![b] = {}]
      BY <1>3 DEF End, Goto
    <3>2. pc'[b] = "idle" /\ \A c \in Batch \ {b} : pc'[c] = pc[c] /\ own'[c] = own[c]
      BY <1>1, <3>1
    <3> QED
      BY <1>2, <3>2
  <2> QED
    BY <1>1, <2>1, RoomStands
<1>4. CASE Goto(b, "measured") /\ UNCHANGED <<answer, own>>
           /\ (fresh'[b] = {} \/ Cardinality(rows) + Cardinality(fresh'[b]) <= MaxEvents)
  <2>1. pc'[b] = "measured" /\ \A c \in Batch \ {b} : pc'[c] = pc[c]
    BY <1>1, <1>4 DEF Goto
  <2>2. own' = own
    BY <1>4
  <2>3. \A c \in Batch : pc'[c] = "inserted" =>
          IsFiniteSet(own'[c]) /\ Cardinality(own'[c]) <= Cardinality(fresh'[c])
    BY <1>2, <2>1, <2>2 DEF RoomInv
  <2>4. Uncommitted(b)' /\ ~Uncommitted(b) /\ \A c \in Batch \ {b} : Uncommitted(c)' <=> Uncommitted(c)
    BY <1>1, <2>1 DEF Uncommitted
  <2>5. ASSUME ~unseen'
        PROVE  /\ CeilingHolds'
               /\ \A c \in Batch : Uncommitted(c)' =>
                    HasRoom(c)' /\ \A d \in Batch \ {c} : ~Uncommitted(d)'
    <3>1. ~unseen /\ \A c \in Batch \ {b} : ~Uncommitted(c)
      BY <2>4, <2>5, MeasuredAlone
    <3>2. CeilingHolds'
      BY <1>1, <3>1 DEF RoomInv, CeilingHolds
    <3>3. HasRoom(b)'
      BY <1>1, <1>4 DEF HasRoom
    <3> QED
      BY <2>4, <3>1, <3>2, <3>3
  <2> QED
    BY <1>1, <2>3, <2>5 DEF RoomInv
<1> QED
  BY <1>3, <1>4 DEF Measure

(* What was measured is inserted.                                          *)
LEMMA InsertRoom ==
  ASSUME FollowInv, RoomInv, StoreStep, NEW b \in Batch, Insert(b)
  PROVE  RoomInv'
<1>1. /\ rows' = rows /\ pc[b] = "measured" /\ fresh' = fresh
      /\ pc \in [Batch -> Stages] /\ own \in [Batch -> SUBSET Event(nextId)]
      /\ (unseen => unseen') /\ unseen \in BOOLEAN /\ unseen' \in BOOLEAN
  BY DEF Insert, StoreStep, FollowInv, LogCore, LogTypes, LogTypeOK, ReceivedInOrder, AuditTypeOK
<1>2. CASE End(b, "500")
  <2>1. pc' = [pc EXCEPT ![b] = "idle"] /\ own' = [own EXCEPT ![b] = {}]
    BY <1>2 DEF End, Goto
  <2>2. pc'[b] = "idle" /\ \A c \in Batch \ {b} : pc'[c] = pc[c] /\ own'[c] = own[c]
    BY <1>1, <2>1
  <2> QED
    BY <1>1, <2>2, RoomStands
<1>3. CASE Insertion(b)
  <2>1. PICK R \in Numbered(b) : own' = [own EXCEPT ![b] = R]
    BY <1>3 DEF Insertion
  <2>2. own'[b] = R /\ \A c \in Batch \ {b} : own'[c] = own[c]
    BY <1>1, <2>1
  <2>3. IsFiniteSet(R) /\ Cardinality(R) <= Cardinality(fresh[b])
    BY NumberedFits DEF FollowInv, LogCore, InsertsWhatIsMissing
  <2>4. pc'[b] = "inserted" /\ \A c \in Batch \ {b} : pc'[c] = pc[c]
    BY <1>1, <1>3 DEF Insertion, Goto
  <2>5. \A c \in Batch : pc'[c] = "inserted" =>
          IsFiniteSet(own'[c]) /\ Cardinality(own'[c]) <= Cardinality(fresh'[c])
    BY <1>1, <2>2, <2>3, <2>4 DEF RoomInv
  <2>6. \A c \in Batch : (Uncommitted(c)' <=> Uncommitted(c)) /\ (HasRoom(c)' <=> HasRoom(c))
    BY <1>1, <2>4 DEF Uncommitted, HasRoom
  <2> QED
    BY <1>1, <2>5, <2>6 DEF RoomInv, CeilingHolds
<1> QED
  BY <1>2, <1>3 DEF Insert

(* What was inserted is committed into the room it was measured for.       *)
LEMMA CommitRoom ==
  ASSUME FollowInv, RoomInv, StoreStep, NEW b \in Batch, Commit(b)
  PROVE  RoomInv'
<1>1. /\ rows' = rows \cup own[b] /\ pc[b] = "inserted" /\ fresh' = fresh /\ own' = own
      /\ pc' = [pc EXCEPT ![b] = "committed"] /\ pc \in [Batch -> Stages]
      /\ (unseen => unseen') /\ unseen \in BOOLEAN /\ unseen' \in BOOLEAN
  BY DEF Commit, Goto, StoreStep, FollowInv, LogCore, LogTypes, LogTypeOK, ReceivedInOrder, AuditTypeOK
<1>2. pc'[b] = "committed" /\ \A c \in Batch \ {b} : pc'[c] = pc[c]
  BY <1>1
<1>3. /\ IsFiniteSet(rows) /\ IsFiniteSet(own[b]) /\ Cardinality(own[b]) <= Cardinality(fresh[b])
      /\ IsFiniteSet(fresh[b])
  <2>1. fresh[b] \subseteq Lines[b] /\ IsFiniteSet(Lines[b])
    BY LogAssumption DEF FollowInv, LogCore, InsertsWhatIsMissing
  <2> QED
    BY <1>1, <2>1, FS_Subset DEF RoomInv
<1>4. IsFiniteSet(rows') /\ Cardinality(rows') <= Cardinality(rows) + Cardinality(own[b])
  <2>1. /\ IsFiniteSet(rows \cup own[b])
        /\ Cardinality(rows \cup own[b])
             = Cardinality(rows) + Cardinality(own[b]) - Cardinality(rows \cap own[b])
    BY <1>3, FS_Union
  <2>2. IsFiniteSet(rows \cap own[b])
    BY <1>3, FS_Subset
  <2>3. /\ Cardinality(rows) \in Nat /\ Cardinality(own[b]) \in Nat
        /\ Cardinality(rows \cap own[b]) \in Nat
    BY <1>3, <2>2, FS_CardinalityType
  <2> QED
    BY <1>1, <2>1, <2>3
<1>5. \A c \in Batch : Uncommitted(c)' => c # b /\ Uncommitted(c)
  BY <1>2 DEF Uncommitted
<1>6. ASSUME ~unseen' PROVE CeilingHolds' /\ \A c \in Batch : ~Uncommitted(c)'
  <2>1. /\ ~unseen /\ Uncommitted(b)
    BY <1>1, <1>6 DEF Uncommitted
  <2>2. CeilingHolds /\ HasRoom(b) /\ \A c \in Batch \ {b} : ~Uncommitted(c)
    BY <2>1 DEF RoomInv
  <2>3. Cardinality(rows) \in Nat /\ Cardinality(own[b]) \in Nat /\ Cardinality(fresh[b]) \in Nat
        /\ Cardinality(rows') \in Nat /\ MaxEvents \in Nat
    BY <1>3, <1>4, FS_CardinalityType, LogAssumption
  <2>4. Cardinality(rows') <= MaxEvents
    <3>1. CASE fresh[b] = {}
      <4>1. Cardinality(fresh[b]) = 0
        BY <3>1, FS_EmptySet
      <4> QED
        BY <1>3, <1>4, <2>2, <2>3, <4>1 DEF CeilingHolds
    <3>2. CASE Cardinality(rows) + Cardinality(fresh[b]) <= MaxEvents
      BY <1>3, <1>4, <2>3, <3>2
    <3> QED
      BY <2>2, <3>1, <3>2 DEF HasRoom
  <2> QED
    BY <1>5, <2>2, <2>4 DEF CeilingHolds
<1>7. \A c \in Batch : pc'[c] = "inserted" =>
        IsFiniteSet(own'[c]) /\ Cardinality(own'[c]) <= Cardinality(fresh'[c])
  BY <1>1, <1>2 DEF RoomInv
<1> QED
  BY <1>4, <1>6, <1>7 DEF RoomInv

(* Every transaction keeps the room.                                       *)
LEMMA StoreRoom ==
  ASSUME FollowInv, RoomInv, StoreStep
  PROVE  RoomInv'
<1>1. PICK b \in Batch : Store(b)
  BY DEF StoreStep
<1>2. /\ pc \in [Batch -> Stages] /\ own \in [Batch -> SUBSET Event(nextId)]
      /\ (unseen => unseen') /\ unseen \in BOOLEAN /\ unseen' \in BOOLEAN
  BY DEF StoreStep, FollowInv, LogCore, LogTypes, LogTypeOK, ReceivedInOrder, AuditTypeOK
<1>3. ASSUME rows' = rows, fresh' = fresh, pc'[b] \notin {"measured", "inserted"},
             \A c \in Batch \ {b} : pc'[c] = pc[c] /\ own'[c] = own[c]
      PROVE  RoomInv'
  BY <1>2, <1>3, RoomStands
<1>4. CASE Open(b)
  <2>1. pc' = [pc EXCEPT ![b] = "opened"] /\ rows' = rows /\ fresh' = fresh /\ own' = own
    BY <1>4 DEF Open, Goto
  <2> QED
    BY <1>2, <1>3, <2>1
<1>5. CASE Begin(b)
  <2>1. rows' = rows /\ fresh' = fresh
    BY <1>5 DEF Begin
  <2>2. CASE End(b, "202")
    <3>1. pc' = [pc EXCEPT ![b] = "idle"] /\ own' = [own EXCEPT ![b] = {}]
      BY <2>2 DEF End, Goto
    <3> QED
      BY <1>2, <1>3, <2>1, <3>1
  <2>3. CASE Goto(b, "begun") /\ UNCHANGED <<answer, own>>
    <3>1. pc' = [pc EXCEPT ![b] = "begun"] /\ own' = own
      BY <2>3 DEF Goto
    <3> QED
      BY <1>2, <1>3, <2>1, <3>1
  <2> QED
    BY <1>5, <2>2, <2>3 DEF Begin
<1> QED
  BY <1>1, <1>4, <1>5, MeasureRoom, InsertRoom, CommitRoom DEF Store

(* And so does everybody else.                                             *)
LEMMA NextRoom ==
  ASSUME FollowInv, RoomInv, AuditNext \/ UNCHANGED auditVars
  PROVE  RoomInv'
<1>1. /\ pc \in [Batch -> Stages] /\ own \in [Batch -> SUBSET Event(nextId)] /\ unseen \in BOOLEAN
  BY DEF FollowInv, LogCore, LogTypes, LogTypeOK, ReceivedInOrder, AuditTypeOK
<1>2. CASE PublishStep
  <2>1. PICK b \in Batch : Respond(b)
    BY <1>2 DEF PublishStep
  <2>2. /\ pc' = [pc EXCEPT ![b] = "idle"] /\ own' = [own EXCEPT ![b] = {}] /\ rows' = rows /\ fresh' = fresh
    BY <2>1 DEF Respond, End, Goto
  <2>3. unseen' = unseen
    BY <1>2 DEF PublishStep
  <2>4. pc'[b] = "idle" /\ \A c \in Batch \ {b} : pc'[c] = pc[c] /\ own'[c] = own[c]
    BY <1>1, <2>2
  <2> QED
    BY <1>1, <2>2, <2>3, <2>4, RoomStands
<1>3. CASE CrashStep
  <2>1. rows' = rows /\ unseen' = unseen /\ \A b \in Batch : pc'[b] = "idle"
    BY <1>3 DEF CrashStep, Crash
  <2> QED
    BY <1>1, <2>1, RoomStands
<1>4. CASE Stream \/ Break \/ UNCHANGED auditVars
  <2>1. UNCHANGED logVars /\ unseen' = unseen
    BY <1>4 DEF Stream, Connect, Replay, YieldReplayed, YieldLive, Break, auditVars, streamVars
  <2>2. rows' = rows /\ pc' = pc /\ own' = own /\ fresh' = fresh
    BY <2>1 DEF logVars
  <2> QED
    BY <1>1, <2>1, <2>2, RoomStands
<1> QED
  BY <1>2, <1>3, <1>4, StoreRoom DEF AuditNext

-----------------------------------------------------------------------------
StreamInv == FollowInv /\ RoomInv

LEMMA StreamInit ==
  ASSUME AuditInit
  PROVE  StreamInv
<1> USE DEF AuditInit, LogInit
<1>1. LogTypes
  <2>1. LogTypeOK
    <3>1. rows = {} /\ keys = {} /\ run \in BOOLEAN /\ \A b \in Batch : own[b] = {}
      OBVIOUS
    <3>2. pc \in [Batch -> Stages]
      BY DEF Stages
    <3>3. fresh \in [Batch -> SUBSET Line]
      OBVIOUS
    <3>4. sends \in [Batch -> 0..MaxSends] /\ crashes \in 0..MaxCrashes
      BY LogAssumption
    <3>5. answer \in [Batch -> {"none", "202", "413", "500"}]
      OBVIOUS
    <3> QED
      BY ONLY <3>1, <3>2, <3>3, <3>4, <3>5 DEF LogTypeOK
  <2>2. nextId \in Nat \ {0} /\ own \in [Batch -> SUBSET Event(nextId)]
    OBVIOUS
  <2> QED
    BY <2>1, <2>2 DEF LogTypes
<1>2. InsertsWhatIsMissing /\ StoredOnce /\ OpenIsApart
  BY DEF InsertsWhatIsMissing, StoredOnce, OpenIsApart
<1>3. LogCore
  BY <1>1, <1>2 DEF LogCore
<1>4. OwnIsOpen
  BY DEF OwnIsOpen
<1>5. IdOf(rows) = {} /\ Unpublished = {}
  BY DEF IdOf, Unpublished
<1>6. Held = {}
  BY <1>5 DEF Held
<1>7. DOMAIN received = {} /\ DOMAIN backlog = {} /\ DOMAIN sub.queue = {} /\ ~sub.listening
  BY DEF Unsubscribed
<1>8. ReceivedInOrder
  <2>1. sub \in Subscriber(Nat) /\ Len(sub.queue) <= QueueCap
    BY QueueAssumption DEF Unsubscribed, Subscriber
  <2>2. drops \in 0..MaxDrops
    BY StreamAssumption
  <2>3. /\ link = "down" /\ sub = Unsubscribed /\ backlog = <<>>
        /\ backlog \in Seq(Nat) /\ received \in Seq(Nat) /\ delivered \in Nat /\ unseen \in BOOLEAN
    <3>1. <<>> \in Seq(Nat)
      OBVIOUS
    <3>2. backlog = <<>> /\ received = <<>> /\ link = "down" /\ sub = Unsubscribed
      OBVIOUS
    <3>3. delivered \in Nat /\ unseen \in BOOLEAN
      OBVIOUS
    <3> QED
      BY ONLY <3>1, <3>2, <3>3
  <2>4. AuditTypeOK
    BY ONLY <1>5, <2>1, <2>2, <2>3 DEF AuditTypeOK
  <2> QED
    BY ONLY <1>7, <2>4 DEF ReceivedInOrder
<1>9. CursorIsLast
  BY <1>7 DEF CursorIsLast, LastEventId, ToSet
<1>10. StreamParts
  BY <1>6, <1>7, <1>9 DEF StreamParts, PassedIsSettled, QueueIsComplete, BacklogIsComplete,
                         PublishedIsComing
<1>11. RoomInv
  <2>1. IsFiniteSet(rows) /\ Cardinality(rows) = 0 /\ MaxEvents \in Nat
    BY FS_EmptySet, LogAssumption
  <2>2. CeilingHolds
    BY <2>1 DEF CeilingHolds
  <2>3. \A b \in Batch : pc[b] = "idle"
    OBVIOUS
  <2> QED
    BY <2>1, <2>2, <2>3 DEF RoomInv, Uncommitted
<1> QED
  BY <1>3, <1>4, <1>8, <1>10, <1>11 DEF StreamInv, FollowInv

LEMMA StreamStep ==
  ASSUME StreamInv, [AuditNext]_auditVars
  PROVE  StreamInv'
<1>1. CASE AuditNext
  <2>1. FollowInv'
    BY <1>1, StoreFollows, PublishFollows, CrashFollows, BreakFollows, ConnectFollows, ReplayFollows,
       YieldReplayedFollows, YieldLiveFollows DEF StreamInv, AuditNext, Stream
  <2> QED
    BY <1>1, <2>1, NextRoom DEF StreamInv
<1>2. CASE UNCHANGED auditVars
  BY <1>2, StillFollows, NextRoom DEF StreamInv
<1> QED
  BY <1>1, <1>2

(* Whatever the batches, clients, crashes and breaks, and whatever the     *)
(* queue holds, the invariant of the log and its stream is kept.           *)
LEMMA StreamIsInvariant == AuditSpec => []StreamInv
<1>1. AuditInit => StreamInv
  BY StreamInit
<1>2. StreamInv /\ [AuditNext]_auditVars => StreamInv'
  BY StreamStep
<1> QED
  BY <1>1, <1>2, PTL DEF AuditSpec

(* The client sees each event once and in the order of the log, and the    *)
(* log keeps to its ceiling unless two batches were measured in an overlap.*)
THEOREM LogFollowed == AuditSpec => []LogIsFollowed
<1>1. StreamInv => LogIsFollowed
  BY DEF StreamInv, FollowInv, RoomInv, LogIsFollowed, OnlyOverlapOverflows
<1> QED
  BY <1>1, StreamIsInvariant, PTL

(* An event the cursor has passed was received, was overtaken by a later   *)
(* one's publish, or made room in a full queue.                            *)
THEOREM GapHasACause == AuditSpec => []EveryGapHasACause
<1>1. StreamInv => EveryGapHasACause
  BY DEF StreamInv, FollowInv, StreamParts, CursorIsLast, PassedIsSettled, EveryGapHasACause,
         Passed, Held, Settled
<1> QED
  BY <1>1, StreamIsInvariant, PTL

-----------------------------------------------------------------------------
(* The exported ledger.                                                    *)

LEMMA AppendLemma ==
  ASSUME NEW S, NEW s \in Seq(S), NEW x \in S
  PROVE  /\ Append(s, x) \in Seq(S) /\ Len(Append(s, x)) = Len(s) + 1
         /\ DOMAIN Append(s, x) = 1 .. Len(s) + 1 /\ DOMAIN s = 1 .. Len(s)
         /\ \A i \in 1 .. Len(s) : Append(s, x)[i] = s[i]
         /\ Append(s, x)[Len(s) + 1] = x
OBVIOUS

LEMMA PairLemma ==
  ASSUME NEW S, NEW s \in Seq(S), NEW x \in S, NEW y \in S
  PROVE  /\ s \o <<x, y>> \in Seq(S) /\ DOMAIN s = 1 .. Len(s)
         /\ DOMAIN (s \o <<x, y>>) = 1 .. Len(s) + 2
         /\ \A i \in 1 .. Len(s) : (s \o <<x, y>>)[i] = s[i]
         /\ (s \o <<x, y>>)[Len(s) + 1] = x /\ (s \o <<x, y>>)[Len(s) + 2] = y
<1>1. <<x, y>> \in Seq(S) /\ Len(<<x, y>>) = 2
  OBVIOUS
<1> QED
  BY <1>1

(* What the recorded events are. *)
LEMMA Events ==
  /\ \A e \in CallEvents :
       /\ e.node \in Nodes /\ e.tool \in Tools /\ e.verdict \in {"pass", "deny", "none"}
       /\ e.refs \in Bindings(Refs) /\ e.provenance \in [Args -> Roots \cup {Unrecorded}]
       /\ e.declared \in SUBSET Args
       /\ e.egress \in BOOLEAN /\ e.complete \in BOOLEAN /\ e.floor \in BOOLEAN
       /\ e.root \in Roots \cup {Unrecorded}
  /\ \A e \in ResultEvents :
       e.node \in Nodes /\ e.tool \in Tools /\ e.ref \in Refs \cup {NoRef} /\ e.root \in Roots
  /\ \A e \in OtherEvents : e.node \in Nodes
  /\ Args \subseteq Nat
  BY EventsAssumption

(* Reading an event numbers it past every value there is. *)
LEMMA Reading ==
  ASSUME LedgerIsClosed, NEW e \in CallEvents \cup ResultEvents \cup OtherEvents, Read(e)
  PROVE  /\ recorded' \in Seq(CallEvents \cup ResultEvents \cup OtherEvents)
         /\ Len(recorded) \in Nat /\ Len(recorded') = Now /\ Now \in Nat
         /\ ~Exported
<1>1. recorded \in Seq(CallEvents \cup ResultEvents \cup OtherEvents)
  BY DEF LedgerIsClosed, TypeOK
<1>2. recorded' = Append(recorded, e) /\ package = NotYet
  BY DEF Read
<1>3. recorded' \in Seq(CallEvents \cup ResultEvents \cup OtherEvents) /\ Len(recorded') = Len(recorded) + 1
  BY <1>1, <1>2, AppendLemma
<1>4. Len(recorded) \in Nat
  BY <1>1
<1> QED
  BY <1>2, <1>3, <1>4 DEF Now, Exported, NotYet

(* A step that reads an event and adds nothing. *)
LEMMA NothingAdded ==
  ASSUME LedgerIsClosed, NEW e \in CallEvents \cup ResultEvents \cup OtherEvents, Read(e),
         UNCHANGED <<calls, values, plan, last_call, package>>, reasons \subseteq reasons'
  PROVE  LedgerIsClosed'
<1> USE Reading
<1>1. TypeOK'
  BY DEF LedgerIsClosed, TypeOK, ValueRecord, CallRecord, PlanRecord, Ids
<1>2. ParentsAreEarlier'
  BY DEF LedgerIsClosed, TypeOK, ParentsAreEarlier, ValueRecord, Ids, Now
<1>3. BindingsResolve' /\ PlanResolves' /\ ExportedBindingsResolve'
  BY DEF LedgerIsClosed, BindingsResolve, PlanResolves, ExportedBindingsResolve, Exported, Ids, Used, Given
<1> QED
  BY <1>1, <1>2, <1>3 DEF LedgerIsClosed

LEMMA InitClosed == Init => LedgerIsClosed
<1> SUFFICES ASSUME Init PROVE LedgerIsClosed
  OBVIOUS
<1>1. Ids = {}
  BY DEF Init, Ids
<1>2. TypeOK
  BY <1>1 DEF Init, TypeOK
<1>3. ParentsAreEarlier /\ BindingsResolve /\ PlanResolves /\ ExportedBindingsResolve
  BY <1>1 DEF Init, ParentsAreEarlier, BindingsResolve, PlanResolves, ExportedBindingsResolve, Exported, NotYet
<1> QED
  BY <1>2, <1>3 DEF LedgerIsClosed

(* What a judged call adds to the ledger. *)
LEMMA CallValues ==
  ASSUME LedgerIsClosed, NEW e \in CallEvents, Read(e),
         values' = [v \in Ids \cup Minted(e) |-> IF v \in Ids THEN Bind(e)[v] ELSE ModelValue(e, v[2])]
  PROVE  /\ Ids' = Ids \cup Minted(e)
         /\ \A v \in Ids' : values'[v] \in ValueRecord'
         /\ ParentsAreEarlier'
<1>1. Ids' = Ids \cup Minted(e)
  BY DEF Ids
<1>2. /\ Len(recorded) \in Nat /\ Now \in Nat /\ Now = Len(recorded) + 1 /\ Len(recorded') = Now
  BY Reading DEF Now
<1>3. ASSUME NEW v \in Ids
      PROVE  /\ values'[v] \in ValueRecord'
             /\ values'[v].at = values[v].at /\ values'[v].from = values[v].from
             /\ values[v].at \in Nat /\ values[v].from \subseteq Ids
  <2>1. values[v] \in ValueRecord
    BY DEF LedgerIsClosed, TypeOK
  <2>2. values'[v] = IF values[v].content = 0 /\ v \in Used(e.refs)
                     THEN [values[v] EXCEPT !.content = Now] ELSE values[v]
    BY DEF Bind
  <2> QED
    BY <1>1, <1>2, <2>1, <2>2 DEF ValueRecord
<1>4. ASSUME NEW v \in Minted(e), v \notin Ids
      PROVE  /\ values'[v] \in ValueRecord'
             /\ values'[v].at = Now /\ values'[v].from \subseteq Ids
  <2>1. PICK a \in Composed(e) : v = <<Now, a>>
    BY DEF Minted
  <2>2. values'[v] = ModelValue(e, a)
    BY <1>4, <2>1
  <2>3. e.provenance[a] \in Roots
    BY Events DEF Composed
  <2>4. LiveUntrusted \subseteq Ids
    BY DEF LiveUntrusted
  <2> QED
    BY <1>1, <1>2, <2>2, <2>3, <2>4 DEF ModelValue, ValueRecord
<1>5. \A v \in Ids' : values'[v] \in ValueRecord'
  BY <1>1, <1>3, <1>4
<1>6. ParentsAreEarlier'
  <2> SUFFICES ASSUME NEW v \in Ids'
               PROVE  values'[v].at <= Len(recorded') /\ \A p \in values'[v].from : values'[p].at < values'[v].at
    BY DEF ParentsAreEarlier
  <2>1. \A u \in Ids : values[u].at <= Len(recorded)
    BY DEF LedgerIsClosed, ParentsAreEarlier
  <2>2. CASE v \in Ids
    <3>1. \A p \in values[v].from : p \in Ids /\ values[p].at < values[v].at
      BY <1>3, <2>2 DEF LedgerIsClosed, ParentsAreEarlier
    <3> QED
      BY <1>2, <1>3, <2>1, <2>2, <3>1
  <2>3. CASE v \in Minted(e) /\ v \notin Ids
    <3>1. values'[v].at = Now /\ values'[v].from \subseteq Ids
      BY <1>4, <2>3
    <3>2. \A p \in Ids : values'[p].at = values[p].at /\ values[p].at \in Nat
      BY <1>3
    <3>3. values'[v].at <= Len(recorded')
      BY <1>2, <3>1
    <3>4. ASSUME NEW p \in values'[v].from PROVE values'[p].at < values'[v].at
      <4>1. p \in Ids
        BY <3>1, <3>4
      <4>2. values'[p].at \in Nat /\ values'[p].at <= Len(recorded)
        BY <2>1, <3>2, <4>1
      <4> QED
        BY <1>2, <3>1, <4>2
    <3> QED
      BY <3>3, <3>4
  <2> QED
    BY <1>1, <2>2, <2>3
<1> QED
  BY <1>1, <1>5, <1>6

LEMMA CallIsTyped ==
  ASSUME LedgerIsClosed, NEW e \in CallEvents, Read(e), e.verdict # "none"
  PROVE  Call(e) \in CallRecord
<1>1. Now \in Nat
  BY Reading
<1>2. ArgRefs(e) \in Bindings(Refs \cup MintedIds)
  <2>1. Composed(e) \subseteq Args
    BY Events DEF Composed
  <2>2. \A a \in Composed(e) : <<Now, a>> \in MintedIds
    BY <1>1, <2>1 DEF MintedIds
  <2>3. \A a \in Args : e.refs[a] \in Refs \cup {NoRef}
    BY Events DEF Bindings
  <2> QED
    BY <2>2, <2>3 DEF ArgRefs, Bindings
<1> QED
  BY <1>1, <1>2, Events DEF Call, CallRecord

(* Every binding of the new call is there, was minted with it, or is a reason. *)
LEMMA NewBindings ==
  ASSUME NEW e \in CallEvents
  PROVE  Used(ArgRefs(e)) \subseteq Ids \cup Minted(e) \/ Unknown(e) # {}
<1> SUFFICES ASSUME Unknown(e) = {}, NEW a \in Args, ArgRefs(e)[a] # NoRef
             PROVE  ArgRefs(e)[a] \in Ids \cup Minted(e)
  BY DEF Used, Given
<1>1. CASE a \in Composed(e)
  BY <1>1 DEF ArgRefs, Minted
<1>2. CASE a \notin Composed(e)
  <2>1. a \in Given(e.refs)
    BY <1>2 DEF ArgRefs, Given
  <2> QED
    BY <1>2, <2>1 DEF ArgRefs, Unknown
<1> QED
  BY <1>1, <1>2

LEMMA ScanCallStep == ASSUME LedgerIsClosed, NEW e \in CallEvents, ScanCall(e) PROVE LedgerIsClosed'
<1>1. /\ Read(e) /\ e.verdict # "none" /\ calls' = Append(calls, Call(e))
      /\ values' = [v \in Ids \cup Minted(e) |-> IF v \in Ids THEN Bind(e)[v] ELSE ModelValue(e, v[2])]
      /\ last_call' = [last_call EXCEPT ![e.node] = Len(calls) + 1]
      /\ reasons' = reasons \cup {<<"unknown ref", Now, a>> : a \in Unknown(e)}
      /\ package' = package
  BY DEF ScanCall, Refuse
<1>2. /\ Ids' = Ids \cup Minted(e) /\ ParentsAreEarlier'
      /\ \A v \in Ids' : values'[v] \in ValueRecord'
  BY <1>1, CallValues
<1>3. calls \in Seq(CallRecord) /\ Call(e) \in CallRecord /\ e.node \in Nodes
  BY <1>1, CallIsTyped, Events DEF LedgerIsClosed, TypeOK
<1>4. /\ calls' \in Seq(CallRecord) /\ Len(calls') = Len(calls) + 1 /\ Len(calls) \in Nat
      /\ DOMAIN calls' = 1 .. Len(calls) + 1 /\ DOMAIN calls = 1 .. Len(calls)
      /\ \A i \in 1 .. Len(calls) : calls'[i] = calls[i]
      /\ calls'[Len(calls) + 1] = Call(e)
  <2>1. Len(calls) \in Nat
    BY <1>3
  <2> DEFINE call == Call(e)
  <2>2. calls' = Append(calls, call)
    BY <1>1
  <2>3. calls \in Seq(CallRecord) /\ call \in CallRecord
    BY <1>3
  <2> HIDE DEF call
  <2> QED
    <3>1. /\ calls' \in Seq(CallRecord) /\ Len(calls') = Len(calls) + 1
          /\ DOMAIN calls' = 1 .. Len(calls) + 1 /\ DOMAIN calls = 1 .. Len(calls)
          /\ \A i \in 1 .. Len(calls) : calls'[i] = calls[i]
          /\ calls'[Len(calls) + 1] = call
      BY <2>2, <2>3, AppendLemma
    <3> QED
      BY <2>1, <3>1 DEF call
<1> DEFINE intent == Planned(e.node, "tool_call_intent", Len(calls) + 1, {})
           decision == Planned(e.node, "gate_decision", Len(calls) + 1, {})
<1>5. plan' = plan \o <<intent, decision>>
  BY DEF ScanCall
<1>6. plan \in Seq(PlanRecord) /\ intent \in PlanRecord /\ decision \in PlanRecord
  <2>1. plan \in Seq(PlanRecord)
    BY DEF LedgerIsClosed, TypeOK
  <2>2. Len(calls) + 1 \in Nat
    BY <1>4
  <2> QED
    BY <1>3, <2>1, <2>2 DEF Planned, PlanRecord, TraceTypes
<1>7. intent.call = Len(calls) + 1 /\ intent.produces = {} /\ decision.call = Len(calls) + 1 /\ decision.produces = {}
  BY DEF Planned
<1> HIDE DEF intent, decision
<1>8. /\ plan' \in Seq(PlanRecord) /\ DOMAIN plan = 1 .. Len(plan) /\ DOMAIN plan' = 1 .. Len(plan) + 2
      /\ \A i \in 1 .. Len(plan) : plan'[i] = plan[i]
      /\ plan'[Len(plan) + 1] = intent /\ plan'[Len(plan) + 2] = decision
  BY <1>5, <1>6, PairLemma
<1>9. TypeOK'
  <2>1. last_call' \in [Nodes -> 0 .. Len(calls')]
    <3>1. last_call \in [Nodes -> 0 .. Len(calls)]
      BY DEF LedgerIsClosed, TypeOK
    <3>2. Len(calls) \in Nat /\ Len(calls') = Len(calls) + 1
      BY <1>4
    <3>3. Len(calls) + 1 \in 0 .. Len(calls') /\ 0 .. Len(calls) \subseteq 0 .. Len(calls')
      BY <3>2
    <3>4. last_call' = [last_call EXCEPT ![e.node] = Len(calls) + 1]
      BY <1>1
    <3> QED
      BY <1>3, <3>1, <3>3, <3>4
  <2> QED
    BY <1>1, <1>2, <1>4, <1>8, <2>1, Reading DEF TypeOK
<1>10. BindingsResolve'
  <2> SUFFICES ASSUME NEW i \in DOMAIN calls'
               PROVE  Used(calls'[i].refs) \subseteq Ids' \/ \E r \in reasons' : r[1] = "unknown ref"
    BY DEF BindingsResolve, Used, Given
  <2>1. CASE i \in 1 .. Len(calls)
    BY <1>1, <1>2, <1>4, <2>1 DEF LedgerIsClosed, BindingsResolve
  <2>2. CASE i = Len(calls) + 1
    <3>1. calls'[i].refs = ArgRefs(e)
      BY <1>4, <2>2 DEF Call
    <3>2. ASSUME NEW a \in Unknown(e) PROVE \E r \in reasons' : r[1] = "unknown ref"
      <4>1. <<"unknown ref", Now, a>> \in reasons'
        BY <1>1
      <4> QED
        BY <4>1
    <3> QED
      BY <1>2, <3>1, <3>2, NewBindings
  <2>3. i \in 1 .. Len(calls) + 1 /\ Len(calls) \in Nat
    BY <1>4
  <2>4. i \in 1 .. Len(calls) \/ i = Len(calls) + 1
    BY <2>3
  <2> QED
    BY <2>1, <2>2, <2>4, Zenon
<1>11. PlanResolves'
  <2> SUFFICES ASSUME NEW i \in DOMAIN plan'
               PROVE  plan'[i].call <= Len(calls') /\ plan'[i].produces \subseteq Ids'
    BY DEF PlanResolves
  <2>1. CASE i \in 1 .. Len(plan)
    <3>1. plan[i].call <= Len(calls) /\ plan[i].produces \subseteq Ids /\ plan[i] \in PlanRecord
      BY <1>6, <1>8, <2>1 DEF LedgerIsClosed, PlanResolves
    <3> QED
      BY <1>2, <1>4, <1>8, <2>1, <3>1 DEF PlanRecord
  <2>2. CASE i = Len(plan) + 1 \/ i = Len(plan) + 2
    BY <1>4, <1>7, <1>8, <2>2
  <2>3. Len(plan) \in Nat
    BY <1>6
  <2> QED
    BY <1>8, <2>1, <2>2, <2>3
<1>12. ExportedBindingsResolve'
  BY <1>1, Reading DEF ExportedBindingsResolve, Exported
<1> QED
  BY <1>2, <1>9, <1>10, <1>11, <1>12 DEF LedgerIsClosed

LEMMA ScanResultStep == ASSUME LedgerIsClosed, NEW e \in ResultEvents, ScanResult(e) PROVE LedgerIsClosed'
<1> DEFINE produced == {e.ref} \ {NoRef}
           event == Planned(e.node, "tool_result", 0, produced)
<1>1. /\ Read(e) /\ (e.ref = NoRef \/ e.ref \notin Ids)
      /\ values' = [v \in Ids \cup produced |-> IF v \in Ids THEN values[v] ELSE ToolValue(e)]
      /\ plan' = Append(plan, event)
      /\ UNCHANGED <<calls, last_call, reasons, package>>
  BY DEF ScanResult
<1>2. produced \subseteq Refs /\ e.node \in Nodes /\ e.tool \in Tools /\ e.root \in Roots
  BY Events
<1>3. event \in PlanRecord /\ event.call = 0 /\ event.produces = produced
  BY <1>2 DEF Planned, PlanRecord, TraceTypes
<1>4. ToolValue(e).at = Now /\ ToolValue(e).from \subseteq Ids
  BY DEF ToolValue, DerivedFrom
<1> HIDE DEF produced, event
<1>5. Ids' = Ids \cup produced
  BY <1>1 DEF Ids
<1>6. /\ Len(recorded) \in Nat /\ Now \in Nat /\ Now = Len(recorded) + 1 /\ Len(recorded') = Now
      /\ recorded' \in Seq(CallEvents \cup ResultEvents \cup OtherEvents) /\ ~Exported
  BY <1>1, Reading DEF Now
<1>7. plan \in Seq(PlanRecord) /\ calls \in Seq(CallRecord) /\ Len(calls) \in Nat
  BY DEF LedgerIsClosed, TypeOK
<1>8. /\ plan' \in Seq(PlanRecord) /\ DOMAIN plan = 1 .. Len(plan) /\ DOMAIN plan' = 1 .. Len(plan) + 1
      /\ \A i \in 1 .. Len(plan) : plan'[i] = plan[i]
      /\ plan'[Len(plan) + 1] = event
  BY <1>1, <1>3, <1>7, AppendLemma
<1>9. ASSUME NEW v \in Ids
      PROVE  /\ values'[v] = values[v] /\ values[v] \in ValueRecord /\ values[v].at \in Nat
             /\ values[v].from \subseteq Ids /\ values[v].at <= Len(recorded)
             /\ \A p \in values[v].from : values[p].at < values[v].at
  BY <1>1 DEF LedgerIsClosed, TypeOK, ParentsAreEarlier, ValueRecord
<1>10. ASSUME NEW v \in produced, v \notin Ids
       PROVE  values'[v] = ToolValue(e)
  BY <1>1, <1>10
<1>11. TypeOK'
  <2>1. ASSUME NEW v \in Ids PROVE values'[v] \in ValueRecord'
    BY <1>5, <1>9 DEF ValueRecord
  <2>2. ASSUME NEW v \in produced, v \notin Ids PROVE values'[v] \in ValueRecord'
    BY <1>2, <1>4, <1>5, <1>6, <1>10, <2>2 DEF ToolValue, ValueRecord
  <2> QED
    BY <1>1, <1>5, <1>6, <1>8, <2>1, <2>2 DEF LedgerIsClosed, TypeOK
<1>12. ParentsAreEarlier'
  <2> SUFFICES ASSUME NEW v \in Ids'
               PROVE  values'[v].at <= Len(recorded') /\ \A p \in values'[v].from : values'[p].at < values'[v].at
    BY DEF ParentsAreEarlier
  <2>1. CASE v \in Ids
    BY <1>6, <1>9, <2>1
  <2>2. CASE v \in produced /\ v \notin Ids
    <3>1. values'[v].at = Now /\ values'[v].from \subseteq Ids
      BY <1>4, <1>10, <2>2
    <3> QED
      BY <1>6, <1>9, <3>1
  <2> QED
    BY <1>5, <2>1, <2>2
<1>13. BindingsResolve'
  BY <1>1, <1>5 DEF LedgerIsClosed, BindingsResolve, Used, Given
<1>14. PlanResolves'
  <2> SUFFICES ASSUME NEW i \in DOMAIN plan'
               PROVE  plan'[i].call <= Len(calls') /\ plan'[i].produces \subseteq Ids'
    BY DEF PlanResolves
  <2>1. CASE i \in 1 .. Len(plan)
    BY <1>1, <1>5, <1>8, <2>1 DEF LedgerIsClosed, PlanResolves
  <2>2. CASE i = Len(plan) + 1
    BY <1>1, <1>3, <1>5, <1>7, <1>8, <2>2
  <2> QED
    BY <1>7, <1>8, <2>1, <2>2
<1>15. ExportedBindingsResolve'
  BY <1>1, <1>6 DEF ExportedBindingsResolve, Exported
<1> QED
  BY <1>11, <1>12, <1>13, <1>14, <1>15 DEF LedgerIsClosed

LEMMA ScanOtherStep == ASSUME LedgerIsClosed, NEW e \in OtherEvents, ScanOther(e) PROVE LedgerIsClosed'
<1> DEFINE event == Planned(e.node, TraceType(e), 0, {})
<1>1. Read(e) /\ UNCHANGED <<calls, values, last_call, package>> /\ reasons \subseteq reasons'
  BY DEF ScanOther, Refuse
<1>2. CASE ~Representable(e)
  BY <1>1, <1>2, NothingAdded DEF ScanOther
<1>3. CASE Representable(e)
  <2>1. plan' = Append(plan, event) /\ UNCHANGED reasons
    BY <1>3 DEF ScanOther
  <2>2. event \in PlanRecord /\ event.call = 0 /\ event.produces = {}
    BY Events DEF Planned, PlanRecord, TraceType, TraceTypes
  <2> HIDE DEF event
  <2>3. plan \in Seq(PlanRecord) /\ Len(calls) \in Nat
    BY DEF LedgerIsClosed, TypeOK
  <2>4. /\ plan' \in Seq(PlanRecord) /\ DOMAIN plan = 1 .. Len(plan) /\ DOMAIN plan' = 1 .. Len(plan) + 1
        /\ \A i \in 1 .. Len(plan) : plan'[i] = plan[i]
        /\ plan'[Len(plan) + 1] = event
    BY <2>1, <2>2, <2>3, AppendLemma
  <2>5. TypeOK'
    BY <1>1, <2>4, Reading DEF LedgerIsClosed, TypeOK, ValueRecord, Ids
  <2>6. ParentsAreEarlier'
    BY <1>1, Reading DEF LedgerIsClosed, TypeOK, ParentsAreEarlier, ValueRecord, Ids, Now
  <2>7. BindingsResolve' /\ ExportedBindingsResolve'
    BY <1>1, <2>1 DEF LedgerIsClosed, BindingsResolve, ExportedBindingsResolve, Exported, Ids, Used, Given
  <2>8. PlanResolves'
    <3> SUFFICES ASSUME NEW i \in DOMAIN plan'
                 PROVE  plan'[i].call <= Len(calls') /\ plan'[i].produces \subseteq Ids'
      BY DEF PlanResolves
    <3>1. CASE i \in 1 .. Len(plan)
      BY <1>1, <2>4, <3>1 DEF LedgerIsClosed, PlanResolves, Ids
    <3>2. CASE i = Len(plan) + 1
      BY <1>1, <2>2, <2>3, <2>4, <3>2
    <3> QED
      BY <2>3, <2>4, <3>1, <3>2
  <2> QED
    BY <2>5, <2>6, <2>7, <2>8 DEF LedgerIsClosed
<1> QED
  BY <1>2, <1>3

(* A run that leaves has no reason against it, and so no binding astray. *)
LEMMA ConvertStep == ASSUME LedgerIsClosed, Convert PROVE LedgerIsClosed'
<1>1. /\ UNCHANGED <<recorded, calls, values, plan, last_call>> /\ reasons \subseteq reasons'
      /\ (package'.outcome = "exported" => package' = Export /\ reasons = {})
  BY DEF Convert
<1>2. TypeOK' /\ ParentsAreEarlier' /\ BindingsResolve' /\ PlanResolves'
  BY <1>1 DEF LedgerIsClosed, TypeOK, ParentsAreEarlier, BindingsResolve, PlanResolves,
              ValueRecord, Ids, Used, Given
<1>3. ASSUME package' = Export, reasons = {}, NEW i \in DOMAIN package'.events
      PROVE  Used(package'.events[i].bindings) \subseteq DOMAIN package'.ledger
  <2>1. /\ DOMAIN package'.ledger = Ids /\ i \in DOMAIN plan
        /\ package'.events[i].bindings = IF plan[i].call # 0 THEN calls[plan[i].call].refs ELSE [a \in Args |-> NoRef]
    BY <1>3 DEF Export, TraceEvent
  <2>2. CASE plan[i].call = 0
    BY <2>1, <2>2 DEF Used, Given
  <2>3. CASE plan[i].call # 0
    <3>1. plan[i].call \in DOMAIN calls
      <4>1. plan[i] \in PlanRecord /\ plan[i].call <= Len(calls)
        BY <2>1 DEF LedgerIsClosed, TypeOK, PlanResolves
      <4>2. calls \in Seq(CallRecord)
        BY DEF LedgerIsClosed, TypeOK
      <4>3. DOMAIN calls = 1 .. Len(calls) /\ Len(calls) \in Nat
        BY <4>2
      <4> QED
        BY <2>3, <4>1, <4>3 DEF PlanRecord
    <3> QED
      BY <1>3, <2>1, <2>3, <3>1 DEF LedgerIsClosed, BindingsResolve
  <2> QED
    BY <2>2, <2>3
<1>4. ExportedBindingsResolve'
  BY <1>1, <1>3 DEF ExportedBindingsResolve, Exported, Used, Given
<1> QED
  BY <1>2, <1>4 DEF LedgerIsClosed

(* No exported event binds an argument to a value the exported ledger does  *)
(* not hold, and while the ledger is built every value derives from earlier *)
(* ones only: the scan and the conversion of lab_export.py, for every run.  *)
THEOREM LedgerClosed == Spec => []LedgerIsClosed
<1>1. LedgerIsClosed /\ [Next]_vars => LedgerIsClosed'
  <2> SUFFICES ASSUME LedgerIsClosed, [Next]_vars PROVE LedgerIsClosed'
    OBVIOUS
  <2>1. ASSUME NEW e \in CallEvents, ScanObservation(e) PROVE LedgerIsClosed'
    BY <2>1, NothingAdded DEF ScanObservation, Refuse
  <2>2. ASSUME NEW e \in ResultEvents, ScanReminted(e) PROVE LedgerIsClosed'
    BY <2>2, NothingAdded DEF ScanReminted, Refuse
  <2>3. CASE UNCHANGED vars
    BY ZenonT(60), <2>3 DEF vars, LedgerIsClosed, TypeOK, ParentsAreEarlier, BindingsResolve, PlanResolves,
                ExportedBindingsResolve, Exported, ValueRecord, Ids, Used, Given
  <2> QED
    BY <2>1, <2>2, <2>3, ScanCallStep, ScanResultStep, ScanOtherStep, ConvertStep DEF Next, Scan
<1> QED
  BY InitClosed, <1>1, PTL DEF Spec
-----------------------------------------------------------------------------
(* Where the taint of a value entered.                                     *)

(* What the walk back from a value has seen is closed, and in every set that *)
(* is.                                                                      *)
LEMMA SeenIsLeast ==
  ASSUME NEW v \in Ids
  PROVE  /\ v \in Seen(v) /\ Seen(v) \subseteq Ids /\ Seen(v) \in ClosedFrom(v)
         /\ \A S \in ClosedFrom(v) : Seen(v) \subseteq S
  BY DEF Seen, ClosedFrom

LEMMA SeenOfARoot ==
  ASSUME NEW v \in Ids, v \notin LiveUntrusted \/ values[v].from \cap Ids = {}
  PROVE  Seen(v) = {v}
<1>1. {v} \in ClosedFrom(v)
  BY DEF ClosedFrom
<1> QED
  BY <1>1, SeenIsLeast

LEMMA SeenOfADerived ==
  ASSUME NEW v \in LiveUntrusted
  PROVE  Seen(v) = {v} \cup UNION {Seen(p) : p \in values[v].from \cap Ids}
<1> DEFINE parents == values[v].from \cap Ids
           back == {v} \cup UNION {Seen(p) : p \in parents}
<1>1. v \in Ids
  BY DEF LiveUntrusted
<1>2. ASSUME NEW p \in parents PROVE Seen(p) \subseteq Seen(v)
  <2>1. p \in Seen(v)
    BY <1>1, SeenIsLeast DEF ClosedFrom
  <2>2. Seen(v) \in ClosedFrom(p)
    BY <1>1, <2>1, SeenIsLeast DEF ClosedFrom
  <2> QED
    BY <2>2, SeenIsLeast
<1>3. back \in ClosedFrom(v)
  <2>1. back \subseteq Ids
    BY <1>1, SeenIsLeast
  <2>2. ASSUME NEW u \in back \cap LiveUntrusted, NEW w \in values[u].from \cap Ids PROVE w \in back
    <3>1. CASE u = v
      <4>1. w \in parents /\ w \in Seen(w)
        BY <2>2, <3>1, SeenIsLeast
      <4> QED
        BY <4>1
    <3>2. CASE u # v
      <4>1. PICK p \in parents : u \in Seen(p)
        BY <3>2
      <4>2. w \in Seen(p)
        BY <2>2, <4>1, SeenIsLeast DEF ClosedFrom
      <4> QED
        BY <4>1, <4>2
    <3> QED
      BY <3>1, <3>2
  <2> QED
    BY <1>1, <2>1, <2>2 DEF ClosedFrom
<1>4. Seen(v) \subseteq back
  BY <1>1, <1>3, SeenIsLeast
<1>5. back \subseteq Seen(v)
  BY <1>1, <1>2, SeenIsLeast
<1> QED
  BY <1>4, <1>5

(* The sources of a value are those of its parents, but for a root. *)
LEMMA SourcesOfAValue ==
  ASSUME LedgerIsClosed, NEW v \in Ids
  PROVE  OriginSources(v) =
           IF ~Untrusted(v) THEN {}
           ELSE IF values[v].from = {} THEN {values[v].tool} \ {NoTool}
           ELSE UNION {OriginSources(p) : p \in values[v].from}
<1>1. values[v].from \subseteq Ids
  BY DEF LedgerIsClosed, TypeOK, ValueRecord
<1>2. CASE ~Untrusted(v)
  <2>1. Seen(v) = {v}
    BY <1>2, SeenOfARoot DEF LiveUntrusted
  <2> QED
    BY <1>2, <2>1 DEF OriginSources
<1>3. CASE Untrusted(v) /\ values[v].from = {}
  <2>1. Seen(v) = {v}
    BY <1>3, SeenOfARoot
  <2> QED
    BY <1>3, <2>1 DEF OriginSources, Enters
<1>4. CASE Untrusted(v) /\ values[v].from # {}
  <2>1. Seen(v) = {v} \cup UNION {Seen(p) : p \in values[v].from}
    <3>1. v \in LiveUntrusted /\ values[v].from \cap Ids = values[v].from
      BY <1>1, <1>4 DEF LiveUntrusted
    <3> QED
      BY <3>1, SeenOfADerived
  <2>2. ~Enters(v)
    BY <1>4 DEF Enters
  <2>3. OriginSources(v) = UNION {OriginSources(p) : p \in values[v].from}
    BY <2>1, <2>2 DEF OriginSources
  <2> QED
    BY <1>4, <2>3
<1> QED
  BY <1>2, <1>3, <1>4

(* Numbers are well ordered.                                               *)
Less == {p \in Nat \X Nat : p[1] < p[2]}

LEMMA LessIsWellFounded == IsWellFoundedOn(Less, Nat)
  BY NatLessThanWellFounded DEF OpToRel, Less

(* A set of numbers that is not empty has a least one.                     *)
LEMMA Least ==
  ASSUME NEW S \in SUBSET Nat, S # {}
  PROVE  \E m \in S : \A n \in S : m <= n
<1>1. PICK m \in S : \A n \in S : ~ (<<n, m>> \in Less)
  <2>1. S \subseteq Nat
    OBVIOUS
  <2> QED
    BY ONLY LessIsWellFounded, WFMin, <2>1, S # {}
<1>2. ASSUME NEW n \in S PROVE m <= n
  <2>1. m \in Nat /\ n \in Nat /\ <<n, m>> \in Nat \X Nat /\ ~ (<<n, m>> \in Less)
    BY <1>1
  <2>2. ~(n < m)
    <3> SUFFICES ASSUME n < m PROVE FALSE
      OBVIOUS
    <3> QED
      BY <2>1 DEF Less
  <2> QED
    BY <2>1, <2>2
<1> QED
  BY <1>2

LEMMA MinLemma == ASSUME NEW S \in SUBSET Nat, S # {} PROVE Min(S) \in S
  BY Least DEF Min

(* The reference function is there, and is the walk: both follow the same    *)
(* equation, and of the values they might disagree on there is no first.     *)
LEMMA TaintedByIsOrigin ==
  ASSUME LedgerIsClosed
  PROVE  \A v \in Ids : TaintedBy[v] = OriginSources(v)
<1> DEFINE Root(f, v) ==
             IF ~Untrusted(v) THEN {}
             ELSE IF values[v].from = {} THEN {values[v].tool} \ {NoTool}
             ELSE UNION {f[p] : p \in values[v].from}
           Fits(f) == f = [v \in Ids |-> Root(f, v)]
           sources == [v \in Ids |-> OriginSources(v)]
<1>1. \A v \in Ids : values[v].from \subseteq Ids /\ values[v].at \in Nat
  BY DEF LedgerIsClosed, TypeOK, ValueRecord
<1>2. \A v \in Ids : \A p \in values[v].from : values[p].at < values[v].at
  BY DEF LedgerIsClosed, ParentsAreEarlier
<1>3. Fits(sources)
  <2>1. ASSUME NEW v \in Ids PROVE sources[v] = Root(sources, v)
    <3>1. {OriginSources(p) : p \in values[v].from} = {sources[p] : p \in values[v].from}
      BY <1>1
    <3> QED
      BY <3>1, SourcesOfAValue
  <2> QED
    BY <2>1
<1>4. TaintedBy = CHOOSE f : Fits(f)
  BY DEF TaintedBy
<1>5. Fits(TaintedBy)
  <2> HIDE DEF Fits, sources
  <2> QED
    BY <1>3, <1>4, Zenon
<1>6. ASSUME NEW v \in Ids PROVE TaintedBy[v] = Root(TaintedBy, v) /\ sources[v] = Root(sources, v)
  BY ONLY <1>3, <1>5, v \in Ids
<1>7. SUFFICES ASSUME NEW x \in Ids, TaintedBy[x] # sources[x] PROVE FALSE
  OBVIOUS
<1> DEFINE apart == {values[v].at : v \in {u \in Ids : TaintedBy[u] # sources[u]}}
<1>8. apart \in SUBSET Nat /\ apart # {}
  BY <1>1, <1>7
<1>9. PICK v \in Ids : TaintedBy[v] # sources[v] /\ \A u \in Ids : TaintedBy[u] # sources[u] => values[v].at <= values[u].at
  <2> HIDE DEF sources
  <2>1. PICK m \in apart : \A n \in apart : m <= n
    BY <1>8, Least
  <2> QED
    BY <2>1
<1> HIDE DEF sources
<1>10. ASSUME NEW p \in values[v].from PROVE TaintedBy[p] = sources[p]
  BY <1>1, <1>2, <1>9
<1>11. Root(TaintedBy, v) = Root(sources, v)
  BY <1>10
<1> QED
  BY <1>6, <1>9, <1>11
-----------------------------------------------------------------------------
(* The exported package.  While a run is read with nothing against it, each  *)
(* of its calls is planned in its place, as an intent and the decision after *)
(* it, and each recorded value has the content of its first use.            *)
PlanDecided == {i \in DOMAIN plan : plan[i].type = "gate_decision"}
PlanIntended == {i \in DOMAIN plan : plan[i].type = "tool_call_intent"}

PlanIsPaired ==
  /\ Cardinality(PlanDecided) = Len(calls) /\ Cardinality(PlanIntended) = Len(calls)
  /\ \A i \in PlanDecided :
       /\ i - 1 \in PlanIntended /\ plan[i - 1].node = plan[i].node /\ plan[i - 1].call = plan[i].call
       /\ plan[i].call = Place(PlanDecided, i) /\ plan[i].node = calls[plan[i].call].node

CallIsRecorded(k) ==
  LET call == calls[Place(Judged, k)] IN
  /\ call.node = recorded[k].node /\ call.verdict = recorded[k].verdict
  /\ \A a \in Given(recorded[k].refs) : call.refs[a] = recorded[k].refs[a]

CallsAreJudged == reasons = {} => Cardinality(Judged) = Len(calls) /\ \A k \in Judged : CallIsRecorded(k)

ContentIsFirstUse ==
  reasons = {} =>
    \A v \in Refs : IF v \in Ids THEN values[v].content = IF Uses(v) = {} THEN 0 ELSE Min(Uses(v))
                    ELSE Uses(v) = {}

SourcesAreOrigins ==
  Exported => DOMAIN package.ledger = Ids /\ \A v \in Ids : package.ledger[v].sources = OriginSources(v)

PackageInv == PlanIsPaired /\ CallsAreJudged /\ ContentIsFirstUse /\ PackageIsFaithful /\ SourcesAreOrigins

(* A place is a count of what is there so far, and what comes after moves    *)
(* none.                                                                    *)
LEMMA PlaceFacts ==
  ASSUME NEW n \in Nat, NEW S \in SUBSET (1 .. n)
  PROVE  /\ IsFiniteSet(S) /\ Cardinality(S) \in Nat
         /\ \A k \in S : Place(S, k) \in 1 .. Cardinality(S)
<1>1. IsFiniteSet(S) /\ Cardinality(S) \in Nat
  <2>1. IsFiniteSet(1 .. n) /\ S \subseteq 1 .. n
    BY FS_Interval
  <2> QED
    BY <2>1, FS_Subset, FS_CardinalityType
<1>2. ASSUME NEW k \in S PROVE Place(S, k) \in 1 .. Cardinality(S)
  <2> DEFINE sofar == {j \in S : j <= k}
  <2>1. sofar \subseteq S /\ k \in sofar
    OBVIOUS
  <2>2. IsFiniteSet(sofar) /\ Cardinality(sofar) \in Nat /\ Cardinality(sofar) <= Cardinality(S)
    BY <1>1, <2>1, FS_Subset, FS_CardinalityType
  <2>3. Cardinality(sofar) # 0
    BY <2>1, <2>2, FS_EmptySet
  <2> QED
    BY <1>1, <2>2, <2>3 DEF Place
<1> QED
  BY <1>1, <1>2

LEMMA PlaceAdded ==
  ASSUME NEW n \in Nat, NEW S \in SUBSET (1 .. n), NEW m \in Nat, m > n
  PROVE  /\ Cardinality(S \cup {m}) = Cardinality(S) + 1
         /\ Place(S \cup {m}, m) = Cardinality(S) + 1
         /\ \A k \in S : Place(S \cup {m}, k) = Place(S, k)
<1>1. IsFiniteSet(S) /\ \A j \in S : j \in Nat /\ j < m
  <2>1. IsFiniteSet(S)
    BY PlaceFacts
  <2>2. ASSUME NEW j \in S PROVE j \in Nat /\ j < m
    <3>1. j \in 1 .. n
      OBVIOUS
    <3> QED
      BY <3>1
  <2> QED
    BY <2>1, <2>2
<1>2. Cardinality(S \cup {m}) = Cardinality(S) + 1
  BY <1>1, FS_AddElement
<1>3. {j \in S \cup {m} : j <= m} = S \cup {m}
  <2>1. \A j \in S \cup {m} : j <= m
    BY <1>1
  <2> QED
    BY <2>1
<1>4. ASSUME NEW k \in S PROVE {j \in S \cup {m} : j <= k} = {j \in S : j <= k}
  BY <1>1
<1> QED
  BY <1>2, <1>3, <1>4 DEF Place

LEMMA PairsStay ==
  ASSUME PlanIsPaired, UNCHANGED calls, PlanDecided' = PlanDecided, PlanIntended' = PlanIntended,
         \A i \in PlanDecided \cup PlanIntended : plan'[i] = plan[i]
  PROVE  PlanIsPaired'
<1>1. Cardinality(PlanDecided') = Len(calls') /\ Cardinality(PlanIntended') = Len(calls')
  BY DEF PlanIsPaired
<1>2. ASSUME NEW i \in PlanDecided'
      PROVE  /\ i - 1 \in PlanIntended' /\ plan'[i - 1].node = plan'[i].node /\ plan'[i - 1].call = plan'[i].call
             /\ plan'[i].call = Place(PlanDecided', i) /\ plan'[i].node = calls'[plan'[i].call].node
  <2>1. /\ i - 1 \in PlanIntended /\ plan[i - 1].node = plan[i].node /\ plan[i - 1].call = plan[i].call
        /\ plan[i].call = Place(PlanDecided, i) /\ plan[i].node = calls[plan[i].call].node
    BY DEF PlanIsPaired
  <2>2. plan'[i] = plan[i] /\ plan'[i - 1] = plan[i - 1]
    BY <2>1
  <2>3. Place(PlanDecided', i) = Place(PlanDecided, i)
    BY DEF Place
  <2> QED
    BY <2>1, <2>2, <2>3
<1> QED
  BY <1>1, <1>2 DEF PlanIsPaired, Place

(* A step that plans no call leaves those planned as they were.              *)
LEMMA OthersPlanned ==
  ASSUME LedgerIsClosed, PlanIsPaired, UNCHANGED calls,
         \/ UNCHANGED plan
         \/ \E event \in PlanRecord :
              plan' = Append(plan, event) /\ event.type \notin {"gate_decision", "tool_call_intent"}
  PROVE  PlanIsPaired'
<1>1. CASE UNCHANGED plan
  BY <1>1, PairsStay DEF PlanDecided, PlanIntended
<1>2. CASE ~UNCHANGED plan
  <2>1. PICK event \in PlanRecord :
          plan' = Append(plan, event) /\ event.type \notin {"gate_decision", "tool_call_intent"}
    BY <1>2
  <2>2. plan \in Seq(PlanRecord)
    BY DEF LedgerIsClosed, TypeOK
  <2>3. Len(plan) \in Nat
    BY <2>2
  <2>4. /\ DOMAIN plan = 1 .. Len(plan) /\ DOMAIN plan' = 1 .. Len(plan) + 1
        /\ \A i \in 1 .. Len(plan) : plan'[i] = plan[i]
        /\ plan'[Len(plan) + 1] = event
    BY <2>1, <2>2, AppendLemma
  <2>5. PlanDecided' = PlanDecided /\ PlanIntended' = PlanIntended
    <3>1. DOMAIN plan' = DOMAIN plan \cup {Len(plan) + 1} /\ \A i \in DOMAIN plan : plan'[i] = plan[i]
      BY <2>3, <2>4
    <3> QED
      BY <2>1, <2>4, <3>1 DEF PlanDecided, PlanIntended
  <2>6. \A i \in PlanDecided \cup PlanIntended : plan'[i] = plan[i]
    BY <2>4 DEF PlanDecided, PlanIntended
  <2> QED
    BY <2>5, <2>6, PairsStay
<1> QED
  BY <1>1, <1>2

LEMMA CallPlanned ==
  ASSUME LedgerIsClosed, PlanIsPaired, NEW e \in CallEvents, ScanCall(e)
  PROVE  PlanIsPaired'
<1> DEFINE n == Len(plan)
           c == Len(calls) + 1
           intent == Planned(e.node, "tool_call_intent", c, {})
           decision == Planned(e.node, "gate_decision", c, {})
           call == Call(e)
<1>1. plan' = plan \o <<intent, decision>> /\ calls' = Append(calls, call) /\ Read(e) /\ e.verdict # "none"
  BY DEF ScanCall
<1>2. plan \in Seq(PlanRecord) /\ calls \in Seq(CallRecord) /\ call \in CallRecord
  BY <1>1, CallIsTyped DEF LedgerIsClosed, TypeOK
<1>3. n \in Nat /\ c \in Nat /\ c = Len(calls) + 1 /\ Len(calls) \in Nat
  BY <1>2
<1>4. intent \in PlanRecord /\ decision \in PlanRecord
  BY <1>3, Events DEF Planned, PlanRecord, TraceTypes
<1>5. /\ intent.node = e.node /\ intent.type = "tool_call_intent" /\ intent.call = c
      /\ decision.node = e.node /\ decision.type = "gate_decision" /\ decision.call = c
      /\ call.node = e.node
  BY DEF Planned, Call
<1> HIDE DEF intent, decision, call
<1>6. /\ DOMAIN plan = 1 .. n /\ DOMAIN plan' = 1 .. n + 2
      /\ \A i \in 1 .. n : plan'[i] = plan[i]
      /\ plan'[n + 1] = intent /\ plan'[n + 2] = decision
  BY <1>1, <1>2, <1>4, PairLemma
<1>7. Len(calls') = c /\ calls'[c] = call /\ \A i \in 1 .. Len(calls) : calls'[i] = calls[i]
  BY <1>1, <1>2, AppendLemma
<1> HIDE DEF n, c
<1>8. PlanDecided \in SUBSET (1 .. n) /\ PlanIntended \in SUBSET (1 .. n)
  BY <1>6 DEF PlanDecided, PlanIntended
<1>9. PlanDecided' = PlanDecided \cup {n + 2} /\ PlanIntended' = PlanIntended \cup {n + 1}
  BY <1>3, <1>5, <1>6 DEF PlanDecided, PlanIntended
<1>10. /\ Cardinality(PlanDecided') = Len(calls') /\ Cardinality(PlanIntended') = Len(calls')
       /\ Place(PlanDecided', n + 2) = c
       /\ \A i \in PlanDecided : Place(PlanDecided', i) = Place(PlanDecided, i)
  <2>1. n + 2 \in Nat /\ n + 2 > n /\ n + 1 \in Nat /\ n + 1 > n
    BY <1>3
  <2>2. Cardinality(PlanDecided) = Len(calls) /\ Cardinality(PlanIntended) = Len(calls)
    BY DEF PlanIsPaired
  <2>3. /\ Cardinality(PlanDecided \cup {n + 2}) = Cardinality(PlanDecided) + 1
        /\ Place(PlanDecided \cup {n + 2}, n + 2) = Cardinality(PlanDecided) + 1
        /\ \A i \in PlanDecided : Place(PlanDecided \cup {n + 2}, i) = Place(PlanDecided, i)
    BY ZenonT(60), <1>3, <1>8, <2>1, PlaceAdded
  <2>4. Cardinality(PlanIntended \cup {n + 1}) = Cardinality(PlanIntended) + 1
    BY ZenonT(60), <1>3, <1>8, <2>1, PlaceAdded
  <2> QED
    BY <1>3, <1>7, <1>9, <2>2, <2>3, <2>4
<1>11. ASSUME NEW i \in PlanDecided
       PROVE  /\ i - 1 \in PlanIntended' /\ plan'[i - 1].node = plan'[i].node /\ plan'[i - 1].call = plan'[i].call
              /\ plan'[i].call = Place(PlanDecided, i) /\ plan'[i].node = calls'[plan'[i].call].node
  <2>1. /\ i - 1 \in PlanIntended /\ plan[i - 1].node = plan[i].node /\ plan[i - 1].call = plan[i].call
        /\ plan[i].call = Place(PlanDecided, i) /\ plan[i].node = calls[plan[i].call].node
        /\ Cardinality(PlanDecided) = Len(calls)
    BY DEF PlanIsPaired
  <2>2. Place(PlanDecided, i) \in 1 .. Len(calls)
    BY <1>3, <1>8, <2>1, PlaceFacts
  <2> QED
    BY <1>6, <1>7, <1>8, <1>9, <2>1, <2>2
<1>12. /\ n + 2 - 1 \in PlanIntended' /\ plan'[n + 2 - 1].node = plan'[n + 2].node
       /\ plan'[n + 2 - 1].call = plan'[n + 2].call
       /\ plan'[n + 2].call = c /\ plan'[n + 2].node = calls'[c].node
  <2>1. n + 2 - 1 = n + 1
    BY <1>3
  <2> QED
    BY <1>5, <1>6, <1>7, <1>9, <2>1
<1>13. ASSUME NEW i \in PlanDecided'
       PROVE  /\ i - 1 \in PlanIntended' /\ plan'[i - 1].node = plan'[i].node /\ plan'[i - 1].call = plan'[i].call
              /\ plan'[i].call = Place(PlanDecided', i) /\ plan'[i].node = calls'[plan'[i].call].node
  <2>1. CASE i \in PlanDecided
    <3>1. Place(PlanDecided', i) = Place(PlanDecided, i)
      BY <1>10, <2>1
    <3> QED
      BY <1>11, <2>1, <3>1
  <2>2. CASE i = n + 2
    <3>1. Place(PlanDecided', i) = Place(PlanDecided', n + 2)
      BY <2>2 DEF Place
    <3>2. i - 1 = n + 2 - 1 /\ plan'[i] = plan'[n + 2]
      BY <1>3, <2>2
    <3> QED
      BY <1>10, <1>12, <3>1, <3>2
  <2> QED
    BY <1>9, <2>1, <2>2
<1> QED
  BY <1>10, <1>13 DEF PlanIsPaired, Place

(* What reading an event does to the positions of the judged calls, and of   *)
(* the uses of a value.                                                      *)
LEMMA EventRead ==
  ASSUME LedgerIsClosed, NEW e \in CallEvents \cup ResultEvents \cup OtherEvents, Read(e)
  PROVE  /\ Now \in Nat /\ Now = Len(recorded) + 1 /\ Len(recorded) \in Nat
         /\ Judged \in SUBSET (1 .. Len(recorded))
         /\ \A k \in 1 .. Len(recorded) : recorded'[k] = recorded[k]
         /\ recorded'[Now] = e
         /\ Judged' = IF e.kind = "tool_call" THEN Judged \cup {Now} ELSE Judged
         /\ \A v : /\ Uses(v) \in SUBSET (1 .. Len(recorded))
                   /\ Uses(v)' = IF e.kind = "tool_call" /\ v \in Used(e.refs) THEN Uses(v) \cup {Now} ELSE Uses(v)
<1>1. recorded \in Seq(CallEvents \cup ResultEvents \cup OtherEvents) /\ recorded' = Append(recorded, e)
  BY DEF LedgerIsClosed, TypeOK, Read
<1>2. /\ DOMAIN recorded = 1 .. Len(recorded) /\ DOMAIN recorded' = 1 .. Len(recorded) + 1
      /\ \A k \in 1 .. Len(recorded) : recorded'[k] = recorded[k]
      /\ recorded'[Len(recorded) + 1] = e
  BY <1>1, AppendLemma
<1>3. Now \in Nat /\ Now = Len(recorded) + 1 /\ Len(recorded) \in Nat
  BY <1>1 DEF Now
<1>4. Judged' = IF e.kind = "tool_call" THEN Judged \cup {Now} ELSE Judged
  BY <1>2, <1>3 DEF Judged
<1>5. ASSUME NEW v
      PROVE  /\ Uses(v) \in SUBSET (1 .. Len(recorded))
             /\ Uses(v)' = IF e.kind = "tool_call" /\ v \in Used(e.refs) THEN Uses(v) \cup {Now} ELSE Uses(v)
  BY <1>2, <1>3 DEF Uses, Used, Given
<1> QED
  BY <1>2, <1>3, <1>4, <1>5 DEF Judged

(* An event that refuses the run leaves no case to answer for its calls, and *)
(* one that is no call adds none.                                           *)
LEMMA NotACall ==
  ASSUME LedgerIsClosed, CallsAreJudged, NEW e \in CallEvents \cup ResultEvents \cup OtherEvents, Read(e),
         UNCHANGED calls, reasons \subseteq reasons', e.kind # "tool_call" \/ reasons' # {}
  PROVE  CallsAreJudged'
<1> SUFFICES ASSUME reasons' = {}
             PROVE  Cardinality(Judged') = Len(calls') /\ \A k \in Judged' : CallIsRecorded(k)'
  BY DEF CallsAreJudged
<1>1. Judged' = Judged /\ reasons = {} /\ \A k \in Judged : recorded'[k] = recorded[k]
  BY EventRead
<1>2. Cardinality(Judged) = Len(calls) /\ \A k \in Judged : CallIsRecorded(k)
  BY <1>1 DEF CallsAreJudged
<1> QED
  BY <1>1, <1>2 DEF CallIsRecorded, Place, Given

LEMMA CallJudged ==
  ASSUME LedgerIsClosed, CallsAreJudged, NEW e \in CallEvents, ScanCall(e)
  PROVE  CallsAreJudged'
<1> DEFINE call == Call(e)
<1>1. Read(e) /\ e.verdict # "none" /\ calls' = Append(calls, call) /\ reasons \subseteq reasons'
  BY DEF ScanCall, Refuse
<1>2. calls \in Seq(CallRecord) /\ call \in CallRecord
  BY <1>1, CallIsTyped DEF LedgerIsClosed, TypeOK
<1>3. /\ call.node = e.node /\ call.verdict = e.verdict
      /\ \A a \in Given(e.refs) : call.refs[a] = e.refs[a]
  <2>1. ASSUME NEW a \in Given(e.refs) PROVE ArgRefs(e)[a] = e.refs[a]
    BY DEF ArgRefs, Composed, Given
  <2> QED
    BY <2>1 DEF Call
<1> HIDE DEF call
<1>4. /\ Len(calls') = Len(calls) + 1 /\ Len(calls) \in Nat /\ calls'[Len(calls) + 1] = call
      /\ \A i \in 1 .. Len(calls) : calls'[i] = calls[i]
  <2>1. Len(calls) \in Nat
    BY <1>2
  <2> QED
    BY <1>1, <1>2, <2>1, AppendLemma
<1>5. /\ Now \in Nat /\ Now > Len(recorded) /\ Len(recorded) \in Nat
      /\ Judged \in SUBSET (1 .. Len(recorded)) /\ Judged' = Judged \cup {Now}
      /\ recorded'[Now] = e /\ \A k \in Judged : recorded'[k] = recorded[k]
  <2>1. e.kind = "tool_call"
    BY EventsAssumption
  <2> QED
    BY <1>1, <2>1, EventRead
<1> SUFFICES ASSUME reasons' = {}
             PROVE  Cardinality(Judged') = Len(calls') /\ \A k \in Judged' : CallIsRecorded(k)'
  BY DEF CallsAreJudged
<1>6. Cardinality(Judged) = Len(calls) /\ \A k \in Judged : CallIsRecorded(k)
  BY <1>1 DEF CallsAreJudged
<1>7. /\ Cardinality(Judged') = Len(calls) + 1 /\ Place(Judged', Now) = Len(calls) + 1
      /\ \A k \in Judged : Place(Judged', k) = Place(Judged, k) /\ Place(Judged, k) \in 1 .. Len(calls)
  <2>1. /\ Cardinality(Judged \cup {Now}) = Cardinality(Judged) + 1
        /\ Place(Judged \cup {Now}, Now) = Cardinality(Judged) + 1
        /\ \A k \in Judged : Place(Judged \cup {Now}, k) = Place(Judged, k)
    BY <1>5, PlaceAdded
  <2>2. \A k \in Judged : Place(Judged, k) \in 1 .. Cardinality(Judged)
    BY <1>5, PlaceFacts
  <2> QED
    BY <1>5, <1>6, <2>1, <2>2
<1>8. ASSUME NEW k \in Judged'
      PROVE  LET new == calls'[Place(Judged', k)] IN
             /\ new.node = recorded'[k].node /\ new.verdict = recorded'[k].verdict
             /\ \A a \in Given(recorded'[k].refs) : new.refs[a] = recorded'[k].refs[a]
  <2>1. CASE k \in Judged
    <3>1. calls'[Place(Judged', k)] = calls[Place(Judged, k)] /\ recorded'[k] = recorded[k]
      BY <1>4, <1>5, <1>7, <2>1
    <3> QED
      BY <1>6, <2>1, <3>1 DEF CallIsRecorded
  <2>2. CASE k = Now
    <3>1. calls'[Place(Judged', Now)] = call /\ recorded'[Now] = e
      BY <1>4, <1>5, <1>7
    <3> QED
      BY <1>3, <2>2, <3>1
  <2> QED
    BY <1>5, <2>1, <2>2
<1> QED
  BY <1>4, <1>7, <1>8 DEF CallIsRecorded, Place, Given

(* The least of a set is what is in it and at most each of them.             *)
LEMMA MinOf == ASSUME NEW S \in SUBSET Nat, S # {} PROVE Min(S) \in S /\ \A n \in S : Min(S) <= n
  BY Least DEF Min

LEMMA MinIs ==
  ASSUME NEW S \in SUBSET Nat, NEW m \in S, \A n \in S : m <= n
  PROVE  Min(S) = m
<1>1. Min(S) \in S /\ \A n \in S : Min(S) <= n
  BY MinOf
<1>2. Min(S) <= m /\ m <= Min(S) /\ m \in Nat /\ Min(S) \in Nat
  BY <1>1
<1> QED
  BY <1>2

(* Neither does an event that uses nothing change what was used first.      *)
LEMMA NothingUsed ==
  ASSUME LedgerIsClosed, ContentIsFirstUse, NEW e \in CallEvents \cup ResultEvents \cup OtherEvents, Read(e),
         UNCHANGED values, reasons \subseteq reasons', e.kind # "tool_call" \/ reasons' # {}
  PROVE  ContentIsFirstUse'
<1> SUFFICES ASSUME reasons' = {}, NEW v \in Refs
             PROVE  IF v \in Ids' THEN values'[v].content = IF Uses(v)' = {} THEN 0 ELSE Min(Uses(v)')
                    ELSE Uses(v)' = {}
  BY DEF ContentIsFirstUse
<1>1. Uses(v)' = Uses(v) /\ Ids' = Ids /\ reasons = {}
  BY EventRead DEF Ids
<1> QED
  BY <1>1 DEF ContentIsFirstUse

LEMMA CallUses ==
  ASSUME LedgerIsClosed, ContentIsFirstUse, NEW e \in CallEvents, ScanCall(e)
  PROVE  ContentIsFirstUse'
<1>1. /\ Read(e) /\ reasons \subseteq reasons' /\ (reasons' = {} => Unknown(e) = {})
      /\ values' = [v \in Ids \cup Minted(e) |-> IF v \in Ids THEN Bind(e)[v] ELSE ModelValue(e, v[2])]
  BY DEF ScanCall, Refuse
<1>2. Ids' = Ids \cup Minted(e)
  BY <1>1 DEF Ids
<1> SUFFICES ASSUME reasons' = {}, NEW v \in Refs
             PROVE  IF v \in Ids' THEN values'[v].content = IF Uses(v)' = {} THEN 0 ELSE Min(Uses(v)')
                    ELSE Uses(v)' = {}
  BY DEF ContentIsFirstUse
<1>3. /\ Now \in Nat /\ Now = Len(recorded) + 1 /\ Len(recorded) \in Nat
      /\ Uses(v) \in SUBSET (1 .. Len(recorded))
      /\ Uses(v)' = IF v \in Used(e.refs) THEN Uses(v) \cup {Now} ELSE Uses(v)
  <2>1. e.kind = "tool_call"
    BY EventsAssumption
  <2> QED
    BY <1>1, <2>1, EventRead
<1>4. reasons = {} /\ Used(e.refs) \subseteq Ids
  BY <1>1 DEF Unknown, Used
<1>5. v \notin Minted(e)
  <2>1. Minted(e) \subseteq Nat \X Args
    BY <1>3, EventsAssumption DEF Minted, Composed
  <2> QED
    BY <2>1, EventsAssumption
<1>6. CASE v \notin Ids
  BY <1>2, <1>3, <1>4, <1>5, <1>6 DEF ContentIsFirstUse
<1>7. CASE v \in Ids
  <2>1. values[v].content = IF Uses(v) = {} THEN 0 ELSE Min(Uses(v))
    BY <1>4, <1>7 DEF ContentIsFirstUse
  <2>2. values[v] \in ValueRecord
    BY <1>7 DEF LedgerIsClosed, TypeOK
  <2>3. values'[v].content = IF values[v].content = 0 /\ v \in Used(e.refs) THEN Now ELSE values[v].content
    <3>1. values'[v] = IF values[v].content = 0 /\ v \in Used(e.refs)
                       THEN [values[v] EXCEPT !.content = Now] ELSE values[v]
      BY <1>1, <1>7 DEF Bind
    <3> QED
      BY <2>2, <3>1 DEF ValueRecord
  <2>4. CASE v \notin Used(e.refs)
    BY <1>2, <1>3, <1>7, <2>1, <2>3, <2>4
  <2>5. CASE v \in Used(e.refs) /\ Uses(v) = {}
    <3>1. Uses(v)' = {Now}
      BY <1>3, <2>5
    <3>2. Min({Now}) = Now
      BY <1>3, MinIs
    <3> QED
      BY <1>2, <1>7, <2>1, <2>3, <2>5, <3>1, <3>2
  <2>6. CASE v \in Used(e.refs) /\ Uses(v) # {}
    <3>1. Uses(v)' = Uses(v) \cup {Now}
      BY <1>3, <2>6
    <3>2. Uses(v) \in SUBSET Nat
      BY <1>3
    <3>3. Min(Uses(v)) \in Uses(v) /\ \A n \in Uses(v) : Min(Uses(v)) <= n
      BY <2>6, <3>2, MinOf
    <3>4. Min(Uses(v)) \in 1 .. Len(recorded)
      BY <1>3, <3>3
    <3>5. Min(Uses(v) \cup {Now}) = Min(Uses(v))
      <4> DEFINE m == Min(Uses(v))
      <4>1. m \in Uses(v) \cup {Now} /\ Uses(v) \cup {Now} \in SUBSET Nat
        BY <1>3, <3>2, <3>3
      <4>2. \A n \in Uses(v) \cup {Now} : m <= n
        BY <1>3, <3>3, <3>4
      <4> HIDE DEF m
      <4>3. Min(Uses(v) \cup {Now}) = m
        BY <4>1, <4>2, MinIs
      <4> QED
        BY <4>3 DEF m
    <3>6. values[v].content = Min(Uses(v)) /\ values[v].content # 0
      BY <2>1, <2>6, <3>4
    <3> QED
      BY <1>2, <1>7, <2>3, <3>1, <3>5, <3>6
  <2> QED
    BY <2>4, <2>5, <2>6
<1> QED
  BY <1>6, <1>7

LEMMA ResultUses ==
  ASSUME LedgerIsClosed, ContentIsFirstUse, NEW e \in ResultEvents, ScanResult(e)
  PROVE  ContentIsFirstUse'
<1>1. /\ Read(e) /\ UNCHANGED reasons
      /\ values' = [v \in Ids \cup ({e.ref} \ {NoRef}) |-> IF v \in Ids THEN values[v] ELSE ToolValue(e)]
  BY DEF ScanResult
<1>2. Ids' = Ids \cup ({e.ref} \ {NoRef})
  BY <1>1 DEF Ids
<1> SUFFICES ASSUME reasons' = {}, NEW v \in Refs
             PROVE  IF v \in Ids' THEN values'[v].content = IF Uses(v)' = {} THEN 0 ELSE Min(Uses(v)')
                    ELSE Uses(v)' = {}
  BY DEF ContentIsFirstUse
<1>3. Uses(v)' = Uses(v)
  <2>1. e.kind # "tool_call"
    BY EventsAssumption
  <2> QED
    BY <1>1, <2>1, EventRead
<1>4. IF v \in Ids THEN values[v].content = IF Uses(v) = {} THEN 0 ELSE Min(Uses(v)) ELSE Uses(v) = {}
  BY <1>1 DEF ContentIsFirstUse
<1>5. CASE v \in Ids
  BY <1>1, <1>2, <1>3, <1>4, <1>5
<1>6. CASE v \notin Ids /\ v \in Ids'
  <2>1. values'[v] = ToolValue(e)
    BY <1>1, <1>2, <1>6
  <2> QED
    BY <1>3, <1>4, <1>6, <2>1 DEF ToolValue
<1>7. CASE v \notin Ids'
  BY <1>2, <1>3, <1>4, <1>7
<1> QED
  BY <1>5, <1>6, <1>7

(* What leaves left because nothing was held against it.                     *)
LEMMA NothingAgainst ==
  ASSUME Convert, package'.outcome # "refused"
  PROVE  /\ reasons = {} /\ NoVector = {} /\ NoSink = {} /\ Undecidable = {} /\ Mismatched = {}
         /\ package' = IF SinkCalls = {} THEN [outcome |-> "internal"] ELSE Export
         /\ UNCHANGED <<recorded, calls, values, plan, last_call>>
<1> DEFINE against == IF recorded = <<>> THEN {<<"no kernel events">>} ELSE reasons \cup NoVector \cup NoSink \cup DecideAll
<1>1. package' = IF against # {} THEN [outcome |-> "refused"]
                 ELSE IF SinkCalls = {} THEN [outcome |-> "internal"] ELSE Export
  BY DEF Convert
<1>2. against = {}
  BY <1>1
<1>3. recorded # <<>>
  BY <1>2
<1>4. reasons \cup NoVector \cup NoSink \cup DecideAll = {}
  BY <1>2, <1>3
<1>5. UNCHANGED <<recorded, calls, values, plan, last_call>>
  BY DEF Convert
<1> HIDE DEF against
<1> QED
  BY <1>1, <1>2, <1>4, <1>5 DEF DecideAll

(* The synthesis has a sink when no reason says otherwise, and names it.     *)
LEMMA SinkIsThere ==
  ASSUME LedgerIsClosed, NoSink = {}
  PROVE  /\ SinkCalls # {} /\ ViolationCall \in SinkCalls
         /\ SinkCalls \subseteq DOMAIN calls
         /\ \A i \in SinkCalls : /\ calls[i].tool \in ToolTable /\ Egress(calls[i].tool)
                                 /\ Min(Driving(calls[i].tool)) \in Driving(calls[i].tool)
<1>1. PICK t \in ToolTable : Egress(t) /\ Driving(t) # {}
  BY DEF NoSink, UsableSinks
<1>2. PICK i \in DOMAIN calls : calls[i].tool = t
  BY <1>1 DEF Egress, CallsOf
<1>3. i \in SinkCalls
  BY <1>1, <1>2 DEF SinkCalls
<1>4. calls \in Seq(CallRecord)
  BY DEF LedgerIsClosed, TypeOK
<1>5. DOMAIN calls \subseteq Nat /\ SinkCalls \subseteq DOMAIN calls
  BY <1>4 DEF SinkCalls
<1>6. ViolationCall \in SinkCalls
  <2> DEFINE denied == {j \in SinkCalls : calls[j].verdict = "deny"}
  <2>1. CASE denied # {}
    <3>1. Min(denied) \in denied
      BY <1>5, <2>1, MinOf
    <3> QED
      BY <2>1, <3>1 DEF ViolationCall
  <2>2. CASE denied = {}
    <3>1. Min(SinkCalls) \in SinkCalls
      BY <1>3, <1>5, MinOf
    <3> QED
      BY <2>2, <3>1 DEF ViolationCall
  <2> QED
    BY <2>1, <2>2
<1>7. ASSUME NEW j \in SinkCalls
      PROVE  /\ calls[j].tool \in ToolTable /\ Egress(calls[j].tool)
             /\ Min(Driving(calls[j].tool)) \in Driving(calls[j].tool)
  <2>1. calls[j].tool \in ToolTable /\ Egress(calls[j].tool) /\ Driving(calls[j].tool) # {}
    BY DEF SinkCalls
  <2>2. Driving(calls[j].tool) \subseteq Args
    <3>1. ASSUME NEW k \in DOMAIN calls PROVE calls[k].declared \subseteq Args
      <4>1. calls[k] \in CallRecord
        BY <1>4
      <4> QED
        BY <4>1 DEF CallRecord
    <3> QED
      BY <3>1 DEF Driving, DrivingOf, CallsOf, Given
  <2>3. Min(Driving(calls[j].tool)) \in Driving(calls[j].tool)
    BY <2>1, <2>2, MinOf, Events
  <2> QED
    BY <2>1, <2>3
<1> QED
  BY <1>3, <1>5, <1>6, <1>7

(* The tools taint entered through are those with fixtures.                  *)
LEMMA SourcesHaveFixtures ==
  ASSUME LedgerIsClosed, NEW v \in Ids
  PROVE  OriginSources(v) \subseteq {t \in ToolTable : UntrustedSource(t)}
<1> SUFFICES ASSUME NEW w \in Seen(v), Untrusted(w), Enters(w), values[w].tool # NoTool
             PROVE  values[w].tool \in ToolTable /\ UntrustedSource(values[w].tool)
  BY DEF OriginSources
<1>1. w \in Ids
  BY DEF Seen
<1> QED
  BY <1>1 DEF ToolTable, UntrustedSource, ResultsOf

(* A planned event that decides is of a call that was made.                  *)
LEMMA DecisionHasCall ==
  ASSUME LedgerIsClosed, PlanIsPaired, NEW i \in PlanDecided
  PROVE  plan[i].call \in DOMAIN calls /\ plan[i].call # 0
<1>1. plan \in Seq(PlanRecord) /\ calls \in Seq(CallRecord)
  BY DEF LedgerIsClosed, TypeOK
<1>2. Len(plan) \in Nat /\ PlanDecided \in SUBSET (1 .. Len(plan))
  BY <1>1 DEF PlanDecided
<1>3. Place(PlanDecided, i) \in 1 .. Cardinality(PlanDecided)
  BY <1>2, PlaceFacts
<1>4. plan[i].call = Place(PlanDecided, i) /\ Cardinality(PlanDecided) = Len(calls)
  BY DEF PlanIsPaired
<1>5. DOMAIN calls = 1 .. Len(calls)
  BY <1>1
<1> QED
  BY <1>3, <1>4, <1>5

LEMMA ExportResolves ==
  ASSUME LedgerIsClosed, PlanIsPaired, NoSink = {}, package' = Export
  PROVE  NamesResolve'
<1> DEFINE fixtures == {t \in ToolTable : UntrustedSource(t)}
           sink == calls[ViolationCall].tool
<1>1. /\ package'.ledger = [v \in Ids |-> LedgerRow(v)]
      /\ package'.events = [i \in DOMAIN plan |-> TraceEvent(i)]
      /\ package'.manifests = [t \in ToolTable |-> Manifest(t)]
      /\ package'.scenario.tools = ToolTable /\ package'.scenario.fixtures = fixtures
      /\ package'.scenario.violation = [tool |-> sink, driving |-> Min(Driving(sink))]
  BY DEF Export, Scenario
<1>2. ASSUME NEW i \in DOMAIN package'.events
      PROVE  /\ package'.events[i].produces \subseteq DOMAIN package'.ledger
             /\ package'.events[i].type = "gate_decision" =>
                  package'.events[i].decision.driving \in {NoDrivingArgs, Unresolved} \cup Used(package'.events[i].bindings)
  <2>1. i \in DOMAIN plan /\ package'.events[i] = TraceEvent(i)
    BY <1>1
  <2>2. package'.events[i].produces \subseteq DOMAIN package'.ledger
    BY <1>1, <2>1 DEF TraceEvent, LedgerIsClosed, PlanResolves
  <2>3. ASSUME package'.events[i].type = "gate_decision"
        PROVE  package'.events[i].decision.driving \in {NoDrivingArgs, Unresolved} \cup Used(package'.events[i].bindings)
    <3>1. i \in PlanDecided
      BY <2>1, <2>3 DEF TraceEvent, PlanDecided
    <3> DEFINE c == calls[plan[i].call]
    <3>2. package'.events[i].bindings = c.refs
      BY <2>1, <3>1, DecisionHasCall DEF TraceEvent
    <3>3. package'.events[i].decision.driving = DrivingBinding(c)
      BY <2>1, <3>1 DEF TraceEvent, KernelDecide, PlanDecided
    <3>4. DrivingBinding(c) \in {NoDrivingArgs, Unresolved} \cup Used(c.refs)
      BY DEF DrivingBinding, Used
    <3> QED
      BY <3>2, <3>3, <3>4
  <2> QED
    BY <2>2, <2>3
<1>3. ASSUME NEW v \in DOMAIN package'.ledger
      PROVE  /\ package'.ledger[v].from \subseteq DOMAIN package'.ledger
             /\ package'.ledger[v].sources \subseteq package'.scenario.fixtures
  <2>1. v \in Ids /\ package'.ledger[v] = LedgerRow(v)
    BY <1>1
  <2>2. values[v].from \subseteq Ids
    BY <2>1 DEF LedgerIsClosed, TypeOK, ValueRecord
  <2> QED
    BY <1>1, <2>1, <2>2, SourcesHaveFixtures DEF LedgerRow
<1>4. \A t \in package'.scenario.fixtures : package'.manifests[t].untrusted
  BY <1>1 DEF Manifest
<1>5. package'.scenario.tools = DOMAIN package'.manifests
  BY <1>1
<1>6. /\ package'.manifests[package'.scenario.violation.tool].egress
      /\ package'.scenario.violation.driving \in package'.manifests[package'.scenario.violation.tool].driving
  <2>1. sink \in ToolTable /\ Egress(sink) /\ Min(Driving(sink)) \in Driving(sink)
    BY SinkIsThere
  <2>2. package'.manifests[sink] = Manifest(sink)
    BY <1>1, <2>1
  <2> QED
    BY <1>1, <2>1, <2>2 DEF Manifest
<1> HIDE DEF fixtures, sink
<1> QED
  BY <1>2, <1>3, <1>4, <1>5, <1>6 DEF NamesResolve, Used, Given

(* An intent is numbered one below the decision that follows it.             *)
LEMMA PairIsNumbered ==
  ASSUME LedgerIsClosed, PlanIsPaired, NEW i \in PlanDecided
  PROVE  TraceEvent(i - 1).seq + 1 = TraceEvent(i).seq
<1> DEFINE before == {j \in 1 .. (i - 1) : plan[j].node = plan[i].node}
           earlier == {j \in 1 .. (i - 2) : plan[j].node = plan[i].node}
<1>1. plan \in Seq(PlanRecord)
  BY DEF LedgerIsClosed, TypeOK
<1>2. i - 1 \in DOMAIN plan /\ i \in DOMAIN plan /\ plan[i - 1].node = plan[i].node
  BY DEF PlanIsPaired, PlanIntended, PlanDecided
<1>3. i - 1 \in Nat /\ i - 1 >= 1 /\ i - 2 \in Nat /\ i - 1 > i - 2 /\ i - 1 - 1 = i - 2
  BY <1>1, <1>2
<1>4. before = earlier \cup {i - 1}
  <2>1. 1 .. (i - 1) = (1 .. (i - 2)) \cup {i - 1}
    BY <1>3
  <2> QED
    BY <1>2, <2>1
<1>5. Cardinality(earlier \cup {i - 1}) = Cardinality(earlier) + 1
  <2>1. earlier \in SUBSET (1 .. (i - 2))
    OBVIOUS
  <2> HIDE DEF earlier
  <2> QED
    BY <1>3, <2>1, PlaceAdded
<1>6. TraceEvent(i).seq = Cardinality(before)
  BY DEF TraceEvent
<1>7. TraceEvent(i - 1).seq = Cardinality(earlier)
  <2>1. TraceEvent(i - 1).seq = Cardinality({j \in 1 .. (i - 1 - 1) : plan[j].node = plan[i - 1].node})
    BY DEF TraceEvent
  <2> QED
    BY <1>2, <1>3, <2>1
<1> HIDE DEF before, earlier
<1> QED
  BY <1>4, <1>5, <1>6, <1>7

LEMMA ExportReproduces ==
  ASSUME LedgerIsClosed, PlanIsPaired, CallsAreJudged, reasons = {}, Undecidable = {}, Mismatched = {},
         package' = Export, UNCHANGED recorded
  PROVE  VerdictsReproduce'
<1>1. package'.events = [i \in DOMAIN plan |-> TraceEvent(i)]
  BY DEF Export
<1>2. Decided' = PlanDecided /\ Intended' = PlanIntended /\ Judged' = Judged
  <2>1. /\ DOMAIN package'.events = DOMAIN plan
        /\ \A i \in DOMAIN plan : package'.events[i].type = plan[i].type
    BY <1>1 DEF TraceEvent
  <2> QED
    BY <2>1 DEF Decided, Intended, Judged, PlanDecided, PlanIntended
<1>3. Cardinality(Judged') = Cardinality(Decided') /\ Cardinality(Intended') = Cardinality(Decided')
  BY <1>2 DEF PlanIsPaired, CallsAreJudged
<1>4. ASSUME NEW i \in Decided', NEW k \in Judged'
      PROVE  LET decision == package'.events[i]
                 intent == package'.events[i - 1] IN
             /\ i - 1 \in Intended'
             /\ intent.node = decision.node /\ intent.seq + 1 = decision.seq
             /\ intent.call = decision.call /\ intent.bindings = decision.bindings
             /\ Place(Decided', i) = Place(Judged', k) =>
                  /\ decision.node = recorded'[k].node /\ decision.decision.verdict = recorded'[k].verdict
                  /\ \A a \in Given(recorded'[k].refs) : decision.bindings[a] = recorded'[k].refs[a]
  <2>1. /\ i \in PlanDecided /\ i - 1 \in PlanIntended /\ k \in Judged
        /\ plan[i - 1].node = plan[i].node /\ plan[i - 1].call = plan[i].call
        /\ plan[i].call = Place(PlanDecided, i) /\ plan[i].node = calls[plan[i].call].node
    BY <1>2 DEF PlanIsPaired
  <2>2. i - 1 \in DOMAIN plan /\ i \in DOMAIN plan /\ plan[i].type = "gate_decision"
    BY <2>1 DEF PlanIntended, PlanDecided
  <2>3. package'.events[i] = TraceEvent(i) /\ package'.events[i - 1] = TraceEvent(i - 1)
    BY <1>1, <2>2
  <2>4. plan[i].call \in DOMAIN calls /\ plan[i].call # 0
    BY <2>1, DecisionHasCall
  <2> DEFINE call == calls[plan[i].call]
  <2>5. /\ TraceEvent(i).node = plan[i].node /\ TraceEvent(i - 1).node = plan[i].node
        /\ TraceEvent(i).call = plan[i].call /\ TraceEvent(i - 1).call = plan[i].call
        /\ TraceEvent(i).bindings = call.refs /\ TraceEvent(i - 1).bindings = call.refs
        /\ TraceEvent(i).decision = KernelDecide(call)
    BY <2>1, <2>2, <2>4 DEF TraceEvent
  <2>6. KernelDecide(call).verdict = call.verdict
    <3>1. calls[plan[i].call].complete
      BY <2>4 DEF Undecidable
    <3> QED
      BY <2>4, <3>1 DEF Mismatched
  <2>7. ASSUME Place(Decided', i) = Place(Judged', k)
        PROVE  /\ TraceEvent(i).node = recorded[k].node /\ TraceEvent(i).decision.verdict = recorded[k].verdict
               /\ \A a \in Given(recorded[k].refs) : TraceEvent(i).bindings[a] = recorded[k].refs[a]
    <3>1. plan[i].call = Place(Judged, k)
      BY <1>2, <2>1, <2>7
    <3>2. CallIsRecorded(k)
      BY <2>1 DEF CallsAreJudged
    <3>3. /\ call.node = recorded[k].node /\ call.verdict = recorded[k].verdict
          /\ \A a \in Given(recorded[k].refs) : call.refs[a] = recorded[k].refs[a]
      BY <3>1, <3>2 DEF CallIsRecorded
    <3> QED
      BY <2>1, <2>5, <2>6, <3>3
  <2>8. TraceEvent(i - 1).seq + 1 = TraceEvent(i).seq
    BY <2>1, PairIsNumbered
  <2> HIDE DEF call
  <2> QED
    BY <1>2, <2>1, <2>3, <2>5, <2>7, <2>8
<1> QED
  BY <1>3, <1>4 DEF VerdictsReproduce, Place, Given

LEMMA ExportKeepsContents ==
  ASSUME ContentIsFirstUse, reasons = {}, package' = Export, UNCHANGED recorded
  PROVE  FirstUseIsTheValue'
<1>1. package'.ledger = [v \in Ids |-> LedgerRow(v)]
  BY DEF Export
<1>2. ASSUME NEW v \in DOMAIN package'.ledger \cap Refs
      PROVE  package'.ledger[v].content = IF Uses(v)' = {} THEN 0 ELSE Min(Uses(v)')
  <2>1. v \in Ids /\ v \in Refs /\ package'.ledger[v].content = values[v].content
    BY <1>1 DEF LedgerRow
  <2>2. Uses(v)' = Uses(v)
    BY DEF Uses, Used, Given
  <2> QED
    BY <2>1, <2>2 DEF ContentIsFirstUse
<1> QED
  BY <1>2 DEF FirstUseIsTheValue

LEMMA ConvertKeeps == ASSUME LedgerIsClosed, PackageInv, Convert PROVE PackageInv'
<1>1. UNCHANGED <<recorded, calls, values, plan>> /\ reasons \subseteq reasons'
  BY DEF Convert
<1>2. PlanIsPaired'
  BY <1>1, PairsStay DEF PackageInv, PlanDecided, PlanIntended
<1>3. CallsAreJudged'
  <2>1. Judged' = Judged /\ \A k : CallIsRecorded(k)' <=> CallIsRecorded(k)
    BY <1>1 DEF CallIsRecorded, Judged, Place, Given
  <2> QED
    BY <1>1, <2>1 DEF PackageInv, CallsAreJudged
<1>4. ContentIsFirstUse'
  BY <1>1 DEF PackageInv, ContentIsFirstUse, Uses, Used, Given, Ids
<1>5. CASE package'.outcome = "refused"
  BY <1>2, <1>3, <1>4, <1>5 DEF PackageInv, PackageIsFaithful, SourcesAreOrigins, Exported
<1>6. CASE package'.outcome # "refused"
  <2>1. /\ reasons = {} /\ NoSink = {} /\ Undecidable = {} /\ Mismatched = {} /\ package' = Export
    BY <1>6, NothingAgainst, SinkIsThere
  <2>2. package'.outcome = "exported"
    BY <2>1 DEF Export
  <2>3. PackageIsFaithful'
    BY <1>1, <2>1, <2>2, ExportResolves, ExportReproduces, ExportKeepsContents DEF PackageInv, PackageIsFaithful
  <2>4. SourcesAreOrigins'
    <3>1. DOMAIN package'.ledger = Ids /\ \A v \in Ids : package'.ledger[v].sources = OriginSources(v)
      BY <2>1 DEF Export, LedgerRow
    <3>2. Ids' = Ids /\ \A v : OriginSources(v)' = OriginSources(v)
      BY <1>1 DEF OriginSources, Seen, ClosedFrom, LiveUntrusted, Untrusted, Enters, Ids
    <3> QED
      BY <3>1, <3>2 DEF SourcesAreOrigins
  <2> QED
    BY <1>2, <1>3, <1>4, <2>3, <2>4 DEF PackageInv
<1> QED
  BY <1>5, <1>6

LEMMA ScanKeeps == ASSUME LedgerIsClosed, PackageInv, Scan PROVE PackageInv'
<1>1. PlanIsPaired /\ CallsAreJudged /\ ContentIsFirstUse
  BY DEF PackageInv
<1>2. PackageIsFaithful' /\ SourcesAreOrigins'
  <2>1. package' = package /\ package = NotYet
    BY DEF Scan, ScanObservation, ScanCall, ScanReminted, ScanResult, ScanOther, Read
  <2> QED
    BY <2>1 DEF PackageIsFaithful, SourcesAreOrigins, Exported, NotYet
<1>3. ASSUME NEW e \in CallEvents, ScanObservation(e) PROVE PackageInv'
  <2>1. Read(e) /\ UNCHANGED <<calls, values, plan>> /\ reasons \subseteq reasons' /\ reasons' # {}
    BY <1>3 DEF ScanObservation, Refuse
  <2> QED
    BY <1>1, <1>2, <2>1, OthersPlanned, NotACall, NothingUsed DEF PackageInv
<1>4. ASSUME NEW e \in ResultEvents, ScanReminted(e) PROVE PackageInv'
  <2>1. Read(e) /\ UNCHANGED <<calls, values, plan>> /\ reasons \subseteq reasons' /\ reasons' # {}
    BY <1>4 DEF ScanReminted, Refuse
  <2> QED
    BY <1>1, <1>2, <2>1, OthersPlanned, NotACall, NothingUsed DEF PackageInv
<1>5. ASSUME NEW e \in CallEvents, ScanCall(e) PROVE PackageInv'
  BY <1>1, <1>2, <1>5, CallPlanned, CallJudged, CallUses DEF PackageInv
<1>6. ASSUME NEW e \in ResultEvents, ScanResult(e) PROVE PackageInv'
  <2> DEFINE event == Planned(e.node, "tool_result", 0, {e.ref} \ {NoRef})
  <2>1. Read(e) /\ UNCHANGED <<calls, reasons>> /\ plan' = Append(plan, event) /\ e.kind # "tool_call"
    BY <1>6, EventsAssumption DEF ScanResult
  <2>2. event \in PlanRecord /\ event.type = "tool_result"
    BY Events DEF Planned, PlanRecord, TraceTypes
  <2> HIDE DEF event
  <2>3. PlanIsPaired'
    BY <1>1, <2>1, <2>2, OthersPlanned
  <2> QED
    BY <1>1, <1>2, <1>6, <2>1, <2>3, NotACall, ResultUses DEF PackageInv
<1>7. ASSUME NEW e \in OtherEvents, ScanOther(e) PROVE PackageInv'
  <2> DEFINE event == Planned(e.node, TraceType(e), 0, {})
  <2>1. /\ Read(e) /\ UNCHANGED <<calls, values>> /\ reasons \subseteq reasons' /\ e.kind # "tool_call"
        /\ UNCHANGED plan \/ plan' = Append(plan, event)
    BY <1>7, EventsAssumption DEF ScanOther, Refuse
  <2>2. event \in PlanRecord /\ event.type \notin {"gate_decision", "tool_call_intent"}
    BY Events DEF Planned, PlanRecord, TraceType, TraceTypes
  <2> HIDE DEF event
  <2>3. PlanIsPaired'
    BY <1>1, <2>1, <2>2, OthersPlanned
  <2> QED
    BY <1>1, <1>2, <2>1, <2>3, NotACall, NothingUsed DEF PackageInv
<1> QED
  BY <1>3, <1>4, <1>5, <1>6, <1>7 DEF Scan

LEMMA InitPackage == Init => PackageInv
<1> SUFFICES ASSUME Init PROVE PackageInv
  OBVIOUS
<1>1. Len(calls) = 0 /\ PlanDecided = {} /\ PlanIntended = {} /\ Judged = {} /\ Ids = {} /\ \A v : Uses(v) = {}
  BY DEF Init, PlanDecided, PlanIntended, Judged, Ids, Uses
<1>2. Cardinality({}) = 0
  BY FS_EmptySet
<1>3. PlanIsPaired /\ CallsAreJudged /\ ContentIsFirstUse
  BY <1>1, <1>2 DEF PlanIsPaired, CallsAreJudged, ContentIsFirstUse
<1>4. package.outcome = "none"
  BY DEF Init, NotYet
<1> QED
  BY <1>3, <1>4 DEF PackageInv, PackageIsFaithful, SourcesAreOrigins, Exported

LEMMA StutterPackage == ASSUME LedgerIsClosed, PackageInv, UNCHANGED vars PROVE PackageInv'
<1>1. UNCHANGED <<recorded, calls, values, plan, reasons, package>>
  BY DEF vars
<1>2. PlanIsPaired'
  BY <1>1, PairsStay DEF PackageInv, PlanDecided, PlanIntended
<1>3. CallsAreJudged'
  <2>1. Judged' = Judged /\ \A k : CallIsRecorded(k)' <=> CallIsRecorded(k)
    BY <1>1 DEF CallIsRecorded, Judged, Place, Given
  <2> QED
    BY <1>1, <2>1 DEF PackageInv, CallsAreJudged
<1>4. ContentIsFirstUse'
  BY <1>1 DEF PackageInv, ContentIsFirstUse, Uses, Used, Given, Ids
<1>5. NamesResolve' <=> NamesResolve
  BY <1>1 DEF NamesResolve, Used, Given
<1>6. VerdictsReproduce' <=> VerdictsReproduce
  BY <1>1 DEF VerdictsReproduce, Decided, Intended, Judged, Place, Given
<1>7. FirstUseIsTheValue' <=> FirstUseIsTheValue
  BY <1>1 DEF FirstUseIsTheValue, Uses, Used, Given
<1>8. Ids' = Ids /\ \A v : OriginSources(v)' = OriginSources(v)
  BY <1>1 DEF OriginSources, Seen, ClosedFrom, LiveUntrusted, Untrusted, Enters, Ids
<1> QED
  BY <1>1, <1>2, <1>3, <1>4, <1>5, <1>6, <1>7, <1>8 DEF PackageInv, PackageIsFaithful, SourcesAreOrigins, Exported

THEOREM PackageInvariance == Spec => [](LedgerIsClosed /\ PackageInv)
<1>1. LedgerIsClosed /\ PackageInv /\ [Next]_vars => PackageInv'
  BY ScanKeeps, ConvertKeeps, StutterPackage DEF Next
<1> QED
  BY LedgerClosed, InitPackage, <1>1, PTL DEF Spec

(* What is exported replays, for every recorded run and whatever the gate    *)
(* decides: every name in it is defined in it, each recorded call is in its  *)
(* trace once and in its order with the verdict and the bindings that were   *)
(* recorded, each value has the content of its first use, and the synthesis  *)
(* of lab_export.py never raises after the refusals have spoken.            *)
THEOREM PackageFaithful == Spec => []PackageIsFaithful
<1>1. PackageInv => PackageIsFaithful
  BY DEF PackageInv
<1> QED
  BY PackageInvariance, <1>1, PTL

(* The sources of every exported value are the tools its taint entered       *)
(* through, by the recursion over its parents, however long its derivation:  *)
(* what _origin_sources collects on its walk is the transitive causal root.  *)
THEOREM SourcesAreRoots == Spec => []SourcesAreTheRoots
<1>1. LedgerIsClosed /\ PackageInv => SourcesAreTheRoots
  <2> SUFFICES ASSUME LedgerIsClosed, PackageInv, Exported, NEW v \in DOMAIN package.ledger
               PROVE  package.ledger[v].sources = TaintedBy[v]
    BY DEF SourcesAreTheRoots
  <2> QED
    BY TaintedByIsOrigin DEF PackageInv, SourcesAreOrigins
<1> QED
  BY PackageInvariance, <1>1, PTL
=============================================================================
