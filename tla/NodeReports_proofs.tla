----------------------------- MODULE NodeReports_proofs -----------------------------
(***************************************************************************)
(* Machine-checked safety of what a node reports.                          *)
(*                                                                         *)
(* The self-heal loop, for every set of commands and health checks and     *)
(* every number of crashes: a heal is followed to a verdict, the first     *)
(* verdict stands, and only commands recorded at once give a cut two       *)
(* attempts.                                                               *)
(*                                                                         *)
(* The standing, for every set of runs, facts, appends and snapshots: what *)
(* a check has seen stays with the append, whatever the run records or     *)
(* loses afterwards, and a reputation that is written over the row it      *)
(* selected is newer than every other.                                     *)
(*                                                                         *)
(* And the process that serves both keeps what each promises.              *)
(***************************************************************************)
EXTENDS NodeReports, SequenceTheorems, TLAPS

Attempt == [cut: Cut, by: Check \cup {Nobody}]

(* A command past its insert, whether it inserted or found one, has an     *)
(* attempt of its cut.                                                     *)
PastInsertIsTracked ==
  \A c \in Command : pc[c] \in {"publish", "done"} =>
    \E i \in DOMAIN attempts : attempts[i].cut = CutOf[c]

(* A check knows of no more attempts than there are.                       *)
KnownExist == \A p \in Check : known[p] <= Len(attempts)

(* A check that is closing still has on its list every attempt it found    *)
(* and that is open.                                                       *)
OpenIsListed ==
  \A p \in Check : at[p] = "close" =>
    \A i \in DOMAIN attempts : i <= known[p] /\ attempts[i].by = Nobody => i \in todo[p]

(* Two commands that record one cut at the same time are noticed.          *)
TogetherIsOverlap ==
  \A c, d \in Command :
    c # d /\ Recording(c) /\ Recording(d) /\ CutOf[c] = CutOf[d] => CutOf[c] \in overlap

(* A command that found no attempt of its cut and meets one by the time    *)
(* it inserts was not alone.                                               *)
InsertIsFirst ==
  \A c \in Command : pc[c] = "insert" =>
    \A i \in DOMAIN attempts : attempts[i].cut = CutOf[c] => CutOf[c] \in overlap

(* The inductive invariant.                                                *)
IInv ==
  /\ TypeOK
  /\ PastInsertIsTracked
  /\ KnownExist
  /\ OpenIsListed
  /\ AnsweredClosesAll
  /\ TogetherIsOverlap
  /\ InsertIsFirst
  /\ OnlyOverlapDuplicates

(* Appending an attempt leaves the earlier ones where they were.           *)
LEMMA AppendLemma ==
  ASSUME NEW S, NEW s \in Seq(S), NEW e \in S
  PROVE  /\ Append(s, e) \in Seq(S)
         /\ Len(Append(s, e)) = Len(s) + 1
         /\ DOMAIN Append(s, e) = 1..(Len(s) + 1)
         /\ DOMAIN s = 1..Len(s) /\ Len(s) \in Nat
         /\ \A i \in 1..Len(s) : Append(s, e)[i] = s[i]
         /\ Append(s, e)[Len(s) + 1] = e
  OBVIOUS

(* Closing an attempt changes who verified it, and nothing else.           *)
LEMMA CloseLemma ==
  ASSUME NEW s \in Seq(Attempt), NEW i \in DOMAIN s, NEW p \in Check
  PROVE  /\ [s EXCEPT ![i].by = p] \in Seq(Attempt)
         /\ Len([s EXCEPT ![i].by = p]) = Len(s)
         /\ DOMAIN [s EXCEPT ![i].by = p] = DOMAIN s
         /\ \A j \in DOMAIN s : [s EXCEPT ![i].by = p][j].cut = s[j].cut
         /\ \A j \in DOMAIN s : j # i => [s EXCEPT ![i].by = p][j] = s[j]
         /\ [s EXCEPT ![i].by = p][i].by = p
<1>1. DOMAIN s = 1..Len(s) /\ Len(s) \in Nat /\ \A j \in 1..Len(s) : s[j] \in Attempt
  OBVIOUS
<1>2. [s[i] EXCEPT !.by = p] \in Attempt /\ [s[i] EXCEPT !.by = p].cut = s[i].cut
      /\ [s[i] EXCEPT !.by = p].by = p
  BY <1>1 DEF Attempt
<1> DEFINE e == [s[i] EXCEPT !.by = p]
           t == [s EXCEPT ![i] = e]
<1>3. t = [s EXCEPT ![i].by = p]
  OBVIOUS
<1>4. e \in Attempt /\ e.cut = s[i].cut /\ e.by = p
  BY <1>2
<1> HIDE DEF e
<1>5. DOMAIN t = 1..Len(s) /\ \A j \in 1..Len(s) : t[j] = IF j = i THEN e ELSE s[j]
  BY <1>1
<1>6. t \in Seq(Attempt) /\ Len(t) = Len(s)
  BY <1>1, <1>4
<1> QED
  BY <1>1, <1>3, <1>4, <1>5, <1>6

(* The attempts untouched, what is said of checks and of commands holds as *)
(* before.                                                                 *)
LEMMA AttemptsKept ==
  ASSUME IInv, UNCHANGED attempts
  PROVE  /\ UNCHANGED <<known, at, todo>> => KnownExist' /\ OpenIsListed' /\ AnsweredClosesAll'
         /\ UNCHANGED <<pc, overlap>> =>
              /\ PastInsertIsTracked' /\ TogetherIsOverlap' /\ InsertIsFirst'
              /\ OnlyOverlapDuplicates'
  BY DEF IInv, KnownExist, OpenIsListed, AnsweredClosesAll, PastInsertIsTracked,
         TogetherIsOverlap, Recording, InsertIsFirst, OnlyOverlapDuplicates, SameCut

(* Initially there is no attempt and nobody is under way.                  *)
LEMMA InitIInv == Init => IInv
<1> SUFFICES ASSUME Init PROVE IInv
  OBVIOUS
<1> USE DEF Init
<1>1. <<>> \in Seq([cut: Cut, by: Check \cup {Nobody}]) /\ DOMAIN <<>> = {} /\ Len(<<>>) = 0
  OBVIOUS
<1>2. TypeOK
  BY <1>1, HealAssumption DEF TypeOK
<1> QED
  BY <1>1, <1>2 DEF IInv, PastInsertIsTracked, KnownExist, OpenIsListed, AnsweredClosesAll,
     TogetherIsOverlap, Recording, InsertIsFirst, OnlyOverlapDuplicates, SameCut

(* A command begins: whoever records the same cut overlaps with it.        *)
LEMMA LandStep ==
  ASSUME IInv, NEW c \in Command, Land(c)
  PROVE  IInv'
<1> USE DEF Land, Goto, checkVars
<1>1. TypeOK'
  BY HealAssumption DEF IInv, TypeOK
<1>2. KnownExist' /\ OpenIsListed' /\ AnsweredClosesAll'
  BY AttemptsKept
<1>3. PastInsertIsTracked'
  BY DEF IInv, TypeOK, PastInsertIsTracked
<1>4. overlap \subseteq overlap'
  OBVIOUS
<1>5. TogetherIsOverlap'
  <2> SUFFICES ASSUME NEW d \in Command, NEW e \in Command, d # e,
                      Recording(d)', Recording(e)', CutOf[d] = CutOf[e]
               PROVE  CutOf[d] \in overlap'
    BY DEF TogetherIsOverlap
  <2>1. CASE d # c /\ e # c
    BY <1>4, <2>1 DEF IInv, TypeOK, TogetherIsOverlap, Recording
  <2>2. CASE d = c
    BY <2>2 DEF IInv, TypeOK, Recording
  <2>3. CASE e = c
    BY <2>3 DEF IInv, TypeOK, Recording
  <2> QED
    BY <2>1, <2>2, <2>3
<1>6. InsertIsFirst'
  BY <1>4 DEF IInv, TypeOK, InsertIsFirst
<1>7. OnlyOverlapDuplicates'
  BY <1>4 DEF IInv, OnlyOverlapDuplicates, SameCut
<1> QED
  BY <1>1, <1>2, <1>3, <1>5, <1>6, <1>7 DEF IInv

(* A command looks: one that finds an attempt is done with it, one that    *)
(* finds none is, for now, the first.                                      *)
LEMMA SelectStep ==
  ASSUME IInv, NEW c \in Command, Select(c)
  PROVE  IInv'
<1> USE DEF Select, SelectAs, Goto, checkVars
<1>1. TypeOK'
  BY DEF IInv, TypeOK
<1>2. KnownExist' /\ OpenIsListed' /\ AnsweredClosesAll'
  BY AttemptsKept
<1>3. PastInsertIsTracked'
  BY DEF IInv, TypeOK, PastInsertIsTracked
<1>4. \A d \in Command : Recording(d)' => Recording(d)
  BY DEF IInv, TypeOK, Recording
<1>5. TogetherIsOverlap'
  BY <1>4 DEF IInv, TogetherIsOverlap
<1>6. InsertIsFirst'
  BY DEF IInv, TypeOK, InsertIsFirst
<1>7. OnlyOverlapDuplicates'
  BY DEF IInv, OnlyOverlapDuplicates, SameCut
<1> QED
  BY <1>1, <1>2, <1>3, <1>5, <1>6, <1>7 DEF IInv

(* A command inserts: an attempt of its cut that is there by now was       *)
(* inserted by one it overlaps with, and so will be any later one's.       *)
LEMMA InsertStep ==
  ASSUME IInv, NEW c \in Command, Insert(c)
  PROVE  IInv'
<1> USE DEF Insert, Goto, checkVars
<1> DEFINE e == [cut |-> CutOf[c], by |-> Nobody]
           n == Len(attempts)
<1>1. attempts \in Seq(Attempt)
  BY DEF IInv, TypeOK, Attempt
<1>2. e \in Attempt /\ e.cut = CutOf[c]
  BY HealAssumption DEF Attempt
<1>3. attempts' = Append(attempts, e)
  OBVIOUS
<1> HIDE DEF e
<1>4. /\ attempts' \in Seq(Attempt) /\ Len(attempts') = n + 1
      /\ DOMAIN attempts' = 1..(n + 1) /\ DOMAIN attempts = 1..n
      /\ \A i \in 1..n : attempts'[i] = attempts[i]
      /\ attempts'[n + 1] = e
  BY <1>1, <1>2, <1>3, AppendLemma
<1>5. n \in Nat
  BY <1>1
<1>6. \A i \in DOMAIN attempts' : \/ i \in DOMAIN attempts /\ attempts'[i] = attempts[i]
                                  \/ i = n + 1 /\ attempts'[i].cut = CutOf[c]
  <2>1. \A i \in 1..(n + 1) : i \in 1..n \/ i = n + 1
    BY <1>5
  <2>2. attempts'[n + 1].cut = CutOf[c]
    BY <1>2, <1>4
  <2> HIDE DEF n
  <2> TAKE i \in DOMAIN attempts'
  <2>3. i \in 1..n \/ i = n + 1
    BY <1>4, <2>1
  <2>4. CASE i \in 1..n
    <3>1. attempts'[i] = attempts[i]
      BY <1>4, <2>4
    <3>2. i \in DOMAIN attempts
      BY <1>4, <2>4
    <3> QED
      BY <3>1, <3>2
  <2>5. CASE i = n + 1
    BY <2>2, <2>5
  <2> QED
    BY <2>3, <2>4, <2>5
<1>7. \A i \in DOMAIN attempts : i \in DOMAIN attempts' /\ attempts'[i] = attempts[i]
  BY <1>4, <1>5
<1> HIDE DEF n
<1>8. TypeOK'
  <2>1. attempts' \in Seq([cut: Cut, by: Check \cup {Nobody}])
    BY <1>4 DEF Attempt
  <2>2. DOMAIN attempts \subseteq DOMAIN attempts'
    BY <1>7
  <2>3. pc' \in [Command -> {"idle", "select", "insert", "publish", "done", "lost"}]
    BY DEF IInv, TypeOK
  <2>4. todo' \in [Check -> SUBSET DOMAIN attempts'] /\ told' \in [Check -> SUBSET DOMAIN attempts']
    BY <2>2 DEF IInv, TypeOK
  <2> QED
    BY <2>1, <2>3, <2>4 DEF IInv, TypeOK
<1>9. \A p \in Check : known'[p] = known[p] /\ known[p] \in Nat /\ known[p] <= n
  BY DEF IInv, TypeOK, KnownExist, n
<1>10. KnownExist'
  BY <1>4, <1>5, <1>9 DEF KnownExist
<1>11. \A p \in Check : \A i \in DOMAIN attempts' :
         i <= known[p] => i \in DOMAIN attempts /\ attempts'[i] = attempts[i]
  BY <1>5, <1>6, <1>9
<1>12. OpenIsListed' /\ AnsweredClosesAll'
  BY <1>11, <1>9 DEF IInv, OpenIsListed, AnsweredClosesAll
<1>13. PastInsertIsTracked'
  <2> SUFFICES ASSUME NEW d \in Command, pc'[d] \in {"publish", "done"}
               PROVE  \E i \in DOMAIN attempts' : attempts'[i].cut = CutOf[d]
    BY DEF PastInsertIsTracked
  <2>1. CASE d = c
    BY <2>1, <1>2, <1>4, <1>5
  <2>2. CASE d # c
    BY <2>2, <1>7 DEF IInv, TypeOK, PastInsertIsTracked
  <2> QED
    BY <2>1, <2>2
<1>14. \A d \in Command : Recording(d)' => Recording(d) /\ d # c
  BY DEF IInv, TypeOK, Recording
<1>15. TogetherIsOverlap'
  BY <1>14 DEF IInv, TogetherIsOverlap
<1>16. Recording(c)
  BY DEF Recording
<1>17. InsertIsFirst'
  <2> SUFFICES ASSUME NEW d \in Command, pc'[d] = "insert",
                      NEW i \in DOMAIN attempts', attempts'[i].cut = CutOf[d]
               PROVE  CutOf[d] \in overlap
    BY DEF InsertIsFirst
  <2>1. Recording(d) /\ d # c /\ pc[d] = "insert"
    BY <1>14 DEF Recording, IInv, TypeOK
  <2>2. CASE i \in DOMAIN attempts /\ attempts'[i] = attempts[i]
    BY <2>1, <2>2 DEF IInv, InsertIsFirst
  <2>3. CASE attempts'[i].cut = CutOf[c]
    BY <2>1, <2>3, <1>16 DEF IInv, TogetherIsOverlap
  <2> QED
    BY <1>6, <2>2, <2>3
<1>18. \A i \in DOMAIN attempts : attempts[i].cut = CutOf[c] => CutOf[c] \in overlap
  BY DEF IInv, InsertIsFirst
<1>19. OnlyOverlapDuplicates'
  <2> SUFFICES ASSUME NEW i \in DOMAIN attempts', NEW j \in DOMAIN attempts',
                      i # j, attempts'[i].cut = attempts'[j].cut
               PROVE  attempts'[i].cut \in overlap
    BY DEF OnlyOverlapDuplicates, SameCut
  <2>1. CASE i \in DOMAIN attempts /\ attempts'[i] = attempts[i]
             /\ j \in DOMAIN attempts /\ attempts'[j] = attempts[j]
    BY <2>1 DEF IInv, OnlyOverlapDuplicates, SameCut
  <2>2. CASE i = n + 1 /\ attempts'[i].cut = CutOf[c]
    <3>1. j \in DOMAIN attempts /\ attempts'[j] = attempts[j]
      BY <2>2, <1>6
    <3> QED
      BY <2>2, <3>1, <1>18
  <2>3. CASE j = n + 1 /\ attempts'[j].cut = CutOf[c]
    <3>1. i \in DOMAIN attempts /\ attempts'[i] = attempts[i]
      BY <2>3, <1>6
    <3> QED
      BY <2>3, <3>1, <1>18
  <2> QED
    BY <1>6, <2>1, <2>2, <2>3
<1> QED
  BY <1>8, <1>10, <1>12, <1>13, <1>15, <1>17, <1>19 DEF IInv

(* Publishing and answering leave the attempts alone.                      *)
LEMMA PublishStep ==
  ASSUME IInv, NEW c \in Command, Publish(c)
  PROVE  IInv'
<1> USE DEF Publish, Goto, checkVars
<1>1. TypeOK'
  BY DEF IInv, TypeOK
<1>2. KnownExist' /\ OpenIsListed' /\ AnsweredClosesAll'
  BY AttemptsKept
<1>3. PastInsertIsTracked'
  BY DEF IInv, TypeOK, PastInsertIsTracked
<1>4. \A d \in Command : Recording(d)' => Recording(d)
  BY DEF IInv, TypeOK, Recording
<1>5. TogetherIsOverlap'
  BY <1>4 DEF IInv, TogetherIsOverlap
<1>6. InsertIsFirst'
  BY DEF IInv, TypeOK, InsertIsFirst
<1>7. OnlyOverlapDuplicates'
  BY DEF IInv, OnlyOverlapDuplicates, SameCut
<1> QED
  BY <1>1, <1>2, <1>3, <1>5, <1>6, <1>7 DEF IInv

(* A check that is stored knows the attempts there are.                    *)
LEMMA PostStep ==
  ASSUME IInv, NEW p \in Check, Post(p)
  PROVE  IInv'
<1> USE DEF Post, cutVars
<1>1. Len(attempts) \in Nat
  BY DEF IInv, TypeOK
<1>2. TypeOK'
  BY <1>1 DEF IInv, TypeOK
<1>3. PastInsertIsTracked' /\ TogetherIsOverlap' /\ InsertIsFirst' /\ OnlyOverlapDuplicates'
  BY AttemptsKept
<1>4. KnownExist'
  BY <1>1 DEF IInv, TypeOK, KnownExist
<1>5. OpenIsListed' /\ AnsweredClosesAll'
  BY DEF IInv, TypeOK, OpenIsListed, AnsweredClosesAll
<1> QED
  BY <1>2, <1>3, <1>4, <1>5 DEF IInv

(* A check lists what is open: all of it.                                  *)
LEMMA ListStep ==
  ASSUME IInv, NEW p \in Check, List(p)
  PROVE  IInv'
<1> USE DEF List, ListAs, OpenAttempts, cutVars
<1>1. TypeOK'
  BY DEF IInv, TypeOK
<1>2. PastInsertIsTracked' /\ TogetherIsOverlap' /\ InsertIsFirst' /\ OnlyOverlapDuplicates'
  BY AttemptsKept
<1>3. KnownExist'
  BY DEF IInv, KnownExist
<1>4. OpenIsListed'
  BY DEF IInv, TypeOK, OpenIsListed
<1>5. AnsweredClosesAll'
  BY DEF IInv, TypeOK, AnsweredClosesAll
<1> QED
  BY <1>1, <1>2, <1>3, <1>4, <1>5 DEF IInv

(* What Close does to the rows: at most one open attempt gets its verdict. *)
LEMMA CloseRows ==
  ASSUME IInv, NEW p \in Check, NEW i \in Id, Close(p, i)
  PROVE  /\ attempts' \in Seq(Attempt) /\ Len(attempts') = Len(attempts)
         /\ DOMAIN attempts' = DOMAIN attempts /\ i \in DOMAIN attempts
         /\ \A j \in DOMAIN attempts : attempts'[j].cut = attempts[j].cut
         /\ \A j \in DOMAIN attempts :
              j # i \/ attempts[j].by # Nobody => attempts'[j] = attempts[j]
         /\ attempts'[i].by # Nobody
<1> USE DEF Close, CloseAs
<1>1. attempts \in Seq(Attempt) /\ i \in DOMAIN attempts /\ p # Nobody
  BY HealAssumption DEF IInv, TypeOK, Attempt
<1>2. CASE attempts[i].by = Nobody
  <2>1. attempts' = [attempts EXCEPT ![i].by = p]
    BY <1>2
  <2> QED
    BY <1>1, <1>2, <2>1, CloseLemma
<1>3. CASE attempts[i].by # Nobody
  BY <1>1, <1>3
<1> QED
  BY <1>2, <1>3

(* A check closes one attempt of its list.                                 *)
LEMMA CloseStep ==
  ASSUME IInv, NEW p \in Check, NEW i \in Id, Close(p, i)
  PROVE  IInv'
<1>1. /\ attempts' \in Seq(Attempt) /\ Len(attempts') = Len(attempts)
      /\ DOMAIN attempts' = DOMAIN attempts /\ i \in DOMAIN attempts
      /\ \A j \in DOMAIN attempts : attempts'[j].cut = attempts[j].cut
      /\ \A j \in DOMAIN attempts :
           j # i \/ attempts[j].by # Nobody => attempts'[j] = attempts[j]
      /\ attempts'[i].by # Nobody
  BY CloseRows
<1>2. /\ UNCHANGED <<pc, overlap, at, verdict, known, crashes>>
      /\ todo' = [todo EXCEPT ![p] = @ \ {i}] /\ told' = [told EXCEPT ![p] = @ \cup {i}]
  BY DEF Close, CloseAs, cutVars
<1>3. TypeOK'
  BY <1>1, <1>2 DEF IInv, TypeOK, Attempt
<1>4. PastInsertIsTracked' /\ TogetherIsOverlap'
  BY <1>1, <1>2 DEF IInv, PastInsertIsTracked, TogetherIsOverlap, Recording
<1>5. InsertIsFirst'
  BY <1>1, <1>2 DEF IInv, InsertIsFirst
<1>6. OnlyOverlapDuplicates'
  BY <1>1, <1>2 DEF IInv, OnlyOverlapDuplicates, SameCut
<1>7. KnownExist'
  BY <1>1, <1>2 DEF IInv, KnownExist
<1>8. \A j \in DOMAIN attempts' : attempts'[j].by = Nobody => j # i /\ attempts[j].by = Nobody
  BY <1>1
<1>9. AnsweredClosesAll'
  BY <1>1, <1>2, <1>8 DEF IInv, AnsweredClosesAll
<1>10. OpenIsListed'
  BY <1>1, <1>2, <1>8 DEF IInv, TypeOK, OpenIsListed
<1> QED
  BY <1>3, <1>4, <1>5, <1>6, <1>7, <1>9, <1>10 DEF IInv

(* A check with nothing left on its list has left nothing open.            *)
LEMMA AnswerStep ==
  ASSUME IInv, NEW p \in Check, Answer(p)
  PROVE  IInv'
<1> USE DEF Answer, cutVars
<1>1. TypeOK'
  BY DEF IInv, TypeOK
<1>2. PastInsertIsTracked' /\ TogetherIsOverlap' /\ InsertIsFirst' /\ OnlyOverlapDuplicates'
  BY AttemptsKept
<1>3. KnownExist'
  BY DEF IInv, KnownExist
<1>4. OpenIsListed'
  BY DEF IInv, TypeOK, OpenIsListed
<1>5. AnsweredClosesAll'
  BY DEF IInv, TypeOK, AnsweredClosesAll, OpenIsListed
<1> QED
  BY <1>1, <1>2, <1>3, <1>4, <1>5 DEF IInv

(* A crash ends handlers and leaves the rows.                              *)
LEMMA CrashStep ==
  ASSUME IInv, Crash
  PROVE  IInv'
<1> USE DEF Crash
<1>1. TypeOK'
  BY HealAssumption DEF IInv, TypeOK
<1>2. PastInsertIsTracked'
  BY DEF IInv, TypeOK, PastInsertIsTracked
<1>3. \A d \in Command : ~Recording(d)'
  BY DEF IInv, TypeOK, Recording
<1>4. TogetherIsOverlap' /\ InsertIsFirst'
  BY <1>3 DEF TogetherIsOverlap, InsertIsFirst, Recording
<1>5. OnlyOverlapDuplicates' /\ KnownExist'
  BY DEF IInv, OnlyOverlapDuplicates, SameCut, KnownExist
<1>6. OpenIsListed' /\ AnsweredClosesAll'
  BY DEF IInv, TypeOK, OpenIsListed, AnsweredClosesAll
<1> QED
  BY <1>1, <1>2, <1>4, <1>5, <1>6 DEF IInv

(* Every step keeps the invariant.                                         *)
LEMMA NextIInv == IInv /\ [Next]_vars => IInv'
<1> SUFFICES ASSUME IInv, [Next]_vars PROVE IInv'
  OBVIOUS
<1>1. ASSUME NEW c \in Command, Land(c) PROVE IInv'
  BY <1>1, LandStep
<1>2. ASSUME NEW c \in Command, Select(c) PROVE IInv'
  BY <1>2, SelectStep
<1>3. ASSUME NEW c \in Command, Insert(c) PROVE IInv'
  BY <1>3, InsertStep
<1>4. ASSUME NEW c \in Command, Publish(c) PROVE IInv'
  BY <1>4, PublishStep
<1>5. ASSUME NEW p \in Check, Post(p) PROVE IInv'
  BY <1>5, PostStep
<1>6. ASSUME NEW p \in Check, List(p) PROVE IInv'
  BY <1>6, ListStep
<1>7. ASSUME NEW p \in Check, Answer(p) PROVE IInv'
  BY <1>7, AnswerStep
<1>8. ASSUME NEW p \in Check, NEW i \in Id, Close(p, i) PROVE IInv'
  BY <1>8, CloseStep
<1>9. CASE Crash
  BY <1>9, CrashStep
<1>10. CASE UNCHANGED vars
  BY <1>10 DEF vars, cutVars, checkVars, IInv, TypeOK, PastInsertIsTracked, KnownExist,
     OpenIsListed, AnsweredClosesAll, TogetherIsOverlap, Recording, InsertIsFirst,
     OnlyOverlapDuplicates, SameCut
<1> QED
  BY <1>1, <1>2, <1>3, <1>4, <1>5, <1>6, <1>7, <1>8, <1>9, <1>10 DEF Next

(* The invariant holds throughout.                                         *)
THEOREM Invariance == Spec => []IInv
<1> QED
  BY InitIInv, NextIInv, PTL DEF Spec

(* The heal of an answered command is on record, and an answered check     *)
(* leaves nothing open that it could have closed: listing and closing,     *)
(* a transaction each, lose no attempt.                                    *)
THEOREM HealsFollowed == Spec => []HealsAreFollowed
<1>1. IInv => HealsAreFollowed
  BY DEF IInv, HealsAreFollowed, PastInsertIsTracked, AnsweredIsTracked
<1> QED
  BY <1>1, Invariance, PTL

(* The unguarded INSERT after the SELECT gives a cut a second attempt only *)
(* if two commands recorded it at once.                                    *)
THEOREM DuplicatesOverlap == Spec => []OnlyOverlapDuplicates
<1>1. IInv => OnlyOverlapDuplicates
  BY DEF IInv
<1> QED
  BY <1>1, Invariance, PTL

(* The conditional UPDATE never replaces a verdict, whichever checks read  *)
(* the attempt as open.                                                    *)
THEOREM FirstVerdict == Spec => FirstVerdictStands
<1> DEFINE Stands == \A i \in DOMAIN attempts :
                       attempts[i].by # Nobody => attempts'[i] = attempts[i]
<1>1. IInv /\ [Next]_vars => [Stands]_vars
  <2> SUFFICES ASSUME IInv, Next PROVE Stands
    OBVIOUS
  <2>1. ASSUME NEW c \in Command, Insert(c) PROVE Stands
    <3>1. attempts \in Seq(Attempt) /\ [cut |-> CutOf[c], by |-> Nobody] \in Attempt
      BY HealAssumption DEF IInv, TypeOK, Attempt
    <3> QED
      BY <2>1, <3>1, AppendLemma DEF Insert
  <2>2. ASSUME NEW p \in Check, NEW i \in Id, Close(p, i) PROVE Stands
    BY <2>2, CloseRows
  <2>3. ASSUME UNCHANGED attempts PROVE Stands
    BY <2>3
  <2> QED
    BY <2>1, <2>2, <2>3 DEF Next, Land, Select, SelectAs, Publish, Post, List, ListAs, Answer,
       Crash
<1> QED
  BY <1>1, Invariance, PTL DEF Spec, FirstVerdictStands

-----------------------------------------------------------------------------
InHand == {"append", "tell", "done", "lost"}

(* What is under way or over was vetted: its covers had been recorded, and *)
(* its id had not.                                                         *)
VettedIsSeen ==
  \A r \in Request : note[r].attests /\ note[r].run # None =>
    /\ \A f \in note[r].covers : seen[r][f] > 0
    /\ note[r].id \in Minted => seen[r][note[r].id] = 0

(* A row has its content, and an id of its own; what was told is a row.    *)
RowsAreApart ==
  /\ \A q, r \in stored : note[q].id = note[r].id => q = r
  /\ \A r \in stored : stage[r] \in {"tell", "done", "lost"}
  /\ \A r \in Request : stage[r] \in {"tell", "done"} => r \in stored
  /\ \A r \in Request : r \in paged => r \in stored /\ stage[r] = "done"
  /\ \A r \in Request : stage[r] = "done" /\ note[r].hot => r \in paged

(* The row is a snapshot that landed; what was found was older.            *)
FoundIsOlder ==
  /\ held = None => landed = {}
  /\ held # None => held \in landed
  /\ \A s \in Snapshot : step[s] = "write" /\ found[s] # None => Version[found[s]] < Version[s]
  /\ \A s \in landed : step[s] \in {"tell", "done", "lost"}
  /\ \A s \in Snapshot : step[s] = "tell" => s \in landed
  /\ \A s \in Snapshot : s \in paged => s \in landed
  /\ \A s \in Flagged : step[s] = "done" => s \in paged

(* Where nothing overlapped, no two posts of one version landed.           *)
LandedApart ==
  raced = {} => \A s, t \in landed : Version[s] = Version[t] => s = t

EarnedInv ==
  /\ StandingTypeOK
  /\ VettedIsSeen
  /\ RowsAreApart
  /\ FoundIsOlder
  /\ OnlyOverlapGoesBack
  /\ LandedApart

-----------------------------------------------------------------------------
LEMMA BodyFields ==
  ASSUME NEW b \in Body \cup {NoBody}
  PROVE  /\ b.attests \in BOOLEAN /\ b.hot \in BOOLEAN
         /\ b.covers \subseteq Minted
         /\ b.run \in Run \cup {None} /\ b.id \in FactId \cup {None}
<1>1. CASE b \in Body
  BY <1>1, StandingAssumption
<1>2. CASE b = NoBody
  BY <1>2 DEF NoBody
<1> QED BY <1>1, <1>2

LEMMA InitHolds == StandingInit => EarnedInv
<1> SUFFICES ASSUME StandingInit PROVE EarnedInv
  OBVIOUS
<1>a. Nothing \in [Minted -> 0..MaxMints]
  BY StandingAssumption DEF Nothing
<1>1. StandingTypeOK
  BY <1>a, StandingAssumption DEF StandingInit, StandingTypeOK
<1>2. VettedIsSeen
  BY DEF StandingInit, VettedIsSeen, NoBody
<1>3. RowsAreApart
  BY DEF StandingInit, RowsAreApart
<1>4. FoundIsOlder
  BY StandingAssumption DEF StandingInit, FoundIsOlder
<1>5. OnlyOverlapGoesBack /\ LandedApart
  BY DEF StandingInit, OnlyOverlapGoesBack, LandedApart
<1> QED BY <1>1, <1>2, <1>3, <1>4, <1>5 DEF EarnedInv

(* What the reputation's invariants speak of.                              *)
LEMMA ReputationSame ==
  ASSUME FoundIsOlder, OnlyOverlapGoesBack, LandedApart, UNCHANGED reputationVars,
         \A s \in Snapshot : s \in paged' <=> s \in paged
  PROVE  FoundIsOlder' /\ OnlyOverlapGoesBack' /\ LandedApart'
<1>0. Flagged \subseteq Snapshot
  BY StandingAssumption
<1>1. FoundIsOlder'
  BY <1>0 DEF FoundIsOlder, reputationVars
<1>2. OnlyOverlapGoesBack'
  BY DEF OnlyOverlapGoesBack, reputationVars
<1>3. LandedApart'
  BY DEF LandedApart, reputationVars
<1> QED BY <1>1, <1>2, <1>3

(* And what those of the fact log speak of.                                *)
LEMMA FactsSame ==
  ASSUME VettedIsSeen, RowsAreApart, UNCHANGED <<note, seen, stage, stored>>,
         \A r \in Request : r \in paged' <=> r \in paged
  PROVE  VettedIsSeen' /\ RowsAreApart'
<1>1. VettedIsSeen'
  BY DEF VettedIsSeen
<1>2. RowsAreApart'
  BY DEF RowsAreApart
<1> QED BY <1>1, <1>2

-----------------------------------------------------------------------------
LEMMA RecordStep ==
  ASSUME EarnedInv, NEW u \in Run, NEW f \in Minted, Record(u, f)
  PROVE  EarnedInv'
<1>1. StandingTypeOK'
  <2>1. mints + 1 \in 0..MaxMints
    BY StandingAssumption DEF EarnedInv, StandingTypeOK, Record
  <2>2. recorded' \in [Run -> [Minted -> 0..MaxMints]]
    BY <2>1 DEF EarnedInv, StandingTypeOK, Record
  <2> QED BY <2>1, <2>2 DEF EarnedInv, StandingTypeOK, Record, reputationVars
<1>2. VettedIsSeen' /\ RowsAreApart'
  BY FactsSame DEF EarnedInv, Record
<1>3. FoundIsOlder' /\ OnlyOverlapGoesBack' /\ LandedApart'
  BY ReputationSame DEF EarnedInv, Record
<1> QED BY <1>1, <1>2, <1>3 DEF EarnedInv

LEMMA PruneStep ==
  ASSUME EarnedInv, NEW u \in Run, PruneRun(u)
  PROVE  EarnedInv'
<1>a. Nothing \in [Minted -> 0..MaxMints]
  BY StandingAssumption DEF Nothing
<1>1. StandingTypeOK'
  BY <1>a DEF EarnedInv, StandingTypeOK, PruneRun, reputationVars
<1>2. VettedIsSeen' /\ RowsAreApart'
  BY FactsSame DEF EarnedInv, PruneRun
<1>3. FoundIsOlder' /\ OnlyOverlapGoesBack' /\ LandedApart'
  BY ReputationSame DEF EarnedInv, PruneRun
<1> QED BY <1>1, <1>2, <1>3 DEF EarnedInv

LEMMA VetStep ==
  ASSUME EarnedInv, NEW r \in Request, NEW b \in Body, Vet(r, b)
  PROVE  EarnedInv'
<1>b. /\ b.attests \in BOOLEAN /\ b.covers \subseteq Minted
      /\ b.run \in Run \cup {None}
  BY BodyFields
<1>t. StandingTypeOK
  BY DEF EarnedInv
<1>n. r \notin stored /\ r \notin paged
  BY DEF EarnedInv, RowsAreApart, Vet
<1>3. FoundIsOlder' /\ OnlyOverlapGoesBack' /\ LandedApart'
  BY ReputationSame DEF EarnedInv, Vet
<1>c. CASE InScope(b)
  <2> DEFINE have == IF b.run # None THEN recorded[b.run] ELSE Nothing
  <2>1. /\ note' = [note EXCEPT ![r] = b]
        /\ stage' = [stage EXCEPT ![r] = "append"]
        /\ seen' = [seen EXCEPT ![r] = have]
        /\ UNCHANGED <<recorded, mints, stored, reputationVars, paged>>
    BY <1>c DEF Vet
  <2>2. have \in [Minted -> 0..MaxMints]
    BY <1>b, <1>t, StandingAssumption DEF StandingTypeOK, Nothing
  <2>3. b.attests /\ b.run # None =>
          (\A f \in b.covers : have[f] > 0) /\ (b.id \in Minted => have[b.id] = 0)
    BY <1>b, <1>c, <1>t, <2>2 DEF InScope, Facts, StandingTypeOK
  <2> HIDE DEF have
  <2>4. StandingTypeOK'
    BY <1>t, <2>1, <2>2 DEF StandingTypeOK, reputationVars
  <2>5. VettedIsSeen'
    BY <1>t, <2>1, <2>3 DEF EarnedInv, VettedIsSeen, StandingTypeOK
  <2>6. RowsAreApart'
    BY <1>t, <1>n, <2>1 DEF EarnedInv, RowsAreApart, StandingTypeOK
  <2> QED BY <1>3, <2>4, <2>5, <2>6 DEF EarnedInv
<1>d. CASE ~InScope(b)
  <2>1. /\ stage' = [stage EXCEPT ![r] = "refused"]
        /\ UNCHANGED <<note, seen, recorded, mints, stored, reputationVars, paged>>
    BY <1>d DEF Vet
  <2>2. StandingTypeOK'
    BY <1>t, <2>1 DEF StandingTypeOK, reputationVars
  <2>3. VettedIsSeen'
    BY <2>1 DEF EarnedInv, VettedIsSeen
  <2>4. RowsAreApart'
    BY <1>t, <1>n, <2>1 DEF EarnedInv, RowsAreApart, StandingTypeOK
  <2> QED BY <1>3, <2>2, <2>3, <2>4 DEF EarnedInv
<1> QED BY <1>c, <1>d

LEMMA AppendStep ==
  ASSUME EarnedInv, NEW r \in Request, AppendFact(r)
  PROVE  EarnedInv'
<1>t. StandingTypeOK
  BY DEF EarnedInv
<1>n. r \notin stored /\ r \notin paged
  BY DEF EarnedInv, RowsAreApart, AppendFact
<1>1. StandingTypeOK'
  BY <1>t DEF StandingTypeOK, AppendFact, reputationVars
<1>2. VettedIsSeen'
  BY DEF EarnedInv, VettedIsSeen, AppendFact
<1>3. FoundIsOlder' /\ OnlyOverlapGoesBack' /\ LandedApart'
  BY ReputationSame DEF EarnedInv, AppendFact
<1>4. RowsAreApart'
  <2>1. CASE \E q \in stored : note[q].id = note[r].id
    BY <1>t, <1>n, <2>1 DEF EarnedInv, RowsAreApart, AppendFact, StandingTypeOK
  <2>2. CASE ~\E q \in stored : note[q].id = note[r].id
    BY <1>t, <1>n, <2>2 DEF EarnedInv, RowsAreApart, AppendFact, StandingTypeOK
  <2> QED BY <2>1, <2>2
<1> QED BY <1>1, <1>2, <1>3, <1>4 DEF EarnedInv

LEMMA TellFactStep ==
  ASSUME EarnedInv, NEW r \in Request, TellFact(r)
  PROVE  EarnedInv'
<1>t. StandingTypeOK
  BY DEF EarnedInv
<1>n. r \in stored /\ r \notin Snapshot
  BY StandingAssumption DEF EarnedInv, RowsAreApart, TellFact
<1>1. StandingTypeOK'
  BY <1>t DEF StandingTypeOK, TellFact, reputationVars
<1>2. VettedIsSeen'
  BY DEF EarnedInv, VettedIsSeen, TellFact
<1>3. FoundIsOlder' /\ OnlyOverlapGoesBack' /\ LandedApart'
  BY <1>n, ReputationSame DEF EarnedInv, TellFact
<1>4. RowsAreApart'
  BY <1>t, <1>n DEF EarnedInv, RowsAreApart, TellFact, StandingTypeOK
<1> QED BY <1>1, <1>2, <1>3, <1>4 DEF EarnedInv

-----------------------------------------------------------------------------
LEMMA SelectReputationStep ==
  ASSUME EarnedInv, NEW s \in Snapshot, SelectReputation(s)
  PROVE  EarnedInv'
<1>t. StandingTypeOK /\ Version \in [Snapshot -> Nat \ {0}] /\ Flagged \subseteq Snapshot
  BY StandingAssumption DEF EarnedInv
<1>n. s \notin landed /\ s \notin paged
  BY DEF EarnedInv, FoundIsOlder, SelectReputation
<1>1. StandingTypeOK'
  BY <1>t DEF StandingTypeOK, SelectReputation, factVars
<1>2. VettedIsSeen' /\ RowsAreApart'
  BY FactsSame DEF EarnedInv, SelectReputation, factVars
<1>3. FoundIsOlder'
  <2>1. CASE held # None /\ Version[held] >= Version[s]
    BY <1>t, <1>n, <2>1 DEF EarnedInv, FoundIsOlder, SelectReputation, StandingTypeOK
  <2>2. CASE ~(held # None /\ Version[held] >= Version[s])
    <3>1. held # None => Version[held] < Version[s]
      BY <1>t, <2>2 DEF StandingTypeOK
    <3>2. /\ step' = [step EXCEPT ![s] = "write"] /\ found' = [found EXCEPT ![s] = held]
          /\ UNCHANGED <<held, landed, paged>>
      BY <2>2 DEF SelectReputation
    <3> QED BY <1>t, <1>n, <3>1, <3>2 DEF EarnedInv, FoundIsOlder, StandingTypeOK
  <2> QED BY <2>1, <2>2
<1>4. OnlyOverlapGoesBack' /\ LandedApart'
  BY DEF EarnedInv, OnlyOverlapGoesBack, LandedApart, SelectReputation
<1> QED BY <1>1, <1>2, <1>3, <1>4 DEF EarnedInv

LEMMA PutStep ==
  ASSUME EarnedInv, NEW s \in Snapshot, PutReputation(s)
  PROVE  EarnedInv'
<1>t. StandingTypeOK /\ Version \in [Snapshot -> Nat \ {0}] /\ Flagged \subseteq Snapshot /\ None \notin Snapshot
  BY StandingAssumption DEF EarnedInv
<1>n. s \notin landed /\ s \notin paged /\ step[s] = "write"
  BY DEF EarnedInv, FoundIsOlder, PutReputation
<1>2. VettedIsSeen' /\ RowsAreApart'
  BY FactsSame DEF EarnedInv, PutReputation, factVars
<1>a. CASE found[s] = None /\ held # None
  <2>1. /\ step' = [step EXCEPT ![s] = "failed"]
        /\ UNCHANGED <<factVars, held, landed, raced, found, paged>>
    BY <1>a DEF PutReputation
  <2>2. StandingTypeOK'
    BY <1>t, <2>1 DEF StandingTypeOK, factVars
  <2>3. FoundIsOlder'
    BY <1>t, <1>n, <2>1 DEF EarnedInv, FoundIsOlder, StandingTypeOK
  <2>4. OnlyOverlapGoesBack' /\ LandedApart'
    BY <2>1 DEF EarnedInv, OnlyOverlapGoesBack, LandedApart
  <2> QED BY <1>2, <2>2, <2>3, <2>4 DEF EarnedInv
<1>b. CASE ~(found[s] = None /\ held # None)
  <2>1. /\ step' = [step EXCEPT ![s] = "tell"]
        /\ held' = s /\ landed' = landed \cup {s}
        /\ raced' = IF held # found[s] THEN raced \cup {s} ELSE raced
        /\ UNCHANGED <<factVars, found, paged>>
    BY <1>b DEF PutReputation
  <2>2. StandingTypeOK'
    BY <1>t, <2>1 DEF StandingTypeOK, factVars
  <2>3. FoundIsOlder'
    BY <1>t, <1>n, <2>1 DEF EarnedInv, FoundIsOlder, StandingTypeOK
  <2>4. raced' = raced => held = found[s] \/ s \in raced
    BY <2>1
  <2>5. s \notin raced
    BY <1>t, <1>n DEF StandingTypeOK
  <2>6. held = found[s] => \A t \in landed : held # None /\ Version[held] < Version[s]
    BY <1>n DEF EarnedInv, FoundIsOlder
  <2>7. OnlyOverlapGoesBack'
    <3> SUFFICES ASSUME NEW t \in landed', Version[s] < Version[t]
                 PROVE  \E w \in raced' : Version[w] < Version[t]
      BY <1>t, <2>1 DEF OnlyOverlapGoesBack
    <3>1. t \in landed /\ t \in Snapshot
      BY <1>t, <2>1 DEF StandingTypeOK
    <3>2. CASE held # found[s]
      BY <2>1, <3>2
    <3>3. CASE held = found[s]
      <4>1. held \in Snapshot /\ Version[held] < Version[s]
        BY <1>t, <2>6, <3>1, <3>3 DEF StandingTypeOK
      <4>2. Version[held] < Version[t]
        BY <1>t, <3>1, <4>1
      <4>3. PICK w \in raced : Version[w] < Version[t]
        BY <3>1, <4>2 DEF EarnedInv, OnlyOverlapGoesBack
      <4> QED BY <2>1, <4>3
    <3> QED BY <3>2, <3>3
  <2>8. LandedApart'
    <3> SUFFICES ASSUME raced' = {}, NEW p \in landed', NEW q \in landed', Version[p] = Version[q]
                 PROVE  p = q
      BY DEF LandedApart
    <3>1. raced = {} /\ held = found[s]
      BY <2>1
    <3>2. \A t \in landed : Version[t] < Version[s]
      <4> SUFFICES ASSUME NEW t \in landed PROVE Version[t] < Version[s]
        OBVIOUS
      <4>1. t \in Snapshot /\ held \in Snapshot /\ Version[held] < Version[s]
        BY <1>t, <2>6, <3>1 DEF StandingTypeOK
      <4>2. ~(Version[held] < Version[t])
        BY <3>1 DEF EarnedInv, OnlyOverlapGoesBack
      <4> QED BY <1>t, <4>1, <4>2
    <3>3. p \in Snapshot /\ q \in Snapshot
      BY <1>t, <2>1 DEF StandingTypeOK
    <3>4. CASE p \in landed /\ q \in landed
      BY <3>1, <3>4 DEF EarnedInv, LandedApart
    <3>5. CASE p = s /\ q \in landed
      BY <1>t, <3>2, <3>3, <3>5
    <3>6. CASE q = s /\ p \in landed
      BY <1>t, <3>2, <3>3, <3>6
    <3> QED BY <2>1, <3>4, <3>5, <3>6
  <2> QED BY <1>2, <2>2, <2>3, <2>7, <2>8 DEF EarnedInv
<1> QED BY <1>a, <1>b

LEMMA TellReputationStep ==
  ASSUME EarnedInv, NEW s \in Snapshot, TellReputation(s)
  PROVE  EarnedInv'
<1>t. StandingTypeOK /\ Flagged \subseteq Snapshot /\ s \notin Request
  BY StandingAssumption DEF EarnedInv
<1>1. StandingTypeOK'
  BY <1>t DEF StandingTypeOK, TellReputation, factVars
<1>2. VettedIsSeen' /\ RowsAreApart'
  BY <1>t, FactsSame DEF EarnedInv, TellReputation, factVars
<1>3. FoundIsOlder'
  BY <1>t DEF EarnedInv, FoundIsOlder, TellReputation, StandingTypeOK
<1>4. OnlyOverlapGoesBack' /\ LandedApart'
  BY DEF EarnedInv, OnlyOverlapGoesBack, LandedApart, TellReputation
<1> QED BY <1>1, <1>2, <1>3, <1>4 DEF EarnedInv

LEMMA StopStep ==
  ASSUME EarnedInv, StandingStops
  PROVE  EarnedInv'
<1>t. StandingTypeOK /\ Flagged \subseteq Snapshot
  BY StandingAssumption DEF EarnedInv
<1>1. StandingTypeOK'
  BY <1>t DEF StandingTypeOK, StandingStops
<1>2. VettedIsSeen'
  BY DEF EarnedInv, VettedIsSeen, StandingStops
<1>3. RowsAreApart'
  BY <1>t DEF EarnedInv, RowsAreApart, StandingStops, StandingTypeOK
<1>4. FoundIsOlder'
  BY <1>t DEF EarnedInv, FoundIsOlder, StandingStops, StandingTypeOK
<1>5. OnlyOverlapGoesBack' /\ LandedApart'
  BY DEF EarnedInv, OnlyOverlapGoesBack, LandedApart, StandingStops
<1> QED BY <1>1, <1>2, <1>3, <1>4, <1>5 DEF EarnedInv

LEMMA StandingStutters ==
  ASSUME EarnedInv, UNCHANGED standingVars
  PROVE  EarnedInv'
<1>1. StandingTypeOK'
  BY DEF EarnedInv, StandingTypeOK, standingVars, factVars, reputationVars
<1>2. VettedIsSeen' /\ RowsAreApart'
  BY FactsSame DEF EarnedInv, standingVars, factVars
<1>3. FoundIsOlder' /\ OnlyOverlapGoesBack' /\ LandedApart'
  BY ReputationSame DEF EarnedInv, standingVars
<1> QED BY <1>1, <1>2, <1>3 DEF EarnedInv

-----------------------------------------------------------------------------
(* The inductive invariant gives what the run checks.                      *)
LEMMA Consequences == EarnedInv => StandingIsEarned
<1> SUFFICES ASSUME EarnedInv PROVE StandingIsEarned
  OBVIOUS
<1>t. StandingTypeOK /\ Minted \subseteq FactId /\ None \notin Run
  BY StandingAssumption DEF EarnedInv
<1>b. \A r \in Request : /\ note[r].attests \in BOOLEAN
                         /\ note[r].covers \subseteq Minted
  BY <1>t, BodyFields DEF StandingTypeOK
<1>1. DischargeIsEarned
  <2> SUFFICES ASSUME NEW u \in Run, NEW f \in Facts(u) \ Holding(u)
               PROVE  \E r \in stored :
                        /\ note[r].run = u /\ f \in note[r].covers /\ seen[r][f] > 0
                        /\ \A q \in Applied(u) : note[q].revokes # note[r].id
    BY DEF DischargeIsEarned
  <2>1. PICK r \in Discharging(u) : f \in note[r].covers
    BY DEF Holding, Discharged
  <2>2. r \in stored /\ note[r].attests /\ note[r].run = u /\ r \in Request
    BY <1>t, <2>1 DEF Discharging, Applied, Log, StandingTypeOK
  <2>3. \A q \in Applied(u) : note[q].revokes # note[r].id
    BY <2>1 DEF Discharging, Revoking
  <2>4. seen[r][f] > 0
    BY <1>t, <2>1, <2>2 DEF EarnedInv, VettedIsSeen
  <2> QED BY <2>1, <2>2, <2>3, <2>4
<1>2. OnlyLateFactsShadow
  <2> SUFFICES ASSUME NEW u \in Run, NEW r \in Log(u) \ Applied(u)
               PROVE  seen[r][note[r].id] # recorded[u][note[r].id]
    BY DEF OnlyLateFactsShadow
  <2>1. note[r].id \in Minted /\ recorded[u][note[r].id] > 0
    BY DEF Applied, Facts
  <2>2. r \in Request /\ note[r].attests /\ note[r].run = u
    BY <1>t DEF Log, StandingTypeOK
  <2>3. seen[r][note[r].id] = 0
    BY <1>t, <2>1, <2>2 DEF EarnedInv, VettedIsSeen
  <2>4. recorded[u][note[r].id] \in 0..MaxMints
    BY <1>t, <2>1 DEF StandingTypeOK
  <2> QED BY <2>1, <2>3, <2>4
<1>3. SurfacesAgree
  <2> SUFFICES ASSUME NEW u \in Run, NEW ref \in Root, NEW r \in Attesting(u, ref),
                      \A q \in Log(u) \ Applied(u) : q # r /\ note[q].revokes # note[r].id
               PROVE  r \in InEffect(u, ref) <=> r \in Discharging(u)
    BY DEF SurfacesAgree
  <2>1. r \in Log(u) /\ r \in Applied(u) /\ Applied(u) \subseteq Log(u)
    BY DEF Attesting, Applied
  <2>2. note[r].id \in Revoking(Log(u)) <=> note[r].id \in Revoking(Applied(u))
    BY <2>1 DEF Revoking
  <2> QED BY <2>1, <2>2 DEF InEffect, Discharging
<1>4. NewsIsTold
  <2>1. \A r \in Request : stage[r] = "done" /\ note[r].hot => r \in paged
    BY DEF EarnedInv, RowsAreApart
  <2>2. \A q, r \in Request \cap paged : note[q].id = note[r].id => q = r
    BY DEF EarnedInv, RowsAreApart
  <2>3. \A s \in Flagged : step[s] = "done" => s \in paged
    BY DEF EarnedInv, FoundIsOlder
  <2>4. \A s, t \in Snapshot \cap paged : s # t /\ Version[s] = Version[t] => raced # {}
    BY DEF EarnedInv, FoundIsOlder, LandedApart
  <2> QED BY <2>1, <2>2, <2>3, <2>4 DEF NewsIsTold
<1> QED BY <1>1, <1>2, <1>3, <1>4 DEF EarnedInv, StandingIsEarned

(* The inductive invariant.                                                *)
THEOREM StandingInvariance == StandingSpec => []EarnedInv
<1>1. EarnedInv /\ [StandingNext]_standingVars => EarnedInv'
  <2> SUFFICES ASSUME EarnedInv, [StandingNext]_standingVars PROVE EarnedInv'
    OBVIOUS
  <2>1. ASSUME NEW u \in Run, PruneRun(u) PROVE EarnedInv'
    BY <2>1, PruneStep
  <2>2. ASSUME NEW u \in Run, NEW f \in Minted, Record(u, f) PROVE EarnedInv'
    BY <2>2, RecordStep
  <2>3. ASSUME NEW r \in Request, NEW b \in Body, Vet(r, b) PROVE EarnedInv'
    BY <2>3, VetStep
  <2>4. ASSUME NEW r \in Request, AppendFact(r) PROVE EarnedInv'
    BY <2>4, AppendStep
  <2>5. ASSUME NEW r \in Request, TellFact(r) PROVE EarnedInv'
    BY <2>5, TellFactStep
  <2>6. ASSUME NEW s \in Snapshot, SelectReputation(s) PROVE EarnedInv'
    BY <2>6, SelectReputationStep
  <2>7. ASSUME NEW s \in Snapshot, PutReputation(s) PROVE EarnedInv'
    BY <2>7, PutStep
  <2>8. ASSUME NEW s \in Snapshot, TellReputation(s) PROVE EarnedInv'
    BY <2>8, TellReputationStep
  <2>9. ASSUME StandingStops PROVE EarnedInv'
    BY <2>9, StopStep
  <2>10. ASSUME UNCHANGED standingVars PROVE EarnedInv'
    BY <2>10, StandingStutters
  <2> QED BY <2>1, <2>2, <2>3, <2>4, <2>5, <2>6, <2>7, <2>8, <2>9, <2>10
          DEF StandingNext, FactStep, ReputationStep
<1> QED BY <1>1, InitHolds, PTL DEF StandingSpec

(* No recorded fact is discharged but by a checked attestation that stands,*)
(* no reputation gives way to an older one but where two posts overlapped, *)
(* and the operator hears of both once.                                    *)
THEOREM StandingEarned == StandingSpec => []StandingIsEarned
  BY StandingInvariance, Consequences, PTL

-----------------------------------------------------------------------------
(* The process that serves both: no step of the one disturbs the other,    *)
(* but for the crash that ends them together.                              *)
LEMMA BothAreServed ==
  /\ ReportsInit => Init /\ StandingInit
  /\ [ReportsNext]_reportVars => [Next]_vars /\ [StandingNext]_standingVars
<1>1. CASE UNCHANGED reportVars
  BY <1>1 DEF reportVars, ReportsInit
<1>2. CASE Heals
  BY <1>2 DEF Heals, Next, ReportsInit
<1>3. CASE Attests \/ Reputes
  BY <1>3 DEF Attests, Reputes, StandingNext, ReportsInit
<1>4. CASE Dies
  BY <1>4 DEF Dies, Next, StandingNext, ReportsInit
<1> QED
  BY <1>1, <1>2, <1>3, <1>4 DEF ReportsNext, ReportsInit

(* What the loop and the standing promise apart, one process of the plane  *)
(* keeps together: heals are followed to the first verdict, cuts have one  *)
(* attempt but for overlaps, and a standing moves on evidence.             *)
THEOREM ReportsKeepBoth ==
  ReportsSpec => /\ []HealsAreFollowed /\ []OnlyOverlapDuplicates
                 /\ FirstVerdictStands /\ []StandingIsEarned
<1>1. ReportsSpec => Spec /\ StandingSpec
  BY BothAreServed, PTL DEF ReportsSpec, Spec, StandingSpec
<1> QED
  BY <1>1, HealsFollowed, DuplicatesOverlap, FirstVerdict, StandingEarned
=============================================================================
