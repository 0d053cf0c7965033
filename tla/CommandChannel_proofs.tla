----------------------- MODULE CommandChannel_proofs -----------------------
(***************************************************************************)
(* Machine-checked safety of the command channel: of the row and its       *)
(* handlers, for every set of requests and keys and every number of retry  *)
(* passes, and then of the stream that brings their deltas to the node,    *)
(* for every capacity of its queue.                                        *)
(***************************************************************************)
EXTENDS PlaneStream, SequenceTheorems, TLAPS

(* What a write appends to the history is a log entry, and appending       *)
(* leaves the earlier entries where they were.                             *)
LEMMA AppendLemma ==
  ASSUME NEW S, NEW s \in Seq(S), NEW e \in S
  PROVE  /\ Append(s, e) \in Seq(S)
         /\ Len(Append(s, e)) = Len(s) + 1
         /\ DOMAIN Append(s, e) = 1..(Len(s) + 1)
         /\ DOMAIN s = 1..Len(s) /\ Len(s) \in Nat
         /\ \A i \in 1..Len(s) : Append(s, e)[i] = s[i]
         /\ Append(s, e)[Len(s) + 1] = e
  OBVIOUS

(* Merging a well-typed write into a row gives a row.                      *)
LEMMA MergeType ==
  ASSUME NEW old \in Row, NEW j \in Job, NEW r \in Req
  PROVE  Merge(old, j, r) \in Row
<1>1. Written(j, r) \in Req \cup {None}
  BY DEF Written
<1>2. old.version + 1 \in Nat /\ old.state \in [Key -> Req \cup {None}]
      /\ old.by \in [Key -> Command]
  BY DEF Row
<1>3. Recorded(old.by, j, r, old.version + 1) \in [Key -> Command]
  <2>1. [sig |-> r, version |-> old.version + 1] \in Command
    BY <1>2 DEF Command
  <2>2. NoCommand \in Command
    BY DEF NoCommand, Command
  <2>3. \A k \in Key : old.by[k] \in Command
    BY <1>2
  <2> QED
    BY <2>1, <2>2, <2>3 DEF Recorded
<1>4. [k \in Key |-> IF k \in j.keys THEN Written(j, r) ELSE old.state[k]]
        \in [Key -> Req \cup {None}]
  BY <1>1, <1>2
<1> QED
  BY <1>2, <1>3, <1>4 DEF Merge, Row

(* Initially nothing is written: the invariant holds.                      *)
LEMMA InitIInv == Init => IInv
<1> SUFFICES ASSUME Init PROVE IInv
  OBVIOUS
<1> USE DEF Init
<1>1. NoRow \in Row /\ NoJob \in Job
  BY DEF NoRow, Row, NoCommand, Command, NoJob, Job
<1>2. TypeOK
  BY <1>1, BoundAssumption DEF TypeOK, Stages, Answers, LogEntry
<1>3. NoLostUpdate
  BY DEF NoLostUpdate, NoRow
<1>4. CommandsVouch
  BY DEF CommandsVouch, NoRow
<1>5. ReadsAreCurrent /\ LandedIsLogged
  BY DEF ReadsAreCurrent, LandedIsLogged
<1>6. StagesAgree
  BY DEF StagesAgree, NoJob
<1>7. ValuesLanded
  BY DEF ValuesLanded, NoRow
<1> QED
  BY <1>2, <1>3, <1>4, <1>5, <1>6, <1>7 DEF IInv

(* Nothing stored and no job changes, so what the row says stays true.     *)
LEMMA StoreUnchanged ==
  ASSUME IInv, UNCHANGED <<store, job>>
  PROVE  NoLostUpdate' /\ CommandsVouch' /\ LandedIsLogged' /\ ValuesLanded'
BY DEF IInv, store, NoLostUpdate, LastWrite, CommandsVouch, LandedIsLogged, ValuesLanded

(* Answering a request that has written nothing, and says so.              *)
LEMMA RefuseStep ==
  ASSUME IInv, NEW r \in Req, NEW status \in {"200", "403", "409"}, Refuse(r, status),
         pc[r] \in {"idle", "read"}
  PROVE  IInv'
<1> USE DEF Refuse, Answer, Goto, store
<1>1. TypeOK'
  BY DEF IInv, TypeOK, Stages, Answers
<1>2. NoLostUpdate' /\ CommandsVouch' /\ LandedIsLogged' /\ ValuesLanded'
  BY StoreUnchanged
<1>3. ReadsAreCurrent'
  BY DEF IInv, TypeOK, ReadsAreCurrent, CanWrite
<1>4. StagesAgree'
  BY BoundAssumption DEF IInv, TypeOK, StagesAgree, Passes
<1> QED
  BY <1>1, <1>2, <1>3, <1>4 DEF IInv

(* Taking a new job on: a request that was idle has nothing in the store.  *)
LEMMA AcceptStep ==
  ASSUME IInv, NEW r \in Req, NEW j \in Job, pc[r] = "idle",
         j.kind = "ack" => ~j.signed, Accept(r, j)
  PROVE  IInv'
<1> USE DEF Accept, Goto, store
<1>1. landed[r] = 0
  BY DEF IInv, StagesAgree
<1>2. TypeOK'
  BY DEF IInv, TypeOK, Stages
<1>3. NoLostUpdate' /\ LandedIsLogged' /\ ValuesLanded'
  BY DEF IInv, NoLostUpdate, LastWrite, LandedIsLogged, ValuesLanded
<1>4. CommandsVouch'
  <2> SUFFICES ASSUME NEW k \in Key
               PROVE  /\ row.by[k] # NoCommand =>
                           /\ row.state[k] # None /\ row.state[k] = row.by[k].sig
                           /\ row.by[k].version = landed[row.by[k].sig]
                           /\ k \in job'[row.by[k].sig].keys
                      /\ row.state[k] # None /\ job'[row.state[k]].signed
                           => row.by[k].sig = row.state[k]
    BY DEF CommandsVouch
  <2>1. row.state[k] \in Req \cup {None}
    BY DEF IInv, TypeOK, Row
  <2>2. row.state[k] # None => row.state[k] # r /\ job'[row.state[k]] = job[row.state[k]]
    BY <1>1, <2>1 DEF IInv, ValuesLanded, TypeOK
  <2> QED
    BY <2>1, <2>2 DEF IInv, CommandsVouch
<1>5. ReadsAreCurrent'
  BY DEF IInv, TypeOK, ReadsAreCurrent, CanWrite
<1>6. StagesAgree'
  BY <1>1, BoundAssumption DEF IInv, TypeOK, StagesAgree, Passes
<1> QED
  BY <1>2, <1>3, <1>4, <1>5, <1>6 DEF IInv

(* SELECT: the row read is the row as it is, and a command goes on only    *)
(* from the version it was signed on top of.                               *)
LEMMA ReadStep ==
  ASSUME IInv, NEW r \in Req, Read(r)
  PROVE  IInv'
<1>1. CASE Refuse(r, "409") \/ Refuse(r, "200")
  BY <1>1, RefuseStep DEF Read
<1>2. CASE /\ pc[r] = "read"
           /\ job[r].kind = "command" => row.version = job[r].expect
           /\ seen' = [seen EXCEPT ![r] = row]
           /\ Goto(r, "write")
           /\ UNCHANGED <<posture, store, job, tries, answer, heals>>
  <2> USE <1>2 DEF Goto, store
  <2>1. TypeOK'
    BY DEF IInv, TypeOK, Stages
  <2>2. NoLostUpdate' /\ CommandsVouch' /\ LandedIsLogged' /\ ValuesLanded'
    BY StoreUnchanged
  <2>3. ReadsAreCurrent'
    BY DEF IInv, TypeOK, ReadsAreCurrent, CanWrite, Row
  <2>4. StagesAgree'
    BY BoundAssumption DEF IInv, TypeOK, StagesAgree, Passes
  <2> QED
    BY <2>1, <2>2, <2>3, <2>4 DEF IInv
<1> QED
  BY <1>1, <1>2 DEF Read

(* Losing the race: nothing is stored, the handler re-reads or gives up.   *)
LEMMA LoseStep ==
  ASSUME IInv, NEW r \in Req, Lose(r)
  PROVE  IInv'
<1> USE DEF Lose, Goto, Answer, store
<1>1. TypeOK'
  <2>1. tries' \in [Req -> 0..Attempts]
    BY BoundAssumption DEF IInv, TypeOK, StagesAgree, Passes
  <2>2. pc' \in [Req -> Stages]
    BY DEF IInv, TypeOK, Stages
  <2>3. answer' \in [Req -> Answers]
    BY DEF IInv, TypeOK, Answers
  <2> QED
    BY <2>1, <2>2, <2>3 DEF IInv, TypeOK
<1>2. NoLostUpdate' /\ CommandsVouch' /\ LandedIsLogged' /\ ValuesLanded'
  BY StoreUnchanged
<1>3. ReadsAreCurrent'
  BY DEF IInv, TypeOK, ReadsAreCurrent, CanWrite
<1>4. StagesAgree'
  BY BoundAssumption DEF IInv, TypeOK, StagesAgree, Passes
<1> QED
  BY <1>1, <1>2, <1>3, <1>4 DEF IInv

(* The heal hook: past the write, whatever it decides.                     *)
LEMMA OpenHealStep ==
  ASSUME IInv, NEW r \in Req, OpenHeal(r)
  PROVE  IInv'
<1> USE DEF OpenHeal, Goto, Answer, store
<1>1. TypeOK'
  BY DEF IInv, TypeOK, Stages, Answers
<1>2. NoLostUpdate' /\ CommandsVouch' /\ LandedIsLogged' /\ ValuesLanded'
  BY StoreUnchanged
<1>3. ReadsAreCurrent'
  BY DEF IInv, TypeOK, ReadsAreCurrent, CanWrite
<1>4. StagesAgree'
  BY BoundAssumption DEF IInv, TypeOK, StagesAgree, Passes
<1> QED
  BY <1>1, <1>2, <1>3, <1>4 DEF IInv

(* The delta goes out and the caller is told 202: it has landed by then.   *)
LEMMA PublishKeeps ==
  ASSUME IInv, NEW r \in Req, Publish(r)
  PROVE  IInv'
<1> USE DEF Publish, Goto, Answer, store
<1>1. TypeOK'
  BY DEF IInv, TypeOK, Stages, Answers
<1>2. NoLostUpdate' /\ CommandsVouch' /\ LandedIsLogged' /\ ValuesLanded'
  BY StoreUnchanged
<1>3. ReadsAreCurrent'
  BY DEF IInv, TypeOK, ReadsAreCurrent, CanWrite
<1>4. StagesAgree'
  BY BoundAssumption DEF IInv, TypeOK, StagesAgree, Passes
<1> QED
  BY <1>1, <1>2, <1>3, <1>4 DEF IInv

(* A restart ends the handlers in flight and touches nothing committed.    *)
LEMMA RestartStep ==
  ASSUME IInv, Restart
  PROVE  IInv'
<1> USE DEF Restart, InFlight, store
<1>1. TypeOK'
  BY DEF IInv, TypeOK, Stages
<1>2. NoLostUpdate' /\ CommandsVouch' /\ LandedIsLogged' /\ ValuesLanded'
  BY StoreUnchanged
<1>3. ReadsAreCurrent'
  BY DEF IInv, TypeOK, ReadsAreCurrent, CanWrite
<1>4. StagesAgree'
  BY BoundAssumption DEF IInv, TypeOK, StagesAgree, Passes
<1> QED
  BY <1>1, <1>2, <1>3, <1>4 DEF IInv

(* The write itself.  The handler's SELECT is current (ReadsAreCurrent),   *)
(* so the row it stores is the old row plus its own keys, and the new      *)
(* version is the position of its entry in the history.                    *)
LEMMA WriteFacts ==
  ASSUME IInv, NEW r \in Req, Write(r)
  PROVE  /\ seen[r] = row /\ row' = Merge(row, job[r], r)
         /\ landed[r] = 0 /\ landed' = [landed EXCEPT ![r] = Len(log) + 1]
         /\ row.version = Len(log) /\ row'.version = Len(log) + 1
         /\ Written(job[r], r) \in {r, None}
         /\ log' = Append(log, [req |-> r, keys |-> job[r].keys,
                                 val |-> Written(job[r], r)])
         /\ [req |-> r, keys |-> job[r].keys, val |-> Written(job[r], r)] \in LogEntry
         /\ job[r].kind = "command" => job[r].expect = row.version
<1>1. seen[r] = row
  BY DEF IInv, ReadsAreCurrent, Write
<1>2. row' = Merge(row, job[r], r)
  BY <1>1 DEF Write
<1>3. row'.version = row.version + 1 /\ row.version = Len(log)
  BY <1>2 DEF Merge, IInv, NoLostUpdate
<1>4. landed[r] = 0
  BY DEF IInv, StagesAgree, Write
<1>5. landed' = [landed EXCEPT ![r] = Len(log) + 1]
  BY <1>3 DEF Write
<1>6. Written(job[r], r) \in {r, None}
  BY DEF Written
<1>7. job[r].keys \in SUBSET Key
  BY DEF IInv, TypeOK, Job
<1>8. [req |-> r, keys |-> job[r].keys, val |-> Written(job[r], r)] \in LogEntry
  BY <1>6, <1>7 DEF LogEntry
<1>9. job[r].kind = "command" => job[r].expect = row.version
  BY <1>1 DEF IInv, ReadsAreCurrent, Write
<1> QED
  BY <1>1, <1>2, <1>3, <1>4, <1>5, <1>6, <1>8, <1>9 DEF Write

(* The UPDATE keeps the types.                                             *)
LEMMA WriteTypeOK ==
  ASSUME IInv, NEW r \in Req, Write(r)
  PROVE  TypeOK'
<1> DEFINE e == [req |-> r, keys |-> job[r].keys, val |-> Written(job[r], r)]
<1>1. /\ row' = Merge(row, job[r], r) /\ log' = Append(log, e) /\ e \in LogEntry
      /\ landed' = [landed EXCEPT ![r] = Len(log) + 1]
  BY WriteFacts
<1>2. /\ row \in Row /\ job[r] \in Job /\ landed \in [Req -> Nat]
      /\ log \in Seq(LogEntry) /\ Len(log) \in Nat
  BY DEF IInv, TypeOK
<1>3. row' \in Row
  BY <1>1, <1>2, MergeType
<1>4. log' \in Seq(LogEntry)
  <2> HIDE DEF e
  <2> QED
    BY <1>1, <1>2, AppendLemma
<1>5. landed' \in [Req -> Nat]
  BY <1>1, <1>2
<1>6. pc' \in [Req -> Stages] /\ answer' \in [Req -> Answers]
  BY DEF IInv, TypeOK, Write, Goto, Answer, Stages, Answers
<1> QED
  BY <1>3, <1>4, <1>5, <1>6 DEF IInv, TypeOK, Write

(* The UPDATE replaces the very row its handler read: no write is lost.    *)
LEMMA WriteNoLostUpdate ==
  ASSUME IInv, NEW r \in Req, Write(r)
  PROVE  NoLostUpdate'
<1> DEFINE n == Len(log)
           e == [req |-> r, keys |-> job[r].keys, val |-> Written(job[r], r)]
<1>1. /\ log \in Seq(LogEntry) /\ e \in LogEntry /\ log' = Append(log, e)
      /\ row.version = n /\ row' = Merge(row, job[r], r)
  BY WriteFacts DEF IInv, TypeOK
<1>2. /\ DOMAIN log = 1..n /\ n \in Nat
      /\ DOMAIN log' = 1..(n + 1) /\ Len(log') = n + 1
      /\ \A i \in 1..n : log'[i] = log[i]
      /\ log'[n + 1] = e
  BY <1>1, AppendLemma
<1> HIDE DEF n, e
<1>3. row'.version = Len(log')
  BY <1>1, <1>2 DEF Merge
<1>4. ASSUME NEW k \in Key
      PROVE  LET Last(i) == /\ k \in log'[i].keys
                            /\ \A j \in DOMAIN log' : j > i => k \notin log'[j].keys
             IN  \/ \E i \in DOMAIN log' : Last(i) /\ row'.state[k] = log'[i].val
                 \/ row'.state[k] = None /\ \A i \in DOMAIN log' : k \notin log'[i].keys
  <2> DEFINE Last(i) == /\ k \in log'[i].keys
                        /\ \A j \in DOMAIN log' : j > i => k \notin log'[j].keys
  <2>1. row'.state[k] = IF k \in job[r].keys THEN Written(job[r], r) ELSE row.state[k]
    BY <1>1 DEF Merge
  <2>2. CASE k \in job[r].keys
    <3>1. k \in log'[n + 1].keys /\ log'[n + 1].val = Written(job[r], r)
      BY <1>2, <2>2 DEF e
    <3>2. \A j \in DOMAIN log' : ~(j > n + 1)
      BY <1>2
    <3>3. Last(n + 1)
      BY <3>1, <3>2
    <3>4. n + 1 \in DOMAIN log' /\ row'.state[k] = log'[n + 1].val
      BY <1>2, <2>1, <2>2, <3>1
    <3> QED
      BY <3>3, <3>4
  <2>3. CASE k \notin job[r].keys
    <3>1. k \notin log'[n + 1].keys
      BY <1>2, <2>3 DEF e
    <3>2. \A i \in 1..n : LastWrite(k, i) => Last(i)
      BY <1>2, <3>1 DEF LastWrite
    <3>3. row'.state[k] = row.state[k]
      BY <2>1, <2>3
    <3>4. CASE \E i \in DOMAIN log : LastWrite(k, i) /\ row.state[k] = log[i].val
      BY <1>2, <3>2, <3>3, <3>4
    <3>5. CASE row.state[k] = None /\ \A i \in DOMAIN log : k \notin log[i].keys
      BY <1>2, <3>1, <3>3, <3>5
    <3> QED
      BY <3>4, <3>5 DEF IInv, NoLostUpdate
  <2> QED
    BY <2>2, <2>3
<1> QED
  BY <1>3, <1>4 DEF NoLostUpdate, LastWrite

(* The UPDATE records a signed write behind its keys, and only there.      *)
LEMMA WriteCommandsVouch ==
  ASSUME IInv, NEW r \in Req, Write(r)
  PROVE  CommandsVouch' /\ ValuesLanded'
<1>1. /\ row' = Merge(row, job[r], r) /\ row'.version = Len(log) + 1
      /\ landed[r] = 0 /\ landed' = [landed EXCEPT ![r] = Len(log) + 1]
      /\ Written(job[r], r) \in {r, None}
  BY WriteFacts
<1>2. /\ row \in Row /\ job[r] \in Job /\ landed \in [Req -> Nat]
      /\ job' = job /\ Len(log) \in Nat
  BY DEF IInv, TypeOK, Write
<1> SUFFICES ASSUME NEW k \in Key
             PROVE  /\ row'.by[k] # NoCommand =>
                         /\ row'.state[k] # None /\ row'.state[k] = row'.by[k].sig
                         /\ row'.by[k].version = landed'[row'.by[k].sig]
                         /\ k \in job[row'.by[k].sig].keys
                    /\ row'.state[k] # None /\ job[row'.state[k]].signed
                         => row'.by[k].sig = row'.state[k]
                    /\ row'.state[k] # None => landed'[row'.state[k]] > 0
  BY <1>2 DEF CommandsVouch, ValuesLanded
<1>3. CASE k \notin job[r].keys
  <2>1. row'.state[k] = row.state[k] /\ row'.by[k] = row.by[k]
    BY <1>1, <1>3 DEF Merge, Recorded
  <2>2. row.state[k] # None => row.state[k] \in Req /\ row.state[k] # r
    BY <1>1, <1>2 DEF IInv, ValuesLanded, Row
  <2>3. row.state[k] # None => landed'[row.state[k]] = landed[row.state[k]]
    BY <1>1, <1>2, <2>2
  <2> QED
    BY <2>1, <2>2, <2>3 DEF IInv, CommandsVouch, ValuesLanded
<1>4. CASE k \in job[r].keys /\ job[r].signed
  <2>1. job[r].kind # "ack"
    BY <1>4 DEF IInv, StagesAgree
  <2>2. row'.state[k] = r
    BY <1>1, <1>4, <2>1 DEF Merge, Written
  <2>3. row'.by[k] = [sig |-> r, version |-> row.version + 1]
    BY <1>1, <1>4 DEF Merge, Recorded
  <2>4. row.version = Len(log)
    BY DEF IInv, NoLostUpdate
  <2>5. landed'[r] = Len(log) + 1
    BY <1>1, <1>2
  <2> QED
    BY <1>2, <1>4, <2>2, <2>3, <2>4, <2>5, NoneAssumption
<1>5. CASE k \in job[r].keys /\ ~job[r].signed
  <2>1. row'.by[k] = NoCommand
    BY <1>1, <1>5 DEF Merge, Recorded
  <2>2. row'.state[k] = Written(job[r], r)
    BY <1>1, <1>5 DEF Merge
  <2>3. landed'[r] > 0
    BY <1>1, <1>2
  <2> QED
    BY <1>1, <1>5, <2>1, <2>2, <2>3
<1> QED
  BY <1>3, <1>4, <1>5

(* The rest of the invariant, over the UPDATE.                             *)
LEMMA WriteBookkeeping ==
  ASSUME IInv, NEW r \in Req, Write(r)
  PROVE  ReadsAreCurrent' /\ LandedIsLogged' /\ StagesAgree'
<1> DEFINE n == Len(log)
           e == [req |-> r, keys |-> job[r].keys, val |-> Written(job[r], r)]
<1>1. /\ row.version = n /\ row'.version = n + 1 /\ log' = Append(log, e) /\ e \in LogEntry
      /\ landed[r] = 0 /\ landed' = [landed EXCEPT ![r] = n + 1]
      /\ job[r].kind = "command" => job[r].expect = row.version
  BY WriteFacts
<1>2. /\ log \in Seq(LogEntry) /\ landed \in [Req -> Nat] /\ seen \in [Req -> Row]
      /\ pc \in [Req -> Stages] /\ answer \in [Req -> Answers] /\ job' = job /\ seen' = seen
  BY DEF IInv, TypeOK, Write
<1>3. /\ DOMAIN log = 1..n /\ n \in Nat /\ DOMAIN log' = 1..(n + 1)
      /\ \A i \in 1..n : log'[i] = log[i]
      /\ log'[n + 1] = e
  <2> HIDE DEF e
  <2> QED
    BY <1>1, <1>2, AppendLemma
<1>4. e.req = r
  OBVIOUS
<1> HIDE DEF n, e
<1>5. ReadsAreCurrent'
  <2> SUFFICES ASSUME NEW q \in Req, pc'[q] = "write"
               PROVE  /\ seen[q].version <= row'.version
                      /\ row'.version = seen[q].version => seen[q] = row'
                      /\ job[q].kind = "command" => seen[q].version = job[q].expect
    BY <1>2 DEF ReadsAreCurrent, CanWrite
  <2>1. q # r /\ pc[q] = "write"
    BY <1>2 DEF Write, Goto, Answer
  <2>2. seen[q].version \in Nat
    BY <1>2 DEF Row
  <2> QED
    BY <1>1, <1>3, <2>1, <2>2 DEF IInv, ReadsAreCurrent
<1>6. LandedIsLogged'
  <2>1. \A i \in 1..n : log[i].req \in Req /\ log[i].req # r /\ landed[log[i].req] = i
    <3>1. \A i \in 1..n : log[i] \in LogEntry
      BY <1>2 DEF n
    <3>2. \A i \in 1..n : log[i].req \in Req
      BY <3>1 DEF LogEntry
    <3>3. \A i \in 1..n : landed[log[i].req] = i
      BY <1>3 DEF IInv, LandedIsLogged
    <3> QED
      BY <1>1, <1>3, <3>2, <3>3
  <2>2. \A i \in 1..(n + 1) : landed'[log'[i].req] = i
    BY <1>1, <1>2, <1>3, <1>4, <2>1
  <2>3. \A q \in Req : landed'[q] > 0 => landed'[q] \in 1..(n + 1) /\ log'[landed'[q]].req = q
    BY <1>1, <1>2, <1>3, <1>4 DEF IInv, LandedIsLogged
  <2> QED
    BY <1>3, <2>2, <2>3 DEF LandedIsLogged
<1>7. StagesAgree'
  <2> SUFFICES ASSUME NEW q \in Req
               PROVE  /\ pc'[q] \in {"idle", "read", "write"} => landed'[q] = 0
                      /\ pc'[q] \in {"heal", "publish"} => landed'[q] > 0
                      /\ answer'[q] = "202" => landed'[q] > 0
                      /\ answer'[q] # "none" => pc'[q] = "done"
                      /\ answer'[q] \in {"403", "409", "500"} => landed'[q] = 0
                      /\ answer'[q] = "400" => Excision \in job[q].keys /\ ~job[q].hasId
                      /\ landed'[q] > 0 /\ job[q].kind = "command"
                           => landed'[q] = job[q].expect + 1
                      /\ job[q].kind = "ack" => ~job[q].signed
                      /\ pc'[q] = "idle" => tries[q] = 0
                      /\ pc'[q] \in {"read", "write"} => tries[q] < Passes(q)
    BY <1>2 DEF StagesAgree, Passes, Write
  <2>1. CASE q = r
    <3>1. landed'[q] = n + 1 /\ pc'[q] \in {"heal", "publish", "done"}
      BY <1>1, <1>2, <2>1 DEF Write, Goto, Answer
    <3>2. answer[q] = "none"
      BY <2>1 DEF IInv, StagesAgree, Write
    <3>3. answer'[q] = "none" \/ (answer'[q] = "200" /\ pc'[q] = "done")
      BY <1>2, <2>1, <3>2 DEF Write, Goto, Answer
    <3> QED
      BY <1>1, <1>3, <2>1, <3>1, <3>3 DEF IInv, StagesAgree
  <2>2. CASE q # r
    <3>1. landed'[q] = landed[q] /\ pc'[q] = pc[q] /\ answer'[q] = answer[q]
      BY <1>1, <1>2, <2>2 DEF Write, Goto, Answer
    <3> QED
      BY <3>1 DEF IInv, StagesAgree
  <2> QED
    BY <2>1, <2>2
<1> QED
  BY <1>5, <1>6, <1>7

(* The UPDATE.                                                             *)
LEMMA WriteStep ==
  ASSUME IInv, NEW r \in Req, Write(r)
  PROVE  IInv'
BY WriteTypeOK, WriteNoLostUpdate, WriteCommandsVouch, WriteBookkeeping DEF IInv

(* What a request that arrives can do: it is refused, or it becomes a job. *)
LEMMA ReceiveIsWellTyped ==
  ASSUME IInv, NEW r \in Req, Receive(r)
  PROVE  /\ pc[r] = "idle"
         /\ \/ \E status \in {"200", "403", "409"} : Refuse(r, status)
            \/ \E j \in Job : (j.kind = "ack" => ~j.signed /\ j.keys \subseteq OneShot) /\ Accept(r, j)
<1>1. CASE ReceiveCommand(r)
  <2>1. PICK v \in 1..MaxVersion, keys \in (SUBSET Key) \ {{}}, hasId \in BOOLEAN :
          \/ Refuse(r, "409") \/ Refuse(r, "403")
          \/ Accept(r, [NoJob EXCEPT !.kind = "command", !.keys = keys, !.expect = v - 1,
                                     !.signed = (posture = "signed"), !.hasId = hasId])
    BY <1>1 DEF ReceiveCommand
  <2> DEFINE j == [NoJob EXCEPT !.kind = "command", !.keys = keys, !.expect = v - 1,
                                !.signed = (posture = "signed"), !.hasId = hasId]
  <2>2. v - 1 \in Nat /\ keys \in SUBSET Key /\ (posture = "signed") \in BOOLEAN
    OBVIOUS
  <2>3. j \in Job /\ j.kind = "command"
    BY <2>2 DEF Job, NoJob
  <2> QED
    BY <1>1, <2>1, <2>3 DEF ReceiveCommand
<1>2. CASE ReceiveCascade(r)
  <2> DEFINE j == [NoJob EXCEPT !.kind = "cascade", !.keys = {Stopped}]
  <2>1. j \in Job /\ j.kind = "cascade"
    BY KeyAssumption DEF Job, NoJob
  <2> QED
    BY <1>2, <2>1 DEF ReceiveCascade
<1>3. CASE ReceiveAck(r)
  <2>1. PICK k \in OneShot, i \in DOMAIN log :
          Accept(r, [NoJob EXCEPT !.kind = "ack", !.keys = {k}, !.consumed = log[i].val])
    BY <1>3 DEF ReceiveAck
  <2> DEFINE j == [NoJob EXCEPT !.kind = "ack", !.keys = {k}, !.consumed = log[i].val]
  <2>2. log[i] \in LogEntry
    BY DEF IInv, TypeOK
  <2>3. log[i].val \in Req \cup {None}
    BY <2>2 DEF LogEntry
  <2>4. j \in Job /\ ~j.signed /\ j.keys \subseteq OneShot
    BY <2>3, KeyAssumption DEF Job, NoJob
  <2> QED
    BY <1>3, <2>1, <2>4 DEF ReceiveAck
<1> QED
  BY <1>1, <1>2, <1>3 DEF Receive

(* Every step keeps the invariant: one case per action.                    *)
LEMMA NextIInv == IInv /\ [Next]_vars => IInv'
<1> SUFFICES ASSUME IInv, [Next]_vars PROVE IInv'
  OBVIOUS
<1>1. CASE Restart
  BY <1>1, RestartStep
<1>2. ASSUME NEW r \in Req, Handle(r)
      PROVE  IInv'
  BY <1>2, ReadStep, WriteStep, LoseStep, OpenHealStep, PublishKeeps DEF Handle
<1>3. ASSUME NEW r \in Req, Receive(r)
      PROVE  IInv'
  BY <1>3, ReceiveIsWellTyped, AcceptStep, RefuseStep
<1>4. CASE UNCHANGED vars
  BY <1>4 DEF IInv, TypeOK, NoLostUpdate, LastWrite, CommandsVouch, ReadsAreCurrent, CanWrite,
              LandedIsLogged, StagesAgree, Passes, ValuesLanded, vars, store
<1> QED
  BY <1>1, <1>2, <1>3, <1>4 DEF Next

(* The inductive invariant of the row and its handlers.                    *)
THEOREM Invariance == Spec => []IInv
BY InitIInv, NextIInv, PTL DEF Spec

-----------------------------------------------------------------------------
(* The properties of the channel, for every instance of the constants.     *)

(* Every variable keeps its type.                                          *)
THEOREM TypeCorrect == Spec => []TypeOK
BY Invariance, PTL DEF IInv

(* The row is the last accepted write, key by key, and its version counts  *)
(* the writes: the read-modify-write of _merge_desired loses no update.    *)
THEOREM NothingIsLost == Spec => []NoLostUpdate
BY Invariance, PTL DEF IInv

(* The snapshot's evidence fits the state it accompanies.                  *)
THEOREM EvidenceFits == Spec => []CommandsVouch
BY Invariance, PTL DEF IInv

(* A 202 names a write that is in the history, at the version the command  *)
(* was signed for, and a refusal names none, an excision without an id     *)
(* apart.                                                                  *)
THEOREM AcknowledgedMeansApplied == Spec => []AckedIsApplied
<1>1. ASSUME IInv, NEW r \in Req, answer[r] \in {"400", "403", "409", "500"}, landed[r] > 0
      PROVE  answer[r] = "400" /\ Excision \in job[r].keys /\ ~job[r].hasId
  BY <1>1 DEF IInv, StagesAgree
<1>2. ASSUME IInv, NEW r \in Req
      PROVE  /\ answer[r] = "202" => landed[r] \in DOMAIN log /\ log[landed[r]].req = r
             /\ landed[r] > 0 /\ job[r].kind = "command" => landed[r] = job[r].expect + 1
  BY <1>2 DEF IInv, StagesAgree, LandedIsLogged
<1>3. IInv => AckedIsApplied
  BY <1>1, <1>2 DEF AckedIsApplied
<1> QED
  BY <1>3, Invariance, PTL

(* No request is applied twice, however often its write was retried.       *)
THEOREM AppliedAtMostOnce == Spec => []AtMostOnce
<1>1. IInv => AtMostOnce
  BY DEF IInv, LandedIsLogged, AtMostOnce
<1> QED
  BY <1>1, Invariance, PTL

-----------------------------------------------------------------------------
(* The store implements the atomic register.                               *)

O == [r \in Req |-> Outcome(r)]

(* Steps that move only handlers past their write, or on to their write.   *)
LEMMA StutterStep ==
  ASSUME UNCHANGED <<row, job>>, \A q \in Req : Outcome(q)' = Outcome(q)
  PROVE  UNCHANGED Register!regVars
BY DEF Register!regVars

(* A set of requests that have written nothing ends: EndWithoutWrite.      *)
LEMMA VoidStep ==
  ASSUME NEW S \in SUBSET Req, UNCHANGED <<row, job>>,
         \A q \in S : Outcome(q) \in {"new", "open"} /\ Outcome(q)' = "void",
         \A q \in Req \ S : Outcome(q)' = Outcome(q)
  PROVE  Register!RNext
<1>1. Register!EndWithoutWrite(S)
  BY DEF Register!EndWithoutWrite
<1> QED
  BY <1>1 DEF Register!RNext

(* A refusal ends its request without a write.                             *)
LEMMA RefuseRefines ==
  ASSUME IInv, NEW r \in Req, NEW status, Refuse(r, status), pc[r] \in {"idle", "read"}
  PROVE  Register!RNext
<1>1. /\ row' = row /\ job' = job /\ landed' = landed
      /\ pc' = [pc EXCEPT ![r] = "done"] /\ pc \in [Req -> Stages] /\ landed[r] = 0
  BY DEF Refuse, Answer, Goto, store, IInv, TypeOK, StagesAgree
<1>2. Outcome(r) \in {"new", "open"} /\ Outcome(r)' = "void"
  BY <1>1 DEF Outcome, InFlight
<1>3. \A q \in Req \ {r} : Outcome(q)' = Outcome(q)
  BY <1>1 DEF Outcome, InFlight
<1> QED
  BY <1>1, <1>2, <1>3, VoidStep

(* Taking a request on opens it at the register.                           *)
LEMMA AcceptRefines ==
  ASSUME IInv, NEW r \in Req, NEW j \in Job, Accept(r, j), pc[r] = "idle"
  PROVE  Register!RNext
<1>1. /\ row' = row /\ job' = [job EXCEPT ![r] = j] /\ landed' = landed
      /\ pc' = [pc EXCEPT ![r] = "read"] /\ pc \in [Req -> Stages] /\ landed[r] = 0
      /\ job \in [Req -> Job]
  BY DEF Accept, Goto, store, IInv, TypeOK, StagesAgree
<1>2. job' \in [Req -> Register!Job] /\ \A q \in Req \ {r} : job'[q] = job[q]
  BY <1>1 DEF Job, Register!Job
<1>3. O[r] = "new" /\ O' = [O EXCEPT ![r] = "open"]
  <2>1. Outcome(r) = "new" /\ Outcome(r)' = "open"
    BY <1>1 DEF Outcome, InFlight
  <2>2. \A q \in Req \ {r} : Outcome(q)' = Outcome(q)
    BY <1>1 DEF Outcome, InFlight
  <2> QED
    BY <2>1, <2>2 DEF O
<1>4. Register!Submit(r)
  BY <1>1, <1>2, <1>3 DEF Register!Submit, O
<1> QED
  BY <1>4 DEF Register!RNext

(* The conditional UPDATE is the register's one write.                     *)
LEMMA WriteRefines ==
  ASSUME IInv, NEW r \in Req, Write(r)
  PROVE  Register!RNext
<1>1. /\ row' = Merge(row, job[r], r) /\ landed[r] = 0
      /\ landed' = [landed EXCEPT ![r] = Len(log) + 1]
      /\ job[r].kind = "command" => job[r].expect = row.version
  BY WriteFacts
<1>2. /\ job' = job /\ pc \in [Req -> Stages] /\ landed \in [Req -> Nat]
      /\ Len(log) \in Nat /\ pc[r] = "write"
      /\ pc'[r] # "idle" /\ \A q \in Req \ {r} : pc'[q] = pc[q]
  BY DEF Write, Goto, Answer, IInv, TypeOK
<1>3. O[r] = "open" /\ O' = [O EXCEPT ![r] = "applied"]
  <2>1. Outcome(r) = "open" /\ Outcome(r)' = "applied"
    BY <1>1, <1>2 DEF Outcome, InFlight
  <2>2. \A q \in Req \ {r} : Outcome(q)' = Outcome(q)
    BY <1>1, <1>2 DEF Outcome, InFlight
  <2> QED
    BY <2>1, <2>2 DEF O
<1>4. row' = Register!Merge(row, job[r], r)
  BY <1>1 DEF Merge, Recorded, Written, NoCommand,
              Register!Merge, Register!Recorded, Register!Written, Register!NoCommand
<1>5. Register!ApplyAtomically(r)
  BY <1>1, <1>2, <1>3, <1>4 DEF Register!ApplyAtomically, O
<1> QED
  BY <1>5 DEF Register!RNext

(* Every step of a handler is a step of the register, or none.             *)
LEMMA HandleRefines ==
  ASSUME IInv, NEW r \in Req, Handle(r)
  PROVE  Register!RNext \/ UNCHANGED Register!regVars
<1> USE DEF Goto, Answer, store
<1>1. pc \in [Req -> Stages] /\ landed \in [Req -> Nat]
  BY DEF IInv, TypeOK
<1>2. CASE Read(r)
  <2>1. CASE Refuse(r, "409") \/ Refuse(r, "200")
    BY <1>2, <2>1, RefuseRefines DEF Read
  <2>2. CASE Goto(r, "write") /\ UNCHANGED <<posture, store, job, tries, answer, heals>>
    <3>1. \A q \in Req : Outcome(q)' = Outcome(q)
      BY <1>1, <1>2, <2>2 DEF Read, Outcome, InFlight
    <3> QED
      BY <2>2, <3>1, StutterStep
  <2> QED
    BY <1>2, <2>1, <2>2 DEF Read
<1>3. CASE Write(r)
  BY <1>3, WriteRefines
<1>4. CASE Lose(r)
  <2>1. landed[r] = 0 /\ pc[r] = "write" /\ landed' = landed /\ row' = row /\ job' = job
    BY <1>4 DEF Lose, IInv, StagesAgree
  <2>2. CASE pc' = [pc EXCEPT ![r] = "read"]
    <3>1. \A q \in Req : Outcome(q)' = Outcome(q)
      BY <1>1, <2>1, <2>2 DEF Outcome, InFlight
    <3> QED
      BY <2>1, <3>1, StutterStep
  <2>3. CASE pc' = [pc EXCEPT ![r] = "done"]
    <3>1. Outcome(r) = "open" /\ Outcome(r)' = "void"
      BY <1>1, <2>1, <2>3 DEF Outcome, InFlight
    <3>2. \A q \in Req \ {r} : Outcome(q)' = Outcome(q)
      BY <1>1, <2>1, <2>3 DEF Outcome, InFlight
    <3> QED
      BY <2>1, <3>1, <3>2, VoidStep
  <2> QED
    BY <1>4, <2>2, <2>3 DEF Lose
<1>5. CASE OpenHeal(r) \/ Publish(r)
  <2>1. pc[r] \in {"heal", "publish"} /\ landed[r] > 0 /\ pc'[r] \in {"publish", "done"}
        /\ landed' = landed /\ row' = row /\ job' = job
        /\ \A q \in Req \ {r} : pc'[q] = pc[q]
    BY <1>1, <1>5 DEF OpenHeal, Publish, IInv, StagesAgree
  <2>2. \A q \in Req : Outcome(q)' = Outcome(q)
    BY <1>1, <2>1 DEF Outcome, InFlight
  <2> QED
    BY <2>1, <2>2, StutterStep
<1> QED
  BY <1>2, <1>3, <1>4, <1>5 DEF Handle

(* A restart voids the requests it cuts that had written nothing.          *)
LEMMA RestartRefines ==
  ASSUME IInv, Restart
  PROVE  Register!RNext
<1> DEFINE S == {q \in Req : InFlight(q) /\ landed[q] = 0}
<1>1. /\ pc \in [Req -> Stages] /\ landed \in [Req -> Nat]
      /\ row' = row /\ job' = job /\ landed' = landed
      /\ pc' = [q \in Req |-> IF InFlight(q) THEN "lost" ELSE pc[q]]
  BY DEF Restart, store, IInv, TypeOK
<1>2. \A q \in S : Outcome(q) = "open" /\ Outcome(q)' = "void"
  BY <1>1 DEF Outcome, InFlight
<1>3. \A q \in Req \ S : Outcome(q)' = Outcome(q)
  BY <1>1 DEF Outcome, InFlight
<1> QED
  BY <1>1, <1>2, <1>3, VoidStep

(* An arrival is refused, or opened.                                       *)
LEMMA ReceiveRefines ==
  ASSUME IInv, NEW r \in Req, Receive(r)
  PROVE  Register!RNext
<1>1. /\ pc[r] = "idle"
      /\ \/ \E status \in {"200", "403", "409"} : Refuse(r, status)
         \/ \E j \in Job : (j.kind = "ack" => ~j.signed /\ j.keys \subseteq OneShot) /\ Accept(r, j)
  BY ReceiveIsWellTyped
<1> QED
  BY <1>1, AcceptRefines, RefuseRefines

(* The refinement: select, merge, compare-and-set and retry are one atomic *)
(* write to anyone who looks only at the row and at who was served.        *)
THEOREM StoreIsAtomic == Spec => WritesAreAtomic
<1>1. Init => Register!RInit
  BY DEF Init, Register!RInit, Outcome, NoRow, NoCommand, NoJob,
         Register!NoRow, Register!NoCommand, Register!NoJob
<1>2. IInv /\ [Next]_vars => [Register!RNext]_(Register!regVars)
  <2> SUFFICES ASSUME IInv, [Next]_vars
               PROVE  Register!RNext \/ UNCHANGED Register!regVars
    OBVIOUS
  <2>1. CASE Restart
    BY <2>1, RestartRefines
  <2>2. ASSUME NEW r \in Req, Receive(r) \/ Handle(r)
        PROVE  Register!RNext \/ UNCHANGED Register!regVars
    BY <2>2, ReceiveRefines, HandleRefines
  <2>3. CASE UNCHANGED vars
    <3>1. \A q \in Req : Outcome(q)' = Outcome(q)
      BY <2>3 DEF vars, store, Outcome, InFlight
    <3> QED
      BY <2>3, <3>1, StutterStep DEF vars
  <2> QED
    BY <2>1, <2>2, <2>3 DEF Next
<1> QED
  BY <1>1, <1>2, Invariance, PTL DEF Spec, WritesAreAtomic, Register!RSpec

-----------------------------------------------------------------------------
(* Every entry of the history is of the job of its request, and only       *)
(* one-shots are acked.                                                    *)
LogIsOfJobs ==
  /\ \A i \in DOMAIN log : /\ log[i].keys = job[log[i].req].keys
                           /\ log[i].val = Written(job[log[i].req], log[i].req)
  /\ \A r \in Req : job[r].kind = "ack" => job[r].keys \subseteq OneShot

(* The bus carries each command that was answered 202, once, at the        *)
(* version it landed at, and otherwise messages that are no deltas.        *)
BusIsPublished ==
  /\ bus \in Seq(TopicMessage)
  /\ \A n \in DOMAIN bus : bus[n] # Notice =>
       bus[n].req \in Req /\ bus[n].version = landed[bus[n].req] /\ answer[bus[n].req] = "202"
  /\ \A m, n \in DOMAIN bus : bus[m] # Notice /\ bus[m].req = bus[n].req => m = n
  /\ \A r \in Req : answer[r] = "202" => \E n \in DOMAIN bus : bus[n].req = r

ChannelInv == IInv /\ LogIsOfJobs /\ BusIsPublished

(* The handlers of the row, with what they and others publish.             *)
Unpublished == bus' = bus /\ \A r \in Req : answer'[r] = "202" => answer[r] = "202"
Publishes(r) == Publish(r) /\ bus' = Append(bus, Delta(r))
ChannelNext ==
  \/ [Next]_vars /\ Unpublished
  \/ \E r \in Req : Publishes(r)
  \/ UNCHANGED vars /\ bus' = Append(bus, Notice)

(* The last of the writes of a key up to a version, where requests landed  *)
(* as in `table`, for `jobs`.                                              *)
LastWriter(table, jobs, k, v, w) ==
  /\ table[w] \in 1..v /\ k \in jobs[w].keys
  /\ \A x \in Req : table[x] \in 1..v /\ k \in jobs[x].keys => table[x] <= table[w]

(* Values that were written by the version they are held at.               *)
WrittenBy(table, jobs, holds, v) ==
  \A k \in Key : holds[k] # None => table[holds[k]] \in 1..v /\ k \in jobs[holds[k]].keys

(* What the stream has read is the row as it was at that version.          *)
SnapIsTheRow ==
  /\ snap.version <= row.version
  /\ link = "stated" =>
       /\ WrittenBy(landed, job, snap.state, snap.version)
       /\ \A k \in Key \ OneShot, w \in Req :
            LastWriter(landed, job, k, snap.version, w) => snap.state[k] = w
       /\ snap.version = row.version => snap.state = row.state
       /\ ~verifies => node.applied <= snap.version

(* While the bus keeps the stream, its queue is the end of the bus, and    *)
(* what comes before was yielded or is in the snapshot.                    *)
QueueIsTheEnd ==
  /\ Len(sub.queue) <= Len(bus)
  /\ \A q \in 1..Len(sub.queue) : sub.queue[q] = bus[Len(bus) - Len(sub.queue) + q]
  /\ link \in {"stated", "open"} =>
       \A n \in 1..Len(bus) - Len(sub.queue) : bus[n].version > snap.version => bus[n].req \in heard

(* Once it has dropped the stream, for a message that was the j-th on the  *)
(* bus, the queue is what was published before that one, and the marker;   *)
(* of what came before, one was neither yielded nor in the snapshot.       *)
DroppedAt(j) ==
  /\ j \in overran /\ \A g \in overran : g <= j
  /\ j \in DOMAIN bus /\ Len(sub.queue) \in 1..QueueCap /\ QueueCap < j
  /\ sub.queue[Len(sub.queue)] = Overflow
  /\ \A q \in 1..Len(sub.queue) - 1 : sub.queue[q] = bus[j - Len(sub.queue) + q]
  /\ link \in {"stated", "open"} =>
       \A n \in 1..j - Len(sub.queue) :
         bus[n].version > snap.version => bus[n].req \in heard \/ n = j - QueueCap

QueueInv ==
  /\ overran \subseteq DOMAIN bus
  /\ link # "down" => IF sub.listening THEN QueueIsTheEnd ELSE \E j \in DOMAIN bus : DroppedAt(j)

(* A newer delta was published, and this one was not, or not before it.    *)
Passed(w) ==
  \E i \in DOMAIN bus :
    bus[i].version > landed[w] /\ \A j \in DOMAIN bus : bus[j].req = w => i < j

(* The node is behind, and its next snapshot will say so.                  *)
Behind(w) ==
  \/ link \in {"down", "subscribed"} /\ row.version > node.applied
  \/ link = "stated" /\ snap.version > node.applied
  \/ /\ link = "open" /\ ~sub.listening
     /\ \E j \in DOMAIN bus : /\ DroppedAt(j) /\ bus[j].version > node.applied
                              /\ bus[j - QueueCap].req = w

(* A node without operator keys holds, for each key, the last write up to  *)
(* the version it has applied, but for those the bus took away.            *)
NodeFollows ==
  /\ node.applied <= row.version
  /\ \A r \in heard : landed[r] > 0
  /\ ~verifies =>
       /\ link = "open" => snap.version <= node.applied
       /\ \A r \in heard : landed[r] <= node.applied
       /\ WrittenBy(landed, job, node.holds, node.applied)
       /\ \A k \in Key \ OneShot, w \in Req : LastWriter(landed, job, k, node.applied, w) =>
            node.holds[k] = w \/ Passed(w) \/ GivenUp(w) \/ Behind(w)

StreamInv ==
  /\ ChannelInv
  /\ StreamTypeOK
  /\ SnapIsTheRow
  /\ QueueInv
  /\ NodeFollows
  /\ OnlyTornIsRefused

-----------------------------------------------------------------------------
(* A step of the channel writes, publishes a delta, or leaves the store,   *)
(* and who was answered 202 alone, and gives a job only to who had none.   *)
Quiet ==
  /\ UNCHANGED <<row, log, landed>>
  /\ \A r \in Req : landed[r] > 0 => job'[r] = job[r]
  /\ \A r \in Req : answer'[r] = "202" <=> answer[r] = "202"
  /\ \A r \in Req : job'[r].kind = "ack" => job'[r].keys \subseteq OneShot

QuietNext == Quiet /\ (bus' = bus \/ bus' = Append(bus, Notice))
Writes(r) == Write(r) /\ bus' = bus

(* Every step of the handlers is one of those kinds.                       *)
LEMMA HandlerKinds ==
  ASSUME ChannelInv, [Next]_vars
  PROVE  Quiet \/ \E r \in Req : Write(r) \/ Publish(r)
<1> USE DEF ChannelInv, LogIsOfJobs
<1>1. CASE Restart \/ UNCHANGED vars
  BY <1>1 DEF Restart, vars, store, Quiet
<1>2. ASSUME NEW r \in Req, NEW status, status # "202", Refuse(r, status), pc[r] \in {"idle", "read"}
      PROVE  Quiet
  <2>1. answer[r] # "202"
    BY <1>2 DEF IInv, StagesAgree
  <2>2. answer' = [answer EXCEPT ![r] = status] /\ answer \in [Req -> Answers]
        /\ UNCHANGED <<row, log, landed, job>>
    BY <1>2 DEF Refuse, Answer, store, IInv, TypeOK
  <2>3. \A q \in Req : answer'[q] = "202" <=> answer[q] = "202"
    BY <1>2, <2>1, <2>2
  <2> QED
    BY <2>2, <2>3 DEF Quiet
<1>3. ASSUME NEW r \in Req, Receive(r) PROVE Quiet
  <2>1. /\ pc[r] = "idle"
        /\ \/ \E status \in {"200", "403", "409"} : Refuse(r, status)
           \/ \E j \in Job : (j.kind = "ack" => ~j.signed /\ j.keys \subseteq OneShot) /\ Accept(r, j)
    BY <1>3, ReceiveIsWellTyped
  <2>2. ASSUME NEW j \in Job, j.kind = "ack" => j.keys \subseteq OneShot, Accept(r, j) PROVE Quiet
    <3>1. /\ UNCHANGED <<row, log, landed, answer>> /\ job' = [job EXCEPT ![r] = j]
          /\ job \in [Req -> Job] /\ landed[r] = 0
      BY <2>1, <2>2 DEF Accept, store, IInv, TypeOK, StagesAgree
    <3>2. \A q \in Req : landed[q] > 0 => job'[q] = job[q]
      BY <3>1
    <3>3. \A q \in Req : job'[q].kind = "ack" => job'[q].keys \subseteq OneShot
      BY <2>2, <3>1
    <3> QED
      BY <3>1, <3>2, <3>3 DEF Quiet
  <2> QED
    BY <1>2, <2>1, <2>2
<1>4. ASSUME NEW r \in Req, Read(r) PROVE Quiet
  <2>1. CASE Refuse(r, "409") \/ Refuse(r, "200")
    BY <1>2, <1>4, <2>1 DEF Read
  <2>2. CASE UNCHANGED <<posture, store, job, tries, answer, heals>>
    BY <2>2 DEF store, Quiet
  <2> QED
    BY <1>4, <2>1, <2>2 DEF Read
<1>5. ASSUME NEW r \in Req, Lose(r) \/ OpenHeal(r) PROVE Quiet
  <2>1. answer[r] # "202" /\ answer \in [Req -> Answers]
    BY <1>5 DEF Lose, OpenHeal, IInv, TypeOK, StagesAgree
  <2>2. /\ UNCHANGED <<row, log, landed, job>>
        /\ \/ answer' = answer
           \/ \E status \in {"400", "409", "500"} : answer' = [answer EXCEPT ![r] = status]
    BY <1>5 DEF Lose, OpenHeal, Answer, store
  <2>3. \A q \in Req : answer'[q] = "202" <=> answer[q] = "202"
    BY <2>1, <2>2
  <2> QED
    BY <2>2, <2>3 DEF Quiet
<1> QED
  BY <1>1, <1>3, <1>4, <1>5 DEF Next, Handle

(* So is every step of the channel.                                        *)
LEMMA StepKinds ==
  ASSUME ChannelInv, ChannelNext
  PROVE  QuietNext \/ \E r \in Req : Writes(r) \/ Publishes(r)
<1>1. ASSUME NEW r \in Req, Publish(r) PROVE answer[r] # "202" /\ answer'[r] = "202"
  BY <1>1 DEF Publish, Answer, ChannelInv, IInv, TypeOK, StagesAgree
<1>2. CASE [Next]_vars /\ Unpublished
  BY <1>1, <1>2, HandlerKinds DEF Unpublished, QuietNext, Writes
<1>3. CASE UNCHANGED vars /\ bus' = Append(bus, Notice)
  BY <1>3 DEF vars, Quiet, QuietNext, ChannelInv, LogIsOfJobs
<1> QED
  BY <1>2, <1>3 DEF ChannelNext

(* Either way the row's handlers are right.                                *)
LEMMA ChannelKeepsIInv ==
  ASSUME ChannelInv, ChannelNext
  PROVE  IInv'
<1>1. [Next]_vars
  BY DEF ChannelNext, Publishes, Next, Handle
<1> QED
  BY <1>1, NextIInv DEF ChannelInv

(* What landed stays landed, and what lands is newer than the row.         *)
LEMMA LandedFacts ==
  ASSUME ChannelInv, ChannelNext
  PROVE  /\ row.version \in Nat /\ row'.version \in Nat /\ row.version <= row'.version
         /\ \A r \in Req : landed[r] \in 0..row.version
         /\ \A r \in Req : landed[r] > 0 => landed'[r] = landed[r] /\ job'[r] = job[r]
         /\ \A r \in Req : landed'[r] # landed[r] => landed'[r] > row.version
         /\ row'.version = row.version => row' = row
<1> USE DEF ChannelInv
<1>1. /\ row.version = Len(log) /\ Len(log) \in Nat /\ DOMAIN log = 1..Len(log)
      /\ landed \in [Req -> Nat] /\ \A r \in Req : landed[r] > 0 => landed[r] \in DOMAIN log
  BY LenProperties DEF IInv, TypeOK, NoLostUpdate, LandedIsLogged
<1>2. \A r \in Req : landed[r] \in 0..row.version
  <2> SUFFICES ASSUME NEW r \in Req PROVE landed[r] \in 0..row.version
    OBVIOUS
  <2>1. landed[r] \in Nat /\ (landed[r] > 0 => landed[r] \in 1..Len(log))
    BY <1>1
  <2> QED
    BY ONLY <1>1, <2>1
<1>3. CASE Quiet
  BY <1>1, <1>2, <1>3 DEF Quiet
<1>4. ASSUME NEW r \in Req, Write(r)
      PROVE  /\ row'.version = row.version + 1 /\ landed[r] = 0
             /\ landed' = [landed EXCEPT ![r] = Len(log) + 1] /\ job' = job
  BY <1>4, WriteFacts DEF Write
<1>5. CASE \E r \in Req : Write(r)
  BY <1>1, <1>2, <1>4, <1>5
<1>6. CASE \E r \in Req : Publish(r)
  BY <1>1, <1>2, <1>6 DEF Publish, store
<1> QED
  BY <1>3, <1>5, <1>6, StepKinds DEF QuietNext, Writes, Publishes

(* The bus only grows.                                                     *)
LEMMA BusFacts ==
  ASSUME ChannelInv, ChannelNext
  PROVE  /\ Len(bus) \in Nat /\ DOMAIN bus = 1..Len(bus) /\ Len(bus) <= Len(bus')
         /\ Len(bus') \in Nat /\ DOMAIN bus' = 1..Len(bus') /\ DOMAIN bus \subseteq DOMAIN bus'
         /\ \A n \in DOMAIN bus : bus'[n] = bus[n] /\ bus[n] \in TopicMessage
         /\ \A n \in DOMAIN bus' \ DOMAIN bus : n > Len(bus)
         /\ bus' \in Seq(TopicMessage)
<1>1. /\ Len(bus) \in Nat /\ DOMAIN bus = 1..Len(bus)
      /\ bus \in Seq(TopicMessage) /\ \A n \in DOMAIN bus : bus[n] \in TopicMessage
  <2>1. bus \in Seq(TopicMessage)
    BY DEF ChannelInv, BusIsPublished
  <2> QED
    BY <2>1, LenProperties, ElementOfSeq
<1>2. CASE bus' = bus
  BY <1>1, <1>2
<1>3. ASSUME NEW d \in TopicMessage, bus' = Append(bus, d)
      PROVE  /\ Len(bus') = Len(bus) + 1 /\ DOMAIN bus' = 1..(Len(bus) + 1)
             /\ bus' \in Seq(TopicMessage) /\ \A n \in DOMAIN bus : bus'[n] = bus[n]
  BY <1>1, <1>3, AppendLemma
<1>4. ASSUME NEW d \in TopicMessage, bus' = Append(bus, d)
      PROVE  /\ Len(bus) <= Len(bus') /\ Len(bus') \in Nat /\ DOMAIN bus' = 1..Len(bus')
             /\ DOMAIN bus \subseteq DOMAIN bus'
             /\ \A n \in DOMAIN bus' \ DOMAIN bus : n > Len(bus)
  BY <1>1, <1>3, <1>4
<1>5. bus' = bus \/ \E d \in TopicMessage : bus' = Append(bus, d)
  <2>1. Notice \in TopicMessage /\ \A r \in Req : Delta(r) \in TopicMessage
    BY DEF Notice, Delta, TopicMessage, ChannelInv, IInv, TypeOK
  <2> QED
    BY <2>1, StepKinds DEF QuietNext, Writes, Publishes
<1> QED
  BY <1>1, <1>2, <1>3, <1>4, <1>5

(* A delta on the bus landed at its version, and no two did at the same;   *)
(* what has no version is no delta.                                        *)
LEMMA OnTheBus ==
  ASSUME ChannelInv
  PROVE  /\ bus \in Seq(TopicMessage) /\ Len(bus) \in Nat /\ DOMAIN bus = 1..Len(bus)
         /\ \A n \in DOMAIN bus : bus[n] \in TopicMessage /\ bus[n].version \in 0..row.version
         /\ \A n \in DOMAIN bus :
              bus[n].version > 0 \/ bus[n].req \in Req =>
                /\ bus[n].req \in Req /\ bus[n].version = landed[bus[n].req] /\ bus[n].version > 0
                /\ bus[n] = Delta(bus[n].req)
         /\ \A m, n \in DOMAIN bus :
              bus[m].version > 0 /\ bus[m].version = bus[n].version => m = n
         /\ \A m, n \in DOMAIN bus : bus[m].req \in Req /\ bus[m].req = bus[n].req => m = n
<1> USE DEF ChannelInv
<1>1. bus \in Seq(TopicMessage) /\ Len(bus) \in Nat /\ DOMAIN bus = 1..Len(bus)
  BY LenProperties DEF BusIsPublished
<1>2. /\ row.version = Len(log) /\ Len(log) \in Nat /\ DOMAIN log = 1..Len(log)
      /\ \A r \in Req : landed[r] > 0 => landed[r] \in DOMAIN log /\ log[landed[r]].req = r
      /\ \A r \in Req : answer[r] = "202" => landed[r] > 0
  BY LenProperties DEF IInv, TypeOK, NoLostUpdate, LandedIsLogged, StagesAgree
<1>3. /\ Notice.version = 0 /\ Notice.req = None /\ None \notin Req
      /\ \A n \in DOMAIN bus : bus[n] \in TopicMessage
  BY <1>1, ElementOfSeq, NoneAssumption DEF Notice
<1>4. \A n \in DOMAIN bus : bus[n] # Notice =>
        /\ bus[n].req \in Req /\ bus[n].version = landed[bus[n].req] /\ bus[n].version > 0
        /\ bus[n].version \in 1..row.version /\ log[bus[n].version].req = bus[n].req
  BY <1>2, <1>3 DEF BusIsPublished
<1>5. \A n \in DOMAIN bus : bus[n] # Notice => bus[n] = Delta(bus[n].req)
  BY <1>3, <1>4 DEF Delta, TopicMessage
<1>6. \A n \in DOMAIN bus : bus[n].version > 0 \/ bus[n].req \in Req => bus[n] # Notice
  BY <1>3
<1>7. \A n \in DOMAIN bus : bus[n].version \in 0..row.version
  BY <1>2, <1>3, <1>4
<1>8. \A m, n \in DOMAIN bus :
        bus[m].version > 0 /\ bus[m].version = bus[n].version => bus[m].req = bus[n].req
  BY <1>4, <1>6
<1>9. \A m, n \in DOMAIN bus : bus[m].req \in Req /\ bus[m].req = bus[n].req => m = n
  BY <1>6 DEF BusIsPublished
<1>10. \A m, n \in DOMAIN bus :
         bus[m].version > 0 /\ bus[m].version = bus[n].version => m = n
  BY <1>4, <1>6, <1>8, <1>9
<1> QED
  BY <1>1, <1>3, <1>4, <1>5, <1>6, <1>7, <1>9, <1>10

(* Every step keeps the history true to the jobs and the bus to the        *)
(* answers.                                                                *)
LEMMA NextChannel == ChannelInv /\ ChannelNext => ChannelInv'
<1> SUFFICES ASSUME ChannelInv, ChannelNext PROVE ChannelInv'
  OBVIOUS
<1>1. IInv /\ IInv'
  BY ChannelKeepsIInv DEF ChannelInv
<1>2. /\ \A i \in DOMAIN log : log[i] \in LogEntry /\ landed[log[i].req] = i
      /\ log \in Seq(LogEntry) /\ Len(log) \in Nat /\ DOMAIN log = 1..Len(log)
  BY <1>1, LenProperties DEF IInv, TypeOK, LandedIsLogged
<1>3. \A i \in DOMAIN log : log[i].req \in Req /\ landed[log[i].req] > 0
  BY <1>2 DEF LogEntry
<1>4. /\ Len(bus) \in Nat /\ DOMAIN bus = 1..Len(bus)
      /\ bus \in Seq(TopicMessage) /\ bus' \in Seq(TopicMessage)
  BY OnTheBus, BusFacts
<1>5. CASE QuietNext
  <2>1. Quiet
    BY <1>5 DEF QuietNext
  <2>2. LogIsOfJobs'
    BY <1>3, <2>1 DEF ChannelInv, LogIsOfJobs, Quiet, Written
  <2>3. \A r \in Req : landed'[r] = landed[r] /\ (answer'[r] = "202" <=> answer[r] = "202")
    BY <2>1 DEF Quiet
  <2>4. CASE bus' = bus
    BY <1>1, <1>4, <2>2, <2>3, <2>4 DEF ChannelInv, BusIsPublished
  <2>5. CASE bus' = Append(bus, Notice)
    <3>1. /\ DOMAIN bus' = DOMAIN bus \cup {Len(bus) + 1} /\ Len(bus) + 1 \notin DOMAIN bus
          /\ bus'[Len(bus) + 1] = Notice /\ \A n \in DOMAIN bus : bus'[n] = bus[n]
      <4>1. Notice \in TopicMessage
        BY DEF Notice, TopicMessage
      <4> QED
        BY <1>4, <2>5, <4>1, AppendLemma
    <3>2. \A n \in DOMAIN bus' : bus'[n] # Notice =>
            bus'[n].req \in Req /\ bus'[n].version = landed'[bus'[n].req] /\ answer'[bus'[n].req] = "202"
      BY <2>3, <3>1 DEF ChannelInv, BusIsPublished
    <3>3. \A m, n \in DOMAIN bus' : bus'[m] # Notice /\ bus'[m].req = bus'[n].req => m = n
      <4>1. \A m \in DOMAIN bus : bus[m] # Notice => bus[m].req # Notice.req
        BY NoneAssumption DEF Notice, ChannelInv, BusIsPublished
      <4> QED
        BY <3>1, <4>1 DEF ChannelInv, BusIsPublished
    <3>4. \A r \in Req : answer'[r] = "202" => \E n \in DOMAIN bus' : bus'[n].req = r
      <4>1. ASSUME NEW r \in Req, answer'[r] = "202" PROVE \E n \in DOMAIN bus' : bus'[n].req = r
        <5>1. PICK n \in DOMAIN bus : bus[n].req = r
          BY <2>3, <4>1 DEF ChannelInv, BusIsPublished
        <5> QED
          BY <3>1, <5>1
      <4> QED
        BY <4>1
    <3> QED
      BY <1>1, <1>4, <2>2, <3>2, <3>3, <3>4 DEF ChannelInv, BusIsPublished
  <2> QED
    BY <1>5, <2>4, <2>5 DEF QuietNext
<1>6. ASSUME NEW r \in Req, Writes(r) PROVE ChannelInv'
  <2> DEFINE e == [req |-> r, keys |-> job[r].keys, val |-> Written(job[r], r)]
  <2>1. log' = Append(log, e) /\ e \in LogEntry /\ job' = job /\ bus' = bus
        /\ landed[r] = 0 /\ landed' = [landed EXCEPT ![r] = Len(log) + 1]
    BY <1>1, <1>6, WriteFacts DEF Writes, Write
  <2>2. /\ DOMAIN log' = 1..(Len(log) + 1) /\ log'[Len(log) + 1] = e
        /\ \A i \in DOMAIN log : log'[i] = log[i]
    BY <1>2, <2>1, AppendLemma
  <2>3. e.req = r /\ e.keys = job[r].keys /\ e.val = Written(job[r], r)
    OBVIOUS
  <2> HIDE DEF e
  <2>4. \A i \in DOMAIN log' : i = Len(log) + 1 \/ i \in DOMAIN log
    BY <1>2, <2>2
  <2>5. LogIsOfJobs'
    BY <2>1, <2>2, <2>3, <2>4 DEF ChannelInv, LogIsOfJobs, Written
  <2>6. answer[r] # "202" /\ \A q \in Req : answer'[q] = "202" <=> answer[q] = "202"
    BY <1>1, <1>6 DEF Writes, Write, Answer, IInv, TypeOK, StagesAgree
  <2>7. \A n \in DOMAIN bus : bus[n] # Notice =>
          bus[n].req # r /\ landed'[bus[n].req] = landed[bus[n].req]
    BY <1>1, <1>4, <2>1, <2>6 DEF ChannelInv, BusIsPublished, IInv, TypeOK
  <2>8. BusIsPublished'
    BY <1>4, <2>1, <2>6, <2>7 DEF ChannelInv, BusIsPublished
  <2> QED
    BY <1>1, <2>5, <2>8 DEF ChannelInv
<1>7. ASSUME NEW r \in Req, Publishes(r) PROVE ChannelInv'
  <2> DEFINE d == Delta(r)
  <2>1. /\ bus' = Append(bus, d) /\ d \in TopicMessage /\ UNCHANGED <<row, log, landed, job>>
        /\ answer' = [answer EXCEPT ![r] = "202"] /\ answer[r] # "202" /\ answer \in [Req -> Answers]
    BY <1>1, <1>7 DEF Publishes, Publish, Answer, store, IInv, TypeOK, StagesAgree, Delta, TopicMessage
  <2>2. d.version = landed[r] /\ d.req = r
    BY DEF Delta
  <2> HIDE DEF d
  <2>3. /\ DOMAIN bus' = DOMAIN bus \cup {Len(bus) + 1} /\ Len(bus) + 1 \notin DOMAIN bus
        /\ bus'[Len(bus) + 1] = d /\ \A n \in DOMAIN bus : bus'[n] = bus[n]
    BY <1>4, <2>1, AppendLemma
  <2>4. \A n \in DOMAIN bus : bus[n].req # r
    <3>1. Notice.req # r
      BY NoneAssumption DEF Notice
    <3> QED
      BY <1>4, <2>1, <3>1 DEF ChannelInv, BusIsPublished
  <2>5. \A n \in DOMAIN bus' : bus'[n] # Notice =>
          bus'[n].req \in Req /\ bus'[n].version = landed'[bus'[n].req] /\ answer'[bus'[n].req] = "202"
    BY <1>4, <2>1, <2>2, <2>3 DEF ChannelInv, BusIsPublished
  <2>6. \A m, n \in DOMAIN bus' : bus'[m] # Notice /\ bus'[m].req = bus'[n].req => m = n
    BY <2>2, <2>3, <2>4 DEF ChannelInv, BusIsPublished
  <2>7. \A q \in Req : answer'[q] = "202" => \E n \in DOMAIN bus' : bus'[n].req = q
    <3>1. ASSUME NEW q \in Req \ {r}, answer'[q] = "202" PROVE \E n \in DOMAIN bus' : bus'[n].req = q
      <4>1. PICK n \in DOMAIN bus : bus[n].req = q
        BY <2>1, <3>1 DEF ChannelInv, BusIsPublished
      <4> QED
        BY <2>3, <4>1
    <3> QED
      BY <2>2, <2>3, <3>1
  <2>8. LogIsOfJobs'
    BY <2>1 DEF ChannelInv, LogIsOfJobs, Written
  <2> QED
    BY <1>1, <1>4, <2>5, <2>6, <2>7, <2>8 DEF ChannelInv, BusIsPublished
<1> QED
  BY <1>5, <1>6, <1>7, StepKinds

(* The row names the last writer of each key, one-shots apart: those may   *)
(* have been acked since.                                                  *)
LEMMA RowFacts ==
  ASSUME ChannelInv
  PROVE  /\ WrittenBy(landed, job, row.state, row.version)
         /\ \A k \in Key \ OneShot, w \in Req :
              /\ LastWriter(landed, job, k, row.version, w) => row.state[k] = w
              /\ row.state[k] = w => LastWriter(landed, job, k, row.version, w)
         /\ \A k \in Key \ OneShot, w \in Req :
              row.state[k] = None /\ landed[w] > 0 => k \notin job[w].keys
<1> USE DEF ChannelInv
<1>1. /\ row.version = Len(log) /\ Len(log) \in Nat /\ DOMAIN log = 1..Len(log)
      /\ landed \in [Req -> Nat] /\ job \in [Req -> Job] /\ row \in Row /\ log \in Seq(LogEntry)
      /\ \A r \in Req : landed[r] > 0 => landed[r] \in DOMAIN log /\ log[landed[r]].req = r
  BY LenProperties DEF IInv, TypeOK, NoLostUpdate, LandedIsLogged
<1>2. \A i \in DOMAIN log :
        /\ log[i].req \in Req /\ landed[log[i].req] = i /\ log[i].keys = job[log[i].req].keys
        /\ log[i].val = Written(job[log[i].req], log[i].req)
  <2>1. \A i \in DOMAIN log : log[i] \in LogEntry
    BY <1>1, ElementOfSeq
  <2> QED
    BY <2>1 DEF IInv, LandedIsLogged, LogIsOfJobs, LogEntry
<1>3. \A i \in DOMAIN log : log[i].val \in {log[i].req, None}
  BY <1>2 DEF Written
<1>4. \A k \in Key : \/ \E i \in DOMAIN log : LastWrite(k, i) /\ row.state[k] = log[i].val
                     \/ row.state[k] = None /\ \A i \in DOMAIN log : k \notin log[i].keys
  BY DEF IInv, NoLostUpdate
<1>5. ASSUME NEW k \in Key, row.state[k] # None
      PROVE  landed[row.state[k]] \in 1..row.version /\ k \in job[row.state[k]].keys
  <2>1. PICK i \in DOMAIN log : LastWrite(k, i) /\ row.state[k] = log[i].val
    BY <1>4, <1>5
  <2>2. row.state[k] = log[i].req /\ k \in log[i].keys
    BY <1>3, <1>5, <2>1 DEF LastWrite
  <2> QED
    BY <1>1, <1>2, <2>2
<1>6. ASSUME NEW k \in Key \ OneShot, NEW i \in DOMAIN log, k \in log[i].keys
      PROVE  log[i].val = log[i].req
  <2>1. job[log[i].req].kind # "ack"
    BY <1>2, <1>6 DEF LogIsOfJobs
  <2> QED
    BY <1>2, <2>1 DEF Written
<1>7. ASSUME NEW k \in Key \ OneShot, NEW w \in Req, row.state[k] = None, landed[w] > 0
      PROVE  k \notin job[w].keys
  <2>1. landed[w] \in DOMAIN log /\ log[landed[w]].req = w
    BY <1>1, <1>7
  <2>2. \A i \in DOMAIN log : LastWrite(k, i) => log[i].val = log[i].req
    BY <1>6 DEF LastWrite
  <2>3. \A i \in DOMAIN log : log[i].req # None
    BY <1>2, NoneAssumption
  <2>4. \A i \in DOMAIN log : k \notin log[i].keys
    BY <1>4, <1>7, <2>2, <2>3
  <2> QED
    BY <1>2, <2>1, <2>4
<1>8. ASSUME NEW k \in Key \ OneShot, NEW w \in Req, row.state[k] = w
      PROVE  LastWriter(landed, job, k, row.version, w)
  <2>1. PICK i \in DOMAIN log : LastWrite(k, i) /\ row.state[k] = log[i].val
    BY <1>4, <1>8, NoneAssumption
  <2>2. w = log[i].req /\ landed[w] = i /\ k \in job[w].keys
    BY <1>2, <1>6, <1>8, <2>1 DEF LastWrite
  <2>3. ASSUME NEW x \in Req, landed[x] \in 1..row.version, k \in job[x].keys
        PROVE  landed[x] <= landed[w]
    <3>1. landed[x] \in DOMAIN log /\ k \in log[landed[x]].keys
      BY <1>1, <1>2, <2>3
    <3>2. ~(landed[x] > i)
      BY <2>1, <3>1 DEF LastWrite
    <3> QED
      BY <1>1, <2>2, <3>1, <3>2
  <2> QED
    BY <1>1, <2>2, <2>3 DEF LastWriter
<1>9. ASSUME NEW k \in Key \ OneShot, NEW w \in Req, LastWriter(landed, job, k, row.version, w)
      PROVE  row.state[k] = w
  <2>1. landed[w] > 0 /\ k \in job[w].keys
    BY <1>1, <1>9 DEF LastWriter
  <2>2. row.state[k] # None /\ row.state[k] \in Req
    BY <1>1, <1>7, <2>1 DEF Row
  <2> DEFINE v == row.state[k]
  <2>3. LastWriter(landed, job, k, row.version, v)
    BY <1>8, <2>2
  <2> HIDE DEF v
  <2>4. v \in Req /\ landed[v] <= landed[w] /\ landed[w] <= landed[v]
    BY <1>9, <2>2, <2>3 DEF LastWriter, v
  <2>5. landed[v] = landed[w] /\ landed[v] > 0
    BY <1>1, <2>1, <2>4
  <2>6. v = w
    BY <1>1, <2>1, <2>4, <2>5
  <2> QED
    BY <2>6 DEF v
<1> QED
  BY <1>5, <1>7, <1>8, <1>9 DEF WrittenBy

(* What was the last write up to a version that is past stays so.          *)
LEMMA LastStays ==
  ASSUME ChannelInv, ChannelNext, NEW v \in Nat, v <= row.version
  PROVE  /\ \A k \in Key, w \in Req :
              LastWriter(landed', job', k, v, w) <=> LastWriter(landed, job, k, v, w)
         /\ \A holds \in Held :
              WrittenBy(landed, job, holds, v) => WrittenBy(landed', job', holds, v)
<1>1. \A r \in Req : landed[r] \in Nat /\ landed'[r] \in Nat
  BY NextChannel DEF ChannelInv, IInv, TypeOK
<1>2. \A r \in Req : landed'[r] \in 1..v <=> landed[r] \in 1..v
  BY <1>1, LandedFacts
<1>3. \A r \in Req : landed[r] \in 1..v => landed'[r] = landed[r] /\ job'[r] = job[r]
  BY <1>1, LandedFacts
<1> QED
  BY <1>2, <1>3 DEF LastWriter, WrittenBy, Held

-----------------------------------------------------------------------------
(* The head and the tail of a sequence.                                    *)
LEMMA TailLemma ==
  ASSUME NEW S, NEW s \in Seq(S), s # <<>>
  PROVE  /\ Len(s) \in Nat /\ Len(s) >= 1 /\ Head(s) = s[1] /\ s[1] \in S
         /\ Tail(s) \in Seq(S) /\ Len(Tail(s)) = Len(s) - 1
         /\ \A q \in 1..Len(s) - 1 : Tail(s)[q] = s[q + 1]
  OBVIOUS

(* A publish finds the stream gone, or room in its queue, or none.         *)
LEMMA PutFacts ==
  ASSUME NEW s \in Subscriber(TopicMessage), Len(s.queue) <= QueueCap, NEW d \in TopicMessage
  PROVE  /\ Put(s, d) \in Subscriber(TopicMessage) /\ Len(Put(s, d).queue) <= QueueCap
         /\ ~s.listening => Put(s, d) = s
         /\ s.listening /\ Len(s.queue) < QueueCap =>
              /\ Put(s, d).listening /\ Len(Put(s, d).queue) = Len(s.queue) + 1
              /\ Put(s, d).queue[Len(s.queue) + 1] = d
              /\ \A q \in 1..Len(s.queue) : Put(s, d).queue[q] = s.queue[q]
         /\ s.listening /\ ~(Len(s.queue) < QueueCap) =>
              /\ ~Put(s, d).listening /\ Len(Put(s, d).queue) = QueueCap /\ Len(s.queue) = QueueCap
              /\ Put(s, d).queue[QueueCap] = Overflow
              /\ \A q \in 1..QueueCap - 1 : Put(s, d).queue[q] = s.queue[q + 1]
<1> DEFINE M == TopicMessage \cup {Overflow}
<1>1. /\ s.queue \in Seq(M) /\ s.listening \in BOOLEAN /\ Len(s.queue) \in Nat
      /\ QueueCap \in Nat /\ QueueCap >= 1 /\ d \in M /\ Overflow \in M
      /\ s = [queue |-> s.queue, listening |-> s.listening]
  BY QueueAssumption DEF Subscriber
<1> HIDE DEF M
<1>2. CASE ~s.listening
  BY <1>1, <1>2 DEF Put
<1>3. CASE s.listening /\ Len(s.queue) < QueueCap
  <2>1. Put(s, d) = [queue |-> Append(s.queue, d), listening |-> s.listening]
    BY <1>1, <1>3 DEF Put
  <2>2. /\ Append(s.queue, d) \in Seq(M) /\ Len(Append(s.queue, d)) = Len(s.queue) + 1
        /\ Append(s.queue, d)[Len(s.queue) + 1] = d
        /\ \A q \in 1..Len(s.queue) : Append(s.queue, d)[q] = s.queue[q]
    BY <1>1, AppendLemma
  <2>3. Put(s, d) \in Subscriber(TopicMessage)
    BY <1>1, <2>1, <2>2 DEF Subscriber, M
  <2> QED
    BY <1>1, <1>3, <2>1, <2>2, <2>3
<1>4. CASE s.listening /\ ~(Len(s.queue) < QueueCap)
  <2> DEFINE t == Tail(s.queue)
  <2>1. Put(s, d) = [queue |-> Append(t, Overflow), listening |-> FALSE]
    BY <1>4 DEF Put
  <2>2. Len(s.queue) = QueueCap
    BY <1>1, <1>4
  <2>3. /\ t \in Seq(M) /\ Len(t) = QueueCap - 1
        /\ \A q \in 1..QueueCap - 1 : t[q] = s.queue[q + 1]
    BY <1>1, <2>2, TailLemma
  <2> HIDE DEF t
  <2>4. /\ Append(t, Overflow) \in Seq(M) /\ Len(Append(t, Overflow)) = QueueCap
        /\ Append(t, Overflow)[QueueCap] = Overflow
        /\ \A q \in 1..QueueCap - 1 : Append(t, Overflow)[q] = t[q]
    <3>1. Len(t) + 1 = QueueCap
      BY <1>1, <2>3
    <3> QED
      BY <1>1, <2>3, <3>1, AppendLemma
  <2>5. Put(s, d) \in Subscriber(TopicMessage)
    BY <2>1, <2>4 DEF Subscriber, M
  <2>6. \A q \in 1..QueueCap - 1 : Append(t, Overflow)[q] = s.queue[q + 1]
    BY <2>3, <2>4
  <2> QED
    BY <1>1, <1>4, <2>1, <2>2, <2>4, <2>5, <2>6
<1> QED
  BY <1>1, <1>2, <1>3, <1>4

-----------------------------------------------------------------------------
(* The parts of the stream's invariant, over steps that touch little of    *)
(* what they are about.                                                    *)
StreamTypes ==
  /\ ChannelInv /\ StreamTypeOK
  /\ row.version \in Nat /\ snap.version \in Nat /\ node.applied \in Nat
  /\ snap.state \in Held /\ node.holds \in Held /\ heard \subseteq Req /\ overran \subseteq Nat
  /\ sub \in Subscriber(TopicMessage) /\ Len(sub.queue) \in Nat /\ Len(sub.queue) <= QueueCap
  /\ sub.queue \in Seq(TopicMessage \cup {Overflow}) /\ sub.listening \in BOOLEAN
  /\ QueueCap \in Nat /\ QueueCap >= 1

(* What every step below starts from.                                      *)
LEMMA StreamFacts == StreamInv => StreamTypes
<1> SUFFICES ASSUME StreamInv PROVE StreamTypes
  OBVIOUS
<1>1. ChannelInv /\ StreamTypeOK
  BY DEF StreamInv
<1>2. sub.queue \in Seq(TopicMessage \cup {Overflow}) /\ sub.listening \in BOOLEAN /\ Len(sub.queue) \in Nat
  BY <1>1, LenProperties DEF StreamTypeOK, Subscriber
<1>3. row.version \in Nat
  BY <1>1 DEF ChannelInv, IInv, TypeOK, Row
<1> QED
  BY <1>1, <1>2, <1>3, QueueAssumption DEF StreamTypes, StreamTypeOK

(* The snapshot's state stays what the row was, whatever is written since. *)
LEMMA SnapStays ==
  ASSUME StreamInv, ChannelNext, UNCHANGED <<snap, verifies>>,
         link' = "stated" => link = "stated" /\ node'.applied = node.applied
  PROVE  SnapIsTheRow'
<1>1. /\ SnapIsTheRow /\ snap.version \in Nat /\ snap.state \in Held /\ ChannelInv
      /\ row.version \in Nat /\ row'.version \in Nat /\ row.version <= row'.version
      /\ row'.version = row.version => row' = row
  BY StreamFacts, LandedFacts DEF StreamInv, StreamTypes
<1>2. snap.version <= row.version
  BY <1>1 DEF SnapIsTheRow
<1>3. CASE link' # "stated"
  BY <1>1, <1>2, <1>3 DEF SnapIsTheRow
<1>4. CASE link' = "stated"
  <2>1. /\ \A k \in Key, w \in Req :
             LastWriter(landed', job', k, snap.version, w) <=> LastWriter(landed, job, k, snap.version, w)
        /\ WrittenBy(landed, job, snap.state, snap.version) =>
             WrittenBy(landed', job', snap.state, snap.version)
    BY <1>1, <1>2, LastStays
  <2>2. snap.version = row'.version => row' = row
    BY <1>1, <1>2
  <2> QED
    BY <1>1, <1>2, <1>4, <2>1, <2>2 DEF SnapIsTheRow
<1> QED
  BY <1>3, <1>4

(* A delta that is in the way stays in the way.                            *)
LEMMA LossStays ==
  ASSUME ChannelInv, ChannelNext, NEW w \in Req, landed[w] > 0,
         overran \subseteq overran', overran \subseteq DOMAIN bus
  PROVE  (Passed(w) => Passed(w)') /\ (GivenUp(w) => GivenUp(w)')
<1>1. landed'[w] = landed[w]
  BY LandedFacts
<1>2. ASSUME Passed(w) PROVE Passed(w)'
  <2>1. PICK i \in DOMAIN bus :
          bus[i].version > landed[w] /\ \A j \in DOMAIN bus : bus[j].req = w => i < j
    BY <1>2 DEF Passed
  <2>2. i \in DOMAIN bus' /\ bus'[i].version > landed'[w]
    BY <1>1, <2>1, BusFacts
  <2>3. ASSUME NEW j \in DOMAIN bus', bus'[j].req = w PROVE i < j
    <3>1. CASE j \in DOMAIN bus
      BY <2>1, <2>3, <3>1, BusFacts
    <3>2. CASE j \notin DOMAIN bus
      <4>1. j > Len(bus) /\ i \in 1..Len(bus) /\ Len(bus) \in Nat /\ j \in Nat
        BY <2>3, <3>2, BusFacts
      <4> QED
        BY <4>1
    <3> QED
      BY <3>1, <3>2
  <2> QED
    BY <2>2, <2>3 DEF Passed
<1>3. GivenUp(w) => GivenUp(w)'
  BY BusFacts DEF GivenUp
<1> QED
  BY <1>2, <1>3

(* A step that gives the node nothing: what it lacks, it lacked before.    *)
LEMMA NodeStays ==
  ASSUME StreamInv, ChannelNext, UNCHANGED <<node.applied, node.holds, verifies>>, heard' \subseteq heard,
         overran \subseteq overran',
         link' = "open" => link = "open" /\ snap' = snap,
         \A w \in Req : Behind(w) => Behind(w)'
  PROVE  NodeFollows'
<1>1. NodeFollows /\ ChannelInv /\ node.applied \in Nat /\ node.holds \in Held /\ heard \subseteq Req
  BY StreamFacts DEF StreamInv, StreamTypes
<1>2. node.applied <= row.version /\ node.applied <= row'.version
  BY <1>1, LandedFacts DEF NodeFollows
<1>3. \A r \in heard' : landed[r] > 0 /\ landed'[r] = landed[r]
  BY <1>1, LandedFacts DEF NodeFollows
<1>4. ASSUME ~verifies
      PROVE  /\ link' = "open" => snap'.version <= node'.applied
             /\ \A r \in heard' : landed'[r] <= node'.applied
             /\ WrittenBy(landed', job', node'.holds, node'.applied)
             /\ \A k \in Key \ OneShot, w \in Req : LastWriter(landed', job', k, node'.applied, w) =>
                  node'.holds[k] = w \/ Passed(w)' \/ GivenUp(w)' \/ Behind(w)'
  <2>1. /\ \A k \in Key, w \in Req :
             LastWriter(landed', job', k, node.applied, w) <=> LastWriter(landed, job, k, node.applied, w)
        /\ WrittenBy(landed, job, node.holds, node.applied) =>
             WrittenBy(landed', job', node.holds, node.applied)
    BY <1>1, <1>2, LastStays
  <2>2. \A k \in Key, w \in Req : LastWriter(landed, job, k, node.applied, w) => landed[w] > 0
    BY <1>1 DEF LastWriter
  <2>3. \A k \in Key \ OneShot, w \in Req : LastWriter(landed', job', k, node.applied, w) =>
          node.holds[k] = w \/ Passed(w)' \/ GivenUp(w)' \/ Behind(w)'
    <3>1. overran \subseteq DOMAIN bus
      BY DEF StreamInv, QueueInv
    <3> QED
      BY <1>1, <1>4, <2>1, <2>2, <3>1, LossStays DEF NodeFollows
  <2> QED
    BY <1>1, <1>3, <1>4, <2>1, <2>3 DEF NodeFollows
<1> QED
  BY <1>2, <1>3, <1>4 DEF NodeFollows

(* A write that was not signed stays in the history.                       *)
LEMMA UnsignedStays ==
  ASSUME ChannelInv, ChannelNext, ~AllWereSigned
  PROVE  ~AllWereSigned'
<1>1. PICK i \in DOMAIN log : log[i].val # None /\ ~job[log[i].req].signed
  BY DEF AllWereSigned
<1>2. log[i].req \in Req /\ landed[log[i].req] > 0
  <2>1. log[i] \in LogEntry /\ landed[log[i].req] = i /\ i > 0
    BY <1>1, ElementOfSeq, LenProperties DEF ChannelInv, IInv, TypeOK, LandedIsLogged
  <2> QED
    BY <2>1 DEF LogEntry
<1>3. job'[log[i].req] = job[log[i].req]
  BY <1>2, LandedFacts
<1>4. i \in DOMAIN log' /\ log'[i] = log[i]
  <2>1. CASE \E r \in Req : Write(r)
    <3>1. PICK e \in LogEntry : log' = Append(log, e)
      BY <2>1, WriteFacts DEF ChannelInv
    <3> QED
      BY <1>1, <3>1, AppendLemma DEF ChannelInv, IInv, TypeOK
  <2>2. CASE log' = log
    BY <1>1, <2>2
  <2> QED
    BY <2>1, <2>2, StepKinds DEF QuietNext, Quiet, Writes, Publishes, Publish, store
<1> QED
  BY <1>1, <1>3, <1>4 DEF AllWereSigned

(* A node that refused nothing new has its excuse still.                   *)
LEMMA TornStays ==
  ASSUME StreamInv, ChannelNext, torn' = torn, node'.refused => node.refused
  PROVE  OnlyTornIsRefused'
BY UnsignedStays DEF StreamInv, OnlyTornIsRefused

-----------------------------------------------------------------------------
(* One lemma per step.  First the handlers, while the bus is quiet.        *)
LEMMA QuietChannel == UNCHANGED <<vars, bus>> => ChannelNext
BY DEF ChannelNext, Unpublished, vars

LEMMA HandlersStream ==
  ASSUME StreamInv, ChannelNext, UNCHANGED streamVars
  PROVE  StreamInv'
<1>1. UNCHANGED <<bus, link, sub, snap, heard, overran, torn, node, verifies>>
  BY DEF streamVars
<1>2. ChannelInv'
  BY NextChannel DEF StreamInv
<1>3. StreamTypeOK'
  BY <1>1 DEF StreamInv, StreamTypeOK, Subscriber, TopicMessage
<1>4. SnapIsTheRow'
  BY <1>1, SnapStays
<1>5. QueueInv'
  BY <1>1 DEF StreamInv, QueueInv, QueueIsTheEnd, DroppedAt
<1>6. \A w \in Req : Behind(w) => Behind(w)'
  <2>1. row.version <= row'.version /\ row.version \in Nat /\ row'.version \in Nat /\ node.applied \in Nat
    BY StreamFacts, LandedFacts DEF StreamTypes
  <2> QED
    BY <1>1, <2>1 DEF Behind, DroppedAt
<1>7. NodeFollows'
  BY <1>1, <1>6, NodeStays
<1>8. OnlyTornIsRefused'
  BY <1>1, TornStays
<1> QED
  BY <1>2, <1>3, <1>4, <1>5, <1>7, <1>8 DEF StreamInv

(* A queue and the bus behind it, one delta longer.                        *)
LEMMA OneMore == \A l, b \in Nat : b - l + (l + 1) = b + 1
  OBVIOUS

(* A publish: the message comes last in the queue, or it is the one too    *)
(* many that the marker stands for.                                        *)
LEMMA SendStream ==
  ASSUME StreamInv, NEW d \in TopicMessage, Send(d), ChannelNext, row' = row
  PROVE  StreamInv'
<1>1. /\ UNCHANGED <<link, snap, heard, torn, node, verifies>> /\ row' = row
      /\ bus' = Append(bus, d) /\ sub' = Put(sub, d)
      /\ overran' = IF sub.listening /\ ~sub'.listening THEN overran \cup {Len(bus')} ELSE overran
      /\ overran \subseteq overran'
  BY DEF Send
<1>2. StreamTypes /\ overran \subseteq DOMAIN bus
  BY StreamFacts DEF StreamInv, QueueInv
<1>3. d \in TopicMessage /\ bus \in Seq(TopicMessage)
  BY <1>2 DEF StreamTypes, ChannelInv, BusIsPublished
<1>4. /\ Len(bus) \in Nat /\ DOMAIN bus = 1..Len(bus) /\ Len(bus') = Len(bus) + 1
      /\ DOMAIN bus' = 1..(Len(bus) + 1)
      /\ bus'[Len(bus) + 1] = d /\ \A n \in 1..Len(bus) : bus'[n] = bus[n]
  BY <1>1, <1>3, AppendLemma
<1>5. /\ sub' \in Subscriber(TopicMessage) /\ Len(sub'.queue) <= QueueCap
      /\ ~sub.listening => sub' = sub
      /\ sub.listening /\ Len(sub.queue) < QueueCap =>
           /\ sub'.listening /\ Len(sub'.queue) = Len(sub.queue) + 1
           /\ sub'.queue[Len(sub.queue) + 1] = d
           /\ \A q \in 1..Len(sub.queue) : sub'.queue[q] = sub.queue[q]
      /\ sub.listening /\ ~(Len(sub.queue) < QueueCap) =>
           /\ ~sub'.listening /\ Len(sub'.queue) = QueueCap /\ Len(sub.queue) = QueueCap
           /\ sub'.queue[QueueCap] = Overflow
           /\ \A q \in 1..QueueCap - 1 : sub'.queue[q] = sub.queue[q + 1]
  <2>1. sub \in Subscriber(TopicMessage) /\ Len(sub.queue) <= QueueCap
    BY <1>2 DEF StreamTypes
  <2> QED
    BY <1>1, <1>3, <2>1, PutFacts
<1>6. ChannelInv' /\ SnapIsTheRow' /\ OnlyTornIsRefused'
  BY <1>1, <1>2, NextChannel, SnapStays, TornStays DEF StreamTypes
<1>7. StreamTypeOK' /\ overran' \subseteq DOMAIN bus'
  <2>1. link = "down" => sub' = sub
    BY <1>5 DEF StreamInv, StreamTypeOK, Unsubscribed
  <2>2. bus' \in Seq(TopicMessage)
    BY <1>6 DEF ChannelInv, BusIsPublished
  <2>3. overran' \subseteq DOMAIN bus' /\ overran' \subseteq Nat
    <3>1. /\ Len(bus') \in DOMAIN bus' /\ Len(bus') \in Nat /\ DOMAIN bus \subseteq DOMAIN bus'
          /\ DOMAIN bus \subseteq Nat
      BY <1>4
    <3>2. overran' = overran \/ overran' = overran \cup {Len(bus')}
      BY <1>1
    <3> QED
      BY ONLY <1>2, <3>1, <3>2
  <2>4. /\ link' \in {"down", "subscribed", "stated", "open"}
        /\ link' = "down" => sub' = Unsubscribed
        /\ snap' \in [version: Nat, state: Held]
        /\ heard' \subseteq Req /\ torn' \in BOOLEAN
        /\ node' \in [applied: Nat, holds: Held, given: SUBSET Req, refused: BOOLEAN]
    BY <1>1, <2>1 DEF StreamInv, StreamTypeOK
  <2> QED
    BY <1>5, <2>2, <2>3, <2>4 DEF StreamTypeOK
<1>8. ASSUME NEW j, DroppedAt(j), ~sub.listening PROVE DroppedAt(j)'
  <2>1. sub' = sub /\ UNCHANGED <<link, snap, heard>> /\ overran' = overran
    BY <1>1, <1>5, <1>8
  <2>2. /\ j \in 1..Len(bus) /\ Len(sub.queue) \in Nat /\ Len(sub.queue) \in 1..QueueCap /\ QueueCap \in Nat
        /\ QueueCap < j
    BY <1>2, <1>4, <1>8 DEF DroppedAt, StreamTypes
  <2>3. \A q \in 1..Len(sub.queue) - 1 : bus'[j - Len(sub.queue) + q] = bus[j - Len(sub.queue) + q]
    <3>1. \A q \in 1..Len(sub.queue) - 1 : j - Len(sub.queue) + q \in 1..Len(bus)
      BY <2>2
    <3> QED
      BY <1>4, <3>1
  <2>4. \A n \in 1..j - Len(sub.queue) : bus'[n] = bus[n]
    BY <1>4, <2>2
  <2>5. j \in DOMAIN bus'
    BY <1>4, <2>2
  <2> QED
    BY <1>8, <2>1, <2>3, <2>4, <2>5 DEF DroppedAt
<1>9. CASE link = "down"
  <2>1. \A w \in Req : Behind(w) => Behind(w)'
    BY <1>1, <1>9 DEF Behind
  <2> QED
    BY <1>1, <1>6, <1>7, <1>9, <2>1, NodeStays DEF StreamInv, QueueInv
<1>10. CASE link # "down" /\ ~sub.listening
  <2>1. sub' = sub
    BY <1>5, <1>10
  <2>2. QueueInv'
    <3>1. PICK j \in DOMAIN bus : DroppedAt(j)
      BY <1>10 DEF StreamInv, QueueInv
    <3>2. DroppedAt(j)' /\ j \in DOMAIN bus'
      BY <1>4, <1>8, <1>10, <3>1
    <3> QED
      BY <1>7, <1>10, <2>1, <3>2 DEF QueueInv
  <2>3. ASSUME NEW w \in Req, Behind(w) PROVE Behind(w)'
    <3>1. CASE link = "open"
      <4>1. PICK j \in DOMAIN bus : DroppedAt(j) /\ bus[j].version > node.applied /\ bus[j - QueueCap].req = w
        BY <2>3, <3>1 DEF Behind
      <4>2. DroppedAt(j)'
        BY <1>8, <1>10, <4>1
      <4>3. j - QueueCap \in 1..Len(bus)
        BY <1>2, <1>4, <4>1 DEF DroppedAt, StreamTypes
      <4>4. j \in DOMAIN bus' /\ bus'[j] = bus[j] /\ bus'[j - QueueCap] = bus[j - QueueCap]
        BY <1>4, <4>1, <4>3
      <4> QED
        BY <1>1, <1>10, <2>1, <3>1, <4>1, <4>2, <4>4 DEF Behind
    <3>2. CASE link # "open"
      BY <1>1, <2>3, <3>2 DEF Behind
    <3> QED
      BY <3>1, <3>2
  <2> QED
    BY <1>1, <1>6, <1>7, <2>2, <2>3, NodeStays DEF StreamInv
<1>11. CASE link # "down" /\ sub.listening
  <2>1. QueueIsTheEnd
    BY <1>11 DEF StreamInv, QueueInv
  <2>2. \A w \in Req : Behind(w) => Behind(w)'
    BY <1>1, <1>11 DEF Behind
  <2> PICK L \in Nat, B \in Nat : L = Len(sub.queue) /\ B = Len(bus)
    BY <1>2, <1>4 DEF StreamTypes
  <2>3. /\ L \in Nat /\ B \in Nat /\ L <= B /\ QueueCap \in Nat /\ QueueCap >= 1 /\ L <= QueueCap
        /\ \A q \in 1..L : sub.queue[q] = bus[B - L + q]
        /\ link \in {"stated", "open"} =>
             \A n \in 1..B - L : bus[n].version > snap.version => bus[n].req \in heard
        /\ Len(bus') = B + 1 /\ DOMAIN bus' = 1..(B + 1)
        /\ bus'[B + 1] = d /\ \A n \in 1..B : bus'[n] = bus[n]
    BY <1>2, <1>4, <2>1 DEF QueueIsTheEnd, StreamTypes
  <2>4. CASE L < QueueCap
    <3>1. /\ sub'.listening /\ Len(sub'.queue) = L + 1 /\ sub'.queue[L + 1] = d
          /\ \A q \in 1..L : sub'.queue[q] = sub.queue[q]
      BY <1>5, <1>11, <2>4
    <3>2. \A q \in 1..(L + 1) : sub'.queue[q] = bus'[B - L + q]
      <4>1. ASSUME NEW q \in 1..L PROVE sub'.queue[q] = bus'[B - L + q]
        <5>1. B - L + q \in 1..B
          BY <2>3
        <5> QED
          BY <2>3, <3>1, <5>1
      <4>2. B - L + (L + 1) = B + 1
        BY OneMore
      <4>3. \A q \in 1..(L + 1) : q \in 1..L \/ q = L + 1
        OBVIOUS
      <4> QED
        BY <2>3, <3>1, <4>1, <4>2, <4>3
    <3>3. (B + 1) - (L + 1) = B - L /\ (L <= B => L + 1 <= B + 1)
      OBVIOUS
    <3>4. \A n \in 1..B - L : n \in 1..B
      OBVIOUS
    <3>5. QueueIsTheEnd'
      <4>1. Len(sub'.queue) = L + 1 /\ Len(bus') = B + 1 /\ Len(sub'.queue) <= Len(bus')
            /\ Len(bus') - Len(sub'.queue) = B - L
        BY <2>3, <3>1, <3>3
      <4>2. link' \in {"stated", "open"} =>
              \A n \in 1..B - L : bus'[n].version > snap'.version => bus'[n].req \in heard'
        BY <1>1, <2>3, <3>4
      <4> QED
        BY <3>2, <4>1, <4>2 DEF QueueIsTheEnd
    <3>6. QueueInv'
      BY <1>7, <3>1, <3>5 DEF QueueInv
    <3> QED
      BY <1>1, <1>6, <1>7, <2>2, <3>6, NodeStays DEF StreamInv
  <2>5. CASE ~(L < QueueCap)
    <3>1. /\ ~sub'.listening /\ Len(sub'.queue) = QueueCap /\ L = QueueCap
          /\ sub'.queue[QueueCap] = Overflow
          /\ \A q \in 1..QueueCap - 1 : sub'.queue[q] = sub.queue[q + 1]
      BY <1>5, <1>11, <2>5
    <3>2. \A q \in 1..QueueCap - 1 : sub'.queue[q] = bus'[(B + 1) - QueueCap + q]
      <4>1. ASSUME NEW q \in 1..QueueCap - 1 PROVE sub'.queue[q] = bus'[(B + 1) - QueueCap + q]
        <5>1. /\ q + 1 \in 1..L /\ B - L + (q + 1) = (B + 1) - QueueCap + q
              /\ (B + 1) - QueueCap + q \in 1..B
          BY <2>3, <3>1
        <5>2. sub'.queue[q] = sub.queue[q + 1]
          BY <3>1
        <5>3. sub.queue[q + 1] = bus[B - L + (q + 1)]
          BY <2>3, <5>1
        <5>4. bus'[(B + 1) - QueueCap + q] = bus[(B + 1) - QueueCap + q]
          BY <2>3, <5>1
        <5> QED
          BY ONLY <5>1, <5>2, <5>3, <5>4
      <4> QED
        BY <4>1
    <3>3. link' \in {"stated", "open"} =>
            \A n \in 1..(B + 1) - QueueCap :
              bus'[n].version > snap'.version => bus'[n].req \in heard' \/ n = (B + 1) - QueueCap
      <4>1. ASSUME NEW n \in 1..(B + 1) - QueueCap, n # (B + 1) - QueueCap
            PROVE  n \in 1..B - L /\ bus'[n] = bus[n]
        <5>1. L = QueueCap /\ L \in Nat /\ B \in Nat /\ L >= 1 /\ L <= B
          BY <2>3, <3>1
        <5>2. n \in 1..B - L /\ n \in 1..B
          BY ONLY <4>1, <5>1
        <5>3. \A i \in 1..B : bus'[i] = bus[i]
          BY <2>3
        <5> QED
          BY ONLY <5>2, <5>3
      <4>2. link' = link /\ snap' = snap /\ heard' = heard
        BY <1>1
      <4>3. link \in {"stated", "open"} =>
              \A n \in 1..B - L : bus[n].version > snap.version => bus[n].req \in heard
        BY <2>3
      <4> QED
        BY ONLY <4>1, <4>2, <4>3
    <3>4. B + 1 \in DOMAIN bus' /\ QueueCap < B + 1 /\ QueueCap \in 1..QueueCap
      BY <2>3, <3>1
    <3>5. B + 1 \in overran' /\ \A g \in overran' : g <= B + 1
      BY <1>1, <1>2, <1>4, <1>11, <2>3, <3>1
    <3>6. DroppedAt(B + 1)'
      BY <1>1, <3>1, <3>2, <3>3, <3>4, <3>5 DEF DroppedAt
    <3>7. QueueInv'
      BY <1>7, <3>1, <3>4, <3>6 DEF QueueInv
    <3> QED
      BY <1>1, <1>6, <1>7, <2>2, <3>7, NodeStays DEF StreamInv
  <2> QED
    BY <2>4, <2>5
<1> QED
  BY <1>9, <1>10, <1>11

(* The stream ends: what the node lacks, its next snapshot will contain.   *)
LEMMA LinkDown ==
  ASSUME StreamInv, ChannelNext, Close, UNCHANGED <<bus, overran, torn, node, verifies>>
  PROVE  StreamInv'
<1> link' = "down" /\ sub' = Unsubscribed /\ snap' = NoSnap /\ heard' = {}
  BY DEF Close
<1>1. /\ StreamTypes /\ row.version \in Nat /\ row'.version \in Nat /\ row.version <= row'.version
      /\ node.applied \in Nat /\ snap.version \in Nat /\ overran \subseteq DOMAIN bus
  BY StreamFacts, LandedFacts DEF StreamTypes, StreamInv, QueueInv
<1>2. ChannelInv' /\ SnapIsTheRow' /\ OnlyTornIsRefused'
  <2>1. SnapIsTheRow'
    BY <1>1 DEF SnapIsTheRow, NoSnap
  <2> QED
    BY <1>1, <2>1, NextChannel, TornStays DEF StreamTypes
<1>3. Unsubscribed \in Subscriber(TopicMessage) /\ Len(Unsubscribed.queue) = 0
  BY DEF Unsubscribed, Subscriber
<1>4. StreamTypeOK'
  <2>1. NoSnap \in [version: Nat, state: Held]
    BY DEF NoSnap, NoRow, Held
  <2> QED
    BY <1>1, <1>3, <2>1 DEF StreamInv, StreamTypeOK, StreamTypes
<1>5. QueueInv'
  BY <1>1 DEF QueueInv
<1>6. ASSUME NEW w \in Req, Behind(w) PROVE Behind(w)'
  <2>1. row.version > node.applied
    <3>1. CASE link = "stated"
      BY <1>1, <1>6, <3>1 DEF Behind, StreamInv, SnapIsTheRow
    <3>2. CASE link = "open"
      <4>1. PICK j \in DOMAIN bus : bus[j].version > node.applied
        BY <1>6, <3>2 DEF Behind
      <4>2. bus[j].version \in 0..row.version
        BY <1>1, OnTheBus DEF StreamTypes
      <4> QED
        BY <1>1, <4>1, <4>2
    <3>3. CASE link \in {"down", "subscribed"}
      BY <1>6, <3>3 DEF Behind
    <3> QED
      BY <3>1, <3>2, <3>3 DEF StreamInv, StreamTypeOK
  <2>2. row'.version > node'.applied
    BY <1>1, <2>1
  <2> QED
    BY <2>2 DEF Behind
<1>7. NodeFollows'
  BY <1>6, NodeStays
<1> QED
  BY <1>2, <1>4, <1>5, <1>7 DEF StreamInv

(* A new stream begins with an empty queue, at the end of the bus.         *)
LEMMA SubscribeStream ==
  ASSUME StreamInv, Subscribe
  PROVE  StreamInv'
<1>1. /\ link = "down" /\ link' = "subscribed" /\ sub' = Subscribed /\ ChannelNext
      /\ UNCHANGED <<vars, bus, snap, heard, overran, torn, node, verifies>> /\ row' = row
  BY QuietChannel DEF Subscribe, vars, store
<1>2. StreamTypes /\ DOMAIN bus = 1..Len(bus) /\ Len(bus) \in Nat /\ overran \subseteq DOMAIN bus
  BY StreamFacts, OnTheBus DEF StreamTypes, StreamInv, QueueInv
<1>3. ChannelInv' /\ SnapIsTheRow' /\ OnlyTornIsRefused'
  BY <1>1, <1>2, NextChannel, SnapStays, TornStays DEF StreamTypes
<1>4. Subscribed \in Subscriber(TopicMessage) /\ Len(Subscribed.queue) = 0 /\ Subscribed.listening
  BY DEF Subscribed, Subscriber
<1>5. StreamTypeOK'
  BY <1>1, <1>2, <1>4 DEF StreamInv, StreamTypeOK, StreamTypes
<1>6. QueueInv'
  BY <1>1, <1>2, <1>4 DEF QueueInv, QueueIsTheEnd
<1>7. \A w \in Req : Behind(w) => Behind(w)'
  BY <1>1 DEF Behind
<1>8. NodeFollows'
  BY <1>1, <1>7, NodeStays
<1> QED
  BY <1>3, <1>5, <1>6, <1>8 DEF StreamInv

(* The state is read: nothing on the bus is newer.                         *)
LEMMA ReadStateStream ==
  ASSUME StreamInv, ReadState
  PROVE  StreamInv'
<1>1. /\ link = "subscribed" /\ link' = "stated"
      /\ snap' = [version |-> row.version, state |-> row.state]
      /\ UNCHANGED <<vars, bus, sub, heard, overran, torn, node, verifies>> /\ ChannelNext
      /\ row' = row /\ landed' = landed /\ job' = job
  BY QuietChannel DEF ReadState, vars, store
<1>2. snap'.version = row.version /\ snap'.state = row.state
  BY <1>1
<1>3. /\ StreamTypes /\ DOMAIN bus = 1..Len(bus) /\ Len(bus) \in Nat /\ row.version \in Nat
      /\ \A n \in DOMAIN bus : bus[n].version \in Nat /\ ~(bus[n].version > row.version)
      /\ node.applied \in Nat /\ node.applied <= row.version
  BY StreamFacts, OnTheBus DEF StreamTypes, StreamInv, NodeFollows
<1>4. ChannelInv' /\ OnlyTornIsRefused'
  BY <1>1, NextChannel, TornStays DEF StreamInv
<1>5. SnapIsTheRow'
  <2>1. /\ WrittenBy(landed', job', snap'.state, snap'.version)
        /\ \A k \in Key \ OneShot, w \in Req :
             LastWriter(landed', job', k, snap'.version, w) => snap'.state[k] = w
    BY <1>1, <1>2, <1>3, RowFacts DEF StreamTypes
  <2> QED
    BY <1>1, <1>2, <1>3, <2>1 DEF SnapIsTheRow
<1>6. StreamTypeOK'
  <2>1. snap' \in [version: Nat, state: Held]
    BY <1>1, <1>3 DEF StreamTypes, ChannelInv, IInv, TypeOK, Row, Held
  <2> QED
    BY <1>1, <1>3, <2>1 DEF StreamTypes, StreamTypeOK
<1>7. QueueInv'
  <2> overran' \subseteq DOMAIN bus'
    BY <1>1 DEF StreamInv, QueueInv
  <2>1. CASE sub.listening
    <3>1. QueueIsTheEnd
      BY <1>1, <2>1 DEF StreamInv, QueueInv
    <3>2. \A n \in 1..Len(bus) - Len(sub.queue) : n \in DOMAIN bus
      BY <1>3, <3>1 DEF StreamTypes
    <3>3. QueueIsTheEnd'
      BY <1>1, <1>2, <1>3, <3>1, <3>2 DEF QueueIsTheEnd
    <3> QED
      BY <1>1, <2>1, <3>3 DEF QueueInv
  <2>2. CASE ~sub.listening
    <3>1. PICK j \in DOMAIN bus : DroppedAt(j)
      BY <1>1, <2>2 DEF StreamInv, QueueInv
    <3>2. j \in 1..Len(bus) /\ Len(sub.queue) \in Nat
      BY <1>3, <3>1 DEF StreamTypes
    <3>3. \A n \in 1..j - Len(sub.queue) : n \in DOMAIN bus
      BY <1>3, <3>2
    <3>4. DroppedAt(j)'
      BY <1>1, <1>2, <1>3, <3>1, <3>3 DEF DroppedAt
    <3> QED
      BY <1>1, <2>2, <3>1, <3>4 DEF QueueInv
  <2> QED
    BY <2>1, <2>2
<1>8. \A w \in Req : Behind(w) => Behind(w)'
  BY <1>1, <1>2 DEF Behind
<1>9. NodeFollows'
  BY <1>1, <1>8, NodeStays
<1> QED
  BY <1>4, <1>5, <1>6, <1>7, <1>9 DEF StreamInv

(* What the adapter makes of a snapshot.                                   *)
LEMMA SnapshotFacts ==
  ASSUME StreamInv, link = "stated", node' = TakeSnapshot(snap, row.by)
  PROVE  \/ /\ verifies /\ ~Vouched(snap, row.by) /\ node' = [node EXCEPT !.refused = TRUE]
         \/ /\ snap.version > node.applied /\ node'.applied = snap.version /\ ~node'.refused
            /\ ~verifies => node'.holds = snap.state
            /\ node' \in [applied: Nat, holds: Held, given: SUBSET Req, refused: BOOLEAN]
         \/ ~(snap.version > node.applied) /\ node' = [node EXCEPT !.refused = FALSE]
<1>1. /\ snap.version \in Nat /\ snap.state \in Held /\ node.given \subseteq Req
      /\ \A k \in Key : row.by[k].sig \in Req \cup {None}
  BY DEF StreamInv, StreamTypeOK, ChannelInv, IInv, TypeOK, Row, Command
<1>2. CASE verifies /\ ~Vouched(snap, row.by)
  BY <1>2 DEF TakeSnapshot
<1>3. CASE ~(verifies /\ ~Vouched(snap, row.by)) /\ ~(snap.version > node.applied)
  BY <1>3 DEF TakeSnapshot
<1>4. CASE ~(verifies /\ ~Vouched(snap, row.by)) /\ snap.version > node.applied
  <2> DEFINE h == IF verifies THEN [k \in Key |-> row.by[k].sig] ELSE snap.state
  <2>1. node' = Take(snap.version, h)
    BY <1>4 DEF TakeSnapshot
  <2>2. h \in Held /\ (~verifies => h = snap.state)
    BY <1>1 DEF Held
  <2> HIDE DEF h
  <2>3. node.given \cup ({h[k] : k \in Key} \ {None}) \in SUBSET Req
    BY <1>1, <2>2 DEF Held
  <2> QED
    BY <1>1, <1>4, <2>1, <2>2, <2>3 DEF Take
<1> QED
  BY <1>2, <1>3, <1>4

(* A snapshot whose two reads saw one version is refused only when it      *)
(* holds a value whose write was not signed.                               *)
LEMMA WholeIsVouched ==
  ASSUME StreamInv, link = "stated", snap.version = row.version, ~Vouched(snap, row.by)
  PROVE  ~AllWereSigned
<1>1. snap.state = row.state /\ ChannelInv
  BY DEF StreamInv, SnapIsTheRow
<1>2. PICK k \in Key : row.state[k] # None /\ row.by[k] = NoCommand
  BY <1>1 DEF Vouched
<1>3. ~job[row.state[k]].signed
  BY <1>1, <1>2 DEF NoCommand, ChannelInv, IInv, CommandsVouch
<1>4. PICK i \in DOMAIN log : row.state[k] = log[i].val
  BY <1>1, <1>2 DEF ChannelInv, IInv, NoLostUpdate
<1>5. log[i].val = log[i].req
  BY <1>1, <1>2, <1>4 DEF ChannelInv, LogIsOfJobs, Written
<1> QED
  BY <1>2, <1>3, <1>4, <1>5 DEF AllWereSigned

(* The snapshot is yielded: the node has it, or had more already.          *)
LEMMA YieldSnapshotStream ==
  ASSUME StreamInv, YieldSnapshot
  PROVE  StreamInv'
<1>1. /\ link = "stated" /\ link' = "open" /\ node' = TakeSnapshot(snap, row.by)
      /\ torn' = (node'.refused /\ row.version # snap.version)
      /\ UNCHANGED <<vars, bus, sub, snap, heard, overran, verifies>> /\ ChannelNext
      /\ row' = row /\ landed' = landed /\ job' = job /\ log' = log
  BY QuietChannel DEF YieldSnapshot, vars, store
<1>2. /\ StreamTypes /\ snap.version \in Nat /\ node.applied \in Nat /\ row.version \in Nat
      /\ SnapIsTheRow /\ snap.version <= row.version /\ NodeFollows /\ landed \in [Req -> Nat]
  BY StreamFacts DEF StreamTypes, StreamInv, SnapIsTheRow, ChannelInv, IInv, TypeOK
<1>3. ChannelInv' /\ SnapIsTheRow'
  BY <1>1, NextChannel, SnapStays DEF StreamInv
<1>4. QueueInv'
  BY <1>1 DEF StreamInv, QueueInv, QueueIsTheEnd, DroppedAt
<1>5. node \in [applied: Nat, holds: Held, given: SUBSET Req, refused: BOOLEAN]
  BY DEF StreamInv, StreamTypeOK
<1>6. CASE verifies /\ ~Vouched(snap, row.by) /\ node' = [node EXCEPT !.refused = TRUE]
  <2>1. /\ node'.applied = node.applied
        /\ node' \in [applied: Nat, holds: Held, given: SUBSET Req, refused: BOOLEAN]
    BY <1>5, <1>6
  <2>2. StreamTypeOK'
    BY <1>1, <1>2, <2>1 DEF StreamTypes, StreamTypeOK
  <2>3. NodeFollows'
    BY <1>1, <1>2, <1>6, <2>1 DEF NodeFollows
  <2>4. OnlyTornIsRefused'
    <3>1. row.version # snap.version => torn'
      BY <1>1, <1>5, <1>6
    <3>2. AllWereSigned' <=> AllWereSigned
      BY <1>1 DEF AllWereSigned
    <3> QED
      BY <1>1, <1>6, <3>1, <3>2, WholeIsVouched DEF OnlyTornIsRefused
  <2> QED
    BY <1>3, <1>4, <2>2, <2>3, <2>4 DEF StreamInv
<1>7. CASE /\ snap.version > node.applied /\ node'.applied = snap.version /\ ~node'.refused
           /\ ~verifies => node'.holds = snap.state
           /\ node' \in [applied: Nat, holds: Held, given: SUBSET Req, refused: BOOLEAN]
  <2>1. StreamTypeOK'
    BY <1>1, <1>2, <1>7 DEF StreamTypes, StreamTypeOK
  <2>2. OnlyTornIsRefused'
    BY <1>7 DEF OnlyTornIsRefused
  <2>3. \A r \in heard : ~verifies => landed[r] <= snap.version
    BY <1>2, <1>7 DEF StreamTypes, NodeFollows
  <2>4. ~verifies =>
          /\ WrittenBy(landed', job', node'.holds, node'.applied)
          /\ \A k \in Key \ OneShot, w \in Req :
               LastWriter(landed', job', k, node'.applied, w) => node'.holds[k] = w
    BY <1>1, <1>2, <1>7 DEF SnapIsTheRow
  <2>5. NodeFollows'
    BY <1>1, <1>2, <1>7, <2>3, <2>4 DEF NodeFollows
  <2> QED
    BY <1>3, <1>4, <2>1, <2>2, <2>5 DEF StreamInv
<1>8. CASE ~(snap.version > node.applied) /\ node' = [node EXCEPT !.refused = FALSE]
  <2>1. /\ node'.applied = node.applied /\ node'.holds = node.holds /\ ~node'.refused
        /\ node' \in [applied: Nat, holds: Held, given: SUBSET Req, refused: BOOLEAN]
    BY <1>5, <1>8
  <2>2. StreamTypeOK'
    BY <1>1, <1>2, <2>1 DEF StreamTypes, StreamTypeOK
  <2>3. OnlyTornIsRefused'
    BY <2>1 DEF OnlyTornIsRefused
  <2>4. \A w \in Req : ~Behind(w)
    BY <1>1, <1>8 DEF Behind
  <2>5. \A w \in Req : (Passed(w) => Passed(w)') /\ (GivenUp(w) => GivenUp(w)')
    BY <1>1 DEF Passed, GivenUp
  <2>6. ~verifies =>
          /\ snap'.version <= node'.applied
          /\ WrittenBy(landed', job', node'.holds, node'.applied)
          /\ \A k \in Key \ OneShot, w \in Req : LastWriter(landed', job', k, node'.applied, w) =>
               node'.holds[k] = w \/ Passed(w)' \/ GivenUp(w)' \/ Behind(w)'
    BY <1>1, <1>2, <1>8, <2>1, <2>4, <2>5 DEF NodeFollows
  <2>7. NodeFollows'
    BY <1>1, <1>2, <2>1, <2>6 DEF NodeFollows
  <2> QED
    BY <1>3, <1>4, <2>2, <2>3, <2>7 DEF StreamInv
<1> QED
  BY <1>1, <1>6, <1>7, <1>8, SnapshotFacts

(* The message at the head of the queue, and what was published before it. *)
HeadIs(i) ==
  /\ i \in DOMAIN bus /\ Head(sub.queue) = bus[i]
  /\ sub.listening =>
       /\ i = Len(bus) - Len(sub.queue) + 1
       /\ \A n \in DOMAIN bus : n < i /\ bus[n].version > snap.version => bus[n].req \in heard
  /\ ~sub.listening =>
       \A j \in DOMAIN bus : DroppedAt(j) =>
         /\ i = j - Len(sub.queue) + 1 /\ i < j /\ i < j - QueueCap + QueueCap
         /\ j - QueueCap \in DOMAIN bus /\ j - QueueCap < i
         /\ \A n \in DOMAIN bus : n < i /\ bus[n].version > snap.version =>
              bus[n].req \in heard \/ n = j - QueueCap

(* Positions in a queue that is a stretch of the bus.                      *)
LEMMA QueueArith ==
  ASSUME NEW l \in Nat, NEW b \in Nat
  PROVE  /\ \A n \in 1..b : n < b - l + 1 => n \in 1..b - l
         /\ \A q \in 1..l - 1 : q + 1 \in 1..l /\ b - l + (q + 1) = b - (l - 1) + q
  OBVIOUS

(* Likewise before the delta the stream was dropped for.                   *)
LEMMA DroppedArith ==
  ASSUME NEW l \in Nat, NEW b \in Nat, NEW c \in Nat, NEW j \in 1..b, l \in 1..c, l # 1, c < j
  PROVE  /\ 1 \in 1..l - 1 /\ j - l + 1 \in 1..b /\ j - l + 1 < j /\ j - l + 1 < j - c + c
         /\ j - c \in 1..b /\ j - c < j - l + 1
         /\ \A n \in 1..b : n < j - l + 1 => n \in 1..j - l
         /\ l - 1 \in 1..c /\ l - 1 \in 1..l - 1 /\ (l - 1) + 1 = l /\ j - (l - 1) = j - l + 1
         /\ \A q \in 1..(l - 1) - 1 :
              q \in 1..l - 1 /\ q + 1 \in 1..l - 1 /\ j - l + (q + 1) = j - (l - 1) + q
  OBVIOUS

(* A message at the head of the queue is on the bus.                       *)
LEMMA HeadOfQueue ==
  ASSUME StreamInv, link = "open", sub.queue # <<>>, Head(sub.queue) # Overflow
  PROVE  \E i \in DOMAIN bus : HeadIs(i)
<1>1. /\ StreamTypes /\ DOMAIN bus = 1..Len(bus) /\ Len(bus) \in Nat
  BY StreamFacts, OnTheBus DEF StreamTypes
<1> PICK L \in Nat, B \in Nat : L = Len(sub.queue) /\ B = Len(bus)
  BY <1>1 DEF StreamTypes
<1>2. L >= 1 /\ Head(sub.queue) = sub.queue[1] /\ QueueCap \in Nat /\ QueueCap >= 1
  BY <1>1, TailLemma DEF StreamTypes
<1>3. CASE sub.listening
  <2>1. QueueIsTheEnd
    BY <1>3 DEF StreamInv, QueueInv
  <2>2. B - L + 1 \in 1..B /\ 1 \in 1..L
    BY <1>2, <2>1 DEF QueueIsTheEnd
  <2>3. Head(sub.queue) = bus[B - L + 1]
    BY <1>2, <2>1, <2>2 DEF QueueIsTheEnd
  <2>4. \A n \in 1..B : n < B - L + 1 => n \in 1..B - L
    BY QueueArith
  <2>5. \A n \in DOMAIN bus : n < B - L + 1 /\ bus[n].version > snap.version => bus[n].req \in heard
    BY <1>1, <2>1, <2>4 DEF QueueIsTheEnd
  <2>6. HeadIs(B - L + 1)
    BY <1>1, <1>3, <2>2, <2>3, <2>5 DEF HeadIs
  <2> QED
    BY <1>1, <2>2, <2>6
<1>4. ASSUME NEW j \in DOMAIN bus, DroppedAt(j)
      PROVE  /\ j - L + 1 \in DOMAIN bus /\ Head(sub.queue) = bus[j - L + 1]
             /\ j - L + 1 < j /\ j - L + 1 < j - QueueCap + QueueCap
             /\ j - QueueCap \in DOMAIN bus /\ j - QueueCap < j - L + 1
             /\ \A n \in DOMAIN bus : n < j - L + 1 /\ bus[n].version > snap.version =>
                  bus[n].req \in heard \/ n = j - QueueCap
  <2>1. /\ j \in 1..B /\ L \in 1..QueueCap /\ QueueCap < j /\ sub.queue[L] = Overflow
        /\ \A q \in 1..L - 1 : sub.queue[q] = bus[j - L + q]
        /\ \A n \in 1..j - L : bus[n].version > snap.version => bus[n].req \in heard \/ n = j - QueueCap
    BY <1>1, <1>4 DEF DroppedAt
  <2>2. L # 1
    BY <1>2, <2>1
  <2>3. /\ 1 \in 1..L - 1 /\ j - L + 1 \in 1..B /\ j - L + 1 < j /\ j - L + 1 < j - QueueCap + QueueCap
        /\ j - QueueCap \in 1..B /\ j - QueueCap < j - L + 1
        /\ \A n \in 1..B : n < j - L + 1 => n \in 1..j - L
    BY <1>2, <2>1, <2>2, DroppedArith
  <2> QED
    BY <1>1, <1>2, <2>1, <2>3
<1>5. CASE ~sub.listening
  <2>1. PICK j \in DOMAIN bus : DroppedAt(j)
    BY <1>5 DEF StreamInv, QueueInv
  <2>2. PICK i \in DOMAIN bus : i = j - L + 1 /\ Head(sub.queue) = bus[i]
    BY <1>4, <2>1
  <2>3. ASSUME NEW g \in DOMAIN bus, DroppedAt(g) PROVE i = g - L + 1
    <3>1. j <= g /\ g <= j /\ j \in Nat /\ g \in Nat
      BY <1>1, <2>1, <2>3 DEF DroppedAt
    <3>2. j = g
      BY <3>1
    <3> QED
      BY <2>2, <3>2
  <2>4. HeadIs(i)
    BY <1>4, <1>5, <2>2, <2>3 DEF HeadIs
  <2> QED
    BY <2>4
<1> QED
  BY <1>3, <1>5

(* The queue without its head is still the end of the bus, or what came    *)
(* before the delta that was dropped.                                      *)
LEMMA TailOfQueue ==
  ASSUME StreamInv, link = "open", sub.queue # <<>>, Head(sub.queue) # Overflow,
         UNCHANGED <<link, bus, snap, overran>>, sub' = [sub EXCEPT !.queue = Tail(@)],
         heard' = heard \cup ({Head(sub.queue).req} \ {None})
  PROVE  /\ sub' \in Subscriber(TopicMessage) /\ Len(sub'.queue) <= QueueCap
         /\ sub'.listening = sub.listening
         /\ QueueInv'
         /\ ~sub.listening => \A j \in DOMAIN bus : DroppedAt(j) => DroppedAt(j)'
<1>1. /\ StreamTypes /\ DOMAIN bus = 1..Len(bus) /\ Len(bus) \in Nat
      /\ overran \subseteq DOMAIN bus
      /\ \A n \in DOMAIN bus : bus[n].version > snap.version => bus[n].req # None
  <2>1. \A n \in DOMAIN bus : bus[n].version > snap.version => bus[n].version > 0
    BY StreamFacts, OnTheBus DEF StreamTypes
  <2> QED
    BY <2>1, StreamFacts, OnTheBus, NoneAssumption DEF StreamTypes, StreamInv, QueueInv
<1> PICK L \in Nat, B \in Nat : L = Len(sub.queue) /\ B = Len(bus)
  BY <1>1 DEF StreamTypes
<1>2. /\ L >= 1 /\ sub.queue[1] = Head(sub.queue) /\ L <= QueueCap
      /\ Tail(sub.queue) \in Seq(TopicMessage \cup {Overflow}) /\ Len(Tail(sub.queue)) = L - 1
      /\ \A q \in 1..L - 1 : Tail(sub.queue)[q] = sub.queue[q + 1]
  BY <1>1, TailLemma DEF StreamTypes
<1>3. /\ sub'.queue = Tail(sub.queue) /\ sub'.listening = sub.listening
      /\ sub' \in Subscriber(TopicMessage)
  BY <1>1, <1>2 DEF StreamTypes, Subscriber
<1>4. Len(sub'.queue) = L - 1 /\ L - 1 <= QueueCap /\ L - 1 \in Nat
  BY <1>1, <1>2, <1>3 DEF StreamTypes
<1>5. PICK i \in DOMAIN bus : HeadIs(i)
  BY HeadOfQueue
<1>6. CASE sub.listening
  <2>1. QueueIsTheEnd
    BY <1>6 DEF StreamInv, QueueInv
  <2>2. L <= B /\ L - 1 <= B /\ i = B - L + 1 /\ B - (L - 1) = i
    BY <1>2, <1>5, <1>6, <2>1 DEF QueueIsTheEnd, HeadIs
  <2>3. ASSUME NEW q \in 1..L - 1 PROVE sub'.queue[q] = bus'[B - (L - 1) + q]
    <3>1. q + 1 \in 1..L /\ B - L + (q + 1) = B - (L - 1) + q
      BY QueueArith
    <3>2. sub'.queue[q] = sub.queue[q + 1]
      BY <1>2, <1>3
    <3>3. sub.queue[q + 1] = bus[B - L + (q + 1)]
      BY <2>1, <3>1 DEF QueueIsTheEnd
    <3>4. bus' = bus
      OBVIOUS
    <3> QED
      BY ONLY <3>1, <3>2, <3>3, <3>4
  <2>4. \A n \in 1..i : n \in DOMAIN bus /\ (n = i \/ n < i)
    BY <1>1, <1>5
  <2>5. \A n \in 1..i : bus[n].version > snap.version => bus[n].req \in heard'
    BY <1>1, <1>5, <1>6, <2>4 DEF HeadIs
  <2>6. QueueIsTheEnd'
    BY <1>4, <2>2, <2>3, <2>5 DEF QueueIsTheEnd
  <2> QED
    BY <1>1, <1>3, <1>4, <1>6, <2>6 DEF QueueInv
<1>7. ASSUME NEW j \in DOMAIN bus, DroppedAt(j), ~sub.listening PROVE DroppedAt(j)'
  <2>1. /\ j \in 1..B /\ L \in 1..QueueCap /\ QueueCap < j /\ sub.queue[L] = Overflow
        /\ \A q \in 1..L - 1 : sub.queue[q] = bus[j - L + q]
    BY <1>1, <1>7 DEF DroppedAt
  <2>2. L # 1 /\ i = j - L + 1
    BY <1>2, <1>5, <1>7, <2>1 DEF HeadIs
  <2> QueueCap \in Nat
    BY <1>1 DEF StreamTypes
  <2>3. /\ L - 1 \in 1..QueueCap /\ L - 1 \in 1..L - 1 /\ (L - 1) + 1 = L /\ j - (L - 1) = i
        /\ \A q \in 1..(L - 1) - 1 :
             q \in 1..L - 1 /\ q + 1 \in 1..L - 1 /\ j - L + (q + 1) = j - (L - 1) + q
    <3>1. /\ L - 1 \in 1..QueueCap /\ L - 1 \in 1..L - 1 /\ (L - 1) + 1 = L
          /\ j - (L - 1) = j - L + 1
          /\ \A q \in 1..(L - 1) - 1 :
               q \in 1..L - 1 /\ q + 1 \in 1..L - 1 /\ j - L + (q + 1) = j - (L - 1) + q
      BY ONLY L \in Nat, B \in Nat, QueueCap \in Nat, <2>1, <2>2, DroppedArith
    <3> QED
      BY <2>2, <3>1
  <2>4. sub'.queue[L - 1] = Overflow
    BY <1>2, <1>3, <2>1, <2>3
  <2>5. ASSUME NEW q \in 1..(L - 1) - 1 PROVE sub'.queue[q] = bus'[j - (L - 1) + q]
    <3>1. q \in 1..L - 1 /\ q + 1 \in 1..L - 1 /\ j - L + (q + 1) = j - (L - 1) + q
      BY <2>3
    <3>2. sub'.queue[q] = sub.queue[q + 1]
      BY <1>2, <1>3, <3>1
    <3>3. sub.queue[q + 1] = bus[j - L + (q + 1)]
      BY <2>1, <3>1
    <3>4. bus' = bus
      OBVIOUS
    <3> QED
      BY ONLY <3>1, <3>2, <3>3, <3>4
  <2>6. \A n \in 1..i : n \in DOMAIN bus /\ (n = i \/ n < i)
    BY <1>1, <1>5
  <2>7. \A n \in 1..i : bus[n].version > snap.version => bus[n].req \in heard' \/ n = j - QueueCap
    BY <1>1, <1>5, <1>7, <2>6 DEF HeadIs
  <2> QED
    BY <1>4, <1>7, <2>1, <2>3, <2>4, <2>5, <2>7 DEF DroppedAt
<1>8. CASE ~sub.listening
  <2>1. PICK j \in DOMAIN bus : DroppedAt(j)
    BY <1>8 DEF StreamInv, QueueInv
  <2>2. DroppedAt(j)'
    BY <1>7, <1>8, <2>1
  <2>3. QueueInv'
    BY <1>1, <1>3, <1>8, <2>1, <2>2 DEF QueueInv
  <2> QED
    BY <1>3, <1>4, <1>7, <2>3
<1> QED
  BY <1>6, <1>8

(* A delta the node takes: the writes it stepped over were heard of        *)
(* before, are still to be published, or were given up with the queue.     *)
LEMMA SteppedOver ==
  ASSUME StreamInv, link = "open", NEW i \in DOMAIN bus, HeadIs(i), ~verifies,
         bus[i].version > node.applied,
         NEW w \in Req, landed[w] > node.applied, landed[w] < bus[i].version
  PROVE  \/ Passed(w) \/ GivenUp(w)
         \/ /\ ~sub.listening
            /\ \E j \in DOMAIN bus : /\ DroppedAt(j) /\ bus[j].version > bus[i].version
                                     /\ bus[j - QueueCap].req = w
<1>1. /\ StreamTypes /\ DOMAIN bus = 1..Len(bus) /\ Len(bus) \in Nat /\ node.applied \in Nat
      /\ \A n \in DOMAIN bus : bus[n].version \in Nat
      /\ \A n \in DOMAIN bus : bus[n].req \in Req => bus[n].version = landed[bus[n].req]
      /\ \A n \in DOMAIN bus : bus[i].version = bus[n].version => i = n
      /\ landed[w] \in Nat /\ snap.version \in Nat
  <2>1. /\ StreamTypes /\ node.applied \in Nat /\ ChannelInv /\ snap.version \in Nat
        /\ landed[w] \in Nat /\ row.version \in Nat
    BY StreamFacts DEF StreamTypes, ChannelInv, IInv, TypeOK
  <2>2. \A n \in DOMAIN bus : bus[n].version \in Nat
    BY <2>1, OnTheBus
  <2>3. bus[i].version > 0
    BY <2>1, <2>2
  <2> QED
    BY <2>1, <2>2, <2>3, OnTheBus
<1>2. snap.version <= node.applied /\ \A r \in heard : landed[r] <= node.applied
  BY DEF StreamInv, NodeFollows
<1>3. CASE \A n \in DOMAIN bus : bus[n].req = w => i < n
  BY <1>3 DEF Passed
<1>4. ASSUME NEW n \in DOMAIN bus, bus[n].req = w, ~(i < n)
      PROVE  \/ GivenUp(w)
             \/ /\ ~sub.listening
                /\ \E j \in DOMAIN bus : /\ DroppedAt(j) /\ bus[j].version > bus[i].version
                                         /\ bus[j - QueueCap].req = w
  <2>1. /\ bus[n].version = landed[w] /\ n # i /\ n < i
        /\ bus[n].version > snap.version /\ w \notin heard
    <3>1. bus[n].version = landed[w] /\ n # i
      BY <1>1, <1>4
    <3>2. n < i
      BY <1>1, <1>4, <3>1
    <3>3. landed[w] > snap.version /\ w \notin heard
      BY <1>1, <1>2
    <3> QED
      BY <3>1, <3>2, <3>3
  <2>2. ~sub.listening
    BY <1>4, <2>1 DEF HeadIs
  <2>3. PICK j \in DOMAIN bus : DroppedAt(j)
    BY <2>2 DEF StreamInv, QueueInv
  <2>4. n = j - QueueCap /\ i < j /\ i < j - QueueCap + QueueCap
    BY <1>4, <2>1, <2>2, <2>3 DEF HeadIs
  <2>5. CASE bus[j].version > bus[i].version
    BY <1>4, <2>2, <2>3, <2>4, <2>5
  <2>6. CASE ~(bus[j].version > bus[i].version)
    <3>1. j # i /\ bus[j].version # bus[i].version
      BY <1>1, <2>4
    <3>2. bus[j].version < bus[i].version
      BY <1>1, <2>6, <3>1
    <3>3. n + QueueCap = j
      BY <1>1, <2>4 DEF StreamTypes
    <3> QED
      BY <1>4, <2>1, <2>3, <2>4, <3>2, <3>3 DEF GivenUp, DroppedAt
  <2> QED
    BY <2>5, <2>6
<1> QED
  BY <1>3, <1>4

(* A delta is yielded and the node takes it, or knows better.              *)
LEMMA YieldDeltaStream ==
  ASSUME StreamInv, YieldDelta
  PROVE  StreamInv'
<1>1. /\ link = "open" /\ sub.queue # <<>>
      /\ UNCHANGED <<vars, bus, overran, torn, verifies>> /\ ChannelNext
      /\ row' = row /\ landed' = landed /\ job' = job
  BY QuietChannel DEF YieldDelta, vars, store
<1>2. CASE Head(sub.queue) = Overflow
  BY <1>1, <1>2, LinkDown DEF YieldDelta
<1>3. CASE Head(sub.queue) # Overflow
  <2>1. /\ sub' = [sub EXCEPT !.queue = Tail(@)]
        /\ heard' = heard \cup ({Head(sub.queue).req} \ {None})
        /\ node' = TakeDelta(Head(sub.queue)) /\ link' = link /\ snap' = snap
    BY <1>3 DEF YieldDelta
  <2>2. /\ sub' \in Subscriber(TopicMessage) /\ Len(sub'.queue) <= QueueCap
        /\ sub'.listening = sub.listening /\ QueueInv'
        /\ ~sub.listening => \A j \in DOMAIN bus : DroppedAt(j) => DroppedAt(j)'
    BY <1>1, <1>3, <2>1, TailOfQueue
  <2>3. PICK i \in DOMAIN bus : HeadIs(i)
    BY <1>1, <1>3, HeadOfQueue
  <2> PICK m \in TopicMessage : m = bus[i]
    BY OnTheBus DEF StreamInv
  <2>4. /\ Head(sub.queue) = m /\ m.version \in Nat /\ m.version <= row.version /\ row.version \in Nat
        /\ m.version > 0 \/ m.req \in Req =>
             m.req \in Req /\ landed[m.req] = m.version /\ m.version >= 1
        /\ m.req \in Req \/ m.req = None
    BY <2>3, StreamFacts, OnTheBus DEF HeadIs, StreamInv, TopicMessage, StreamTypes
  <2>5. /\ StreamTypes /\ node.applied \in Nat /\ node.holds \in Held /\ snap.version \in Nat
        /\ NodeFollows /\ landed \in [Req -> Nat] /\ node.applied <= row.version
        /\ \A x, y \in Req : landed[x] > 0 /\ landed[x] = landed[y] => x = y
        /\ node \in [applied: Nat, holds: Held, given: SUBSET Req, refused: BOOLEAN]
    <3>1. ChannelInv /\ NodeFollows /\ node.applied <= row.version /\ StreamTypeOK
      BY DEF StreamInv, NodeFollows
    <3>2. /\ landed \in [Req -> Nat]
          /\ \A x, y \in Req : landed[x] > 0 /\ landed[x] = landed[y] => x = y
      BY <3>1 DEF ChannelInv, IInv, TypeOK, LandedIsLogged
    <3>3. node \in [applied: Nat, holds: Held, given: SUBSET Req, refused: BOOLEAN]
      BY <3>1 DEF StreamTypeOK
    <3> QED
      BY <3>1, <3>2, <3>3, StreamFacts DEF StreamTypes
  <2>6. ChannelInv' /\ SnapIsTheRow'
    BY <1>1, <2>1, NextChannel, SnapStays DEF StreamInv
  <2>7. /\ \A r \in heard' : r \in heard \/ (r \in Req /\ r = m.req)
        /\ \A r \in heard' : landed'[r] > 0 /\ r \in Req
    BY <1>1, <2>1, <2>4, <2>5 DEF NodeFollows, StreamTypes
  <2>8. \A w \in Req : (Passed(w) => Passed(w)') /\ (GivenUp(w) => GivenUp(w)')
    BY <1>1 DEF Passed, GivenUp
  <2>9. CASE ~(m.version > node.applied /\ (verifies => job[m.req].signed))
    <3>1. node' = node
      BY <2>1, <2>4, <2>9 DEF TakeDelta
    <3>2. StreamTypeOK'
      BY <1>1, <2>1, <2>2, <2>4, <2>5, <2>7, <3>1 DEF StreamInv, StreamTypeOK
    <3>3. OnlyTornIsRefused'
      BY <1>1, <3>1, TornStays
    <3>4. ASSUME NEW w \in Req, Behind(w) PROVE Behind(w)'
      BY <1>1, <2>1, <2>2, <3>1, <3>4 DEF Behind
    <3>5. ~verifies => m.version <= node.applied
      BY <2>4, <2>5, <2>9
    <3>6. ~verifies =>
            /\ link' = "open" => snap'.version <= node'.applied
            /\ \A r \in heard' : landed'[r] <= node'.applied
            /\ WrittenBy(landed', job', node'.holds, node'.applied)
            /\ \A k \in Key \ OneShot, w \in Req : LastWriter(landed', job', k, node'.applied, w) =>
                 node'.holds[k] = w \/ Passed(w)' \/ GivenUp(w)' \/ Behind(w)'
      BY <1>1, <2>1, <2>4, <2>5, <2>7, <2>8, <3>1, <3>4, <3>5 DEF NodeFollows
    <3>7. NodeFollows'
      BY <1>1, <2>5, <2>7, <3>1, <3>6 DEF NodeFollows
    <3> QED
      BY <2>2, <2>6, <3>2, <3>3, <3>7 DEF StreamInv
  <2>10. CASE m.version > node.applied /\ (verifies => job[m.req].signed)
    <3> m.req \in Req /\ landed[m.req] = m.version /\ m.version >= 1
      BY <2>4, <2>5, <2>10
    <3> DEFINE h == [k \in Key |-> IF k \in job[m.req].keys THEN m.req ELSE node.holds[k]]
    <3>1. node' = Take(m.version, h)
      BY <2>1, <2>4, <2>10 DEF TakeDelta
    <3>2. h \in Held
      BY <2>4, <2>5 DEF Held
    <3>3. \A k \in Key : h[k] = IF k \in job[m.req].keys THEN m.req ELSE node.holds[k]
      OBVIOUS
    <3> HIDE DEF h
    <3>4. node.given \cup ({h[k] : k \in Key} \ {None}) \in SUBSET Req
      BY <2>5, <3>2 DEF Held
    <3>5. /\ node'.applied = m.version /\ node'.holds = h /\ ~node'.refused
          /\ node' \in [applied: Nat, holds: Held, given: SUBSET Req, refused: BOOLEAN]
      BY <2>4, <3>1, <3>2, <3>4 DEF Take
    <3>6. StreamTypeOK'
      BY <1>1, <2>1, <2>2, <2>4, <2>5, <2>7, <3>5 DEF StreamInv, StreamTypeOK
    <3>7. OnlyTornIsRefused'
      BY <3>5 DEF OnlyTornIsRefused
    <3>8. ASSUME ~verifies
          PROVE  /\ snap'.version <= node'.applied
                 /\ \A r \in heard' : landed'[r] <= node'.applied
      <4>1. snap.version <= node.applied /\ \A r \in heard : landed[r] <= node.applied
        BY <1>1, <3>8, <2>5 DEF NodeFollows
      <4>2. \A r \in heard : r \in Req
        BY <2>5 DEF StreamTypes
      <4> QED
        BY <1>1, <2>1, <2>4, <2>5, <2>7, <2>10, <3>5, <4>1, <4>2
    <3>9. ASSUME ~verifies
          PROVE  WrittenBy(landed', job', node'.holds, node'.applied)
      <4>1. \A k \in Key : node.holds[k] # None =>
              landed[node.holds[k]] \in 1..node.applied /\ k \in job[node.holds[k]].keys
        BY <2>5, <3>9 DEF NodeFollows, WrittenBy
      <4>2. \A v \in 1..node.applied : v \in 1..m.version
        BY <2>4, <2>5, <2>10
      <4>3. m.version \in 1..m.version
        BY <2>4
      <4>4. \A k \in Key : h[k] # None =>
              landed[h[k]] \in 1..m.version /\ k \in job[h[k]].keys
        BY <2>4, <3>3, <4>1, <4>2, <4>3
      <4> QED
        BY <1>1, <3>5, <4>4 DEF WrittenBy
    <3>10. ASSUME ~verifies, NEW k \in Key \ OneShot, NEW w \in Req,
                  LastWriter(landed, job, k, m.version, w)
           PROVE  h[k] = w \/ Passed(w)' \/ GivenUp(w)' \/ Behind(w)'
      <4>1. landed[w] \in 1..m.version /\ k \in job[w].keys
            /\ \A x \in Req : landed[x] \in 1..m.version /\ k \in job[x].keys => landed[x] <= landed[w]
        BY <3>10 DEF LastWriter
      <4>2. CASE landed[w] = m.version
        <5>1. w = m.req
          BY <2>4, <2>5, <4>2
        <5> QED
          BY <3>3, <4>1, <5>1
      <4>3. CASE landed[w] # m.version
        <5>1. landed[w] < m.version /\ landed[w] \in Nat
          BY <2>4, <4>1, <4>3
        <5>2. k \notin job[m.req].keys
          <6>1. landed[m.req] \in 1..m.version
            BY <2>4
          <6> QED
            BY <2>4, <4>1, <5>1, <6>1
        <5>3. h[k] = node.holds[k]
          BY <3>3, <5>2
        <5>4. CASE landed[w] <= node.applied
          <6>1. LastWriter(landed, job, k, node.applied, w)
            <7>1. landed[w] \in 1..node.applied
              BY <2>5, <4>1, <5>4
            <7>2. \A v \in 1..node.applied : v \in 1..m.version
              BY <2>4, <2>5, <2>10
            <7> QED
              BY <4>1, <7>1, <7>2 DEF LastWriter
          <6>2. node.holds[k] = w \/ Passed(w) \/ GivenUp(w) \/ Behind(w)
            BY <2>5, <3>10, <6>1 DEF NodeFollows
          <6>3. ASSUME Behind(w) PROVE GivenUp(w) \/ Behind(w)'
            <7>1. PICK j \in DOMAIN bus : /\ ~sub.listening /\ DroppedAt(j)
                                          /\ bus[j].version > node.applied /\ bus[j - QueueCap].req = w
              BY <1>1, <6>3 DEF Behind
            <7>2. /\ i < j /\ i < j - QueueCap + QueueCap /\ j - QueueCap \in DOMAIN bus /\ j - QueueCap < i
              BY <2>3, <7>1 DEF HeadIs
            <7>3. CASE bus[j].version > m.version
              BY <1>1, <2>1, <2>2, <3>5, <7>1, <7>3 DEF Behind
            <7>4. CASE ~(bus[j].version > m.version)
              <8>1. /\ bus[j].version \in Nat /\ i \in Nat /\ j \in Nat /\ QueueCap \in Nat
                    /\ bus[i].version = bus[j].version => i = j
                    /\ bus[j - QueueCap].version = landed[w]
                <9>1. bus[i].version > 0
                  BY <2>4, <2>5, <2>10
                <9>2. /\ \A n \in DOMAIN bus : bus[n].version \in Nat /\ n \in Nat
                      /\ bus[i].version = bus[j].version => i = j
                  BY <2>5, <9>1, OnTheBus DEF StreamTypes
                <9>3. bus[j - QueueCap].version = landed[w]
                  BY <2>5, <7>1, <7>2, OnTheBus DEF StreamTypes
                <9> QED
                  BY <2>5, <9>2, <9>3 DEF StreamTypes
              <8>2. bus[j].version < m.version
                BY <2>4, <7>2, <7>4, <8>1
              <8>3. (j - QueueCap) + QueueCap = j
                BY <8>1
              <8> QED
                BY <5>1, <7>1, <7>2, <8>1, <8>2, <8>3 DEF GivenUp, DroppedAt
            <7> QED
              BY <7>3, <7>4
          <6> QED
            BY <2>8, <5>3, <6>2, <6>3
        <5>5. CASE ~(landed[w] <= node.applied)
          <6>1. landed[w] > node.applied /\ bus[i].version > node.applied
            BY <2>5, <2>10, <5>1, <5>5
          <6>2. \/ Passed(w) \/ GivenUp(w)
                \/ /\ ~sub.listening
                   /\ \E j \in DOMAIN bus : /\ DroppedAt(j) /\ bus[j].version > m.version
                                            /\ bus[j - QueueCap].req = w
            BY <1>1, <2>3, <3>10, <5>1, <6>1, SteppedOver
          <6> QED
            BY <1>1, <2>1, <2>2, <2>8, <3>5, <6>2 DEF Behind
        <5> QED
          BY <5>4, <5>5
      <4> QED
        BY <4>2, <4>3
    <3>11. NodeFollows'
      BY <1>1, <2>4, <2>7, <3>5, <3>8, <3>9, <3>10 DEF NodeFollows
    <3> QED
      BY <2>2, <2>6, <3>6, <3>7, <3>11 DEF StreamInv
  <2> QED
    BY <2>9, <2>10
<1> QED
  BY <1>2, <1>3

-----------------------------------------------------------------------------
(* Nothing published and nothing subscribed: the invariant holds.          *)
LEMMA InitStream == StreamInit => StreamInv
<1> SUFFICES ASSUME StreamInit PROVE StreamInv
  OBVIOUS
<1>1. /\ Init /\ link = "down" /\ sub = Unsubscribed /\ heard = {} /\ torn = FALSE
      /\ bus = <<>> /\ overran = {} /\ snap = [version |-> 0, state |-> NoRow.state] /\ verifies \in BOOLEAN
      /\ node = [applied |-> 0, holds |-> NoRow.state, given |-> {}, refused |-> FALSE]
  BY DEF StreamInit, NoSnap
<1>2. /\ log = <<>> /\ bus = <<>> /\ row.version = 0
      /\ \A r \in Req : answer[r] = "none" /\ job[r].kind = "none" /\ landed[r] = 0
  BY <1>1 DEF Init, NoRow, NoJob
<1>3. ChannelInv
  <2>1. <<>> \in Seq(TopicMessage)
    OBVIOUS
  <2> QED
    BY <1>1, <1>2, <2>1, InitIInv DEF ChannelInv, LogIsOfJobs, BusIsPublished
<1>4. NoRow.state \in Held /\ \A k \in Key : NoRow.state[k] = None
  BY DEF NoRow, Held
<1>5. Unsubscribed \in Subscriber(TopicMessage) /\ Len(Unsubscribed.queue) = 0
  BY DEF Unsubscribed, Subscriber
<1>6. StreamTypeOK
  <2>1. [version |-> 0, state |-> NoRow.state] \in [version: Nat, state: Held]
    BY <1>4
  <2>2. [applied |-> 0, holds |-> NoRow.state, given |-> {}, refused |-> FALSE]
          \in [applied: Nat, holds: Held, given: SUBSET Req, refused: BOOLEAN]
    BY <1>4
  <2>3. Len(sub.queue) <= QueueCap
    BY <1>1, <1>5, QueueAssumption
  <2> QED
    BY <1>1, <1>3, <1>5, <2>1, <2>2, <2>3 DEF StreamTypeOK, ChannelInv, BusIsPublished
<1>7. SnapIsTheRow /\ QueueInv /\ OnlyTornIsRefused
  BY <1>1, <1>2 DEF SnapIsTheRow, QueueInv, OnlyTornIsRefused
<1>8. NodeFollows
  BY <1>1, <1>2, <1>4 DEF NodeFollows, WrittenBy, LastWriter
<1> QED
  BY <1>3, <1>6, <1>7, <1>8 DEF StreamInv

(* Every step of the channel keeps the invariant.                          *)
LEMMA NextStream == StreamInv /\ [StreamNext]_allVars => StreamInv'
<1> SUFFICES ASSUME StreamInv, [StreamNext]_allVars PROVE StreamInv'
  OBVIOUS
<1>1. CASE UNCHANGED allVars
  BY <1>1, HandlersStream, QuietChannel DEF allVars, streamVars
<1>2. ASSUME NEW r \in Req, ArriveStep(r) \/ HandlerStep(r) PROVE StreamInv'
  <2>1. [Next]_vars /\ UNCHANGED streamVars /\ bus' = bus
    BY <1>2 DEF ArriveStep, HandlerStep, Next, Receive, Handle, streamVars
  <2>2. Unpublished
    <3>1. /\ Receive(r) \/ Read(r) \/ Write(r) \/ Lose(r) \/ OpenHeal(r)
          /\ answer \in [Req -> Answers]
      BY <1>2 DEF ArriveStep, HandlerStep, Receive, StreamInv, ChannelInv, IInv, TypeOK
    <3>2. answer' = answer \/ \E status \in Answers \ {"202"} : answer' = [answer EXCEPT ![r] = status]
      BY <3>1 DEF Receive, ReceiveCommand, ReceiveCascade, ReceiveAck, Read, Write,
                  Lose, OpenHeal, Refuse, Accept, Answer, Answers
    <3> QED
      BY <2>1, <3>1, <3>2 DEF Unpublished
  <2> QED
    BY <2>1, <2>2, HandlersStream DEF ChannelNext
<1>3. ASSUME NEW r \in Req, PublishStep(r) PROVE StreamInv'
  <2>1. Delta(r) \in TopicMessage
    BY DEF Delta, TopicMessage, StreamInv, ChannelInv, IInv, TypeOK
  <2>2. Send(Delta(r)) /\ Publishes(r) /\ row' = row
    BY <1>3 DEF PublishStep, Publishes, Publish, Send, store
  <2> QED
    BY <2>1, <2>2, SendStream DEF ChannelNext
<1>8. CASE PublishNotice
  <2>1. Notice \in TopicMessage
    BY DEF Notice, TopicMessage
  <2>2. Send(Notice) /\ row' = row /\ UNCHANGED vars /\ bus' = Append(bus, Notice)
    BY <1>8 DEF PublishNotice, Send, vars
  <2> QED
    BY <2>1, <2>2, SendStream DEF ChannelNext
<1>4. CASE Subscribe
  BY <1>4, SubscribeStream
<1>5. CASE Stream
  BY <1>5, ReadStateStream, YieldSnapshotStream, YieldDeltaStream DEF Stream
<1>6. CASE Disconnect
  BY <1>6, LinkDown, QuietChannel DEF Disconnect
<1>7. CASE PlaneRestart
  BY <1>7, LinkDown DEF PlaneRestart, Next, Restart, ChannelNext, Unpublished
<1> QED
  BY <1>1, <1>2, <1>3, <1>4, <1>5, <1>6, <1>7, <1>8 DEF StreamNext

(* While the bus keeps the stream, what a 202 promised is in the snapshot, *)
(* was yielded, or is in the queue.                                        *)
LEMMA KeptMissesNothing == StreamInv => NoDeltaIsMissed
<1> SUFFICES ASSUME StreamInv, link \in {"stated", "open"}, sub.listening,
                    NEW r \in Req, answer[r] = "202", landed[r] > snap.version
             PROVE  r \in heard \/ Queued(r)
  BY DEF NoDeltaIsMissed
<1>1. /\ StreamTypes /\ DOMAIN bus = 1..Len(bus) /\ Len(bus) \in Nat /\ QueueIsTheEnd
      /\ \A n \in DOMAIN bus : bus[n].req \in Req =>
           bus[n].version = landed[bus[n].req] /\ bus[n] = Delta(bus[n].req)
  BY StreamFacts, OnTheBus DEF StreamTypes, StreamInv, QueueInv
<1>2. PICK n \in DOMAIN bus : bus[n].req = r
  BY DEF StreamInv, ChannelInv, BusIsPublished
<1> PICK L \in Nat, B \in Nat : L = Len(sub.queue) /\ B = Len(bus)
  BY <1>1 DEF StreamTypes
<1>3. CASE n \in 1..B - L
  BY <1>1, <1>2, <1>3 DEF QueueIsTheEnd
<1>4. CASE n \notin 1..B - L
  <2>1. n - (B - L) \in 1..L /\ B - L + (n - (B - L)) = n
    BY <1>1, <1>4 DEF QueueIsTheEnd
  <2>2. sub.queue[n - (B - L)] = bus[n] /\ n - (B - L) \in DOMAIN sub.queue
    <3>1. DOMAIN sub.queue = 1..L
      BY <1>1, LenProperties DEF StreamTypes
    <3>2. \A q \in 1..L : sub.queue[q] = bus[B - L + q]
      BY <1>1 DEF QueueIsTheEnd
    <3> QED
      BY <2>1, <3>1, <3>2
  <2>3. bus[n] = Delta(r)
    BY <1>1, <1>2
  <2> QED
    BY <2>2, <2>3 DEF Queued
<1> QED
  BY <1>3, <1>4

(* A node whose stream is drained holds what was acknowledged, but for     *)
(* what the order of the publishes took from it.                           *)
LEMMA DrainedIsInForce == StreamInv => OnlyOvertakenIsNotInForce
<1> SUFFICES ASSUME StreamInv, link = "open", sub = Subscribed, ~verifies, NEW k \in Key \ OneShot
             PROVE  \/ row.state[k] = node.holds[k]
                    \/ answer[row.state[k]] # "202"
                    \/ Overtaken(row.state[k]) \/ GivenUp(row.state[k])
  BY DEF OnlyOvertakenIsNotInForce, Drained, InForce
<1>1. /\ StreamTypes /\ NodeFollows /\ DOMAIN bus = 1..Len(bus) /\ Len(bus) \in Nat
      /\ row.version \in Nat /\ node.applied \in Nat /\ snap.version \in Nat /\ node.holds \in Held
      /\ landed \in [Req -> Nat] /\ row.state[k] \in Req \cup {None}
  BY StreamFacts, OnTheBus DEF StreamTypes, StreamInv, ChannelInv, IInv, TypeOK, Row
<1>2. sub.listening /\ sub.queue = <<>> /\ Len(sub.queue) = 0
  BY DEF Subscribed
<1>3. CASE row.state[k] = None
  <2>1. ASSUME node.holds[k] # None PROVE FALSE
    <3>1. node.holds[k] \in Req /\ landed[node.holds[k]] > 0 /\ k \in job[node.holds[k]].keys
      BY <1>1, <2>1 DEF NodeFollows, WrittenBy, Held
    <3> QED
      BY <1>1, <1>3, <3>1, RowFacts DEF StreamTypes
  <2> QED
    BY <1>3, <2>1
<1>4. CASE row.state[k] # None /\ answer[row.state[k]] = "202"
  <2> PICK w \in Req : w = row.state[k]
    BY <1>1, <1>4
  <2>1. PICK n \in DOMAIN bus : bus[n].req = w
    BY <1>4 DEF StreamInv, ChannelInv, BusIsPublished
  <2>2. bus[n].version = landed[w]
    BY <1>1, <2>1, OnTheBus DEF StreamTypes
  <2>3. landed[w] <= node.applied
    <3>1. bus[n].version > snap.version => w \in heard
      <4>1. QueueIsTheEnd
        BY <1>2 DEF StreamInv, QueueInv
      <4>2. n \in 1..Len(bus) - Len(sub.queue)
        BY <1>1, <1>2
      <4> QED
        BY <2>1, <4>1, <4>2 DEF QueueIsTheEnd
    <3>2. snap.version <= node.applied /\ \A r \in heard : landed[r] <= node.applied
      BY <1>1 DEF NodeFollows
    <3> QED
      BY <1>1, <2>2, <3>1, <3>2
  <2>4. LastWriter(landed, job, k, row.version, w)
    BY <1>1, RowFacts DEF StreamTypes
  <2>5. LastWriter(landed, job, k, node.applied, w)
    <3>1. \A v \in 1..node.applied : v \in 1..row.version
      BY <1>1 DEF NodeFollows
    <3>2. landed[w] \in 1..node.applied
      BY <1>1, <2>3, <2>4 DEF LastWriter
    <3> QED
      BY <2>4, <3>1, <3>2 DEF LastWriter
  <2>6. ~Behind(w)
    BY <1>2 DEF Behind
  <2>7. Passed(w) => Overtaken(w)
    BY <2>1, <2>2 DEF Passed, Overtaken
  <2> QED
    BY <1>1, <2>5, <2>6, <2>7 DEF NodeFollows
<1> QED
  BY <1>3, <1>4

(* Nothing is lost without the node being able to tell: over every run of  *)
(* the channel, for every number of requests and every capacity of the     *)
(* queue, and whatever else is published on the topic.                     *)
THEOREM NothingIsLostInSilence == StreamSpec => []NothingIsLostSilently
<1>1. StreamInv => NothingIsLostSilently
  <2> SUFFICES ASSUME StreamInv PROVE NothingIsLostSilently
    OBVIOUS
  <2>1. DroppedIsMarked
    <3> SUFFICES ASSUME link # "down", ~sub.listening
                 PROVE  \E i \in DOMAIN sub.queue : sub.queue[i] = Overflow
      BY DEF DroppedIsMarked
    <3>1. PICK j \in DOMAIN bus : DroppedAt(j)
      BY DEF StreamInv, QueueInv
    <3>2. Len(sub.queue) \in DOMAIN sub.queue
      BY <3>1, StreamFacts, LenProperties DEF DroppedAt, StreamTypes
    <3> QED
      BY <3>1, <3>2 DEF DroppedAt
  <2> QED
    BY <2>1, KeptMissesNothing, DrainedIsInForce DEF StreamInv, NothingIsLostSilently
<1> QED
  BY <1>1, InitStream, NextStream, PTL DEF StreamSpec
=============================================================================
