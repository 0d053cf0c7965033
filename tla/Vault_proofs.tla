---------------------------- MODULE Vault_proofs ----------------------------
(***************************************************************************)
(* Machine-checked safety of the vault.  The dispense side, for every set  *)
(* of nodes and requests, with any number of enrollments, rotations,       *)
(* revocations and dispenses under way at once; and the signing side, for  *)
(* every set of keys, operators and requests and every trim and window,    *)
(* with the sweep and the requests under way at once.                      *)
(***************************************************************************)
EXTENDS VaultCreds, SigningCustody, FiniteSetTheorems, TLAPS

Held == held \in [Request -> Entry \cup {NoEntry}]

(* What is in hand is no newer than the entry, and of the entry's version  *)
(* only if it is the entry's secret.                                       *)
HandIsBehind ==
  \A r \in Request :
    /\ held[r].version <= creds.version
    /\ held[r].version = creds.version => held[r].by = creds.by

(* Only what arrived with a right, or before an enrollment, has one now.   *)
GrantsAreOwed ==
  \A r \in Asks({"dispense"}) :
    pc[r] # "idle" /\ Dispenses(creds, JobOf[r].node) => r \in owed

(* The stages of a request are those of its kind, it is answered when it   *)
(* is done, and a write that was not received has not ended.               *)
StagesFit ==
  \A r \in Request :
    /\ pc[r] = "sealing" => JobOf[r].kind \in {"enroll", "rotate"}
    /\ pc[r] = "change" => JobOf[r].kind \in {"enroll", "rotate", "revoke"}
    /\ pc[r] = "register" => JobOf[r].kind = "seal"
    /\ pc[r] \in {"attest", "fetch", "audit"} => JobOf[r].kind = "dispense"
    /\ pc[r] = "audit" => held[r] # NoEntry
    /\ pc[r] # "done" => answer[r] = "none"
    /\ r \in Writer /\ pc[r] = "idle" => outcome[r] = "open"

(* A late plaintext never gets as far as the change.                       *)
LateIsStopped ==
  \A r \in late :
    /\ JobOf[r].kind \in {"enroll", "rotate"} /\ sealing
    /\ ~JobOf[r].sealed => pc[r] \in {"sealing", "done"} /\ outcome[r] # "stored"

(* The inductive invariant.                                                *)
IInv ==
  /\ TypeOK
  /\ Held
  /\ HandIsBehind
  /\ VersionNamesSecret
  /\ GrantsAreOwed
  /\ OnlyEnrolmentGrants
  /\ StagesFit
  /\ DispensedIsAudited
  /\ LateIsStopped

-----------------------------------------------------------------------------
(* No entry is not an entry: version 0 tells them apart.                   *)
LEMMA NoEntryFacts ==
  /\ NoEntry \notin Entry /\ NoEntry.version = 0 /\ NoEntry.by = Nobody
  /\ \A e \in Entry : e.version \in Nat /\ e.version > 0 /\ e # NoEntry
BY DEF NoEntry, Entry

(* The jobs are what the requests ask for.                                 *)
LEMMA JobFacts ==
  ASSUME NEW r \in Request
  PROVE  /\ JobOf[r].kind \in Kind /\ JobOf[r].sealed \in BOOLEAN
         /\ JobOf[r].scope \subseteq Node /\ JobOf[r].node \in Node
         /\ JobOf[r].kind = "enroll" => JobOf[r].scope # {}
         /\ \A ks : r \in Asks(ks) <=> JobOf[r].kind \in ks
         /\ r \in Writer <=> JobOf[r].kind \in {"enroll", "rotate", "revoke"}
BY VaultAssumption DEF Asks, Writer

(* What a change stores: an entry, of a new version with its own secret or *)
(* revoked under the old one; and only an enrollment grants.               *)
LEMMA ChangeFacts ==
  ASSUME NEW e \in Entry \cup {NoEntry}, NEW r \in Request,
         JobOf[r].kind \in {"enroll", "rotate", "revoke"}, Change(r, e) # Refusal
  PROVE  /\ Change(r, e) \in Entry
         /\ \/ Change(r, e).version = e.version + 1
            \/ Change(r, e).version = e.version /\ Change(r, e).by = e.by
         /\ \A n \in Node : JobOf[r].kind # "enroll" /\ Dispenses(Change(r, e), n)
                              => Dispenses(e, n)
<1>1. JobOf[r].sealed \in BOOLEAN /\ JobOf[r].scope \in SUBSET Node
  BY JobFacts
<1>2. CASE JobOf[r].kind = "enroll"
  <2>1. JobOf[r].scope \in (SUBSET Node) \ {{}}
    BY <1>1, <1>2, JobFacts
  <2>2. e.version \in Nat
    BY NoEntryFacts
  <2> QED
    BY <1>1, <1>2, <2>1, <2>2 DEF Change, Enrolled, Entry
<1>3. CASE JobOf[r].kind = "rotate"
  <2>1. e # NoEntry /\ ~e.revoked
    BY <1>3 DEF Change, Rotated
  <2>2. e \in Entry
    BY <2>1
  <2> DEFINE f == [e EXCEPT !.version = @ + 1, !.sealed = JobOf[r].sealed, !.by = r]
  <2>3. Change(r, e) = f
    BY <1>3, <2>1 DEF Change, Rotated
  <2>4. e.version + 1 \in Nat \ {0}
    BY <2>2 DEF Entry
  <2>5. f \in Entry
    BY <1>1, <2>2, <2>4 DEF Entry
  <2>6. f.version = e.version + 1 /\ f.scope = e.scope
    BY <2>2 DEF Entry
  <2> HIDE DEF f
  <2> QED
    BY <1>3, <2>1, <2>3, <2>5, <2>6 DEF Dispenses
<1>4. CASE JobOf[r].kind = "revoke"
  <2>1. e # NoEntry
    BY <1>4 DEF Change, Revoked
  <2>2. e \in Entry
    BY <2>1
  <2> DEFINE f == [e EXCEPT !.revoked = TRUE]
  <2>3. Change(r, e) = f
    BY <1>4, <2>1 DEF Change, Revoked
  <2>4. f \in Entry /\ f.version = e.version /\ f.by = e.by /\ f.revoked
    BY <2>2 DEF Entry
  <2> HIDE DEF f
  <2> QED
    BY <2>3, <2>4 DEF Dispenses
<1> QED
  BY <1>2, <1>3, <1>4

(* Initially nothing is stored, asked for or in hand.                      *)
LEMMA InitIInv == Init => IInv
<1> SUFFICES ASSUME Init PROVE IInv
  OBVIOUS
<1> USE DEF Init
<1>1. TypeOK /\ Held
  BY DEF TypeOK, Held, Stages
<1>2. HandIsBehind /\ VersionNamesSecret /\ OnlyEnrolmentGrants
  BY NoEntryFacts DEF HandIsBehind, VersionNamesSecret, OnlyEnrolmentGrants, Asks
<1>3. GrantsAreOwed /\ StagesFit /\ DispensedIsAudited /\ LateIsStopped
  BY DEF GrantsAreOwed, StagesFit, DispensedIsAudited, LateIsStopped, Asks, Writer
<1> QED
  BY <1>1, <1>2, <1>3 DEF IInv

(* A request is received: what it has a right to now, it is owed.          *)
LEMMA ReceiveStep ==
  ASSUME IInv, NEW r \in Request, Receive(r)
  PROVE  IInv'
<1> USE DEF Receive, Goto, entryVars, dispenseVars
<1>1. FirstStage[JobOf[r].kind] \in Stages \ {"idle", "done"}
      /\ JobOf[r].kind \in Kind
  BY JobFacts DEF FirstStage, Stages, Kind
<1>2. pc' = [pc EXCEPT ![r] = FirstStage[JobOf[r].kind]]
  OBVIOUS
<1>3. TypeOK' /\ Held'
  BY <1>1 DEF IInv, TypeOK, Held
<1>4. HandIsBehind' /\ VersionNamesSecret' /\ DispensedIsAudited'
  BY DEF IInv, HandIsBehind, VersionNamesSecret, DispensedIsAudited
<1>5. OnlyEnrolmentGrants'
  BY DEF IInv, OnlyEnrolmentGrants
<1>6. GrantsAreOwed'
  BY DEF IInv, TypeOK, GrantsAreOwed
<1>7. StagesFit'
  <2> SUFFICES ASSUME NEW q \in Request PROVE StagesFit!(q)'
    BY DEF StagesFit
  <2>1. CASE q = r
    BY <1>1, <2>1, JobFacts DEF IInv, TypeOK, StagesFit, FirstStage, Kind
  <2>2. CASE q # r
    BY <2>2 DEF IInv, TypeOK, StagesFit
  <2> QED
    BY <2>1, <2>2
<1>8. LateIsStopped'
  <2> SUFFICES ASSUME NEW q \in late' PROVE LateIsStopped!(q)'
    BY DEF LateIsStopped
  <2>1. q \in Request
    BY DEF IInv, TypeOK
  <2>2. CASE q \in late
    BY <2>1, <2>2 DEF IInv, TypeOK, LateIsStopped
  <2>3. CASE q = r /\ sealing /\ r \in Asks({"enroll", "rotate"})
    <3>1. JobOf[r].kind \in {"enroll", "rotate"} /\ outcome[r] = "open"
      BY <2>3, JobFacts DEF IInv, StagesFit
    <3>2. pc'[r] = "sealing"
      BY <3>1 DEF IInv, TypeOK, FirstStage
    <3> QED
      BY <2>3, <3>1, <3>2
  <2> QED
    BY <2>2, <2>3
<1> QED
  BY <1>3, <1>4, <1>5, <1>6, <1>7, <1>8 DEF IInv

(* Moving one request on, or answering it, with the entry, the hands and   *)
(* the audit as they were.                                                 *)
LEMMA MoveStep ==
  ASSUME IInv, NEW r \in Request, NEW stage \in Stages, NEW status,
         UNCHANGED <<entryVars, dispenseVars, histVars>>,
         sealing' \in BOOLEAN, sealing => sealing',
         pc[r] # "idle", pc' = [pc EXCEPT ![r] = stage], stage # "idle",
         answer' = [answer EXCEPT ![r] = status],
         status \in {"none", "200", "400", "403", "404", "409", "500"},
         stage # "done" => status = "none",
         JobOf[r].kind = "dispense" => status # "200",
         stage \in {"sealing", "register", "audit"} => pc[r] = stage,
         stage = "attest" => pc[r] = stage,
         stage = "fetch" => pc[r] = "attest",
         stage = "change" => pc[r] = "sealing" /\ ~(sealing /\ ~JobOf[r].sealed)
  PROVE  IInv'
<1> USE DEF entryVars, dispenseVars, histVars
<1>1. TypeOK' /\ Held'
  BY DEF IInv, TypeOK, Held
<1>2. HandIsBehind' /\ VersionNamesSecret' /\ OnlyEnrolmentGrants'
  BY DEF IInv, HandIsBehind, VersionNamesSecret, OnlyEnrolmentGrants
<1>3. GrantsAreOwed'
  BY DEF IInv, TypeOK, GrantsAreOwed
<1>4. StagesFit'
  <2> SUFFICES ASSUME NEW q \in Request PROVE StagesFit!(q)'
    BY DEF StagesFit
  <2>1. CASE q = r
    BY <2>1, JobFacts DEF IInv, TypeOK, StagesFit, Stages, Kind
  <2>2. CASE q # r
    BY <2>2 DEF IInv, TypeOK, StagesFit
  <2> QED
    BY <2>1, <2>2
<1>5. DispensedIsAudited'
  <2> SUFFICES ASSUME NEW q \in Asks({"dispense"}), answer'[q] = "200"
               PROVE  [req |-> q, version |-> held[q].version] \in audit
    BY DEF DispensedIsAudited
  <2>1. q \in Request /\ JobOf[q].kind = "dispense"
    BY DEF Asks
  <2>2. q # r
    BY <2>1 DEF IInv, TypeOK
  <2> QED
    BY <2>1, <2>2 DEF IInv, TypeOK, DispensedIsAudited
<1>6. LateIsStopped'
  <2> SUFFICES ASSUME NEW q \in late PROVE LateIsStopped!(q)'
    BY DEF LateIsStopped
  <2>1. q \in Request
    BY DEF IInv, TypeOK
  <2>2. CASE q = r
    BY <2>1, <2>2 DEF IInv, TypeOK, LateIsStopped, Stages, StagesFit
  <2>3. CASE q # r
    BY <2>1, <2>3 DEF IInv, TypeOK, LateIsStopped
  <2> QED
    BY <2>2, <2>3
<1> QED
  BY <1>1, <1>2, <1>3, <1>4, <1>5, <1>6 DEF IInv

(* A writer looks for the sealing key.                                     *)
LEMMA CheckStep ==
  ASSUME IInv, NEW r \in Request, CheckSealing(r)
  PROVE  IInv'
<1> USE DEF CheckSealing
<1>1. pc[r] = "sealing" /\ JobOf[r].kind \in {"enroll", "rotate"} /\ answer[r] = "none"
  BY DEF IInv, StagesFit
<1>2. /\ UNCHANGED <<entryVars, dispenseVars, histVars>>
      /\ sealing' \in BOOLEAN /\ (sealing => sealing')
  BY DEF IInv, TypeOK
<1>3. CASE sealing /\ ~JobOf[r].sealed
  <2>1. pc' = [pc EXCEPT ![r] = "done"] /\ answer' = [answer EXCEPT ![r] = "400"]
    BY <1>3 DEF Answer
  <2> QED
    BY <1>1, <1>2, <2>1, MoveStep DEF Stages
<1>4. CASE ~(sealing /\ ~JobOf[r].sealed)
  <2>1. pc' = [pc EXCEPT ![r] = "change"] /\ answer' = [answer EXCEPT ![r] = "none"]
    BY <1>1, <1>4 DEF Goto, IInv, TypeOK
  <2> QED
    BY <1>1, <1>2, <1>4, <2>1, MoveStep DEF Stages
<1> QED
  BY <1>3, <1>4

(* The sealing key is registered.                                          *)
LEMMA RegisterStep ==
  ASSUME IInv, NEW r \in Request, RegisterSealingKey(r)
  PROVE  IInv'
<1> USE DEF RegisterSealingKey, Answer
<1>1. pc[r] = "register" /\ JobOf[r].kind = "seal"
  BY DEF IInv, StagesFit
<1>2. /\ UNCHANGED <<entryVars, dispenseVars, histVars>> /\ sealing' = TRUE
      /\ pc' = [pc EXCEPT ![r] = "done"] /\ answer' = [answer EXCEPT ![r] = "200"]
  OBVIOUS
<1> QED
  BY <1>1, <1>2, MoveStep DEF Stages

(* A caller may speak for the node, or is turned away.                     *)
LEMMA AttestStep ==
  ASSUME IInv, NEW r \in Request, Attest(r)
  PROVE  IInv'
<1> USE DEF Attest
<1>1. pc[r] = "attest" /\ answer[r] = "none"
  BY DEF IInv, StagesFit
<1>2. /\ UNCHANGED <<entryVars, dispenseVars, histVars>>
      /\ sealing' \in BOOLEAN /\ (sealing => sealing')
  BY DEF IInv, TypeOK
<1>3. CASE Answer(r, "403")
  <2>1. pc' = [pc EXCEPT ![r] = "done"] /\ answer' = [answer EXCEPT ![r] = "403"]
    BY <1>3 DEF Answer
  <2> QED
    BY <1>1, <1>2, <2>1, MoveStep DEF Stages
<1>4. CASE Goto(r, "fetch")
  <2>1. pc' = [pc EXCEPT ![r] = "fetch"] /\ answer' = [answer EXCEPT ![r] = "none"]
    BY <1>1, <1>4 DEF Goto, IInv, TypeOK
  <2> QED
    BY <1>1, <1>2, <2>1, MoveStep DEF Stages
<1> QED
  BY <1>3, <1>4

(* A dispense reads the entry: refused, or the entry is in hand.           *)
LEMMA FetchStep ==
  ASSUME IInv, NEW r \in Request, Fetch(r)
  PROVE  IInv'
<1> USE DEF Fetch
<1>1. pc[r] = "fetch" /\ answer[r] = "none" /\ JobOf[r].kind = "dispense"
      /\ JobOf[r].node \in Node /\ r \in Asks({"dispense"})
  BY JobFacts DEF IInv, StagesFit
<1>2. CASE ~Dispenses(creds, JobOf[r].node) /\ Answer(r, "403") /\ UNCHANGED held
  <2>1. /\ UNCHANGED <<entryVars, dispenseVars, histVars>> /\ sealing' = sealing
        /\ pc' = [pc EXCEPT ![r] = "done"] /\ answer' = [answer EXCEPT ![r] = "403"]
    BY <1>2 DEF Answer, dispenseVars
  <2>2. sealing' \in BOOLEAN /\ (sealing => sealing')
    BY <2>1 DEF IInv, TypeOK
  <2> QED
    BY <1>1, <2>1, <2>2, MoveStep DEF Stages
<1>3. CASE Dispenses(creds, JobOf[r].node)
           /\ held' = [held EXCEPT ![r] = creds] /\ Goto(r, "audit")
  <2>1. /\ UNCHANGED <<creds, outcome, sealing, audit, owed, late, answer>>
        /\ held' = [held EXCEPT ![r] = creds] /\ pc' = [pc EXCEPT ![r] = "audit"]
        /\ creds \in Entry
    BY <1>3 DEF Goto, entryVars, histVars, Dispenses, IInv, TypeOK
  <2>2. held'[r] = creds /\ \A q \in Request : q # r => held'[q] = held[q]
    BY <2>1 DEF IInv, Held
  <2>3. TypeOK' /\ Held'
    BY <2>1 DEF IInv, TypeOK, Held, Stages
  <2>4. HandIsBehind'
    BY <2>1, <2>2, NoEntryFacts DEF IInv, HandIsBehind
  <2>5. VersionNamesSecret'
    BY <2>1, <2>2 DEF IInv, HandIsBehind, VersionNamesSecret
  <2>6. GrantsAreOwed'
    BY <1>1, <2>1 DEF IInv, TypeOK, GrantsAreOwed
  <2>7. OnlyEnrolmentGrants'
    <3> SUFFICES ASSUME NEW q \in Asks({"dispense"}), held'[q] # NoEntry
                 PROVE  q \in owed
      BY <2>1 DEF OnlyEnrolmentGrants
    <3>1. CASE q = r
      BY <1>1, <1>3, <3>1 DEF IInv, GrantsAreOwed
    <3>2. CASE q # r
      BY <2>2, <3>2 DEF IInv, OnlyEnrolmentGrants, Asks
    <3> QED
      BY <3>1, <3>2
  <2>8. StagesFit'
    <3> SUFFICES ASSUME NEW q \in Request PROVE StagesFit!(q)'
      BY DEF StagesFit
    <3>1. CASE q = r
      BY <1>1, <2>1, <2>2, <3>1, NoEntryFacts DEF IInv, TypeOK, StagesFit
    <3>2. CASE q # r
      BY <2>1, <2>2, <3>2 DEF IInv, TypeOK, StagesFit
    <3> QED
      BY <3>1, <3>2
  <2>9. DispensedIsAudited'
    BY <1>1, <2>1, <2>2 DEF IInv, DispensedIsAudited, Asks
  <2>10. LateIsStopped'
    BY <1>1, <2>1 DEF IInv, TypeOK, LateIsStopped
  <2> QED
    BY <2>3, <2>4, <2>5, <2>6, <2>7, <2>8, <2>9, <2>10 DEF IInv
<1> QED
  BY <1>2, <1>3

(* The audit row is there, and then the secret is handed out.              *)
LEMMA AuditStep ==
  ASSUME IInv, NEW r \in Request, Audit(r)
  PROVE  IInv'
<1> USE DEF Audit, Answer
<1>1. pc[r] = "audit" /\ answer[r] = "none" /\ JobOf[r].kind = "dispense"
      /\ held[r] # NoEntry
  BY DEF IInv, StagesFit
<1>2. /\ UNCHANGED <<creds, outcome, sealing, held, owed, late>>
      /\ audit' = audit \cup {[req |-> r, version |-> held[r].version]}
      /\ pc' = [pc EXCEPT ![r] = "done"] /\ answer' = [answer EXCEPT ![r] = "200"]
  BY DEF entryVars, histVars
<1>3. held[r].version \in Nat \ {0}
  BY <1>1 DEF IInv, TypeOK, Entry
<1>4. TypeOK' /\ Held'
  BY <1>2, <1>3 DEF IInv, TypeOK, Held, Stages
<1>5. HandIsBehind' /\ VersionNamesSecret' /\ OnlyEnrolmentGrants'
  BY <1>2 DEF IInv, HandIsBehind, VersionNamesSecret, OnlyEnrolmentGrants
<1>6. GrantsAreOwed'
  BY <1>1, <1>2 DEF IInv, TypeOK, GrantsAreOwed
<1>7. StagesFit'
  BY <1>2 DEF IInv, TypeOK, StagesFit
<1>8. DispensedIsAudited'
  BY <1>2 DEF IInv, TypeOK, DispensedIsAudited, Asks
<1>9. LateIsStopped'
  BY <1>2 DEF IInv, TypeOK, LateIsStopped
<1> QED
  BY <1>4, <1>5, <1>6, <1>7, <1>8, <1>9 DEF IInv

(* The entry is changed, or the change refuses or is lost.                 *)
LEMMA ChangeStep ==
  ASSUME IInv, NEW r \in Request, ChangeEntry(r)
  PROVE  IInv'
<1>1. /\ pc[r] = "change" /\ JobOf[r].kind \in {"enroll", "rotate", "revoke"} /\ r \in Writer
      /\ answer[r] = "none" /\ UNCHANGED <<sealing, held, audit, late>>
  BY JobFacts DEF ChangeEntry, IInv, StagesFit, dispenseVars
<1>2. PICK how \in {"stored", "refused", "void"}, status \in {"200", "404", "409", "500"} :
        /\ outcome' = [outcome EXCEPT ![r] = how]
        /\ pc' = [pc EXCEPT ![r] = "done"] /\ answer' = [answer EXCEPT ![r] = status]
        /\ \/ how = "stored" /\ Change(r, creds) # Refusal /\ creds' = Change(r, creds)
           \/ how # "stored" /\ creds' = creds
  BY DEF ChangeEntry, Answer, Creds!Store, Creds!Refuse, Creds!Void, Creds!End
<1>3. owed' = IF how = "stored" /\ JobOf[r].kind = "enroll"
              THEN owed \cup {q \in Asks({"dispense"}) : pc[q] # "idle"} ELSE owed
  BY <1>1, <1>2 DEF ChangeEntry, IInv, TypeOK
<1>4. creds \in Entry \cup {NoEntry}
  BY DEF IInv, TypeOK
<1>5. /\ creds' \in Entry \cup {NoEntry}
      /\ \/ creds'.version = creds.version + 1
         \/ creds'.version = creds.version /\ creds'.by = creds.by
  BY <1>1, <1>2, <1>4, ChangeFacts
<1>6. \A n \in Node : Dispenses(creds', n) =>
        \/ Dispenses(creds, n)
        \/ how = "stored" /\ JobOf[r].kind = "enroll"
  <2>1. CASE how = "stored" /\ creds' = Change(r, creds) /\ Change(r, creds) # Refusal
    BY <1>1, <1>4, <2>1, ChangeFacts
  <2>2. CASE creds' = creds
    BY <2>2
  <2> QED
    BY <1>2, <2>1, <2>2
<1>7. TypeOK' /\ Held'
  <2>1. owed' \subseteq Request
    BY <1>3 DEF IInv, TypeOK, Asks
  <2> QED
    BY <1>1, <1>2, <1>5, <2>1 DEF IInv, TypeOK, Held, Stages
<1>8. HandIsBehind'
  <2>1. creds.version \in Nat /\ \A q \in Request : held[q].version \in Nat
    BY <1>4, NoEntryFacts DEF IInv, Held
  <2> QED
    BY <1>1, <1>5, <2>1 DEF IInv, HandIsBehind
<1>9. VersionNamesSecret' /\ OnlyEnrolmentGrants'
  BY <1>1, <1>3 DEF IInv, VersionNamesSecret, OnlyEnrolmentGrants
<1>10. GrantsAreOwed'
  <2> SUFFICES ASSUME NEW q \in Asks({"dispense"}), pc'[q] # "idle",
                      Dispenses(creds', JobOf[q].node)
               PROVE  q \in owed'
    BY DEF GrantsAreOwed
  <2>1. q \in Request /\ JobOf[q].node \in Node /\ pc[q] # "idle"
    BY <1>1, <1>2, JobFacts DEF Asks, IInv, TypeOK
  <2>2. CASE Dispenses(creds, JobOf[q].node)
    BY <1>3, <2>1, <2>2 DEF IInv, GrantsAreOwed
  <2>3. CASE how = "stored" /\ JobOf[r].kind = "enroll"
    BY <1>3, <2>1, <2>3
  <2> QED
    BY <1>6, <2>1, <2>2, <2>3
<1>11. StagesFit'
  BY <1>1, <1>2 DEF IInv, TypeOK, StagesFit
<1>12. DispensedIsAudited'
  BY <1>1, <1>2 DEF IInv, TypeOK, DispensedIsAudited, Asks
<1>13. LateIsStopped'
  <2> SUFFICES ASSUME NEW q \in late PROVE LateIsStopped!(q)'
    BY <1>1 DEF LateIsStopped
  <2>1. q \in Request /\ JobOf[q].kind \in {"enroll", "rotate"} /\ sealing' = sealing /\ sealing
    BY <1>1 DEF IInv, TypeOK, LateIsStopped
  <2>2. CASE q = r
    BY <1>1, <2>1, <2>2 DEF IInv, LateIsStopped
  <2>3. CASE q # r
    BY <1>1, <1>2, <2>1, <2>3 DEF IInv, TypeOK, LateIsStopped
  <2> QED
    BY <2>2, <2>3
<1> QED
  BY <1>7, <1>8, <1>9, <1>10, <1>11, <1>12, <1>13 DEF IInv

(* Every step keeps the invariant.                                         *)
LEMMA NextIInv == IInv /\ [Next]_vars => IInv'
<1> SUFFICES ASSUME IInv, [Next]_vars PROVE IInv'
  OBVIOUS
<1>1. ASSUME NEW r \in Request, Receive(r) PROVE IInv'
  BY <1>1, ReceiveStep
<1>2. ASSUME NEW r \in Request, CheckSealing(r) PROVE IInv'
  BY <1>2, CheckStep
<1>3. ASSUME NEW r \in Request, ChangeEntry(r) PROVE IInv'
  BY <1>3, ChangeStep
<1>4. ASSUME NEW r \in Request, RegisterSealingKey(r) PROVE IInv'
  BY <1>4, RegisterStep
<1>5. ASSUME NEW r \in Request, Attest(r) PROVE IInv'
  BY <1>5, AttestStep
<1>6. ASSUME NEW r \in Request, Fetch(r) PROVE IInv'
  BY <1>6, FetchStep
<1>7. ASSUME NEW r \in Request, Audit(r) PROVE IInv'
  BY <1>7, AuditStep
<1>8. CASE UNCHANGED vars
  BY <1>8 DEF vars, entryVars, dispenseVars, histVars, IInv, TypeOK, Held, HandIsBehind,
     VersionNamesSecret, GrantsAreOwed, OnlyEnrolmentGrants, StagesFit, DispensedIsAudited,
     LateIsStopped
<1> QED
  BY <1>1, <1>2, <1>3, <1>4, <1>5, <1>6, <1>7, <1>8 DEF Next, Handle

(* The invariant holds throughout.                                         *)
THEOREM Invariance == Spec => []IInv
<1> QED
  BY InitIInv, NextIInv, PTL DEF Spec

(* A dispense hands out what an enrollment granted, one secret per         *)
(* version, and with its row in the audit, while the entry is rotated,     *)
(* revoked and enrolled again between its fetch and its answer.            *)
THEOREM HandOut == Spec => []HandedOutRightly
<1>1. IInv => HandedOutRightly
  BY DEF IInv, HandedOutRightly
<1> QED
  BY <1>1, Invariance, PTL

(* The look at the sealing key and the change are two transactions; still, *)
(* a plaintext that arrives after the key was registered is not stored.    *)
THEOREM PlainIsRefused == Spec => []PlainIsRefusedOnceSealed
<1>1. IInv => PlainIsRefusedOnceSealed
  BY DEF IInv, LateIsStopped, PlainIsRefusedOnceSealed
<1> QED
  BY <1>1, Invariance, PTL

(* What the dispense side promises, both of the above.                     *)
THEOREM CredentialsKept == Spec => []CredentialsAreKept
<1>1. HandedOutRightly /\ PlainIsRefusedOnceSealed => CredentialsAreKept
  BY DEF CredentialsAreKept
<1> QED
  BY <1>1, HandOut, PlainIsRefused, PTL

-----------------------------------------------------------------------------
(* Every row that ever committed.                                          *)
Logged == custody \cup aged \cup trimmed

(* The rows of which a trim that keeps ids from `keep` on spares the ids.  *)
Spared(keep) == {o \in Logged : rank[o] >= keep}

(* A key that is made has a maker, and no key has none.                    *)
KeysAreWhole == \A k \in KeyId : ring[k] = NoKey \/ ring[k].by \in Maker

(* A row is of a request for a signature that has written it.              *)
RowsAreWritten ==
  /\ nextRank \in Nat \ {0}
  /\ IsFiniteSet(Logged)
  /\ \A o \in Logged : o \in Signed /\ at[o] \in {"tell", "done", "lost"}
  /\ \A o \in Order : at[o] \in {"append", "commit"} => o \in Signed

(* What is about to be answered is done: the key is stored, the row is in. *)
ToldIsDone ==
  \A o \in Order : at[o] = "tell" =>
    IF o \in Maker THEN ring[AskOf[o].key].by = o ELSE o \in Logged

(* A trim under way spares the rows it was to leave, however many more     *)
(* have come in since.                                                     *)
TrimIsSafe ==
  /\ sweep.now <= time
  /\ sweep.at = "trim" => Cardinality(Spared(sweep.keep)) >= Backstop

(* The inductive invariant of the signing side.                            *)
CustodyInv ==
  /\ CustodyTypeOK
  /\ KeysAreWhole
  /\ RowsAreWritten
  /\ ToldIsDone
  /\ TrimIsSafe
  /\ PinnedKeySigns
  /\ AnsweredIsOnRecord
  /\ OnlyAgeOrDepthEvicts

-----------------------------------------------------------------------------
LEMMA AskFacts ==
  ASSUME NEW o \in Order
  PROVE  /\ AskOf[o].key \in KeyId /\ AskOf[o].operators \subseteq Operator
         /\ AskOf[o].operator \in Operator
         /\ o # NoOne /\ (o \in Maker <=> o \notin Signed)
         /\ Backstop \in Nat \ {0} /\ Window \in Nat /\ MaxTime \in Nat
BY CustodyAssumption DEF Maker, Signed

(* Initially there are no keys and no rows.                                *)
LEMMA InitCustody == CustodyInit => CustodyInv
<1> SUFFICES ASSUME CustodyInit PROVE CustodyInv
  OBVIOUS
<1> USE DEF CustodyInit
<1>1. CustodyTypeOK
  BY CustodyAssumption DEF CustodyTypeOK, NoKeys, NoKey, Resting
<1>2. KeysAreWhole /\ ToldIsDone
  BY DEF KeysAreWhole, ToldIsDone, NoKeys
<1>3. RowsAreWritten
  BY FS_EmptySet DEF RowsAreWritten, Logged
<1>4. TrimIsSafe
  BY DEF TrimIsSafe, Resting
<1>5. PinnedKeySigns /\ AnsweredIsOnRecord /\ OnlyAgeOrDepthEvicts
  BY DEF PinnedKeySigns, AnsweredIsOnRecord, OnlyAgeOrDepthEvicts, Maker, Signed
<1> QED
  BY <1>1, <1>2, <1>3, <1>4, <1>5 DEF CustodyInv

(* Counting: rows are only added, and keep their ids, so what was newer    *)
(* than a row, or spared by a trim, still is.                              *)
LEMMA RowsOnlyGrow ==
  ASSUME IsFiniteSet(Logged'), Logged \subseteq Logged',
         \A o \in Logged : rank'[o] = rank[o]
  PROVE  /\ \A o \in Logged :
              /\ Cardinality(Newer(o, Logged))' \in Nat
              /\ Cardinality(Newer(o, Logged)) \in Nat
              /\ Cardinality(Newer(o, Logged))' >= Cardinality(Newer(o, Logged))
         /\ \A k : /\ Cardinality(Spared(k))' \in Nat
                   /\ Cardinality(Spared(k)) \in Nat
                   /\ Cardinality(Spared(k))' >= Cardinality(Spared(k))
<1>1. ASSUME NEW S, NEW T, S \subseteq Logged', T \subseteq S
      PROVE  Cardinality(S) \in Nat /\ Cardinality(T) \in Nat /\ Cardinality(S) >= Cardinality(T)
  <2>1. IsFiniteSet(S)
    BY <1>1, FS_Subset
  <2>2. IsFiniteSet(T) /\ Cardinality(T) <= Cardinality(S)
    BY <1>1, <2>1, FS_Subset
  <2> QED
    BY <2>1, <2>2, FS_CardinalityType
<1>2. ASSUME NEW o \in Logged
      PROVE  /\ Newer(o, Logged) \subseteq Newer(o, Logged)'
             /\ Newer(o, Logged)' \subseteq Logged'
  BY <1>2 DEF Newer
<1>3. ASSUME NEW k
      PROVE  Spared(k) \subseteq Spared(k)' /\ Spared(k)' \subseteq Logged'
  BY DEF Spared
<1>4. ASSUME NEW o \in Logged
      PROVE  /\ Cardinality(Newer(o, Logged))' \in Nat
             /\ Cardinality(Newer(o, Logged)) \in Nat
             /\ Cardinality(Newer(o, Logged))' >= Cardinality(Newer(o, Logged))
  BY <1>1, <1>2, <1>4
<1>5. ASSUME NEW k
      PROVE  /\ Cardinality(Spared(k))' \in Nat
             /\ Cardinality(Spared(k)) \in Nat
             /\ Cardinality(Spared(k))' >= Cardinality(Spared(k))
  BY <1>1, <1>3
<1> QED
  BY <1>4, <1>5

(* A step that takes no key away, writes no row's id, time or signature    *)
(* again and drops rows only into the history, keeps what is said of rows. *)
LEMMA RowsStep ==
  ASSUME CustodyInv, IsFiniteSet(Logged'), Logged \subseteq Logged',
         \A o \in Logged : rank'[o] = rank[o] /\ stamp'[o] = stamp[o],
         time' \in Nat, time <= time',
         \A o \in aged' \ aged : stamp'[o] + Window < time',
         trimmed' \subseteq Logged',
         \A o \in trimmed' \ trimmed : o \in Logged /\ Cardinality(Newer(o, Logged)) >= Backstop
  PROVE  OnlyAgeOrDepthEvicts'
<1>1. \A o \in aged' : stamp'[o] + Window < time'
  <2> SUFFICES ASSUME NEW o \in aged, o \in aged' PROVE stamp'[o] + Window < time'
    OBVIOUS
  <2>1. stamp[o] + Window < time /\ stamp'[o] = stamp[o] /\ o \in Order
    BY DEF CustodyInv, OnlyAgeOrDepthEvicts, Logged, CustodyTypeOK, Signed
  <2>2. stamp[o] \in Nat /\ time \in Nat /\ Window \in Nat
    BY <2>1, CustodyAssumption DEF CustodyInv, CustodyTypeOK
  <2> QED
    BY <2>1, <2>2
<1>2. \A o \in trimmed' : Cardinality(Newer(o, Logged))' >= Backstop
  <2> SUFFICES ASSUME NEW o \in trimmed' PROVE Cardinality(Newer(o, Logged))' >= Backstop
    OBVIOUS
  <2>1. o \in Logged /\ Cardinality(Newer(o, Logged)) >= Backstop
    BY DEF CustodyInv, OnlyAgeOrDepthEvicts, Logged
  <2> QED
    BY <2>1, RowsOnlyGrow, CustodyAssumption
<1> QED
  BY <1>1, <1>2 DEF OnlyAgeOrDepthEvicts, Logged

(* A key is made: the id had none, so no other key is touched.             *)
LEMMA CreateStep ==
  ASSUME CustodyInv, NEW o \in Maker, CreateKey(o)
  PROVE  CustodyInv'
<1> USE DEF CreateKey, dropVars
<1>1. o \in Order /\ at[o] = "new" /\ o \notin Signed
  BY AskFacts DEF Maker, Signed
<1>2. /\ UNCHANGED <<signer, stamp, rank, nextRank, custody, time, sweep, aged, trimmed>>
      /\ Logged' = Logged /\ \A k : Spared(k)' = Spared(k)
      /\ \A q : Newer(q, Logged)' = Newer(q, Logged)
  BY DEF Logged, Spared, Newer
<1>3. /\ KeyOf(o) \in [by: Maker, operators: SUBSET Operator]
      /\ KeyOf(o).by = o
  BY <1>1, AskFacts DEF KeyOf
<1>4. \/ ring' = ring
      \/ /\ ring[AskOf[o].key] = NoKey
         /\ ring' = [ring EXCEPT ![AskOf[o].key] = KeyOf(o)]
         /\ at' = [at EXCEPT ![o] = "tell"] /\ UNCHANGED reply
  BY DEF Ring!Store, Ring!Refuse, Ring!Void, Created
<1>5. /\ ring' \in [KeyId -> [by: Maker \cup {NoOne}, operators: SUBSET Operator]]
      /\ \A k \in KeyId : ring[k] # NoKey => ring'[k] = ring[k]
      /\ \A k \in KeyId : ring'[k] = ring[k] \/ ring'[k] = KeyOf(o)
  BY <1>1, <1>3, <1>4, AskFacts DEF CustodyInv, CustodyTypeOK
<1>6. \A k \in KeyId : ring[k].by # NoOne => ring'[k] = ring[k]
  BY <1>5 DEF NoKey
<1>7. \/ /\ at' = [at EXCEPT ![o] = "tell"] /\ reply' = reply
         /\ ring'[AskOf[o].key].by = o
      \/ /\ at' = [at EXCEPT ![o] = "done"]
         /\ \E status \in {"409", "500"} : reply' = [reply EXCEPT ![o] = status]
  <2>1. CASE /\ ring' = [ring EXCEPT ![AskOf[o].key] = KeyOf(o)]
             /\ at' = [at EXCEPT ![o] = "tell"] /\ UNCHANGED reply
    <3>1. ring'[AskOf[o].key] = KeyOf(o)
      BY <1>1, <2>1, AskFacts DEF CustodyInv, CustodyTypeOK
    <3> QED
      BY <1>3, <2>1, <3>1
  <2>2. CASE \E status \in {"409", "500"} : Reply(o, status)
    BY <2>2 DEF Reply
  <2> QED
    BY <2>1, <2>2 DEF Ring!Store, Created
<1>8. CustodyTypeOK'
  <2>1. PICK how \in {"stored", "refused", "void"} : made' = [made EXCEPT ![o] = how]
    BY DEF Ring!Store, Ring!Refuse, Ring!Void, Ring!End
  <2>2. made' \in [Maker -> {"open", "stored", "refused", "void"}]
    BY <2>1 DEF CustodyInv, CustodyTypeOK
  <2>3. /\ at' \in [Order -> {"new", "append", "commit", "tell", "done", "lost"}]
        /\ reply' \in [Order -> {"none", "200", "403", "409", "500"}]
    BY <1>1, <1>7 DEF CustodyInv, CustodyTypeOK
  <2> QED
    BY <1>2, <1>5, <2>2, <2>3 DEF CustodyInv, CustodyTypeOK
<1>9. KeysAreWhole'
  BY <1>3, <1>5 DEF CustodyInv, KeysAreWhole
<1>10. RowsAreWritten'
  <2>3. at \in [Order -> {"new", "append", "commit", "tell", "done", "lost"}]
    BY DEF CustodyInv, CustodyTypeOK
  <2>1. \A q \in Order : at'[q] = at[q] \/ (q = o /\ at'[q] \in {"tell", "done"})
    <3>1. PICK stage \in {"tell", "done"} : at' = [at EXCEPT ![o] = stage]
      BY <1>7
    <3> QED
      BY <2>3, <3>1
  <2>2. nextRank' = nextRank /\ Logged' = Logged
    BY <1>2
  <2> QED
    BY <2>1, <2>2 DEF CustodyInv, RowsAreWritten, Signed
<1>11. ToldIsDone'
  <2> SUFFICES ASSUME NEW q \in Order, at'[q] = "tell"
               PROVE  IF q \in Maker THEN ring'[AskOf[q].key].by = q ELSE q \in Logged'
    BY DEF ToldIsDone
  <2>1. CASE q = o
    BY <1>1, <1>7, <2>1 DEF CustodyInv, CustodyTypeOK
  <2>2. CASE q # o
    BY <1>2, <1>6, <1>7, <2>2, AskFacts DEF CustodyInv, CustodyTypeOK, ToldIsDone
  <2> QED
    BY <2>1, <2>2
<1>12. PinnedKeySigns'
  <2>1. ASSUME NEW q \in Maker, reply'[q] = "200" PROVE ring'[AskOf[q].key].by = q
    <3>1. q \in Order /\ reply[q] = "200"
      BY <1>1, <1>7, <2>1 DEF CustodyInv, CustodyTypeOK, Maker
    <3> QED
      BY <1>6, <3>1, AskFacts DEF CustodyInv, PinnedKeySigns
  <2>2. ASSUME NEW q \in Signed, signer'[q] # NoOne
        PROVE  /\ ring'[AskOf[q].key].by = signer'[q]
               /\ AskOf[q].operator \in ring'[AskOf[q].key].operators
    <3>1. q \in Order /\ signer[q] # NoOne /\ signer'[q] = signer[q]
      BY <1>2, <2>2 DEF Signed
    <3> QED
      BY <1>6, <3>1, AskFacts DEF CustodyInv, PinnedKeySigns
  <2> QED
    BY <2>1, <2>2 DEF PinnedKeySigns
<1>13. AnsweredIsOnRecord'
  <2> SUFFICES ASSUME NEW q \in Signed, reply'[q] \in {"200", "403"} PROVE q \in Logged'
    BY DEF AnsweredIsOnRecord, Logged
  <2>1. q \in Order /\ q # o /\ reply'[q] = reply[q]
    BY <1>1, <1>7 DEF Signed, CustodyInv, CustodyTypeOK
  <2> QED
    BY <1>2, <2>1 DEF CustodyInv, AnsweredIsOnRecord, Logged
<1>14. TrimIsSafe' /\ OnlyAgeOrDepthEvicts'
  BY <1>2 DEF CustodyInv, TrimIsSafe, OnlyAgeOrDepthEvicts, Logged
<1> QED
  BY <1>8, <1>9, <1>10, <1>11, <1>12, <1>13, <1>14 DEF CustodyInv

(* A signature is made or refused, from the keys as they are.              *)
LEMMA SignStep ==
  ASSUME CustodyInv, NEW o \in Order, Sign(o)
  PROVE  CustodyInv'
<1> USE DEF dropVars
<1>1. /\ at[o] = "new" /\ o \in Signed /\ o \notin Logged /\ o \notin Maker
      /\ UNCHANGED <<ring, made, reply, rank, nextRank, custody, time, sweep, aged, trimmed>>
      /\ at' = [at EXCEPT ![o] = "append"] /\ stamp' = [stamp EXCEPT ![o] = time]
  BY AskFacts DEF Sign, CustodyInv, RowsAreWritten
<1>2. PICK by : /\ signer' = [signer EXCEPT ![o] = by]
                /\ by # NoOne => /\ ring[AskOf[o].key].by = by
                                 /\ AskOf[o].operator \in ring[AskOf[o].key].operators
  BY DEF Sign
<1>3. by \in Maker \cup {NoOne}
  BY <1>2, AskFacts DEF Sign, CustodyInv, CustodyTypeOK
<1>4. Logged' = Logged /\ \A k : Spared(k)' = Spared(k)
  BY <1>1 DEF Logged, Spared
<1>5. \A q \in Order \ {o} : at'[q] = at[q] /\ stamp'[q] = stamp[q] /\ signer'[q] = signer[q]
  BY <1>1, <1>2 DEF CustodyInv, CustodyTypeOK
<1>6. at'[o] = "append" /\ signer'[o] = by
  BY <1>1, <1>2 DEF CustodyInv, CustodyTypeOK
<1>7. CustodyTypeOK'
  <2>1. at' \in [Order -> {"new", "append", "commit", "tell", "done", "lost"}]
    BY <1>1 DEF CustodyInv, CustodyTypeOK
  <2>2. signer' \in [Order -> Maker \cup {NoOne}] /\ stamp' \in [Order -> 0..MaxTime]
    BY <1>1, <1>2, <1>3 DEF CustodyInv, CustodyTypeOK
  <2> QED
    BY <1>1, <2>1, <2>2 DEF CustodyInv, CustodyTypeOK
<1>8. KeysAreWhole' /\ TrimIsSafe'
  BY <1>1, <1>4 DEF CustodyInv, KeysAreWhole, TrimIsSafe
<1>9. RowsAreWritten'
  BY <1>1, <1>4, <1>5, <1>6 DEF CustodyInv, RowsAreWritten, Signed
<1>10. ToldIsDone' /\ AnsweredIsOnRecord'
  BY <1>1, <1>4, <1>5, <1>6 DEF CustodyInv, ToldIsDone, AnsweredIsOnRecord, Logged
<1>11. PinnedKeySigns'
  BY <1>1, <1>2, <1>5, <1>6 DEF CustodyInv, PinnedKeySigns, Signed
<1>12. OnlyAgeOrDepthEvicts'
  <2>1. \A q \in aged : q # o /\ stamp'[q] = stamp[q]
    BY <1>1, <1>5 DEF Logged, CustodyInv, CustodyTypeOK, Signed
  <2>2. \A q : Newer(q, Logged)' = Newer(q, Logged)
    BY <1>1, <1>4 DEF Newer
  <2> QED
    BY <1>1, <2>1, <2>2 DEF CustodyInv, OnlyAgeOrDepthEvicts, Logged
<1> QED
  BY <1>7, <1>8, <1>9, <1>10, <1>11, <1>12 DEF CustodyInv

(* The row is written: it takes the next id.                               *)
LEMMA AppendStep ==
  ASSUME CustodyInv, NEW o \in Order, Append(o)
  PROVE  CustodyInv'
<1> USE DEF dropVars
<1>1. /\ at[o] = "append" /\ o \in Signed /\ o \notin Logged /\ o \notin Maker
      /\ UNCHANGED <<ring, made, reply, signer, stamp, custody, time, sweep, aged, trimmed>>
      /\ at' = [at EXCEPT ![o] = "commit"] /\ rank' = [rank EXCEPT ![o] = nextRank]
      /\ nextRank' = nextRank + 1
  BY AskFacts DEF Append, CustodyInv, RowsAreWritten
<1>2. Logged' = Logged
  BY <1>1 DEF Logged
<1>3. \A q \in Order \ {o} : at'[q] = at[q] /\ rank'[q] = rank[q]
  BY <1>1 DEF CustodyInv, CustodyTypeOK
<1>4. at'[o] = "commit" /\ \A q \in Logged : rank'[q] = rank[q]
  BY <1>1, <1>3 DEF CustodyInv, CustodyTypeOK, RowsAreWritten, Signed
<1>5. \A k : Spared(k)' = Spared(k)
  BY <1>2, <1>4 DEF Spared
<1>6. CustodyTypeOK'
  <2>1. at' \in [Order -> {"new", "append", "commit", "tell", "done", "lost"}]
    BY <1>1 DEF CustodyInv, CustodyTypeOK
  <2>2. rank' \in [Order -> 0..(nextRank' - 1)]
    <3>1. ASSUME NEW q \in Order PROVE rank'[q] \in 0..(nextRank' - 1)
      <4>1. nextRank \in Nat \ {0} /\ rank[q] \in 0..(nextRank - 1)
        BY DEF CustodyInv, CustodyTypeOK, RowsAreWritten
      <4>2. rank'[q] = rank[q] \/ rank'[q] = nextRank
        BY <1>1 DEF CustodyInv, CustodyTypeOK
      <4> QED
        BY <1>1, <4>1, <4>2
    <3>2. rank' = [q \in Order |-> rank'[q]]
      BY <1>1 DEF CustodyInv, CustodyTypeOK
    <3> QED
      BY <3>1, <3>2
  <2> QED
    BY <1>1, <2>1, <2>2 DEF CustodyInv, CustodyTypeOK
<1>7. KeysAreWhole' /\ TrimIsSafe' /\ PinnedKeySigns'
  BY <1>1, <1>5 DEF CustodyInv, KeysAreWhole, TrimIsSafe, PinnedKeySigns
<1>8. RowsAreWritten'
  BY <1>1, <1>2, <1>3, <1>4 DEF CustodyInv, RowsAreWritten, Signed
<1>9. ToldIsDone' /\ AnsweredIsOnRecord'
  BY <1>1, <1>2, <1>3, <1>4 DEF CustodyInv, ToldIsDone, AnsweredIsOnRecord, Logged
<1>10. OnlyAgeOrDepthEvicts'
  <2>1. \A q \in Logged : Newer(q, Logged)' = Newer(q, Logged)
    BY <1>2, <1>4 DEF Newer
  <2> QED
    BY <1>1, <2>1 DEF CustodyInv, OnlyAgeOrDepthEvicts, Logged
<1> QED
  BY <1>6, <1>7, <1>8, <1>9, <1>10 DEF CustodyInv

(* The row commits, after newer ones perhaps, while a trim is under way.   *)
LEMMA CommitStep ==
  ASSUME CustodyInv, NEW o \in Order, Commit(o)
  PROVE  CustodyInv'
<1> USE DEF dropVars
<1>1. /\ at[o] = "commit" /\ o \in Signed
      /\ UNCHANGED <<ring, made, reply, signer, stamp, rank, nextRank, time, sweep, aged, trimmed>>
      /\ at' = [at EXCEPT ![o] = "tell"] /\ custody' = custody \cup {o}
  BY AskFacts DEF Commit, CustodyInv, RowsAreWritten
<1>2. Logged' = Logged \cup {o} /\ IsFiniteSet(Logged')
  BY <1>1, FS_AddElement DEF Logged, CustodyInv, RowsAreWritten
<1>3. at'[o] = "tell" /\ \A q \in Order \ {o} : at'[q] = at[q]
  BY <1>1 DEF CustodyInv, CustodyTypeOK
<1>4. CustodyTypeOK'
  BY <1>1 DEF CustodyInv, CustodyTypeOK
<1>5. KeysAreWhole' /\ PinnedKeySigns'
  BY <1>1 DEF CustodyInv, KeysAreWhole, PinnedKeySigns
<1>6. RowsAreWritten'
  BY <1>1, <1>2, <1>3 DEF CustodyInv, RowsAreWritten, Signed
<1>7. ToldIsDone' /\ AnsweredIsOnRecord'
  BY <1>1, <1>2, <1>3, AskFacts DEF CustodyInv, ToldIsDone, AnsweredIsOnRecord, Logged
<1>8. TrimIsSafe'
  BY <1>1, <1>2, RowsOnlyGrow, CustodyAssumption DEF CustodyInv, TrimIsSafe
<1>9. OnlyAgeOrDepthEvicts'
  BY <1>1, <1>2, RowsStep, CustodyAssumption DEF CustodyInv, CustodyTypeOK, Logged
<1> QED
  BY <1>4, <1>5, <1>6, <1>7, <1>8, <1>9 DEF CustodyInv

(* A request is answered: with what was done, or that its row was not      *)
(* written.                                                                *)
LEMMA ReplyStep ==
  ASSUME CustodyInv, NEW o \in Order, AuditFails(o) \/ Tell(o)
  PROVE  CustodyInv'
<1> USE DEF dropVars
<1>1. /\ UNCHANGED <<ring, made, signer, stamp, rank, nextRank, custody, time, sweep, aged, trimmed>>
      /\ at[o] \in {"append", "commit", "tell"}
      /\ at' = [at EXCEPT ![o] = "done"]
  BY DEF AuditFails, Tell, Reply
<1>2. PICK status \in {"200", "403", "500"} :
        /\ reply' = [reply EXCEPT ![o] = status]
        /\ status # "500" => at[o] = "tell"
        /\ o \in Maker => status # "403"
  BY DEF AuditFails, Tell, Reply
<1>3. Logged' = Logged /\ (\A k : Spared(k)' = Spared(k))
      /\ (\A q : Newer(q, Logged)' = Newer(q, Logged))
  BY <1>1 DEF Logged, Spared, Newer
<1>4. /\ at'[o] = "done" /\ \A q \in Order \ {o} : at'[q] = at[q] /\ reply'[q] = reply[q]
      /\ reply'[o] = status
  BY <1>1, <1>2 DEF CustodyInv, CustodyTypeOK
<1>5. CustodyTypeOK'
  <2>1. /\ at' \in [Order -> {"new", "append", "commit", "tell", "done", "lost"}]
        /\ reply' \in [Order -> {"none", "200", "403", "409", "500"}]
    BY <1>1, <1>2 DEF CustodyInv, CustodyTypeOK
  <2> QED
    BY <1>1, <2>1 DEF CustodyInv, CustodyTypeOK
<1>6. KeysAreWhole' /\ TrimIsSafe'
  BY <1>1, <1>3 DEF CustodyInv, KeysAreWhole, TrimIsSafe
<1>7. RowsAreWritten'
  BY <1>1, <1>3, <1>4 DEF CustodyInv, RowsAreWritten, Signed
<1>8. ToldIsDone'
  BY <1>1, <1>3, <1>4 DEF CustodyInv, ToldIsDone
<1>9. PinnedKeySigns'
  BY <1>1, <1>2, <1>4 DEF CustodyInv, PinnedKeySigns, ToldIsDone, Maker
<1>10. AnsweredIsOnRecord'
  <2> SUFFICES ASSUME NEW q \in Signed, reply'[q] \in {"200", "403"} PROVE q \in Logged
    BY <1>3 DEF AnsweredIsOnRecord, Logged
  <2>1. q \in Order /\ q \notin Maker
    BY DEF Signed
  <2>2. CASE q = o
    BY <1>2, <1>4, <2>1, <2>2 DEF CustodyInv, ToldIsDone
  <2>3. CASE q # o
    BY <1>4, <2>1, <2>3 DEF CustodyInv, AnsweredIsOnRecord, Logged
  <2> QED
    BY <2>2, <2>3
<1>11. OnlyAgeOrDepthEvicts'
  BY <1>1, <1>3 DEF CustodyInv, OnlyAgeOrDepthEvicts, Logged
<1> QED
  BY <1>5, <1>6, <1>7, <1>8, <1>9, <1>10, <1>11 DEF CustodyInv

(* A step of the sweep or of the clock: the rows that go are of the        *)
(* history, and the requests and the keys are as they were.                *)
LEMMA SweepStep ==
  ASSUME CustodyInv, UNCHANGED <<ring, made, at, reply, signer, stamp, rank, nextRank>>,
         custody' \subseteq custody, aged \subseteq aged', trimmed \subseteq trimmed',
         Logged' = Logged, time' \in 0..MaxTime, time <= time',
         sweep' \in [at: {"rest", "trim", "prune"}, now: 0..MaxTime, keep: Nat],
         sweep'.now <= time',
         sweep'.at = "trim" => Cardinality(Spared(sweep'.keep)) >= Backstop,
         \A o \in aged' \ aged : stamp[o] + Window < time,
         \A o \in trimmed' \ trimmed : Cardinality(Newer(o, Logged)) >= Backstop
  PROVE  CustodyInv'
<1>1. CustodyTypeOK'
  <2>1. custody' \cup aged' \cup trimmed' = custody \cup aged \cup trimmed
    BY DEF Logged
  <2>2. custody' \subseteq Signed /\ aged' \subseteq Signed /\ trimmed' \subseteq Signed
    BY <2>1 DEF CustodyInv, CustodyTypeOK
  <2> QED
    BY <2>2 DEF CustodyInv, CustodyTypeOK
<1>2. KeysAreWhole' /\ PinnedKeySigns'
  BY DEF CustodyInv, KeysAreWhole, PinnedKeySigns
<1>3. RowsAreWritten' /\ ToldIsDone'
  BY DEF CustodyInv, RowsAreWritten, ToldIsDone
<1>4. \A k : Spared(k)' = Spared(k)
  BY DEF Spared
<1>5. TrimIsSafe'
  BY <1>4 DEF CustodyInv, TrimIsSafe
<1>6. AnsweredIsOnRecord'
  BY DEF CustodyInv, AnsweredIsOnRecord, Logged
<1>7. OnlyAgeOrDepthEvicts'
  <2>1. time \in Nat /\ time' \in Nat /\ IsFiniteSet(Logged')
    BY CustodyAssumption DEF CustodyInv, CustodyTypeOK, RowsAreWritten
  <2>2. \A o \in aged' \ aged : stamp'[o] + Window < time'
    <3> SUFFICES ASSUME NEW o \in aged' \ aged PROVE stamp'[o] + Window < time'
      OBVIOUS
    <3>1. o \in Order
      BY <1>1 DEF CustodyTypeOK, Signed
    <3>2. stamp[o] \in Nat /\ Window \in Nat
      BY <3>1, CustodyAssumption DEF CustodyInv, CustodyTypeOK
    <3> QED
      BY <2>1, <3>2
  <2>3. trimmed' \subseteq Logged'
    BY DEF Logged
  <2> QED
    BY <2>1, <2>2, <2>3, RowsStep
<1> QED
  BY <1>1, <1>2, <1>3, <1>5, <1>6, <1>7 DEF CustodyInv

(* The row to trim to is found: it and the newer ones are as many as the   *)
(* trim leaves.                                                            *)
LEMMA SelectStep ==
  ASSUME CustodyInv, SelectKept
  PROVE  CustodyInv'
<1>1. /\ UNCHANGED <<ring, made, at, reply, signer, stamp, rank, nextRank, custody, time, aged, trimmed>>
      /\ Logged' = Logged /\ time \in 0..MaxTime /\ time \in Nat
  BY CustodyAssumption DEF SelectKept, requestVars, Logged, CustodyInv, CustodyTypeOK
<1>2. CASE sweep' = [at |-> "prune", now |-> time, keep |-> 0]
  BY <1>1, <1>2, SweepStep
<1>3. ASSUME NEW o \in custody, Cardinality(Newer(o, custody)) = Backstop - 1,
             sweep' = [at |-> "trim", now |-> time, keep |-> rank[o]]
      PROVE  CustodyInv'
  <2>1. IsFiniteSet(Logged) /\ custody \subseteq Logged /\ o \in Order
        /\ \A q \in custody : rank[q] \in Nat
    BY DEF CustodyInv, CustodyTypeOK, RowsAreWritten, Logged, Signed
  <2>2. Newer(o, custody) \cup {o} \subseteq Spared(rank[o]) /\ Spared(rank[o]) \subseteq Logged
    BY <2>1 DEF Newer, Spared
  <2>3. IsFiniteSet(Newer(o, custody)) /\ o \notin Newer(o, custody) /\ IsFiniteSet(Spared(rank[o]))
    <3>1. Newer(o, custody) \subseteq Logged
      BY <2>1 DEF Newer
    <3>2. o \notin Newer(o, custody)
      BY <1>3, <2>1 DEF Newer
    <3> QED
      BY <2>1, <2>2, <3>1, <3>2, FS_Subset
  <2>4. Cardinality(Newer(o, custody) \cup {o}) = Backstop
    <3>1. Cardinality(Newer(o, custody) \cup {o}) = Cardinality(Newer(o, custody)) + 1
      BY <2>3, FS_AddElement
    <3> QED
      BY <1>3, <3>1, CustodyAssumption
  <2>5. Cardinality(Spared(rank[o])) >= Backstop
    <3>1. Cardinality(Newer(o, custody) \cup {o}) <= Cardinality(Spared(rank[o]))
      BY <2>2, <2>3, FS_Subset
    <3>2. Cardinality(Spared(rank[o])) \in Nat
      BY <2>3, FS_CardinalityType
    <3> QED
      BY <2>4, <3>1, <3>2, CustodyAssumption
  <2> QED
    BY <1>1, <1>3, <2>1, <2>5, SweepStep
<1> QED
  BY <1>2, <1>3 DEF SelectKept

(* The trim: what goes is under the rows that were to stay.                *)
LEMMA TrimStep ==
  ASSUME CustodyInv, Trim
  PROVE  CustodyInv'
<1> DEFINE gone == {o \in custody : rank[o] < sweep.keep}
<1>1. /\ UNCHANGED <<ring, made, at, reply, signer, stamp, rank, nextRank, time, aged>>
      /\ custody' = custody \ gone /\ trimmed' = trimmed \cup gone /\ sweep.at = "trim"
      /\ sweep' = [sweep EXCEPT !.at = "prune"]
  BY DEF Trim, requestVars
<1>2. /\ sweep' \in [at: {"rest", "trim", "prune"}, now: 0..MaxTime, keep: Nat]
      /\ sweep'.now <= time /\ sweep'.at = "prune"
      /\ time \in 0..MaxTime /\ time \in Nat /\ sweep.keep \in Nat
  BY <1>1, CustodyAssumption DEF CustodyInv, CustodyTypeOK, TrimIsSafe
<1>3. Logged' = Logged /\ gone \subseteq Logged
  BY <1>1 DEF Logged
<1>4. ASSUME NEW o \in gone PROVE Cardinality(Newer(o, Logged)) >= Backstop
  <2>1. \A q \in Logged : rank[q] \in Nat
    BY DEF CustodyInv, CustodyTypeOK, RowsAreWritten, Signed
  <2>2. Spared(sweep.keep) \subseteq Newer(o, Logged)
    BY <1>2, <1>3, <2>1 DEF Spared, Newer
  <2>3. IsFiniteSet(Newer(o, Logged))
    BY FS_Subset DEF Newer, CustodyInv, RowsAreWritten
  <2>4. Cardinality(Spared(sweep.keep)) <= Cardinality(Newer(o, Logged))
        /\ IsFiniteSet(Spared(sweep.keep))
    BY <2>2, <2>3, FS_Subset
  <2>5. Cardinality(Spared(sweep.keep)) >= Backstop
    BY <1>1 DEF CustodyInv, TrimIsSafe
  <2> QED
    BY <2>3, <2>4, <2>5, FS_CardinalityType, CustodyAssumption
<1> HIDE DEF gone
<1>5. /\ custody' \subseteq custody /\ aged' = aged /\ trimmed \subseteq trimmed'
      /\ \A o \in trimmed' \ trimmed : Cardinality(Newer(o, Logged)) >= Backstop
  BY <1>1, <1>4
<1> QED
  BY <1>1, <1>2, <1>3, <1>5, SweepStep

(* The prune: what goes was older than the window when the sweep began.    *)
LEMMA PruneStep ==
  ASSUME CustodyInv, PruneAudit
  PROVE  CustodyInv'
<1> DEFINE gone == {o \in custody : stamp[o] + Window < sweep.now}
<1>1. /\ UNCHANGED <<ring, made, at, reply, signer, stamp, rank, nextRank, time, trimmed>>
      /\ custody' = custody \ gone /\ aged' = aged \cup gone /\ sweep' = Resting
  BY DEF PruneAudit, requestVars
<1>2. /\ sweep' \in [at: {"rest", "trim", "prune"}, now: 0..MaxTime, keep: Nat]
      /\ sweep'.now <= time /\ sweep'.at = "rest"
      /\ time \in 0..MaxTime /\ time \in Nat /\ sweep.now \in Nat /\ sweep.now <= time
  BY <1>1, CustodyAssumption DEF CustodyInv, CustodyTypeOK, TrimIsSafe, Resting
<1>3. Logged' = Logged
  BY <1>1 DEF Logged
<1>4. \A o \in gone : stamp[o] + Window < time
  <2> SUFFICES ASSUME NEW o \in gone PROVE stamp[o] + Window < time
    OBVIOUS
  <2>1. stamp[o] \in Nat /\ Window \in Nat
    BY CustodyAssumption DEF CustodyInv, CustodyTypeOK, Signed
  <2> QED
    BY <1>2, <2>1
<1> HIDE DEF gone
<1>5. /\ custody' \subseteq custody /\ aged \subseteq aged' /\ trimmed' = trimmed
      /\ \A o \in aged' \ aged : stamp[o] + Window < time
  BY <1>1, <1>4
<1> QED
  BY <1>1, <1>2, <1>3, <1>5, SweepStep

(* Time passes.                                                            *)
LEMMA TimeStep ==
  ASSUME CustodyInv, TimePasses
  PROVE  CustodyInv'
<1>1. /\ UNCHANGED <<ring, made, at, reply, signer, stamp, rank, nextRank, custody, sweep, aged, trimmed>>
      /\ Logged' = Logged /\ time' \in 0..MaxTime /\ time <= time' /\ sweep.now <= time'
      /\ sweep \in [at: {"rest", "trim", "prune"}, now: 0..MaxTime, keep: Nat]
  <2>1. sweep.now \in 0..MaxTime /\ time \in 0..MaxTime /\ sweep.now <= time
        /\ sweep \in [at: {"rest", "trim", "prune"}, now: 0..MaxTime, keep: Nat]
    BY DEF CustodyInv, CustodyTypeOK, TrimIsSafe
  <2> QED
    BY <2>1, CustodyAssumption DEF TimePasses, requestVars, dropVars, Logged
<1>2. sweep.at = "trim" => Cardinality(Spared(sweep.keep)) >= Backstop
  BY DEF CustodyInv, TrimIsSafe
<1> QED
  BY <1>1, <1>2, SweepStep

(* The process ends: nothing in hand is answered any more.                 *)
LEMMA StopStep ==
  ASSUME CustodyInv, CustodyStops
  PROVE  CustodyInv'
<1>1. /\ UNCHANGED <<ring, made, reply, signer, stamp, rank, nextRank, custody, time, aged, trimmed>>
      /\ at' = [o \in Order |-> IF at[o] \in {"append", "commit", "tell"} THEN "lost" ELSE at[o]]
      /\ sweep' = Resting
  BY DEF CustodyStops
<1>2. Logged' = Logged
  BY <1>1 DEF Logged
<1>3. \A q : Newer(q, Logged)' = Newer(q, Logged)
  BY <1>1, <1>2 DEF Newer
<1>4. /\ at' \in [Order -> {"new", "append", "commit", "tell", "done", "lost"}]
      /\ \A o \in Order : at'[o] \notin {"append", "commit", "tell"}
      /\ \A o \in Order : at[o] \in {"tell", "done", "lost"} => at'[o] \in {"done", "lost"}
  BY <1>1 DEF CustodyInv, CustodyTypeOK
<1>5. CustodyTypeOK' /\ TrimIsSafe'
  BY <1>1, <1>4, CustodyAssumption DEF CustodyInv, CustodyTypeOK, TrimIsSafe, Resting
<1>6. KeysAreWhole' /\ PinnedKeySigns' /\ AnsweredIsOnRecord'
  BY <1>1 DEF CustodyInv, KeysAreWhole, PinnedKeySigns, AnsweredIsOnRecord
<1>7. RowsAreWritten' /\ ToldIsDone'
  BY <1>1, <1>2, <1>4 DEF CustodyInv, RowsAreWritten, ToldIsDone, Signed
<1>8. OnlyAgeOrDepthEvicts'
  BY <1>1, <1>3 DEF CustodyInv, OnlyAgeOrDepthEvicts, Logged
<1> QED
  BY <1>5, <1>6, <1>7, <1>8 DEF CustodyInv

(* Every step of the signing side keeps its invariant.                     *)
LEMMA NextCustody == CustodyInv /\ [CustodyNext]_custodyVars => CustodyInv'
<1> SUFFICES ASSUME CustodyInv, [CustodyNext]_custodyVars PROVE CustodyInv'
  OBVIOUS
<1>1. ASSUME NEW o \in Maker, CreateKey(o) PROVE CustodyInv'
  BY <1>1, CreateStep
<1>2. ASSUME NEW o \in Order, Sign(o) PROVE CustodyInv'
  BY <1>2, SignStep
<1>3. ASSUME NEW o \in Order, Append(o) PROVE CustodyInv'
  BY <1>3, AppendStep
<1>4. ASSUME NEW o \in Order, Commit(o) PROVE CustodyInv'
  BY <1>4, CommitStep
<1>5. ASSUME NEW o \in Order, AuditFails(o) \/ Tell(o) PROVE CustodyInv'
  BY <1>5, ReplyStep
<1>6. CASE SelectKept
  BY <1>6, SelectStep
<1>7. CASE Trim
  BY <1>7, TrimStep
<1>8. CASE PruneAudit
  BY <1>8, PruneStep
<1>9. CASE TimePasses
  BY <1>9, TimeStep
<1>10. CASE CustodyStops
  BY <1>10, StopStep
<1>11. CASE UNCHANGED custodyVars
  <2>1. UNCHANGED <<ring, made, at, reply, signer, stamp, rank, nextRank, custody, sweep, time, aged, trimmed>>
    BY <1>11 DEF custodyVars, requestVars, dropVars
  <2> QED
    BY <2>1 DEF CustodyInv, CustodyTypeOK, KeysAreWhole, RowsAreWritten, ToldIsDone, TrimIsSafe,
       Spared, Newer, Logged, PinnedKeySigns, AnsweredIsOnRecord, OnlyAgeOrDepthEvicts
<1> QED
  BY <1>1, <1>2, <1>3, <1>4, <1>5, <1>6, <1>7, <1>8, <1>9, <1>10, <1>11 DEF CustodyNext

(* The pinned key of an id is its key for good, every answer to a request  *)
(* for a signature is on record, and a trim takes no row that is among the *)
(* newest, although rows commit out of order, and keep coming, between the *)
(* look for the row to trim to and the delete.                             *)
THEOREM CustodyKept == CustodySpec => []CustodyIsKept
<1>1. CustodyInv => CustodyIsKept
  BY DEF CustodyInv, CustodyIsKept
<1> QED
  BY <1>1, InitCustody, NextCustody, PTL DEF CustodySpec
=============================================================================
