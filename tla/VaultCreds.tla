----------------------------- MODULE VaultCreds -----------------------------
(***************************************************************************)
(* The dispense side of the federation vault, for one (tool, endpoint):    *)
(*                                                                         *)
(*   enroll    grants: writes a new entry, with a scope of nodes           *)
(*   rotate    a new secret in the same entry; refused if it is revoked    *)
(*   revoke    narrows: the entry stays, and dispenses to nobody           *)
(*   seal      registers the sealing key, after which plaintext is refused *)
(*   dispense  a node fetches the secret, and a row of the audit says so   *)
(*                                                                         *)
(* The entry is kept in one setting, changed atomically (SettingsStore     *)
(* implements AtomicSetting); the sealing key is another setting, and      *)
(* enroll and rotate read it in a transaction before the change.           *)
(***************************************************************************)
EXTENDS Naturals

CONSTANTS
  Node,
  Request,   \* the requests that will be served
  JobOf,     \* JobOf[r]: what request r asks for
  Nobody,    \* the writer of no entry
  Refusal    \* a change that raises

Kind == {"enroll", "rotate", "revoke", "seal", "dispense"}

ASSUME VaultAssumption ==
  /\ JobOf \in [Request -> [kind: Kind, sealed: BOOLEAN, scope: SUBSET Node, node: Node]]
  /\ \A r \in Request : JobOf[r].kind = "enroll" => JobOf[r].scope # {}
  /\ Nobody \notin Request

VARIABLES
  creds,     \* the entry; version 0 is no entry
  outcome,   \* outcome[r]: what became of r's change (see AtomicSetting)
  sealing,   \* a sealing key is registered
  pc,        \* pc[r]: the stage of request r
  answer,    \* answer[r]: the HTTP status r was answered with
  held,      \* held[r]: the entry dispense r has read and will hand out
  audit,     \* rows of the dispense audit
  owed,      \* history: dispenses that the entry would have granted when they arrived,
             \* or that arrived before an enrollment was stored
  late       \* history: requests that arrived after the sealing key was registered

entryVars == <<creds, outcome>>
dispenseVars == <<held, audit>>
histVars == <<owed, late>>
vars == <<entryVars, sealing, pc, answer, dispenseVars, histVars>>

(* `by` stands for the secret: the request that brought it.                *)
Entry == [version: Nat \ {0}, revoked: BOOLEAN, sealed: BOOLEAN,
          by: Request, scope: (SUBSET Node) \ {{}}]
NoEntry == [version |-> 0, revoked |-> FALSE, sealed |-> FALSE, by |-> Nobody, scope |-> {}]

Asks(kinds) == {r \in Request : JobOf[r].kind \in kinds}
Writer == Asks({"enroll", "rotate", "revoke"})

-----------------------------------------------------------------------------

Enrolled(r, e) ==
  [version |-> e.version + 1, revoked |-> FALSE, sealed |-> JobOf[r].sealed,
   by |-> r, scope |-> JobOf[r].scope]

(* Fault: a rotation clears the revocation.                                *)
BugRotatedRearms(r, e) ==
  IF e = NoEntry THEN Refusal
  ELSE [e EXCEPT !.version = @ + 1, !.sealed = JobOf[r].sealed, !.by = r, !.revoked = FALSE]

Rotated(r, e) ==
  IF e = NoEntry \/ e.revoked THEN Refusal
  ELSE [e EXCEPT !.version = @ + 1, !.sealed = JobOf[r].sealed, !.by = r]

Revoked(e) == IF e = NoEntry THEN Refusal ELSE [e EXCEPT !.revoked = TRUE]

Change(r, e) ==
  IF JobOf[r].kind = "enroll" THEN Enrolled(r, e)
  ELSE IF JobOf[r].kind = "rotate" THEN Rotated(r, e) ELSE Revoked(e)

Creds == INSTANCE AtomicSetting
           WITH Value <- Entry, Absent <- NoEntry, Refused <- Refusal, val <- creds

Dispenses(e, n) == e # NoEntry /\ ~e.revoked /\ n \in e.scope

-----------------------------------------------------------------------------
Init ==
  /\ creds = NoEntry
  /\ outcome = [r \in Writer |-> "open"]
  /\ sealing = FALSE
  /\ pc = [r \in Request |-> "idle"]
  /\ answer = [r \in Request |-> "none"]
  /\ held = [r \in Request |-> NoEntry]
  /\ audit = {}
  /\ owed = {} /\ late = {}

Goto(r, stage) == pc' = [pc EXCEPT ![r] = stage] /\ UNCHANGED answer
Answer(r, status) == /\ pc' = [pc EXCEPT ![r] = "done"]
                     /\ answer' = [answer EXCEPT ![r] = status]

FirstStage == [enroll |-> "sealing", rotate |-> "sealing", revoke |-> "change",
               seal |-> "register", dispense |-> "attest"]

Receive(r) ==
  /\ pc[r] = "idle"
  /\ Goto(r, FirstStage[JobOf[r].kind])
  /\ owed' = IF r \in Asks({"dispense"}) /\ Dispenses(creds, JobOf[r].node)
             THEN owed \cup {r} ELSE owed
  /\ late' = IF sealing /\ r \in Asks({"enroll", "rotate"}) THEN late \cup {r} ELSE late
  /\ UNCHANGED <<entryVars, sealing, dispenseVars>>

(* enroll, rotate: with a sealing key registered, plaintext is refused.    *)
CheckSealing(r) ==
  /\ pc[r] = "sealing"
  /\ IF sealing /\ ~JobOf[r].sealed THEN Answer(r, "400") ELSE Goto(r, "change")
  /\ UNCHANGED <<entryVars, sealing, dispenseVars, histVars>>

ChangeEntry(r) ==
  /\ pc[r] = "change"
  /\ \/ Creds!Store(r) /\ Answer(r, "200")
     \/ Creds!Refuse(r) /\ Answer(r, IF creds = NoEntry THEN "404" ELSE "409")
     \/ Creds!Void(r) /\ Answer(r, "500")
  /\ owed' = IF outcome'[r] = "stored" /\ JobOf[r].kind = "enroll"
             THEN owed \cup {q \in Asks({"dispense"}) : pc[q] # "idle"} ELSE owed
  /\ UNCHANGED <<sealing, dispenseVars, late>>

RegisterSealingKey(r) ==
  /\ pc[r] = "register"
  /\ sealing' = TRUE
  /\ Answer(r, "200")
  /\ UNCHANGED <<entryVars, dispenseVars, histVars>>

(* May the caller speak for the node, and is this call attested?           *)
Attest(r) ==
  /\ pc[r] = "attest"
  /\ Answer(r, "403") \/ Goto(r, "fetch")
  /\ UNCHANGED <<entryVars, sealing, dispenseVars, histVars>>

Fetch(r) ==
  /\ pc[r] = "fetch"
  /\ \/ ~Dispenses(creds, JobOf[r].node) /\ Answer(r, "403") /\ UNCHANGED held
     \/ /\ Dispenses(creds, JobOf[r].node)
        /\ held' = [held EXCEPT ![r] = creds]
        /\ Goto(r, "audit")
  /\ UNCHANGED <<entryVars, sealing, audit, histVars>>

(* The row commits, and only then is the credential handed out.            *)
Audit(r) ==
  /\ pc[r] = "audit"
  /\ audit' = audit \cup {[req |-> r, version |-> held[r].version]}
  /\ Answer(r, "200")
  /\ UNCHANGED <<entryVars, sealing, held, histVars>>

Handle(r) == CheckSealing(r) \/ ChangeEntry(r) \/ RegisterSealingKey(r)
             \/ Attest(r) \/ Fetch(r) \/ Audit(r)

Next == \E r \in Request : Receive(r) \/ Handle(r)

(* A request may stop for good at any stage: its client or the process has *)
(* gone away.                                                              *)
Spec == Init /\ [][Next]_vars

-----------------------------------------------------------------------------
(* Types of every variable.                                                *)
Stages == {"idle", "sealing", "change", "register", "attest", "fetch", "audit", "done"}
TypeOK ==
  /\ creds = NoEntry \/ creds \in Entry
  /\ outcome \in [Writer -> {"open", "stored", "refused", "void"}]
  /\ sealing \in BOOLEAN /\ owed \subseteq Request /\ late \subseteq Request
  /\ pc \in [Request -> Stages]
  /\ answer \in [Request -> {"none", "200", "400", "403", "404", "409", "500"}]
  /\ \A r \in Request : held[r] = NoEntry \/ held[r] \in Entry
  /\ audit \subseteq [req: Request, version: Nat \ {0}]

(* The plane may narrow, never grant: a credential that would have been    *)
(* denied when the request arrived (revoked, out of scope, not there) is   *)
(* handed out only if somebody has enrolled it since, whatever rotations   *)
(* and revocations run at the same time.                                   *)
OnlyEnrolmentGrants ==
  \A r \in Asks({"dispense"}) :
    held[r] # NoEntry => r \in owed

(* A version names one secret: no two nodes are handed different secrets   *)
(* under one version, across rotations and enrollments.                    *)
VersionNamesSecret ==
  \A r, q \in Request : held[r].version = held[q].version => held[r].by = held[q].by

(* Every credential that was handed out has its row in the audit, and the  *)
(* row names the version that was handed out, not a later one.             *)
DispensedIsAudited ==
  \A r \in Asks({"dispense"}) :
    answer[r] = "200" => [req |-> r, version |-> held[r].version] \in audit

(* What is handed out: granted by an enrollment, one secret per version,   *)
(* and on record as the very version it was, whatever else runs at once.   *)
HandedOutRightly ==
  /\ TypeOK
  /\ OnlyEnrolmentGrants
  /\ VersionNamesSecret
  /\ DispensedIsAudited

(* A plaintext secret that arrives after the sealing key was registered is *)
(* not stored.                                                             *)
PlainIsRefusedOnceSealed ==
  \A r \in late : ~JobOf[r].sealed => outcome[r] # "stored"

(* What the dispense side promises: what it hands out, and what it stores. *)
CredentialsAreKept == HandedOutRightly /\ PlainIsRefusedOnceSealed

(* Once the sealing key is registered, no plaintext is written.            *)
SealedVaultTakesNoPlaintext ==
  [][sealing /\ creds'.by # creds.by => creds'.sealed]_vars
=============================================================================
