--------------------------- MODULE SigningCustody ---------------------------
(***************************************************************************)
(* Operator signing keys under custody, and the custody log.               *)
(*                                                                         *)
(*   create   a key pair, whose public half the operator pins at the nodes *)
(*   sign     a signature for an operator the key is open to; granted or   *)
(*            refused, the request leaves a row in the log                 *)
(*   sweep    trims the log to a number of rows, then drops what is older  *)
(*            than the retention window                                    *)
(*                                                                         *)
(* The keys are one setting, changed atomically (SettingsStore implements  *)
(* AtomicSetting).  A row takes its id when it is inserted and is seen     *)
(* when it commits, which may be in the opposite order.                    *)
(***************************************************************************)
EXTENDS Naturals, FiniteSets

CONSTANTS
  KeyId,
  Operator,
  Order,      \* requests for a key or a signature
  AskOf,      \* AskOf[o]: what request o asks for
  NoOne,      \* the maker of no key
  Exists,     \* a creation that raises
  Backstop,   \* rows a trim leaves
  Window,     \* ticks a row is kept for
  MaxTime     \* bound: ticks

ASSUME CustodyAssumption ==
  /\ AskOf \in [Order -> [kind: {"create", "sign"}, key: KeyId,
                          operators: SUBSET Operator, operator: Operator]]
  /\ NoOne \notin Order /\ Backstop \in Nat \ {0} /\ Window \in Nat /\ MaxTime \in Nat

VARIABLES
  ring,       \* ring[k]: who made key k (which stands for the pair), and whom it is open to
  made,       \* made[o]: what became of o's change of the ring (see AtomicSetting)
  at,         \* at[o]: the stage of request o
  reply,      \* reply[o]: the HTTP status o was answered with
  signer,     \* signer[o]: the maker of the key that o's signature is of, or NoOne
  stamp,      \* stamp[o]: the time in o's row
  rank,       \* rank[o]: the id of o's row, or 0
  nextRank,
  custody,    \* the log: the requests whose rows are in it
  sweep,      \* the sweep: its stage, the time it started and the least id it keeps
  time,
  aged,       \* history: requests whose rows were dropped for their age
  trimmed     \* history: requests whose rows were trimmed

requestVars == <<at, reply, signer, stamp, rank>>
dropVars == <<sweep, aged, trimmed>>
custodyVars == <<ring, made, requestVars, nextRank, custody, time, dropVars>>

NoKey == [by |-> NoOne, operators |-> {}]
NoKeys == [k \in KeyId |-> NoKey]
Rings == [KeyId -> [by: Order, operators: SUBSET Operator] \cup {NoKey}] \ {NoKeys}
Resting == [at |-> "rest", now |-> 0, keep |-> 0]

Maker == {o \in Order : AskOf[o].kind = "create"}
Signed == Order \ Maker

CustodyInit ==
  /\ ring = NoKeys /\ made = [o \in Maker |-> "open"]
  /\ at = [o \in Order |-> "new"] /\ reply = [o \in Order |-> "none"]
  /\ signer = [o \in Order |-> NoOne] /\ stamp = [o \in Order |-> 0] /\ rank = [o \in Order |-> 0]
  /\ nextRank = 1 /\ custody = {}
  /\ sweep = Resting /\ time = 0 /\ aged = {} /\ trimmed = {}

KeyOf(o) == [by |-> o, operators |-> AskOf[o].operators]

(* Fault: a second creation of one id replaces the pair.                   *)
BugCreated(o, keys) == [keys EXCEPT ![AskOf[o].key] = KeyOf(o)]

(* create_key: the check and the write are one change.                     *)
Created(o, keys) ==
  IF keys[AskOf[o].key] # NoKey THEN Exists ELSE [keys EXCEPT ![AskOf[o].key] = KeyOf(o)]

Ring == INSTANCE AtomicSetting
          WITH Writer <- Maker, Value <- Rings, Absent <- NoKeys, Refused <- Exists,
               Change <- Created, val <- ring, outcome <- made

Reply(o, status) == /\ at' = [at EXCEPT ![o] = "done"]
                    /\ reply' = [reply EXCEPT ![o] = status]

CreateKey(o) ==
  /\ at[o] = "new"
  /\ \/ Ring!Store(o) /\ at' = [at EXCEPT ![o] = "tell"] /\ UNCHANGED reply
     \/ Ring!Refuse(o) /\ Reply(o, "409")
     \/ Ring!Void(o) /\ Reply(o, "500")
  /\ UNCHANGED <<signer, stamp, rank, nextRank, custody, time, dropVars>>

(* sign: the keys are read, and the request is granted or not.             *)
Sign(o) ==
  LET key == ring[AskOf[o].key]
      granted == key # NoKey /\ AskOf[o].operator \in key.operators
  IN
  /\ at[o] = "new" /\ o \in Signed
  /\ signer' = [signer EXCEPT ![o] = IF granted THEN key.by ELSE NoOne]
  /\ stamp' = [stamp EXCEPT ![o] = time]
  /\ at' = [at EXCEPT ![o] = "append"]
  /\ UNCHANGED <<ring, made, reply, rank, nextRank, custody, time, dropVars>>

(* add_vault_audit: the INSERT, and its commit.                            *)
Append(o) ==
  /\ at[o] = "append"
  /\ rank' = [rank EXCEPT ![o] = nextRank]
  /\ nextRank' = nextRank + 1
  /\ at' = [at EXCEPT ![o] = "commit"]
  /\ UNCHANGED <<ring, made, reply, signer, stamp, custody, time, dropVars>>

Commit(o) ==
  /\ at[o] = "commit"
  /\ custody' = custody \cup {o}
  /\ at' = [at EXCEPT ![o] = "tell"]
  /\ UNCHANGED <<ring, made, reply, signer, stamp, rank, nextRank, time, dropVars>>

(* A row that cannot be written keeps the signature in.                    *)
AuditFails(o) ==
  /\ at[o] \in {"append", "commit"}
  /\ Reply(o, "500")
  /\ UNCHANGED <<ring, made, signer, stamp, rank, nextRank, custody, time, dropVars>>

Tell(o) ==
  /\ at[o] = "tell"
  /\ Reply(o, IF o \in Maker \/ signer[o] # NoOne THEN "200" ELSE "403")
  /\ UNCHANGED <<ring, made, signer, stamp, rank, nextRank, custody, time, dropVars>>

Newer(o, log) == {q \in log : rank[q] > rank[o]}

(* trim_vault_audit_to: the id of the Backstop-th newest row, if there is  *)
(* one.                                                                    *)
SelectKept ==
  /\ sweep.at = "rest"
  /\ \/ /\ Cardinality(custody) < Backstop
        /\ sweep' = [at |-> "prune", now |-> time, keep |-> 0]
     \/ \E o \in custody :
          /\ Cardinality(Newer(o, custody)) = Backstop - 1
          /\ sweep' = [at |-> "trim", now |-> time, keep |-> rank[o]]
  /\ UNCHANGED <<ring, made, requestVars, nextRank, custody, time, aged, trimmed>>

Trim ==
  LET gone == {o \in custody : rank[o] < sweep.keep} IN
  /\ sweep.at = "trim"
  /\ custody' = custody \ gone /\ trimmed' = trimmed \cup gone
  /\ sweep' = [sweep EXCEPT !.at = "prune"]
  /\ UNCHANGED <<ring, made, requestVars, nextRank, time, aged>>

(* prune_vault_audit_older_than: the cutoff is of the sweep's start.       *)
PruneAudit ==
  LET gone == {o \in custody : stamp[o] + Window < sweep.now} IN
  /\ sweep.at = "prune"
  /\ custody' = custody \ gone /\ aged' = aged \cup gone
  /\ sweep' = Resting
  /\ UNCHANGED <<ring, made, requestVars, nextRank, time, trimmed>>

TimePasses ==
  /\ time < MaxTime
  /\ time' = time + 1
  /\ UNCHANGED <<ring, made, requestVars, nextRank, custody, dropVars>>

(* The process ends, with the requests and the sweep in hand.              *)
CustodyStops ==
  /\ at' = [o \in Order |-> IF at[o] \in {"append", "commit", "tell"} THEN "lost" ELSE at[o]]
  /\ sweep' = Resting
  /\ at' # at \/ sweep' # sweep
  /\ UNCHANGED <<ring, made, reply, signer, stamp, rank, nextRank, custody, time, aged, trimmed>>

CustodyNext ==
  \/ \E o \in Maker : CreateKey(o)
  \/ \E o \in Order : Sign(o) \/ Append(o) \/ Commit(o) \/ AuditFails(o) \/ Tell(o)
  \/ SelectKept \/ Trim \/ PruneAudit \/ TimePasses \/ CustodyStops

CustodySpec == CustodyInit /\ [][CustodyNext]_custodyVars

-----------------------------------------------------------------------------
(* Types of every variable.                                                *)
CustodyTypeOK ==
  /\ ring \in [KeyId -> [by: Maker \cup {NoOne}, operators: SUBSET Operator]]
  /\ made \in [Maker -> {"open", "stored", "refused", "void"}]
  /\ at \in [Order -> {"new", "append", "commit", "tell", "done", "lost"}]
  /\ reply \in [Order -> {"none", "200", "403", "409", "500"}]
  /\ signer \in [Order -> Maker \cup {NoOne}] /\ stamp \in [Order -> 0..MaxTime]
  /\ rank \in [Order -> 0..(nextRank - 1)] /\ custody \subseteq Signed
  /\ sweep \in [at: {"rest", "trim", "prune"}, now: 0..MaxTime, keep: Nat]
  /\ aged \subseteq Signed /\ trimmed \subseteq Signed /\ time \in 0..MaxTime

(* The key whose public half was answered, and pinned, is the key of its   *)
(* id for good: every signature under that id verifies against it, however *)
(* many creations of the id there were.                                    *)
PinnedKeySigns ==
  /\ \A o \in Maker : reply[o] = "200" => ring[AskOf[o].key].by = o
  /\ \A o \in Signed : signer[o] # NoOne =>
       /\ ring[AskOf[o].key].by = signer[o]
       /\ AskOf[o].operator \in ring[AskOf[o].key].operators

(* Every answer to a request for a signature, a refusal too, is on record, *)
(* until age or a full log takes it.                                       *)
AnsweredIsOnRecord ==
  \A o \in Signed : reply[o] \in {"200", "403"} => o \in custody \cup aged \cup trimmed

(* A row goes only when it is older than the window, or under as many      *)
(* newer ones as the log is trimmed to: a few requests do not flush it.    *)
OnlyAgeOrDepthEvicts ==
  /\ \A o \in aged : stamp[o] + Window < time
  /\ \A o \in trimmed : Cardinality(Newer(o, custody \cup aged \cup trimmed)) >= Backstop

(* What custody promises: pinned keys stay, what was asked of them is on   *)
(* record, and the record is not flushed by use.                           *)
CustodyIsKept ==
  /\ CustodyTypeOK
  /\ PinnedKeySigns
  /\ AnsweredIsOnRecord
  /\ OnlyAgeOrDepthEvicts
=============================================================================
