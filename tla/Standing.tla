------------------------------ MODULE Standing ------------------------------
(***************************************************************************)
(* What holds a node down and what lifts it: the facts its runs recorded,  *)
(* the facts operators append to the plane's own log (attestations, which  *)
(* cover recorded facts or revoke one another, and crossings of a heat     *)
(* threshold), and the reputation its sentinel posts.                      *)
(*                                                                         *)
(* An attestation is checked against its run in one transaction and        *)
(* appended in another, while the node goes on recording and retention     *)
(* goes on deleting.  A reputation is selected, and then written without   *)
(* a condition.                                                            *)
(***************************************************************************)
EXTENDS Naturals, FiniteSets

CONSTANTS
  Run,
  FactId,
  Minted,     \* the fact ids a run mints; they start over with the node (external)
  Request,    \* appends to the fact log
  Body,       \* what they carry: [id, attests, run, covers, revokes, root, hot]
  Root,       \* the value branches of a run
  Snapshot,   \* posts of a reputation
  Version,    \* Version[s]: a resend repeats the version
  Flagged,    \* the snapshots that flag a resource
  None,
  MaxMints    \* bound: facts the runs record

ASSUME StandingAssumption ==
  /\ Minted \subseteq FactId /\ MaxMints \in Nat
  /\ Body \subseteq [id: FactId, attests: BOOLEAN, run: Run \cup {None}, covers: SUBSET Minted,
                     revokes: FactId \cup {None}, root: Root \cup {None}, hot: BOOLEAN]
  /\ None \notin Run \cup FactId \cup Root \cup Snapshot
  /\ Version \in [Snapshot -> Nat \ {0}] /\ Flagged \subseteq Snapshot
  /\ Request \cap Snapshot = {}

VARIABLES
  recorded,   \* recorded[u][f]: when run u last recorded fact f, or 0
  mints,      \* the facts recorded so far
  stage,      \* stage[r]: where append r is
  note,       \* note[r]: what it carries
  stored,     \* the appends whose row is in the fact log
  seen,       \* history: seen[r]: what the run of r had recorded when r was checked
  held,       \* the node's reputation row: the snapshot in it, or None
  step,       \* step[s]: where post s is
  found,      \* found[s]: the row s selected
  landed,     \* history: the posts that were written
  raced,      \* history: those of them that wrote over a row they had not selected
  paged       \* the appends and posts that called the operator

factVars == <<recorded, mints, stage, note, stored, seen>>
reputationVars == <<held, step, found, landed, raced>>
standingVars == <<factVars, reputationVars, paged>>

NoBody == [id |-> None, attests |-> FALSE, run |-> None, covers |-> {}, revokes |-> None,
           root |-> None, hot |-> FALSE]
Nothing == [f \in Minted |-> 0]

StandingInit ==
  /\ recorded = [u \in Run |-> Nothing] /\ mints = 0
  /\ stage = [r \in Request |-> "idle"] /\ note = [r \in Request |-> NoBody]
  /\ stored = {} /\ seen = [r \in Request |-> Nothing]
  /\ held = None /\ step = [s \in Snapshot |-> "idle"] /\ found = [s \in Snapshot |-> None]
  /\ landed = {} /\ raced = {} /\ paged = {}

-----------------------------------------------------------------------------
(* facts_of_run: the ids a run has recorded, the later fact under its id.  *)
Facts(u) == {f \in Minted : recorded[u][f] > 0}

(* Telemetry stores a fact of the node.                                    *)
Record(u, f) ==
  /\ mints < MaxMints
  /\ mints' = mints + 1
  /\ recorded' = [recorded EXCEPT ![u] = [@ EXCEPT ![f] = mints + 1]]
  /\ UNCHANGED <<stage, note, stored, seen, reputationVars, paged>>

(* Retention deletes a run with its events; the fact log is kept.          *)
PruneRun(u) ==
  /\ recorded[u] # Nothing
  /\ recorded' = [recorded EXCEPT ![u] = Nothing]
  /\ UNCHANGED <<mints, stage, note, stored, seen, reputationVars, paged>>

Vouches(b) == b.covers # {} \/ b.root # None

(* _check_attestation: what vouches for something names its run.           *)
Placed(b) == b.attests /\ Vouches(b) => b.run # None

(* _check_run_scope: an attestation covers facts its run recorded, and     *)
(* takes the id of none.                                                   *)
InScope(b) ==
  b.attests /\ b.run # None => b.id \notin Facts(b.run) /\ b.covers \subseteq Facts(b.run)

(* append_fact up to the check: what is refused here changes nothing.      *)
Vet(r, b) ==
  /\ stage[r] = "idle" /\ Placed(b)
  /\ IF InScope(b)
     THEN /\ note' = [note EXCEPT ![r] = b]
          /\ stage' = [stage EXCEPT ![r] = "append"]
          /\ seen' = [seen EXCEPT ![r] = IF b.run # None THEN recorded[b.run] ELSE Nothing]
     ELSE stage' = [stage EXCEPT ![r] = "refused"] /\ UNCHANGED <<note, seen>>
  /\ UNCHANGED <<recorded, mints, stored, reputationVars, paged>>

(* Store.append_fact: the primary key decides, not the SELECT before it.   *)
AppendFact(r) ==
  LET taken == \E q \in stored : note[q].id = note[r].id
  IN
  /\ stage[r] = "append"
  /\ stored' = IF taken THEN stored ELSE stored \cup {r}
  /\ stage' = [stage EXCEPT ![r] = IF taken THEN "refused" ELSE "tell"]
  /\ UNCHANGED <<recorded, mints, note, seen, reputationVars, paged>>

(* The fact is published, and a crossing calls the operator.               *)
TellFact(r) ==
  /\ stage[r] = "tell"
  /\ stage' = [stage EXCEPT ![r] = "done"]
  /\ paged' = IF note[r].hot THEN paged \cup {r} ELSE paged
  /\ UNCHANGED <<recorded, mints, note, stored, seen, reputationVars>>

-----------------------------------------------------------------------------
(* put_reputation, its SELECT: a version no newer than the row's is not    *)
(* news.                                                                   *)
SelectReputation(s) ==
  /\ step[s] = "idle"
  /\ IF held # None /\ Version[held] >= Version[s]
     THEN step' = [step EXCEPT ![s] = "refused"] /\ UNCHANGED found
     ELSE step' = [step EXCEPT ![s] = "write"] /\ found' = [found EXCEPT ![s] = held]
  /\ UNCHANGED <<factVars, held, landed, raced, paged>>

(* Its INSERT, which the primary key refuses if there is a row by now, or  *)
(* its UPDATE, which asks nothing of the row.                              *)
PutReputation(s) ==
  /\ step[s] = "write"
  /\ IF found[s] = None /\ held # None
     THEN step' = [step EXCEPT ![s] = "failed"] /\ UNCHANGED <<held, landed, raced>>
     ELSE /\ step' = [step EXCEPT ![s] = "tell"]
          /\ held' = s
          /\ landed' = landed \cup {s}
          /\ raced' = IF held # found[s] THEN raced \cup {s} ELSE raced
  /\ UNCHANGED <<factVars, found, paged>>

(* A snapshot that flags a resource calls the operator.                    *)
TellReputation(s) ==
  /\ step[s] = "tell"
  /\ step' = [step EXCEPT ![s] = "done"]
  /\ paged' = IF s \in Flagged THEN paged \cup {s} ELSE paged
  /\ UNCHANGED <<factVars, held, found, landed, raced>>

(* The process ends with its handlers.                                     *)
StandingStops ==
  /\ stage' = [r \in Request |-> IF stage[r] \in {"append", "tell"} THEN "lost" ELSE stage[r]]
  /\ step' = [s \in Snapshot |-> IF step[s] \in {"write", "tell"} THEN "lost" ELSE step[s]]
  /\ UNCHANGED <<recorded, mints, note, stored, seen, held, found, landed, raced, paged>>

FactStep ==
  \/ \E u \in Run : PruneRun(u) \/ \E f \in Minted : Record(u, f)
  \/ \E r \in Request : AppendFact(r) \/ TellFact(r) \/ \E b \in Body : Vet(r, b)

ReputationStep ==
  \E s \in Snapshot : SelectReputation(s) \/ PutReputation(s) \/ TellReputation(s)

StandingNext == FactStep \/ ReputationStep \/ StandingStops

StandingSpec == StandingInit /\ [][StandingNext]_standingVars

-----------------------------------------------------------------------------
(* The attestations in the log that name a run.                            *)
Log(u) == {r \in stored : note[r].attests /\ note[r].run = u}

(* coverage: the attestations that apply.  One whose id the run has taken  *)
(* does not: the run wins.                                                 *)
Applied(u) == {r \in Log(u) : note[r].id \notin Facts(u)}

Revoking(rs) == {note[q].revokes : q \in rs}

Discharging(u) == {r \in Applied(u) : note[r].id \notin Revoking(Applied(u))}

Discharged(u) == UNION {note[r].covers : r \in Discharging(u)}

(* Fault: the two logs are merged the other way.                           *)
BugHolding(u) == {f \in Facts(u) \ Discharged(u) : \A r \in Log(u) : note[r].id # f}

(* The recorded facts a node's level is the worst of.                      *)
Holding(u) == Facts(u) \ Discharged(u)

(* covering: the attestations of one branch that are shown as in effect.   *)
Attesting(u, ref) == {r \in Log(u) : note[r].revokes = None /\ note[r].root = ref}
InEffect(u, ref) == {r \in Attesting(u, ref) : note[r].id \notin Revoking(Log(u))}

(* ------------------------------------------------------------------------ *)

(* Types, and the rows of the fact log have distinct ids.                  *)
StandingTypeOK ==
  /\ recorded \in [Run -> [Minted -> 0..MaxMints]] /\ mints \in 0..MaxMints
  /\ stage \in [Request -> {"idle", "append", "refused", "tell", "done", "lost"}]
  /\ note \in [Request -> Body \cup {NoBody}]
  /\ stored \subseteq Request /\ seen \in [Request -> [Minted -> 0..MaxMints]]
  /\ held \in Snapshot \cup {None} /\ found \in [Snapshot -> Snapshot \cup {None}]
  /\ step \in [Snapshot -> {"idle", "write", "refused", "failed", "tell", "done", "lost"}]
  /\ landed \subseteq Snapshot /\ raced \subseteq landed /\ paged \subseteq Request \cup Snapshot

(* A recorded fact stops holding its node down only by an attestation that *)
(* stands: it is of that run, nothing that applies revokes it, and the     *)
(* fact's name was there to be checked when it was checked.  Not by losing *)
(* its id, nor by being named before it was recorded.                      *)
DischargeIsEarned ==
  \A u \in Run : \A f \in Facts(u) \ Holding(u) :
    \E r \in stored :
      /\ note[r].run = u /\ f \in note[r].covers /\ seen[r][f] > 0
      /\ \A q \in Applied(u) : note[q].revokes # note[r].id

(* An attestation loses its id to its run, and with it its effect, only by *)
(* a fact recorded after it was checked.                                   *)
OnlyLateFactsShadow ==
  \A u \in Run : \A r \in Log(u) \ Applied(u) : seen[r][note[r].id] # recorded[u][note[r].id]

(* The level and the history of a branch, two folds of one log, agree on   *)
(* whether an attestation stands, unless a late fact has taken the id of   *)
(* it or of what revokes it.                                               *)
SurfacesAgree ==
  \A u \in Run, ref \in Root : \A r \in Attesting(u, ref) :
    \/ r \in InEffect(u, ref) <=> r \in Discharging(u)
    \/ \E q \in Log(u) \ Applied(u) : q = r \/ note[q].revokes = note[r].id

(* A reputation gives way to an older one only where two posts overlapped. *)
OnlyOverlapGoesBack ==
  \A s \in landed : held # None /\ (Version[held] < Version[s] => \E t \in raced : Version[t] < Version[s])

(* A crossing or a flag that was answered has called the operator, once:   *)
(* two posts of one version both call only where they overlapped.          *)
NewsIsTold ==
  /\ \A r \in Request : stage[r] = "done" /\ note[r].hot => r \in paged
  /\ \A q, r \in Request \cap paged : note[q].id = note[r].id => q = r
  /\ \A s \in Flagged : step[s] = "done" => s \in paged
  /\ \A s, t \in Snapshot \cap paged : s # t /\ Version[s] = Version[t] => raced # {}

(* A node's standing rises and falls on evidence: facts are discharged by  *)
(* checked attestations that stand, reputation moves on, and the operator  *)
(* hears of both.                                                          *)
StandingIsEarned ==
  /\ StandingTypeOK
  /\ DischargeIsEarned
  /\ OnlyLateFactsShadow
  /\ SurfacesAgree
  /\ OnlyOverlapGoesBack
  /\ NewsIsTold

(* Not kept: a name that its run mints again is covered by what vouched    *)
(* for the fact that had it before ("an attestation of a fact that has not *)
(* happened yet").                                                         *)
OnlyThePastIsAttested ==
  \A u \in Run : \A f \in Facts(u) \cap Discharged(u) :
    \E r \in Discharging(u) : f \in note[r].covers /\ seen[r][f] = recorded[u][f]

(* Not kept: a revocation that names no run, or another, is answered 201   *)
(* and revokes nothing.                                                    *)
RevocationIsHeard ==
  \A q \in Request : stage[q] = "done" /\ note[q].attests =>
    \A u \in Run : \A r \in Discharging(u) : note[r].id # note[q].revokes

(* Not kept: a snapshot never gives way to an older one.                   *)
NeverWalkedBack ==
  [][held # None => Version[held'] >= Version[held]]_standingVars
=============================================================================
