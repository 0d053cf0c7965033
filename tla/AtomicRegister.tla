--------------------------- MODULE AtomicRegister ---------------------------
(***************************************************************************)
(* What the desired-state store promises its callers, whatever the number  *)
(* of handlers at work: each accepted request is applied in one            *)
(* indivisible step to the row as it is at that moment, at most once, and  *)
(* a versioned command only on the version it was signed on top of; a      *)
(* request that is not applied leaves the row alone.                       *)
(***************************************************************************)
EXTENDS DesiredRow

VARIABLES
  reg,      \* the row
  want,     \* want[r]: the job submitted as request r
  outcome   \* outcome[r]: "new", "open", "applied", or "void" (ended without a write)

regVars == <<reg, want, outcome>>

RInit ==
  /\ reg = NoRow
  /\ want = [r \in Req |-> NoJob]
  /\ outcome = [r \in Req |-> "new"]

Submit(r) ==
  /\ outcome[r] = "new"
  /\ want' \in [Req -> Job]
  /\ \A q \in Req \ {r} : want'[q] = want[q]
  /\ outcome' = [outcome EXCEPT ![r] = "open"]
  /\ UNCHANGED reg

ApplyAtomically(r) ==
  /\ outcome[r] = "open"
  /\ want[r].kind = "command" => reg.version = want[r].expect
  /\ reg' = Merge(reg, want[r], r)
  /\ outcome' = [outcome EXCEPT ![r] = "applied"]
  /\ UNCHANGED want

EndWithoutWrite(S) ==
  /\ \A r \in S : outcome[r] \in {"new", "open"}
  /\ outcome' = [r \in Req |-> IF r \in S THEN "void" ELSE outcome[r]]
  /\ UNCHANGED <<reg, want>>

RNext ==
  \/ \E r \in Req : Submit(r) \/ ApplyAtomically(r)
  \/ \E S \in SUBSET Req : EndWithoutWrite(S)

RSpec == RInit /\ [][RNext]_regVars
=============================================================================
