---------------------------- MODULE MCVaultCreds ----------------------------
(* Credentials: two enrollments, the second sealed and with a narrower     *)
(* scope; rotations with and without a sealing key; a revocation; a        *)
(* dispense to a node of both scopes and one to a node of the first only.  *)
(* Signing: two creations of one key for different operators, and a        *)
(* signature for each of the two.  The two sides of the vault share        *)
(* nothing: one of them at a time.                                         *)
EXTENDS VaultCreds, SigningCustody, TLC

CONSTANTS n1, n2, k1, ann, bob, make, makeAgain, sign1, sign2

VARIABLE agenda

MCJobOf ==
  LET job(kind, sealed, scope, node) ==
        [kind |-> kind, sealed |-> sealed, scope |-> scope, node |-> node]
  IN [enrollPlain  |-> job("enroll", FALSE, {n1, n2}, n1),
      enrollSealed |-> job("enroll", TRUE, {n1}, n1),
      rotatePlain  |-> job("rotate", FALSE, {}, n1),
      revoke       |-> job("revoke", FALSE, {}, n1),
      seal         |-> job("seal", FALSE, {}, n1),
      fetch1       |-> job("dispense", FALSE, {}, n1),
      fetch2       |-> job("dispense", FALSE, {}, n2)]
MCRequest == DOMAIN MCJobOf

MCAskOf ==
  LET create(operators) == [kind |-> "create", key |-> k1, operators |-> operators, operator |-> ann]
      sign(operator) == [kind |-> "sign", key |-> k1, operators |-> {}, operator |-> operator]
  IN (make :> create({ann})) @@ (makeAgain :> create({ann, bob}))
     @@ (sign1 :> sign(ann)) @@ (sign2 :> sign(bob))

On(name) == agenda = name

MCInit == agenda \in {"credentials", "signing"} /\ Init /\ CustodyInit

Action ==
  \/ On("credentials") /\ Next /\ UNCHANGED custodyVars
  \/ On("signing") /\ CustodyNext /\ UNCHANGED vars

MCSpec == MCInit /\ [][Action /\ UNCHANGED agenda]_<<vars, custodyVars, agenda>>
=============================================================================
