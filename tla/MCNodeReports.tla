--------------------------- MODULE MCNodeReports ---------------------------
(* Heals, facts and reputations share nothing but the process: one of the  *)
(* three at a time.                                                        *)
EXTENDS NodeReports, TLC
CONSTANTS c1, c2, c3, x, y, u1, quar, deg, note1, note2, v, s1, s2, s3, s4

VARIABLE agenda

MCCutOf == (c1 :> x) @@ (c2 :> x) @@ (c3 :> y)

Vouch(id, covers, root) == [NoBody EXCEPT !.id = id, !.attests = TRUE, !.run = u1, !.covers = covers, !.root = root]
Revoke(id, target) == [NoBody EXCEPT !.id = id, !.attests = TRUE, !.run = u1, !.revokes = target]

(* Attestations of a fact and of a branch, under ids of their own and under *)
(* one the run mints; revocations, one of no run; a crossing.               *)
MCBody ==
  {Vouch(note1, {quar}, v), Vouch(deg, {quar}, None), Vouch(note2, {quar, deg}, v),
   Revoke(note2, note1), Revoke(deg, note1), [Revoke(note2, note1) EXCEPT !.run = None],
   [NoBody EXCEPT !.id = note1, !.hot = TRUE], [NoBody EXCEPT !.id = note2, !.hot = TRUE, !.run = u1]}

MCVersion == (s1 :> 1) @@ (s2 :> 2) @@ (s3 :> 2) @@ (s4 :> 3)

On(name) == agenda = name

MCInit ==
  /\ agenda \in {"heals", "facts", "reputation"}
  /\ ReportsInit
  /\ On("heals") \/ \A p, q \in Check : verdict[p] = verdict[q]

(* An end with nothing in hand ends nothing.                                *)
Ends == Dies /\ <<pc, at, stage, step>>' # <<pc, at, stage, step>>

Action ==
  \/ On("heals") /\ (Heals \/ Ends)
  \/ On("facts") /\ (Attests \/ Ends)
  \/ On("reputation") /\ (Reputes \/ Ends)

MCSpec == MCInit /\ [][Action /\ UNCHANGED agenda]_<<reportVars, agenda>>

Symmetry == Permutations(Check) \cup Permutations(Verdict) \cup Permutations(Request)
=============================================================================
