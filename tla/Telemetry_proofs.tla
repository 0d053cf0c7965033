-------------------------- MODULE Telemetry_proofs --------------------------
(***************************************************************************)
(* EffectIsOnce and OnePagePerSilence for any number of reports, handlers, *)
(* monitors, sends and crashes.  A report has at most one handler that     *)
(* stored it, and that one folds it before it answers; and a row that is   *)
(* not flagged has not been paged since its heartbeat.                     *)
(***************************************************************************)
EXTENDS Telemetry, FiniteSetTheorems, TLAPS

(* Handlers past the commit of a report they stored, folded or not yet.    *)
Folded(h) == pc[h] \in {"emit", "note", "insert", "answer"} /\ ~replay[h]
Storing(h) == Folding(h) \/ Folded(h)

TypesOK ==
  /\ TypeOK
  /\ replay \in [Handler -> BOOLEAN] /\ found \in [Handler -> BOOLEAN]
  /\ folds \in [Report -> {0, 1}] /\ replayed \subseteq Report
  /\ pages \in [0..(2 * Reports) -> {0, 1}]

(* What the stage of a handler says of its report.                         *)
StagesFit ==
  \A h \in Handler :
    /\ of[h] <= acked + 1
    /\ pc[h] \notin {"idle", "ingest"} => of[h] \in accepted
    /\ pc[h] \in {"prior", "select", "write", "emit"} => ~replay[h]
    /\ Folding(h) => folds[of[h]] = 0
    /\ Folded(h) => folds[of[h]] = 1

(* A report is stored by one handler.                                      *)
StoredByOne == \A g, h \in Handler : Storing(g) /\ Storing(h) /\ of[g] = of[h] => g = h

(* What the node has a 202 for was answered, and nothing is newer than     *)
(* what it sends.                                                          *)
AckedIsAnswered ==
  /\ row.report <= acked + 1
  /\ \A n \in Report : n <= acked => n \in fresh \cup replayed
  /\ \A n \in Report : n \notin accepted => folds[n] = 0

(* The row counts its folds, so they stay below the bound on heartbeats.   *)
FoldedReports == {n \in Report : folds[n] = 1}
BeatsAreFolds == row.beats = Cardinality(FoldedReports)

(* What is still to be paged has not been.                                 *)
UnflaggedIsUnpaged ==
  \A b \in 0..(2 * Reports) : b > row.beats \/ (b = row.beats /\ ~row.flagged) => pages[b] = 0

IInv ==
  /\ TypesOK
  /\ StagesFit
  /\ StoredByOne
  /\ AckedIsAnswered
  /\ FreshIsFolded
  /\ OnlyCutIsUnfolded
  /\ BeatsAreFolds
  /\ UnflaggedIsUnpaged

-----------------------------------------------------------------------------
LEMMA Bounds ==
  /\ Reports \in Nat /\ 2 * Reports \in Nat /\ Reports <= 2 * Reports
  /\ \A n \in Report : n \in Nat /\ n > 0 /\ n <= Reports
<1>1. Reports \in Nat
  BY TelemetryAssumption
<1> QED BY <1>1 DEF Report

LEMMA NoRowTyped == NoRow \in RowType /\ Off \in [at: {"idle", "listed", "claimed"}, listed: RowType, now: 0..MaxClock]
<1>2. 0 \in 0..MaxClock /\ 0 \in 0..Reports /\ 0 \in 0..(2 * Reports)
  BY TelemetryAssumption
<1>1. NoRow \in RowType
  BY <1>2 DEF NoRow, RowType
<1> QED BY <1>1, <1>2 DEF Off

LEMMA InitHolds == Init => IInv
<1> SUFFICES ASSUME Init PROVE IInv
  OBVIOUS
<1>1. TypesOK
  <2>1. TypeOK
    <3>1. 1 \in Report /\ 0 \in 0..Reports /\ 0 \in 0..MaxClock
      BY TelemetryAssumption DEF Report
    <3>2. NoRow.report = 0 /\ NoRow.beats = 0 /\ NoRow.ts <= 0
      BY DEF NoRow
    <3> QED BY <3>1, <3>2, NoRowTyped DEF Init, TypeOK
  <2> QED BY <2>1 DEF Init, TypesOK
<1>2. StagesFit /\ StoredByOne
  BY DEF Init, StagesFit, StoredByOne, Storing, Folding, Folded
<1>3. AckedIsAnswered /\ FreshIsFolded /\ OnlyCutIsUnfolded
  BY Bounds DEF Init, AckedIsAnswered, FreshIsFolded, OnlyCutIsUnfolded, NoRow
<1>4. BeatsAreFolds
  <2>1. FoldedReports = {}
    BY DEF Init, FoldedReports
  <2> QED BY <2>1, FS_EmptySet DEF Init, BeatsAreFolds, NoRow
<1>5. UnflaggedIsUnpaged
  BY DEF Init, UnflaggedIsUnpaged
<1> QED BY <1>1, <1>2, <1>3, <1>4, <1>5 DEF IInv

(* What a step that leaves the row and the pages alone keeps.              *)
LEMMA RowSame ==
  ASSUME IInv, UNCHANGED <<row, folds, pages>>
  PROVE  BeatsAreFolds' /\ UnflaggedIsUnpaged'
<1>1. FoldedReports' = FoldedReports
  BY DEF FoldedReports
<1> QED BY <1>1 DEF IInv, BeatsAreFolds, UnflaggedIsUnpaged

(* And one that leaves the handlers and what they answered alone.          *)
LEMMA HandlersSame ==
  ASSUME IInv, UNCHANGED <<pc, of, replay, acked, accepted, folds, fresh, replayed, cut>>,
         row'.report = row.report
  PROVE  /\ StagesFit' /\ StoredByOne' /\ AckedIsAnswered'
         /\ FreshIsFolded' /\ OnlyCutIsUnfolded'
<1>1. StagesFit' /\ StoredByOne'
  BY DEF IInv, StagesFit, StoredByOne, Storing, Folding, Folded
<1>2. AckedIsAnswered'
  BY DEF IInv, AckedIsAnswered
<1>3. FreshIsFolded' /\ OnlyCutIsUnfolded'
  BY DEF IInv, FreshIsFolded, OnlyCutIsUnfolded, Folding
<1> QED BY <1>1, <1>2, <1>3

-----------------------------------------------------------------------------
LEMMA SendStep ==
  ASSUME IInv, NEW h \in Handler, Send(h), UNCHANGED <<watchVars, clock, crashes>>
  PROVE  IInv'
<1> USE DEF Send, Goto, histVars, watchVars
<1>1. acked + 1 \in Report
  BY Bounds DEF IInv, TypesOK, TypeOK, Report
<1>2. TypesOK'
  BY <1>1 DEF IInv, TypesOK, TypeOK
<1>3. StagesFit'
  BY DEF IInv, TypesOK, TypeOK, StagesFit, Folding, Folded
<1>4. StoredByOne'
  BY DEF IInv, TypesOK, TypeOK, StoredByOne, Storing, Folding, Folded
<1>5. AckedIsAnswered' /\ FreshIsFolded'
  BY DEF IInv, AckedIsAnswered, FreshIsFolded
<1>6. OnlyCutIsUnfolded'
  BY DEF IInv, TypesOK, TypeOK, OnlyCutIsUnfolded, Folding
<1> QED BY <1>2, <1>3, <1>4, <1>5, <1>6, RowSame DEF IInv

LEMMA IngestStep ==
  ASSUME IInv, NEW h \in Handler, Ingest(h), UNCHANGED <<watchVars, clock, crashes>>
  PROVE  IInv'
<1> USE DEF Ingest, IngestAs, Goto, histVars, nodeVars, watchVars
<1>0. of[h] \in Report
  BY DEF IInv, TypesOK, TypeOK
<1>1. TypesOK'
  BY <1>0 DEF IInv, TypesOK, TypeOK
<1>2. StagesFit'
  BY <1>0 DEF IInv, TypesOK, TypeOK, StagesFit, AckedIsAnswered, Folding, Folded
<1>3. StoredByOne'
  <2>1. \A g \in Handler : g # h => pc'[g] = pc[g] /\ replay'[g] = replay[g]
    BY DEF IInv, TypesOK, TypeOK
  <2>2. \A g \in Handler : g # h /\ Storing(g)' => Storing(g) /\ of[g] \in accepted
    BY <2>1 DEF IInv, StagesFit, Storing, Folding, Folded
  <2>3. Storing(h)' => of[h] \notin accepted
    BY DEF IInv, TypesOK, TypeOK, Storing, Folding, Folded
  <2> QED BY <2>2, <2>3 DEF IInv, StoredByOne
<1>4. AckedIsAnswered' /\ FreshIsFolded'
  BY DEF IInv, AckedIsAnswered, FreshIsFolded
<1>5. OnlyCutIsUnfolded'
  BY <1>0 DEF IInv, TypesOK, TypeOK, OnlyCutIsUnfolded, Folding
<1> QED BY <1>1, <1>2, <1>3, <1>4, <1>5, RowSame DEF IInv

(* The reads of a fold.                                                    *)
LEMMA ReadStep ==
  ASSUME IInv, NEW h \in Handler, ReadPrior(h) \/ SelectRow(h),
         UNCHANGED <<watchVars, clock, crashes>>
  PROVE  IInv'
<1> USE DEF ReadPrior, SelectRow, Goto, histVars, nodeVars, watchVars
<1>1. TypesOK'
  BY DEF IInv, TypesOK, TypeOK
<1>2. StagesFit'
  BY DEF IInv, TypesOK, TypeOK, StagesFit, Folding, Folded
<1>3. StoredByOne'
  BY DEF IInv, TypesOK, TypeOK, StoredByOne, Storing, Folding, Folded
<1>4. AckedIsAnswered' /\ FreshIsFolded'
  BY DEF IInv, AckedIsAnswered, FreshIsFolded
<1>5. OnlyCutIsUnfolded'
  BY DEF IInv, TypesOK, TypeOK, OnlyCutIsUnfolded, Folding
<1> QED BY <1>1, <1>2, <1>3, <1>4, <1>5, RowSame DEF IInv

(* A fold makes one heartbeat more, and there are no more than reports.    *)
LEMMA OneMoreBeat ==
  ASSUME IInv, NEW n \in Report, folds[n] = 0, folds' = [folds EXCEPT ![n] = @ + 1]
  PROVE  /\ Cardinality(FoldedReports') = row.beats + 1
         /\ row.beats + 1 <= Reports
         /\ folds' \in [Report -> {0, 1}] /\ folds'[n] = 1
<1>1. IsFiniteSet(Report) /\ Cardinality(Report) = Reports
  <2>1. 1 \in Int /\ Reports \in Int /\ ~(1 > Reports)
    BY TelemetryAssumption
  <2>2. Cardinality(1..Reports) = Reports - 1 + 1 /\ IsFiniteSet(1..Reports)
    BY <2>1, FS_Interval
  <2> QED BY <2>1, <2>2 DEF Report
<1>2. folds' \in [Report -> {0, 1}] /\ folds'[n] = 1
  BY DEF IInv, TypesOK
<1>3. FoldedReports' = FoldedReports \cup {n} /\ n \notin FoldedReports
  BY <1>2 DEF IInv, TypesOK, FoldedReports
<1>4. FoldedReports \in SUBSET Report /\ FoldedReports' \in SUBSET Report
  BY DEF FoldedReports
<1>5. IsFiniteSet(FoldedReports) /\ IsFiniteSet(FoldedReports') /\ Cardinality(FoldedReports') <= Reports
  BY <1>1, <1>4, FS_Subset
<1>6. Cardinality(FoldedReports') = Cardinality(FoldedReports) + 1
  BY <1>3, <1>5, FS_AddElement
<1> QED BY <1>2, <1>5, <1>6 DEF IInv, BeatsAreFolds

LEMMA WriteRowStep ==
  ASSUME IInv, NEW h \in Handler, WriteRow(h), UNCHANGED <<watchVars, clock, crashes>>
  PROVE  IInv'
<1> USE DEF Goto, nodeVars, watchVars
<1>0. of[h] \in Report /\ pc[h] = "write" /\ Folding(h) /\ folds[of[h]] = 0
  BY DEF IInv, TypesOK, TypeOK, StagesFit, WriteRow, Folding
<1>1. CASE ~found[h] /\ row.report # 0 /\ Fail(h) /\ cut' = cut \cup {of[h]}
  <2> USE <1>1 DEF Fail, WriteRow
  <2>1. TypesOK'
    BY <1>0 DEF IInv, TypesOK, TypeOK
  <2>2. StagesFit'
    BY DEF IInv, TypesOK, TypeOK, StagesFit, Folding, Folded
  <2>3. StoredByOne'
    BY DEF IInv, TypesOK, TypeOK, StoredByOne, Storing, Folding, Folded
  <2>4. AckedIsAnswered' /\ FreshIsFolded'
    BY DEF IInv, AckedIsAnswered, FreshIsFolded
  <2>5. OnlyCutIsUnfolded'
    BY DEF IInv, TypesOK, TypeOK, OnlyCutIsUnfolded, Folding
  <2> QED BY <2>1, <2>2, <2>3, <2>4, <2>5, RowSame DEF IInv
<1>2. CASE /\ found[h] \/ row.report = 0
           /\ row' = [report |-> of[h], ts |-> clock, flagged |-> FALSE, beats |-> row.beats + 1]
           /\ folds' = [folds EXCEPT ![of[h]] = @ + 1]
           /\ pc' = [pc EXCEPT ![h] = "emit"]
           /\ UNCHANGED <<active, cut>>
  <2>0. /\ UNCHANGED <<acked, of, sends, accepted, replay, found, fresh, replayed, mon, pages, sent, clock>>
        /\ row.beats \in Nat /\ row.report \in Nat
    BY Bounds DEF WriteRow, IInv, TypesOK, TypeOK, RowType
  <2>1. /\ Cardinality(FoldedReports') = row.beats + 1 /\ row.beats + 1 <= Reports
        /\ folds' \in [Report -> {0, 1}] /\ folds'[of[h]] = 1
    BY <1>0, <1>2, OneMoreBeat
  <2>2. TypesOK'
    <3>1. row' \in RowType /\ row'.report # 0 /\ row'.beats # 0 /\ row'.ts <= clock
      BY <1>0, <1>2, <2>0, <2>1, Bounds DEF IInv, TypesOK, TypeOK, RowType
    <3> QED BY <1>2, <2>0, <2>1, <3>1 DEF IInv, TypesOK, TypeOK
  <2>3. \A n \in Report : n # of[h] => folds'[n] = folds[n]
    BY <1>2, <1>0 DEF IInv, TypesOK
  <2>4. \A g \in Handler : g # h => pc'[g] = pc[g] /\ (Storing(g) => of[g] # of[h])
    BY <1>0, <1>2 DEF IInv, TypesOK, TypeOK, StoredByOne, Storing
  <2>5. pc'[h] = "emit" /\ of[h] \in accepted /\ ~replay[h] /\ of[h] <= acked + 1
    BY <1>0, <1>2 DEF IInv, TypesOK, TypeOK, StagesFit
  <2>6. StagesFit'
    <3> SUFFICES ASSUME NEW g \in Handler
                 PROVE  /\ of[g] <= acked + 1
                        /\ pc'[g] \notin {"idle", "ingest"} => of[g] \in accepted
                        /\ pc'[g] \in {"prior", "select", "write", "emit"} => ~replay[g]
                        /\ Folding(g)' => folds'[of[g]] = 0
                        /\ Folded(g)' => folds'[of[g]] = 1
      BY <2>0 DEF StagesFit
    <3>1. of[g] \in Report
      BY DEF IInv, TypesOK, TypeOK
    <3>2. CASE g = h
      BY <3>2, <2>1, <2>5 DEF Folding
    <3>3. CASE g # h
      BY <3>1, <3>3, <2>0, <2>3, <2>4 DEF IInv, StagesFit, Folding, Folded, Storing
    <3> QED BY <3>2, <3>3
  <2>7. StoredByOne'
    <3>1. \A g \in Handler : Storing(g)' => Storing(g)
      BY <1>0, <2>0, <2>4 DEF Storing, Folding, Folded
    <3> QED BY <2>0, <3>1 DEF IInv, StoredByOne
  <2>8. AckedIsAnswered'
    BY <1>0, <1>2, <2>0, <2>3, <2>5 DEF IInv, AckedIsAnswered
  <2>9. FreshIsFolded'
    BY <2>0, <2>1, <2>3 DEF IInv, TypesOK, TypeOK, FreshIsFolded
  <2>10. OnlyCutIsUnfolded'
    BY <1>2, <2>0, <2>1, <2>3, <2>4 DEF IInv, TypesOK, TypeOK, OnlyCutIsUnfolded, Folding
  <2>11. BeatsAreFolds'
    BY <1>2, <2>1 DEF BeatsAreFolds
  <2>12. UnflaggedIsUnpaged'
    BY <1>2, <2>0 DEF IInv, UnflaggedIsUnpaged
  <2> QED BY <2>2, <2>6, <2>7, <2>8, <2>9, <2>10, <2>11, <2>12 DEF IInv
<1> QED BY <1>1, <1>2 DEF WriteRow

(* The steps between the fold and the answer.                              *)
LEMMA AfterFoldStep ==
  ASSUME IInv, NEW h \in Handler, EmitClimb(h) \/ NoteActive(h) \/ InsertActive(h),
         UNCHANGED <<watchVars, clock, crashes>>
  PROVE  IInv'
<1>0. /\ pc[h] \in {"emit", "note", "insert"} /\ active' \in BOOLEAN
      /\ \E stage \in {"note", "insert", "answer", "idle"} : pc' = [pc EXCEPT ![h] = stage]
      /\ UNCHANGED <<nodeVars, accepted, replay, found, row, folds, fresh, replayed, cut, watchVars, clock>>
  BY DEF EmitClimb, NoteActive, InsertActive, Goto, Fail, histVars, IInv, TypesOK, TypeOK
<1> USE DEF nodeVars, watchVars
<1>1. PICK stage \in {"note", "insert", "answer", "idle"} : pc' = [pc EXCEPT ![h] = stage]
  BY <1>0
<1>2. TypesOK'
  BY <1>0, <1>1 DEF IInv, TypesOK, TypeOK
<1>3. \A g \in Handler : (Folding(g)' <=> Folding(g)) /\ (Folded(g)' => Folded(g))
  BY <1>0, <1>1 DEF IInv, TypesOK, TypeOK, StagesFit, Folding, Folded
<1>4. StagesFit'
  BY <1>0, <1>1, <1>3 DEF IInv, TypesOK, TypeOK, StagesFit
<1>5. StoredByOne'
  BY <1>0, <1>3 DEF IInv, StoredByOne, Storing
<1>6. AckedIsAnswered' /\ FreshIsFolded'
  BY <1>0 DEF IInv, AckedIsAnswered, FreshIsFolded
<1>7. OnlyCutIsUnfolded'
  BY <1>0, <1>3 DEF IInv, OnlyCutIsUnfolded
<1> QED BY <1>0, <1>2, <1>4, <1>5, <1>6, <1>7, RowSame DEF IInv

LEMMA AnswerStep ==
  ASSUME IInv, NEW h \in Handler, Answer(h), UNCHANGED <<watchVars, clock, crashes>>
  PROVE  IInv'
<1>0. of[h] \in Report /\ pc[h] = "answer" /\ acked \in 0..Reports
  BY DEF Answer, IInv, TypesOK, TypeOK
<1>a. /\ pc' = [pc EXCEPT ![h] = "idle"]
      /\ acked' = acked \/ (of[h] = acked + 1 /\ acked' = acked + 1)
      /\ UNCHANGED <<of, sends, accepted, replay, found, row, active, folds, cut, watchVars, clock>>
  BY DEF Answer, Goto
<1>b. \/ replay[h] /\ replayed' = replayed \cup {of[h]} /\ UNCHANGED fresh
      \/ ~replay[h] /\ fresh' = fresh \cup {of[h]} /\ UNCHANGED replayed
  BY DEF Answer
<1> USE DEF watchVars
<1>1. acked' \in 0..Reports /\ acked <= acked' /\ \A n \in Report : n <= acked' => n <= acked \/ n = of[h]
  BY <1>0, <1>a, Bounds
<1>2. TypesOK'
  BY <1>0, <1>a, <1>b, <1>1 DEF IInv, TypesOK, TypeOK
<1>3. \A g \in Handler : (Folding(g)' <=> Folding(g)) /\ (Folded(g)' => Folded(g))
  BY <1>0, <1>a DEF IInv, TypesOK, TypeOK, Folding, Folded
<1>4. StagesFit'
  <2>1. \A g \in Handler : of[g] <= acked' + 1
    BY <1>0, <1>1, Bounds DEF IInv, TypesOK, TypeOK, StagesFit
  <2> QED BY <1>0, <1>a, <1>3, <2>1 DEF IInv, TypesOK, TypeOK, StagesFit
<1>5. StoredByOne'
  BY <1>a, <1>3 DEF IInv, StoredByOne, Storing
<1>6. AckedIsAnswered'
  <2>1. row.report <= acked' + 1
    BY <1>0, <1>1, Bounds DEF IInv, TypesOK, TypeOK, RowType, AckedIsAnswered
  <2>2. fresh \cup replayed \cup {of[h]} = (fresh \cup replayed)'
    BY <1>b
  <2> QED BY <1>1, <1>a, <2>1, <2>2 DEF IInv, AckedIsAnswered
<1>7. FreshIsFolded'
  <2>1. ~replay[h] => folds[of[h]] = 1
    BY <1>0 DEF IInv, StagesFit, Folded
  <2> QED BY <1>a, <1>b, <2>1 DEF IInv, FreshIsFolded
<1>8. OnlyCutIsUnfolded'
  BY <1>a, <1>3 DEF IInv, OnlyCutIsUnfolded
<1> QED BY <1>a, <1>2, <1>4, <1>5, <1>6, <1>7, <1>8, RowSame DEF IInv

-----------------------------------------------------------------------------
LEMMA SweepStep ==
  ASSUME IInv, NEW m \in Monitor, Sweep(m)
  PROVE  IInv'
<1> USE DEF nodeVars, histVars, reportVars
<1>0. row \in RowType /\ row.report \in Nat /\ row.beats \in 0..(2 * Reports) /\ clock \in 0..MaxClock
  BY Bounds DEF IInv, TypesOK, TypeOK, RowType
<1>1. CASE List(m)
  <2>1. [at |-> "listed", listed |-> row, now |-> clock]
          \in [at: {"idle", "listed", "claimed"}, listed: RowType, now: 0..MaxClock]
    BY <1>0
  <2>2. TypesOK'
    BY <1>1, <2>1 DEF Sweep, List, IInv, TypesOK, TypeOK
  <2> QED BY <1>1, <2>2, RowSame, HandlersSame DEF Sweep, List, IInv
<1>2. CASE Emit(m)
  <2>1. mon[m].listed.beats \in 0..(2 * Reports)
    BY DEF IInv, TypesOK, TypeOK, RowType
  <2>2. TypesOK'
    BY <1>2, <2>1, NoRowTyped DEF Sweep, Emit, IInv, TypesOK, TypeOK
  <2> QED BY <1>2, <2>2, RowSame, HandlersSame DEF Sweep, Emit, IInv
<1>3. CASE Claim(m) /\ ~(Stale(m) /\ ~row.flagged)
  <2>2. TypesOK'
    BY <1>3, NoRowTyped DEF Sweep, Claim, IInv, TypesOK, TypeOK
  <2> QED BY <1>3, <2>2, RowSame, HandlersSame DEF Sweep, Claim, IInv
<1>4. CASE Claim(m) /\ Stale(m) /\ ~row.flagged
  <2>1. /\ row' = [row EXCEPT !.flagged = TRUE]
        /\ pages' = [pages EXCEPT ![row.beats] = @ + 1]
        /\ mon' = [mon EXCEPT ![m].at = "claimed"]
    BY <1>4 DEF Sweep, Claim
  <2>2. UNCHANGED <<acked, of, sends, accepted, pc, replay, found, active, folds, fresh, replayed, cut, sent, clock>>
    BY <1>4 DEF Sweep, Claim
  <2>3. pages[row.beats] = 0
    BY <1>0, <1>4 DEF IInv, UnflaggedIsUnpaged
  <2>4. /\ row' \in RowType /\ row'.report = row.report /\ row'.beats = row.beats
        /\ row'.ts = row.ts /\ row'.flagged
    BY <1>0, <2>1 DEF RowType
  <2>5. pages' \in [0..(2 * Reports) -> {0, 1}] /\ \A b \in 0..(2 * Reports) : b # row.beats => pages'[b] = pages[b]
    BY <1>0, <2>1, <2>3 DEF IInv, TypesOK
  <2>9. mon' \in [Monitor -> [at: {"idle", "listed", "claimed"}, listed: RowType, now: 0..MaxClock]]
    BY <2>1 DEF IInv, TypesOK, TypeOK
  <2>6. TypesOK'
    BY <2>2, <2>4, <2>5, <2>9 DEF IInv, TypesOK, TypeOK
  <2>7. BeatsAreFolds'
    <3>1. FoldedReports' = FoldedReports
      BY <2>2 DEF FoldedReports
    <3> QED BY <2>4, <3>1 DEF IInv, BeatsAreFolds
  <2>8. UnflaggedIsUnpaged'
    BY <1>0, <2>4, <2>5 DEF IInv, UnflaggedIsUnpaged
  <2> QED BY <2>2, <2>4, <2>6, <2>7, <2>8, HandlersSame DEF IInv
<1> QED BY <1>1, <1>2, <1>3, <1>4 DEF Sweep

LEMMA TickStep ==
  ASSUME IInv, Tick
  PROVE  IInv'
<1> USE DEF Tick, reportVars, nodeVars, histVars, watchVars
<1>1. clock + 1 \in 0..MaxClock /\ row.ts <= clock + 1
  BY TelemetryAssumption DEF IInv, TypesOK, TypeOK, RowType
<1>2. TypesOK'
  BY <1>1 DEF IInv, TypesOK, TypeOK
<1> QED BY <1>2, RowSame, HandlersSame DEF IInv

LEMMA CrashStep ==
  ASSUME IInv, Crash
  PROVE  IInv'
<1> USE DEF Crash, nodeVars
<1>1. TypesOK'
  BY NoRowTyped DEF IInv, TypesOK, TypeOK
<1>2. StagesFit' /\ StoredByOne'
  BY DEF IInv, StagesFit, StoredByOne, Storing, Folding, Folded
<1>3. AckedIsAnswered' /\ FreshIsFolded'
  BY DEF IInv, AckedIsAnswered, FreshIsFolded
<1>4. OnlyCutIsUnfolded'
  BY DEF IInv, OnlyCutIsUnfolded, Folding
<1> QED BY <1>1, <1>2, <1>3, <1>4, RowSame DEF IInv

LEMMA StutterStep ==
  ASSUME IInv, UNCHANGED vars
  PROVE  IInv'
<1> USE DEF vars, reportVars, nodeVars, histVars, watchVars
<1>1. TypesOK'
  BY DEF IInv, TypesOK, TypeOK
<1> QED BY <1>1, RowSame, HandlersSame DEF IInv

(* Why a fold goes back only over a resend: what the row left behind was   *)
(* answered, and not by the handler that stored it, which is still folding. *)
LEMMA Consequences == IInv => EffectIsOnce /\ OnePagePerSilence
<1> SUFFICES ASSUME IInv PROVE EffectIsOnce /\ OnePagePerSilence
  OBVIOUS
<1>1. FoldedOnce
  BY DEF IInv, TypesOK, FoldedOnce
<1>2. OnlyResentGoesBack
  <2> SUFFICES ASSUME NEW h \in Handler, Folding(h), of[h] < row.report
               PROVE  of[h] \in replayed
    BY DEF OnlyResentGoesBack
  <2>1. of[h] \in Report /\ row.report \in Nat /\ acked \in Nat
    BY Bounds DEF IInv, TypesOK, TypeOK, RowType
  <2>2. of[h] <= acked
    BY <2>1, Bounds DEF IInv, AckedIsAnswered
  <2>3. of[h] \notin fresh
    BY <2>1 DEF IInv, StagesFit, FreshIsFolded
  <2> QED BY <2>1, <2>2, <2>3 DEF IInv, AckedIsAnswered
<1>3. OnePagePerSilence
  BY DEF IInv, TypesOK, OnePagePerSilence
<1> QED BY <1>1, <1>2, <1>3 DEF IInv, TypesOK, EffectIsOnce

(* The inductive invariant.                                                *)
THEOREM Invariance == Spec => []IInv
<1>1. IInv /\ [Next]_vars => IInv'
  <2> SUFFICES ASSUME IInv, [Next]_vars PROVE IInv'
    OBVIOUS
  <2>1. ASSUME NEW h \in Handler, Send(h), UNCHANGED <<watchVars, clock, crashes>> PROVE IInv'
    BY <2>1, SendStep
  <2>2. ASSUME NEW h \in Handler, Serve(h) PROVE IInv'
    <3>1. UNCHANGED <<watchVars, clock, crashes>> /\ Handle(h)
      BY <2>2 DEF Serve
    <3> QED BY <3>1, IngestStep, ReadStep, WriteRowStep, AfterFoldStep, AnswerStep DEF Handle
  <2>3. ASSUME NEW m \in Monitor, Sweep(m) PROVE IInv'
    BY <2>3, SweepStep
  <2> QED BY <2>1, <2>2, <2>3, TickStep, CrashStep, StutterStep DEF Next
<1> QED BY InitHolds, <1>1, PTL DEF Spec

(* Every report takes effect once, for any number of reports, requests,    *)
(* crashes and monitors (telemetry, upsert_reported).                      *)
THEOREM EffectOnce == Spec => []EffectIsOnce
  BY Invariance, Consequences, PTL

(* One silence is paged at most once, by however many monitors.            *)
THEOREM OnePage == Spec => []OnePagePerSilence
  BY Invariance, Consequences, PTL
=============================================================================
