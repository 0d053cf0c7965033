------------------------- MODULE Housekeeping_proofs -------------------------
(****************************************************************************)
(* What the notifier, the license and the corpus schedule promise, for any  *)
(* hooks, slots, licenses and runs, and for any bounds.                     *)
(*                                                                          *)
(* The notifier.  A task is scheduled for every subscription an event fires,*)
(* and the place of each among them decides whether it may deliver: that    *)
(* count is what keeps the deliveries under the cap (RankFacts).  A firing  *)
(* leaves a stamp, and a stamp that goes is older than the window           *)
(* (StampFacts), so what fired is remembered for as long as it may mute     *)
(* (Remembered) and what mutes did fire (StampsAreFirings); the stamps are  *)
(* only as good as the era they were made in.  Memory is the table, but for *)
(* the requests between their two steps, of which there is one for a URL    *)
(* unless two overlapped (OneInHand, Synced).                               *)
(*                                                                          *)
(* The corpus.  A report is safe only on rows that are what replay says of  *)
(* their runs (RowsAreOutcomes); the stored time is the newest of what was  *)
(* stamped and a report under way is an interval past it, so no interval has*)
(* two.                                                                     *)
(*                                                                          *)
(* The license.  The mark follows what was announced: a license in force, or*)
(* about to be, is marked if it was announced (MarkFollows), thresholds only*)
(* go down (MarkIsLast), and what is about to be announced has not been     *)
(* (MarkIsNew).  The row is ahead of memory by the one install under way    *)
(* (RowIsAhead).                                                            *)
(*                                                                          *)
(* The settings store, for every set of writers, every change they make and *)
(* every number of passes.  A revision is never used twice, so a writer that*)
(* finds the revision it read has read the row it replaces, and its write is*)
(* the abstract change of the value as it is.  A set's value depends on     *)
(* nothing, so its write is a change of whatever value is there.            *)
(****************************************************************************)
EXTENDS Housekeeping, SettingsStore, FiniteSetTheorems, WellFoundedInduction, TLAPS

(* Places count from one to as many as there are positions, each once.      *)
LEMMA RankFacts ==
  ASSUME NEW n \in Nat, NEW K \in SUBSET (1..n)
  PROVE  /\ IsFiniteSet(K) /\ Cardinality(K) \in Nat
         /\ \A i \in K : Rank(K, i) \in 1..Cardinality(K)
         /\ \A i, j \in K : Rank(K, i) = Rank(K, j) => i = j
         /\ \A k \in 1..Cardinality(K) : \E i \in K : Rank(K, i) = k
<1> DEFINE upto(i) == {j \in K : j <= i}
<1>1. IsFiniteSet(K) /\ Cardinality(K) \in Nat
  <2>1. IsFiniteSet(1..n)
    BY FS_Interval
  <2> QED
    BY <2>1, FS_Subset, FS_CardinalityType
<1>2. ASSUME NEW i \in K
      PROVE  upto(i) \in SUBSET K /\ IsFiniteSet(upto(i)) /\ Rank(K, i) = Cardinality(upto(i))
             /\ Rank(K, i) \in 1..Cardinality(K)
  <2>1. upto(i) \in SUBSET K /\ upto(i) # {}
    OBVIOUS
  <2>2. Rank(K, i) = Cardinality(upto(i))
    BY DEF Rank
  <2> HIDE DEF upto
  <2>3. IsFiniteSet(upto(i)) /\ Cardinality(upto(i)) <= Cardinality(K)
    BY <1>1, <2>1, FS_Subset
  <2>4. Cardinality(upto(i)) \in Nat /\ Cardinality(upto(i)) # 0
    BY <2>1, <2>3, FS_CardinalityType, FS_EmptySet
  <2> QED
    BY <1>1, <2>1, <2>2, <2>3, <2>4
<1>3. ASSUME NEW i \in K, NEW j \in K, i < j PROVE Rank(K, i) # Rank(K, j)
  <2>0. i \in Nat /\ j \in Nat /\ \A k \in K : k \in Nat
    OBVIOUS
  <2>1. upto(i) \in SUBSET upto(j) /\ j \in upto(j) /\ j \notin upto(i)
    <3>1. \A k \in upto(i) : k \in upto(j)
      BY <1>3, <2>0
    <3>2. j \in upto(j) /\ j \notin upto(i)
      BY <1>3, <2>0
    <3> QED
      BY ONLY <3>1, <3>2
  <2>2. upto(j) # upto(i)
    BY <2>1
  <2>3. /\ Rank(K, i) = Cardinality(upto(i)) /\ Rank(K, j) = Cardinality(upto(j)) /\ IsFiniteSet(upto(j))
    BY <1>2
  <2>4. Cardinality(upto(i)) # Cardinality(upto(j))
    <3> HIDE DEF upto
    <3> QED
      BY <2>1, <2>2, <2>3, FS_Subset
  <2> QED
    BY ONLY <2>3, <2>4
<1>4. \A i, j \in K : Rank(K, i) = Rank(K, j) => i = j
  <2> SUFFICES ASSUME NEW i \in K, NEW j \in K, i # j PROVE Rank(K, i) # Rank(K, j)
    OBVIOUS
  <2>1. i < j \/ j < i
    OBVIOUS
  <2> QED
    BY <1>3, <2>1
<1>5. ASSUME NEW k \in 1..Cardinality(K) PROVE \E i \in K : Rank(K, i) = k
  <2> DEFINE f == [i \in K |-> Rank(K, i)]
             m == Cardinality(K)
  <2>1. f \in [K -> 1..m]
    BY <1>2
  <2>2. f \in Injection(K, 1..m)
    BY <1>4, <2>1 DEF Injection, IsInjective
  <2> HIDE DEF f
  <2>3. IsFiniteSet(1..m) /\ Cardinality(1..m) = m
    BY <1>1, FS_Interval
  <2>4. f \in Surjection(K, 1..m)
    BY <2>2, <2>3, FS_Injection
  <2>5. \E i \in K : f[i] = k
    BY <2>4 DEF Surjection
  <2> QED
    BY <2>5 DEF f
<1> QED
  BY <1>1, <1>2, <1>4, <1>5

(* Entries at some positions: those, each once.                             *)
LEMMA OnlyFacts ==
  ASSUME NEW X, NEW list \in Seq(X), NEW K \in SUBSET DOMAIN list
  PROVE  /\ Only(list, K) \in Seq(X)
         /\ DOMAIN Only(list, K) = 1..Cardinality(K)
         /\ \A k \in DOMAIN Only(list, K) : \E i \in K : Rank(K, i) = k /\ Only(list, K)[k] = list[i]
         /\ \A i \in K : \E k \in DOMAIN Only(list, K) : Only(list, K)[k] = list[i]
<1> DEFINE nth(k) == CHOOSE i \in K : Rank(K, i) = k
<1>1. Len(list) \in Nat /\ DOMAIN list = 1..Len(list) /\ K \in SUBSET (1..Len(list))
  OBVIOUS
<1>2. /\ Cardinality(K) \in Nat
      /\ \A i \in K : Rank(K, i) \in 1..Cardinality(K)
      /\ \A i, j \in K : Rank(K, i) = Rank(K, j) => i = j
      /\ \A k \in 1..Cardinality(K) : \E i \in K : Rank(K, i) = k
  BY ONLY <1>1, RankFacts
<1>3. ASSUME NEW k \in 1..Cardinality(K) PROVE nth(k) \in K /\ Rank(K, nth(k)) = k
  BY <1>2
<1>4. ASSUME NEW i \in K PROVE nth(Rank(K, i)) = i
  BY <1>2
<1>5. Only(list, K) = [k \in 1..Cardinality(K) |-> list[nth(k)]]
  BY DEF Only
<1> HIDE DEF nth
<1>6. \A k \in 1..Cardinality(K) : list[nth(k)] \in X
  BY <1>1, <1>3
<1>7. Only(list, K) \in Seq(X) /\ DOMAIN Only(list, K) = 1..Cardinality(K)
  BY <1>2, <1>5, <1>6
<1>8. \A i \in K : \E k \in DOMAIN Only(list, K) : Only(list, K)[k] = list[i]
  <2> TAKE i \in K
  <2>1. Rank(K, i) \in DOMAIN Only(list, K)
    BY <1>2, <1>7
  <2> WITNESS Rank(K, i) \in DOMAIN Only(list, K)
  <2> QED
    BY <1>4, <1>5, <1>7, <2>1
<1> QED
  BY <1>3, <1>5, <1>7, <1>8

Distinct(list) == \A i, j \in DOMAIN list : list[i].hook = list[j].hook => i = j

(* No hook is listed twice: there are as many as entries.                   *)
LEMMA DistinctCount ==
  ASSUME NEW X, NEW list \in Seq(X), Distinct(list)
  PROVE  Cardinality(HooksIn(list)) = Len(list)
<1> DEFINE f == [i \in 1..Len(list) |-> list[i].hook]
<1>1. Len(list) \in Nat /\ DOMAIN list = 1..Len(list)
  OBVIOUS
<1>2. f \in [1..Len(list) -> HooksIn(list)]
  BY <1>1 DEF HooksIn
<1>3. f \in Bijection(1..Len(list), HooksIn(list))
  <2>1. f \in Injection(1..Len(list), HooksIn(list))
    BY <1>1, <1>2 DEF Distinct, Injection, IsInjective
  <2>2. f \in Surjection(1..Len(list), HooksIn(list))
    BY <1>1, <1>2 DEF HooksIn, Surjection
  <2> QED
    BY <2>1, <2>2 DEF Bijection
<1> HIDE DEF f
<1>4. ExistsBijection(1..Len(list), HooksIn(list))
  BY <1>3 DEF ExistsBijection
<1> QED
  BY <1>1, <1>4, FS_CountingElements

(* What is dropped by URL.                                                  *)
LEMMA WithoutFacts ==
  ASSUME NEW X, NEW list \in Seq(X), Distinct(list), NEW url
  PROVE  /\ Without(list, url) \in Seq(X)
         /\ Distinct(Without(list, url))
         /\ \A k \in DOMAIN Without(list, url) : \E i \in DOMAIN list :
              UrlOf[list[i].hook] # url /\ Without(list, url)[k] = list[i]
         /\ \A i \in DOMAIN list : UrlOf[list[i].hook] # url =>
              \E k \in DOMAIN Without(list, url) : Without(list, url)[k] = list[i]
<1> DEFINE K == {i \in DOMAIN list : UrlOf[list[i].hook] # url}
           w == Only(list, K)
<1>1. K \in SUBSET DOMAIN list /\ Without(list, url) = w
  BY DEF Without
<1>2. \A i \in DOMAIN list : i \in K <=> UrlOf[list[i].hook] # url
  OBVIOUS
<1> HIDE DEF K
<1>3. /\ w \in Seq(X)
      /\ \A k \in DOMAIN w : \E i \in K : Rank(K, i) = k /\ w[k] = list[i]
      /\ \A i \in K : \E k \in DOMAIN w : w[k] = list[i]
  BY <1>1, OnlyFacts
<1> HIDE DEF w
<1>4. Distinct(w)
  <2> SUFFICES ASSUME NEW k \in DOMAIN w, NEW l \in DOMAIN w, w[k].hook = w[l].hook
               PROVE  k = l
    BY DEF Distinct
  <2>1. PICK i \in K : Rank(K, i) = k /\ w[k] = list[i]
    BY <1>3
  <2>2. PICK j \in K : Rank(K, j) = l /\ w[l] = list[j]
    BY <1>3
  <2>3. i = j
    BY <1>1, <2>1, <2>2 DEF Distinct
  <2> QED
    BY <2>1, <2>2, <2>3
<1> QED
  BY <1>1, <1>2, <1>3, <1>4

-----------------------------------------------------------------------------
StoredRow == [hook : Hooks, window : Windows]
LastStamps == UNION {[D -> Nat] : D \in SUBSET Slots}
Sub == [hook : Hooks, window : Windows, last : LastStamps]
TaskSet == [n : Nat, hook : Hooks, kind : {"deliver", "persist"}, attempt : 1..MaxAttempts]
OfferSet == [n : Nat, slot : Slots, hook : Hooks, at : Nat, window : Windows, era : Nat, fired : BOOLEAN]
AskSet == [op : {"none", "subscribe", "unsubscribe"}, hook : Hooks \cup {NoAsk.hook}, window : Nat,
           stage : {"none", "asked", "stored", "answered", "refused", "cut"}]

SubTypes ==
  /\ rows \in Seq(StoredRow) /\ Distinct(rows)
  /\ subs \in Seq(Sub) /\ Distinct(subs)
  /\ clock \in Nat
  /\ \A i \in DOMAIN subs : /\ DOMAIN subs[i].last \subseteq Wants[subs[i].hook]
                            /\ \A s \in DOMAIN subs[i].last : subs[i].last[s] <= clock

AskTypes ==
  /\ asks \in [Requests -> AskSet]
  /\ \A q \in Requests : InHand(q) =>
       /\ asks[q].hook \in Hooks /\ asks[q].op \in {"subscribe", "unsubscribe"}
       /\ asks[q].op = "subscribe" => asks[q].window \in Windows
  /\ up \in {"up", "draining", "down"} /\ overlapped \in BOOLEAN
  /\ up = "down" => inFlight = {} /\ subs = <<>> /\ \A q \in Requests : ~InHand(q)

TaskTypes ==
  /\ inFlight \in SUBSET TaskSet /\ IsFiniteSet(inFlight)
  /\ letters \in Seq(Nat \X Hooks) /\ Len(letters) <= MaxLetters
  /\ Cardinality({t \in inFlight : t.kind = "deliver"}) <= MaxInFlight

Evidence ==
  \A o \in offers : o.fired =>
    \/ <<o.n, o.hook>> \in delivered \cup gone \cup ToSet(letters)
    \/ \E t \in inFlight : t.n = o.n /\ t.hook = o.hook
    \/ Len(letters) = MaxLetters

OfferTypes ==
  /\ offers \in SUBSET OfferSet
  /\ era \in Nat
  /\ \A o \in offers : o.at <= clock /\ o.era <= era
  /\ \E k \in Nat : {o.n : o \in offers} = 1..k

(* What fired since stamps were last lost is remembered: by a later stamp   *)
(* or because its window is over.                                           *)
Remembered ==
  \A p \in offers : p.fired /\ p.era = era =>
    /\ \E i \in DOMAIN subs : subs[i].hook = p.hook
    /\ p.window > 0 => \A i \in DOMAIN subs : subs[i].hook = p.hook =>
         \/ p.slot \in DOMAIN subs[i].last /\ p.at <= subs[i].last[p.slot]
         \/ clock - p.at > subs[i].window

(* A stamp is of something that fired.                                      *)
StampsAreFirings ==
  \A i \in DOMAIN subs : \A s \in DOMAIN subs[i].last :
    \E p \in offers : p.fired /\ p.hook = subs[i].hook /\ p.slot = s /\ p.at = subs[i].last[s]

OneInHand == ~overlapped =>
  \A p, q \in Requests : InHand(p) /\ InHand(q) /\ UrlOf[asks[p].hook] = UrlOf[asks[q].hook] => p = q

Has(list, h, w) == \E i \in DOMAIN list : list[i].hook = h /\ list[i].window = w

Stored(q) == asks[q].stage = "stored"

(* A row of this key and window.                                            *)
Kept(k, w) == \E g \in Hooks : KeyOf[g] = k /\ Has(rows, g, w)

(* Memory has a key that has a row, with the window of one.                 *)
Follows(k) ==
  /\ (\E w \in Windows : Has(subs, k, w)) <=> (\E w \in Windows : Kept(k, w))
  /\ \A w \in Windows : Has(subs, k, w) => Kept(k, w)

(* What a request between its two steps makes of the table.                 *)
Ahead(q, k) ==
  IF asks[q].op = "unsubscribe" THEN \A w \in Windows : ~Kept(k, w)
  ELSE IF KeyOf[asks[q].hook] = k THEN Kept(k, asks[q].window)
  ELSE Follows(k)

(* Memory follows the table but for the requests between their two steps,   *)
(* and for one of those the table has what memory will.                     *)
Synced ==
  up # "down" /\ ~overlapped /\ (\A q \in Requests : asks[q].stage # "refused") =>
    \A k \in Hooks :
      /\ (\A q \in Requests : Stored(q) => UrlOf[asks[q].hook] # UrlOf[k]) => Follows(k)
      /\ \A q \in Requests : Stored(q) /\ UrlOf[asks[q].hook] = UrlOf[k] => Ahead(q, k)

NotifierInv ==
  /\ SubTypes /\ AskTypes /\ TaskTypes /\ OfferTypes
  /\ Evidence
  /\ Remembered /\ StampsAreFirings /\ DebounceIsAWindow
  /\ OneInHand /\ Synced

-----------------------------------------------------------------------------
(* The lists.                                                               *)

(* A subscription has stamps of slots.                                      *)
LEMMA SubFacts ==
  ASSUME NEW sub \in Sub
  PROVE  /\ sub.hook \in Hooks /\ sub.window \in Windows /\ sub.window \in Nat
         /\ sub.last \in LastStamps
         /\ DOMAIN sub.last \in SUBSET Slots
         /\ \A s \in DOMAIN sub.last : sub.last[s] \in Nat
<1>1. sub.last \in LastStamps
  BY DEF Sub
<1>2. PICK D \in SUBSET Slots : sub.last \in [D -> Nat]
  BY <1>1 DEF LastStamps
<1> QED
  BY <1>1, <1>2, NotifierAssumption DEF Sub

(* A new subscription has none.                                             *)
LEMMA NoStamps == [s \in {} |-> 0] \in LastStamps /\ DOMAIN [s \in {} |-> 0] = {}
<1>1. [s \in {} |-> 0] \in [{} -> Nat]
  OBVIOUS
<1> QED
  BY <1>1 DEF LastStamps

(* AddRow and Register set the window of one hook and nothing else.         *)
LEMMA AddRowFacts ==
  ASSUME rows \in Seq(StoredRow), Distinct(rows), NEW h \in Hooks, NEW w \in Windows
  PROVE  /\ AddRow(h, w) \in Seq(StoredRow) /\ Distinct(AddRow(h, w))
         /\ \A g \in Hooks : \A v :
              Has(AddRow(h, w), g, v) <=> IF g = h THEN v = w ELSE Has(rows, g, v)
<1>1. Len(rows) \in Nat /\ DOMAIN rows = 1..Len(rows) /\ \A i \in DOMAIN rows : rows[i] \in StoredRow
  OBVIOUS
<1>2. CASE h \in HooksIn(rows)
  <2> DEFINE new == [i \in DOMAIN rows |-> IF rows[i].hook = h THEN [hook |-> h, window |-> w] ELSE rows[i]]
  <2>1. AddRow(h, w) = new
    BY <1>2 DEF AddRow
  <2>2. PICK i \in DOMAIN rows : rows[i].hook = h
    BY <1>2 DEF HooksIn
  <2>3. new \in Seq(StoredRow) /\ DOMAIN new = DOMAIN rows
    <3>1. \A j \in 1..Len(rows) : new[j] \in StoredRow
      BY <1>1 DEF StoredRow
    <3> QED
      BY <1>1, <3>1
  <2>4. \A j \in DOMAIN rows : new[j].hook = rows[j].hook /\ new[j].window = IF rows[j].hook = h THEN w ELSE rows[j].window
    OBVIOUS
  <2> HIDE DEF new
  <2>5. Distinct(new)
    BY <2>3, <2>4 DEF Distinct
  <2> QED
    BY <2>1, <2>2, <2>3, <2>4, <2>5 DEF Has
<1>3. CASE h \notin HooksIn(rows)
  <2> DEFINE new == Append(rows, [hook |-> h, window |-> w])
  <2>1. AddRow(h, w) = new
    BY <1>3 DEF AddRow
  <2>2. /\ new \in Seq(StoredRow) /\ DOMAIN new = DOMAIN rows \cup {Len(rows) + 1}
        /\ \A i \in DOMAIN rows : new[i] = rows[i] /\ rows[i].hook # h /\ i # Len(rows) + 1
        /\ new[Len(rows) + 1] = [hook |-> h, window |-> w]
    BY <1>1, <1>3 DEF StoredRow, HooksIn
  <2> HIDE DEF new
  <2>3. Distinct(new)
    BY <2>2 DEF Distinct
  <2> QED
    BY <2>1, <2>2, <2>3 DEF Has
<1> QED
  BY <1>2, <1>3

(* The same of memory, where the stamps stay.                               *)
LEMMA RegisterFacts ==
  ASSUME subs \in Seq(Sub), Distinct(subs), NEW h \in Hooks, NEW w \in Windows
  PROVE  LET new == Register(subs, h, w)
         IN  /\ new \in Seq(Sub) /\ Distinct(new)
             /\ \A g \in Hooks, v \in Windows :
                  Has(new, g, v) <=> IF g = h THEN v = w ELSE Has(subs, g, v)
             /\ \A j \in DOMAIN new :
                  \/ new[j].hook = h /\ new[j].last = [s \in {} |-> 0] /\ \A i \in DOMAIN subs : subs[i].hook # h
                  \/ /\ j \in DOMAIN subs /\ new[j].hook = subs[j].hook /\ new[j].last = subs[j].last
                     /\ new[j].window = IF subs[j].hook = h THEN w ELSE subs[j].window
             /\ \A i \in DOMAIN subs : i \in DOMAIN new /\ new[i].hook = subs[i].hook
<1>1. Len(subs) \in Nat /\ DOMAIN subs = 1..Len(subs) /\ \A i \in DOMAIN subs : subs[i] \in Sub
  OBVIOUS
<1>2. CASE h \in HooksIn(subs)
  <2> DEFINE new == [i \in DOMAIN subs |->
               IF subs[i].hook = h THEN [hook |-> h, window |-> w, last |-> subs[i].last] ELSE subs[i]]
  <2>1. Register(subs, h, w) = new
    BY <1>2 DEF Register
  <2>2. PICK i \in DOMAIN subs : subs[i].hook = h
    BY <1>2 DEF HooksIn
  <2>3. new \in Seq(Sub) /\ DOMAIN new = DOMAIN subs
    <3>1. \A j \in 1..Len(subs) : new[j] \in Sub
      BY <1>1 DEF Sub
    <3> QED
      BY <1>1, <3>1
  <2>4. \A j \in DOMAIN subs : /\ new[j].hook = subs[j].hook /\ new[j].last = subs[j].last
                               /\ new[j].window = IF subs[j].hook = h THEN w ELSE subs[j].window
    OBVIOUS
  <2> HIDE DEF new
  <2>5. Distinct(new)
    BY <2>3, <2>4 DEF Distinct
  <2> QED
    BY SMTT(30), <2>1, <2>2, <2>3, <2>4, <2>5 DEF Has
<1>3. CASE h \notin HooksIn(subs)
  <2> DEFINE new == Append(subs, [hook |-> h, window |-> w, last |-> [s \in {} |-> 0]])
  <2>1. Register(subs, h, w) = new
    BY <1>3 DEF Register
  <2>2. [hook |-> h, window |-> w, last |-> [s \in {} |-> 0]] \in Sub
    BY NoStamps DEF Sub
  <2>3. /\ new \in Seq(Sub) /\ DOMAIN new = DOMAIN subs \cup {Len(subs) + 1}
        /\ \A i \in DOMAIN subs : new[i] = subs[i] /\ subs[i].hook # h /\ i # Len(subs) + 1
        /\ new[Len(subs) + 1] = [hook |-> h, window |-> w, last |-> [s \in {} |-> 0]]
    BY <1>1, <1>3, <2>2 DEF HooksIn
  <2> HIDE DEF new
  <2>4. Distinct(new)
    BY <2>3 DEF Distinct
  <2> QED
    BY <2>1, <2>3, <2>4 DEF Has
<1> QED
  BY <1>2, <1>3

(* What is left without a URL, for one hook.                                *)
LEMMA HasWithout ==
  ASSUME NEW X, NEW list \in Seq(X), Distinct(list), NEW url, NEW g, NEW v
  PROVE  Has(Without(list, url), g, v) <=> Has(list, g, v) /\ UrlOf[g] # url
<1> DEFINE w == Without(list, url)
<1>1. /\ \A k \in DOMAIN w : \E i \in DOMAIN list : UrlOf[list[i].hook] # url /\ w[k] = list[i]
      /\ \A i \in DOMAIN list : UrlOf[list[i].hook] # url => \E k \in DOMAIN w : w[k] = list[i]
  BY WithoutFacts
<1> HIDE DEF w
<1>2. Has(w, g, v) <=> Has(list, g, v) /\ UrlOf[g] # url
  BY <1>1 DEF Has
<1> QED
  BY <1>2 DEF w

(* Numbers are well ordered.                                               *)
Less == {p \in Nat \X Nat : p[1] < p[2]}

(* By induction on numbers.                                                 *)
LEMMA LessIsWellFounded == IsWellFoundedOn(Less, Nat)
  BY NatLessThanWellFounded DEF OpToRel, Less

(* So a set of them has a least.                                            *)
LEMMA Least ==
  ASSUME NEW S \in SUBSET Nat, S # {}
  PROVE  \E m \in S : \A n \in S : m <= n
<1>1. PICK m \in S : \A n \in S : ~ (<<n, m>> \in Less)
  <2>1. S \subseteq Nat
    OBVIOUS
  <2> QED
    BY ONLY LessIsWellFounded, WFMin, <2>1, S # {}
<1>2. ASSUME NEW n \in S PROVE m <= n
  <2>1. m \in Nat /\ n \in Nat /\ <<n, m>> \in Nat \X Nat /\ ~ (<<n, m>> \in Less)
    BY <1>1
  <2>2. ~(n < m)
    <3> SUFFICES ASSUME n < m PROVE FALSE
      OBVIOUS
    <3> QED
      BY <2>1 DEF Less
  <2> QED
    BY <2>1, <2>2
<1> QED
  BY <1>2

(* Of some positions there are a first and a last.                          *)
LEMMA FirstAndLast ==
  ASSUME NEW n \in Nat, NEW S \in SUBSET (1..n), S # {}
  PROVE  /\ \E i \in S : \A j \in S : i <= j
         /\ \E i \in S : \A j \in S : j <= i
<1> DEFINE T == {n - x : x \in S}
<1>1. S \in SUBSET Nat /\ T \in SUBSET Nat /\ T # {}
  <2>1. \A x \in 1..n : x \in Nat /\ n - x \in Nat
    OBVIOUS
  <2>2. S \in SUBSET Nat
    BY <2>1
  <2>3. \A y \in T : y \in Nat
    BY <2>1
  <2>4. PICK x \in S : TRUE
    OBVIOUS
  <2>5. n - x \in T
    BY <2>4
  <2> QED
    BY ONLY <2>2, <2>3, <2>5
<1>2. \A x \in S : n - x \in T /\ x \in Nat
  BY <1>1
<1>3. \A m \in T : \E x \in S : m = n - x
  OBVIOUS
<1> HIDE DEF T
<1>4. \E i \in S : \A j \in S : i <= j
  BY ONLY <1>1, S # {}, Least
<1>5. PICK m \in T : \A l \in T : m <= l
  BY ONLY <1>1, Least
<1>6. PICK i \in S : m = n - i
  BY <1>3
<1>7. ASSUME NEW j \in S PROVE j <= i
  <2>1. n - i <= n - j /\ i \in Nat /\ j \in Nat
    BY <1>2, <1>5, <1>6
  <2> QED
    BY ONLY <2>1, n \in Nat
<1> QED
  BY <1>4, <1>7

(* What a boot lists is every key that is stored, once, with no stamps and  *)
(* the window of a row.                                                     *)
LEMMA RehydratedFacts ==
  ASSUME rows \in Seq(StoredRow), Distinct(rows)
  PROVE  /\ Rehydrated \in Seq(Sub) /\ Distinct(Rehydrated)
         /\ \A j \in DOMAIN Rehydrated : DOMAIN Rehydrated[j].last = {}
         /\ \A k, w : Has(Rehydrated, k, w) => Kept(k, w)
         /\ \A k, w : Kept(k, w) => \E v \in Windows : Has(Rehydrated, k, v)
<1>1. Len(rows) \in Nat /\ DOMAIN rows = 1..Len(rows) /\ \A i \in DOMAIN rows : rows[i] \in StoredRow
  OBVIOUS
<1>2. \A i \in DOMAIN rows : rows[i].hook \in Hooks /\ rows[i].window \in Windows /\ KeyAt(i) \in Hooks
  BY <1>1, NotifierAssumption DEF StoredRow, KeyAt
<1>3. ASSUME NEW i \in DOMAIN rows
      PROVE  /\ LastAt(i) \in DOMAIN rows /\ KeyAt(LastAt(i)) = KeyAt(i)
             /\ \E m \in FirstOfKey : KeyAt(m) = KeyAt(i)
  <2> DEFINE S == {j \in DOMAIN rows : KeyAt(j) = KeyAt(i)}
  <2>1. S \in SUBSET (1..Len(rows)) /\ S # {} /\ Len(rows) \in Nat
    BY <1>1
  <2>2. PICK l \in S : \A j \in S : j <= l
    BY ONLY <2>1, FirstAndLast
  <2>3. PICK m \in S : \A j \in S : m <= j
    BY ONLY <2>1, FirstAndLast
  <2>4. \E j \in DOMAIN rows :
          KeyAt(j) = KeyAt(i) /\ \A k \in DOMAIN rows : KeyAt(k) = KeyAt(i) => k <= j
    BY <2>2
  <2>5. LastAt(i) \in DOMAIN rows /\ KeyAt(LastAt(i)) = KeyAt(i)
    BY <2>4 DEF LastAt
  <2>6. m \in FirstOfKey /\ KeyAt(m) = KeyAt(i)
    BY <2>3 DEF FirstOfKey
  <2> QED
    BY <2>5, <2>6
<1> DEFINE all == [i \in DOMAIN rows |-> [hook |-> KeyAt(i), window |-> rows[LastAt(i)].window, last |-> [s \in {} |-> 0]]]
           new == Only(all, FirstOfKey)
<1>4. all \in Seq(Sub) /\ DOMAIN all = DOMAIN rows
  <2>1. \A i \in 1..Len(rows) : all[i] \in Sub
    BY <1>1, <1>2, <1>3, NoStamps DEF Sub
  <2> QED
    BY <1>1, <2>1
<1>5. \A i \in DOMAIN rows :
        all[i].hook = KeyAt(i) /\ all[i].window = rows[LastAt(i)].window /\ all[i].last = [s \in {} |-> 0]
  OBVIOUS
<1>6. Rehydrated = new
  BY DEF Rehydrated
<1> HIDE DEF all
<1>7. FirstOfKey \in SUBSET DOMAIN rows
  BY DEF FirstOfKey
<1>8. /\ new \in Seq(Sub)
      /\ \A k \in DOMAIN new : \E i \in FirstOfKey : Rank(FirstOfKey, i) = k /\ new[k] = all[i]
      /\ \A i \in FirstOfKey : \E k \in DOMAIN new : new[k] = all[i]
  BY <1>4, <1>7, OnlyFacts
<1> HIDE DEF new
<1>9. Distinct(new)
  <2> SUFFICES ASSUME NEW k \in DOMAIN new, NEW l \in DOMAIN new, new[k].hook = new[l].hook PROVE k = l
    BY DEF Distinct
  <2>1. PICK i \in FirstOfKey : Rank(FirstOfKey, i) = k /\ new[k] = all[i]
    BY <1>8
  <2>2. PICK j \in FirstOfKey : Rank(FirstOfKey, j) = l /\ new[l] = all[j]
    BY <1>8
  <2>3. KeyAt(i) = KeyAt(j) /\ i \in DOMAIN rows /\ j \in DOMAIN rows
    BY <1>5, <1>7, <2>1, <2>2
  <2>4. i <= j /\ j <= i
    BY <2>1, <2>2, <2>3 DEF FirstOfKey
  <2>5. i = j
    BY <1>1, <2>3, <2>4
  <2> QED
    BY <2>1, <2>2, <2>5
<1>10. \A j \in DOMAIN new : DOMAIN new[j].last = {}
  BY <1>5, <1>7, <1>8, NoStamps
<1>11. ASSUME NEW k, NEW w, Has(new, k, w) PROVE Kept(k, w)
  <2>1. PICK j \in DOMAIN new : new[j].hook = k /\ new[j].window = w
    BY <1>11 DEF Has
  <2>2. PICK i \in FirstOfKey : new[j] = all[i]
    BY <1>8
  <2>3. i \in DOMAIN rows /\ KeyAt(i) = k /\ rows[LastAt(i)].window = w
    BY <1>5, <1>7, <2>1, <2>2
  <2>4. LastAt(i) \in DOMAIN rows /\ KeyAt(LastAt(i)) = k
    BY <1>3, <2>3
  <2> QED
    BY <1>2, <2>3, <2>4 DEF Kept, Has, KeyAt
<1>12. ASSUME NEW k, NEW w, Kept(k, w) PROVE \E v \in Windows : Has(new, k, v)
  <2>1. PICK i \in DOMAIN rows : KeyAt(i) = k
    BY <1>12 DEF Kept, Has, KeyAt
  <2>2. PICK m \in FirstOfKey : KeyAt(m) = k
    BY <1>3, <2>1
  <2>3. PICK j \in DOMAIN new : new[j] = all[m]
    BY <1>8
  <2>4. new[j].hook = k /\ new[j].window = rows[LastAt(m)].window /\ LastAt(m) \in DOMAIN rows
    BY <1>3, <1>5, <1>7, <2>2, <2>3
  <2> QED
    BY <1>2, <2>4 DEF Has
<1> QED
  BY <1>6, <1>8, <1>9, <1>10, <1>11, <1>12

(* What a firing leaves of the stamps: itself, and of the others all but    *)
(* the expired.                                                             *)
LEMMA StampFacts ==
  ASSUME NEW sub \in Sub, NEW slot \in Slots, clock \in Nat
  PROVE  /\ Stamp(sub, slot) \in Sub
         /\ Stamp(sub, slot).hook = sub.hook /\ Stamp(sub, slot).window = sub.window
         /\ Stamp(sub, slot).last = Stamps(sub, slot)
         /\ \A s \in DOMAIN Stamps(sub, slot) :
              \/ s = slot /\ Stamps(sub, slot)[s] = clock
              \/ s \in DOMAIN sub.last /\ Stamps(sub, slot)[s] = sub.last[s]
         /\ sub.window > 0 => slot \in DOMAIN Stamps(sub, slot) /\ Stamps(sub, slot)[slot] = clock
         /\ sub.window = 0 => Stamps(sub, slot) = sub.last
         /\ \A s \in DOMAIN sub.last : s # slot =>
              \/ s \in DOMAIN Stamps(sub, slot) /\ Stamps(sub, slot)[s] = sub.last[s]
              \/ clock - sub.last[s] > sub.window
<1>1. /\ sub.hook \in Hooks /\ sub.window \in Windows /\ sub.window \in Nat /\ sub.last \in LastStamps
      /\ DOMAIN sub.last \in SUBSET Slots /\ \A s \in DOMAIN sub.last : sub.last[s] \in Nat
  BY SubFacts
<1> DEFINE last == [s \in DOMAIN sub.last \cup {slot} |-> IF s = slot THEN clock ELSE sub.last[s]]
           live == {s \in DOMAIN last : last[s] + sub.window >= clock}
           swept == [s \in live |-> last[s]]
           new == Stamps(sub, slot)
<1>2. \/ sub.window = 0 /\ new = sub.last
      \/ sub.window > 0 /\ (new = swept \/ new = last)
  BY <1>1 DEF Stamps
<1>3. /\ DOMAIN last = DOMAIN sub.last \cup {slot} /\ last[slot] = clock
      /\ \A s \in DOMAIN sub.last : s # slot => last[s] = sub.last[s]
      /\ \A s \in DOMAIN last : last[s] \in Nat
  BY <1>1
<1>4. /\ DOMAIN swept = live /\ slot \in live /\ live \in SUBSET Slots /\ live \subseteq DOMAIN last
      /\ \A s \in live : swept[s] = last[s]
      /\ \A s \in DOMAIN last : s \notin live => clock - last[s] > sub.window
  <2>1. DOMAIN last \in SUBSET Slots
    BY <1>1, <1>3
  <2> QED
    BY <1>1, <1>3, <2>1
<1>5. last \in LastStamps /\ swept \in LastStamps
  <2>1. last \in [DOMAIN last -> Nat] /\ DOMAIN last \in SUBSET Slots
    BY <1>1, <1>3
  <2>2. swept \in [live -> Nat] /\ live \in SUBSET Slots
    BY <1>3, <1>4
  <2> QED
    BY ONLY <2>1, <2>2 DEF LastStamps
<1>6. new \in LastStamps
  BY <1>1, <1>2, <1>5
<1>7. Stamp(sub, slot) = [hook |-> sub.hook, window |-> sub.window, last |-> new]
  BY DEF Stamp
<1> HIDE DEF last, live, swept, new
<1>8. Stamp(sub, slot) \in Sub /\ Stamp(sub, slot).hook = sub.hook /\ Stamp(sub, slot).window = sub.window
      /\ Stamp(sub, slot).last = new
  BY <1>1, <1>6, <1>7 DEF Sub
<1>9. \A s \in DOMAIN new : \/ s = slot /\ new[s] = clock
                            \/ s \in DOMAIN sub.last /\ new[s] = sub.last[s]
  BY <1>2, <1>3, <1>4
<1>10. sub.window > 0 => slot \in DOMAIN new /\ new[slot] = clock
  BY <1>2, <1>3, <1>4
<1>11. \A s \in DOMAIN sub.last : s # slot => \/ s \in DOMAIN new /\ new[s] = sub.last[s]
                                              \/ clock - sub.last[s] > sub.window
  BY <1>2, <1>3, <1>4
<1>12. sub.window = 0 => new = sub.last
  BY <1>2
<1> QED
  BY ONLY <1>8, <1>9, <1>10, <1>11, <1>12 DEF new

-----------------------------------------------------------------------------
(* An event.                                                                *)

(* What an event does to the subscriptions.                                 *)
LEMMA EmitSubs ==
  ASSUME SubTypes, NEW slot \in Slots, NEW n, Emit(n, slot)
  PROVE  /\ subs' \in Seq(Sub) /\ DOMAIN subs' = DOMAIN subs
         /\ \A i \in DOMAIN subs : /\ subs[i] \in Sub
                                   /\ subs'[i].hook = subs[i].hook /\ subs'[i].window = subs[i].window
                                   /\ subs'[i] = IF i \in Firing(slot) THEN Stamp(subs[i], slot) ELSE subs[i]
<1>1. Len(subs) \in Nat /\ DOMAIN subs = 1..Len(subs) /\ \A i \in DOMAIN subs : subs[i] \in Sub
  BY DEF SubTypes
<1>2. subs' = [i \in DOMAIN subs |-> IF i \in Firing(slot) THEN Stamp(subs[i], slot) ELSE subs[i]]
  BY DEF Emit
<1>3. \A i \in DOMAIN subs : /\ Stamp(subs[i], slot) \in Sub
                             /\ Stamp(subs[i], slot).hook = subs[i].hook
                             /\ Stamp(subs[i], slot).window = subs[i].window
  BY <1>1, StampFacts DEF SubTypes
<1>4. subs' \in Seq(Sub)
  BY <1>1, <1>2, <1>3
<1> QED
  BY <1>1, <1>2, <1>3, <1>4

(* The tasks of an event are within the cap: the places past it persist.    *)
LEMMA EmitTasks ==
  ASSUME SubTypes, TaskTypes, NEW slot \in Slots, NEW n \in Nat, Emit(n, slot)
  PROVE  /\ inFlight \subseteq inFlight'
         /\ inFlight' \in SUBSET TaskSet /\ IsFiniteSet(inFlight')
         /\ Cardinality({t \in inFlight' : t.kind = "deliver"}) <= MaxInFlight
         /\ \A i \in Firing(slot) : \E t \in inFlight' : t.n = n /\ t.hook = subs[i].hook
<1> DEFINE F == Firing(slot)
           C == Cardinality(inFlight)
           task(i) == Task(n, subs[i].hook, IF C + Rank(F, i) > MaxInFlight THEN "persist" ELSE "deliver")
           D == {i \in F : C + Rank(F, i) <= MaxInFlight}
           new == {task(i) : i \in F}
           fresh == {task(i) : i \in D}
           old == {t \in inFlight : t.kind = "deliver"}
<1>1. /\ Len(subs) \in Nat /\ DOMAIN subs = 1..Len(subs)
      /\ \A i \in DOMAIN subs : subs[i].hook \in Hooks
      /\ MaxInFlight \in Nat /\ MaxInFlight > 0 /\ MaxAttempts \in Nat /\ MaxAttempts > 0
  <2>1. \A i \in DOMAIN subs : subs[i] \in Sub
    BY DEF SubTypes
  <2> QED
    BY <2>1, NotifierAssumption DEF SubTypes, Sub
<1>2. F \in SUBSET (1..Len(subs))
  BY <1>1 DEF Firing, Matching
<1>3. inFlight' = inFlight \cup new
  BY DEF Emit, Schedule
<1>4. C \in Nat /\ IsFiniteSet(inFlight) /\ IsFiniteSet(old) /\ Cardinality(old) \in Nat
      /\ Cardinality(old) <= C /\ Cardinality(old) <= MaxInFlight
  BY FS_CardinalityType, FS_Subset DEF TaskTypes
<1> HIDE DEF F, C
<1>5. /\ IsFiniteSet(F)
      /\ \A i \in F : Rank(F, i) \in 1..Cardinality(F)
      /\ \A i, j \in F : Rank(F, i) = Rank(F, j) => i = j
      /\ Cardinality(F) \in Nat
  BY <1>1, <1>2, RankFacts
<1>6. \A i \in F : /\ task(i) \in TaskSet /\ task(i).n = n /\ task(i).hook = subs[i].hook
                   /\ task(i).kind = "deliver" => i \in D
  BY <1>1, <1>2, <1>4, <1>5 DEF Task, TaskSet
<1> HIDE DEF task
<1>7. IsFiniteSet(new)
  <2> DEFINE f == [i \in F |-> task(i)]
  <2>1. f \in Surjection(F, new)
    BY DEF Surjection
  <2> HIDE DEF f, new
  <2> QED
    BY <1>5, <2>1, FS_Surjection
<1>8. IsFiniteSet(fresh) /\ Cardinality(fresh) \in Nat /\ (D # {} => Cardinality(fresh) <= MaxInFlight - C)
  <2>1. IsFiniteSet(D) /\ Cardinality(D) \in Nat
    BY <1>5, FS_Subset, FS_CardinalityType
  <2>2. IsFiniteSet(fresh) /\ Cardinality(fresh) <= Cardinality(D)
    <3> DEFINE f == [i \in D |-> task(i)]
    <3>1. f \in Surjection(D, fresh)
      BY DEF Surjection
    <3> HIDE DEF f, fresh, D
    <3> QED
      BY <2>1, <3>1, FS_Surjection
  <2>3. Cardinality(fresh) \in Nat
    BY <2>2, FS_CardinalityType
  <2>4. ASSUME D # {} PROVE Cardinality(D) <= MaxInFlight - C
    <3>1. MaxInFlight - C \in Nat
      BY <1>1, <1>4, <1>5, <2>4
    <3> DEFINE m == MaxInFlight - C
               f == [i \in D |-> Rank(F, i)]
    <3>2. f \in [D -> 1..m]
      BY <1>1, <1>4, <1>5
    <3>3. f \in Injection(D, 1..m)
      BY <1>5, <3>2 DEF Injection, IsInjective
    <3>4. IsFiniteSet(1..m) /\ Cardinality(1..m) = m
      BY <3>1, FS_Interval
    <3> HIDE DEF f, D, m
    <3>5. Cardinality(D) <= Cardinality(1..m)
      BY <3>3, <3>4, FS_Injection
    <3> QED
      BY <3>4, <3>5 DEF m
  <2> QED
    BY ONLY <1>1, <1>4, <2>1, <2>2, <2>3, <2>4
<1>9. {t \in inFlight' : t.kind = "deliver"} \subseteq old \cup fresh
  BY <1>3, <1>6
<1>10. IsFiniteSet(old \cup fresh) /\ Cardinality(old \cup fresh) <= MaxInFlight
  <2> HIDE DEF old, fresh
  <2>1. /\ IsFiniteSet(old \cup fresh)
        /\ Cardinality(old \cup fresh) = Cardinality(old) + Cardinality(fresh) - Cardinality(old \cap fresh)
        /\ Cardinality(old \cap fresh) \in Nat
    BY <1>4, <1>8, FS_Union, FS_Intersection, FS_CardinalityType
  <2>2. CASE D = {}
    <3>1. fresh = {}
      BY <2>2 DEF fresh
    <3>2. old \cup fresh = old
      BY <3>1
    <3> QED
      BY <1>4, <2>1, <3>2
  <2>3. CASE D # {}
    <3>1. Cardinality(fresh) <= MaxInFlight - C
      BY <1>8, <2>3
    <3> QED
      BY ONLY <1>1, <1>4, <1>8, <2>1, <3>1
  <2> QED
    BY <2>2, <2>3
<1>11. Cardinality({t \in inFlight' : t.kind = "deliver"}) <= MaxInFlight
  <2> DEFINE now == {t \in inFlight' : t.kind = "deliver"}
             most == old \cup fresh
  <2>1. now \in SUBSET most
    BY <1>9
  <2> HIDE DEF now, most
  <2>2. IsFiniteSet(most) /\ Cardinality(most) <= MaxInFlight /\ Cardinality(most) \in Nat
    BY <1>10, FS_CardinalityType DEF most
  <2>3. Cardinality(now) <= Cardinality(most) /\ Cardinality(now) \in Nat
    BY <2>1, <2>2, FS_Subset, FS_CardinalityType
  <2> QED
    BY <1>1, <2>2, <2>3 DEF now
<1>12. IsFiniteSet(inFlight')
  <2> HIDE DEF new
  <2> QED
    BY <1>3, <1>4, <1>7, FS_Union
<1>13. inFlight' \in SUBSET TaskSet
  BY <1>3, <1>6 DEF TaskTypes
<1>14. \A i \in F : \E t \in inFlight' : t.n = n /\ t.hook = subs[i].hook
  <2> TAKE i \in F
  <2>1. task(i) \in inFlight'
    BY <1>3
  <2> QED
    BY <1>6, <2>1
<1> QED
  BY <1>3, <1>11, <1>12, <1>13, <1>14 DEF F

(* The next number is past every number given.                              *)
LEMMA NextIsNew ==
  ASSUME OfferTypes
  PROVE  /\ NextNumber \in Nat /\ \A o \in offers : o.n < NextNumber /\ o.n \in Nat
         /\ {o.n : o \in offers} \cup {NextNumber} = 1..NextNumber
<1>1. PICK k \in Nat : {o.n : o \in offers} = 1..k
  BY DEF OfferTypes
<1> DEFINE numbers == {o.n : o \in offers}
<1>2. Cardinality(1..k) = k
  BY FS_Interval
<1>3. NextNumber = k + 1
  <2>1. NextNumber = 1 + Cardinality(numbers) /\ numbers = 1..k
    BY <1>1 DEF NextNumber
  <2> HIDE DEF numbers
  <2> QED
    BY <1>2, <2>1
<1>4. \A o \in offers : o.n \in 1..k
  BY <1>1
<1>5. \A o \in offers : o.n \in Nat /\ o.n < NextNumber
  BY <1>3, <1>4
<1>6. (1..k) \cup {k + 1} = 1..(k + 1)
  OBVIOUS
<1> QED
  BY <1>1, <1>3, <1>5, <1>6

(* What is noted of an event.                                               *)
LEMMA OfferFacts ==
  ASSUME SubTypes, OfferTypes, NEW slot \in Slots, NEW n \in Nat, NEW i \in Matching(slot)
  PROVE  LET o == Offer(n, slot, i)
         IN  /\ o \in OfferSet /\ o.n = n /\ o.slot = slot /\ o.hook = subs[i].hook /\ o.at = clock
             /\ o.window = subs[i].window /\ o.era = era /\ o.fired = (i \in Firing(slot))
<1>1. i \in DOMAIN subs /\ subs[i] \in Sub
  BY DEF Matching, SubTypes
<1>2. subs[i].hook \in Hooks /\ subs[i].window \in Windows
  BY <1>1, SubFacts
<1>3. (i \in Firing(slot)) \in BOOLEAN
  OBVIOUS
<1> QED
  BY <1>2, <1>3 DEF Offer, OfferSet, SubTypes, OfferTypes

-----------------------------------------------------------------------------
(* What holds of the offers after an event.                                 *)
LEMMA EmitOffers ==
  ASSUME NotifierInv, NEW slot \in Slots, Emit(NextNumber, slot)
  PROVE  SubTypes' /\ OfferTypes' /\ Remembered' /\ StampsAreFirings' /\ DebounceIsAWindow'
<1> DEFINE n == NextNumber
           fresh == {Offer(n, slot, i) : i \in Matching(slot)}
<1> USE DEF NotifierInv
<1>1. n \in Nat /\ (\A o \in offers : o.n < n /\ o.n \in Nat) /\ {o.n : o \in offers} \cup {n} = 1..n
  BY NextIsNew
<1>2. /\ up # "down" /\ offers' = offers \cup fresh
      /\ UNCHANGED <<rows, asks, letters, clock, up, delivered, gone, overlapped, era>>
  BY DEF Emit
<1>3. /\ subs' \in Seq(Sub) /\ DOMAIN subs' = DOMAIN subs
      /\ \A i \in DOMAIN subs : /\ subs[i] \in Sub
                                /\ subs'[i].hook = subs[i].hook /\ subs'[i].window = subs[i].window
                                /\ subs'[i] = IF i \in Firing(slot) THEN Stamp(subs[i], slot) ELSE subs[i]
  BY EmitSubs
<1>4. /\ clock \in Nat /\ era \in Nat /\ Distinct(subs) /\ rows \in Seq(StoredRow) /\ Distinct(rows)
      /\ offers \in SUBSET OfferSet
      /\ \A o \in offers : o.at <= clock /\ o.era <= era
  BY DEF SubTypes, OfferTypes
<1>5. \A i \in DOMAIN subs : /\ subs[i].hook \in Hooks /\ subs[i].window \in Nat
                             /\ DOMAIN subs[i].last \in SUBSET Slots
                             /\ \A s \in DOMAIN subs[i].last : subs[i].last[s] \in Nat /\ subs[i].last[s] <= clock
                             /\ DOMAIN subs[i].last \subseteq Wants[subs[i].hook]
  BY <1>3, SubFacts DEF SubTypes
<1>6. \A i \in Firing(slot) : /\ i \in DOMAIN subs /\ slot \in Wants[subs[i].hook] /\ Due(subs[i], slot)
                              /\ i \in Matching(slot)
  BY DEF Firing, Matching
<1>7. \A i \in Matching(slot) :
        /\ i \in DOMAIN subs
        /\ Offer(n, slot, i) \in OfferSet /\ Offer(n, slot, i).n = n /\ Offer(n, slot, i).slot = slot
        /\ Offer(n, slot, i).hook = subs[i].hook /\ Offer(n, slot, i).at = clock
        /\ Offer(n, slot, i).window = subs[i].window /\ Offer(n, slot, i).era = era
        /\ Offer(n, slot, i).fired = (i \in Firing(slot))
  BY <1>1, OfferFacts DEF Matching
(* The stamps after.                                                        *)
<1>8. ASSUME NEW i \in DOMAIN subs
      PROVE  /\ \A s \in DOMAIN subs'[i].last :
                  \/ i \in Firing(slot) /\ s = slot /\ subs'[i].last[s] = clock
                  \/ s \in DOMAIN subs[i].last /\ subs'[i].last[s] = subs[i].last[s]
             /\ i \in Firing(slot) /\ subs[i].window > 0 => slot \in DOMAIN subs'[i].last /\ subs'[i].last[slot] = clock
             /\ \A s \in DOMAIN subs[i].last :
                  \/ s \in DOMAIN subs'[i].last /\ subs'[i].last[s] >= subs[i].last[s]
                  \/ clock - subs[i].last[s] > subs[i].window
  <2>1. CASE i \notin Firing(slot)
    BY <1>3, <1>5, <2>1
  <2>2. CASE i \in Firing(slot)
    <3> DEFINE sub == subs[i]
               new == Stamps(subs[i], slot)
    <3>1. sub \in Sub
      BY <1>3
    <3> HIDE DEF sub
    <3>2. /\ Stamp(sub, slot).last = Stamps(sub, slot)
          /\ \A s \in DOMAIN Stamps(sub, slot) :
               \/ s = slot /\ Stamps(sub, slot)[s] = clock
               \/ s \in DOMAIN sub.last /\ Stamps(sub, slot)[s] = sub.last[s]
          /\ sub.window > 0 => slot \in DOMAIN Stamps(sub, slot) /\ Stamps(sub, slot)[slot] = clock
          /\ sub.window = 0 => Stamps(sub, slot) = sub.last
          /\ \A s \in DOMAIN sub.last : s # slot =>
               \/ s \in DOMAIN Stamps(sub, slot) /\ Stamps(sub, slot)[s] = sub.last[s]
               \/ clock - sub.last[s] > sub.window
      BY ONLY <1>4, <3>1, StampFacts, slot \in Slots
    <3>3. subs'[i].last = new /\ new = Stamps(sub, slot)
      BY <1>3, <2>2, <3>2 DEF sub
    <3> HIDE DEF new
    <3>4. \A s \in DOMAIN subs[i].last :
                  \/ s \in DOMAIN new /\ new[s] >= subs[i].last[s]
                  \/ clock - subs[i].last[s] > subs[i].window
      <4> TAKE s \in DOMAIN subs[i].last
      <4>1. subs[i].last[s] \in Nat /\ subs[i].last[s] <= clock /\ subs[i].window \in Nat
        BY <1>5
      <4>2. CASE s = slot /\ subs[i].window > 0
        BY <1>4, <3>2, <3>3, <4>1, <4>2 DEF sub
      <4>3. CASE s = slot /\ subs[i].window = 0
        BY <3>2, <3>3, <4>1, <4>3 DEF sub
      <4>4. CASE s # slot
        BY <3>2, <3>3, <4>1, <4>4 DEF sub
      <4> QED
        BY <4>1, <4>2, <4>3, <4>4
    <3> QED
      BY <2>2, <3>2, <3>3, <3>4 DEF sub
  <2> QED
    BY <2>1, <2>2
<1> HIDE DEF n, fresh
<1>9. \A o \in fresh : \E i \in Matching(slot) :
        /\ o \in OfferSet /\ o.n = n /\ o.slot = slot /\ o.hook = subs[i].hook /\ o.at = clock
        /\ o.window = subs[i].window /\ o.era = era /\ o.fired = (i \in Firing(slot))
        /\ i \in DOMAIN subs
  BY <1>7 DEF fresh
<1>10. \A i \in Firing(slot) : \E o \in fresh : o.fired /\ o.hook = subs[i].hook /\ o.slot = slot /\ o.at = clock
  BY <1>6, <1>7 DEF fresh
<1>11. SubTypes'
  <2>1. Distinct(subs)'
    BY <1>3, <1>4 DEF Distinct
  <2>2. \A i \in DOMAIN subs' : /\ DOMAIN subs'[i].last \subseteq Wants[subs'[i].hook]
                                /\ \A s \in DOMAIN subs'[i].last : subs'[i].last[s] <= clock
    BY SMTT(30), <1>3, <1>4, <1>5, <1>6, <1>8
  <2>3. Distinct(rows)'
    BY <1>2, <1>4 DEF Distinct
  <2> QED
    BY <1>2, <1>3, <1>4, <2>1, <2>2, <2>3 DEF SubTypes
<1>12. OfferTypes'
  <2>1. offers' \in SUBSET OfferSet
    BY <1>2, <1>4, <1>9
  <2>2. \A o \in offers' : o.at <= clock /\ o.era <= era
    BY <1>2, <1>4, <1>9
  <2>3. \E k \in Nat : {o.n : o \in offers'} = 1..k
    <3>1. CASE fresh = {}
      BY <1>2, <3>1 DEF OfferTypes
    <3>2. CASE fresh # {}
      <4>1. {o.n : o \in offers'} = {o.n : o \in offers} \cup {n}
        BY <1>2, <1>9, <3>2
      <4> QED
        BY <1>1, <4>1
    <3> QED
      BY <3>1, <3>2
  <2> QED
    BY <1>2, <1>4, <2>1, <2>2, <2>3 DEF OfferTypes
<1>13. Remembered'
  <2> SUFFICES ASSUME NEW p \in offers', p.fired, p.era = era
               PROVE  /\ \E i \in DOMAIN subs : subs[i].hook = p.hook
                      /\ p.window > 0 => \A i \in DOMAIN subs : subs[i].hook = p.hook =>
                           \/ p.slot \in DOMAIN subs'[i].last /\ p.at <= subs'[i].last[p.slot]
                           \/ clock - p.at > subs[i].window
    BY <1>2, <1>3 DEF Remembered
  <2>1. CASE p \in offers
    <3>1. \E i \in DOMAIN subs : subs[i].hook = p.hook
      BY <2>1 DEF Remembered
    <3>2. ASSUME p.window > 0, NEW i \in DOMAIN subs, subs[i].hook = p.hook
          PROVE  \/ p.slot \in DOMAIN subs'[i].last /\ p.at <= subs'[i].last[p.slot]
                 \/ clock - p.at > subs[i].window
      <4>1. \/ p.slot \in DOMAIN subs[i].last /\ p.at <= subs[i].last[p.slot]
            \/ clock - p.at > subs[i].window
        BY <2>1, <3>2 DEF Remembered
      <4>2. CASE p.slot \in DOMAIN subs[i].last /\ p.at <= subs[i].last[p.slot]
        <5>1. p.at \in Nat /\ subs[i].last[p.slot] \in Nat /\ subs[i].window \in Nat
          BY <1>4, <1>5, <2>1, <4>2 DEF OfferSet
        <5>2. \/ p.slot \in DOMAIN subs'[i].last /\ subs'[i].last[p.slot] >= subs[i].last[p.slot]
              \/ clock - subs[i].last[p.slot] > subs[i].window
          BY <1>8, <4>2
        <5>3. p.slot \in DOMAIN subs'[i].last => subs'[i].last[p.slot] \in Nat
          BY <1>4, <1>5, <1>8
        <5> QED
          BY <1>4, <4>2, <5>1, <5>2, <5>3
      <4> QED
        BY <4>1, <4>2
    <3> QED
      BY <3>1, <3>2
  <2>2. CASE p \in fresh
    <3>1. PICK j \in Matching(slot) : /\ p.slot = slot /\ p.hook = subs[j].hook /\ p.at = clock
                                      /\ p.window = subs[j].window /\ p.fired = (j \in Firing(slot)) /\ j \in DOMAIN subs
      BY <1>9, <2>2
    <3>2. ASSUME p.window > 0, NEW i \in DOMAIN subs, subs[i].hook = p.hook
          PROVE  p.slot \in DOMAIN subs'[i].last /\ p.at <= subs'[i].last[p.slot]
      <4>1. i = j
        BY <1>4, <3>1, <3>2 DEF Distinct
      <4>2. j \in Firing(slot)
        BY <3>1
      <4>3. subs[j].window > 0 /\ j \in DOMAIN subs
        BY <3>1, <3>2
      <4>4. slot \in DOMAIN subs'[j].last /\ subs'[j].last[slot] = clock
        BY <1>8, <4>2, <4>3
      <4> QED
        BY <1>4, <3>1, <4>1, <4>4
    <3> QED
      BY <3>1, <3>2
  <2> QED
    BY <1>2, <2>1, <2>2
<1>14. StampsAreFirings'
  <2> SUFFICES ASSUME NEW i \in DOMAIN subs, NEW s \in DOMAIN subs'[i].last
               PROVE  \E p \in offers' : p.fired /\ p.hook = subs[i].hook /\ p.slot = s /\ p.at = subs'[i].last[s]
    BY <1>3 DEF StampsAreFirings
  <2>1. CASE i \in Firing(slot) /\ s = slot /\ subs'[i].last[s] = clock
    BY <1>2, <1>10, <2>1
  <2>2. CASE s \in DOMAIN subs[i].last /\ subs'[i].last[s] = subs[i].last[s]
    BY <1>2, <2>2 DEF StampsAreFirings
  <2> QED
    BY <1>8, <2>1, <2>2
<1>15. DebounceIsAWindow'
  <2>1. ASSUME NEW o \in offers', ~o.fired
        PROVE  \E p \in offers' : SameSlot(o, p) /\ p.fired /\ p.n < o.n /\ o.at - p.at < o.window
    <3>1. CASE o \in offers
      BY <1>2, <2>1, <3>1 DEF DebounceIsAWindow
    <3>2. CASE o \in fresh
      <4>1. PICK i \in Matching(slot) : /\ o.n = n /\ o.slot = slot /\ o.hook = subs[i].hook /\ o.at = clock
                                        /\ o.window = subs[i].window /\ i \notin Firing(slot) /\ i \in DOMAIN subs
        BY <1>9, <2>1, <3>2
      <4>2. ~Due(subs[i], slot)
        BY <4>1 DEF Firing
      <4>3. slot \in DOMAIN subs[i].last /\ ~(clock - subs[i].last[slot] >= subs[i].window)
        BY <4>2 DEF Due
      <4>4. PICK p \in offers : p.fired /\ p.hook = subs[i].hook /\ p.slot = slot /\ p.at = subs[i].last[slot]
        BY <4>1, <4>3 DEF StampsAreFirings
      <4>5. p.n < n /\ p \in offers' /\ SameSlot(o, p)
        BY <1>1, <1>2, <4>1, <4>4 DEF SameSlot
      <4>6. clock - p.at < subs[i].window
        <5>1. subs[i].last[slot] \in Nat /\ subs[i].window \in Nat
          BY <1>5, <4>1, <4>3
        <5> QED
          BY <1>4, <4>3, <4>4, <5>1
      <4> QED
        BY <4>1, <4>4, <4>5, <4>6
    <3> QED
      BY <1>2, <3>1, <3>2
  <2>2. ASSUME NEW o \in offers', o.fired, NEW p \in offers', SameSlot(o, p), p.fired, p.n < o.n, p.era = o.era, p.window > 0
        PROVE  o.at - p.at >= o.window
    <3>1. p \in offers
      <4> SUFFICES ASSUME p \in fresh PROVE FALSE
        BY <1>2
      <4>1. p.n = n
        BY <1>9
      <4>2. o.n = n \/ (o.n < n /\ o.n \in Nat)
        BY <1>1, <1>2, <1>9
      <4> QED
        BY <1>1, <2>2, <4>1, <4>2
    <3>2. CASE o \in offers
      BY <2>2, <3>1, <3>2 DEF DebounceIsAWindow
    <3>3. CASE o \in fresh
      <4>1. PICK i \in Matching(slot) : /\ o.slot = slot /\ o.hook = subs[i].hook /\ o.at = clock /\ o.era = era
                                        /\ o.window = subs[i].window /\ i \in Firing(slot) /\ i \in DOMAIN subs
        BY <1>9, <2>2, <3>3
      <4>2. Due(subs[i], slot) /\ p.at \in Nat /\ p.at <= clock /\ subs[i].window \in Nat
        BY <1>4, <1>5, <1>6, <3>1, <4>1 DEF OfferSet
      <4>3. \/ slot \in DOMAIN subs[i].last /\ p.at <= subs[i].last[slot]
            \/ clock - p.at > subs[i].window
        BY <2>2, <3>1, <4>1 DEF Remembered, SameSlot
      <4>4. slot \in DOMAIN subs[i].last => subs[i].last[slot] \in Nat
        BY <1>5, <4>1
      <4>5. clock - p.at >= subs[i].window
        BY <1>4, <4>2, <4>3, <4>4 DEF Due
      <4> QED
        BY <4>1, <4>5
    <3> QED
      BY <1>2, <3>2, <3>3
  <2> QED
    BY <2>1, <2>2 DEF DebounceIsAWindow
<1> QED
  BY <1>11, <1>12, <1>13, <1>14, <1>15

-----------------------------------------------------------------------------
(* Steps that leave a part alone.                                           *)

(* Of the lists.                                                            *)
LEMMA SubsStand ==
  ASSUME SubTypes, UNCHANGED <<rows, subs>>, clock' \in Nat, clock' >= clock
  PROVE  SubTypes'
<1>1. \A i \in DOMAIN subs : \A s \in DOMAIN subs[i].last : subs[i].last[s] \in Nat
  BY SubFacts DEF SubTypes
<1>2. Distinct(rows)' /\ Distinct(subs)'
  BY DEF SubTypes, Distinct
<1> QED
  BY <1>1, <1>2 DEF SubTypes

(* Of the tasks and what they came to.                                      *)
LEMMA TasksStand ==
  ASSUME TaskTypes, Evidence, UNCHANGED <<inFlight, letters, delivered, gone, offers>>
  PROVE  TaskTypes' /\ Evidence'
BY DEF TaskTypes, Evidence

(* Of the events.                                                           *)
LEMMA OffersStand ==
  ASSUME OfferTypes, Remembered, StampsAreFirings, DebounceIsAWindow, UNCHANGED <<offers, subs, clock, era>>
  PROVE  OfferTypes' /\ Remembered' /\ StampsAreFirings' /\ DebounceIsAWindow'
BY DEF OfferTypes, Remembered, StampsAreFirings, DebounceIsAWindow, SameSlot

(* Whether memory follows the table for a key is a matter of the rows and   *)
(* the subscriptions of that key.                                           *)
LEMMA NotMoved ==
  ASSUME NEW k, \A v \in Windows : Has(subs, k, v)' <=> Has(subs, k, v), \A v : Kept(k, v)' <=> Kept(k, v)
  PROVE  (Follows(k)' <=> Follows(k)) /\ \A r : asks'[r] = asks[r] => (Ahead(r, k)' <=> Ahead(r, k))
<1>1. Follows(k)' <=> Follows(k)
  BY DEF Follows
<1>2. \A r : asks'[r] = asks[r] => (Ahead(r, k)' <=> Ahead(r, k))
  BY <1>1 DEF Ahead
<1> QED
  BY <1>1, <1>2

(* Of the requests.                                                         *)
LEMMA RequestsStand ==
  ASSUME OneInHand, Synced, UNCHANGED <<asks, rows, overlapped>>, up' # "down" => up # "down",
         \A k, w : Has(subs, k, w)' <=> Has(subs, k, w)
  PROVE  OneInHand' /\ Synced'
<1>1. OneInHand' /\ \A r : Stored(r)' <=> Stored(r)
  BY DEF OneInHand, InHand, Stored
<1>2. \A k, w : Kept(k, w)' <=> Kept(k, w)
  BY DEF Kept, Has
<1>3. ASSUME NEW k PROVE (Follows(k)' <=> Follows(k)) /\ \A r : Ahead(r, k)' <=> Ahead(r, k)
  BY <1>2, NotMoved
<1>4. Synced'
  BY <1>1, <1>3 DEF Synced
<1> QED
  BY <1>1, <1>4

(* Subscriptions change but nothing is offered: stamps are kept or lost,    *)
(* and era says which.                                                      *)
LEMMA SubsChange ==
  ASSUME OfferTypes, Remembered, StampsAreFirings, DebounceIsAWindow, SubTypes, SubTypes',
         UNCHANGED <<offers, clock>>,
         \A j \in DOMAIN subs' : \A s \in DOMAIN subs'[j].last :
           \E i \in DOMAIN subs : /\ subs[i].hook = subs'[j].hook
                                  /\ s \in DOMAIN subs[i].last /\ subs'[j].last[s] = subs[i].last[s],
         \/ era' = era + 1
         \/ /\ era' = era
            /\ \A i \in DOMAIN subs : \E j \in DOMAIN subs' : subs'[j].hook = subs[i].hook
            /\ \A j \in DOMAIN subs' :
                 \/ \A i \in DOMAIN subs : subs[i].hook # subs'[j].hook
                 \/ \E i \in DOMAIN subs : /\ subs[i].hook = subs'[j].hook /\ subs'[j].last = subs[i].last
                                           /\ subs'[j].window <= subs[i].window
  PROVE  OfferTypes' /\ Remembered' /\ StampsAreFirings' /\ DebounceIsAWindow'
<1>1. /\ offers \in SUBSET OfferSet /\ era \in Nat /\ clock \in Nat
      /\ \A o \in offers : o.at <= clock /\ o.era <= era /\ o.at \in Nat /\ o.era \in Nat
  BY DEF OfferTypes, OfferSet, SubTypes
<1>2. OfferTypes' /\ DebounceIsAWindow'
  BY <1>1 DEF OfferTypes, DebounceIsAWindow, SameSlot
<1>3. StampsAreFirings'
  BY DEF StampsAreFirings
<1>4. Remembered'
  <2>1. CASE era' = era + 1
    BY <1>1, <2>1 DEF Remembered
  <2>2. CASE /\ era' = era
             /\ \A i \in DOMAIN subs : \E j \in DOMAIN subs' : subs'[j].hook = subs[i].hook
             /\ \A j \in DOMAIN subs' :
                  \/ \A i \in DOMAIN subs : subs[i].hook # subs'[j].hook
                  \/ \E i \in DOMAIN subs : /\ subs[i].hook = subs'[j].hook /\ subs'[j].last = subs[i].last
                                            /\ subs'[j].window <= subs[i].window
    <3> SUFFICES ASSUME NEW p \in offers, p.fired, p.era = era
                 PROVE  /\ \E j \in DOMAIN subs' : subs'[j].hook = p.hook
                        /\ p.window > 0 => \A j \in DOMAIN subs' : subs'[j].hook = p.hook =>
                             \/ p.slot \in DOMAIN subs'[j].last /\ p.at <= subs'[j].last[p.slot]
                             \/ clock - p.at > subs'[j].window
      BY <2>2 DEF Remembered
    <3>1. PICK k \in DOMAIN subs : subs[k].hook = p.hook
      BY DEF Remembered
    <3>2. ASSUME p.window > 0, NEW j \in DOMAIN subs', subs'[j].hook = p.hook
          PROVE  \/ p.slot \in DOMAIN subs'[j].last /\ p.at <= subs'[j].last[p.slot]
                 \/ clock - p.at > subs'[j].window
      <4>1. PICK i \in DOMAIN subs : /\ subs[i].hook = subs'[j].hook /\ subs'[j].last = subs[i].last
                                     /\ subs'[j].window <= subs[i].window
        BY <2>2, <3>1, <3>2
      <4>2. \/ p.slot \in DOMAIN subs[i].last /\ p.at <= subs[i].last[p.slot]
            \/ clock - p.at > subs[i].window
        BY <3>2, <4>1 DEF Remembered
      <4>3. subs[i].window \in Nat /\ subs'[j].window \in Nat
        <5>1. subs[i] \in Sub /\ subs'[j] \in Sub
          BY DEF SubTypes
        <5> QED
          BY <5>1, NotifierAssumption DEF Sub
      <4> QED
        BY <1>1, <4>1, <4>2, <4>3
    <3> QED
      BY <2>2, <3>1, <3>2
  <2> QED
    BY <2>1, <2>2
<1> QED
  BY <1>2, <1>3, <1>4

-----------------------------------------------------------------------------
(* An event keeps the invariant.                                            *)
LEMMA EmitStep ==
  ASSUME NotifierInv, NEW slot \in Slots, Emit(NextNumber, slot)
  PROVE  NotifierInv'
<1> DEFINE n == NextNumber
<1> USE DEF NotifierInv
<1>1. n \in Nat
  BY NextIsNew
<1>2. /\ up # "down" /\ offers' = offers \cup {Offer(n, slot, i) : i \in Matching(slot)}
      /\ UNCHANGED <<rows, asks, letters, clock, up, delivered, gone, overlapped, era>>
  BY DEF Emit
<1>o. \A i \in Matching(slot) : /\ Offer(n, slot, i).n = n /\ Offer(n, slot, i).hook = subs[i].hook
                                 /\ Offer(n, slot, i).fired = (i \in Firing(slot))
  BY <1>1, OfferFacts
<1> HIDE DEF n
<1>3. /\ inFlight \subseteq inFlight'
      /\ inFlight' \in SUBSET TaskSet /\ IsFiniteSet(inFlight')
      /\ Cardinality({t \in inFlight' : t.kind = "deliver"}) <= MaxInFlight
      /\ \A i \in Firing(slot) : \E t \in inFlight' : t.n = n /\ t.hook = subs[i].hook
  BY <1>1, EmitTasks DEF n
<1>4. /\ DOMAIN subs' = DOMAIN subs
      /\ \A i \in DOMAIN subs : subs'[i].hook = subs[i].hook /\ subs'[i].window = subs[i].window
  BY EmitSubs
<1>5. SubTypes' /\ OfferTypes' /\ Remembered' /\ StampsAreFirings' /\ DebounceIsAWindow'
  BY EmitOffers
<1>6. TaskTypes'
  BY <1>2, <1>3 DEF TaskTypes
<1>7. AskTypes'
  BY <1>2 DEF AskTypes, InHand
<1>8. Evidence'
  <2> SUFFICES ASSUME NEW o \in offers', o.fired
               PROVE  \/ <<o.n, o.hook>> \in delivered \cup gone \cup ToSet(letters)
                      \/ \E t \in inFlight' : t.n = o.n /\ t.hook = o.hook
                      \/ Len(letters) = MaxLetters
    BY <1>2 DEF Evidence
  <2>1. CASE o \in offers
    BY <1>3, <2>1 DEF Evidence
  <2>2. ASSUME NEW i \in Matching(slot), o = Offer(n, slot, i)
        PROVE  \E t \in inFlight' : t.n = o.n /\ t.hook = o.hook
    <3>1. o.n = n /\ o.hook = subs[i].hook /\ o.fired = (i \in Firing(slot))
      BY <1>o, <2>2
    <3>2. i \in Firing(slot)
      BY <3>1
    <3> QED
      BY <1>3, <3>1, <3>2
  <2> QED
    BY <1>2, <2>1, <2>2
<1>9. OneInHand' /\ Synced'
  <2>1. \A h, w : Has(subs, h, w)' <=> Has(subs, h, w)
    BY <1>4 DEF Has
  <2> QED
    BY <1>2, <2>1, RequestsStand
<1> QED
  BY <1>5, <1>6, <1>7, <1>8, <1>9

-----------------------------------------------------------------------------
(* Deliveries.                                                              *)

(* A task gives way to another of its event, or to what it came to.         *)
LEMMA TaskGivesWay ==
  ASSUME NotifierInv, NEW t \in inFlight, NEW new \in SUBSET TaskSet, IsFiniteSet(new),
         inFlight' = (inFlight \ {t}) \cup new,
         \A u \in new : u.n = t.n /\ u.hook = t.hook,
         \/ \A u \in new : u.kind = "persist"
         \/ t.kind = "deliver" /\ \E u : new = {u},
         letters' \in Seq(Nat \X Hooks), Len(letters') <= MaxLetters,
         delivered \subseteq delivered', gone \subseteq gone',
         ToSet(letters) \subseteq ToSet(letters') \/ Len(letters') = MaxLetters,
         Len(letters) = MaxLetters => Len(letters') = MaxLetters,
         \/ new # {}
         \/ <<t.n, t.hook>> \in delivered' \cup gone' \cup ToSet(letters')
         \/ Len(letters') = MaxLetters,
         UNCHANGED <<rows, subs, asks, clock, up, offers, overlapped, era>>
  PROVE  NotifierInv'
<1> USE DEF NotifierInv
<1> DEFINE old == {u \in inFlight : u.kind = "deliver"}
           now == {u \in inFlight' : u.kind = "deliver"}
<1>1. /\ IsFiniteSet(inFlight) /\ IsFiniteSet(inFlight')
      /\ inFlight' \in SUBSET TaskSet
  <2>1. IsFiniteSet(inFlight \ {t})
    BY FS_RemoveElement DEF TaskTypes
  <2> QED
    BY <2>1, FS_Union DEF TaskTypes
<1>2. /\ IsFiniteSet(old) /\ Cardinality(old) \in Nat /\ Cardinality(old) <= MaxInFlight
      /\ MaxInFlight \in Nat
  BY <1>1, FS_Subset, FS_CardinalityType, NotifierAssumption DEF TaskTypes
<1>3. Cardinality(now) <= MaxInFlight
  <2>1. CASE \A u \in new : u.kind = "persist"
    <3>1. now \in SUBSET old
      BY <2>1
    <3> HIDE DEF old, now
    <3>2. IsFiniteSet(now) /\ Cardinality(now) <= Cardinality(old)
      BY <1>2, <3>1, FS_Subset
    <3>3. Cardinality(now) \in Nat
      BY <3>2, FS_CardinalityType
    <3> QED
      BY <1>2, <3>2, <3>3
  <2>2. CASE t.kind = "deliver" /\ \E u : new = {u}
    <3>1. PICK u : new = {u}
      BY <2>2
    <3>2. now \in SUBSET ((old \ {t}) \cup {u}) /\ t \in old
      BY <2>2, <3>1
    <3> HIDE DEF old, now
    <3>3. IsFiniteSet(old \ {t}) /\ Cardinality(old \ {t}) = Cardinality(old) - 1
      BY <1>2, <3>2, FS_RemoveElement
    <3>4. /\ IsFiniteSet((old \ {t}) \cup {u})
          /\ Cardinality((old \ {t}) \cup {u}) <= Cardinality(old)
      <4> DEFINE rest == old \ {t}
      <4>1. IsFiniteSet(rest) /\ Cardinality(rest) = Cardinality(old) - 1
        BY <3>3
      <4> HIDE DEF rest
      <4>2. /\ IsFiniteSet(rest \cup {u})
            /\ Cardinality(rest \cup {u}) = IF u \in rest THEN Cardinality(rest) ELSE Cardinality(rest) + 1
        BY <4>1, FS_AddElement
      <4>3. Cardinality(rest \cup {u}) <= Cardinality(old)
        BY <1>2, <4>1, <4>2
      <4> QED
        BY <4>2, <4>3 DEF rest
    <3>5. IsFiniteSet(now) /\ Cardinality(now) <= Cardinality((old \ {t}) \cup {u})
      BY <3>2, <3>4, FS_Subset
    <3>6. Cardinality(now) \in Nat /\ Cardinality((old \ {t}) \cup {u}) \in Nat
      BY <3>4, <3>5, FS_CardinalityType
    <3> QED
      BY <1>2, <3>4, <3>5, <3>6
  <2> QED
    BY <2>1, <2>2
<1>4. TaskTypes'
  BY <1>1, <1>3 DEF TaskTypes
<1>5. Evidence'
  <2> SUFFICES ASSUME NEW o \in offers, o.fired
               PROVE  \/ <<o.n, o.hook>> \in delivered' \cup gone' \cup ToSet(letters')
                      \/ \E u \in inFlight' : u.n = o.n /\ u.hook = o.hook
                      \/ Len(letters') = MaxLetters
    BY DEF Evidence
  <2>1. CASE <<o.n, o.hook>> \in delivered \cup gone \cup ToSet(letters)
    BY <2>1
  <2>2. CASE \E u \in inFlight : u.n = o.n /\ u.hook = o.hook
    <3>1. PICK u \in inFlight : u.n = o.n /\ u.hook = o.hook
      BY <2>2
    <3>2. CASE u # t
      BY <3>1, <3>2
    <3>3. CASE u = t
      BY <3>1, <3>3
    <3> QED
      BY <3>2, <3>3
  <2> QED
    BY <2>1, <2>2 DEF Evidence
<1>6. SubTypes' /\ OfferTypes' /\ Remembered' /\ StampsAreFirings' /\ DebounceIsAWindow'
  BY SubsStand, OffersStand DEF SubTypes
<1>7. AskTypes'
  BY DEF AskTypes, InHand
<1>8. OneInHand' /\ Synced'
  BY RequestsStand DEF Has
<1> QED
  BY <1>4, <1>5, <1>6, <1>7, <1>8

(* Every end of a task is one of those.                                     *)
LEMMA DeliverStep ==
  ASSUME NotifierInv, NEW t, Deliver(t)
  PROVE  NotifierInv'
<1>1. /\ inFlight \in SUBSET TaskSet /\ letters \in Seq(Nat \X Hooks) /\ Len(letters) <= MaxLetters
      /\ MaxLetters \in Nat /\ MaxLetters > 0 /\ MaxAttempts \in Nat
  BY NotifierAssumption DEF NotifierInv, TaskTypes
<1>2. t \in inFlight /\ t \in TaskSet /\ t.n \in Nat /\ t.hook \in Hooks /\ t.attempt \in 1..MaxAttempts
  BY <1>1 DEF Deliver, Delivered, AttemptFails, Persist, PersistFails, TaskSet
<1>3. IsFiniteSet({})
  BY FS_EmptySet
<1>4. CASE Delivered(t)
  BY <1>1, <1>2, <1>3, <1>4, TaskGivesWay DEF Delivered
<1>5. CASE AttemptFails(t)
  <2> DEFINE next == IF t.attempt < MaxAttempts THEN [Task(t.n, t.hook, "deliver") EXCEPT !.attempt = t.attempt + 1]
                     ELSE [Task(t.n, t.hook, "persist") EXCEPT !.attempt = t.attempt]
  <2>1. next \in TaskSet /\ next.n = t.n /\ next.hook = t.hook
    BY <1>1, <1>2 DEF Task, TaskSet
  <2>2. inFlight' = (inFlight \ {t}) \cup {next} /\ t.kind = "deliver"
        /\ UNCHANGED <<rows, subs, asks, letters, clock, up, notes>>
    BY <1>5 DEF AttemptFails
  <2> HIDE DEF next
  <2>3. IsFiniteSet({next})
    BY FS_Singleton
  <2> QED
    BY <1>1, <1>2, <2>1, <2>2, <2>3, TaskGivesWay DEF notes
<1>6. CASE Persist(t)
  <2> DEFINE more == Append(letters, <<t.n, t.hook>>)
  <2>1. /\ more \in Seq(Nat \X Hooks) /\ Len(more) = Len(letters) + 1
        /\ ToSet(letters) \subseteq ToSet(more) /\ <<t.n, t.hook>> \in ToSet(more)
    <3>1. more \in Seq(Nat \X Hooks) /\ DOMAIN more = 1..(Len(letters) + 1) /\ DOMAIN letters = 1..Len(letters)
          /\ (\A i \in 1..Len(letters) : more[i] = letters[i]) /\ more[Len(letters) + 1] = <<t.n, t.hook>>
          /\ Len(more) = Len(letters) + 1 /\ Len(letters) \in Nat
      BY <1>1, <1>2
    <3> HIDE DEF more
    <3> QED
      BY SMTT(30), <3>1 DEF ToSet
  <2>2. letters' = Trimmed(more) /\ inFlight' = inFlight \ {t} /\ UNCHANGED <<rows, subs, asks, clock, up, notes>>
    BY <1>6 DEF Persist
  <2> HIDE DEF more
  <2>3. CASE Len(more) <= MaxLetters
    <3>1. letters' = more
      BY <2>2, <2>3 DEF Trimmed
    <3>2. Len(letters) # MaxLetters
      BY <1>1, <2>1, <2>3
    <3> QED
      BY <1>2, <1>3, <2>1, <2>2, <2>3, <3>1, <3>2, TaskGivesWay DEF notes
  <2>4. CASE ~(Len(more) <= MaxLetters)
    <3>1. letters' = Tail(more)
      BY <2>2, <2>4 DEF Trimmed
    <3>2. Len(more) = MaxLetters + 1
      BY <1>1, <2>1, <2>4
    <3>3. letters' \in Seq(Nat \X Hooks) /\ Len(letters') = MaxLetters
      BY <1>1, <2>1, <3>1, <3>2
    <3>4. inFlight' = (inFlight \ {t}) \cup {}
          /\ UNCHANGED <<rows, subs, asks, clock, up, offers, delivered, gone, overlapped, era>>
      BY <2>2 DEF notes
    <3> QED
      BY ONLY <1>2, <1>3, <3>3, <3>4, TaskGivesWay, NotifierInv
  <2> QED
    BY <2>3, <2>4
<1>7. CASE PersistFails(t)
  BY <1>1, <1>2, <1>3, <1>7, TaskGivesWay DEF PersistFails
<1> QED
  BY <1>4, <1>5, <1>6, <1>7 DEF Deliver

-----------------------------------------------------------------------------
(* Requests.                                                                *)

(* A request comes in: two about one URL are noted as overlapping.          *)
LEMMA AskStep ==
  ASSUME NotifierInv, NEW q \in Requests, NEW op \in {"subscribe", "unsubscribe"}, NEW h \in Hooks, NEW w \in Nat,
         op = "subscribe" => w \in Windows, Ask(q, op, h, w)
  PROVE  NotifierInv'
<1> USE DEF NotifierInv
<1>1. /\ asks' \in [Requests -> AskSet]
      /\ asks'[q] = [op |-> op, hook |-> h, window |-> w, stage |-> "asked"]
      /\ \A p \in Requests : p # q => asks'[p] = asks[p]
      /\ asks[q].stage = "none"
  BY DEF Ask, AskTypes, AskSet
<1>2. /\ up = "up" /\ UNCHANGED <<rows, subs, inFlight, letters, clock, up, offers, delivered, gone, era>>
      /\ overlapped' = (overlapped \/ Meets(q, h))
  BY DEF Ask
<1>3. SubTypes' /\ TaskTypes' /\ Evidence' /\ OfferTypes' /\ Remembered' /\ StampsAreFirings' /\ DebounceIsAWindow'
  BY <1>2, SubsStand, TasksStand, OffersStand DEF SubTypes
<1>4. AskTypes'
  <2>1. overlapped' \in BOOLEAN
    BY <1>2 DEF AskTypes
  <2>2. \A p \in Requests : InHand(p)' =>
          /\ asks'[p].hook \in Hooks /\ asks'[p].op \in {"subscribe", "unsubscribe"}
          /\ asks'[p].op = "subscribe" => asks'[p].window \in Windows
    BY <1>1 DEF AskTypes, InHand
  <2> QED
    BY <1>1, <1>2, <2>1, <2>2 DEF AskTypes
<1>5. OneInHand'
  <2> SUFFICES ASSUME ~overlapped', NEW p \in Requests, NEW r \in Requests, InHand(p)', InHand(r)',
                      UrlOf[asks'[p].hook] = UrlOf[asks'[r].hook]
               PROVE  p = r
    BY DEF OneInHand
  <2>1. ~overlapped /\ ~Meets(q, h)
    BY <1>2 DEF AskTypes
  <2>2. ASSUME NEW x \in Requests, x # q, InHand(x)' PROVE UrlOf[asks[x].hook] # UrlOf[h] /\ InHand(x) /\ asks'[x] = asks[x]
    <3>1. asks'[x] = asks[x] /\ asks[x].stage \notin {"none", "answered", "refused", "cut"}
      BY <1>1, <2>2 DEF InHand
    <3> QED
      BY <2>1, <2>2, <3>1 DEF Meets, InHand
  <2> QED
    BY <1>1, <2>1, <2>2 DEF OneInHand
<1>6. Synced'
  <2> SUFFICES ASSUME ~overlapped', \A r \in Requests : asks'[r].stage # "refused", NEW k \in Hooks
               PROVE  /\ (\A r \in Requests : Stored(r)' => UrlOf[asks'[r].hook] # UrlOf[k]) => Follows(k)'
                      /\ \A r \in Requests : Stored(r)' /\ UrlOf[asks'[r].hook] = UrlOf[k] => Ahead(r, k)'
    BY <1>2 DEF Synced
  <2>1. ~overlapped /\ \A r \in Requests : asks[r].stage # "refused"
    BY <1>1, <1>2 DEF AskTypes
  <2>2. \A r \in Requests : /\ Stored(r)' => asks'[r] = asks[r] /\ Stored(r)
                            /\ Stored(r) => asks'[r] = asks[r] /\ Stored(r)'
    BY <1>1 DEF Stored
  <2>3. (Follows(k)' <=> Follows(k)) /\ \A r : asks'[r] = asks[r] => (Ahead(r, k)' <=> Ahead(r, k))
    BY <1>2, NotMoved DEF Has, Kept
  <2>4. /\ (\A r \in Requests : Stored(r) => UrlOf[asks[r].hook] # UrlOf[k]) => Follows(k)
        /\ \A r \in Requests : Stored(r) /\ UrlOf[asks[r].hook] = UrlOf[k] => Ahead(r, k)
    BY <1>2, <2>1 DEF Synced
  <2> QED
    BY <2>2, <2>3, <2>4
<1> QED
  BY <1>3, <1>4, <1>5, <1>6

(* A request goes on.                                                       *)
LEMMA ReachFacts ==
  ASSUME AskTypes, OneInHand, NEW q \in Requests, NEW stage \in {"stored", "answered", "refused"}, Reach(q, stage),
         InHand(q), UNCHANGED <<up, overlapped>>, up = "down" => subs' = <<>> /\ inFlight' = {}
  PROVE  /\ up # "down"
         /\ asks'[q].op = asks[q].op /\ asks'[q].hook = asks[q].hook /\ asks'[q].window = asks[q].window
         /\ asks'[q].stage = stage
         /\ \A p \in Requests : p # q => asks'[p] = asks[p]
         /\ AskTypes' /\ OneInHand'
<1>1. /\ asks' \in [Requests -> AskSet]
      /\ asks'[q].op = asks[q].op /\ asks'[q].hook = asks[q].hook /\ asks'[q].window = asks[q].window
      /\ asks'[q].stage = stage
      /\ \A p \in Requests : p # q => asks'[p] = asks[p]
  BY DEF Reach, AskTypes, AskSet
<1>2. up # "down"
  BY DEF AskTypes
<1>3. \A p \in Requests : /\ InHand(p)' => InHand(p)
                          /\ asks'[p].op = asks[p].op /\ asks'[p].hook = asks[p].hook /\ asks'[p].window = asks[p].window
  BY <1>1 DEF InHand
<1>4. AskTypes'
  BY <1>1, <1>2, <1>3 DEF AskTypes
<1>5. OneInHand'
  BY <1>3 DEF OneInHand
<1> QED
  BY <1>1, <1>2, <1>4, <1>5

(* The row is ahead of memory by this request.                              *)
LEMMA StoreRowStep ==
  ASSUME NotifierInv, NEW q \in Requests, StoreRow(q)
  PROVE  NotifierInv'
<1> USE DEF NotifierInv
<1> DEFINE h == asks[q].hook
           w == asks[q].window
<1>1. /\ rows' = AddRow(h, w) /\ Reach(q, "stored") /\ asks[q].op = "subscribe" /\ asks[q].stage = "asked"
      /\ UNCHANGED <<subs, inFlight, letters, clock, up, offers, delivered, gone, overlapped, era>>
  BY DEF StoreRow, At, notes
<1>2. h \in Hooks /\ w \in Windows /\ InHand(q)
  BY <1>1 DEF AskTypes, InHand
<1>3. /\ up # "down"
      /\ asks'[q].op = asks[q].op /\ asks'[q].hook = h /\ asks'[q].window = w
      /\ asks'[q].stage = "stored"
      /\ \A p \in Requests : p # q => asks'[p] = asks[p]
      /\ AskTypes' /\ OneInHand'
  <2>1. up = "down" => subs' = <<>> /\ inFlight' = {}
    BY <1>1 DEF AskTypes
  <2> QED
    BY <1>1, <1>2, <2>1, ReachFacts
<1>4. /\ AddRow(h, w) \in Seq(StoredRow) /\ Distinct(AddRow(h, w))
      /\ \A g \in Hooks : \A v : Has(AddRow(h, w), g, v) <=> IF g = h THEN v = w ELSE Has(rows, g, v)
  BY <1>2, AddRowFacts DEF SubTypes
<1>5. Distinct(rows') /\ rows' \in Seq(StoredRow)
      /\ \A g \in Hooks : \A v : Has(rows', g, v) <=> IF g = h THEN v = w ELSE Has(rows, g, v)
  BY <1>1, <1>4
<1> HIDE DEF h, w
<1>6. SubTypes'
  BY <1>1, <1>5 DEF SubTypes, Distinct
<1>7. TaskTypes' /\ Evidence' /\ OfferTypes' /\ Remembered' /\ StampsAreFirings' /\ DebounceIsAWindow'
  BY <1>1, TasksStand, OffersStand
<1>k. ASSUME NEW k \in Hooks
      PROVE  /\ KeyOf[h] = k => \E v : v = w /\ Kept(k, v)'
             /\ KeyOf[h] # k => (Follows(k)' <=> Follows(k)) /\ \A r : asks'[r] = asks[r] => (Ahead(r, k)' <=> Ahead(r, k))
  <2>1. \A g \in Hooks : \A v : Has(rows, g, v)' <=> IF g = h THEN v = w ELSE Has(rows, g, v)
    BY <1>5 DEF Has
  <2>2. CASE KeyOf[h] = k
    BY <1>2, <2>1, <2>2 DEF Kept
  <2>3. CASE KeyOf[h] # k
    <3>1. \A v : Kept(k, v)' <=> Kept(k, v)
      BY <2>1, <2>3 DEF Kept
    <3> QED
      BY <1>1, <2>3, <3>1, NotMoved
  <2> QED
    BY <2>2, <2>3
<1>8. Synced'
  <2> SUFFICES ASSUME ~overlapped, \A r \in Requests : asks'[r].stage # "refused", NEW k \in Hooks
               PROVE  /\ (\A r \in Requests : Stored(r)' => UrlOf[asks'[r].hook] # UrlOf[k]) => Follows(k)'
                      /\ \A r \in Requests : Stored(r)' /\ UrlOf[asks'[r].hook] = UrlOf[k] => Ahead(r, k)'
    BY <1>1 DEF Synced
  <2>1. \A r \in Requests : asks[r].stage # "refused"
    BY <1>1, <1>3
  <2>2. \A r \in Requests : r # q => (Stored(r)' <=> Stored(r)) /\ asks'[r] = asks[r]
    BY <1>3 DEF Stored
  <2>3. /\ (\A r \in Requests : Stored(r) => UrlOf[asks[r].hook] # UrlOf[k]) => Follows(k)
        /\ \A r \in Requests : Stored(r) /\ UrlOf[asks[r].hook] = UrlOf[k] => Ahead(r, k)
    BY <1>3, <2>1 DEF Synced
  <2>4. ~Stored(q) /\ Stored(q)' /\ asks'[q].op # "unsubscribe"
    BY <1>1, <1>3 DEF Stored
  <2>5. UrlOf[KeyOf[h]] = UrlOf[h]
    BY <1>2, NotifierAssumption
  <2>6. CASE UrlOf[k] = UrlOf[h]
    <3>1. \A r \in Requests : r # q /\ Stored(r) => UrlOf[asks[r].hook] # UrlOf[h]
      BY <1>1, <1>2 DEF Stored, InHand, OneInHand, h
    <3>2. Follows(k)
      BY <2>3, <2>4, <2>6, <3>1
    <3>3. Ahead(q, k)'
      <4>1. KeyOf[h] # k => Follows(k)'
        BY <1>k, <3>2
      <4>2. KeyOf[h] = k => Kept(k, asks[q].window)'
        BY <1>3, <1>k
      <4> QED
        BY <1>3, <2>4, <4>1, <4>2 DEF Ahead
    <3> QED
      BY <1>3, <2>2, <2>4, <2>6, <3>1, <3>3
  <2>7. CASE UrlOf[k] # UrlOf[h]
    <3>1. (Follows(k)' <=> Follows(k)) /\ \A r : asks'[r] = asks[r] => (Ahead(r, k)' <=> Ahead(r, k))
      BY <1>k, <2>5, <2>7
    <3> QED
      BY <1>3, <2>2, <2>3, <2>4, <2>7, <3>1
  <2> QED
    BY <2>6, <2>7
<1> QED
  BY <1>3, <1>6, <1>7, <1>8

(* Memory catches up; a window that grows starts an era.                    *)
LEMMA RegisterStep ==
  ASSUME NotifierInv, NEW q \in Requests, RegisterHook(q)
  PROVE  NotifierInv'
<1> USE DEF NotifierInv
<1> DEFINE h == asks[q].hook
           w == asks[q].window
           key == KeyOf[h]
<1>1. /\ subs' = Register(subs, key, w) /\ Reach(q, "answered") /\ asks[q].op = "subscribe" /\ asks[q].stage = "stored"
      /\ era' = IF Grows(key, w) THEN era + 1 ELSE era
      /\ UNCHANGED <<rows, inFlight, letters, clock, up, offers, delivered, gone, overlapped>>
  BY DEF RegisterHook, At
<1>2. h \in Hooks /\ w \in Windows /\ InHand(q) /\ w \in Nat /\ key \in Hooks /\ UrlOf[key] = UrlOf[h]
  BY <1>1, NotifierAssumption DEF AskTypes, InHand
<1>3. /\ up # "down"
      /\ asks'[q].op = asks[q].op /\ asks'[q].hook = h /\ asks'[q].window = w
      /\ asks'[q].stage = "answered"
      /\ \A p \in Requests : p # q => asks'[p] = asks[p]
      /\ AskTypes' /\ OneInHand'
  <2>1. up # "down"
    BY <1>2 DEF AskTypes
  <2> QED
    BY <1>1, <1>2, <2>1, ReachFacts
<1>4. /\ subs' \in Seq(Sub) /\ Distinct(subs')
      /\ \A g \in Hooks, v \in Windows : Has(subs', g, v) <=> IF g = key THEN v = w ELSE Has(subs, g, v)
      /\ \A j \in DOMAIN subs' :
           \/ subs'[j].hook = key /\ subs'[j].last = [s \in {} |-> 0] /\ \A i \in DOMAIN subs : subs[i].hook # key
           \/ /\ j \in DOMAIN subs /\ subs'[j].hook = subs[j].hook /\ subs'[j].last = subs[j].last
              /\ subs'[j].window = IF subs[j].hook = key THEN w ELSE subs[j].window
      /\ \A i \in DOMAIN subs : i \in DOMAIN subs' /\ subs'[i].hook = subs[i].hook
  <2> HIDE DEF h, w, key
  <2>1. subs \in Seq(Sub) /\ Distinct(subs)
    BY DEF SubTypes
  <2> QED
    BY <1>1, <1>2, <2>1, RegisterFacts
<1>5. Grows(key, w) <=> \E i \in DOMAIN subs : subs[i].hook = key /\ subs[i].window < w
  BY DEF Grows
<1> HIDE DEF h, w, key
<1>6. SubTypes'
  <2>1. \A i \in DOMAIN subs' : /\ DOMAIN subs'[i].last \subseteq Wants[subs'[i].hook]
                                /\ \A s \in DOMAIN subs'[i].last : subs'[i].last[s] <= clock
    <3> TAKE i \in DOMAIN subs'
    <3>1. CASE subs'[i].last = [s \in {} |-> 0]
      BY <3>1, NoStamps
    <3>2. CASE i \in DOMAIN subs /\ subs'[i].hook = subs[i].hook /\ subs'[i].last = subs[i].last
      BY <3>2 DEF SubTypes
    <3> QED
      BY <1>4, <3>1, <3>2
  <2>2. Distinct(subs)' /\ Distinct(rows)'
    BY <1>1, <1>4 DEF SubTypes, Distinct
  <2> QED
    BY <1>1, <1>4, <2>1, <2>2 DEF SubTypes
<1>7. TaskTypes' /\ Evidence'
  BY <1>1, TasksStand
<1>8. OfferTypes' /\ Remembered' /\ StampsAreFirings' /\ DebounceIsAWindow'
  <2>1. \A j \in DOMAIN subs' : \A s \in DOMAIN subs'[j].last :
          \E i \in DOMAIN subs : /\ subs[i].hook = subs'[j].hook
                                 /\ s \in DOMAIN subs[i].last /\ subs'[j].last[s] = subs[i].last[s]
    BY <1>4, NoStamps
  <2>2. ASSUME ~Grows(key, w)
        PROVE  \A j \in DOMAIN subs' :
                 \/ \A i \in DOMAIN subs : subs[i].hook # subs'[j].hook
                 \/ \E i \in DOMAIN subs : /\ subs[i].hook = subs'[j].hook /\ subs'[j].last = subs[i].last
                                           /\ subs'[j].window <= subs[i].window
    <3> TAKE j \in DOMAIN subs'
    <3>1. CASE \A i \in DOMAIN subs : subs[i].hook # subs'[j].hook
      BY <3>1
    <3>2. CASE /\ j \in DOMAIN subs /\ subs'[j].hook = subs[j].hook /\ subs'[j].last = subs[j].last
               /\ subs'[j].window = IF subs[j].hook = key THEN w ELSE subs[j].window
      <4>1. subs[j] \in Sub /\ subs[j].window \in Nat
        BY <3>2, SubFacts DEF SubTypes
      <4>2. subs[j].hook = key => w <= subs[j].window
        BY <1>2, <1>5, <2>2, <3>2, <4>1
      <4> QED
        BY <3>2, <4>1, <4>2
    <3> QED
      BY <1>4, <3>1, <3>2
  <2>3. \A i \in DOMAIN subs : \E j \in DOMAIN subs' : subs'[j].hook = subs[i].hook
    BY <1>4
  <2> QED
    BY <1>1, <1>6, <2>1, <2>2, <2>3, SubsChange
<1>9. Synced'
  <2> SUFFICES ASSUME ~overlapped, \A r \in Requests : asks'[r].stage # "refused", NEW k \in Hooks
               PROVE  /\ (\A r \in Requests : Stored(r)' => UrlOf[asks'[r].hook] # UrlOf[k]) => Follows(k)'
                      /\ \A r \in Requests : Stored(r)' /\ UrlOf[asks'[r].hook] = UrlOf[k] => Ahead(r, k)'
    BY <1>1 DEF Synced
  <2>1. \A r \in Requests : asks[r].stage # "refused"
    BY <1>1, <1>3
  <2>2. \A r \in Requests : r # q => (Stored(r)' <=> Stored(r)) /\ asks'[r] = asks[r]
    BY <1>3 DEF Stored
  <2>3. /\ (\A r \in Requests : Stored(r) => UrlOf[asks[r].hook] # UrlOf[k]) => Follows(k)
        /\ \A r \in Requests : Stored(r) /\ UrlOf[asks[r].hook] = UrlOf[k] => Ahead(r, k)
    BY <1>3, <2>1 DEF Synced
  <2>4. Stored(q) /\ ~Stored(q)' /\ asks[q].op # "unsubscribe" /\ asks[q].hook = h /\ asks[q].window = w
        /\ KeyOf[h] = key
    BY <1>1, <1>3 DEF Stored, h, w, key
  <2>5. \A r \in Requests : r # q /\ Stored(r) => UrlOf[asks[r].hook] # UrlOf[h]
    BY <1>2 DEF Stored, InHand, OneInHand, h
  <2>6. \A v \in Windows : Has(subs, k, v)' <=> IF k = key THEN v = w ELSE Has(subs, k, v)
    BY <1>4 DEF Has
  <2>7. \A v : Kept(k, v)' <=> Kept(k, v)
    BY <1>1 DEF Kept, Has
  <2>8. k # key => (Follows(k)' <=> Follows(k)) /\ \A r : asks'[r] = asks[r] => (Ahead(r, k)' <=> Ahead(r, k))
    BY <2>6, <2>7, NotMoved
  <2>9. CASE UrlOf[k] = UrlOf[h]
    <3>1. \A r \in Requests : Stored(r)' => UrlOf[asks'[r].hook] # UrlOf[k]
      BY <2>2, <2>4, <2>5, <2>9
    <3>2. Ahead(q, k)
      BY <2>3, <2>4, <2>9
    <3>3. CASE k = key
      <4>1. Kept(k, w)
        BY <2>4, <3>2, <3>3 DEF Ahead
      <4>2. \A v : v = w => Kept(k, v)'
        BY <2>7, <4>1
      <4> QED
        BY <1>2, <2>6, <3>1, <3>3, <4>2 DEF Follows
    <3>4. CASE k # key
      BY <2>4, <2>8, <3>1, <3>2, <3>4 DEF Ahead
    <3> QED
      BY <3>3, <3>4
  <2>10. CASE UrlOf[k] # UrlOf[h]
    <3>1. (Follows(k)' <=> Follows(k)) /\ \A r : asks'[r] = asks[r] => (Ahead(r, k)' <=> Ahead(r, k))
      BY <1>2, <2>8, <2>10
    <3> QED
      BY <1>3, <2>2, <2>3, <2>4, <2>10, <3>1
  <2> QED
    BY <2>9, <2>10
<1> QED
  BY <1>3, <1>6, <1>7, <1>8, <1>9

(* Refused after its row was stored: the lists may differ from now on.      *)
LEMMA RefuseStep ==
  ASSUME NotifierInv, NEW q \in Requests, RefuseHook(q)
  PROVE  NotifierInv'
<1> USE DEF NotifierInv
<1>1. /\ Reach(q, "refused") /\ asks[q].op = "subscribe" /\ asks[q].stage = "stored"
      /\ UNCHANGED <<rows, subs, inFlight, letters, clock, up, offers, delivered, gone, overlapped, era>>
  BY DEF RefuseHook, At, notes
<1>2. /\ asks'[q].stage = "refused" /\ AskTypes' /\ OneInHand'
  <2>1. InHand(q) /\ (up = "down" => subs' = <<>> /\ inFlight' = {})
    BY <1>1 DEF AskTypes, InHand
  <2> QED
    BY <1>1, <2>1, ReachFacts
<1>3. SubTypes' /\ TaskTypes' /\ Evidence' /\ OfferTypes' /\ Remembered' /\ StampsAreFirings' /\ DebounceIsAWindow'
  BY <1>1, SubsStand, TasksStand, OffersStand DEF SubTypes
<1>4. Synced'
  BY <1>2 DEF Synced
<1> QED
  BY <1>2, <1>3, <1>4

(* The rows of a URL go.                                                    *)
LEMMA RemoveRowsStep ==
  ASSUME NotifierInv, NEW q \in Requests, RemoveRows(q)
  PROVE  NotifierInv'
<1> USE DEF NotifierInv
<1> DEFINE url == UrlOf[asks[q].hook]
<1>1. /\ rows' = Without(rows, url) /\ Reach(q, "stored") /\ asks[q].op = "unsubscribe" /\ asks[q].stage = "asked"
      /\ UNCHANGED <<subs, inFlight, letters, clock, up, offers, delivered, gone, overlapped, era>>
  BY DEF RemoveRows, At, notes
<1>2. InHand(q)
  BY <1>1 DEF InHand
<1>3. /\ up # "down"
      /\ asks'[q].op = asks[q].op /\ UrlOf[asks'[q].hook] = url /\ asks'[q].stage = "stored"
      /\ \A p \in Requests : p # q => asks'[p] = asks[p]
      /\ AskTypes' /\ OneInHand'
  <2>1. up = "down" => subs' = <<>> /\ inFlight' = {}
    BY <1>1 DEF AskTypes
  <2> QED
    BY <1>1, <1>2, <2>1, ReachFacts
<1>4. /\ Distinct(rows') /\ rows' \in Seq(StoredRow)
      /\ \A g \in Hooks : \A v : Has(rows', g, v) <=> Has(rows, g, v) /\ UrlOf[g] # url
  <2> HIDE DEF url
  <2>1. rows \in Seq(StoredRow) /\ Distinct(rows)
    BY DEF SubTypes
  <2>2. /\ Without(rows, url) \in Seq(StoredRow) /\ Distinct(Without(rows, url))
    BY <2>1, WithoutFacts
  <2>3. \A g \in Hooks : \A v : Has(Without(rows, url), g, v) <=> Has(rows, g, v) /\ UrlOf[g] # url
    BY <2>1, HasWithout
  <2> QED
    BY <1>1, <2>2, <2>3
<1>5. \A r \in Requests : r # q /\ InHand(r) /\ ~overlapped => UrlOf[asks[r].hook] # url
  BY <1>2 DEF OneInHand
<1> HIDE DEF url
<1>6. SubTypes'
  BY <1>1, <1>4 DEF SubTypes, Distinct
<1>7. TaskTypes' /\ Evidence' /\ OfferTypes' /\ Remembered' /\ StampsAreFirings' /\ DebounceIsAWindow'
  BY <1>1, TasksStand, OffersStand
<1>8. Synced'
  <2> SUFFICES ASSUME ~overlapped, \A r \in Requests : asks'[r].stage # "refused", NEW k \in Hooks
               PROVE  /\ (\A r \in Requests : Stored(r)' => UrlOf[asks'[r].hook] # UrlOf[k]) => Follows(k)'
                      /\ \A r \in Requests : Stored(r)' /\ UrlOf[asks'[r].hook] = UrlOf[k] => Ahead(r, k)'
    BY <1>1 DEF Synced
  <2>1. \A r \in Requests : asks[r].stage # "refused"
    BY <1>1, <1>3
  <2>2. \A r \in Requests : r # q => (Stored(r)' <=> Stored(r)) /\ asks'[r] = asks[r]
    BY <1>3 DEF Stored
  <2>3. /\ (\A r \in Requests : Stored(r) => UrlOf[asks[r].hook] # UrlOf[k]) => Follows(k)
        /\ \A r \in Requests : Stored(r) /\ UrlOf[asks[r].hook] = UrlOf[k] => Ahead(r, k)
    BY <1>3, <2>1 DEF Synced
  <2>4. ~Stored(q) /\ Stored(q)' /\ asks'[q].op = "unsubscribe"
    BY <1>1, <1>3 DEF Stored
  <2>5. \A v : Kept(k, v)' <=> Kept(k, v) /\ UrlOf[k] # url
    <3>1. \A g \in Hooks : \A v : Has(rows, g, v)' <=> Has(rows, g, v) /\ UrlOf[g] # url
      BY <1>4 DEF Has
    <3>2. \A g \in Hooks : KeyOf[g] = k => UrlOf[g] = UrlOf[k]
      BY NotifierAssumption
    <3> QED
      BY <3>1, <3>2 DEF Kept
  <2>6. CASE UrlOf[k] = url
    <3>1. Ahead(q, k)'
      BY <2>4, <2>5, <2>6 DEF Ahead
    <3>2. \A r \in Requests : Stored(r)' /\ UrlOf[asks'[r].hook] = UrlOf[k] => r = q
      BY <1>5, <2>2, <2>6 DEF Stored, InHand
    <3> QED
      BY <1>3, <2>4, <2>6, <3>1, <3>2
  <2>7. CASE UrlOf[k] # url
    <3>1. (Follows(k)' <=> Follows(k)) /\ \A r : asks'[r] = asks[r] => (Ahead(r, k)' <=> Ahead(r, k))
      BY <1>1, <2>5, <2>7, NotMoved
    <3> QED
      BY <1>3, <2>2, <2>3, <2>4, <2>7, <3>1
  <2> QED
    BY <2>6, <2>7
<1> QED
  BY <1>3, <1>6, <1>7, <1>8

(* Memory follows, and its stamps go.                                       *)
LEMMA ForgetStep ==
  ASSUME NotifierInv, NEW q \in Requests, Forget(q)
  PROVE  NotifierInv'
<1> USE DEF NotifierInv
<1> DEFINE url == UrlOf[asks[q].hook]
<1>1. /\ subs' = Without(subs, url) /\ Reach(q, "answered") /\ asks[q].op = "unsubscribe" /\ asks[q].stage = "stored"
      /\ era' = era + 1
      /\ UNCHANGED <<rows, inFlight, letters, clock, up, offers, delivered, gone, overlapped>>
  BY DEF Forget, At
<1>2. InHand(q)
  BY <1>1 DEF InHand
<1>3. /\ up # "down"
      /\ asks'[q].stage = "answered"
      /\ \A p \in Requests : p # q => asks'[p] = asks[p]
      /\ AskTypes' /\ OneInHand'
  <2>1. up # "down"
    BY <1>2 DEF AskTypes
  <2> QED
    BY <1>1, <1>2, <2>1, ReachFacts
<1>4. /\ Distinct(subs') /\ subs' \in Seq(Sub)
      /\ \A k \in DOMAIN subs' : \E i \in DOMAIN subs : subs'[k] = subs[i]
      /\ \A g \in Hooks, v \in Windows : Has(subs', g, v) <=> Has(subs, g, v) /\ UrlOf[g] # url
  <2> HIDE DEF url
  <2>1. subs \in Seq(Sub) /\ Distinct(subs)
    BY DEF SubTypes
  <2>2. /\ Without(subs, url) \in Seq(Sub) /\ Distinct(Without(subs, url))
        /\ \A k \in DOMAIN Without(subs, url) : \E i \in DOMAIN subs : Without(subs, url)[k] = subs[i]
    BY <2>1, WithoutFacts
  <2>3. \A g \in Hooks, v \in Windows : Has(Without(subs, url), g, v) <=> Has(subs, g, v) /\ UrlOf[g] # url
    BY <2>1, HasWithout
  <2> QED
    BY <1>1, <2>2, <2>3
<1>5. \A r \in Requests : r # q /\ InHand(r) /\ ~overlapped => UrlOf[asks[r].hook] # url
  BY <1>2 DEF OneInHand
<1>s. Stored(q) /\ asks[q].op = "unsubscribe" /\ UrlOf[asks[q].hook] = url
  BY <1>1 DEF Stored
<1> HIDE DEF url
<1>6. SubTypes'
  <2>1. \A i \in DOMAIN subs' : /\ DOMAIN subs'[i].last \subseteq Wants[subs'[i].hook]
                                /\ \A s \in DOMAIN subs'[i].last : subs'[i].last[s] <= clock
    BY <1>4 DEF SubTypes
  <2>2. Distinct(subs)' /\ Distinct(rows)'
    BY <1>1, <1>4 DEF SubTypes, Distinct
  <2> QED
    BY <1>1, <1>4, <2>1, <2>2 DEF SubTypes
<1>7. TaskTypes' /\ Evidence'
  BY <1>1, TasksStand
<1>8. OfferTypes' /\ Remembered' /\ StampsAreFirings' /\ DebounceIsAWindow'
  <2>1. \A j \in DOMAIN subs' : \A s \in DOMAIN subs'[j].last :
          \E i \in DOMAIN subs : /\ subs[i].hook = subs'[j].hook
                                 /\ s \in DOMAIN subs[i].last /\ subs'[j].last[s] = subs[i].last[s]
    BY <1>4
  <2> QED
    BY <1>1, <1>6, <2>1, SubsChange
<1>9. Synced'
  <2> SUFFICES ASSUME ~overlapped, \A r \in Requests : asks'[r].stage # "refused", NEW k \in Hooks
               PROVE  /\ (\A r \in Requests : Stored(r)' => UrlOf[asks'[r].hook] # UrlOf[k]) => Follows(k)'
                      /\ \A r \in Requests : Stored(r)' /\ UrlOf[asks'[r].hook] = UrlOf[k] => Ahead(r, k)'
    BY <1>1 DEF Synced
  <2>1. \A r \in Requests : asks[r].stage # "refused"
    BY <1>1, <1>3
  <2>2. \A r \in Requests : r # q => (Stored(r)' <=> Stored(r)) /\ asks'[r] = asks[r]
    BY <1>3 DEF Stored
  <2>3. /\ (\A r \in Requests : Stored(r) => UrlOf[asks[r].hook] # UrlOf[k]) => Follows(k)
        /\ \A r \in Requests : Stored(r) /\ UrlOf[asks[r].hook] = UrlOf[k] => Ahead(r, k)
    BY <1>3, <2>1 DEF Synced
  <2>4. ~Stored(q)'
    BY <1>3 DEF Stored
  <2>5. \A v \in Windows : Has(subs, k, v)' <=> Has(subs, k, v) /\ UrlOf[k] # url
    BY <1>4 DEF Has
  <2>6. \A v : Kept(k, v)' <=> Kept(k, v)
    BY <1>1 DEF Kept, Has
  <2>7. CASE UrlOf[k] = url
    <3>1. \A v \in Windows : ~Kept(k, v)
      BY <1>s, <2>3, <2>7 DEF Ahead
    <3>2. Follows(k)'
      BY <2>5, <2>6, <2>7, <3>1 DEF Follows
    <3>3. \A r \in Requests : Stored(r)' => UrlOf[asks'[r].hook] # UrlOf[k]
      BY <1>5, <2>2, <2>4, <2>7 DEF Stored, InHand
    <3> QED
      BY <3>2, <3>3
  <2>8. CASE UrlOf[k] # url
    <3>1. (Follows(k)' <=> Follows(k)) /\ \A r : asks'[r] = asks[r] => (Ahead(r, k)' <=> Ahead(r, k))
      BY <2>5, <2>6, <2>8, NotMoved
    <3> QED
      BY <1>3, <1>s, <2>2, <2>3, <2>4, <2>8, <3>1
  <2> QED
    BY <2>7, <2>8
<1> QED
  BY <1>3, <1>6, <1>7, <1>8, <1>9

-----------------------------------------------------------------------------
(* The process.                                                             *)

(* The drain only stops taking requests.                                    *)
LEMMA DrainStep ==
  ASSUME NotifierInv, Drain
  PROVE  NotifierInv'
<1> USE DEF NotifierInv
<1>1. /\ up = "up" /\ up' = "draining"
      /\ UNCHANGED <<rows, subs, asks, inFlight, letters, clock, offers, delivered, gone, overlapped, era>>
  BY DEF Drain, notes
<1>2. SubTypes' /\ TaskTypes' /\ Evidence' /\ OfferTypes' /\ Remembered' /\ StampsAreFirings' /\ DebounceIsAWindow'
  BY <1>1, SubsStand, TasksStand, OffersStand DEF SubTypes
<1>3. AskTypes'
  BY <1>1 DEF AskTypes, InHand
<1>4. OneInHand' /\ Synced'
  <2>1. \A h, w : Has(subs, h, w)' <=> Has(subs, h, w)
    BY <1>1 DEF Has
  <2> QED
    BY <1>1, <2>1, RequestsStand
<1> QED
  BY <1>2, <1>3, <1>4

(* The end of the process takes the tasks, memory and its stamps.           *)
LEMMA StopsStep ==
  ASSUME NotifierInv, Stops
  PROVE  NotifierInv'
<1> USE DEF NotifierInv
<1>1. /\ up' = "down" /\ inFlight' = {} /\ subs' = <<>> /\ overlapped' = FALSE /\ era' = era + 1
      /\ gone' = gone \cup {<<t.n, t.hook>> : t \in inFlight}
      /\ UNCHANGED <<rows, letters, clock, offers, delivered>>
  BY DEF Stops
<1>2. /\ asks' \in [Requests -> AskSet] /\ \A q \in Requests : ~InHand(q)'
  BY DEF Stops, Cut, AskTypes, AskSet, InHand
<1>3. AskTypes' /\ OneInHand' /\ Synced'
  BY <1>1, <1>2 DEF AskTypes, OneInHand, Synced
<1>4. TaskTypes'
  <2>1. {t \in inFlight' : t.kind = "deliver"} = {}
    BY <1>1
  <2>2. Cardinality({t \in inFlight' : t.kind = "deliver"}) = 0
    BY <2>1, FS_EmptySet
  <2> QED
    BY <1>1, <2>2, FS_EmptySet, NotifierAssumption DEF TaskTypes
<1>5. Evidence'
  BY <1>1 DEF Evidence
<1>6. SubTypes'
  <2>1. subs' \in Seq(Sub) /\ DOMAIN subs' = {}
    BY <1>1
  <2>2. Distinct(subs)' /\ Distinct(rows)'
    BY <1>1, <2>1 DEF SubTypes, Distinct
  <2> QED
    BY <1>1, <2>1, <2>2 DEF SubTypes
<1>7. OfferTypes' /\ Remembered' /\ StampsAreFirings' /\ DebounceIsAWindow'
  <2>1. DOMAIN subs' = {}
    BY <1>1
  <2> QED
    BY <1>1, <1>6, <2>1, SubsChange
<1> QED
  BY <1>3, <1>4, <1>5, <1>6, <1>7

(* A boot lists what is stored.                                             *)
LEMMA BootsStep ==
  ASSUME NotifierInv, Boots
  PROVE  NotifierInv'
<1> USE DEF NotifierInv
<1>1. /\ up = "down" /\ up' = "up" /\ subs' = Rehydrated
      /\ UNCHANGED <<rows, asks, inFlight, letters, clock, offers, delivered, gone, overlapped, era>>
  BY DEF Boots, notes
<1>2. DOMAIN subs = {} /\ \A q \in Requests : ~InHand(q) /\ ~InHand(q)'
  BY <1>1 DEF AskTypes, InHand
<1>3. /\ subs' \in Seq(Sub) /\ Distinct(subs') /\ \A j \in DOMAIN subs' : DOMAIN subs'[j].last = {}
      /\ \A k, w : Has(subs', k, w) => Kept(k, w)
      /\ \A k, w : Kept(k, w) => \E v \in Windows : Has(subs', k, v)
  <2>1. rows \in Seq(StoredRow) /\ Distinct(rows)
    BY DEF SubTypes
  <2> QED
    BY <1>1, <2>1, RehydratedFacts
<1>4. SubTypes'
  <2>1. Distinct(subs)' /\ Distinct(rows)'
    BY <1>1, <1>3 DEF SubTypes, Distinct
  <2>2. \A i \in DOMAIN subs' : /\ DOMAIN subs'[i].last \subseteq Wants[subs'[i].hook]
                                /\ \A s \in DOMAIN subs'[i].last : subs'[i].last[s] <= clock
    BY <1>3
  <2> QED
    BY <1>1, <1>3, <2>1, <2>2 DEF SubTypes
<1>5. OfferTypes' /\ Remembered' /\ StampsAreFirings' /\ DebounceIsAWindow'
  BY <1>1, <1>2, <1>3, <1>4, SubsChange
<1>6. TaskTypes' /\ Evidence'
  BY <1>1, TasksStand
<1>7. AskTypes' /\ OneInHand'
  BY <1>1, <1>2 DEF AskTypes, OneInHand
<1>8. Synced'
  <2>1. \A q \in Requests : ~Stored(q)'
    BY <1>2 DEF Stored, InHand
  <2>2. \A k \in Hooks : Follows(k)'
    <3>1. \A k, w : (Kept(k, w)' <=> Kept(k, w)) /\ (Has(subs, k, w)' <=> Has(subs', k, w))
      BY <1>1 DEF Kept, Has
    <3> QED
      BY <1>3, <3>1 DEF Follows
  <2> QED
    BY <2>1, <2>2 DEF Synced
<1> QED
  BY <1>4, <1>5, <1>6, <1>7, <1>8

(* What was remembered stays so, or its window is over.                     *)
LEMMA PassesStep ==
  ASSUME NotifierInv, Passes
  PROVE  NotifierInv'
<1> USE DEF NotifierInv
<1>1. /\ clock' = clock + 1 /\ clock \in Nat
      /\ UNCHANGED <<rows, subs, asks, inFlight, letters, up, offers, delivered, gone, overlapped, era>>
  BY DEF Passes, notes, SubTypes
<1>2. SubTypes' /\ TaskTypes' /\ Evidence'
  BY <1>1, SubsStand, TasksStand
<1>3. AskTypes' /\ OneInHand' /\ Synced'
  BY <1>1, RequestsStand DEF AskTypes, InHand, Has
<1>4. \A o \in offers : o.at \in Nat
  BY DEF OfferTypes, OfferSet
<1>5. \A i \in DOMAIN subs : subs[i].window \in Nat
  BY SubFacts DEF SubTypes
<1>6. OfferTypes' /\ StampsAreFirings' /\ DebounceIsAWindow'
  BY <1>1, <1>4 DEF OfferTypes, StampsAreFirings, DebounceIsAWindow, SameSlot
<1>7. Remembered'
  BY <1>1, <1>4, <1>5 DEF Remembered
<1> QED
  BY <1>2, <1>3, <1>6, <1>7

-----------------------------------------------------------------------------
(* The notifier in its process.                                             *)

(* The process starts from its table.                                       *)
LEMMA NotifierStart == Init => NotifierInv
<1> SUFFICES ASSUME Init PROVE NotifierInv
  OBVIOUS
<1>1. /\ subs = Rehydrated /\ letters = <<>> /\ inFlight = {} /\ clock = 0 /\ up = "up"
      /\ offers = {} /\ overlapped = FALSE /\ era = 0 /\ asks = [q \in Requests |-> NoAsk]
  BY DEF Init, NotifierInit
<1>2. rows \in Seq(StoredRow) /\ Distinct(rows)
  BY HousekeepingAssumption DEF Init, StoredRow, Distinct
<1>3. /\ subs \in Seq(Sub) /\ Distinct(subs) /\ \A j \in DOMAIN subs : DOMAIN subs[j].last = {}
      /\ \A k \in Hooks : Follows(k)
  BY <1>1, <1>2, RehydratedFacts DEF Follows
<1>4. SubTypes
  BY <1>1, <1>2, <1>3 DEF SubTypes
<1>5. NoAsk \in AskSet /\ NoAsk.stage = "none"
  BY DEF NoAsk, AskSet
<1>6. \A q \in Requests : asks[q].stage = "none" /\ ~InHand(q)
  BY <1>1, <1>5 DEF InHand
<1>7. AskTypes /\ OneInHand
  BY <1>1, <1>5, <1>6 DEF AskTypes, OneInHand
<1>8. TaskTypes
  <2>1. {t \in inFlight : t.kind = "deliver"} = {}
    BY <1>1
  <2>2. Cardinality({t \in inFlight : t.kind = "deliver"}) = 0
    BY <2>1, FS_EmptySet
  <2> QED
    BY <1>1, <2>2, FS_EmptySet, NotifierAssumption DEF TaskTypes
<1>9. OfferTypes
  <2>1. {o.n : o \in offers} = 1..0
    BY <1>1
  <2> QED
    BY <1>1, <2>1 DEF OfferTypes
<1>10. Evidence /\ Remembered /\ DebounceIsAWindow
  BY <1>1 DEF Evidence, Remembered, DebounceIsAWindow
<1>11. StampsAreFirings
  BY <1>3 DEF StampsAreFirings
<1>12. Synced
  BY <1>3, <1>6 DEF Synced, Stored
<1> QED
  BY <1>4, <1>7, <1>8, <1>9, <1>10, <1>11, <1>12 DEF NotifierInv

(* What has nothing to do with the notifier.                                *)
LEMMA NotifierStands ==
  ASSUME NotifierInv, UNCHANGED notifierVars
  PROVE  NotifierInv'
<1>1. UNCHANGED <<rows, subs, asks, inFlight, letters, clock, up, offers, delivered, gone, overlapped, era>>
  BY DEF notifierVars, notes
<1> QED
  BY <1>1, SubsStand, TasksStand, OffersStand, RequestsStand DEF NotifierInv, SubTypes, AskTypes, InHand, Has

(* Every step of the process.                                               *)
LEMMA NotifierStep == NotifierInv /\ [Next]_vars => NotifierInv'
<1> SUFFICES ASSUME NotifierInv, [Next]_vars PROVE NotifierInv'
  OBVIOUS
<1>1. ASSUME NEW q \in Requests, NEW h \in Hooks, NEW w \in Windows, Subscribe(q, h, w) PROVE NotifierInv'
  BY <1>1, AskStep, NotifierAssumption DEF Subscribe
<1>2. ASSUME NEW q \in Requests, NEW h \in Hooks, Unsubscribe(q, h) PROVE NotifierInv'
  BY <1>2, AskStep DEF Unsubscribe
<1>3. ASSUME NEW q \in Requests, RequestStep(q) PROVE NotifierInv'
  BY <1>3, StoreRowStep, RegisterStep, RefuseStep, RemoveRowsStep, ForgetStep DEF RequestStep
<1>4. ASSUME NEW slot \in Slots, Emit(NextNumber, slot) PROVE NotifierInv'
  BY <1>4, EmitStep
<1>5. ASSUME NEW n, NEW h, Task_(n, h) PROVE NotifierInv'
  BY <1>5, DeliverStep DEF Task_
<1>6. CASE ShutsDown \/ Ends \/ Starts
  BY <1>6, DrainStep, StopsStep, BootsStep DEF ShutsDown, Ends, Starts
<1>7. CASE Time
  BY <1>7, PassesStep, NotifierStands DEF Time
<1>8. CASE UNCHANGED notifierVars
  BY <1>8, NotifierStands
<1> QED
  BY <1>1, <1>2, <1>3, <1>4, <1>5, <1>6, <1>7, <1>8, HousekeepingAssumption
  DEF Next, vars, Paste, Operator, Page, Sweep, TellExpiry, Schedules, Alarm, Retention

(* With what the process does, the notifier keeps its invariant.            *)
LEMMA NotifierAlways == Spec => []NotifierInv
BY NotifierStart, NotifierStep, PTL DEF Spec

(* Every event that was due is under way, answered or on record, and an     *)
(* event that was not due is covered by one that was: of emit and           *)
(* _deliver_owned, with the task counted before it is scheduled.            *)
THEOREM EventsAccounted == Spec => []EventsAreAccounted
<1>1. ASSUME NotifierInv PROVE LostIsEvidence
  <2>1. rows \in Seq([hook : Hooks, window : Windows]) /\ Len(letters) <= MaxLetters
        /\ (up = "down" => inFlight = {} /\ subs = <<>>)
    BY <1>1 DEF NotifierInv, SubTypes, StoredRow, TaskTypes, AskTypes
  <2>2. \A t \in inFlight : t.kind \in {"deliver", "persist"} /\ t.attempt \in 1..MaxAttempts
    BY <1>1 DEF NotifierInv, TaskTypes, TaskSet
  <2>3. \A i \in DOMAIN subs : subs[i].hook \in Hooks /\ subs[i].window \in Windows
    BY <1>1, SubFacts DEF NotifierInv, SubTypes
  <2>4. NotifierTypeOK
    BY <1>1, <2>1, <2>2, <2>3 DEF NotifierInv, SubTypes, NotifierTypeOK
  <2> QED
    BY <1>1, <2>4 DEF NotifierInv, TaskTypes, Evidence, LostIsEvidence
<1>2. NotifierInv => EventsAreAccounted
  BY <1>1 DEF NotifierInv, EventsAreAccounted
<1> QED
  BY <1>2, NotifierAlways, PTL

(* Between requests memory has a subscription for every key with a row and  *)
(* for no other, once, with the window of such a row: of subscribe and      *)
(* unsubscribe, whose row goes first, and of rehydrate.                     *)
THEOREM ListsAgree == Spec => []MemoryFollowsTable
<1>1. ASSUME NotifierInv PROVE MemoryFollowsTable
  <2> SUFFICES ASSUME up = "up", ~overlapped, \A q \in Requests : ~InHand(q) /\ asks[q].stage # "refused"
               PROVE  /\ HooksIn(subs) = {KeyOf[h] : h \in HooksIn(rows)}
                      /\ \A i \in DOMAIN subs : \E j \in DOMAIN rows :
                           KeyAt(j) = subs[i].hook /\ rows[j].window = subs[i].window
                      /\ Cardinality(HooksIn(subs)) = Len(subs)
                      /\ Cardinality(HooksIn(rows)) = Len(rows)
    BY DEF MemoryFollowsTable, AtRest
  <2>1. \A k \in Hooks : Follows(k)
    BY <1>1 DEF NotifierInv, Synced, Stored, InHand
  <2>2. /\ subs \in Seq(Sub) /\ Distinct(subs) /\ rows \in Seq(StoredRow) /\ Distinct(rows)
    BY <1>1 DEF NotifierInv, SubTypes
  <2>3. Cardinality(HooksIn(subs)) = Len(subs) /\ Cardinality(HooksIn(rows)) = Len(rows)
    BY <2>2, DistinctCount
  <2>4. \A i \in DOMAIN subs : subs[i].hook \in Hooks /\ subs[i].window \in Windows
    BY <2>2, SubFacts
  <2>5. \A i \in DOMAIN rows : rows[i].hook \in Hooks /\ rows[i].window \in Windows
    <3>1. \A i \in DOMAIN rows : rows[i] \in StoredRow
      BY <2>2
    <3> QED
      BY <3>1 DEF StoredRow
  <2>6. \A i \in DOMAIN subs : \E j \in DOMAIN rows :
          KeyAt(j) = subs[i].hook /\ rows[j].window = subs[i].window
    <3> TAKE i \in DOMAIN subs
    <3>1. Has(subs, subs[i].hook, subs[i].window)
      BY DEF Has
    <3>2. Kept(subs[i].hook, subs[i].window)
      BY <2>1, <2>4, <3>1 DEF Follows
    <3> QED
      BY <3>2 DEF Kept, Has, KeyAt
  <2>7. \A j \in DOMAIN rows : \E i \in DOMAIN subs : subs[i].hook = KeyOf[rows[j].hook]
    <3> TAKE j \in DOMAIN rows
    <3>1. Has(rows, rows[j].hook, rows[j].window) /\ KeyOf[rows[j].hook] \in Hooks
      BY <2>5, NotifierAssumption DEF Has
    <3>2. Kept(KeyOf[rows[j].hook], rows[j].window)
      BY <2>5, <3>1 DEF Kept
    <3>3. PICK w \in Windows : Has(subs, KeyOf[rows[j].hook], w)
      BY <2>1, <2>5, <3>1, <3>2 DEF Follows
    <3> QED
      BY <3>3 DEF Has
  <2>8. HooksIn(subs) = {KeyOf[h] : h \in HooksIn(rows)}
    BY <2>6, <2>7 DEF HooksIn, KeyAt
  <2> QED
    BY <2>3, <2>6, <2>8
<1>2. NotifierInv => MemoryFollowsTable
  BY <1>1
<1> QED
  BY <1>2, NotifierAlways, PTL

-----------------------------------------------------------------------------
(* The corpus and its schedule.                                             *)

CorpusRow == [run: PinnedRuns, side: {"must_block", "must_pass"},
        outcome: {"unanchored", "held", "escaped", "regressed", "passed"}]
Pinned == [run: PinnedRuns, side: {"must_block", "must_pass"}]
Denials == {Configs[g] : g \in DOMAIN Configs} \cup {{}}

CorpusTypes ==
  /\ pins \in [PinnedRuns -> {"none", "must_block", "must_pass"}]
  /\ sched \in SavedSchedule \cup {NoSchedule}
  /\ hour \in Nat
  /\ job \in [stage: {"rest", "pins", "rows", "alarm", "stamp"}, config: Denials, todo: SUBSET Pinned,
              rows: SUBSET CorpusRow, skipped: SUBSET PinnedRuns, at: Nat, interval: Nat]
  /\ reports \in Seq([rows: SUBSET CorpusRow, skipped: SUBSET PinnedRuns, config: Denials, at: Nat,
                      interval: Nat, safe: BOOLEAN])
  /\ job.stage # "rest" => sched # NoSchedule
  /\ stamped \subseteq DOMAIN reports

(* Every row is what replay says of its run under the report's              *)
(* configuration, and a report is safe only if its rows say so.             *)
RowsAreOutcomes ==
  /\ \A w \in job.rows : w.outcome = Outcome(w.run, w.side, job.config)
  /\ \A i \in DOMAIN reports :
       /\ \A w \in reports[i].rows : w.outcome = Outcome(w.run, w.side, reports[i].config)
       /\ reports[i].safe => SafeToShip(reports[i].rows, reports[i].skipped)

(* The stored time is the newest of what was stamped, and the report under  *)
(* way is an interval past it.                                              *)
StampIsNewest ==
  \A i \in stamped : /\ sched # NoSchedule /\ sched.last # NoSchedule
                     /\ reports[i].at <= sched.last

JobIsDue ==
  /\ job.stage # "rest" /\ sched.last # NoSchedule => job.at - sched.last >= job.interval
  /\ job.stage \in {"alarm", "stamp"} =>
       Len(reports) \in DOMAIN reports /\ reports[Len(reports)].at = job.at

CorpusInv ==
  /\ CorpusTypes
  /\ RowsAreOutcomes
  /\ ScheduledOnce
  /\ StampIsNewest
  /\ JobIsDue

-----------------------------------------------------------------------------
(* What safe rows are evidence of.                                          *)
LEMMA SafeRows ==
  ASSUME NEW R \in SUBSET CorpusRow, NEW skipped, NEW denied, SafeToShip(R, skipped),
         \A w \in R : w.outcome = Outcome(w.run, w.side, denied)
  PROVE  /\ skipped = {}
         /\ {w.run : w \in R} \ Demo # {}
         /\ \A w \in R :
              LET calls(v) == {c.call : c \in {d \in Traces[w.run] : d.verdict = v}}
              IN  IF w.side = "must_block"
                  THEN calls("deny") # {} /\ calls("deny") \subseteq denied
                  ELSE calls("pass") \cap denied = {}
<1>1. skipped = {} /\ {w.run : w \in R} \ Demo # {}
  BY DEF SafeToShip
<1>2. ASSUME NEW w \in R
      PROVE  IF w.side = "must_block"
             THEN /\ {c.call : c \in {d \in Traces[w.run] : d.verdict = "deny"}} # {}
                  /\ {c.call : c \in {d \in Traces[w.run] : d.verdict = "deny"}} \subseteq denied
             ELSE {c.call : c \in {d \in Traces[w.run] : d.verdict = "pass"}} \cap denied = {}
  <2> DEFINE pinned == {c \in Traces[w.run] : c.verdict = "deny"}
             passing == {c \in Traces[w.run] : c.verdict = "pass" /\ c.call \in denied}
  <2>1. Outcome(w.run, w.side, denied) \in {"held", "passed"}
    BY DEF SafeToShip
  <2>2. CASE w.side = "must_block"
    <3>1. pinned # {} /\ ~\E c \in pinned : c.call \notin denied
      BY <2>1, <2>2 DEF Outcome
    <3> QED
      BY <2>2, <3>1
  <2>3. CASE w.side # "must_block"
    <3>1. passing = {}
      BY <2>1, <2>3 DEF Outcome
    <3> QED
      BY <2>3, <3>1
  <2> QED
    BY <2>2, <2>3
<1> QED
  BY <1>1, <1>2

(* A report lists rows.                                                     *)
LEMMA ReportFacts ==
  ASSUME CorpusTypes, NEW i \in DOMAIN reports
  PROVE  reports[i].rows \in SUBSET CorpusRow /\ reports[i].at \in Nat
<1> DEFINE X == [rows: SUBSET CorpusRow, skipped: SUBSET PinnedRuns, config: Denials, at: Nat,
                 interval: Nat, safe: BOOLEAN]
<1>1. \A x \in X : x.rows \in SUBSET CorpusRow /\ x.at \in Nat
  OBVIOUS
<1>2. reports \in Seq(X)
  BY DEF CorpusTypes
<1> HIDE DEF X
<1>3. reports[i] \in X
  BY <1>2
<1> QED
  BY <1>1, <1>3

(* The invariant says what is promised of reports.                          *)
LEMMA SoundFromInv ==
  ASSUME CorpusInv
  PROVE  ReportsAreSound
<1>1. CorpusTypeOK
  BY DEF CorpusInv, CorpusTypes, CorpusTypeOK
<1>2. ASSUME NEW i \in DOMAIN reports, reports[i].safe
      PROVE  /\ reports[i].skipped = {}
             /\ {w.run : w \in reports[i].rows} \ Demo # {}
             /\ \A w \in reports[i].rows :
                  LET calls(v) == {c.call : c \in {d \in Traces[w.run] : d.verdict = v}}
                  IN  IF w.side = "must_block"
                      THEN calls("deny") # {} /\ calls("deny") \subseteq reports[i].config
                      ELSE calls("pass") \cap reports[i].config = {}
  <2>1. reports[i].rows \in SUBSET CorpusRow
    BY ReportFacts DEF CorpusInv
  <2>2. SafeToShip(reports[i].rows, reports[i].skipped)
        /\ \A w \in reports[i].rows : w.outcome = Outcome(w.run, w.side, reports[i].config)
    BY <1>2 DEF CorpusInv, RowsAreOutcomes
  <2> DEFINE R == reports[i].rows
             skipped == reports[i].skipped
             denied == reports[i].config
  <2>3. R \in SUBSET CorpusRow /\ SafeToShip(R, skipped) /\ \A w \in R : w.outcome = Outcome(w.run, w.side, denied)
    BY <2>1, <2>2
  <2> HIDE DEF R, skipped, denied
  <2>4. /\ skipped = {}
        /\ {w.run : w \in R} \ Demo # {}
        /\ \A w \in R :
             LET calls(v) == {c.call : c \in {d \in Traces[w.run] : d.verdict = v}}
             IN  IF w.side = "must_block"
                 THEN calls("deny") # {} /\ calls("deny") \subseteq denied
                 ELSE calls("pass") \cap denied = {}
    BY ONLY <2>3, SafeRows
  <2> QED
    BY ONLY <2>4 DEF R, skipped, denied
<1>3. SafeIsEvidence
  BY <1>1, <1>2 DEF SafeIsEvidence
<1> QED
  BY <1>3 DEF CorpusInv, ReportsAreSound

-----------------------------------------------------------------------------
(* The schedule and the reports stand, and so does the report under way, or *)
(* it is dropped.                                                           *)
LEMMA CorpusStands ==
  ASSUME CorpusInv, UNCHANGED <<sched, reports, written, stamped>>, hour' \in Nat,
         job' = job \/ job' = NoJob,
         pins' \in [PinnedRuns -> {"none", "must_block", "must_pass"}]
  PROVE  CorpusInv'
<1>1. CorpusTypes'
  <2>1. NoJob \in [stage: {"rest", "pins", "rows", "alarm", "stamp"}, config: Denials, todo: SUBSET Pinned,
                   rows: SUBSET CorpusRow, skipped: SUBSET PinnedRuns, at: Nat, interval: Nat]
    BY DEF NoJob, Denials
  <2>2. job'.stage # "rest" => job.stage # "rest"
    BY DEF NoJob
  <2> QED
    BY <2>1, <2>2 DEF CorpusInv, CorpusTypes
<1>2. RowsAreOutcomes'
  BY DEF CorpusInv, RowsAreOutcomes, NoJob
<1>3. ScheduledOnce' /\ StampIsNewest'
  BY DEF CorpusInv, ScheduledOnce, StampIsNewest
<1>4. JobIsDue'
  BY DEF CorpusInv, JobIsDue, NoJob
<1> QED
  BY <1>1, <1>2, <1>3, <1>4 DEF CorpusInv

(* The operator writes the schedule, and leaves the time of the last run.   *)
LEMMA PutScheduleStep ==
  ASSUME CorpusInv, NEW on \in BOOLEAN, NEW i \in Intervals, NEW c \in DOMAIN Configs, PutSchedule(on, i, c)
  PROVE  CorpusInv'
<1> DEFINE l == IF sched = NoSchedule THEN NoSchedule ELSE sched.last
<1>1. /\ sched' = [enabled |-> on, interval |-> i, config |-> c, last |-> l]
      /\ written' = <<on, i, c>>
      /\ UNCHANGED <<pins, kept, hour, job, reports, stamped>>
  BY DEF PutSchedule
<1>2. l \in Nat \cup {NoSchedule}
  BY DEF CorpusInv, CorpusTypes, SavedSchedule
<1>3. sched # NoSchedule => l = sched.last
  OBVIOUS
<1> HIDE DEF l
<1>4. sched' \in SavedSchedule /\ sched' # NoSchedule /\ sched'.last = l
  <2>1. sched' \in SavedSchedule /\ sched'.last = l
    BY <1>1, <1>2 DEF SavedSchedule
  <2> QED
    BY <2>1, CorpusAssumption
<1>5. CorpusTypes'
  BY <1>1, <1>4 DEF CorpusInv, CorpusTypes
<1>6. RowsAreOutcomes'
  BY <1>1 DEF CorpusInv, RowsAreOutcomes
<1>7. ScheduledOnce'
  BY <1>1 DEF CorpusInv, ScheduledOnce
<1>8. StampIsNewest'
  BY <1>1, <1>3, <1>4 DEF CorpusInv, StampIsNewest
<1>9. JobIsDue'
  BY <1>1, <1>3, <1>4 DEF CorpusInv, CorpusTypes, JobIsDue
<1> QED
  BY <1>5, <1>6, <1>7, <1>8, <1>9 DEF CorpusInv

(* A due schedule begins a report, at the hour that is.                     *)
LEMMA RunDueStep ==
  ASSUME CorpusInv, NEW entitled, RunDueSchedule(entitled)
  PROVE  CorpusInv'
<1>1. /\ UNCHANGED <<pins, kept, sched, hour, reports, corpusNotes>>
      /\ ScheduleDue
      /\ job' = [stage |-> "pins", config |-> Configs[sched.config], todo |-> {}, rows |-> {}, skipped |-> {},
                 at |-> hour, interval |-> sched.interval]
  BY DEF RunDueSchedule, NoJob
<1>2. /\ sched # NoSchedule /\ sched \in SavedSchedule /\ hour \in Nat
      /\ sched.last # NoSchedule => hour - sched.last >= sched.interval
  BY <1>1 DEF ScheduleDue, CorpusInv, CorpusTypes
<1>3. Configs[sched.config] \in Denials /\ sched.interval \in Nat
  BY <1>2, CorpusAssumption DEF SavedSchedule, Denials
<1>4. CorpusTypes'
  BY <1>1, <1>2, <1>3 DEF CorpusInv, CorpusTypes, corpusNotes
<1>5. RowsAreOutcomes'
  BY <1>1 DEF CorpusInv, RowsAreOutcomes
<1>6. ScheduledOnce' /\ StampIsNewest'
  BY <1>1 DEF CorpusInv, ScheduledOnce, StampIsNewest, corpusNotes
<1>7. JobIsDue'
  BY <1>1, <1>2 DEF JobIsDue
<1> QED
  BY <1>4, <1>5, <1>6, <1>7 DEF CorpusInv

(* The report under way goes on, under the same configuration.              *)
LEMMA JobGoesOn ==
  ASSUME CorpusInv, UNCHANGED <<pins, sched, hour, reports, written, stamped>>,
         NEW stage \in {"rows", "stamp"}, NEW todo \in SUBSET Pinned, NEW R \in SUBSET CorpusRow,
         NEW skipped \in SUBSET PinnedRuns,
         job.stage # "rest", stage = "stamp" => job.stage = "alarm",
         \A w \in R : w \in job.rows \/ w.outcome = Outcome(w.run, w.side, job.config),
         job' = [stage |-> stage, config |-> job.config, todo |-> todo, rows |-> R, skipped |-> skipped,
                 at |-> job.at, interval |-> job.interval]
  PROVE  CorpusInv'
<1>1. CorpusTypes'
  BY DEF CorpusInv, CorpusTypes
<1>2. RowsAreOutcomes'
  BY DEF CorpusInv, RowsAreOutcomes
<1>3. ScheduledOnce' /\ StampIsNewest'
  BY DEF CorpusInv, ScheduledOnce, StampIsNewest
<1>4. JobIsDue'
  BY DEF CorpusInv, JobIsDue
<1> QED
  BY <1>1, <1>2, <1>3, <1>4 DEF CorpusInv

(* The pins are read.                                                       *)
LEMMA ReadPinsStep ==
  ASSUME CorpusInv, ReadPins
  PROVE  CorpusInv'
<1> DEFINE todo == {[run |-> r, side |-> pins[r]] : r \in {q \in PinnedRuns : pins[q] # "none"}}
<1>1. todo \in SUBSET Pinned
  BY DEF CorpusInv, CorpusTypes, Pinned
<1>2. /\ UNCHANGED <<pins, kept, sched, hour, reports, corpusNotes>> /\ job.stage = "pins"
      /\ job' = [job EXCEPT !.stage = "rows", !.todo = todo]
  BY DEF ReadPins
<1> HIDE DEF todo
<1>3. job' = [stage |-> "rows", config |-> job.config, todo |-> todo, rows |-> job.rows,
              skipped |-> job.skipped, at |-> job.at, interval |-> job.interval]
      /\ job.rows \in SUBSET CorpusRow /\ job.skipped \in SUBSET PinnedRuns
  BY <1>2 DEF CorpusInv, CorpusTypes
<1>4. UNCHANGED <<pins, sched, hour, reports, written, stamped>> /\ job.stage # "rest"
      /\ \A w \in job.rows : w \in job.rows \/ w.outcome = Outcome(w.run, w.side, job.config)
  BY <1>2 DEF corpusNotes
<1> QED
  BY ONLY CorpusInv, <1>1, <1>3, <1>4, JobGoesOn

(* A pinned run is replayed, or is skipped.                                 *)
LEMMA DrawRowStep ==
  ASSUME CorpusInv, DrawRow
  PROVE  CorpusInv'
<1> DEFINE pin == CHOOSE w \in job.todo : TRUE
           drawn == [run |-> pin.run, side |-> pin.side, outcome |-> Outcome(pin.run, pin.side, job.config)]
           replays == pin.run \in kept /\ Traces[pin.run] # {}
           R == IF replays THEN job.rows \cup {drawn} ELSE job.rows
           skipped == IF replays THEN job.skipped ELSE job.skipped \cup {pin.run}
           todo == job.todo \ {pin}
<1>1. /\ UNCHANGED <<pins, kept, sched, hour, reports, corpusNotes>>
      /\ job.stage = "rows" /\ job.todo # {}
      /\ job' = [job EXCEPT !.todo = todo, !.rows = R, !.skipped = skipped]
  BY DEF DrawRow
<1>2. /\ job.rows \in SUBSET CorpusRow /\ job.skipped \in SUBSET PinnedRuns /\ job.todo \in SUBSET Pinned
  BY DEF CorpusInv, CorpusTypes
<1>3. pin \in job.todo
  BY <1>1
<1> HIDE DEF pin
<1>4. drawn \in CorpusRow /\ drawn.outcome = Outcome(drawn.run, drawn.side, job.config)
  <2>1. pin.run \in PinnedRuns /\ pin.side \in {"must_block", "must_pass"}
    BY <1>2, <1>3 DEF Pinned
  <2>2. Outcome(pin.run, pin.side, job.config) \in {"unanchored", "held", "escaped", "regressed", "passed"}
    BY DEF Outcome
  <2> QED
    BY <2>1, <2>2 DEF CorpusRow
<1> HIDE DEF drawn
<1>5. /\ todo \in SUBSET Pinned /\ R \in SUBSET CorpusRow /\ skipped \in SUBSET PinnedRuns
      /\ \A w \in R : w \in job.rows \/ w.outcome = Outcome(w.run, w.side, job.config)
  BY <1>2, <1>3, <1>4 DEF Pinned
<1> HIDE DEF todo, R, skipped
<1>6. job' = [stage |-> "rows", config |-> job.config, todo |-> todo, rows |-> R,
              skipped |-> skipped, at |-> job.at, interval |-> job.interval]
  BY <1>1 DEF CorpusInv, CorpusTypes
<1>7. UNCHANGED <<pins, sched, hour, reports, written, stamped>> /\ job.stage # "rest"
  BY <1>1 DEF corpusNotes
<1> QED
  BY ONLY CorpusInv, <1>5, <1>6, <1>7, JobGoesOn

(* The alarm went out.                                                      *)
LEMMA AlarmedStep ==
  ASSUME CorpusInv, Alarmed
  PROVE  CorpusInv'
<1>1. /\ UNCHANGED <<pins, kept, sched, hour, reports, corpusNotes>> /\ job.stage = "alarm"
      /\ job' = [job EXCEPT !.stage = "stamp"]
  BY DEF Alarmed
<1>2. job' = [stage |-> "stamp", config |-> job.config, todo |-> job.todo, rows |-> job.rows,
              skipped |-> job.skipped, at |-> job.at, interval |-> job.interval]
      /\ job.rows \in SUBSET CorpusRow /\ job.skipped \in SUBSET PinnedRuns /\ job.todo \in SUBSET Pinned
  BY <1>1 DEF CorpusInv, CorpusTypes
<1> QED
  BY <1>1, <1>2, JobGoesOn DEF corpusNotes

(* The report is stored: an interval past every report that was stamped.    *)
LEMMA RecordStep ==
  ASSUME CorpusInv, RecordReport
  PROVE  CorpusInv'
<1> DEFINE n == Len(reports)
           X == [rows: SUBSET CorpusRow, skipped: SUBSET PinnedRuns, config: Denials, at: Nat,
                 interval: Nat, safe: BOOLEAN]
           stage == IF Report.safe THEN "stamp" ELSE "alarm"
<1>1. /\ UNCHANGED <<pins, kept, sched, hour, corpusNotes>> /\ job.stage = "rows"
      /\ reports' = Append(reports, Report) /\ job' = [job EXCEPT !.stage = stage]
  BY DEF RecordReport
<1>2. /\ job.rows \in SUBSET CorpusRow /\ job.skipped \in SUBSET PinnedRuns /\ job.config \in Denials
      /\ job.at \in Nat /\ job.interval \in Nat /\ job.todo \in SUBSET Pinned
      /\ sched # NoSchedule /\ sched \in SavedSchedule /\ reports \in Seq(X)
  BY <1>1 DEF CorpusInv, CorpusTypes
<1>3. Report \in X /\ (Report.safe => SafeToShip(job.rows, job.skipped))
      /\ Report.rows = job.rows /\ Report.skipped = job.skipped /\ Report.config = job.config
      /\ Report.at = job.at /\ Report.interval = job.interval
  <2>1. SafeToShip(job.rows, job.skipped) \in BOOLEAN
    BY DEF SafeToShip
  <2> QED
    BY <1>2, <2>1 DEF Report
<1> HIDE DEF X
<1>4. /\ reports' \in Seq(X) /\ n \in Nat /\ DOMAIN reports = 1..n /\ DOMAIN reports' = 1..(n + 1)
      /\ Len(reports') = n + 1 /\ reports'[n + 1] = Report /\ \A i \in 1..n : reports'[i] = reports[i]
  BY <1>1, <1>2, <1>3
<1> HIDE DEF n
<1>5. job' = [stage |-> stage, config |-> job.config, todo |-> job.todo, rows |-> job.rows,
              skipped |-> job.skipped, at |-> job.at, interval |-> job.interval]
      /\ stage \in {"stamp", "alarm"}
  BY <1>1 DEF CorpusInv, CorpusTypes
<1> HIDE DEF stage
<1>6. CorpusTypes'
  <2>1. stamped' \subseteq DOMAIN reports'
    BY <1>1, <1>4 DEF CorpusInv, CorpusTypes, corpusNotes
  <2>2. job' \in [stage: {"rest", "pins", "rows", "alarm", "stamp"}, config: Denials, todo: SUBSET Pinned,
                  rows: SUBSET CorpusRow, skipped: SUBSET PinnedRuns, at: Nat, interval: Nat]
    BY <1>2, <1>5
  <2> QED
    BY <1>1, <1>2, <1>4, <2>1, <2>2 DEF CorpusInv, CorpusTypes, X
<1>7. RowsAreOutcomes'
  <2>1. job'.rows = job.rows /\ job'.config = job.config
    BY <1>5
  <2>2. ASSUME NEW i \in 1..(n + 1)
        PROVE  /\ \A w \in reports'[i].rows : w.outcome = Outcome(w.run, w.side, reports'[i].config)
               /\ reports'[i].safe => SafeToShip(reports'[i].rows, reports'[i].skipped)
    <3>1. CASE i \in 1..n
      BY <1>4, <3>1 DEF CorpusInv, RowsAreOutcomes
    <3>2. CASE i = n + 1
      BY <1>3, <1>4, <3>2 DEF CorpusInv, RowsAreOutcomes
    <3> QED
      BY <1>4, <3>1, <3>2
  <2> QED
    BY <1>4, <2>1, <2>2 DEF CorpusInv, RowsAreOutcomes
<1>8. ASSUME NEW i \in stamped PROVE job.at - reports[i].at >= job.interval /\ i \in 1..n
  <2>1. /\ sched.last \in Nat /\ reports[i].at <= sched.last /\ i \in 1..n
        /\ job.at - sched.last >= job.interval
    BY <1>1, <1>2, <1>4 DEF CorpusInv, CorpusTypes, StampIsNewest, JobIsDue, SavedSchedule
  <2>2. reports[i].at \in Nat
    BY <1>4, <2>1, ReportFacts DEF CorpusInv
  <2> QED
    BY <1>2, <2>1, <2>2
<1>9. ScheduledOnce'
  <2>1. sched' # NoSchedule => <<sched'.enabled, sched'.interval, sched'.config>> = written'
    BY <1>1 DEF CorpusInv, ScheduledOnce, corpusNotes
  <2>2. ASSUME NEW i \in 1..(n + 1), NEW j \in 1..(n + 1), i < j, i \in stamped
        PROVE  reports'[j].at - reports'[i].at >= reports'[j].interval
    <3>1. i \in 1..n /\ reports'[i] = reports[i]
      BY <1>4, <1>8, <2>2
    <3>2. CASE j \in 1..n
      BY <1>4, <2>2, <3>1, <3>2 DEF CorpusInv, ScheduledOnce
    <3>3. CASE j = n + 1
      BY <1>3, <1>4, <1>8, <2>2, <3>1, <3>3
    <3> QED
      BY <1>4, <3>2, <3>3
  <2> QED
    BY <1>1, <1>4, <2>1, <2>2 DEF ScheduledOnce, corpusNotes
<1>10. StampIsNewest'
  BY <1>1, <1>4, <1>8 DEF CorpusInv, StampIsNewest, corpusNotes
<1>11. JobIsDue'
  <2>1. job'.at = job.at /\ job'.interval = job.interval /\ n + 1 \in 1..(n + 1)
    BY <1>4, <1>5
  <2> QED
    BY <1>1, <1>3, <1>4, <2>1 DEF CorpusInv, JobIsDue
<1> QED
  BY <1>6, <1>7, <1>9, <1>10, <1>11 DEF CorpusInv

(* The time of the report goes into the schedule that is stored now.        *)
LEMMA StampStep ==
  ASSUME CorpusInv, StampRun
  PROVE  CorpusInv'
<1> DEFINE n == Len(reports)
<1>1. /\ UNCHANGED <<pins, kept, hour, reports, written>> /\ job.stage = "stamp"
      /\ sched' = [sched EXCEPT !.last = job.at] /\ stamped' = stamped \cup {n} /\ job' = NoJob
  BY DEF StampRun
<1>2. sched \in SavedSchedule /\ sched # NoSchedule /\ job.at \in Nat /\ job.interval \in Nat
  BY <1>1 DEF CorpusInv, CorpusTypes
<1>3. n \in DOMAIN reports /\ reports[n].at = job.at
  BY <1>1 DEF CorpusInv, JobIsDue
<1> HIDE DEF n
<1>4. /\ sched' \in SavedSchedule /\ sched'.last = job.at /\ sched'.enabled = sched.enabled
      /\ sched'.interval = sched.interval /\ sched'.config = sched.config
  BY <1>1, <1>2 DEF SavedSchedule
<1>5. sched' # NoSchedule /\ sched'.last # NoSchedule
  BY <1>2, <1>4, CorpusAssumption
<1>6. CorpusTypes'
  <2>1. NoJob \in [stage: {"rest", "pins", "rows", "alarm", "stamp"}, config: Denials, todo: SUBSET Pinned,
                   rows: SUBSET CorpusRow, skipped: SUBSET PinnedRuns, at: Nat, interval: Nat]
    BY DEF NoJob, Denials
  <2> QED
    BY <1>1, <1>3, <1>4, <1>5, <2>1 DEF CorpusInv, CorpusTypes
<1>7. RowsAreOutcomes'
  BY <1>1 DEF CorpusInv, RowsAreOutcomes, NoJob
<1>8. ScheduledOnce'
  <2>1. <<sched'.enabled, sched'.interval, sched'.config>> = written'
    BY <1>1, <1>2, <1>4 DEF CorpusInv, ScheduledOnce
  <2>2. ASSUME NEW i \in DOMAIN reports, NEW j \in DOMAIN reports, i < j, i \in stamped'
        PROVE  reports[j].at - reports[i].at >= reports[j].interval
    <3>1. i # n
      BY <2>2 DEF CorpusInv, CorpusTypes, n
    <3> QED
      BY <1>1, <2>2, <3>1 DEF CorpusInv, ScheduledOnce
  <2> QED
    BY <1>1, <2>1, <2>2 DEF ScheduledOnce
<1>9. StampIsNewest'
  <2>1. ASSUME NEW i \in stamped PROVE reports[i].at <= job.at
    <3>1. /\ sched.last \in Nat /\ reports[i].at <= sched.last /\ i \in DOMAIN reports
          /\ job.at - sched.last >= job.interval
      BY <1>1, <1>2 DEF CorpusInv, CorpusTypes, StampIsNewest, JobIsDue, SavedSchedule
    <3>2. reports[i].at \in Nat
      BY <3>1, ReportFacts DEF CorpusInv
    <3> QED
      BY <1>2, <3>1, <3>2
  <2> QED
    BY <1>1, <1>2, <1>3, <1>4, <1>5, <2>1 DEF StampIsNewest
<1>10. JobIsDue'
  BY <1>1 DEF JobIsDue, NoJob
<1> QED
  BY <1>6, <1>7, <1>8, <1>9, <1>10 DEF CorpusInv

-----------------------------------------------------------------------------
(* The schedule starts at rest.                                             *)
LEMMA CorpusStart ==
  ASSUME CorpusInit
  PROVE  CorpusInv
<1> USE DEF CorpusInit
<1>1. DOMAIN reports = {} /\ reports \in Seq([rows: SUBSET CorpusRow, skipped: SUBSET PinnedRuns, config: Denials,
                                              at: Nat, interval: Nat, safe: BOOLEAN])
  OBVIOUS
<1>2. CorpusTypes
  <2>1. NoJob \in [stage: {"rest", "pins", "rows", "alarm", "stamp"}, config: Denials, todo: SUBSET Pinned,
                   rows: SUBSET CorpusRow, skipped: SUBSET PinnedRuns, at: Nat, interval: Nat]
        /\ NoJob.stage = "rest"
    BY DEF NoJob, Denials
  <2>2. pins \in [PinnedRuns -> {"none", "must_block", "must_pass"}]
    OBVIOUS
  <2> QED
    BY <1>1, <2>1, <2>2 DEF CorpusTypes
<1>3. RowsAreOutcomes /\ JobIsDue
  BY <1>1 DEF RowsAreOutcomes, JobIsDue, NoJob
<1>4. ScheduledOnce /\ StampIsNewest
  BY <1>1 DEF ScheduledOnce, StampIsNewest
<1> QED
  BY <1>2, <1>3, <1>4 DEF CorpusInv

(* Requests, the loop, retention, the clock and the end of the process.     *)
LEMMA CorpusStep ==
  ASSUME CorpusInv, [Next]_vars
  PROVE  CorpusInv'
<1>1. pins \in [PinnedRuns -> {"none", "must_block", "must_pass"}] /\ hour \in Nat
  BY DEF CorpusInv, CorpusTypes
<1>2. CASE UNCHANGED corpusVars
  BY <1>1, <1>2, CorpusStands DEF corpusVars, corpusNotes
<1>3. ASSUME NEW r \in PinnedRuns, NEW side \in {"must_block", "must_pass"}, Pin(r, side)
      PROVE  CorpusInv'
  BY <1>1, <1>3, CorpusStands DEF Pin, corpusNotes
<1>4. ASSUME NEW r \in PinnedRuns, PruneRun(r) PROVE CorpusInv'
  BY <1>1, <1>4, CorpusStands DEF PruneRun, corpusNotes
<1>5. CASE JobEnds
  BY <1>1, <1>5, CorpusStands DEF JobEnds, corpusNotes
<1>6. CASE HourPasses
  BY <1>1, <1>6, CorpusStands DEF HourPasses, corpusNotes
<1>7. ASSUME NEW entitled, JobStep(entitled) PROVE CorpusInv'
  BY <1>5, <1>7, RunDueStep, ReadPinsStep, DrawRowStep, RecordStep, StampStep DEF JobStep
<1>8. CASE Next
  <2>1. CASE Operator
    BY <1>3, <2>1, PutScheduleStep DEF Operator
  <2>2. CASE Schedules \/ Alarm
    BY <1>7, <2>2, AlarmedStep DEF Schedules, Alarm
  <2>3. CASE \E r \in PinnedRuns : Retention(r)
    BY <1>4, <2>3 DEF Retention
  <2>4. CASE Ends \/ Time
    BY <1>2, <1>5, <1>6, <2>4 DEF Ends, Time
  <2>5. CASE \/ \E q \in Requests, h \in Hooks :
                  (\E w \in Windows : Subscribe(q, h, w)) \/ Unsubscribe(q, h)
             \/ \E q \in Requests : RequestStep(q)
             \/ \E p \in Pastes : Paste(p)
             \/ \E slot \in Slots \ {LicenseSlot, CorpusSlot} : Page(slot)
             \/ Sweep \/ TellExpiry
             \/ \E n \in 1..NextNumber, h \in Hooks : Task_(n, h)
             \/ ShutsDown \/ Starts
    BY <1>2, <2>5 DEF Subscribe, Unsubscribe, RequestStep, Paste, Page, Sweep, TellExpiry, Task_,
                      ShutsDown, Starts
  <2> QED
    BY <1>8, <2>1, <2>2, <2>3, <2>4, <2>5 DEF Next
<1>9. CASE UNCHANGED vars
  BY <1>2, <1>9 DEF vars
<1> QED
  BY <1>8, <1>9

(* A report is safe only on evidence, and a scheduled one is drawn when it  *)
(* was due and under the schedule of the operator.                          *)
THEOREM ReportsSound == Spec => []ReportsAreSound
<1>1. Init => CorpusInv
  BY CorpusStart DEF Init
<1>2. CorpusInv /\ [Next]_vars => CorpusInv'
  BY CorpusStep
<1>3. CorpusInv => ReportsAreSound
  BY SoundFromInv
<1> QED
  BY <1>1, <1>2, <1>3, PTL DEF Spec

-----------------------------------------------------------------------------
(* The settings store, in whose rows the license, its mark and the schedule *)
(* are kept.                                                                *)

USE AttemptsAssumption DEF Ended


LEMMA InitIInv == StoreInit => IInv
<1> SUFFICES ASSUME StoreInit PROVE IInv
  OBVIOUS
<1>1. NoRow \in Row
  BY DEF NoRow, Row
<1> QED
  BY <1>1 DEF StoreInit, IInv, TypeOK, ReadsAreCurrent, PassesAreCounted, NotBegun, NoRow

LEMMA BeginStep == ASSUME IInv, NEW w \in Writer, Begin(w) PROVE IInv'
<1> USE DEF IInv, Begin, Goto
<1>1. TypeOK'
  BY DEF TypeOK
<1>2. ReadsAreCurrent'
  BY DEF TypeOK, ReadsAreCurrent
<1>3. PassesAreCounted' /\ NotBegun'
  BY DEF TypeOK, PassesAreCounted, NotBegun
<1> QED
  BY <1>1, <1>2, <1>3

LEMMA ReadStep == ASSUME IInv, NEW w \in Writer, Read(w) PROVE IInv'
<1> USE DEF IInv, Read, Goto
<1>1. TypeOK'
  BY DEF TypeOK
<1>2. ReadsAreCurrent'
  BY DEF TypeOK, ReadsAreCurrent, Row
<1>3. PassesAreCounted' /\ NotBegun'
  BY DEF TypeOK, PassesAreCounted, NotBegun
<1> QED
  BY <1>1, <1>2, <1>3

LEMMA LoseStep == ASSUME IInv, NEW w \in Writer, Lose(w) PROVE IInv'
<1> USE DEF IInv, Lose, Goto
<1>1. TypeOK'
  <2>1. tries[w] \in Nat /\ (w \notin Setter => tries[w] < Attempts)
    BY DEF TypeOK, PassesAreCounted
  <2> QED
    BY <2>1 DEF TypeOK
<1>2. ReadsAreCurrent'
  BY DEF TypeOK, ReadsAreCurrent
<1>3. PassesAreCounted' /\ NotBegun'
  BY DEF TypeOK, PassesAreCounted, NotBegun
<1> QED
  BY <1>1, <1>2, <1>3

LEMMA DieStep == ASSUME IInv, NEW w \in Writer, Die(w) PROVE IInv'
<1> USE DEF IInv, Die, Goto
<1>1. TypeOK'
  BY DEF TypeOK
<1>2. ReadsAreCurrent'
  BY DEF TypeOK, ReadsAreCurrent
<1>3. PassesAreCounted' /\ NotBegun'
  BY DEF TypeOK, PassesAreCounted, NotBegun
<1> QED
  BY <1>1, <1>2, <1>3

(* A write moves the revision up by one and stores the change of the value *)
(* that is there.                                                          *)
LEMMA WriteFacts ==
  ASSUME IInv, NEW w \in Writer, Write(w)
  PROVE  /\ row'.revision = row.revision + 1
         /\ row'.value = Change(w, row.value)
         /\ row'.value \in Value
         /\ row' \in Row
<1> USE DEF IInv
<1>1. /\ row \in Row /\ seen[w] \in Row /\ pc[w] = "write"
      /\ row' = [revision |-> NextRevision(w), value |-> Change(w, seen[w].value)]
  BY DEF TypeOK, Write
<1>2. /\ row.revision \in Nat /\ row.value \in Value \cup {Absent}
      /\ seen[w].revision \in Nat /\ seen[w].value \in Value \cup {Absent}
  BY <1>1 DEF Row
<1>3. Change(w, seen[w].value) \in Value
  BY <1>1, <1>2, ChangeAssumption DEF ReadsAreCurrent
<1>4. CASE w \in Setter
  <2>1. Change(w, seen[w].value) = Change(w, row.value)
    BY <1>2, <1>4, SetterAssumption
  <2> QED
    BY <1>1, <1>2, <1>3, <1>4, <2>1 DEF NextRevision, Row
<1>5. CASE w \notin Setter
  <2>1. row.revision = seen[w].revision
    BY <1>5 DEF Write, Wins
  <2>2. seen[w] = row
    BY <1>1, <2>1 DEF ReadsAreCurrent
  <2> QED
    BY <1>1, <1>2, <1>3, <1>5, <2>1, <2>2 DEF NextRevision, Row
<1> QED
  BY <1>4, <1>5

LEMMA WriteStep == ASSUME IInv, NEW w \in Writer, Write(w) PROVE IInv'
<1>1. row' \in Row /\ row'.revision = row.revision + 1 /\ row.revision \in Nat
  BY WriteFacts DEF IInv, TypeOK, Row
<1>2. pc' = [pc EXCEPT ![w] = "stored"] /\ UNCHANGED <<seen, tries>>
  BY DEF Write, Goto
<1>3. TypeOK'
  BY <1>1, <1>2 DEF IInv, TypeOK
<1>4. ReadsAreCurrent'
  <2> SUFFICES ASSUME NEW x \in Writer, pc'[x] = "write"
               PROVE  /\ seen[x].revision <= row'.revision
                      /\ row'.revision # seen[x].revision
                      /\ Change(x, seen[x].value) # Refused
    BY <1>2 DEF ReadsAreCurrent
  <2>1. pc[x] = "write" /\ seen[x].revision \in Nat
    BY <1>2 DEF IInv, TypeOK, Row
  <2>2. seen[x].revision <= row.revision /\ Change(x, seen[x].value) # Refused
    BY <2>1 DEF IInv, ReadsAreCurrent
  <2> QED
    BY <1>1, <2>1, <2>2
<1>5. PassesAreCounted' /\ NotBegun'
  BY <1>2 DEF IInv, TypeOK, PassesAreCounted, NotBegun
<1> QED
  BY <1>3, <1>4, <1>5 DEF IInv

LEMMA NextIInv == IInv /\ [StoreNext]_storeVars => IInv'
<1> SUFFICES ASSUME IInv, [StoreNext]_storeVars PROVE IInv'
  OBVIOUS
<1>1. CASE UNCHANGED storeVars
  BY <1>1 DEF storeVars, IInv, TypeOK, ReadsAreCurrent, PassesAreCounted, NotBegun
<1>2. CASE StoreNext
  <2> PICK w \in Writer : Begin(w) \/ Handle(w) \/ Die(w)
    BY <1>2 DEF StoreNext
  <2> QED
    BY BeginStep, ReadStep, WriteStep, LoseStep, DieStep DEF Handle
<1> QED
  BY <1>1, <1>2

(* The inductive invariant: a revision names one value of the row, so a    *)
(* request whose revision matches at its UPDATE read the row it replaces.  *)
THEOREM StoreInvariance == StoreSpec => []IInv
BY InitIInv, NextIInv, PTL DEF StoreSpec

(* Every variable of the settings store keeps its type, and no request     *)
(* makes more passes than it has.                                          *)
THEOREM StoreTypes == StoreSpec => []TypeOK
BY StoreInvariance, PTL DEF IInv

-----------------------------------------------------------------------------
(* Refinement: Read refuses or stutters, Write stores, the rest stutters   *)
(* or ends the request without a write.                                    *)

LEMMA OneOutcome ==
  ASSUME TypeOK, NEW w \in Writer, NEW stage \in {"idle", "read", "write"} \cup Ended, Goto(w, stage)
  PROVE  /\ pc'[w] = stage
         /\ \A x \in Writer \ {w} : pc'[x] = pc[x]
BY DEF TypeOK, Goto

LEMMA EndsOutcome ==
  ASSUME TypeOK, NEW w \in Writer, pc[w] \in {"idle", "read", "write"},
         NEW stage \in Ended, Goto(w, stage)
  PROVE  Setting!End(w, IF stage \in {"stored", "refused"} THEN stage ELSE "void")
<1> DEFINE old == [x \in Writer |-> OutcomeOf(x)]
           how == IF stage \in {"stored", "refused"} THEN stage ELSE "void"
<1>1. OutcomeOf(w) = "open"
  BY DEF OutcomeOf
<1>2. OutcomeOf(w)' = how
  BY OneOutcome DEF OutcomeOf
<1>3. \A x \in Writer \ {w} : OutcomeOf(x)' = OutcomeOf(x)
  BY OneOutcome DEF OutcomeOf
<1>4. [x \in Writer |-> OutcomeOf(x)'] = [old EXCEPT ![w] = how]
  BY <1>2, <1>3
<1> QED
  BY <1>1, <1>4 DEF Setting!End

LEMMA StaysOpen ==
  ASSUME TypeOK, NEW w \in Writer, pc[w] \in {"idle", "read", "write"},
         NEW stage \in {"read", "write"}, Goto(w, stage), UNCHANGED row
  PROVE  UNCHANGED Setting!settingVars
<1>1. \A x \in Writer : OutcomeOf(x)' = OutcomeOf(x)
  BY OneOutcome DEF OutcomeOf
<1>2. [x \in Writer |-> OutcomeOf(x)'] = [x \in Writer |-> OutcomeOf(x)]
  BY <1>1
<1> QED
  BY <1>2 DEF Setting!settingVars

(* The settings store implements the atomic setting it promises.           *)
THEOREM StoreIsAtomic == StoreSpec => ChangesAreAtomic
<1>1. StoreInit => Setting!SInit
  BY DEF StoreInit, Setting!SInit, NoRow, OutcomeOf
<1>2. IInv /\ [StoreNext]_storeVars => [Setting!SNext]_(Setting!settingVars)
  <2> SUFFICES ASSUME IInv, [StoreNext]_storeVars
               PROVE  Setting!SNext \/ UNCHANGED Setting!settingVars
    OBVIOUS
  <2>1. CASE UNCHANGED storeVars
    BY <2>1 DEF storeVars, Setting!settingVars, OutcomeOf
  <2>2. ASSUME NEW w \in Writer, Begin(w)
        PROVE  UNCHANGED Setting!settingVars
    BY <2>2, StaysOpen DEF Begin, IInv
  <2>3. ASSUME NEW w \in Writer, Read(w)
        PROVE  Setting!Refuse(w) \/ UNCHANGED Setting!settingVars
    <3>1. CASE Change(w, row.value) = Refused /\ Goto(w, "refused")
      <4>1. Setting!End(w, "refused")
        BY <2>3, <3>1, EndsOutcome DEF Read, IInv
      <4> QED
        BY <2>3, <3>1, <4>1 DEF Read, Setting!Refuse
    <3>2. CASE Goto(w, "write")
      BY <2>3, <3>2, StaysOpen DEF Read, IInv
    <3> QED
      BY <2>3, <3>1, <3>2 DEF Read
  <2>4. ASSUME NEW w \in Writer, Write(w)
        PROVE  Setting!Store(w)
    <3>1. Setting!End(w, "stored")
      BY <2>4, EndsOutcome DEF Write, IInv
    <3>2. row'.value = Change(w, row.value) /\ row'.value # Refused
      BY <2>4, WriteFacts, ChangeAssumption
    <3> QED
      BY <3>1, <3>2 DEF Setting!Store
  <2>5. ASSUME NEW w \in Writer, Lose(w)
        PROVE  Setting!Void(w) \/ UNCHANGED Setting!settingVars
    <3>1. CASE Goto(w, "read")
      BY <2>5, <3>1, StaysOpen DEF Lose, IInv
    <3>2. CASE Goto(w, "gaveup")
      <4>1. Setting!End(w, "void")
        BY <2>5, <3>2, EndsOutcome DEF Lose, IInv
      <4> QED
        BY <2>5, <4>1 DEF Lose, Setting!Void
    <3> QED
      BY <2>5, <3>1, <3>2 DEF Lose
  <2>6. ASSUME NEW w \in Writer, Die(w)
        PROVE  Setting!Void(w)
    <3>1. Setting!End(w, "void")
      BY <2>6, EndsOutcome DEF Die, IInv
    <3> QED
      BY <2>6, <3>1 DEF Die, Setting!Void
  <2> QED
    BY <2>1, <2>2, <2>3, <2>4, <2>5, <2>6 DEF StoreNext, Handle, Setting!SNext
<1> QED
  BY <1>1, <1>2, StoreInvariance, PTL DEF StoreSpec, ChangesAreAtomic, Setting!SSpec

HIDE AttemptsAssumption DEF Ended

-----------------------------------------------------------------------------
(* The license.                                                             *)

Marks == [threshold : NoticeDays, ends : Nat]
Stages == {"rest", "fetching", "storing", "clearing", "holding", "notice", "reading", "marking", "telling"}
Sweeps == [stage : Stages, current : Licenses \cup {None}, new : Licenses \cup {None}, left : Int]
PasteStages == {"none", "refused", "storing", "holding", "activated", "cut"}

Noticing == sweep.stage \in {"reading", "marking", "telling"}
AtWork(p) == paste[p].stage \in {"storing", "holding"}

LicTypes ==
  /\ day \in Nat
  /\ stored \in Licenses \cup {None}
  /\ held \in Licenses \cup {None}
  /\ marker \in Marks \cup {None}
  /\ paste \in [Pastes -> [stage : PasteStages, lic : Licenses \cup {None}]]
  /\ sweep \in Sweeps
  /\ \A t \in told : t.threshold \in NoticeDays /\ t.ends \in Nat
  /\ again \in BOOLEAN /\ crossed \in BOOLEAN /\ torn \in BOOLEAN
  /\ \A p \in Pastes : AtWork(p) => paste[p].lic \in Licenses
  /\ Renewing \/ Noticing => sweep.current \in Licenses
  /\ sweep.stage \in {"storing", "clearing", "holding"} => sweep.new \in Licenses

(* Nothing runs in a process that is down.                                  *)
DownIsAtRest ==
  up = "down" => held = None /\ sweep = Rest /\ \A p \in Pastes : ~AtWork(p)

(* The stored mark is the last thing announced about a license.             *)
Marked(l) == l # None /\ Announced(l) => marker # None /\ marker.ends = EndsOn[l]

(* What is in force, or will be at the next boot, or is being announced, is *)
(* marked if it was announced; but for a renewal between its two writes.    *)
MarkFollows == ~again =>
  /\ up # "down" => Marked(held) \/ sweep.stage = "holding"
  /\ up = "down" => Marked(Loaded)
  /\ sweep.stage \in {"reading", "marking"} => Marked(sweep.current)
  /\ Noticing /\ held # None /\ Announced(held) => EndsOn[held] = EndsOn[sweep.current]

(* The thresholds go down.                                                  *)
MarkIsLast == ~again =>
  \A t \in told : marker # None /\ t.ends = marker.ends => marker.threshold <= t.threshold

LeftIsCounted ==
  /\ marker # None => marker.ends - day <= marker.threshold
  /\ Noticing => /\ EndsOn[sweep.current] - day <= sweep.left
                 /\ \E d \in NoticeDays : sweep.left <= d
  /\ sweep.stage \in {"reading", "marking"} /\ marker # None /\ marker.ends = EndsOn[sweep.current] =>
       sweep.left <= marker.threshold

(* What is about to be announced has not been.                              *)
MarkIsNew ==
  /\ sweep.stage = "telling" => marker = Mark
  /\ sweep.stage \in {"marking", "telling"} /\ ~again =>
       \A t \in told : ~(t.threshold = Mark.threshold /\ t.ends = Mark.ends)

(* Installs that have not crossed are one at a time.                        *)
OneInstall == ~crossed =>
  /\ \A p, q \in Pastes : AtWork(p) /\ AtWork(q) => p = q
  /\ \A p \in Pastes : AtWork(p) => ~Renewing

(* The row is what is in force, or what the install under way has stored.   *)
RowIsAhead ==
  ~crossed /\ ~torn /\ EnvLicense = None /\ up # "down" =>
    /\ \A p \in Pastes : paste[p].stage = "holding" => stored = paste[p].lic
    /\ sweep.stage \in {"clearing", "holding"} => stored = sweep.new
    /\ (\A p \in Pastes : paste[p].stage # "holding") /\ sweep.stage \notin {"clearing", "holding"} =>
         held = stored

NoticeInv == MarkFollows /\ MarkIsLast /\ LeftIsCounted /\ MarkIsNew /\ OneNoticePerThreshold
InstallInv == OneInstall /\ RowIsAhead

LicenseInv == LicTypes /\ DownIsAtRest /\ NoticeInv /\ InstallInv

(* The threshold crossed is the nearest one still ahead.                    *)
LEMMA ThresholdFacts ==
  ASSUME NEW left \in Int, \E d \in NoticeDays : left <= d
  PROVE  /\ Threshold(left) \in NoticeDays
         /\ left <= Threshold(left)
         /\ \A d \in NoticeDays : left <= d => Threshold(left) <= d
<1> DEFINE S == {d \in NoticeDays : left <= d}
<1>1. S \in SUBSET Nat /\ S # {}
  BY LicensingAssumption
<1>2. PICK m \in S : \A n \in S : m <= n
  BY ONLY <1>1, Least
<1>3. Threshold(left) = CHOOSE x \in S : \A y \in S : x <= y
  BY DEF Threshold, Min
<1> HIDE DEF S
<1>4. Threshold(left) \in S /\ \A n \in S : Threshold(left) <= n
  BY <1>2, <1>3
<1> QED
  BY <1>4 DEF S

(* The first notice is one of them.                                         *)
LEMMA LongestNotice == Max(NoticeDays) \in NoticeDays
<1>1. PICK longest \in NoticeDays : \A d \in NoticeDays : longest >= d
  BY LicensingAssumption
<1> QED
  BY <1>1 DEF Max

(* The mark of the notice under way.                                        *)
LEMMA MarkFacts ==
  ASSUME LicTypes, LeftIsCounted, Noticing
  PROVE  /\ Mark \in [threshold : NoticeDays, ends : Nat]
         /\ Mark = [threshold |-> Mark.threshold, ends |-> Mark.ends]
         /\ Mark.ends = EndsOn[sweep.current]
         /\ Mark.threshold = Threshold(sweep.left)
         /\ Mark # None
         /\ Mark.ends - day <= Mark.threshold
         /\ \A d \in NoticeDays : sweep.left <= d => Mark.threshold <= d
<1>1. sweep.left \in Int /\ sweep.current \in Licenses /\ EndsOn[sweep.current] \in Nat /\ day \in Nat
  BY LicensingAssumption DEF LicTypes, Sweeps
<1>2. (\E d \in NoticeDays : sweep.left <= d) /\ EndsOn[sweep.current] - day <= sweep.left
  BY DEF LeftIsCounted
<1>3. /\ Threshold(sweep.left) \in NoticeDays /\ sweep.left <= Threshold(sweep.left)
      /\ \A d \in NoticeDays : sweep.left <= d => Threshold(sweep.left) <= d
  BY <1>1, <1>2, ThresholdFacts
<1>4. Threshold(sweep.left) \in Nat
  BY <1>3, LicensingAssumption
<1> QED
  BY <1>1, <1>2, <1>3, <1>4, LicensingAssumption DEF Mark

USE LicensingAssumption DEF Marks, Stages, Sweeps, PasteStages, AtWork, Noticing, Renewing, licenseNotes

(* A license is pasted.                                                     *)
LEMMA LicenseVerifyStep ==
  ASSUME LicenseInv, NEW p \in Pastes, NEW l \in Licenses, LicenseVerify(p, l), UNCHANGED up, up # "down"
  PROVE  LicenseInv'
<1> USE DEF LicenseInv, LicenseVerify
<1>1. LicTypes'
  BY DEF LicTypes, Rest
<1>2. DownIsAtRest'
  BY DEF DownIsAtRest
<1>3. MarkFollows'
  BY DEF NoticeInv, LicTypes, MarkFollows, Marked, Announced, Rest
<1>4. MarkIsLast'
  BY DEF NoticeInv, LicTypes, MarkIsLast
<1>5. LeftIsCounted'
  BY DEF NoticeInv, LicTypes, LeftIsCounted, Rest
<1>6. MarkIsNew'
  BY DEF NoticeInv, LicTypes, MarkIsNew, Mark, Rest
<1>7. OneNoticePerThreshold'
  BY DEF NoticeInv, LicTypes, OneNoticePerThreshold
<1>8. OneInstall'
  <2>1. crossed' = (crossed \/ (paste'[p].stage = "storing" /\ (Installing \/ Renewing))) /\ sweep' = sweep
    OBVIOUS
  <2>2. /\ \A q \in Pastes : q # p => paste'[q] = paste[q]
        /\ paste'[p].stage \in {"refused", "storing"}
    BY DEF LicTypes
  <2>3. Installing <=> \E q \in Pastes : AtWork(q)
    BY DEF Installing
  <2> QED
    BY ONLY <2>1, <2>2, <2>3, InstallInv, p \in Pastes DEF InstallInv, OneInstall, AtWork, Renewing
<1>9. RowIsAhead'
  BY DEF InstallInv, LicTypes, OneInstall, RowIsAhead, Rest
<1> QED
  BY ONLY <1>1, <1>2, <1>3, <1>4, <1>5, <1>6, <1>7, <1>8, <1>9 DEF LicenseInv, NoticeInv, InstallInv

(* Its row is stored.                                                       *)
LEMMA PasteStoredStep ==
  ASSUME LicenseInv, NEW p \in Pastes, PasteStored(p), UNCHANGED up, up # "down"
  PROVE  LicenseInv'
<1> USE DEF LicenseInv, PasteStored
<1>1. LicTypes'
  BY DEF LicTypes, Rest
<1>2. DownIsAtRest'
  BY DEF DownIsAtRest
<1>3. MarkFollows'
  BY DEF NoticeInv, LicTypes, MarkFollows, Marked, Announced, Rest
<1>4. MarkIsLast'
  BY DEF NoticeInv, LicTypes, MarkIsLast
<1>5. LeftIsCounted'
  BY DEF NoticeInv, LicTypes, LeftIsCounted, Rest
<1>6. MarkIsNew'
  BY DEF NoticeInv, LicTypes, MarkIsNew, Mark, Rest
<1>7. OneNoticePerThreshold'
  BY DEF NoticeInv, LicTypes, OneNoticePerThreshold
<1>8. OneInstall'
  BY DEF InstallInv, LicTypes, OneInstall, Rest
<1>9. RowIsAhead'
  BY DEF InstallInv, LicTypes, OneInstall, RowIsAhead, Rest
<1> QED
  BY ONLY <1>1, <1>2, <1>3, <1>4, <1>5, <1>6, <1>7, <1>8, <1>9 DEF LicenseInv, NoticeInv, InstallInv

(* It comes into force.                                                     *)
LEMMA PasteHeldStep ==
  ASSUME LicenseInv, NEW p \in Pastes, PasteHeld(p), UNCHANGED up, up # "down"
  PROVE  LicenseInv'
<1> USE DEF LicenseInv, PasteHeld
<1>1. LicTypes'
  BY DEF LicTypes, Rest
<1>2. DownIsAtRest'
  BY DEF DownIsAtRest
<1>3. MarkFollows'
  BY DEF NoticeInv, LicTypes, MarkFollows, Marked, Announced, Rest
<1>4. MarkIsLast'
  BY DEF NoticeInv, LicTypes, MarkIsLast
<1>5. LeftIsCounted'
  BY DEF NoticeInv, LicTypes, LeftIsCounted, Rest
<1>6. MarkIsNew'
  BY DEF NoticeInv, LicTypes, MarkIsNew, Mark, Rest
<1>7. OneNoticePerThreshold'
  BY DEF NoticeInv, LicTypes, OneNoticePerThreshold
<1>8. OneInstall'
  BY DEF InstallInv, LicTypes, OneInstall, Rest
<1>9. RowIsAhead'
  BY DEF InstallInv, LicTypes, OneInstall, RowIsAhead, Rest
<1> QED
  BY ONLY <1>1, <1>2, <1>3, <1>4, <1>5, <1>6, <1>7, <1>8, <1>9 DEF LicenseInv, NoticeInv, InstallInv

(* The pass begins, with a renewal if one is due.                           *)
LEMMA SweepStartsStep ==
  ASSUME LicenseInv, SweepStarts, UNCHANGED up, up # "down"
  PROVE  LicenseInv'
<1> USE DEF LicenseInv, SweepStarts
<1>1. LicTypes'
  <2>1. /\ sweep'.stage \in {"fetching", "notice"} /\ sweep'.new = None
        /\ sweep'.stage = "fetching" => sweep'.current \in Licenses
    BY DEF LicTypes, Rest, RenewalDue
  <2>2. sweep' \in Sweeps
    <3>1. held \in Licenses \cup {None}
      BY DEF LicTypes
    <3>2. \/ sweep' = [stage |-> "fetching", current |-> held, new |-> None, left |-> 0]
          \/ sweep' = [stage |-> "notice", current |-> None, new |-> None, left |-> 0]
      BY DEF Rest
    <3> QED
      BY ONLY <3>1, <3>2 DEF Sweeps, Stages
  <2>3. crossed' \in BOOLEAN
    BY DEF LicTypes
  <2> QED
    BY <2>1, <2>2, <2>3 DEF LicTypes
<1>2. DownIsAtRest'
  BY DEF DownIsAtRest
<1>3. MarkFollows'
  BY DEF NoticeInv, LicTypes, MarkFollows, Marked, Announced, Rest
<1>4. MarkIsLast'
  BY DEF NoticeInv, LicTypes, MarkIsLast
<1>5. LeftIsCounted'
  BY DEF NoticeInv, LicTypes, LeftIsCounted, Rest
<1>6. MarkIsNew'
  BY DEF NoticeInv, LicTypes, MarkIsNew, Mark, Rest
<1>7. OneNoticePerThreshold'
  BY DEF NoticeInv, LicTypes, OneNoticePerThreshold
<1>8. OneInstall'
  <2>1. crossed' = (crossed \/ (RenewalDue /\ Installing)) /\ paste' = paste
    OBVIOUS
  <2>2. sweep'.stage = (IF RenewalDue THEN "fetching" ELSE "notice")
    BY DEF Rest
  <2>3. Installing <=> \E q \in Pastes : AtWork(q)
    BY DEF Installing
  <2> QED
    BY ONLY <2>1, <2>2, <2>3, InstallInv DEF InstallInv, OneInstall, AtWork, Renewing
<1>9. RowIsAhead'
  BY DEF InstallInv, LicTypes, OneInstall, RowIsAhead, Rest
<1> QED
  BY ONLY <1>1, <1>2, <1>3, <1>4, <1>5, <1>6, <1>7, <1>8, <1>9 DEF LicenseInv, NoticeInv, InstallInv

(* The renewal came, or did not.                                            *)
LEMMA FetchedStep ==
  ASSUME LicenseInv, NEW l \in Licenses \cup {None}, Fetched(l), UNCHANGED up, up # "down"
  PROVE  LicenseInv'
<1> USE DEF LicenseInv, Fetched
<1>1. LicTypes'
  <2>1. CASE l = None \/ (l # None /\ RenewalRejected(l))
    BY <2>1 DEF LicTypes, Rest
  <2>2. CASE ~(l = None \/ (l # None /\ RenewalRejected(l)))
    <3>1. sweep' \in Sweeps /\ sweep'.stage = "storing" /\ sweep'.new \in Licenses /\ sweep'.current = sweep.current
      BY <2>2 DEF LicTypes
    <3> QED
      BY <3>1 DEF LicTypes
  <2> QED
    BY <2>1, <2>2
<1>2. DownIsAtRest'
  BY DEF DownIsAtRest
<1>3. MarkFollows'
  BY DEF NoticeInv, LicTypes, MarkFollows, Marked, Announced, Rest
<1>4. MarkIsLast'
  BY DEF NoticeInv, LicTypes, MarkIsLast
<1>5. LeftIsCounted'
  BY DEF NoticeInv, LicTypes, LeftIsCounted, Rest
<1>6. MarkIsNew'
  BY DEF NoticeInv, LicTypes, MarkIsNew, Mark, Rest
<1>7. OneNoticePerThreshold'
  BY DEF NoticeInv, LicTypes, OneNoticePerThreshold
<1>8. OneInstall'
  BY DEF InstallInv, LicTypes, OneInstall, Rest
<1>9. RowIsAhead'
  BY DEF InstallInv, LicTypes, OneInstall, RowIsAhead, Rest
<1> QED
  BY ONLY <1>1, <1>2, <1>3, <1>4, <1>5, <1>6, <1>7, <1>8, <1>9 DEF LicenseInv, NoticeInv, InstallInv

(* The row of the renewal is stored.                                        *)
LEMMA RenewalStoredStep ==
  ASSUME LicenseInv, RenewalStored, UNCHANGED up, up # "down"
  PROVE  LicenseInv'
<1> USE DEF LicenseInv, RenewalStored
<1>1. LicTypes'
  BY DEF LicTypes, Rest
<1>2. DownIsAtRest'
  BY DEF DownIsAtRest
<1>3. MarkFollows'
  BY DEF NoticeInv, LicTypes, MarkFollows, Marked, Announced, Rest
<1>4. MarkIsLast'
  BY DEF NoticeInv, LicTypes, MarkIsLast
<1>5. LeftIsCounted'
  BY DEF NoticeInv, LicTypes, LeftIsCounted, Rest
<1>6. MarkIsNew'
  BY DEF NoticeInv, LicTypes, MarkIsNew, Mark, Rest
<1>7. OneNoticePerThreshold'
  BY DEF NoticeInv, LicTypes, OneNoticePerThreshold
<1>8. OneInstall'
  BY DEF InstallInv, LicTypes, OneInstall, Rest
<1>9. RowIsAhead'
  BY DEF InstallInv, LicTypes, OneInstall, RowIsAhead, Rest
<1> QED
  BY ONLY <1>1, <1>2, <1>3, <1>4, <1>5, <1>6, <1>7, <1>8, <1>9 DEF LicenseInv, NoticeInv, InstallInv

(* Its mark is cleared.                                                     *)
LEMMA NoticeClearedStep ==
  ASSUME LicenseInv, NoticeCleared, UNCHANGED up, up # "down"
  PROVE  LicenseInv'
<1> USE DEF LicenseInv, NoticeCleared
<1>1. LicTypes'
  BY DEF LicTypes, Rest
<1>2. DownIsAtRest'
  BY DEF DownIsAtRest
<1>3. MarkFollows'
  BY DEF NoticeInv, LicTypes, MarkFollows, Marked, Announced, Rest
<1>4. MarkIsLast'
  BY DEF NoticeInv, LicTypes, MarkIsLast
<1>5. LeftIsCounted'
  BY DEF NoticeInv, LicTypes, LeftIsCounted, Rest
<1>6. MarkIsNew'
  BY DEF NoticeInv, LicTypes, MarkIsNew, Mark, Rest
<1>7. OneNoticePerThreshold'
  BY DEF NoticeInv, LicTypes, OneNoticePerThreshold
<1>8. OneInstall'
  BY DEF InstallInv, LicTypes, OneInstall, Rest
<1>9. RowIsAhead'
  BY DEF InstallInv, LicTypes, OneInstall, RowIsAhead, Rest
<1> QED
  BY ONLY <1>1, <1>2, <1>3, <1>4, <1>5, <1>6, <1>7, <1>8, <1>9 DEF LicenseInv, NoticeInv, InstallInv

(* A write of the renewal fails.                                            *)
LEMMA RenewalFailsStep ==
  ASSUME LicenseInv, RenewalFails, UNCHANGED up, up # "down"
  PROVE  LicenseInv'
<1> USE DEF LicenseInv, RenewalFails
<1>1. LicTypes'
  BY DEF LicTypes, Rest
<1>2. DownIsAtRest'
  BY DEF DownIsAtRest
<1>3. MarkFollows'
  BY DEF NoticeInv, LicTypes, MarkFollows, Marked, Announced, Rest
<1>4. MarkIsLast'
  BY DEF NoticeInv, LicTypes, MarkIsLast
<1>5. LeftIsCounted'
  BY DEF NoticeInv, LicTypes, LeftIsCounted, Rest
<1>6. MarkIsNew'
  BY DEF NoticeInv, LicTypes, MarkIsNew, Mark, Rest
<1>7. OneNoticePerThreshold'
  BY DEF NoticeInv, LicTypes, OneNoticePerThreshold
<1>8. OneInstall'
  BY DEF InstallInv, LicTypes, OneInstall, Rest
<1>9. RowIsAhead'
  BY DEF InstallInv, LicTypes, OneInstall, RowIsAhead, Rest
<1> QED
  BY ONLY <1>1, <1>2, <1>3, <1>4, <1>5, <1>6, <1>7, <1>8, <1>9 DEF LicenseInv, NoticeInv, InstallInv

(* The renewal comes into force.                                            *)
LEMMA RenewalHeldStep ==
  ASSUME LicenseInv, RenewalHeld, UNCHANGED up, up # "down"
  PROVE  LicenseInv'
<1> USE DEF LicenseInv, RenewalHeld
<1>1. LicTypes'
  BY DEF LicTypes, Rest
<1>2. DownIsAtRest'
  BY DEF DownIsAtRest
<1>3. MarkFollows'
  BY DEF NoticeInv, LicTypes, MarkFollows, Marked, Announced, Rest
<1>4. MarkIsLast'
  BY DEF NoticeInv, LicTypes, MarkIsLast
<1>5. LeftIsCounted'
  BY DEF NoticeInv, LicTypes, LeftIsCounted, Rest
<1>6. MarkIsNew'
  BY DEF NoticeInv, LicTypes, MarkIsNew, Mark, Rest
<1>7. OneNoticePerThreshold'
  BY DEF NoticeInv, LicTypes, OneNoticePerThreshold
<1>8. OneInstall'
  BY DEF InstallInv, LicTypes, OneInstall, Rest
<1>9. RowIsAhead'
  BY DEF InstallInv, LicTypes, OneInstall, RowIsAhead, Rest
<1> QED
  BY ONLY <1>1, <1>2, <1>3, <1>4, <1>5, <1>6, <1>7, <1>8, <1>9 DEF LicenseInv, NoticeInv, InstallInv

(* The pass looks at what is left of the license.                           *)
LEMMA NoticeLookedStep ==
  ASSUME LicenseInv, NoticeLooked, UNCHANGED up, up # "down"
  PROVE  LicenseInv'
<1> USE DEF LicenseInv, NoticeLooked
<1>1. LicTypes'
  <2>1. CASE held = None \/ (held # None /\ DaysUntil(held) > Max(NoticeDays))
    BY <2>1 DEF LicTypes, Rest
  <2>2. CASE ~(held = None \/ (held # None /\ DaysUntil(held) > Max(NoticeDays)))
    <3>1. held \in Licenses /\ DaysUntil(held) \in Int
      BY <2>2 DEF LicTypes, DaysUntil
    <3>2. sweep' = [stage |-> "reading", current |-> held, new |-> None, left |-> DaysUntil(held)]
      BY <2>2 DEF Rest
    <3>3. sweep' \in Sweeps /\ sweep'.stage = "reading" /\ sweep'.current = held
      BY ONLY <3>1, <3>2 DEF Sweeps, Stages
    <3> QED
      BY <3>1, <3>3 DEF LicTypes
  <2> QED
    BY <2>1, <2>2
<1>2. DownIsAtRest'
  BY DEF DownIsAtRest
<1>3. MarkFollows'
  BY DEF NoticeInv, LicTypes, MarkFollows, Marked, Announced, Rest
<1>4. MarkIsLast'
  BY DEF NoticeInv, LicTypes, MarkIsLast
<1>5. LeftIsCounted'
  <2>1. CASE held = None \/ (held # None /\ DaysUntil(held) > Max(NoticeDays))
    BY <2>1 DEF NoticeInv, LeftIsCounted, Rest
  <2>2. CASE ~(held = None \/ (held # None /\ DaysUntil(held) > Max(NoticeDays)))
    <3>1. held \in Licenses /\ DaysUntil(held) \in Int /\ DaysUntil(held) = EndsOn[held] - day
      BY <2>2 DEF LicTypes, DaysUntil
    <3>2. sweep' = [stage |-> "reading", current |-> held, new |-> None, left |-> DaysUntil(held)]
      BY <2>2 DEF Rest
    <3>3. Max(NoticeDays) \in NoticeDays /\ Max(NoticeDays) \in Nat /\ DaysUntil(held) <= Max(NoticeDays)
      BY <2>2, <3>1, LongestNotice
    <3>4. marker' = marker /\ day' = day /\ (marker # None => marker.ends - day <= marker.threshold)
      BY DEF NoticeInv, LeftIsCounted
    <3> QED
      BY ONLY <3>1, <3>2, <3>3, <3>4 DEF LeftIsCounted, Noticing
  <2> QED
    BY <2>1, <2>2
<1>6. MarkIsNew'
  BY DEF NoticeInv, LicTypes, MarkIsNew, Mark, Rest
<1>7. OneNoticePerThreshold'
  BY DEF NoticeInv, LicTypes, OneNoticePerThreshold
<1>8. OneInstall'
  BY DEF InstallInv, LicTypes, OneInstall, Rest
<1>9. RowIsAhead'
  BY DEF InstallInv, LicTypes, OneInstall, RowIsAhead, Rest
<1> QED
  BY ONLY <1>1, <1>2, <1>3, <1>4, <1>5, <1>6, <1>7, <1>8, <1>9 DEF LicenseInv, NoticeInv, InstallInv

(* The mark read is not the one to be made: no such notice went out.        *)
LEMMA NoticeReadStep ==
  ASSUME LicenseInv, NoticeRead, UNCHANGED up, up # "down"
  PROVE  LicenseInv'
<1> USE DEF LicenseInv, NoticeRead
<1>m. /\ Mark \in [threshold : NoticeDays, ends : Nat]
      /\ Mark.ends = EndsOn[sweep.current] /\ Mark # None
      /\ Mark.ends - day <= Mark.threshold
      /\ \A d \in NoticeDays : sweep.left <= d => Mark.threshold <= d
  BY MarkFacts DEF NoticeInv
<1>1. LicTypes'
  BY DEF LicTypes, Rest
<1>2. DownIsAtRest'
  BY DEF DownIsAtRest
<1>3. MarkFollows'
  BY DEF NoticeInv, LicTypes, MarkFollows, Marked, Announced, Rest
<1>4. MarkIsLast'
  BY DEF NoticeInv, LicTypes, MarkIsLast
<1>5. LeftIsCounted'
  BY DEF NoticeInv, LicTypes, LeftIsCounted, Rest
<1>6. MarkIsNew'
  <2> SUFFICES ASSUME sweep'.stage = "marking", ~again, NEW t \in told, t.threshold = Mark.threshold, t.ends = Mark.ends
               PROVE  FALSE
    BY DEF MarkIsNew, Mark, LicTypes, Rest
  <2>1. marker # None /\ marker.ends = Mark.ends
    BY <1>m DEF NoticeInv, LicTypes, MarkFollows, Marked, Announced
  <2>2. marker.threshold <= Mark.threshold
    BY <2>1 DEF NoticeInv, MarkIsLast
  <2>3. sweep.left <= marker.threshold
    BY <1>m, <2>1 DEF NoticeInv, LeftIsCounted
  <2>4. marker.threshold \in NoticeDays /\ marker \in Marks /\ Mark.threshold \in Nat
    BY <1>m, <2>1 DEF LicTypes
  <2>5. marker.threshold = Mark.threshold
    BY <1>m, <2>2, <2>3, <2>4
  <2>6. marker = Mark
    BY ONLY <1>m, <2>1, <2>4, <2>5 DEF Marks
  <2> QED
    BY <2>6 DEF Rest
<1>7. OneNoticePerThreshold'
  BY DEF NoticeInv, LicTypes, OneNoticePerThreshold
<1>8. OneInstall'
  BY DEF InstallInv, LicTypes, OneInstall, Rest
<1>9. RowIsAhead'
  BY DEF InstallInv, LicTypes, OneInstall, RowIsAhead, Rest
<1> QED
  BY ONLY <1>1, <1>2, <1>3, <1>4, <1>5, <1>6, <1>7, <1>8, <1>9 DEF LicenseInv, NoticeInv, InstallInv

(* The mark is made before anything is announced.                           *)
LEMMA NoticeMarkedStep ==
  ASSUME LicenseInv, NoticeMarked, UNCHANGED up, up # "down"
  PROVE  LicenseInv'
<1> USE DEF LicenseInv, NoticeMarked
<1>m. /\ Mark \in [threshold : NoticeDays, ends : Nat]
      /\ Mark.ends = EndsOn[sweep.current] /\ Mark # None
      /\ Mark.ends - day <= Mark.threshold
      /\ \A d \in NoticeDays : sweep.left <= d => Mark.threshold <= d
  BY MarkFacts DEF NoticeInv
<1>u. /\ marker' = Mark /\ sweep' = [sweep EXCEPT !.stage = "telling"]
      /\ sweep.stage = "marking" /\ day' = day /\ held' = held /\ told' = told /\ again' = again /\ stored' = stored
  OBVIOUS
<1>v. /\ sweep' \in Sweeps /\ sweep'.stage = "telling" /\ sweep'.current = sweep.current /\ sweep'.left = sweep.left
  BY <1>u DEF LicTypes
<1>w. Mark' = Mark
  BY <1>v DEF Mark
<1>1. LicTypes'
  BY <1>m, <1>u, <1>v DEF LicTypes
<1>2. DownIsAtRest'
  BY DEF DownIsAtRest
<1>3. MarkFollows'
  BY <1>m, <1>u, <1>v DEF NoticeInv, MarkFollows, Marked, Announced, Loaded
<1>4. MarkIsLast'
  <2> SUFFICES ASSUME ~again, NEW t \in told, t.ends = Mark.ends PROVE Mark.threshold <= t.threshold
    BY <1>u DEF MarkIsLast
  <2>1. marker # None /\ marker.ends = Mark.ends
    BY <1>m, <1>u DEF NoticeInv, LicTypes, MarkFollows, Marked, Announced
  <2>2. marker.threshold <= t.threshold /\ t.threshold \in Nat
    BY <2>1 DEF NoticeInv, MarkIsLast, LicTypes
  <2>3. sweep.left <= marker.threshold /\ marker.threshold \in NoticeDays /\ Mark.threshold \in Nat
    BY <1>m, <1>u, <2>1 DEF NoticeInv, LeftIsCounted, LicTypes
  <2> QED
    BY <1>m, <2>2, <2>3
<1>5. LeftIsCounted'
  BY <1>m, <1>u, <1>v DEF NoticeInv, LeftIsCounted
<1>6. MarkIsNew'
  BY <1>u, <1>v, <1>w DEF NoticeInv, MarkIsNew
<1>7. OneNoticePerThreshold'
  BY DEF NoticeInv, LicTypes, OneNoticePerThreshold
<1>8. OneInstall'
  BY DEF InstallInv, LicTypes, OneInstall, Rest
<1>9. RowIsAhead'
  BY DEF InstallInv, LicTypes, OneInstall, RowIsAhead, Rest
<1> QED
  BY ONLY <1>1, <1>2, <1>3, <1>4, <1>5, <1>6, <1>7, <1>8, <1>9 DEF LicenseInv, NoticeInv, InstallInv

(* The mark could not be read or made.                                      *)
LEMMA NoticeFailsStep ==
  ASSUME LicenseInv, NoticeFails, UNCHANGED up, up # "down"
  PROVE  LicenseInv'
<1> USE DEF LicenseInv, NoticeFails
<1>1. LicTypes'
  BY DEF LicTypes, Rest
<1>2. DownIsAtRest'
  BY DEF DownIsAtRest
<1>3. MarkFollows'
  BY DEF NoticeInv, LicTypes, MarkFollows, Marked, Announced, Rest
<1>4. MarkIsLast'
  BY DEF NoticeInv, LicTypes, MarkIsLast
<1>5. LeftIsCounted'
  BY DEF NoticeInv, LicTypes, LeftIsCounted, Rest
<1>6. MarkIsNew'
  BY DEF NoticeInv, LicTypes, MarkIsNew, Mark, Rest
<1>7. OneNoticePerThreshold'
  BY DEF NoticeInv, LicTypes, OneNoticePerThreshold
<1>8. OneInstall'
  BY DEF InstallInv, LicTypes, OneInstall, Rest
<1>9. RowIsAhead'
  BY DEF InstallInv, LicTypes, OneInstall, RowIsAhead, Rest
<1> QED
  BY ONLY <1>1, <1>2, <1>3, <1>4, <1>5, <1>6, <1>7, <1>8, <1>9 DEF LicenseInv, NoticeInv, InstallInv

(* The notice goes out.                                                     *)
LEMMA NoticeToldStep ==
  ASSUME LicenseInv, NoticeTold, UNCHANGED up, up # "down"
  PROVE  LicenseInv'
<1> USE DEF LicenseInv, NoticeTold
<1>m. /\ Mark \in [threshold : NoticeDays, ends : Nat]
      /\ Mark.ends = EndsOn[sweep.current] /\ Mark # None
      /\ Mark.ends - day <= Mark.threshold
      /\ \A d \in NoticeDays : sweep.left <= d => Mark.threshold <= d
  BY MarkFacts DEF NoticeInv
<1> DEFINE new == [threshold |-> Mark.threshold, ends |-> Mark.ends, count |-> TimesTold(Mark)]
<1>n. told' = told \cup {new} /\ new.threshold = Mark.threshold /\ new.ends = Mark.ends
  OBVIOUS
<1> HIDE DEF new
<1>u. /\ sweep' = Rest /\ sweep.stage = "telling" /\ marker' = marker /\ marker = Mark /\ held' = held
      /\ again' = again /\ up' = up /\ up # "down" /\ stored' = stored
  BY DEF NoticeInv, MarkIsNew
<1>1. LicTypes'
  <2>1. \A t \in told' : t.threshold \in NoticeDays /\ t.ends \in Nat
    BY <1>m, <1>n DEF LicTypes
  <2> QED
    BY <2>1 DEF LicTypes, Rest
<1>2. DownIsAtRest'
  BY DEF DownIsAtRest
<1>3. MarkFollows'
  <2>1. held # None /\ Announced(held)' /\ ~again => marker.ends = EndsOn[held]
    BY <1>m, <1>n, <1>u DEF NoticeInv, MarkFollows, Announced
  <2> QED
    BY <1>m, <1>u, <2>1 DEF MarkFollows, Marked, Rest
<1>4. MarkIsLast'
  <2>1. Mark.threshold \in Nat
    BY <1>m
  <2>2. ASSUME ~again, NEW t \in told', t.ends = Mark.ends PROVE Mark.threshold <= t.threshold
    <3>1. CASE t = new
      BY <1>n, <2>1, <3>1
    <3>2. CASE t \in told
      BY <1>m, <1>u, <2>2, <3>2 DEF NoticeInv, MarkIsLast
    <3> QED
      BY <1>n, <2>2, <3>1, <3>2
  <2> QED
    BY <1>u, <2>2 DEF MarkIsLast
<1>5. LeftIsCounted'
  BY DEF NoticeInv, LicTypes, LeftIsCounted, Rest
<1>6. MarkIsNew'
  BY DEF NoticeInv, LicTypes, MarkIsNew, Mark, Rest
<1>7. OneNoticePerThreshold'
  BY <1>n, <1>u DEF NoticeInv, OneNoticePerThreshold, MarkIsNew
<1>8. OneInstall'
  BY DEF InstallInv, LicTypes, OneInstall, Rest
<1>9. RowIsAhead'
  BY DEF InstallInv, LicTypes, OneInstall, RowIsAhead, Rest
<1> QED
  BY ONLY <1>1, <1>2, <1>3, <1>4, <1>5, <1>6, <1>7, <1>8, <1>9 DEF LicenseInv, NoticeInv, InstallInv


(* A day less is left.                                                      *)
LEMMA MidnightStep ==
  ASSUME LicenseInv, Midnight, UNCHANGED up
  PROVE  LicenseInv'
<1> USE DEF LicenseInv, Midnight
<1>1. LicTypes'
  BY DEF LicTypes
<1>2. DownIsAtRest'
  BY DEF DownIsAtRest
<1>3. MarkFollows'
  BY DEF NoticeInv, MarkFollows, Marked, Announced, Loaded
<1>4. MarkIsLast' /\ OneNoticePerThreshold'
  BY DEF NoticeInv, MarkIsLast, OneNoticePerThreshold
<1>5. LeftIsCounted'
  <2>1. marker # None => marker.ends \in Nat /\ marker.threshold \in Nat
    BY DEF LicTypes
  <2>2. Noticing => EndsOn[sweep.current] \in Nat /\ sweep.left \in Int
    BY DEF LicTypes
  <2> QED
    BY <2>1, <2>2 DEF NoticeInv, LicTypes, LeftIsCounted
<1>6. MarkIsNew'
  BY DEF NoticeInv, MarkIsNew, Mark
<1>7. InstallInv'
  BY DEF InstallInv, OneInstall, RowIsAhead
<1> QED
  BY ONLY <1>1, <1>2, <1>3, <1>4, <1>5, <1>6, <1>7 DEF LicenseInv, NoticeInv

(* The end of the process: the row says what the next boot loads.           *)
LEMMA LicenseStopsStep ==
  ASSUME LicenseInv, LicensingStops, up # "down", up' = "down"
  PROVE  LicenseInv'
<1> USE DEF LicenseInv, LicensingStops
<1>1. LicTypes'
  <2>1. \A p \in Pastes : /\ paste'[p] \in [stage : PasteStages, lic : Licenses \cup {None}]
                          /\ ~ (paste'[p].stage \in {"storing", "holding"})
    BY DEF LicTypes
  <2>2. paste' \in [Pastes -> [stage : PasteStages, lic : Licenses \cup {None}]]
    BY <2>1
  <2>3. again' \in BOOLEAN
    BY DEF LicTypes
  <2> HIDE DEF LicensingStops
  <2>4. UNCHANGED <<day, stored, marker, told, crossed, torn>> /\ held' = None /\ sweep' = Rest
    BY DEF LicensingStops
  <2> QED
    BY <2>1, <2>2, <2>3, <2>4 DEF LicTypes, Rest
<1>2. DownIsAtRest'
  BY DEF DownIsAtRest, LicTypes
<1>3. MarkFollows'
  <2> SUFFICES ASSUME ~again', Loaded # None, Announced(Loaded)
               PROVE  marker # None /\ marker.ends = EndsOn[Loaded]
    BY DEF MarkFollows, Marked, Announced, Loaded, Rest
  <2>1. ~again /\ Loaded = held /\ sweep.stage # "holding"
    BY DEF LicTypes
  <2> QED
    BY <2>1 DEF NoticeInv, MarkFollows, Marked
<1>4. MarkIsLast' /\ OneNoticePerThreshold'
  BY DEF NoticeInv, LicTypes, MarkIsLast, OneNoticePerThreshold
<1>5. LeftIsCounted'
  BY DEF NoticeInv, LeftIsCounted, Rest
<1>6. MarkIsNew'
  BY DEF MarkIsNew, Rest
<1>7. OneInstall'
  BY DEF InstallInv, OneInstall, LicTypes
<1>8. RowIsAhead'
  BY DEF RowIsAhead
<1> QED
  BY ONLY <1>1, <1>2, <1>3, <1>4, <1>5, <1>6, <1>7, <1>8 DEF LicenseInv, NoticeInv, InstallInv

(* A boot loads it.                                                         *)
LEMMA LicenseLoadStep ==
  ASSUME LicenseInv, LoadLicenses, up = "down", up' = "up"
  PROVE  LicenseInv'
<1> USE DEF LicenseInv, LoadLicenses
<1>1. LicTypes'
  BY DEF LicTypes, Loaded
<1>2. DownIsAtRest'
  BY DEF DownIsAtRest
<1>3. MarkFollows'
  BY DEF NoticeInv, MarkFollows, DownIsAtRest, Marked, Announced, Loaded, Rest
<1>4. MarkIsLast' /\ OneNoticePerThreshold'
  BY DEF NoticeInv, LicTypes, MarkIsLast, OneNoticePerThreshold
<1>5. LeftIsCounted'
  BY DEF NoticeInv, LeftIsCounted
<1>6. MarkIsNew'
  BY DEF NoticeInv, MarkIsNew, Mark
<1>7. OneInstall'
  BY DEF DownIsAtRest, OneInstall
<1>8. RowIsAhead'
  BY DEF DownIsAtRest, RowIsAhead, Loaded, Rest
<1> QED
  BY ONLY <1>1, <1>2, <1>3, <1>4, <1>5, <1>6, <1>7, <1>8 DEF LicenseInv, NoticeInv, InstallInv

(* The process starts with what it loads.                                   *)
LEMMA LicenseStart ==
  ASSUME LicensingInit, up = "up"
  PROVE  LicenseInv
<1> USE DEF LicensingInit
<1>1. LicTypes
  <2>1. paste \in [Pastes -> [stage : PasteStages, lic : Licenses \cup {None}]]
    OBVIOUS
  <2>2. sweep \in Sweeps /\ sweep.stage = "rest"
    BY DEF Rest
  <2>3. held \in Licenses \cup {None} /\ stored \in Licenses \cup {None}
    BY DEF Loaded
  <2> QED
    BY <2>1, <2>2, <2>3 DEF LicTypes
<1>2. DownIsAtRest /\ NoticeInv
  BY DEF DownIsAtRest, NoticeInv, MarkFollows, Marked, Announced, MarkIsLast, LeftIsCounted, MarkIsNew,
         OneNoticePerThreshold, Rest
<1>3. InstallInv
  BY DEF InstallInv, OneInstall, RowIsAhead, Loaded, Rest
<1> QED
  BY <1>1, <1>2, <1>3 DEF LicenseInv

(* What has nothing to do with the license.                                 *)
LEMMA LicenseStands ==
  ASSUME LicenseInv, UNCHANGED licenseVars, UNCHANGED up \/ (up # "down" /\ up' # "down")
  PROVE  LicenseInv'
<1> USE DEF LicenseInv, licenseVars
<1>1. LicTypes'
  BY DEF LicTypes
<1>2. DownIsAtRest'
  BY DEF DownIsAtRest
<1>3. MarkFollows'
  BY DEF NoticeInv, MarkFollows, Marked, Announced, Loaded
<1>4. MarkIsLast' /\ OneNoticePerThreshold'
  BY DEF NoticeInv, MarkIsLast, OneNoticePerThreshold
<1>5. LeftIsCounted'
  BY DEF NoticeInv, LeftIsCounted
<1>6. MarkIsNew'
  BY DEF NoticeInv, MarkIsNew, Mark
<1>7. InstallInv'
  BY DEF InstallInv, OneInstall, RowIsAhead
<1> QED
  BY ONLY <1>1, <1>2, <1>3, <1>4, <1>5, <1>6, <1>7 DEF LicenseInv, NoticeInv

(* Every step of the process.                                               *)
LEMMA LicenseStep ==
  ASSUME LicenseInv, [Next]_vars
  PROVE  LicenseInv'
<1>1. CASE UNCHANGED vars
  BY <1>1, LicenseStands DEF vars, notifierVars
<1>2. CASE \E p \in Pastes : Paste(p)
  <2> PICK p \in Pastes : Paste(p)
    BY <1>2
  <2>1. PasteStep(p) /\ UNCHANGED up /\ up # "down"
    BY DEF Paste, notifierVars
  <2> QED
    BY <2>1, LicenseVerifyStep, PasteStoredStep, PasteHeldStep DEF PasteStep
<1>3. CASE Sweep
  <2>1. SweepStep /\ UNCHANGED up /\ up # "down"
    BY <1>3 DEF Sweep, notifierVars
  <2> QED
    BY <2>1, SweepStartsStep, FetchedStep, RenewalStoredStep, NoticeClearedStep, RenewalFailsStep, RenewalHeldStep,
       NoticeLookedStep, NoticeReadStep, NoticeMarkedStep, NoticeFailsStep DEF SweepStep
<1>4. CASE TellExpiry
  BY <1>4, NoticeToldStep DEF TellExpiry, Emit
<1>5. CASE Ends
  BY <1>5, LicenseStopsStep DEF Ends, Stops
<1>6. CASE Starts
  BY <1>6, LicenseLoadStep DEF Starts, Boots
<1>7. CASE Time
  <2>1. CASE Midnight /\ UNCHANGED <<notifierVars, corpusVars>>
    BY <2>1, MidnightStep DEF notifierVars
  <2>2. CASE UNCHANGED licenseVars /\ UNCHANGED up
    BY <2>2, LicenseStands
  <2> QED
    BY <1>7, <2>1, <2>2 DEF Time, Passes, HourPasses, notifierVars
<1>8. CASE UNCHANGED licenseVars /\ (UNCHANGED up \/ (up # "down" /\ up' # "down"))
  BY <1>8, LicenseStands
<1>9. CASE \/ \E q \in Requests, h \in Hooks :
                (\E w \in Windows : Subscribe(q, h, w)) \/ Unsubscribe(q, h)
           \/ \E q \in Requests : RequestStep(q)
  BY <1>8, <1>9 DEF Subscribe, Unsubscribe, Ask, RequestStep, StoreRow, RegisterHook, RefuseHook, RemoveRows, Forget
<1>10. CASE Operator \/ Schedules
  BY <1>8, <1>10 DEF Operator, Schedules, notifierVars
<1>11. CASE (\E slot \in Slots \ {LicenseSlot, CorpusSlot} : Page(slot)) \/ Alarm
  BY <1>8, <1>11 DEF Page, Alarm, Emit
<1>12. CASE \E r \in PinnedRuns : Retention(r)
  BY <1>8, <1>12 DEF Retention, notifierVars
<1>13. CASE \E n \in 1..NextNumber, h \in Hooks : Task_(n, h)
  BY <1>8, <1>13 DEF Task_, Deliver, Delivered, AttemptFails, Persist, PersistFails
<1>14. CASE ShutsDown
  BY <1>8, <1>14 DEF ShutsDown, Drain
<1> QED
  BY <1>1, <1>2, <1>3, <1>4, <1>5, <1>6, <1>7, <1>9, <1>10, <1>11, <1>12, <1>13, <1>14 DEF Next

(* The invariant says what is promised of the license.                      *)
LEMMA KeptFromInv == LicenseInv => EntitlementIsKept
<1> SUFFICES ASSUME LicenseInv PROVE EntitlementIsKept
  OBVIOUS
<1>1. LicensingTypeOK
  BY DEF LicenseInv, LicTypes, LicensingTypeOK
<1>2. ASSUME ~Installing, ~Renewing, ~crossed, ~torn, EnvLicense = None, held # None
      PROVE  held = stored
  <2>1. up # "down"
    BY <1>2 DEF LicenseInv, DownIsAtRest
  <2>2. \A p \in Pastes : paste[p].stage # "holding"
    BY <1>2 DEF Installing
  <2> QED
    BY <1>2, <2>1, <2>2 DEF LicenseInv, InstallInv, RowIsAhead
<1> QED
  BY <1>1, <1>2 DEF EntitlementIsKept, HeldIsStored, LicenseInv, NoticeInv

(* The license in force is the one stored, but for what an install that     *)
(* crossed another or was cut leaves, and a threshold of a license is       *)
(* announced once: of /verify, renew_once and notify_expiring.              *)
THEOREM EntitlementKept == Spec => []EntitlementIsKept
<1>1. Init => LicenseInv
  BY LicenseStart DEF Init, NotifierInit
<1>2. LicenseInv /\ [Next]_vars => LicenseInv'
  BY LicenseStep
<1>3. LicenseInv => EntitlementIsKept
  BY KeptFromInv
<1> QED
  BY <1>1, <1>2, <1>3, PTL DEF Spec
=============================================================================
