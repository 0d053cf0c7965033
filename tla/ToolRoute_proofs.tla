-------------------------- MODULE ToolRoute_proofs --------------------------
(***************************************************************************)
(* Machine-checked safety of the proxy, for every set of runs, tools,      *)
(* calls, claims, registrations and servers, any faults and any offers.    *)
(*                                                                         *)
(* The argument: whatever a stretch of the tool route does, it is one of   *)
(* six moves of one call (it resolves, decides, meets its fault, hears its *)
(* upstream, serves the body, reports), and at each stage between two of   *)
(* them the lines the call has written and whether it has been counted are *)
(* known (Progress).  The other actors touch neither.  Which fault a call  *)
(* meets is tied to the count it was matched against, as long as no other  *)
(* call of its run and tool was counted in between (FaultInv).  A call     *)
(* that waits for a stdio server has an id that no other call of that      *)
(* server has, and so have the answers (StdioInv).  A claim's run keeps    *)
(* its trace until the claim is answered (ClaimStage).                     *)
(***************************************************************************)
EXTENDS ToolRoute, SequenceTheorems, WellFoundedInduction, TLAPS

(* Types.                                                                  *)
Upstreams == Urls \cup Servers \cup {NoUpstream}
Specs == {NoFault} \cup UNION {Range(Faults[r]) : r \in Runs}
Extra == {"none", "judged", "deny", "registered", "gap", "silent"} \cup
         UNION {{f.mode : f \in Range(Faults[r])} : r \in Runs}
TraceLine == [kind: {"call", "refused", "fault", "result", "error", "claim"}, extra: Extra]
Shown == SUBSET (CredHeaders \X ({"agent"} \cup Upstreams))
Locals == [run: Runs \cup {NoRun}, tool: Tools \cup {NoLocals.tool}, up: Upstreams,
           body: {"plain", "call", "notice"}, cred: Upstreams, header: CredHeaders,
           judged: BOOLEAN, spec: Specs, matched: BOOLEAN, called: BOOLEAN, sent: Shown]
ClaimLocals == [run: Runs \cup {NoRun}, derived: [Writers -> Seq(TraceLine)],
                uploaded: [Writers -> Seq(TraceLine)], before: SUBSET Calls]

RunTypes ==
  /\ armed \in Seq(Runs) /\ started \subseteq Runs /\ known \subseteq started
  /\ \A i \in DOMAIN armed : armed[i] \in known
  /\ counted \in [Runs -> [Tools -> Seq(Calls)]]
  /\ writing \in [Writers -> TraceLine \cup {NoLine}]
  /\ trace \in [Runs -> [Writers -> Seq(TraceLine)]]

CallTypes ==
  /\ pc \in [Calls -> {"idle", "body", "dispense", "append", "upstream", "rpc",
                       "reading", "relay", "ended"}]
  /\ answer \in [Calls -> {0, 200, 400, 403, 404, 499, 500, 502, 503}]
  /\ loc \in [Calls -> Locals]
  /\ tools \in [Tools -> Upstreams] /\ alive \subseteq Servers

(* A call that has been taken is under a run that was started, and, until  *)
(* it is answered, one that is known.                                      *)
Taken ==
  \A c \in Calls :
    /\ pc[c] = "idle" => answer[c] = 0
    /\ Under(c) = NoRun =>
         /\ loc[c] = NoLocals
         /\ pc[c] = "idle" \/ (pc[c] = "ended" /\ answer[c] \in {404, 503})
    /\ Under(c) # NoRun =>
         /\ pc[c] # "idle" /\ Under(c) \in started /\ loc[c].tool \in Tools
         /\ loc[c].up \in Urls \cup Servers
         /\ pc[c] # "ended" => Under(c) \in known
         /\ pc[c] = "append" => writing[c] \in TraceLine /\ writing[c].kind # "claim"
         /\ pc[c] \in {"upstream", "reading", "relay"} => loc[c].up \in Urls
         /\ pc[c] = "rpc" => loc[c].up \in Servers

CallInv == RunTypes /\ CallTypes /\ Taken

(* What a call has left in the trace and in the count, stage by stage.     *)
Said(c) == Kinds(trace[Under(c)][c])
IsCounted(c) == c \in Range(counted[Under(c)][loc[c].tool])
Is(c, kind) == pc[c] = "append" /\ writing[c].kind = kind

Progress(c) ==
  /\ pc[c] \in {"body", "dispense"} \/ Is(c, "refused") \/ Is(c, "call") =>
       Said(c) = <<>> /\ ~IsCounted(c) /\ loc[c].spec = NoFault /\ ~loc[c].matched
  /\ pc[c] \in {"upstream", "rpc"} =>
       Said(c) = <<"call">> /\ ~IsCounted(c) /\ loc[c].matched
  /\ Is(c, "fault") =>
       Said(c) = <<"call">> /\ ~IsCounted(c) /\ loc[c].matched /\ loc[c].spec # NoFault
  /\ pc[c] \in {"reading", "relay"} =>
       Said(c) = <<"call">> /\ IsCounted(c) /\ loc[c].matched /\ loc[c].spec = NoFault
  /\ Is(c, "error") =>
       Said(c) = <<"call">> /\ IsCounted(c) /\ loc[c].matched
  /\ Is(c, "result") =>
       /\ Said(c) = IF loc[c].spec = NoFault THEN <<"call">> ELSE <<"call", "fault">>
       /\ IsCounted(c) <=> loc[c].spec = NoFault
       /\ loc[c].matched
  /\ pc[c] = "ended" =>
       /\ Under(c) \in known => Said(c) \in Lines(c)
       /\ IsCounted(c) <=> \/ answer[c] \in {200, 403, 502}
                           \/ answer[c] \in {499, 500} /\ loc[c].up \in Urls
       /\ answer[c] \notin {404, 503}
       /\ answer[c] \in {200, 502} => loc[c].matched

(* A run's file holds the lines of its own calls and claims, and its count *)
(* its own calls, each once.                                               *)
Own ==
  /\ \A r \in Runs, c \in Calls : Under(c) # r => trace[r][c] = <<>>
  /\ \A r \in Runs, t \in Tools :
       /\ \A i \in DOMAIN counted[r][t] :
            Under(counted[r][t][i]) = r /\ loc[counted[r][t][i]].tool = t
       /\ \A i, j \in DOMAIN counted[r][t] : counted[r][t][i] = counted[r][t][j] => i = j

TraceInv == Own /\ \A c \in Calls : Under(c) # NoRun => Progress(c)

(* The fault of a call is the one of the index it was counted at, or, if   *)
(* it has not been counted, of the index it would be counted at now.       *)
HasFault(r, t, n) == \E f \in Range(Faults[r]) : f.tool = t /\ f.index \in {Always, n}
FaultInv ==
  \A r \in Runs, t \in Tools : <<r, t>> \notin crossed =>
    /\ \A c \in Calls : Under(c) = r /\ loc[c].tool = t /\ loc[c].matched /\ ~IsCounted(c) =>
         (loc[c].spec # NoFault <=> HasFault(r, t, Len(counted[r][t])))
    /\ \A i \in DOMAIN counted[r][t] :
         LET c == counted[r][t][i] IN
         loc[c].matched => (loc[c].spec # NoFault <=> HasFault(r, t, i - 1))

(* The endpoint of a credential is the one its call goes to, and what that *)
(* upstream is shown under the credential's header is the credential.      *)
ShownTheCredential(c) ==
  /\ loc[c].up \in Urls
  /\ \E h \in CredHeaders :
       /\ <<h, loc[c].up>> \in loc[c].sent
       /\ \A p \in loc[c].sent : p[1] = h => p[2] = loc[c].up
  /\ \A p \in loc[c].sent : p[2] \in {loc[c].up, "agent"}

VaultInv ==
  \A c \in Calls : loc[c].tool \in VaultTools =>
    /\ pc[c] = "dispense" => loc[c].up \in Urls
    /\ Is(c, "call") => loc[c].cred = loc[c].up /\ loc[c].up \in Urls
    /\ loc[c].called => ShownTheCredential(c)

(* A claim's run keeps its trace until the claim is answered.              *)
ClaimStage(k) ==
  LET r == kloc[k].run
      d == kloc[k].derived
  IN
  /\ kpc[k] = "idle" => r = NoRun
  /\ kpc[k] # "idle" =>
       /\ r \in Runs
       /\ kpc[k] # "ended" => r \in known
       /\ \A c \in kloc[k].before : Under(c) = r /\ pc[c] = "ended"
  /\ \A q \in Runs : q # r => trace[q][k] = <<>>
  /\ kpc[k] = "append" =>
       /\ writing[k] \in TraceLine /\ writing[k].kind = "claim"
       /\ trace[r][k] = <<>>
  /\ kpc[k] = "derive" => Kinds(trace[r][k]) = <<"claim">>
  /\ kpc[k] \in {"upload", "ended"} =>
       /\ Kinds(d[k]) = <<"claim">>
       /\ \A c \in kloc[k].before : Kinds(d[c]) \in Lines(c)
  /\ kpc[k] = "upload" => \A w \in Writers : IsPrefix(d[w], trace[r][w])
  /\ kpc[k] = "ended" => \A w \in Writers : IsPrefix(d[w], kloc[k].uploaded[w])

ClaimTypes ==
  /\ kpc \in [Claims -> {"idle", "append", "derive", "upload", "ended"}]
  /\ kloc \in [Claims -> ClaimLocals]

ClaimInv == ClaimTypes /\ \A k \in Claims : ClaimStage(k)

(* An answer on its way, or still owed, carries the id of the call it is   *)
(* for, which no other call of that server has.                            *)
StdioTypes ==
  /\ queue \in [Servers -> Seq(Calls)] /\ ids \in [Servers -> Nat]
  /\ want \in [Calls -> Nat] /\ asked \subseteq Calls
  /\ owed \in [Servers -> SUBSET (Nat \X Calls)] /\ pipe \in [Servers -> Seq(Nat \X Calls)]
  /\ heard = [c \in Calls |-> c]

Asking(c) ==
  /\ want[c] # 0 =>
       /\ Under(c) # NoRun /\ pc[c] \notin {"body", "dispense"} /\ ~Is(c, "call")
       /\ loc[c].up \in Servers /\ want[c] <= ids[loc[c].up]
  /\ pc[c] = "rpc" => want[c] # 0

OwnIds ==
  \A c, d \in Calls : want[c] # 0 /\ want[c] = want[d] /\ loc[c].up = loc[d].up => c = d

Fits(a, s) == want[a[2]] = a[1] /\ a[1] # 0 /\ loc[a[2]].up = s

OwnAnswers ==
  \A s \in Servers :
    /\ \A a \in owed[s] : Fits(a, s)
    /\ \A i \in DOMAIN pipe[s] : Fits(pipe[s][i], s)

StdioInv == StdioTypes /\ (\A c \in Calls : Asking(c)) /\ OwnIds /\ OwnAnswers

(* The table and the registrations.                                        *)
TableTypes ==
  /\ gpc \in [Registrations -> {"idle", "initialize", "list", "closing", "ended"}]
  /\ gloc \in [Registrations -> [name: Tools \cup {NoLocals.tool}, new: Upstreams, old: Upstreams]]
  /\ \A g \in Registrations :
       /\ gpc[g] = "idle" => gloc[g].new = NoUpstream
       /\ gpc[g] # "idle" => gloc[g].name \in Tools

TableInv == TableTypes /\ OnlyLostIsOrphaned

RouteInv == CallInv /\ TraceInv /\ FaultInv /\ VaultInv /\ ClaimInv /\ StdioInv /\ TableInv
-----------------------------------------------------------------------------
LEMMA SomeHeader == NoLocals.header \in CredHeaders
  BY HeadersAssumption DEF NoLocals

(* Numbers are well ordered.                                               *)
Less == {p \in Nat \X Nat : p[1] < p[2]}

LEMMA LessIsWellFounded == IsWellFoundedOn(Less, Nat)
  BY NatLessThanWellFounded DEF OpToRel, Less

(* A set of numbers that is not empty has a least one.                     *)
LEMMA Least ==
  ASSUME NEW S \in SUBSET Nat, S # {}
  PROVE  \E m \in S : \A n \in S : m <= n
<1>1. PICK m \in S : \A n \in S : ~ (<<n, m>> \in Less)
  <2>1. S \subseteq Nat
    OBVIOUS
  <2> QED
    BY ONLY LessIsWellFounded, WFMin, <2>1, S # {}
<1>2. ASSUME NEW n \in S PROVE m <= n
  <2>1. m \in Nat /\ n \in Nat /\ <<n, m>> \in Nat \X Nat /\ ~ (<<n, m>> \in Less)
    BY <1>1
  <2>2. ~(n < m)
    <3> SUFFICES ASSUME n < m PROVE FALSE
      OBVIOUS
    <3> QED
      BY <2>1 DEF Less
  <2> QED
    BY <2>1, <2>2
<1> QED
  BY <1>2

LEMMA MinLemma == ASSUME NEW S \in SUBSET Nat, S # {} PROVE Min(S) \in S
  BY Least DEF Min

(* The fault of a call is one of its run's, of its tool, and of the index  *)
(* asked for, when there is such a fault, and NoFault when there is none.  *)
LEMMA FirstFault ==
  ASSUME NEW r \in Runs, NEW t
  PROVE  /\ FaultForCall(r, t) # NoFault <=> HasFault(r, t, Len(counted[r][t]))
         /\ FaultForCall(r, t) \in Specs
         /\ FaultForCall(r, t) # NoFault => FaultForCall(r, t).mode \in Extra
<1> DEFINE hits == {i \in DOMAIN Faults[r] :
                      /\ Faults[r][i].tool = t
                      /\ Faults[r][i].index \in {Always, Len(counted[r][t])}}
<1>1. CASE hits = {}
  BY <1>1 DEF FaultForCall, HasFault, Range, Specs
<1>2. CASE hits # {}
  <2>1. hits \in SUBSET Nat
    BY FaultsAssumption
  <2>2. PICK i \in hits : i = Min(hits)
    BY <1>2, <2>1, MinLemma
  <2>3. FaultForCall(r, t) = Faults[r][i]
    BY <1>2, <2>2 DEF FaultForCall
  <2>4. Faults[r][i] \in Range(Faults[r]) /\ Faults[r][i] # NoFault
    BY FaultsAssumption DEF Range
  <2>5. HasFault(r, t, Len(counted[r][t]))
    BY <2>2, <2>4 DEF HasFault
  <2> QED
    BY <2>3, <2>4, <2>5 DEF Specs, Extra
<1> QED
  BY <1>1, <1>2

(* A stretch of a sequence.                                                *)
LEMMA Stretch ==
  ASSUME NEW S, NEW s \in Seq(S), NEW m \in 1..Len(s) + 1, NEW n \in 0..Len(s), m <= n + 1
  PROVE  /\ SubSeq(s, m, n) \in Seq(S) /\ Len(SubSeq(s, m, n)) = n - m + 1
         /\ \A i \in 1..n - m + 1 : SubSeq(s, m, n)[i] = s[m + i - 1]
<1>1. m \in Int /\ n \in Int /\ Len(s) \in Nat /\ \A i \in m..n : s[i] \in S
  OBVIOUS
<1> QED
  BY <1>1, SubSeqProperties

(* A run that is disarmed goes off the list, and nothing comes on it.      *)
LEMMA Disarmed ==
  ASSUME armed \in Seq(Runs), NEW r
  PROVE  /\ RemoveFirst(armed, r) \in Seq(Runs)
         /\ \A i \in DOMAIN RemoveFirst(armed, r) :
              \E j \in DOMAIN armed : RemoveFirst(armed, r)[i] = armed[j]
<1>1. CASE ~ \E i \in 1..Len(armed) : armed[i] = r
  BY <1>1 DEF RemoveFirst
<1>2. CASE \E i \in 1..Len(armed) : armed[i] = r
  <2> PICK n \in Nat : n = Len(armed)
    OBVIOUS
  <2> DEFINE I == {i \in 1..Len(armed) : armed[i] = r}
  <2>1. I \in SUBSET Nat /\ I # {} /\ DOMAIN armed = 1..n
    BY <1>2
  <2>2. PICK k \in 1..n : k = Min(I)
    BY <2>1, MinLemma
  <2>3. RemoveFirst(armed, r) = SubSeq(armed, 1, k - 1) \o SubSeq(armed, k + 1, n)
    BY <1>2, <2>1, <2>2 DEF RemoveFirst, RemoveAt, SelectInSeq
  <2> DEFINE s == SubSeq(armed, 1, k - 1)
             u == SubSeq(armed, k + 1, n)
  <2>4. /\ s \in Seq(Runs) /\ Len(s) = k - 1 /\ \A i \in 1..k - 1 : s[i] = armed[i]
        /\ u \in Seq(Runs) /\ Len(u) = n - k
        /\ \A i \in 1..n - k : u[i] = armed[k + i]
    <3>1. /\ 1 \in 1..n + 1 /\ k - 1 \in 0..n /\ 1 <= (k - 1) + 1 /\ (k - 1) - 1 + 1 = k - 1
          /\ \A i \in 1..k - 1 : 1 + i - 1 = i
          /\ k + 1 \in 1..n + 1 /\ n \in 0..n /\ k + 1 <= n + 1 /\ n - (k + 1) + 1 = n - k
          /\ \A i \in 1..n - k : (k + 1) + i - 1 = k + i
      OBVIOUS
    <3>2. /\ s \in Seq(Runs) /\ Len(s) = (k - 1) - 1 + 1
          /\ \A i \in 1..(k - 1) - 1 + 1 : s[i] = armed[1 + i - 1]
      BY <3>1, Stretch
    <3>3. /\ u \in Seq(Runs) /\ Len(u) = n - (k + 1) + 1
          /\ \A i \in 1..n - (k + 1) + 1 : u[i] = armed[(k + 1) + i - 1]
      BY <3>1, Stretch
    <3> HIDE DEF s, u
    <3> QED
      BY <3>1, <3>2, <3>3
  <2> HIDE DEF s, u
  <2>5. /\ s \o u \in Seq(Runs) /\ Len(s \o u) = (k - 1) + (n - k)
        /\ \A i \in 1..(k - 1) + (n - k) : (s \o u)[i] = IF i <= k - 1 THEN s[i] ELSE u[i - (k - 1)]
    <3>1. /\ s \o u \in Seq(Runs) /\ Len(s \o u) = Len(s) + Len(u)
          /\ \A i \in 1..Len(s) + Len(u) :
               (s \o u)[i] = IF i <= Len(s) THEN s[i] ELSE u[i - Len(s)]
      BY <2>4, ConcatProperties
    <3> QED
      BY <2>4, <3>1
  <2>6. ASSUME NEW i \in DOMAIN (s \o u) PROVE \E j \in DOMAIN armed : (s \o u)[i] = armed[j]
    <3>1. i \in 1..(k - 1) + (n - k)
      BY <2>5
    <3>2. CASE i <= k - 1
      <4>1. i \in 1..k - 1 /\ i \in 1..n
        BY <3>1, <3>2
      <4> QED
        BY <2>1, <2>4, <2>5, <3>1, <3>2, <4>1
    <3>3. CASE ~(i <= k - 1)
      <4>1. i - (k - 1) \in 1..n - k /\ k + (i - (k - 1)) \in 1..n
        BY <3>1, <3>3
      <4> QED
        BY ZenonT(60), <2>1, <2>4, <2>5, <3>1, <3>3, <4>1
    <3> QED
      BY <3>2, <3>3
  <2> QED
    BY <2>3, <2>5, <2>6 DEF s, u
<1> QED
  BY <1>1, <1>2

(* An update of one entry of a table of tables.                            *)
LEMMA Update ==
  ASSUME NEW A, NEW B, NEW S, NEW f \in [A -> [B -> S]], NEW a \in A, NEW b \in B, NEW x \in S,
         NEW g, g = [f EXCEPT ![a][b] = x]
  PROVE  /\ g \in [A -> [B -> S]]
         /\ g[a][b] = x
         /\ \A p \in A, q \in B : p # a \/ q # b => g[p][q] = f[p][q]
  OBVIOUS

(* A line more is a kind more.                                             *)
LEMMA KindsAppend ==
  ASSUME NEW s \in Seq(TraceLine), NEW x \in TraceLine
  PROVE  /\ Append(s, x) \in Seq(TraceLine)
         /\ Kinds(s) = <<>> => Kinds(Append(s, x)) = <<x.kind>>
         /\ \A a : Kinds(s) = <<a>> => Kinds(Append(s, x)) = <<a, x.kind>>
         /\ \A a, b : Kinds(s) = <<a, b>> => Kinds(Append(s, x)) = <<a, b, x.kind>>
<1> PICK n \in Nat : n = Len(s)
  OBVIOUS
<1>1. /\ Append(s, x) \in Seq(TraceLine) /\ Len(Append(s, x)) = n + 1
      /\ \A i \in 1..n + 1 : Append(s, x)[i] = IF i <= n THEN s[i] ELSE x
      /\ DOMAIN s = 1..n /\ DOMAIN Append(s, x) = 1..n + 1
  BY AppendProperties
<1>2. /\ DOMAIN Kinds(s) = 1..n
      /\ \A i \in 1..n : Kinds(s)[i] = s[i].kind
      /\ Kinds(Append(s, x)) =
           [i \in 1..n + 1 |-> IF i <= n THEN Kinds(s)[i] ELSE x.kind]
  BY <1>1 DEF Kinds
<1> HIDE DEF Kinds
<1>3. ASSUME Kinds(s) = <<>> PROVE Kinds(Append(s, x)) = <<x.kind>>
  <2>1. n = 0
    BY <1>2, <1>3
  <2> QED
    BY <1>2, <2>1
<1>4. ASSUME NEW a, Kinds(s) = <<a>> PROVE Kinds(Append(s, x)) = <<a, x.kind>>
  <2>1. 1..n = 1..1
    <3>1. DOMAIN <<a>> = 1..1
      OBVIOUS
    <3> QED
      BY ONLY <3>1, <1>2, <1>4
  <2>2. n = 1
    BY <2>1
  <2> QED
    BY <1>2, <1>4, <2>2
<1>5. ASSUME NEW a, NEW b, Kinds(s) = <<a, b>> PROVE Kinds(Append(s, x)) = <<a, b, x.kind>>
  <2>1. 1..n = 1..2
    <3>1. DOMAIN <<a, b>> = 1..2
      OBVIOUS
    <3> QED
      BY ONLY <3>1, <1>2, <1>5
  <2>2. n = 2
    BY <2>1
  <2> QED
    BY <1>2, <1>5, <2>2
<1> QED
  BY <1>1, <1>3, <1>4, <1>5

LEMMA KindsEmpty == Kinds(<<>>) = <<>>
  BY DEF Kinds

-----------------------------------------------------------------------------
(* What a step of a call does, to itself and to its run: it adds a line it *)
(* had decided, decides the next one, waits or is answered, and may be     *)
(* counted.                                                                *)
Records(c, kind) ==
  pc'[c] = "append" /\ answer'[c] = answer[c] /\ writing'[c] \in TraceLine /\ writing'[c].kind = kind
Goes(c, where) == pc'[c] = where /\ answer'[c] = answer[c]
Answers(c, status) == pc'[c] = "ended" /\ answer'[c] = status
Keeps(c) == loc'[c] = loc[c]
SameCall(c) ==
  loc'[c].run = loc[c].run /\ loc'[c].tool = loc[c].tool /\ loc'[c].up = loc[c].up
SameFault(c) ==
  /\ loc'[c].spec = loc[c].spec /\ loc'[c].matched = loc[c].matched
  /\ loc'[c].called = loc[c].called /\ loc'[c].sent = loc[c].sent

Resolves(c) ==
  /\ pc[c] = "idle" /\ NoCount
  /\ \/ Keeps(c) /\ \E status \in {404, 503} : Answers(c, status)
     \/ /\ Goes(c, "body")
        /\ loc'[c].run \in known /\ loc'[c].tool \in Tools /\ loc'[c].up \in Urls \cup Servers
        /\ loc'[c].spec = NoFault /\ ~loc'[c].matched /\ ~loc'[c].called

Decides(c) ==
  /\ pc[c] \in {"body", "dispense"} /\ NoCount
  /\ \/ Keeps(c) /\ Records(c, "refused")
     \/ /\ pc[c] = "body" /\ Keeps(c) /\ Goes(c, "dispense") /\ loc[c].up \in Urls
     \/ /\ Records(c, "call")
        /\ SameCall(c) /\ SameFault(c)
        /\ loc[c].tool \in VaultTools => pc[c] = "dispense" /\ loc'[c].cred = loc[c].up

Meets(c) ==
  /\ Is(c, "call")
  /\ SameCall(c)
  /\ loc'[c].spec = FaultForCall(Under(c), loc[c].tool)
  /\ loc'[c].called /\ loc[c].up \in Urls => loc'[c].sent = Outgoing(c)
  /\ \/ /\ NoCount /\ Answers(c, 400) /\ loc[c].up \in Servers /\ ~loc'[c].matched
     \/ /\ loc'[c].matched
        /\ \/ NoCount /\ Records(c, "fault") /\ loc'[c].spec # NoFault
           \/ NoCount /\ Goes(c, "upstream") /\ loc[c].up \in Urls
           \/ NoCount /\ Goes(c, "rpc") /\ loc[c].up \in Servers
           \/ Count(c) /\ Records(c, "error")

Reports(c) ==
  /\ Keeps(c)
  /\ \/ Is(c, "refused") /\ Count(c) /\ Answers(c, 403)
     \/ Is(c, "fault") /\ NoCount /\ Records(c, "result")
     \/ Is(c, "result") /\ (IF loc[c].spec # NoFault THEN Count(c) ELSE NoCount) /\ Answers(c, 200)
     \/ Is(c, "error") /\ NoCount /\ Answers(c, 502)

Hears(c) ==
  /\ pc[c] \in {"upstream", "rpc"} /\ Keeps(c)
  /\ \/ Count(c) /\ Records(c, "error")
     \/ NoCount /\ Records(c, "fault") /\ loc[c].spec # NoFault
     \/ /\ pc[c] = "upstream" /\ Count(c) /\ loc[c].spec = NoFault
        /\ \E where \in {"reading", "relay"} : Goes(c, where)
     \/ pc[c] = "rpc" /\ Count(c) /\ Records(c, "result") /\ loc[c].spec = NoFault
     \/ pc[c] = "rpc" /\ NoCount /\ Goes(c, "rpc")
     \/ pc[c] = "rpc" /\ NoCount /\ Answers(c, 500)

Serves(c) ==
  /\ pc[c] \in {"reading", "relay"} /\ Keeps(c) /\ NoCount
  /\ Records(c, "result") \/ \E status \in {499, 500} : Answers(c, status)

Moves(c) == Resolves(c) \/ Decides(c) \/ Meets(c) \/ Reports(c) \/ Hears(c) \/ Serves(c)

(* It does so by itself.                                                   *)
Alone(c) ==
  /\ UNCHANGED <<armed, started, known, tools, sim, kpc, kloc, gpc, gloc, raced, broken>>
  /\ \A d \in Calls \ {c} : pc'[d] = pc[d] /\ loc'[d] = loc[d] /\ answer'[d] = answer[d]
  /\ \A w \in Writers \ {c} : writing'[w] = writing[w]
  /\ \A r \in Runs, w \in Writers :
       r # Under(c) \/ w # c \/ pc[c] # "append" => trace'[r][w] = trace[r][w]
  /\ pc[c] = "append" => trace'[Under(c)][c] = Append(trace[Under(c)][c], writing[c])

StepTypes ==
  /\ writing \in [Writers -> TraceLine \cup {NoLine}]
  /\ trace \in [Runs -> [Writers -> Seq(TraceLine)]]
  /\ pc \in [Calls -> {"idle", "body", "dispense", "append", "upstream", "rpc",
                       "reading", "relay", "ended"}]
  /\ answer \in [Calls -> {0, 200, 400, 403, 404, 499, 500, 502, 503}]
  /\ loc \in [Calls -> Locals]

(* A line that is decided is a line of the trace.                          *)
LEMMA RecordTypes ==
  ASSUME CallInv, NEW c \in Calls, NEW kind \in {"call", "refused", "fault", "result", "error"},
         NEW extra \in Extra, Record(c, kind, extra)
  PROVE  /\ writing' \in [Writers -> TraceLine \cup {NoLine}]
         /\ \A w \in Writers \ {c} : writing'[w] = writing[w]
         /\ writing'[c] \in TraceLine /\ writing'[c].kind = kind
<1>1. [kind |-> kind, extra |-> extra] \in TraceLine /\ c \in Writers
  BY WritersAssumption DEF TraceLine
<1> QED
  BY <1>1 DEF CallInv, RunTypes, Record

LEMMA IdleTypes ==
  ASSUME CallInv, NEW c \in Calls, Idle(c)
  PROVE  /\ writing' \in [Writers -> TraceLine \cup {NoLine}]
         /\ \A w \in Writers \ {c} : writing'[w] = writing[w]
  BY WritersAssumption DEF CallInv, RunTypes, Idle

LEMMA ExtraTypes ==
  ASSUME CallInv, NEW c \in Calls, NEW held \in BOOLEAN
  PROVE  /\ Ledger(c, held) \in Extra /\ {"none", "deny", "judged"} \subseteq Extra
         /\ \A spec \in Specs \ {NoFault} : spec.mode \in Extra
  BY DEF Ledger, Extra, Specs

(* Locals are written field by field.                                      *)
LEMMA GovernLocals ==
  ASSUME CallInv, NEW c \in Calls, NEW j \in BOOLEAN, NEW u \in Upstreams, NEW h \in CredHeaders,
         loc' = [loc EXCEPT ![c].judged = j, ![c].cred = u, ![c].header = h]
  PROVE  /\ loc' \in [Calls -> Locals] /\ \A d \in Calls \ {c} : loc'[d] = loc[d]
         /\ SameCall(c) /\ SameFault(c) /\ loc'[c].cred = u
<1> DEFINE l == [loc[c] EXCEPT !.judged = j, !.cred = u, !.header = h]
<1>1. loc \in [Calls -> Locals]
  BY DEF CallInv, CallTypes
<1>2. l \in Locals
  BY ZenonT(60), <1>1 DEF Locals
<1>3. /\ l.run = loc[c].run /\ l.tool = loc[c].tool /\ l.up = loc[c].up /\ l.spec = loc[c].spec
      /\ l.matched = loc[c].matched /\ l.called = loc[c].called /\ l.sent = loc[c].sent
      /\ l.cred = u
  BY <1>1 DEF Locals
<1>4. loc' = [loc EXCEPT ![c] = l]
  BY <1>1
<1> HIDE DEF l
<1> QED
  BY ONLY c \in Calls, <1>1, <1>2, <1>3, <1>4 DEF SameCall, SameFault

LEMMA PcTypes ==
  ASSUME CallInv, NEW c \in Calls,
         NEW p \in {"idle", "body", "dispense", "append", "upstream", "rpc", "reading", "relay", "ended"}
  PROVE  /\ Goto(c, p) =>
              /\ pc' \in [Calls -> {"idle", "body", "dispense", "append", "upstream", "rpc",
                                    "reading", "relay", "ended"}]
              /\ pc'[c] = p /\ \A d \in Calls \ {c} : pc'[d] = pc[d]
         /\ \A a \in {200, 400, 403, 404, 499, 500, 502, 503} : End(c, a) =>
              /\ pc' \in [Calls -> {"idle", "body", "dispense", "append", "upstream", "rpc",
                                    "reading", "relay", "ended"}]
              /\ answer' \in [Calls -> {0, 200, 400, 403, 404, 499, 500, 502, 503}]
              /\ Answers(c, a)
              /\ \A d \in Calls \ {c} : pc'[d] = pc[d] /\ answer'[d] = answer[d]
  BY DEF CallInv, CallTypes, Goto, End, Answers

LEMMA WrittenTypes ==
  ASSUME CallInv, NEW c \in Calls, pc[c] = "append", Written(Under(c), c)
  PROVE  /\ trace' \in [Runs -> [Writers -> Seq(TraceLine)]]
         /\ \A r \in Runs, w \in Writers : r # Under(c) \/ w # c => trace'[r][w] = trace[r][w]
         /\ trace'[Under(c)][c] = Append(trace[Under(c)][c], writing[c])
<1>1. /\ Under(c) \in Runs /\ writing[c] \in TraceLine /\ c \in Writers
      /\ trace \in [Runs -> [Writers -> Seq(TraceLine)]]
  <2>1. Under(c) # NoRun
    BY DEF CallInv, CallTypes, Taken
  <2> QED
    BY <2>1, WritersAssumption DEF CallInv, RunTypes, Taken
<1>2. Append(trace[Under(c)][c], writing[c]) \in Seq(TraceLine)
  BY <1>1
<1> QED
  BY <1>1, <1>2, Update DEF Written

(* A call is counted at the end of its tool's count; whoever had matched   *)
(* its fault and not been counted yet has been crossed.                    *)
LEMMA CountMoves ==
  ASSUME CallInv, NEW c \in Calls, Under(c) # NoRun, Count(c)
  PROVE  LET r == Under(c)
             t == loc[c].tool
         IN  /\ r \in Runs /\ t \in Tools
             /\ counted' \in [Runs -> [Tools -> Seq(Calls)]]
             /\ counted'[r][t] = Append(counted[r][t], c)
             /\ \A q \in Runs, u \in Tools : q # r \/ u # t => counted'[q][u] = counted[q][u]
             /\ crossed \subseteq crossed'
             /\ \A d \in Calls \ {c} :
                  Under(d) = r /\ loc[d].tool = t /\ loc[d].matched /\ ~IsCounted(d) => <<r, t>> \in crossed'
<1> DEFINE r == Under(c)
           t == loc[c].tool
<1>1. r \in Runs /\ t \in Tools /\ counted \in [Runs -> [Tools -> Seq(Calls)]]
  BY DEF CallInv, RunTypes, Taken
<1>2. counted' = [counted EXCEPT ![r][t] = Append(counted[r][t], c)]
  BY DEF Count, CountCall
<1>3. Append(counted[r][t], c) \in Seq(Calls)
  BY <1>1
<1> DEFINE others == {d \in Calls \ {c} : /\ loc[d].run = r
                                          /\ loc[d].tool = t
                                          /\ loc[d].matched
                                          /\ ~Contains(counted[r][t], d)}
<1>4. crossed' = IF others = {} THEN crossed ELSE crossed \cup {<<r, t>>}
  BY DEF Count
<1>5. ASSUME NEW d \in Calls \ {c}, Under(d) = r, loc[d].tool = t, loc[d].matched, ~IsCounted(d)
      PROVE  d \in others
  <2>1. DOMAIN counted[r][t] = 1..Len(counted[r][t])
    BY <1>1
  <2>2. ~Contains(counted[r][t], d)
    BY <1>5, <2>1 DEF Contains, IsCounted, Range
  <2> QED
    BY <1>5, <2>2 DEF Under
<1> HIDE DEF others
<1>6. /\ counted' \in [Runs -> [Tools -> Seq(Calls)]]
      /\ counted'[r][t] = Append(counted[r][t], c)
      /\ \A q \in Runs, u \in Tools : q # r \/ u # t => counted'[q][u] = counted[q][u]
  BY ONLY <1>1, <1>2, <1>3, Update
<1> QED
  BY <1>1, <1>4, <1>5, <1>6

LEMMA ActiveIsKnown ==
  ASSUME CallInv, NEW named
  PROVE  ActiveFor(named) # NoRun => ActiveFor(named) \in known
<1>1. armed \in Seq(Runs) /\ \A i \in DOMAIN armed : armed[i] \in known
  BY DEF CallInv, RunTypes
<1>2. IsArmed(named) => named \in known
  BY <1>1 DEF IsArmed, Contains
<1>3. armed # <<>> => Last(armed) \in known
  <2>1. armed # <<>> => Len(armed) \in DOMAIN armed
    BY <1>1
  <2> QED
    BY <1>1, <2>1 DEF Last
<1> QED
  BY <1>2, <1>3 DEF ActiveFor

LEMMA ResolveMoves ==
  ASSUME CallInv, NEW c \in Calls, Resolve(c)
  PROVE  StepTypes' /\ Alone(c) /\ Moves(c)
<1>1. /\ pc[c] = "idle" /\ NoCount
      /\ UNCHANGED <<armed, started, known, writing, trace, tools, sim, kpc, kloc, gpc, gloc, raced, broken>>
  BY DEF Resolve, runVars, otherVars, leaks, NoCount
<1>2. PICK named \in Headers(c), t \in Tools :
        LET r == ActiveFor(named) IN
        \/ (\E status \in {404, 503} : End(c, status)) /\ UNCHANGED loc
        \/ /\ r # NoRun /\ tools[t] # NoUpstream /\ Goto(c, "body")
           /\ \E body \in Bodies(tools[t]) :
                loc' = [loc EXCEPT ![c] = [NoLocals EXCEPT !.run = r, !.tool = t,
                                           !.up = tools[t], !.body = body]]
           /\ UNCHANGED answer
  BY ZenonT(60), SMTT(30) DEF Resolve
<1>3. /\ writing \in [Writers -> TraceLine \cup {NoLine}]
      /\ trace \in [Runs -> [Writers -> Seq(TraceLine)]]
      /\ loc \in [Calls -> Locals] /\ known \subseteq Runs
      /\ answer \in [Calls -> {0, 200, 400, 403, 404, 499, 500, 502, 503}]
  BY DEF CallInv, RunTypes, CallTypes
<1>4. CASE (\E status \in {404, 503} : End(c, status)) /\ UNCHANGED loc
  <2>1. /\ pc' \in [Calls -> {"idle", "body", "dispense", "append", "upstream", "rpc",
                             "reading", "relay", "ended"}]
        /\ answer' \in [Calls -> {0, 200, 400, 403, 404, 499, 500, 502, 503}]
        /\ \E status \in {404, 503} : Answers(c, status)
        /\ \A d \in Calls \ {c} : pc'[d] = pc[d] /\ answer'[d] = answer[d]
    BY <1>4, PcTypes
  <2>2. Resolves(c)
    BY <1>1, <1>4, <2>1 DEF Resolves, Keeps
  <2> QED
    BY <1>1, <1>3, <1>4, <2>1, <2>2 DEF StepTypes, Alone, Moves
<1>5. CASE /\ ActiveFor(named) # NoRun /\ tools[t] # NoUpstream /\ Goto(c, "body")
           /\ \E body \in Bodies(tools[t]) :
                loc' = [loc EXCEPT ![c] = [NoLocals EXCEPT !.run = ActiveFor(named), !.tool = t,
                                           !.up = tools[t], !.body = body]]
           /\ UNCHANGED answer
  <2> PICK r \in known : r = ActiveFor(named)
    BY <1>5, ActiveIsKnown
  <2> PICK up \in Urls \cup Servers : up = tools[t]
    BY <1>5 DEF CallInv, CallTypes, Upstreams
  <2>1. PICK body \in {"plain", "call", "notice"} :
          loc' = [loc EXCEPT ![c] = [NoLocals EXCEPT !.run = r, !.tool = t, !.up = up, !.body = body]]
    BY <1>5 DEF Bodies
  <2> PICK l : l = [NoLocals EXCEPT !.run = r, !.tool = t, !.up = up, !.body = body]
    OBVIOUS
  <2>2. /\ l \in Locals /\ l.run = r /\ l.tool = t /\ l.up = up
        /\ l.spec = NoFault /\ ~l.matched /\ ~l.called
    <3>1. r \in Runs /\ up \in Upstreams
      BY <1>3 DEF Upstreams
    <3>2. l = [run |-> r, tool |-> t, up |-> up, body |-> body, cred |-> NoUpstream,
               header |-> NoLocals.header, judged |-> FALSE, spec |-> NoFault,
               matched |-> FALSE, called |-> FALSE, sent |-> {}]
      BY DEF NoLocals
    <3> QED
      BY ONLY <3>1, <3>2, SomeHeader, t \in Tools, body \in {"plain", "call", "notice"}
         DEF Locals, Specs, Upstreams, Shown
  <2>3. loc' \in [Calls -> Locals] /\ loc'[c] = l /\ \A d \in Calls \ {c} : loc'[d] = loc[d]
    BY <1>3, <2>1, <2>2
  <2>4. /\ pc' \in [Calls -> {"idle", "body", "dispense", "append", "upstream", "rpc",
                             "reading", "relay", "ended"}]
        /\ pc'[c] = "body" /\ \A d \in Calls \ {c} : pc'[d] = pc[d]
    BY <1>5, PcTypes
  <2>5. Resolves(c)
    BY <1>1, <1>5, <2>2, <2>3, <2>4 DEF Resolves, Goes
  <2> QED
    BY <1>1, <1>3, <1>5, <2>3, <2>4, <2>5 DEF StepTypes, Alone, Moves
<1> QED
  BY ZenonT(60), <1>2, <1>4, <1>5

(* The stretches from the body to the first line.                          *)
LEMMA GovernMoves ==
  ASSUME CallInv, NEW c \in Calls, NEW u \in Upstreams, NEW h \in CredHeaders, Govern(c, u, h),
         pc[c] \in {"body", "dispense"},
         UNCHANGED <<armed, started, known, tools, sim, kpc, kloc, gpc, gloc, raced, broken,
                     counted, crossed, trace, answer>>,
         loc[c].tool \in VaultTools => pc[c] = "dispense" /\ u = loc[c].up
  PROVE  StepTypes' /\ Alone(c) /\ Moves(c)
<1>1. PICK j \in BOOLEAN : /\ Record(c, "call", IF j THEN "judged" ELSE "none")
                          /\ loc' = [loc EXCEPT ![c].judged = j, ![c].cred = u, ![c].header = h]
                          /\ Goto(c, "append")
  BY DEF Govern
<1>2. /\ writing' \in [Writers -> TraceLine \cup {NoLine}]
      /\ \A w \in Writers \ {c} : writing'[w] = writing[w]
      /\ writing'[c] \in TraceLine /\ writing'[c].kind = "call"
  BY <1>1, RecordTypes, ExtraTypes
<1>3. /\ loc' \in [Calls -> Locals] /\ \A d \in Calls \ {c} : loc'[d] = loc[d]
      /\ SameCall(c) /\ SameFault(c) /\ loc'[c].cred = u
  BY <1>1, GovernLocals
<1>4. /\ pc' \in [Calls -> {"idle", "body", "dispense", "append", "upstream", "rpc",
                           "reading", "relay", "ended"}]
      /\ pc'[c] = "append" /\ \A d \in Calls \ {c} : pc'[d] = pc[d]
  BY <1>1, PcTypes
<1>5. StepTypes'
  BY <1>2, <1>3, <1>4 DEF StepTypes, CallInv, RunTypes, CallTypes
<1>6. Alone(c)
  BY <1>2, <1>3, <1>4 DEF Alone
<1>7. Decides(c)
  BY <1>2, <1>3, <1>4 DEF Decides, Records, NoCount
<1> QED
  BY <1>5, <1>6, <1>7 DEF Moves

LEMMA RefuseMoves ==
  ASSUME CallInv, NEW c \in Calls, Refuse(c), pc[c] \in {"body", "dispense"},
         UNCHANGED <<armed, started, known, tools, sim, kpc, kloc, gpc, gloc, raced, broken,
                     counted, crossed, trace, answer>>
  PROVE  StepTypes' /\ Alone(c) /\ Moves(c)
<1>1. /\ writing' \in [Writers -> TraceLine \cup {NoLine}]
      /\ \A w \in Writers \ {c} : writing'[w] = writing[w]
      /\ writing'[c] \in TraceLine /\ writing'[c].kind = "refused"
  BY RecordTypes, ExtraTypes DEF Refuse
<1>2. /\ pc' \in [Calls -> {"idle", "body", "dispense", "append", "upstream", "rpc",
                           "reading", "relay", "ended"}]
      /\ pc'[c] = "append" /\ \A d \in Calls \ {c} : pc'[d] = pc[d]
      /\ loc' = loc
  BY PcTypes DEF Refuse
<1>3. StepTypes'
  BY <1>1, <1>2 DEF StepTypes, CallInv, RunTypes, CallTypes
<1>4. Alone(c)
  BY <1>1, <1>2 DEF Alone
<1>5. Decides(c)
  BY <1>1, <1>2 DEF Decides, Records, Keeps, NoCount
<1> QED
  BY <1>3, <1>4, <1>5 DEF Moves

LEMMA BodyMoves ==
  ASSUME CallInv, NEW c \in Calls, Body(c)
  PROVE  StepTypes' /\ Alone(c) /\ Moves(c)
<1>1. /\ pc[c] = "body"
      /\ UNCHANGED <<armed, started, known, tools, sim, kpc, kloc, gpc, gloc, raced, broken,
                     counted, crossed, trace, answer>>
  BY DEF Body, runRest, otherVars, leaks
<1>2. CASE loc[c].tool \notin VaultTools /\ Govern(c, NoUpstream, loc[c].header)
  <2>1. loc[c].header \in CredHeaders
    BY DEF CallInv, CallTypes, Locals
  <2> QED
    BY <1>1, <1>2, <2>1, GovernMoves DEF Upstreams
<1>3. CASE Refuse(c)
  BY <1>1, <1>3, RefuseMoves
<1>4. CASE loc[c].up \in Urls /\ Goto(c, "dispense") /\ UNCHANGED <<loc, writing>>
  <2>1. /\ pc' \in [Calls -> {"idle", "body", "dispense", "append", "upstream", "rpc",
                             "reading", "relay", "ended"}]
        /\ pc'[c] = "dispense" /\ \A d \in Calls \ {c} : pc'[d] = pc[d]
    BY <1>4, PcTypes
  <2>2. Decides(c)
    BY <1>1, <1>4, <2>1 DEF Decides, Keeps, Goes, NoCount
  <2>3. StepTypes' /\ Alone(c)
    BY <1>1, <1>4, <2>1 DEF StepTypes, CallInv, RunTypes, CallTypes, Alone
  <2> QED
    BY <2>2, <2>3 DEF Moves
<1> QED
  BY <1>2, <1>3, <1>4 DEF Body

LEMMA DispenseMoves ==
  ASSUME CallInv, NEW c \in Calls, Dispense(c)
  PROVE  StepTypes' /\ Alone(c) /\ Moves(c)
<1>1. /\ pc[c] = "dispense"
      /\ UNCHANGED <<armed, started, known, tools, sim, kpc, kloc, gpc, gloc, raced, broken,
                     counted, crossed, trace, answer>>
  BY DEF Dispense, runRest, otherVars, leaks
<1>2. CASE \E h \in CredHeaders : Govern(c, loc[c].up, h)
  <2>1. loc[c].up \in Upstreams
    BY DEF CallInv, CallTypes, Locals
  <2> QED
    BY <1>1, <1>2, <2>1, GovernMoves
<1>3. CASE Refuse(c)
  BY <1>1, <1>3, RefuseMoves
<1> QED
  BY <1>2, <1>3 DEF Dispense

(* A line is written: what was decided is on record, and the call goes on. *)
LEMMA CallWrittenMoves ==
  ASSUME CallInv, NEW c \in Calls, pc[c] = "append", Written(Under(c), c), CallWritten(c),
         UNCHANGED <<armed, started, known, tools, sim, kpc, kloc, gpc, gloc, raced, broken>>
  PROVE  StepTypes' /\ Alone(c) /\ Moves(c)
<1> DEFINE spec == FaultForCall(Under(c), loc[c].tool)
           up == loc[c].up
           local == spec # NoFault /\ ~NeedsUpstream(spec)
           ask == ~local /\ (up \in Servers => IsRpc(c))
           m == (up \in Servers => IsRpc(c))
           S == IF ask /\ up \in Urls THEN Outgoing(c) ELSE {}
<1>1. /\ trace' \in [Runs -> [Writers -> Seq(TraceLine)]]
      /\ \A r \in Runs, w \in Writers : r # Under(c) \/ w # c => trace'[r][w] = trace[r][w]
      /\ trace'[Under(c)][c] = Append(trace[Under(c)][c], writing[c])
  BY WrittenTypes
<1>2. /\ Under(c) \in Runs /\ loc[c].tool \in Tools /\ loc[c].up \in Urls \cup Servers
      /\ loc[c].cred \in Upstreams /\ loc[c].header \in CredHeaders /\ Is(c, "call")
  <2>1. Under(c) # NoRun
    BY DEF CallInv, Taken
  <2>2. loc[c] \in Locals /\ started \subseteq Runs
    BY DEF CallInv, RunTypes, CallTypes
  <2>3. Under(c) \in started /\ loc[c].tool \in Tools /\ loc[c].up \in Urls \cup Servers
    BY <2>1 DEF CallInv, Taken
  <2>4. loc[c].cred \in Upstreams /\ loc[c].header \in CredHeaders
    BY <2>2 DEF Locals
  <2> QED
    BY <2>2, <2>3, <2>4 DEF Is, CallWritten
<1>3. /\ spec \in Specs /\ (spec # NoFault => spec.mode \in Extra)
  BY <1>2, FirstFault
<1>4. Outgoing(c) \in Shown
  <2>1. Carries[c] \subseteq CredHeaders
    BY HeadersAssumption
  <2> QED
    BY <1>2, <2>1 DEF Outgoing, OfAgent, Shown
<1>5. loc' = [loc EXCEPT ![c].spec = spec, ![c].called = ask, ![c].sent = S, ![c].matched = m]
  BY DEF CallWritten
<1>6. /\ loc' \in [Calls -> Locals] /\ \A d \in Calls \ {c} : loc'[d] = loc[d]
      /\ SameCall(c)
      /\ loc'[c].spec = spec /\ loc'[c].called = ask /\ loc'[c].sent = S /\ loc'[c].matched = m
  <2>1. m \in BOOLEAN /\ ask \in BOOLEAN /\ S \in Shown
    BY <1>4 DEF Shown
  <2> HIDE DEF m, S, spec, ask
  <2> PICK f \in Specs : f = spec
    BY <1>3
  <2> PICK x \in BOOLEAN, b \in BOOLEAN : x = m /\ b = ask
    BY <2>1
  <2> PICK T \in Shown : T = S
    BY <2>1
  <2> PICK l : l = [loc[c] EXCEPT !.spec = f, !.called = b, !.sent = T, !.matched = x]
    OBVIOUS
  <2>2. loc \in [Calls -> Locals]
    BY DEF CallInv, CallTypes
  <2>3. loc' = [loc EXCEPT ![c] = l]
    BY ONLY c \in Calls, <1>5, <2>2, f = spec, b = ask, T = S, x = m,
            l = [loc[c] EXCEPT !.spec = f, !.called = b, !.sent = T, !.matched = x]
  <2>4. l \in Locals
    BY ONLY ZenonT(60), c \in Calls, <2>2, f \in Specs, b \in BOOLEAN, x \in BOOLEAN, T \in Shown,
            l = [loc[c] EXCEPT !.spec = f, !.called = b, !.sent = T, !.matched = x] DEF Locals
  <2>5. /\ l.run = loc[c].run /\ l.tool = loc[c].tool /\ l.up = loc[c].up
        /\ l.spec = f /\ l.called = b /\ l.sent = T /\ l.matched = x
    BY ONLY c \in Calls, <2>2, b \in BOOLEAN, x \in BOOLEAN,
            l = [loc[c] EXCEPT !.spec = f, !.called = b, !.sent = T, !.matched = x] DEF Locals
  <2> QED
    BY ONLY c \in Calls, <2>2, <2>3, <2>4, <2>5, f = spec, b = ask, T = S, x = m DEF SameCall
<1>7. loc'[c].called /\ loc[c].up \in Urls => loc'[c].sent = Outgoing(c)
  BY <1>6
<1>8. \/ ~m /\ Idle(c) /\ NoCount /\ End(c, 400) /\ up \in Servers
      \/ m /\ ApplyFault(c, spec) /\ NoCount /\ UNCHANGED answer /\ spec # NoFault
      \/ m /\ up \in Urls /\ Idle(c) /\ NoCount /\ Goto(c, "upstream") /\ UNCHANGED answer
      \/ m /\ up \in Servers /\ Idle(c) /\ NoCount /\ Goto(c, "rpc") /\ UNCHANGED answer
      \/ m /\ Record(c, "error", "none") /\ Count(c) /\ Goto(c, "append") /\ UNCHANGED answer
  <2>1. alive \subseteq Servers
    BY DEF CallInv, CallTypes
  <2> QED
    BY <2>1 DEF CallWritten
<1> HIDE DEF spec, m, S, ask
<1>9. CASE ~m /\ Idle(c) /\ NoCount /\ End(c, 400) /\ up \in Servers
  <2>1. /\ writing' \in [Writers -> TraceLine \cup {NoLine}]
        /\ \A w \in Writers \ {c} : writing'[w] = writing[w]
    BY <1>9, IdleTypes
  <2>2. /\ pc' \in [Calls -> {"idle", "body", "dispense", "append", "upstream", "rpc",
                             "reading", "relay", "ended"}]
        /\ answer' \in [Calls -> {0, 200, 400, 403, 404, 499, 500, 502, 503}]
        /\ Answers(c, 400)
        /\ \A d \in Calls \ {c} : pc'[d] = pc[d] /\ answer'[d] = answer[d]
    BY <1>9, PcTypes
  <2>3. StepTypes' /\ Alone(c)
    BY <1>1, <1>6, <2>1, <2>2 DEF StepTypes, Alone
  <2>4. Meets(c)
    BY <1>2, <1>6, <1>7, <1>9, <2>2 DEF Meets, spec
  <2> QED
    BY <2>3, <2>4 DEF Moves
<1>10. CASE /\ m
            /\ \/ up \in Urls /\ Goto(c, "upstream")
               \/ up \in Servers /\ Goto(c, "rpc")
            /\ Idle(c) /\ NoCount /\ UNCHANGED answer
  <2>1. /\ writing' \in [Writers -> TraceLine \cup {NoLine}]
        /\ \A w \in Writers \ {c} : writing'[w] = writing[w]
    BY <1>10, IdleTypes
  <2>2. /\ pc' \in [Calls -> {"idle", "body", "dispense", "append", "upstream", "rpc",
                             "reading", "relay", "ended"}]
        /\ (up \in Urls /\ pc'[c] = "upstream") \/ (up \in Servers /\ pc'[c] = "rpc")
        /\ \A d \in Calls \ {c} : pc'[d] = pc[d]
    BY <1>10, PcTypes
  <2>3. answer' \in [Calls -> {0, 200, 400, 403, 404, 499, 500, 502, 503}]
    BY <1>10 DEF CallInv, CallTypes
  <2>4. StepTypes' /\ Alone(c)
    BY <1>1, <1>6, <1>10, <2>1, <2>2, <2>3 DEF StepTypes, Alone
  <2>5. Meets(c)
    BY <1>2, <1>6, <1>7, <1>10, <2>2 DEF Meets, Goes, spec
  <2> QED
    BY <2>4, <2>5 DEF Moves
<1>11. CASE /\ m
            /\ \/ ApplyFault(c, spec) /\ NoCount /\ spec # NoFault
               \/ Record(c, "error", "none") /\ Count(c) /\ Goto(c, "append")
            /\ UNCHANGED answer
  <2>1. /\ writing' \in [Writers -> TraceLine \cup {NoLine}]
        /\ \A w \in Writers \ {c} : writing'[w] = writing[w]
        /\ writing'[c] \in TraceLine
        /\ \/ writing'[c].kind = "fault" /\ NoCount /\ spec # NoFault
           \/ writing'[c].kind = "error" /\ Count(c)
    BY <1>3, <1>11, RecordTypes, ExtraTypes DEF ApplyFault
  <2>2. /\ pc' \in [Calls -> {"idle", "body", "dispense", "append", "upstream", "rpc",
                             "reading", "relay", "ended"}]
        /\ pc'[c] = "append" /\ \A d \in Calls \ {c} : pc'[d] = pc[d]
    BY <1>11, PcTypes DEF ApplyFault
  <2>3. answer' \in [Calls -> {0, 200, 400, 403, 404, 499, 500, 502, 503}]
    BY <1>11 DEF CallInv, CallTypes
  <2>4. StepTypes' /\ Alone(c)
    BY <1>1, <1>6, <1>11, <2>1, <2>2, <2>3 DEF StepTypes, Alone
  <2>5. Meets(c)
    BY <1>2, <1>6, <1>7, <1>11, <2>1, <2>2 DEF Meets, Records, spec
  <2> QED
    BY <2>4, <2>5 DEF Moves
<1> QED
  BY ONLY <1>8, <1>9, <1>10, <1>11

LEMMA LineWrittenMoves ==
  ASSUME CallInv, NEW c \in Calls, LineWritten(c)
  PROVE  StepTypes' /\ Alone(c) /\ Moves(c)
<1>1. /\ pc[c] = "append" /\ Written(Under(c), c)
      /\ UNCHANGED <<armed, started, known, tools, sim, kpc, kloc, gpc, gloc, raced, broken>>
  BY DEF LineWritten, runRest, otherVars, leaks
<1>2. /\ trace' \in [Runs -> [Writers -> Seq(TraceLine)]]
      /\ \A r \in Runs, w \in Writers : r # Under(c) \/ w # c => trace'[r][w] = trace[r][w]
      /\ trace'[Under(c)][c] = Append(trace[Under(c)][c], writing[c])
  BY <1>1, WrittenTypes
<1>3. CASE CallWritten(c)
  BY <1>1, <1>3, CallWrittenMoves
<1>4. CASE FaultWritten(c)
  <2>1. /\ writing' \in [Writers -> TraceLine \cup {NoLine}]
        /\ \A w \in Writers \ {c} : writing'[w] = writing[w]
        /\ writing'[c] \in TraceLine /\ writing'[c].kind = "result"
    BY <1>4, RecordTypes, ExtraTypes DEF FaultWritten
  <2>2. UNCHANGED <<pc, loc, answer>> /\ NoCount /\ Is(c, "fault")
    BY <1>1, <1>4 DEF FaultWritten, Is
  <2>3. StepTypes' /\ Alone(c)
    BY <1>1, <1>2, <2>1, <2>2 DEF StepTypes, Alone, CallInv, CallTypes
  <2>4. Reports(c)
    BY <1>1, <2>1, <2>2 DEF Reports, Records, Keeps
  <2> QED
    BY <2>3, <2>4 DEF Moves
<1>5. CASE RefusedWritten(c) \/ ResultWritten(c) \/ ErrorWritten(c)
  <2>1. /\ Idle(c) /\ loc' = loc
        /\ \/ Is(c, "refused") /\ Count(c) /\ End(c, 403)
           \/ Is(c, "result") /\ (IF loc[c].spec # NoFault THEN Count(c) ELSE NoCount) /\ End(c, 200)
           \/ Is(c, "error") /\ NoCount /\ End(c, 502)
    BY <1>1, <1>5 DEF RefusedWritten, ResultWritten, ErrorWritten, Is
  <2>2. /\ writing' \in [Writers -> TraceLine \cup {NoLine}]
        /\ \A w \in Writers \ {c} : writing'[w] = writing[w]
    BY <2>1, IdleTypes
  <2>3. /\ pc' \in [Calls -> {"idle", "body", "dispense", "append", "upstream", "rpc",
                             "reading", "relay", "ended"}]
        /\ answer' \in [Calls -> {0, 200, 400, 403, 404, 499, 500, 502, 503}]
        /\ \A d \in Calls \ {c} : pc'[d] = pc[d] /\ answer'[d] = answer[d]
        /\ \/ Is(c, "refused") /\ Count(c) /\ Answers(c, 403)
           \/ Is(c, "result") /\ (IF loc[c].spec # NoFault THEN Count(c) ELSE NoCount) /\ Answers(c, 200)
           \/ Is(c, "error") /\ NoCount /\ Answers(c, 502)
    BY <2>1, PcTypes
  <2>4. StepTypes' /\ Alone(c)
    BY <1>1, <1>2, <2>1, <2>2, <2>3 DEF StepTypes, Alone, CallInv, CallTypes
  <2>5. Reports(c)
    BY <2>1, <2>3 DEF Reports, Keeps
  <2> QED
    BY <2>4, <2>5 DEF Moves
<1> QED
  BY <1>3, <1>4, <1>5 DEF LineWritten

(* The upstream's answer, and what it leads to.                            *)
LEMMA HeardTypes ==
  ASSUME CallInv, NEW c \in Calls, pc[c] \in {"upstream", "rpc"},
         UNCHANGED <<armed, started, known, tools, sim, kpc, kloc, gpc, gloc, raced, broken, trace, loc>>,
         /\ writing' \in [Writers -> TraceLine \cup {NoLine}]
         /\ \A w \in Writers \ {c} : writing'[w] = writing[w],
         /\ pc' \in [Calls -> {"idle", "body", "dispense", "append", "upstream", "rpc",
                              "reading", "relay", "ended"}]
         /\ answer' \in [Calls -> {0, 200, 400, 403, 404, 499, 500, 502, 503}]
         /\ \A d \in Calls \ {c} : pc'[d] = pc[d] /\ answer'[d] = answer[d],
         \/ Count(c) /\ Records(c, "error")
         \/ NoCount /\ Records(c, "fault") /\ loc[c].spec # NoFault
         \/ /\ pc[c] = "upstream" /\ Count(c) /\ loc[c].spec = NoFault
            /\ \E where \in {"reading", "relay"} : Goes(c, where)
         \/ pc[c] = "rpc" /\ Count(c) /\ Records(c, "result") /\ loc[c].spec = NoFault
         \/ pc[c] = "rpc" /\ NoCount /\ Goes(c, "rpc")
         \/ pc[c] = "rpc" /\ NoCount /\ Answers(c, 500)
  PROVE  StepTypes' /\ Alone(c) /\ Moves(c)
<1>1. StepTypes'
  BY DEF StepTypes, CallInv, RunTypes, CallTypes
<1>2. Alone(c)
  BY DEF Alone
<1>3. Hears(c)
  BY DEF Hears, Keeps
<1> QED
  BY <1>1, <1>2, <1>3 DEF Moves

LEMMA AnswerMoves ==
  ASSUME CallInv, NEW c \in Calls, answer' = answer
  PROVE  /\ Failed(c) =>
              /\ writing' \in [Writers -> TraceLine \cup {NoLine}]
              /\ \A w \in Writers \ {c} : writing'[w] = writing[w]
              /\ pc' \in [Calls -> {"idle", "body", "dispense", "append", "upstream", "rpc",
                                   "reading", "relay", "ended"}]
              /\ \A d \in Calls \ {c} : pc'[d] = pc[d]
              /\ Count(c) /\ Records(c, "error")
         /\ AnsweredUnderFault(c) =>
              /\ writing' \in [Writers -> TraceLine \cup {NoLine}]
              /\ \A w \in Writers \ {c} : writing'[w] = writing[w]
              /\ pc' \in [Calls -> {"idle", "body", "dispense", "append", "upstream", "rpc",
                                   "reading", "relay", "ended"}]
              /\ \A d \in Calls \ {c} : pc'[d] = pc[d]
              /\ NoCount /\ Records(c, "fault") /\ loc[c].spec # NoFault
         /\ \A held \in BOOLEAN : Record(c, "result", Ledger(c, held)) /\ Goto(c, "append") =>
              /\ writing' \in [Writers -> TraceLine \cup {NoLine}]
              /\ \A w \in Writers \ {c} : writing'[w] = writing[w]
              /\ pc' \in [Calls -> {"idle", "body", "dispense", "append", "upstream", "rpc",
                                   "reading", "relay", "ended"}]
              /\ \A d \in Calls \ {c} : pc'[d] = pc[d]
              /\ Records(c, "result")
<1>1. ASSUME Failed(c)
      PROVE  /\ writing' \in [Writers -> TraceLine \cup {NoLine}]
             /\ \A w \in Writers \ {c} : writing'[w] = writing[w]
             /\ pc' \in [Calls -> {"idle", "body", "dispense", "append", "upstream", "rpc",
                                  "reading", "relay", "ended"}]
             /\ \A d \in Calls \ {c} : pc'[d] = pc[d]
             /\ Count(c) /\ Records(c, "error")
  <2>1. "none" \in Extra
    BY DEF Extra
  <2>2. Record(c, "error", "none") /\ Count(c) /\ Goto(c, "append")
    BY <1>1 DEF Failed
  <2>3. /\ writing' \in [Writers -> TraceLine \cup {NoLine}]
        /\ \A w \in Writers \ {c} : writing'[w] = writing[w]
        /\ writing'[c] \in TraceLine /\ writing'[c].kind = "error"
    BY <2>1, <2>2, RecordTypes
  <2>4. /\ pc' \in [Calls -> {"idle", "body", "dispense", "append", "upstream", "rpc",
                             "reading", "relay", "ended"}]
        /\ pc'[c] = "append" /\ \A d \in Calls \ {c} : pc'[d] = pc[d]
    BY <2>2, PcTypes
  <2> QED
    BY <2>2, <2>3, <2>4 DEF Records
<1>2. ASSUME AnsweredUnderFault(c)
      PROVE  /\ writing' \in [Writers -> TraceLine \cup {NoLine}]
             /\ \A w \in Writers \ {c} : writing'[w] = writing[w]
             /\ pc' \in [Calls -> {"idle", "body", "dispense", "append", "upstream", "rpc",
                                  "reading", "relay", "ended"}]
             /\ \A d \in Calls \ {c} : pc'[d] = pc[d]
             /\ NoCount /\ Records(c, "fault") /\ loc[c].spec # NoFault
  <2>1. loc[c].spec \in Specs \ {NoFault} /\ loc[c].spec.mode \in Extra
    <3>1. loc[c].spec \in Specs
      BY DEF CallInv, CallTypes, Locals
    <3> QED
      BY <1>2, <3>1, ExtraTypes DEF AnsweredUnderFault
  <2> QED
    BY <1>2, <2>1, RecordTypes, PcTypes DEF AnsweredUnderFault, ApplyFault, Records
<1>3. ASSUME NEW held \in BOOLEAN, Record(c, "result", Ledger(c, held)), Goto(c, "append")
      PROVE  /\ writing' \in [Writers -> TraceLine \cup {NoLine}]
             /\ \A w \in Writers \ {c} : writing'[w] = writing[w]
             /\ pc' \in [Calls -> {"idle", "body", "dispense", "append", "upstream", "rpc",
                                  "reading", "relay", "ended"}]
             /\ \A d \in Calls \ {c} : pc'[d] = pc[d]
             /\ Records(c, "result")
  BY <1>3, RecordTypes, ExtraTypes, PcTypes DEF Records
<1> QED
  BY <1>1, <1>2, <1>3


LEMMA UpstreamMoves ==
  ASSUME CallInv, NEW c \in Calls, Upstream(c)
  PROVE  StepTypes' /\ Alone(c) /\ Moves(c)
<1>1. /\ pc[c] = "upstream" /\ answer' = answer
      /\ UNCHANGED <<armed, started, known, tools, sim, kpc, kloc, gpc, gloc, raced, broken, trace, loc>>
  BY DEF Upstream, runRest, otherVars, leaks
<1>2. answer' \in [Calls -> {0, 200, 400, 403, 404, 499, 500, 502, 503}]
  BY <1>1 DEF CallInv, CallTypes
<1>3. CASE Failed(c)
  <2>1. /\ writing' \in [Writers -> TraceLine \cup {NoLine}]
        /\ \A w \in Writers \ {c} : writing'[w] = writing[w]
        /\ pc' \in [Calls -> {"idle", "body", "dispense", "append", "upstream", "rpc",
                             "reading", "relay", "ended"}]
        /\ \A d \in Calls \ {c} : pc'[d] = pc[d]
        /\ Count(c) /\ Records(c, "error")
    BY <1>1, <1>3, AnswerMoves
  <2> QED
    BY <1>1, <1>2, <2>1, HeardTypes
<1>4. CASE AnsweredUnderFault(c)
  <2>1. /\ writing' \in [Writers -> TraceLine \cup {NoLine}]
        /\ \A w \in Writers \ {c} : writing'[w] = writing[w]
        /\ pc' \in [Calls -> {"idle", "body", "dispense", "append", "upstream", "rpc",
                             "reading", "relay", "ended"}]
        /\ \A d \in Calls \ {c} : pc'[d] = pc[d]
        /\ NoCount /\ Records(c, "fault") /\ loc[c].spec # NoFault
    BY <1>1, <1>4, AnswerMoves
  <2> QED
    BY <1>1, <1>2, <2>1, HeardTypes
<1>5. CASE /\ loc[c].spec = NoFault /\ Count(c) /\ writing' = writing
           /\ \E next \in {"reading", "relay"} : Goto(c, next)
  <2>1. /\ pc' \in [Calls -> {"idle", "body", "dispense", "append", "upstream", "rpc",
                             "reading", "relay", "ended"}]
        /\ \A d \in Calls \ {c} : pc'[d] = pc[d]
        /\ \E where \in {"reading", "relay"} : Goes(c, where)
    BY <1>1, <1>5, PcTypes DEF Goes
  <2>2. /\ writing' \in [Writers -> TraceLine \cup {NoLine}]
        /\ \A w \in Writers \ {c} : writing'[w] = writing[w]
    BY <1>5 DEF CallInv, RunTypes
  <2> QED
    BY <1>1, <1>2, <1>5, <2>1, <2>2, HeardTypes
<1>6. \/ Failed(c) \/ AnsweredUnderFault(c)
      \/ /\ loc[c].spec = NoFault /\ Count(c) /\ writing' = writing
         /\ \E next \in {"reading", "relay"} : Goto(c, next)
  BY DEF Upstream
<1> QED
  BY <1>3, <1>4, <1>5, <1>6

LEMMA ServeMoves ==
  ASSUME CallInv, NEW c \in Calls, ReadBody(c) \/ Relay(c)
  PROVE  StepTypes' /\ Alone(c) /\ Moves(c)
<1>1. /\ pc[c] \in {"reading", "relay"} /\ NoCount
      /\ UNCHANGED <<armed, started, known, tools, sim, kpc, kloc, gpc, gloc, raced, broken, trace, loc>>
      /\ \/ /\ \E held \in BOOLEAN : Record(c, "result", Ledger(c, held))
            /\ Goto(c, "append") /\ answer' = answer
         \/ (\E status \in {499, 500} : End(c, status)) /\ writing' = writing
  BY ZenonT(60), SMTT(30) DEF ReadBody, Relay, NoCount, runRest, otherVars, leaks
<1>2. CASE /\ \E held \in BOOLEAN : Record(c, "result", Ledger(c, held))
           /\ Goto(c, "append") /\ answer' = answer
  <2>1. /\ writing' \in [Writers -> TraceLine \cup {NoLine}]
        /\ \A w \in Writers \ {c} : writing'[w] = writing[w]
        /\ pc' \in [Calls -> {"idle", "body", "dispense", "append", "upstream", "rpc",
                             "reading", "relay", "ended"}]
        /\ \A d \in Calls \ {c} : pc'[d] = pc[d]
        /\ Records(c, "result")
    BY <1>2, AnswerMoves
  <2>2. StepTypes' /\ Alone(c)
    BY <1>1, <1>2, <2>1 DEF StepTypes, Alone, CallInv, RunTypes, CallTypes
  <2> QED
    BY <1>1, <2>1, <2>2 DEF Serves, Keeps, Moves
<1>3. CASE (\E status \in {499, 500} : End(c, status)) /\ writing' = writing
  <2>1. /\ pc' \in [Calls -> {"idle", "body", "dispense", "append", "upstream", "rpc",
                             "reading", "relay", "ended"}]
        /\ answer' \in [Calls -> {0, 200, 400, 403, 404, 499, 500, 502, 503}]
        /\ \E status \in {499, 500} : Answers(c, status)
        /\ \A d \in Calls \ {c} : pc'[d] = pc[d] /\ answer'[d] = answer[d]
    BY <1>3, PcTypes
  <2>2. StepTypes' /\ Alone(c)
    BY <1>1, <1>3, <2>1 DEF StepTypes, Alone, CallInv, RunTypes, CallTypes
  <2> QED
    BY <1>1, <2>1, <2>2 DEF Serves, Keeps, Moves
<1> QED
  BY <1>1, <1>2, <1>3

(* A caller of a stdio server waits, or has its answer.                    *)
LEMMA WaitMoves ==
  ASSUME CallInv, NEW c \in Calls, pc[c] = "rpc",
         UNCHANGED <<armed, started, known, tools, sim, kpc, kloc, gpc, gloc, raced, broken, trace, loc>>,
         UNCHANGED <<writing, counted, crossed, pc, answer>>
  PROVE  StepTypes' /\ Alone(c) /\ Moves(c)
<1>1. /\ writing \in [Writers -> TraceLine \cup {NoLine}]
      /\ pc \in [Calls -> {"idle", "body", "dispense", "append", "upstream", "rpc",
                           "reading", "relay", "ended"}]
      /\ answer \in [Calls -> {0, 200, 400, 403, 404, 499, 500, 502, 503}]
  BY DEF CallInv, RunTypes, CallTypes
<1>2. NoCount /\ Goes(c, "rpc")
  BY DEF NoCount, Goes
<1> QED
  BY <1>1, <1>2, HeardTypes

LEMMA StdioMoves ==
  ASSUME CallInv, NEW c \in Calls, pc[c] = "rpc", StdioAnswered(c), answer' = answer,
         UNCHANGED <<armed, started, known, tools, sim, kpc, kloc, gpc, gloc, raced, broken, trace, loc>>
  PROVE  StepTypes' /\ Alone(c) /\ Moves(c)
<1>1. answer' \in [Calls -> {0, 200, 400, 403, 404, 499, 500, 502, 503}]
  BY DEF CallInv, CallTypes
<1>2. CASE AnsweredUnderFault(c)
  <2>1. /\ writing' \in [Writers -> TraceLine \cup {NoLine}]
        /\ \A w \in Writers \ {c} : writing'[w] = writing[w]
        /\ pc' \in [Calls -> {"idle", "body", "dispense", "append", "upstream", "rpc",
                             "reading", "relay", "ended"}]
        /\ \A d \in Calls \ {c} : pc'[d] = pc[d]
        /\ NoCount /\ Records(c, "fault") /\ loc[c].spec # NoFault
    BY <1>2, AnswerMoves
  <2> QED
    BY <1>1, <1>2, <2>1, HeardTypes
<1>3. CASE /\ loc[c].spec = NoFault /\ Count(c) /\ Record(c, "result", Ledger(c, TRUE))
           /\ Goto(c, "append")
  <2>1. /\ writing' \in [Writers -> TraceLine \cup {NoLine}]
        /\ \A w \in Writers \ {c} : writing'[w] = writing[w]
        /\ pc' \in [Calls -> {"idle", "body", "dispense", "append", "upstream", "rpc",
                             "reading", "relay", "ended"}]
        /\ \A d \in Calls \ {c} : pc'[d] = pc[d]
        /\ Records(c, "result")
    BY <1>3, AnswerMoves
  <2> QED
    BY <1>1, <1>3, <2>1, HeardTypes
<1> QED
  BY <1>2, <1>3 DEF StdioAnswered

LEMMA RpcMoves ==
  ASSUME CallInv, NEW c \in Calls, Rpc(c)
  PROVE  StepTypes' /\ Alone(c) /\ Moves(c)
<1>1. /\ pc[c] = "rpc"
      /\ UNCHANGED <<armed, started, known, tools, sim, kpc, kloc, gpc, gloc, raced, broken, trace, loc>>
      /\ \/ UNCHANGED <<writing, counted, crossed, pc, answer>>
         \/ StdioAnswered(c) /\ answer' = answer
         \/ Failed(c) /\ answer' = answer
         \/ End(c, 500) /\ NoCount /\ writing' = writing
  BY DEF Rpc, runRest, otherVars, leaks
<1>2. /\ writing \in [Writers -> TraceLine \cup {NoLine}]
      /\ pc \in [Calls -> {"idle", "body", "dispense", "append", "upstream", "rpc",
                           "reading", "relay", "ended"}]
      /\ answer \in [Calls -> {0, 200, 400, 403, 404, 499, 500, 502, 503}]
  BY DEF CallInv, RunTypes, CallTypes
<1>3. CASE UNCHANGED <<writing, counted, crossed, pc, answer>>
  BY <1>1, <1>3, WaitMoves
<1>4. CASE Failed(c) /\ answer' = answer
  <2>1. /\ writing' \in [Writers -> TraceLine \cup {NoLine}]
        /\ \A w \in Writers \ {c} : writing'[w] = writing[w]
        /\ pc' \in [Calls -> {"idle", "body", "dispense", "append", "upstream", "rpc",
                             "reading", "relay", "ended"}]
        /\ \A d \in Calls \ {c} : pc'[d] = pc[d]
        /\ Count(c) /\ Records(c, "error")
    BY <1>4, AnswerMoves
  <2> QED
    BY <1>1, <1>2, <1>4, <2>1, HeardTypes
<1>5. CASE StdioAnswered(c) /\ answer' = answer
  BY <1>1, <1>5, StdioMoves
<1>6. CASE End(c, 500) /\ NoCount /\ writing' = writing
  <2>1. /\ pc' \in [Calls -> {"idle", "body", "dispense", "append", "upstream", "rpc",
                             "reading", "relay", "ended"}]
        /\ answer' \in [Calls -> {0, 200, 400, 403, 404, 499, 500, 502, 503}]
        /\ Answers(c, 500)
        /\ \A d \in Calls \ {c} : pc'[d] = pc[d] /\ answer'[d] = answer[d]
    BY <1>6, PcTypes
  <2> QED
    BY <1>1, <1>2, <1>6, <2>1, HeardTypes
<1> QED
  BY <1>1, <1>3, <1>4, <1>5, <1>6

LEMMA DrainedMoves ==
  ASSUME CallInv, NEW c \in Calls, Drained(c)
  PROVE  StepTypes' /\ Alone(c) /\ Moves(c)
<1>1. /\ pc[c] = "rpc" /\ answer' = answer
      /\ UNCHANGED <<armed, started, known, tools, sim, kpc, kloc, gpc, gloc, raced, broken, trace, loc>>
      /\ UNCHANGED <<writing, counted, crossed, pc>> \/ StdioAnswered(c)
  BY DEF Drained, runRest, otherVars, leaks
<1>2. CASE UNCHANGED <<writing, counted, crossed, pc>>
  <2>1. UNCHANGED <<writing, counted, crossed, pc, answer>>
    BY <1>1, <1>2
  <2> QED
    BY ONLY CallInv, c \in Calls, <1>1, <2>1, WaitMoves
<1>3. CASE StdioAnswered(c)
  BY ONLY CallInv, c \in Calls, <1>1, <1>3, StdioMoves
<1> QED
  BY <1>1, <1>2, <1>3

(* Every step of a call is one of these moves, and its own alone; no call  *)
(* starts a process or stops one.                                          *)
Acts(c) == CallStep(c) \/ Drained(c)

LEMMA CallMoves ==
  ASSUME CallInv, NEW c \in Calls, Acts(c)
  PROVE  StepTypes' /\ Alone(c) /\ Moves(c) /\ alive' = alive
<1>1. StepTypes' /\ Alone(c) /\ Moves(c)
  BY ResolveMoves, BodyMoves, DispenseMoves, LineWrittenMoves, UpstreamMoves, ServeMoves,
     RpcMoves, DrainedMoves DEF Acts, CallStep
<1>2. ASSUME LineWritten(c) PROVE alive' = alive
  <2>1. CASE UNCHANGED serverVars
    BY <2>1 DEF serverVars
  <2>2. CASE Stdio!Enqueue(c, loc[c].up)
    BY <2>2 DEF Stdio!Enqueue
  <2>3. CASE CallWritten(c)
    BY <2>1, <2>2, <2>3 DEF CallWritten
  <2>4. CASE RefusedWritten(c) \/ FaultWritten(c) \/ ResultWritten(c) \/ ErrorWritten(c)
    BY <2>4 DEF RefusedWritten, FaultWritten, ResultWritten, ErrorWritten, serverVars
  <2> QED
    BY <1>2, <2>3, <2>4 DEF LineWritten
<1>3. ASSUME Rpc(c) \/ Drained(c) PROVE alive' = alive
  <2> DEFINE s == loc[c].up
  <2>1. \/ \E due : Stdio!WriteLine(c, s, due)
        \/ Stdio!SkipAnswer(c, s) \/ Stdio!Drain(c, s) \/ Stdio!Notify(c, s)
        \/ Stdio!ReadAnswer(c, s) \/ Stdio!GiveUp(c, s) \/ Stdio!Break(c, s)
    BY <1>3 DEF Rpc, Drained, Stdio!WriteRequest, Stdio!WriteNotice
  <2> QED
    BY <2>1 DEF Stdio!WriteLine, Stdio!SkipAnswer, Stdio!Drain, Stdio!Notify, Stdio!ReadAnswer,
                Stdio!GiveUp, Stdio!Break
<1>4. ASSUME Resolve(c) \/ Body(c) \/ Dispense(c) \/ Upstream(c) \/ ReadBody(c) \/ Relay(c)
      PROVE  alive' = alive
  BY <1>4 DEF Resolve, Body, Dispense, Upstream, ReadBody, Relay, serverVars
<1> QED
  BY <1>1, <1>2, <1>3, <1>4 DEF Acts, CallStep

(* A call that moves is not answered yet; it was taken already, or is now. *)
LEMMA Movers ==
  ASSUME CallInv, NEW c \in Calls, Moves(c)
  PROVE  /\ pc[c] # "ended"
         /\ Resolves(c) => Under(c) = NoRun
         /\ ~Resolves(c) => Under(c) \in Runs /\ loc[c].tool \in Tools /\ SameCall(c)
         /\ NoCount \/ (Count(c) /\ Under(c) # NoRun)
<1>1. /\ Under(c) \in Runs \cup {NoRun}
      /\ Under(c) # NoRun => pc[c] # "idle" /\ loc[c].tool \in Tools
      /\ Under(c) = NoRun => pc[c] = "idle" \/ pc[c] = "ended"
  BY DEF CallInv, CallTypes, Taken, Locals, Under
<1>2. Resolves(c) => pc[c] # "ended" /\ Under(c) = NoRun /\ NoCount
  BY <1>1 DEF Resolves
<1>3. CASE Decides(c)
  BY <1>1, <1>2, <1>3 DEF Decides, Keeps, SameCall
<1>4. CASE Meets(c)
  BY <1>1, <1>2, <1>4 DEF Meets, Is
<1>5. CASE Reports(c)
  BY <1>1, <1>2, <1>5 DEF Reports, Is, Keeps, SameCall
<1>6. CASE Hears(c)
  BY <1>1, <1>2, <1>6 DEF Hears, Keeps, SameCall
<1>7. CASE Serves(c)
  BY <1>1, <1>2, <1>7 DEF Serves, Keeps, SameCall
<1> QED
  BY <1>2, <1>3, <1>4, <1>5, <1>6, <1>7 DEF Moves

(* The stages of a call: it is taken when its run is known, and so on.     *)
LEMMA MoverIsTaken ==
  ASSUME CallInv, NEW c \in Calls, StepTypes', Alone(c), Moves(c)
  PROVE  /\ pc'[c] # "idle"
         /\ loc'[c].run = NoRun => loc'[c] = NoLocals /\ pc'[c] = "ended" /\ answer'[c] \in {404, 503}
         /\ loc'[c].run # NoRun =>
              /\ loc'[c].run \in known /\ loc'[c].tool \in Tools /\ loc'[c].up \in Urls \cup Servers
              /\ pc'[c] = "append" => writing'[c] \in TraceLine /\ writing'[c].kind # "claim"
              /\ pc'[c] \in {"upstream", "reading", "relay"} => loc'[c].up \in Urls
              /\ pc'[c] = "rpc" => loc'[c].up \in Servers
<1>1. /\ Under(c) = NoRun => loc[c] = NoLocals
      /\ Under(c) # NoRun =>
           /\ loc[c].tool \in Tools /\ loc[c].up \in Urls \cup Servers
           /\ pc[c] # "ended" => Under(c) \in known
           /\ pc[c] \in {"upstream", "reading", "relay"} => loc[c].up \in Urls
           /\ pc[c] = "rpc" => loc[c].up \in Servers
  BY DEF CallInv, Taken
<1>2. NoRun \notin Runs /\ known \subseteq Runs
  BY FaultsAssumption DEF CallInv, RunTypes
<1>3. CASE Resolves(c)
  <2>1. Under(c) = NoRun
    BY <1>3, Movers
  <2> QED
    BY <1>1, <1>2, <1>3, <2>1 DEF Resolves, Keeps, Answers, Goes, Under
<1>4. CASE ~Resolves(c)
  <2>1. Under(c) \in Runs /\ SameCall(c) /\ pc[c] # "ended"
    BY <1>4, Movers
  <2>2. /\ loc'[c].run \in known /\ loc'[c].tool \in Tools /\ loc'[c].up \in Urls \cup Servers
        /\ loc'[c].run # NoRun
    BY <1>1, <1>2, <2>1 DEF SameCall, Under
  <2>3. /\ pc'[c] # "idle"
        /\ pc'[c] = "append" => writing'[c] \in TraceLine /\ writing'[c].kind # "claim"
        /\ pc'[c] \in {"upstream", "reading", "relay"} => loc[c].up \in Urls
        /\ pc'[c] = "rpc" => loc[c].up \in Servers
    <3>1. CASE Decides(c)
      BY <3>1 DEF Decides, Records, Goes
    <3>2. CASE Meets(c)
      BY <3>2 DEF Meets, Records, Goes, Answers
    <3>3. CASE Reports(c)
      BY <3>3 DEF Reports, Records, Answers
    <3>4. CASE Hears(c)
      BY <1>1, <1>2, <2>1, <3>4 DEF Hears, Records, Goes, Answers
    <3>5. CASE Serves(c)
      BY <3>5 DEF Serves, Records, Answers
    <3> QED
      BY <1>4, <3>1, <3>2, <3>3, <3>4, <3>5 DEF Moves
  <2> QED
    BY <2>1, <2>2, <2>3 DEF SameCall
<1> QED
  BY <1>3, <1>4

LEMMA CallKeepsTaken ==
  ASSUME CallInv, NEW c \in Calls, StepTypes', Alone(c), Moves(c), alive' = alive
  PROVE  CallInv'
<1>1. counted' \in [Runs -> [Tools -> Seq(Calls)]]
  <2>1. CASE NoCount
    BY <2>1 DEF NoCount, CallInv, RunTypes
  <2>2. CASE Count(c) /\ Under(c) # NoRun
    BY <2>2, CountMoves
  <2> QED
    BY <2>1, <2>2, Movers
<1>2. RunTypes'
  BY <1>1 DEF RunTypes, CallInv, Alone, StepTypes
<1>3. CallTypes'
  BY DEF CallTypes, CallInv, Alone, StepTypes
<1>4. ASSUME NEW d \in Calls
      PROVE  /\ pc'[d] = "idle" => answer'[d] = 0
             /\ loc'[d].run = NoRun =>
                  /\ loc'[d] = NoLocals
                  /\ pc'[d] = "idle" \/ (pc'[d] = "ended" /\ answer'[d] \in {404, 503})
             /\ loc'[d].run # NoRun =>
                  /\ pc'[d] # "idle" /\ loc'[d].run \in started' /\ loc'[d].tool \in Tools
                  /\ loc'[d].up \in Urls \cup Servers
                  /\ pc'[d] # "ended" => loc'[d].run \in known'
                  /\ pc'[d] = "append" => writing'[d] \in TraceLine /\ writing'[d].kind # "claim"
                  /\ pc'[d] \in {"upstream", "reading", "relay"} => loc'[d].up \in Urls
                  /\ pc'[d] = "rpc" => loc'[d].up \in Servers
  <2>1. known' = known /\ started' = started /\ known \subseteq started
    BY DEF Alone, CallInv, RunTypes
  <2>2. CASE d = c
    BY <2>1, <2>2, MoverIsTaken
  <2>3. CASE d # c
    <3>1. pc'[d] = pc[d] /\ loc'[d] = loc[d] /\ answer'[d] = answer[d] /\ writing'[d] = writing[d]
      BY <2>3, WritersAssumption DEF Alone
    <3> QED
      BY <2>1, <3>1 DEF CallInv, Taken, Under
  <2> QED
    BY <2>2, <2>3
<1>5. Taken'
  BY <1>4 DEF Taken, Under
<1> QED
  BY <1>2, <1>3, <1>5 DEF CallInv

-----------------------------------------------------------------------------
(* The trace and the count.                                                *)

LEMMA CountOneMore ==
  ASSUME NEW s \in Seq(Calls), NEW c \in Calls
  PROVE  /\ Range(Append(s, c)) = Range(s) \cup {c}
         /\ Append(s, c)[Len(s) + 1] = c
         /\ DOMAIN s = 1..Len(s) /\ DOMAIN Append(s, c) = 1..Len(s) + 1
         /\ \A i \in 1..Len(s) : Append(s, c)[i] = s[i] /\ s[i] \in Range(s)
<1> PICK n \in Nat : n = Len(s)
  OBVIOUS
<1> PICK u : u = Append(s, c)
  OBVIOUS
<1>1. /\ u \in Seq(Calls) /\ Len(u) = n + 1
      /\ \A i \in 1..n + 1 : u[i] = IF i <= n THEN s[i] ELSE c
      /\ DOMAIN s = 1..n /\ DOMAIN u = 1..n + 1
  BY AppendProperties
<1>2. /\ \A i \in 1..n : u[i] = s[i] /\ i \in 1..n + 1
      /\ u[n + 1] = c /\ n + 1 \in 1..n + 1
      /\ \A i \in 1..n + 1 : i \in 1..n \/ i = n + 1
  BY <1>1
<1>3. Range(u) = Range(s) \cup {c}
  <2>1. ASSUME NEW x \in Range(u) PROVE x \in Range(s) \cup {c}
    BY <1>1, <1>2, <2>1 DEF Range
  <2>2. ASSUME NEW x \in Range(s) \cup {c} PROVE x \in Range(u)
    BY <1>1, <1>2, <2>2 DEF Range
  <2> QED
    BY <2>1, <2>2
<1> QED
  BY <1>1, <1>2, <1>3 DEF Range

(* Counting a call counts that one and no other.                           *)
LEMMA CountedAfter ==
  ASSUME CallInv, NEW c \in Calls, Moves(c), Alone(c)
  PROVE  /\ \A d \in Calls \ {c} : Under(d) # NoRun => (IsCounted(d)' <=> IsCounted(d))
         /\ NoCount /\ ~Resolves(c) => (IsCounted(c)' <=> IsCounted(c))
         /\ Count(c) /\ Under(c) # NoRun => IsCounted(c)'
<1>1. \A d \in Calls \ {c} : loc'[d] = loc[d]
  BY DEF Alone
<1>2. ASSUME NoCount
      PROVE  /\ \A d \in Calls \ {c} : IsCounted(d)' <=> IsCounted(d)
             /\ ~Resolves(c) => (IsCounted(c)' <=> IsCounted(c))
  <2>1. counted' = counted
    BY <1>2 DEF NoCount
  <2>2. ~Resolves(c) => SameCall(c)
    BY Movers
  <2> QED
    BY <1>1, <2>1, <2>2 DEF IsCounted, SameCall, Under
<1>3. ASSUME Count(c), Under(c) # NoRun
      PROVE  /\ \A d \in Calls \ {c} : Under(d) # NoRun => (IsCounted(d)' <=> IsCounted(d))
             /\ IsCounted(c)'
  <2>1. SameCall(c)
    BY <1>3, Movers
  <2> PICK r \in Runs, t \in Tools : r = Under(c) /\ t = loc[c].tool
    BY <1>3, CountMoves
  <2>2. /\ counted[r][t] \in Seq(Calls)
        /\ counted'[r][t] = Append(counted[r][t], c)
        /\ \A q \in Runs, u \in Tools : q # r \/ u # t => counted'[q][u] = counted[q][u]
    BY ZenonT(60), <1>3, CountMoves DEF CallInv, RunTypes
  <2>3. Range(counted'[r][t]) = Range(counted[r][t]) \cup {c}
    BY <2>2, CountOneMore
  <2>4. IsCounted(c)'
    BY <2>1, <2>3 DEF IsCounted, SameCall, Under
  <2>5. ASSUME NEW d \in Calls \ {c}, Under(d) # NoRun
        PROVE  IsCounted(d)' <=> IsCounted(d)
    <3>1. Under(d) \in Runs /\ loc[d].tool \in Tools
      BY <2>5 DEF CallInv, CallTypes, Taken, Locals, Under
    <3>2. \/ counted'[Under(d)][loc[d].tool] = counted[Under(d)][loc[d].tool]
          \/ Under(d) = r /\ loc[d].tool = t
      BY <2>2, <3>1
    <3> QED
      BY <1>1, <2>3, <3>2 DEF IsCounted, Under
  <2> QED
    BY <2>4, <2>5
<1> QED
  BY <1>2, <1>3, Movers

(* What a call has said after its step.                                    *)
LEMMA SaidAfter ==
  ASSUME CallInv, NEW c \in Calls, Moves(c), Alone(c)
  PROVE  /\ \A d \in Calls \ {c} : Under(d) # NoRun => Said(d)' = Said(d)
         /\ ~Resolves(c) /\ pc[c] # "append" => Said(c)' = Said(c)
         /\ pc[c] = "append" =>
              /\ Said(c) = <<>> => Said(c)' = <<writing[c].kind>>
              /\ \A a : Said(c) = <<a>> => Said(c)' = <<a, writing[c].kind>>
              /\ \A a, b : Said(c) = <<a, b>> => Said(c)' = <<a, b, writing[c].kind>>
<1>1. /\ \A d \in Calls \ {c} : loc'[d] = loc[d]
      /\ \A r \in Runs, w \in Writers :
           r # Under(c) \/ w # c \/ pc[c] # "append" => trace'[r][w] = trace[r][w]
      /\ Calls \subseteq Writers
  BY WritersAssumption DEF Alone
<1>2. \A d \in Calls : Under(d) # NoRun => Under(d) \in Runs
  BY DEF CallInv, CallTypes, Locals, Under
<1>3. \A d \in Calls \ {c} : Under(d) # NoRun => Said(d)' = Said(d)
  BY <1>1, <1>2 DEF Said, Under
<1>4. ~Resolves(c) => SameCall(c) /\ Under(c) \in Runs
  BY Movers
<1>5. ~Resolves(c) /\ pc[c] # "append" => Said(c)' = Said(c)
  BY <1>1, <1>4 DEF Said, SameCall, Under
<1>6. ASSUME pc[c] = "append"
      PROVE  /\ Said(c) = <<>> => Said(c)' = <<writing[c].kind>>
             /\ \A a : Said(c) = <<a>> => Said(c)' = <<a, writing[c].kind>>
             /\ \A a, b : Said(c) = <<a, b>> => Said(c)' = <<a, b, writing[c].kind>>
  <2>1. SameCall(c) /\ Under(c) \in Runs
    BY <1>4, <1>6 DEF Resolves
  <2> DEFINE s == trace[Under(c)][c]
  <2>2. s \in Seq(TraceLine) /\ writing[c] \in TraceLine
    BY <1>1, <1>6, <2>1, FaultsAssumption DEF CallInv, RunTypes, Taken
  <2>3. Said(c)' = Kinds(Append(s, writing[c]))
    BY <1>6, <2>1 DEF Said, SameCall, Under, Alone
  <2> HIDE DEF s
  <2>4. /\ Kinds(s) = <<>> => Kinds(Append(s, writing[c])) = <<writing[c].kind>>
        /\ \A a : Kinds(s) = <<a>> => Kinds(Append(s, writing[c])) = <<a, writing[c].kind>>
        /\ \A a, b : Kinds(s) = <<a, b>> =>
             Kinds(Append(s, writing[c])) = <<a, b, writing[c].kind>>
    BY <2>2, KindsAppend
  <2>5. Said(c) = Kinds(s)
    BY DEF Said, s
  <2> QED
    BY <2>3, <2>4, <2>5
<1> QED
  BY <1>3, <1>5, <1>6

(* The files and the counts hold only their own.                           *)
LEMMA CallKeepsOwn ==
  ASSUME CallInv, TraceInv, NEW c \in Calls, StepTypes', Moves(c), Alone(c),
         NoCount \/ (Count(c) /\ Under(c) # NoRun /\ ~IsCounted(c))
  PROVE  Own'
<1>1. /\ \A d \in Calls \ {c} : loc'[d] = loc[d]
      /\ \A r \in Runs, w \in Writers :
           r # Under(c) \/ w # c \/ pc[c] # "append" => trace'[r][w] = trace[r][w]
      /\ Calls \subseteq Writers
  BY WritersAssumption DEF Alone
<1>2. /\ \A r \in Runs, d \in Calls : Under(d) # r => trace[r][d] = <<>>
      /\ \A r \in Runs, t \in Tools :
           /\ \A i \in DOMAIN counted[r][t] :
                Under(counted[r][t][i]) = r /\ loc[counted[r][t][i]].tool = t
           /\ \A i, j \in DOMAIN counted[r][t] : counted[r][t][i] = counted[r][t][j] => i = j
  BY DEF TraceInv, Own
<1>3. /\ Resolves(c) => Under(c) = NoRun /\ pc[c] = "idle"
      /\ ~Resolves(c) => SameCall(c)
      /\ NoRun \notin Runs
  BY Movers, FaultsAssumption DEF Resolves
<1>4. ASSUME NEW r \in Runs, NEW d \in Calls, loc'[d].run # r PROVE trace'[r][d] = <<>>
  <2>1. CASE d # c
    BY <1>1, <1>2, <1>4, <2>1 DEF Under
  <2>2. CASE d = c
    BY <1>1, <1>2, <1>3, <1>4, <2>2 DEF Under, SameCall
  <2> QED
    BY <2>1, <2>2
<1>5. ASSUME NEW r \in Runs, NEW t \in Tools
      PROVE  /\ \A i \in DOMAIN counted'[r][t] :
                  loc'[counted'[r][t][i]].run = r /\ loc'[counted'[r][t][i]].tool = t
             /\ \A i, j \in DOMAIN counted'[r][t] : counted'[r][t][i] = counted'[r][t][j] => i = j
  <2>1. counted[r][t] \in Seq(Calls)
    BY DEF CallInv, RunTypes
  <2>2. \A i \in DOMAIN counted[r][t] :
          loc'[counted[r][t][i]].run = r /\ loc'[counted[r][t][i]].tool = t
    <3> SUFFICES ASSUME NEW i \in DOMAIN counted[r][t]
                 PROVE  loc'[counted[r][t][i]].run = r /\ loc'[counted[r][t][i]].tool = t
      OBVIOUS
    <3>1. counted[r][t][i] \in Calls /\ Under(counted[r][t][i]) = r /\ loc[counted[r][t][i]].tool = t
      BY <1>2, <2>1
    <3> QED
      BY <1>1, <1>3, <3>1 DEF SameCall, Under
  <2>3. CASE counted'[r][t] = counted[r][t]
    BY <1>2, <2>2, <2>3
  <2>4. CASE /\ ~IsCounted(c) /\ Under(c) = r /\ loc[c].tool = t
             /\ counted'[r][t] = Append(counted[r][t], c)
    <3> PICK n \in Nat : n = Len(counted[r][t])
      BY <2>1
    <3>1. /\ DOMAIN counted[r][t] = 1..n /\ DOMAIN counted'[r][t] = 1..n + 1
          /\ counted'[r][t][n + 1] = c
          /\ \A i \in 1..n : counted'[r][t][i] = counted[r][t][i] /\ counted[r][t][i] \in Range(counted[r][t])
      BY <2>1, <2>4, CountOneMore
    <3>2. c \notin Range(counted[r][t]) /\ loc'[c].run = r /\ loc'[c].tool = t
      BY <1>3, <2>4 DEF IsCounted, SameCall, Under
    <3>3. \A i \in 1..n + 1 : i \in 1..n \/ i = n + 1
      OBVIOUS
    <3>4. \A i \in 1..n + 1 : loc'[counted'[r][t][i]].run = r /\ loc'[counted'[r][t][i]].tool = t
      BY <2>2, <3>1, <3>2, <3>3
    <3>5. \A i, j \in 1..n + 1 : counted'[r][t][i] = counted'[r][t][j] => i = j
      <4> SUFFICES ASSUME NEW i \in 1..n + 1, NEW j \in 1..n + 1,
                          counted'[r][t][i] = counted'[r][t][j]
                   PROVE  i = j
        OBVIOUS
      <4>1. CASE i \in 1..n /\ j \in 1..n
        BY <1>2, <3>1, <4>1
      <4>2. CASE i = n + 1 /\ j \in 1..n
        BY <3>1, <3>2, <4>2
      <4>3. CASE i \in 1..n /\ j = n + 1
        BY <3>1, <3>2, <4>3
      <4> QED
        BY <3>3, <4>1, <4>2, <4>3
    <3> QED
      BY <3>1, <3>4, <3>5
  <2> QED
    BY <2>3, <2>4, CountMoves DEF NoCount
<1> QED
  BY <1>4, <1>5 DEF Own, Under

(* A call that is counted has not been counted before.                     *)
LEMMA Uncounted ==
  ASSUME CallInv, TraceInv, NEW c \in Calls, Moves(c)
  PROVE  NoCount \/ (Count(c) /\ Under(c) # NoRun /\ ~IsCounted(c))
<1>1. NoCount \/ (Count(c) /\ Under(c) # NoRun)
  BY Movers
<1>2. Under(c) # NoRun => Progress(c)
  BY DEF TraceInv
<1>3. CASE Resolves(c) \/ Decides(c) \/ Serves(c)
  BY <1>3 DEF Resolves, Decides, Serves
<1>4. CASE Meets(c)
  BY <1>1, <1>2, <1>4 DEF Meets, Progress
<1>5. CASE Reports(c)
  BY <1>1, <1>2, <1>5 DEF Reports, Progress
<1>6. CASE Hears(c)
  BY <1>1, <1>2, <1>6 DEF Hears, Progress
<1> QED
  BY <1>3, <1>4, <1>5, <1>6 DEF Moves

(* The lines an answer stands for, once it is given.                       *)
LEMMA LinesAfter ==
  ASSUME NEW c \in Calls
  PROVE  /\ answer'[c] = 403 => <<"refused">> \in Lines(c)'
         /\ answer'[c] \in {400, 499, 500} => <<"call">> \in Lines(c)'
         /\ answer'[c] = 502 => <<"call", "error">> \in Lines(c)'
         /\ answer'[c] = 200 /\ loc'[c].spec # NoFault => <<"call", "fault", "result">> \in Lines(c)'
         /\ answer'[c] = 200 /\ loc'[c].spec = NoFault => <<"call", "result">> \in Lines(c)'
  BY DEF Lines

(* The stages a call goes through, one move at a time.                     *)
LEMMA DecidesProgress ==
  ASSUME CallInv, TraceInv, NEW c \in Calls, StepTypes', Moves(c), Alone(c),
         Resolves(c) \/ Decides(c), Under(c)' # NoRun
  PROVE  Progress(c)'
<1>1. CASE Decides(c)
  <2>1. /\ Under(c) # NoRun /\ ~Resolves(c) /\ pc[c] # "append" /\ SameCall(c)
    BY <1>1, Movers DEF Decides, Resolves, Keeps, SameCall, Under
  <2>2. Said(c) = <<>> /\ ~IsCounted(c) /\ loc[c].spec = NoFault /\ ~loc[c].matched
    BY <1>1, <2>1 DEF TraceInv, Progress, Decides
  <2>3. Said(c)' = Said(c) /\ (IsCounted(c)' <=> IsCounted(c))
    BY <1>1, <2>1, SaidAfter, CountedAfter DEF Decides
  <2>4. /\ loc'[c].spec = loc[c].spec /\ loc'[c].matched = loc[c].matched
        /\ \/ pc'[c] = "append" /\ writing'[c].kind \in {"call", "refused"}
           \/ pc'[c] = "dispense"
    BY <1>1 DEF Decides, Keeps, SameFault, Records, Goes
  <2> QED
    BY <2>2, <2>3, <2>4 DEF Progress, Is
<1>2. CASE Resolves(c)
  <2>1. /\ pc'[c] = "body" /\ counted' = counted /\ trace' = trace
        /\ loc'[c].spec = NoFault /\ ~loc'[c].matched
        /\ loc'[c].run \in Runs /\ loc'[c].tool \in Tools /\ Under(c) = NoRun
    <3>1. Under(c) = NoRun /\ pc[c] = "idle"
      BY <1>2, Movers DEF Resolves
    <3>2. trace' = trace
      BY <3>1 DEF Alone, CallInv, RunTypes, StepTypes
    <3> QED
      BY <1>2, <3>1, <3>2 DEF Resolves, Keeps, Goes, NoCount, Under, CallInv, RunTypes
  <2>2. Said(c)' = <<>>
    BY <2>1, KindsEmpty, FaultsAssumption DEF TraceInv, Own, Said, Under
  <2>3. ~IsCounted(c)'
    <3> PICK r \in Runs, t \in Tools : r = loc'[c].run /\ t = loc'[c].tool
      BY <2>1
    <3>1. \A i \in DOMAIN counted[r][t] : counted[r][t][i] # c
      BY <2>1, FaultsAssumption DEF TraceInv, Own
    <3> QED
      BY <2>1, <3>1 DEF IsCounted, Range, Under
  <2> QED
    BY <2>1, <2>2, <2>3 DEF Progress, Is
<1> QED
  BY <1>1, <1>2

LEMMA MeetsProgress ==
  ASSUME CallInv, TraceInv, NEW c \in Calls, StepTypes', Moves(c), Alone(c), Meets(c)
  PROVE  Progress(c)'
<1>1. Under(c) \in Runs /\ ~Resolves(c) /\ pc[c] = "append" /\ writing[c].kind = "call" /\ SameCall(c)
      /\ Under(c) # NoRun
  BY Movers, FaultsAssumption DEF Meets, Resolves, Is
<1>2. Said(c) = <<>> /\ ~IsCounted(c) /\ loc[c].spec = NoFault
  BY <1>1 DEF TraceInv, Progress, Is
<1>3. Said(c)' = <<"call">>
  BY <1>1, <1>2, SaidAfter
<1>4. (NoCount => ~IsCounted(c)') /\ (Count(c) => IsCounted(c)')
  BY <1>1, <1>2, CountedAfter
<1>5. CASE NoCount /\ Answers(c, 400) /\ loc[c].up \in Servers
  <2>1. <<"call">> \in Lines(c)'
    BY <1>5, LinesAfter DEF Answers
  <2> QED
    BY <1>3, <1>4, <1>5, <2>1 DEF Progress, Answers, Is
<1>6. CASE NoCount /\ Records(c, "fault") /\ loc'[c].spec # NoFault /\ loc'[c].matched
  BY <1>3, <1>4, <1>6 DEF Progress, Records, Is
<1>7. CASE NoCount /\ (Goes(c, "upstream") \/ Goes(c, "rpc")) /\ loc'[c].matched
  BY <1>3, <1>4, <1>7 DEF Progress, Goes, Is
<1>8. CASE Count(c) /\ Records(c, "error") /\ loc'[c].matched
  BY <1>3, <1>4, <1>8 DEF Progress, Records, Is
<1> QED
  BY <1>5, <1>6, <1>7, <1>8 DEF Meets

LEMMA ReportsProgress ==
  ASSUME CallInv, TraceInv, NEW c \in Calls, StepTypes', Moves(c), Alone(c), Reports(c)
  PROVE  Progress(c)'
<1>1. /\ Under(c) \in Runs /\ ~Resolves(c) /\ pc[c] = "append" /\ Under(c) # NoRun
      /\ loc'[c] = loc[c]
  BY Movers, FaultsAssumption DEF Reports, Resolves, Is, Keeps
<1>2. Progress(c)
  BY <1>1 DEF TraceInv
<1>3. /\ Said(c) = <<>> => Said(c)' = <<writing[c].kind>>
      /\ \A a : Said(c) = <<a>> => Said(c)' = <<a, writing[c].kind>>
      /\ \A a, b : Said(c) = <<a, b>> => Said(c)' = <<a, b, writing[c].kind>>
  BY <1>1, SaidAfter
<1>4. (NoCount => (IsCounted(c)' <=> IsCounted(c))) /\ (Count(c) => IsCounted(c)')
  BY <1>1, CountedAfter
<1>5. CASE Is(c, "refused") /\ Count(c) /\ Answers(c, 403)
  <2>1. Said(c)' = <<"refused">>
    BY <1>2, <1>3, <1>5 DEF Progress, Is
  <2>2. Said(c)' \in Lines(c)' /\ IsCounted(c)'
    BY <1>4, <1>5, <2>1, LinesAfter DEF Answers
  <2> QED
    BY <1>5, <2>2 DEF Progress, Answers, Is
<1>6. CASE Is(c, "fault") /\ NoCount /\ Records(c, "result")
  <2>1. /\ Said(c)' = <<"call", "fault">> /\ ~IsCounted(c)'
        /\ loc'[c].spec # NoFault /\ loc'[c].matched
    BY <1>1, <1>2, <1>3, <1>4, <1>6 DEF Progress, Is
  <2> QED
    BY <1>6, <2>1 DEF Progress, Records, Is
<1>7. CASE Is(c, "result") /\ (IF loc[c].spec # NoFault THEN Count(c) ELSE NoCount) /\ Answers(c, 200)
  <2>1. loc'[c].matched /\ IsCounted(c)'
    BY <1>1, <1>2, <1>4, <1>7 DEF Progress
  <2>2. Said(c) = IF loc[c].spec = NoFault THEN <<"call">> ELSE <<"call", "fault">>
    BY <1>2, <1>7 DEF Progress
  <2>3. Said(c)' = IF loc[c].spec = NoFault THEN <<"call", "result">> ELSE <<"call", "fault", "result">>
    BY <1>3, <1>7, <2>2 DEF Is
  <2>4. Said(c)' \in Lines(c)'
    BY <1>1, <1>7, <2>3, LinesAfter DEF Answers
  <2> QED
    BY <1>7, <2>1, <2>4 DEF Progress, Answers, Is
<1>8. CASE Is(c, "error") /\ NoCount /\ Answers(c, 502)
  <2>1. loc'[c].matched /\ IsCounted(c)' /\ Said(c) = <<"call">>
    BY <1>1, <1>2, <1>4, <1>8 DEF Progress
  <2>2. Said(c)' = <<"call", "error">>
    BY <1>3, <1>8, <2>1 DEF Is
  <2>3. Said(c)' \in Lines(c)'
    BY <1>8, <2>2, LinesAfter DEF Answers
  <2> QED
    BY <1>8, <2>1, <2>3 DEF Progress, Answers, Is
<1> QED
  BY <1>5, <1>6, <1>7, <1>8 DEF Reports

LEMMA HearsProgress ==
  ASSUME CallInv, TraceInv, NEW c \in Calls, StepTypes', Moves(c), Alone(c), Hears(c) \/ Serves(c)
  PROVE  Progress(c)'
<1>1. /\ Under(c) \in Runs /\ ~Resolves(c) /\ pc[c] # "append" /\ Under(c) # NoRun
      /\ loc'[c] = loc[c]
  BY Movers, FaultsAssumption DEF Hears, Serves, Resolves, Keeps
<1>2. Progress(c) /\ Taken
  BY <1>1 DEF TraceInv, CallInv
<1>3. Said(c)' = Said(c)
  BY <1>1, SaidAfter
<1>4. (NoCount => (IsCounted(c)' <=> IsCounted(c))) /\ (Count(c) => IsCounted(c)')
  BY <1>1, CountedAfter
<1>5. ASSUME Hears(c) PROVE Progress(c)'
  <2>1. Said(c)' = <<"call">> /\ ~IsCounted(c) /\ loc'[c].matched
    BY <1>1, <1>2, <1>3, <1>5 DEF Hears, Progress
  <2>2. CASE Count(c) /\ Records(c, "error")
    BY <1>4, <2>1, <2>2 DEF Progress, Records, Is
  <2>3. CASE NoCount /\ Records(c, "fault") /\ loc[c].spec # NoFault
    BY <1>1, <1>4, <2>1, <2>3 DEF Progress, Records, Is
  <2>4. CASE Count(c) /\ loc[c].spec = NoFault /\ \E where \in {"reading", "relay"} : Goes(c, where)
    BY <1>1, <1>4, <2>1, <2>4 DEF Progress, Goes, Is
  <2>5. CASE Count(c) /\ Records(c, "result") /\ loc[c].spec = NoFault
    BY <1>1, <1>4, <2>1, <2>5 DEF Progress, Records, Is
  <2>6. CASE NoCount /\ Goes(c, "rpc")
    BY <1>1, <1>4, <2>1, <2>6 DEF Progress, Goes, Is
  <2>7. CASE pc[c] = "rpc" /\ NoCount /\ Answers(c, 500)
    <3>1. loc'[c].up \notin Urls
      BY <1>1, <1>2, <2>7, UpstreamsAssumption DEF Taken
    <3>2. Said(c)' \in Lines(c)'
      BY <2>1, <2>7, LinesAfter DEF Answers
    <3> QED
      BY <1>4, <2>1, <2>7, <3>1, <3>2 DEF Progress, Answers, Is
  <2> QED
    BY <1>5, <2>2, <2>3, <2>4, <2>5, <2>6, <2>7 DEF Hears
<1>6. ASSUME Serves(c) PROVE Progress(c)'
  <2>1. /\ Said(c)' = <<"call">> /\ IsCounted(c)' /\ loc'[c].matched /\ loc'[c].spec = NoFault
        /\ loc'[c].up \in Urls
    BY <1>1, <1>2, <1>3, <1>4, <1>6 DEF Serves, Progress, Taken
  <2>2. CASE Records(c, "result")
    BY <2>1, <2>2 DEF Progress, Records, Is
  <2>3. CASE \E status \in {499, 500} : Answers(c, status)
    <3>1. Said(c)' \in Lines(c)'
      BY <2>1, <2>3, LinesAfter DEF Answers
    <3> QED
      BY <2>1, <2>3, <3>1 DEF Progress, Answers, Is
  <2> QED
    BY <1>6, <2>2, <2>3 DEF Serves
<1> QED
  BY <1>5, <1>6

(* A call that does not move stays where it is.                            *)
LEMMA OthersProgress ==
  ASSUME CallInv, TraceInv, NEW c \in Calls, Moves(c), Alone(c), NEW d \in Calls \ {c},
         Under(d) # NoRun
  PROVE  Progress(d)'
<1>1. /\ pc'[d] = pc[d] /\ loc'[d] = loc[d] /\ answer'[d] = answer[d] /\ writing'[d] = writing[d]
      /\ known' = known
  BY WritersAssumption DEF Alone
<1>2. Said(d)' = Said(d) /\ (IsCounted(d)' <=> IsCounted(d))
  BY SaidAfter, CountedAfter
<1>3. Lines(d)' = Lines(d) /\ Under(d)' = Under(d)
  BY <1>1 DEF Lines, Under
<1>4. \A kind : Is(d, kind)' <=> Is(d, kind)
  BY <1>1 DEF Is
<1>5. Progress(d)
  BY DEF TraceInv
<1> QED
  BY <1>1, <1>2, <1>3, <1>4, <1>5 DEF Progress

LEMMA CallKeepsTrace ==
  ASSUME CallInv, TraceInv, NEW c \in Calls, StepTypes', Moves(c), Alone(c)
  PROVE  TraceInv'
<1>1. Own'
  BY Uncounted, CallKeepsOwn
<1>2. ASSUME NEW d \in Calls, Under(d)' # NoRun PROVE Progress(d)'
  <2>1. CASE d = c
    BY <1>2, <2>1, DecidesProgress, MeetsProgress, ReportsProgress, HearsProgress DEF Moves
  <2>2. CASE d # c
    <3>1. Under(d) # NoRun
      BY <1>2, <2>2 DEF Alone, Under
    <3> QED
      BY <2>2, <3>1, OthersProgress
  <2> QED
    BY <2>1, <2>2
<1> QED
  BY <1>1, <1>2 DEF TraceInv

-----------------------------------------------------------------------------
(* Faults.                                                                 *)

(* A call that has matched its fault and not been counted has the fault of *)
(* the count as it is, before its step as after; and one that has been     *)
(* counted keeps its fault.                                                *)
LEMMA MoverHasFault ==
  ASSUME CallInv, TraceInv, FaultInv, NEW c \in Calls, Moves(c), Under(c) # NoRun
  PROVE  /\ IsCounted(c) => loc'[c] = loc[c]
         /\ loc'[c].matched /\ ~IsCounted(c) /\ <<Under(c), loc[c].tool>> \notin crossed =>
              (loc'[c].spec # NoFault <=>
                 HasFault(Under(c), loc[c].tool, Len(counted[Under(c)][loc[c].tool])))
<1>1. ~Resolves(c) /\ Under(c) \in Runs /\ loc[c].tool \in Tools
  BY Movers
<1>2. Progress(c)
  BY DEF TraceInv
<1>3. CASE Decides(c)
  <2>1. ~IsCounted(c) /\ ~loc[c].matched
    BY <1>2, <1>3 DEF Decides, Progress
  <2>2. ~loc'[c].matched
    BY <1>3, <2>1 DEF Decides, Keeps, SameFault
  <2> QED
    BY <2>1, <2>2
<1>4. CASE Meets(c)
  <2>1. ~IsCounted(c)
    BY <1>2, <1>4 DEF Meets, Progress
  <2>2. loc'[c].spec = FaultForCall(Under(c), loc[c].tool)
    BY <1>4 DEF Meets
  <2> QED
    BY <1>1, <2>1, <2>2, FirstFault
<1>5. CASE loc'[c] = loc[c]
  BY <1>1, <1>5 DEF FaultInv
<1> QED
  BY <1>1, <1>3, <1>4, <1>5 DEF Moves, Reports, Hears, Serves, Keeps

(* The faults of one tool of one run.                                      *)
FaultsOf(r, t) ==
  /\ \A c \in Calls : Under(c) = r /\ loc[c].tool = t /\ loc[c].matched /\ ~IsCounted(c) =>
       (loc[c].spec # NoFault <=> HasFault(r, t, Len(counted[r][t])))
  /\ \A i \in DOMAIN counted[r][t] :
       LET c == counted[r][t][i] IN
       loc[c].matched => (loc[c].spec # NoFault <=> HasFault(r, t, i - 1))

LEMMA NoCountKeepsFaults ==
  ASSUME CallInv, TraceInv, FaultInv, NEW c \in Calls, Moves(c), Alone(c), NoCount,
         NEW r \in Runs, NEW t \in Tools, <<r, t>> \notin crossed
  PROVE  FaultsOf(r, t)'
<1>1. counted' = counted /\ counted[r][t] \in Seq(Calls)
  BY DEF NoCount, CallInv, RunTypes
<1>2. \A d \in Calls \ {c} : loc'[d] = loc[d]
  BY DEF Alone
<1>3. FaultsOf(r, t)
  BY DEF FaultInv, FaultsOf
<1>4. /\ Resolves(c) => Under(c) = NoRun /\ Under(c) # r
      /\ ~Resolves(c) => SameCall(c)
  BY Movers, FaultsAssumption
<1>5. \A i \in DOMAIN counted[r][t] :
        counted[r][t][i] \in Calls /\ Under(counted[r][t][i]) = r /\ loc[counted[r][t][i]].tool = t
  BY <1>1 DEF TraceInv, Own
<1>6. ASSUME NEW d \in Calls, loc'[d].run = r, loc'[d].tool = t, loc'[d].matched,
             d \notin Range(counted[r][t])
      PROVE  loc'[d].spec # NoFault <=> HasFault(r, t, Len(counted[r][t]))
  <2>1. CASE d # c
    BY <1>2, <1>3, <1>6, <2>1 DEF FaultsOf, IsCounted, Under
  <2>2. CASE d = c
    <3>1. ~Resolves(c) /\ Under(c) = r /\ loc[c].tool = t
      <4>1. Resolves(c) => Keeps(c) \/ ~loc'[c].matched
        BY DEF Resolves
      <4> QED
        BY <1>4, <1>6, <2>2, <4>1 DEF SameCall, Under, Keeps
    <3>2. ~IsCounted(c) /\ Under(c) # NoRun
      BY <1>6, <2>2, <3>1, FaultsAssumption DEF IsCounted
    <3> QED
      BY <1>6, <2>2, <3>1, <3>2, MoverHasFault
  <2> QED
    BY <2>1, <2>2
<1>7. ASSUME NEW i \in DOMAIN counted[r][t]
      PROVE  loc'[counted[r][t][i]] = loc[counted[r][t][i]]
  <2> PICK d \in Calls : d = counted[r][t][i]
    BY <1>5
  <2>1. CASE d = c
    <3>1. Under(c) # NoRun /\ IsCounted(c)
      BY ZenonT(60), <1>5, <2>1, FaultsAssumption DEF IsCounted, Range
    <3> QED
      BY <2>1, <3>1, MoverHasFault
  <2> QED
    BY <1>2, <2>1
<1> QED
  BY <1>1, <1>3, <1>6, <1>7 DEF FaultsOf, IsCounted, Under

LEMMA CountKeepsFaults ==
  ASSUME CallInv, TraceInv, FaultInv, NEW c \in Calls, Moves(c), Alone(c),
         Count(c), Under(c) # NoRun, ~IsCounted(c),
         NEW r \in Runs, NEW t \in Tools, <<r, t>> \notin crossed'
  PROVE  FaultsOf(r, t)'
<1>1. counted[r][t] \in Seq(Calls) /\ <<r, t>> \notin crossed
  BY ZenonT(60), CountMoves DEF CallInv, RunTypes
<1>2. \A d \in Calls \ {c} : loc'[d] = loc[d]
  BY DEF Alone
<1>3. FaultsOf(r, t)
  BY <1>1 DEF FaultInv, FaultsOf
<1>4. SameCall(c)
  BY Movers
<1>5. \A i \in DOMAIN counted[r][t] :
        counted[r][t][i] \in Calls /\ Under(counted[r][t][i]) = r /\ loc[counted[r][t][i]].tool = t
  BY <1>1 DEF TraceInv, Own
<1>6. CASE r # Under(c) \/ t # loc[c].tool
  <2>1. counted'[r][t] = counted[r][t]
    BY <1>6, CountMoves
  <2>2. ASSUME NEW d \in Calls, loc'[d].run = r, loc'[d].tool = t PROVE d # c
    BY <1>4, <1>6, <2>2 DEF SameCall, Under
  <2>3. \A i \in DOMAIN counted[r][t] : loc'[counted[r][t][i]] = loc[counted[r][t][i]]
    BY <1>2, <1>5, <1>6
  <2>4. ASSUME NEW d \in Calls, loc'[d].run = r, loc'[d].tool = t, loc'[d].matched,
               d \notin Range(counted'[r][t])
        PROVE  loc'[d].spec # NoFault <=> HasFault(r, t, Len(counted'[r][t]))
    <3>1. d # c /\ loc'[d] = loc[d]
      BY <1>2, <2>2, <2>4
    <3> QED
      BY <1>3, <2>1, <2>4, <3>1 DEF FaultsOf, IsCounted, Under
  <2> QED
    BY <1>3, <2>1, <2>3, <2>4 DEF FaultsOf, IsCounted, Under
<1>7. CASE r = Under(c) /\ t = loc[c].tool
  <2> PICK n \in Nat : n = Len(counted[r][t])
    BY <1>1
  <2>1. counted'[r][t] = Append(counted[r][t], c)
    BY <1>7, CountMoves
  <2>2. /\ DOMAIN counted[r][t] = 1..n /\ DOMAIN counted'[r][t] = 1..n + 1
        /\ counted'[r][t][n + 1] = c
        /\ \A i \in 1..n : counted'[r][t][i] = counted[r][t][i] /\ counted[r][t][i] \in Range(counted[r][t])
        /\ Range(counted'[r][t]) = Range(counted[r][t]) \cup {c}
    BY <1>1, <2>1, CountOneMore
  <2>3. ASSUME NEW d \in Calls, loc'[d].run = r, loc'[d].tool = t, loc'[d].matched,
               d \notin Range(counted'[r][t])
        PROVE  FALSE
    <3>1. d # c /\ d \notin Range(counted[r][t])
      BY <2>2, <2>3
    <3>2. Under(d) = r /\ loc[d].tool = t /\ loc[d].matched
      BY <1>2, <2>3, <3>1 DEF Under
    <3>3. ~IsCounted(d)
      BY <3>1, <3>2 DEF IsCounted
    <3> QED
      BY <1>7, <3>1, <3>2, <3>3, CountMoves
  <2>4. ASSUME NEW i \in 1..n, loc'[counted'[r][t][i]].matched
        PROVE  loc'[counted'[r][t][i]].spec # NoFault <=> HasFault(r, t, i - 1)
    <3>1. counted[r][t][i] # c
      BY <1>7, <2>2 DEF IsCounted
    <3>2. loc'[counted'[r][t][i]] = loc[counted[r][t][i]]
      BY <1>2, <1>5, <2>2, <3>1
    <3> QED
      BY <1>3, <2>2, <2>4, <3>2 DEF FaultsOf
  <2>5. loc'[c].matched => (loc'[c].spec # NoFault <=> HasFault(r, t, n))
    BY <1>1, <1>7, MoverHasFault
  <2>6. (n + 1) - 1 = n /\ \A i \in 1..n + 1 : i \in 1..n \/ i = n + 1
    OBVIOUS
  <2>7. ASSUME NEW i \in 1..n + 1, loc'[counted'[r][t][i]].matched
        PROVE  loc'[counted'[r][t][i]].spec # NoFault <=> HasFault(r, t, i - 1)
    <3>1. CASE i \in 1..n
      BY <2>4, <2>7, <3>1
    <3>2. CASE i = n + 1
      BY <2>2, <2>5, <2>6, <2>7, <3>2
    <3> QED
      BY <2>6, <3>1, <3>2
  <2> QED
    BY <2>2, <2>3, <2>7 DEF FaultsOf, IsCounted, Under
<1> QED
  BY <1>6, <1>7

LEMMA CallKeepsFault ==
  ASSUME CallInv, TraceInv, FaultInv, NEW c \in Calls, Moves(c), Alone(c)
  PROVE  FaultInv'
<1>1. ASSUME NEW r \in Runs, NEW t \in Tools, <<r, t>> \notin crossed' PROVE FaultsOf(r, t)'
  <2>1. CASE NoCount
    BY <1>1, <2>1, NoCountKeepsFaults DEF NoCount
  <2>2. CASE Count(c) /\ Under(c) # NoRun /\ ~IsCounted(c)
    BY <1>1, <2>2, CountKeepsFaults
  <2> QED
    BY <2>1, <2>2, Uncounted
<1> QED
  BY <1>1 DEF FaultInv, FaultsOf

-----------------------------------------------------------------------------
(* Credentials.                                                            *)
LEMMA CallKeepsVault ==
  ASSUME CallInv, VaultInv, NEW c \in Calls, Moves(c), Alone(c)
  PROVE  VaultInv'
<1>1. ASSUME NEW d \in Calls, loc'[d].tool \in VaultTools
      PROVE  /\ pc'[d] = "dispense" => loc'[d].up \in Urls
             /\ Is(d, "call")' => loc'[d].cred = loc'[d].up /\ loc'[d].up \in Urls
             /\ loc'[d].called => ShownTheCredential(d)'
  <2>1. CASE d # c
    <3>1. pc'[d] = pc[d] /\ loc'[d] = loc[d] /\ writing'[d] = writing[d]
      BY <2>1, WritersAssumption DEF Alone
    <3>2. /\ Is(d, "call")' <=> Is(d, "call")
          /\ ShownTheCredential(d)' <=> ShownTheCredential(d)
      BY <3>1 DEF Is, ShownTheCredential
    <3> QED
      BY <1>1, <3>1, <3>2 DEF VaultInv
  <2>2. CASE d = c
    <3>1. CASE Resolves(c)
      <4>1. CASE loc'[c] = loc[c] /\ pc'[c] = "ended"
        BY <1>1, <2>2, <4>1 DEF VaultInv, Is, ShownTheCredential
      <4>2. CASE pc'[c] = "body" /\ ~loc'[c].called
        BY <2>2, <4>2 DEF Is
      <4> QED
        BY <3>1, <4>1, <4>2 DEF Resolves, Keeps, Answers, Goes
    <3>2. CASE ~Resolves(c)
      <4>1. loc'[c].tool = loc[c].tool /\ loc'[c].up = loc[c].up /\ loc[c].tool \in VaultTools
        BY <1>1, <2>2, <3>2, Movers DEF SameCall
      <4>2. /\ pc[c] = "dispense" => loc[c].up \in Urls
            /\ Is(c, "call") => loc[c].cred = loc[c].up /\ loc[c].up \in Urls
            /\ loc[c].called => ShownTheCredential(c)
        BY <4>1 DEF VaultInv
      <4>3. CASE Decides(c)
        <5>1. loc'[c].called = loc[c].called /\ loc'[c].sent = loc[c].sent
          BY <4>3 DEF Decides, Keeps, SameFault
        <5>2. \/ pc'[c] = "append" /\ writing'[c].kind = "refused"
              \/ pc'[c] = "dispense" /\ loc[c].up \in Urls
              \/ pc'[c] = "append" /\ pc[c] = "dispense" /\ loc'[c].cred = loc[c].up
          BY <4>1, <4>3 DEF Decides, Records, Goes
        <5>3. ShownTheCredential(c) => ShownTheCredential(c)'
          BY <4>1, <5>1 DEF ShownTheCredential
        <5> QED
          BY <2>2, <4>1, <4>2, <5>1, <5>2, <5>3 DEF Is
      <4>4. CASE Meets(c)
        <5>1. /\ loc[c].cred = loc[c].up /\ loc[c].up \in Urls /\ loc[c].cred # NoUpstream
              /\ loc[c].header \in CredHeaders
          BY <4>2, <4>4, UpstreamsAssumption DEF Meets, CallInv, CallTypes, Locals
        <5>2. ASSUME loc'[c].called PROVE ShownTheCredential(c)'
          <6>1. loc'[c].sent = OfAgent(Carries[c] \ {loc[c].header})
                                 \cup {<<loc[c].header, loc[c].up>>}
            BY <4>4, <5>1, <5>2 DEF Meets, Outgoing
          <6>2. \A p \in OfAgent(Carries[c] \ {loc[c].header}) : p[1] # loc[c].header /\ p[2] = "agent"
            BY DEF OfAgent
          <6>3. <<loc[c].header, loc[c].up>> \in loc'[c].sent
            BY ONLY <6>1
          <6>4. ASSUME NEW p \in loc'[c].sent
                PROVE  /\ p[1] = loc[c].header => p[2] = loc[c].up
                       /\ p[2] \in {loc[c].up, "agent"}
            <7>1. CASE p \in OfAgent(Carries[c] \ {loc[c].header})
              BY ONLY <6>2, <7>1
            <7>2. CASE p = <<loc[c].header, loc[c].up>>
              BY ONLY <7>2
            <7> QED
              BY ONLY <6>1, <6>4, <7>1, <7>2
          <6> QED
            BY <4>1, <5>1, <6>3, <6>4 DEF ShownTheCredential
        <5>3. \/ pc'[c] \in {"ended", "upstream", "rpc"}
              \/ pc'[c] = "append" /\ writing'[c].kind \in {"fault", "error"}
          BY <4>4 DEF Meets, Records, Goes, Answers
        <5> QED
          BY <2>2, <4>1, <5>2, <5>3 DEF Is
      <4>5. CASE Reports(c) \/ Hears(c) \/ Serves(c)
        <5>1. loc'[c] = loc[c]
          BY <4>5 DEF Reports, Hears, Serves, Keeps
        <5>2. \/ pc'[c] \in {"ended", "rpc", "reading", "relay"}
              \/ pc'[c] = "append" /\ writing'[c].kind \in {"fault", "error", "result"}
          BY <4>5 DEF Reports, Hears, Serves, Records, Goes, Answers
        <5>3. ShownTheCredential(c) => ShownTheCredential(c)'
          BY <5>1 DEF ShownTheCredential
        <5> QED
          BY <2>2, <4>2, <5>1, <5>2, <5>3 DEF Is
      <4> QED
        BY <3>2, <4>3, <4>4, <4>5 DEF Moves
    <3> QED
      BY <3>1, <3>2
  <2> QED
    BY <2>1, <2>2
<1> QED
  BY <1>1 DEF VaultInv

-----------------------------------------------------------------------------
(* Claims.                                                                 *)

(* A prefix agrees line by line, and stays one when a line is added.       *)
LEMMA PrefixLines ==
  ASSUME NEW S, NEW s \in Seq(S), NEW u \in Seq(S)
  PROVE  IsPrefix(s, u) <=> Len(s) <= Len(u) /\ \A i \in 1..Len(s) : s[i] = u[i]
<1> PICK m \in Nat, n \in Nat : m = Len(s) /\ n = Len(u)
  OBVIOUS
<1>1. CASE m <= n
  <2>1. 1 \in 1..m + 1 /\ 1 \in 1..n + 1 /\ m \in 0..m /\ m \in 0..n /\ 1 <= m + 1
    BY <1>1
  <2>2. /\ SubSeq(s, 1, m) \in Seq(S) /\ Len(SubSeq(s, 1, m)) = m - 1 + 1
        /\ \A i \in 1..m - 1 + 1 : SubSeq(s, 1, m)[i] = s[1 + i - 1]
    BY <2>1, Stretch
  <2>3. /\ SubSeq(u, 1, m) \in Seq(S) /\ Len(SubSeq(u, 1, m)) = m - 1 + 1
        /\ \A i \in 1..m - 1 + 1 : SubSeq(u, 1, m)[i] = u[1 + i - 1]
    BY <2>1, Stretch
  <2> DEFINE a == SubSeq(s, 1, m)
             b == SubSeq(u, 1, m)
  <2>4. /\ a \in Seq(S) /\ Len(a) = m /\ \A i \in 1..m : a[i] = s[i]
        /\ b \in Seq(S) /\ Len(b) = m /\ \A i \in 1..m : b[i] = u[i]
    <3>1. m - 1 + 1 = m /\ \A i \in 1..m : 1 + i - 1 = i
      OBVIOUS
    <3> HIDE DEF a, b
    <3> QED
      BY <2>2, <2>3, <3>1 DEF a, b
  <2> HIDE DEF a, b
  <2>5. a = b <=> \A i \in 1..m : a[i] = b[i]
    <3>1. (\A i \in 1..Len(a) : a[i] = b[i]) => a = b
      BY <2>4, SeqEqual
    <3> QED
      BY <2>4, <3>1
  <2> QED
    BY <1>1, <2>4, <2>5 DEF IsPrefix, a, b
<1>2. CASE ~(m <= n)
  BY <1>2 DEF IsPrefix
<1> QED
  BY <1>1, <1>2

LEMMA PrefixOfMore ==
  ASSUME NEW S, NEW s \in Seq(S), NEW u \in Seq(S), NEW x \in S, IsPrefix(s, u)
  PROVE  IsPrefix(s, Append(u, x))
<1> PICK m \in Nat, n \in Nat : m = Len(s) /\ n = Len(u)
  OBVIOUS
<1>1. m <= n /\ \A i \in 1..m : s[i] = u[i]
  BY PrefixLines
<1>2. /\ Append(u, x) \in Seq(S) /\ Len(Append(u, x)) = n + 1
      /\ \A i \in 1..n : Append(u, x)[i] = u[i]
  BY AppendProperties
<1>3. m <= n + 1 /\ \A i \in 1..m : s[i] = Append(u, x)[i]
  <2>1. \A i \in 1..m : i \in 1..n
    BY <1>1
  <2> QED
    BY <1>1, <1>2, <2>1
<1> QED
  BY <1>2, <1>3, PrefixLines

LEMMA PrefixOfItself == ASSUME NEW S, NEW s \in Seq(S) PROVE IsPrefix(s, s)
  BY DEF IsPrefix

(* A file only grows while a call moves.                                   *)
LEMMA FilesGrow ==
  ASSUME CallInv, NEW c \in Calls, Moves(c), Alone(c),
         NEW r \in Runs, NEW w \in Writers, NEW s \in Seq(TraceLine), IsPrefix(s, trace[r][w])
  PROVE  IsPrefix(s, trace'[r][w])
<1>1. CASE trace'[r][w] = trace[r][w]
  BY <1>1
<1>2. CASE pc[c] = "append" /\ w = c /\ r = Under(c)
  <2>1. trace'[r][w] = Append(trace[r][w], writing[c])
    BY <1>2 DEF Alone
  <2>2. trace[r][w] \in Seq(TraceLine) /\ writing[c] \in TraceLine
    BY <1>2, FaultsAssumption DEF CallInv, RunTypes, Taken
  <2> QED
    BY <2>1, <2>2, PrefixOfMore
<1> QED
  BY <1>1, <1>2 DEF Alone

LEMMA CallKeepsClaims ==
  ASSUME CallInv, ClaimInv, NEW c \in Calls, Moves(c), Alone(c)
  PROVE  ClaimInv'
<1>1. ClaimTypes'
  BY DEF ClaimInv, ClaimTypes, Alone
<1>2. ASSUME NEW k \in Claims PROVE ClaimStage(k)'
  <2>1. ClaimStage(k)
    BY DEF ClaimInv
  <2>2. k \in Writers \ {c} /\ kpc' = kpc /\ kloc' = kloc /\ known' = known
    BY WritersAssumption DEF Alone
  <2>3. \A q \in Runs : trace'[q][k] = trace[q][k]
    BY <2>2 DEF Alone
  <2>4. writing'[k] = writing[k]
    BY <2>2 DEF Alone
  <2>5. kloc[k].before \subseteq Calls /\ kloc[k].derived \in [Writers -> Seq(TraceLine)]
    BY DEF ClaimInv, ClaimTypes, ClaimLocals
  <2>6. ASSUME kpc[k] # "idle", NEW d \in kloc[k].before
        PROVE  Under(d)' = Under(d) /\ pc'[d] = pc[d] /\ Lines(d)' = Lines(d)
    <3>1. pc[d] = "ended" /\ d \in Calls
      BY <2>1, <2>5, <2>6 DEF ClaimStage
    <3>2. d # c
      BY <3>1, Movers
    <3>3. pc'[d] = pc[d] /\ loc'[d] = loc[d] /\ answer'[d] = answer[d]
      BY <3>1, <3>2 DEF Alone
    <3> QED
      BY <3>3 DEF Under, Lines
  <2>7. kpc[k] = "upload" =>
          \A w \in Writers : IsPrefix(kloc[k].derived[w], trace'[kloc[k].run][w])
    <3> SUFFICES ASSUME kpc[k] = "upload", NEW w \in Writers
                 PROVE  IsPrefix(kloc[k].derived[w], trace'[kloc[k].run][w])
      OBVIOUS
    <3>1. /\ kloc[k].run \in Runs /\ kloc[k].derived[w] \in Seq(TraceLine)
          /\ IsPrefix(kloc[k].derived[w], trace[kloc[k].run][w])
      BY <2>1, <2>5 DEF ClaimStage
    <3> QED
      BY <3>1, FilesGrow
  <2> QED
    BY <2>1, <2>2, <2>3, <2>4, <2>6, <2>7 DEF ClaimStage
<1> QED
  BY <1>1, <1>2 DEF ClaimInv

-----------------------------------------------------------------------------
(* The stdio servers.                                                      *)

(* A call takes an id when it goes to its server, and speaks to it while   *)
(* it waits there; no other step of a call touches a server.               *)
Speaks(c, s) ==
  \/ Stdio!WriteLine(c, s, {<<want[c], c>>}) \/ Stdio!WriteLine(c, s, {}) \/ Stdio!Drain(c, s)
  \/ Stdio!SkipAnswer(c, s) \/ Stdio!Notify(c, s) \/ Stdio!ReadAnswer(c, s)
  \/ Stdio!GiveUp(c, s) \/ Stdio!Break(c, s)

LEMMA ServerMoves ==
  ASSUME CallInv, NEW c \in Calls, Acts(c)
  PROVE  \/ UNCHANGED serverVars /\ pc'[c] # "rpc"
         \/ /\ Stdio!Enqueue(c, loc[c].up)
            /\ Is(c, "call") /\ loc[c].up \in Servers /\ pc'[c] = "rpc"
         \/ /\ pc[c] = "rpc" /\ loc' = loc /\ loc[c].up \in Servers
            /\ Speaks(c, loc[c].up)
<1>1. /\ \A where : Goto(c, where) => pc'[c] = where
      /\ \A status : End(c, status) => pc'[c] = "ended"
  BY DEF CallInv, CallTypes, Goto, End
<1>2. ASSUME LineWritten(c)
      PROVE  \/ UNCHANGED serverVars /\ pc'[c] # "rpc"
             \/ /\ Stdio!Enqueue(c, loc[c].up)
                /\ Is(c, "call") /\ loc[c].up \in Servers /\ pc'[c] = "rpc"
  <2>1. pc[c] = "append"
    BY <1>2 DEF LineWritten
  <2>2. CASE RefusedWritten(c) \/ FaultWritten(c) \/ ResultWritten(c) \/ ErrorWritten(c)
    BY ZenonT(60), <1>1, <2>1, <2>2 DEF RefusedWritten, FaultWritten, ResultWritten, ErrorWritten, serverVars
  <2>3. CASE CallWritten(c)
    <3> DEFINE spec == FaultForCall(Under(c), loc[c].tool)
    <3>1. \/ UNCHANGED serverVars /\ (\E p \in {"upstream", "append"} : Goto(c, p))
          \/ UNCHANGED serverVars /\ End(c, 400)
          \/ UNCHANGED serverVars /\ ApplyFault(c, spec)
          \/ loc[c].up \in alive /\ Stdio!Enqueue(c, loc[c].up) /\ Goto(c, "rpc")
      BY <2>3 DEF CallWritten
    <3>2. Is(c, "call") /\ alive \subseteq Servers
      BY <2>1, <2>3 DEF CallWritten, Is, CallInv, CallTypes
    <3> HIDE DEF spec
    <3> QED
      BY <1>1, <3>1, <3>2 DEF ApplyFault
  <2> QED
    BY <1>2, <2>2, <2>3 DEF LineWritten
<1>3. ASSUME Rpc(c) \/ Drained(c)
      PROVE  /\ pc[c] = "rpc" /\ loc' = loc /\ loc[c].up \in Servers
             /\ Speaks(c, loc[c].up)
  <2>1. pc[c] = "rpc" /\ loc' = loc
    BY <1>3 DEF Rpc, Drained
  <2>2. loc[c].up \in Servers
    BY <2>1 DEF CallInv, Taken
  <2> QED
    BY <1>3, <2>1, <2>2 DEF Rpc, Drained, Speaks, Stdio!WriteRequest, Stdio!WriteNotice
<1>4. ASSUME Resolve(c) PROVE UNCHANGED serverVars /\ pc'[c] # "rpc"
  BY ZenonT(60), <1>1, <1>4 DEF Resolve, serverVars
<1>5. ASSUME Body(c) \/ Dispense(c) PROVE UNCHANGED serverVars /\ pc'[c] # "rpc"
  BY <1>1, <1>5 DEF Body, Dispense, Govern, Refuse, serverVars
<1>6. ASSUME Upstream(c) \/ ReadBody(c) \/ Relay(c) PROVE UNCHANGED serverVars /\ pc'[c] # "rpc"
  <2>1. UNCHANGED serverVars
    BY <1>6 DEF Upstream, ReadBody, Relay, serverVars
  <2>2. \/ \E p \in {"append", "relay", "reading"} : Goto(c, p)
        \/ \E status : End(c, status)
    BY ZenonT(60), <1>6 DEF Upstream, ReadBody, Relay, Failed, AnsweredUnderFault, ApplyFault
  <2> QED
    BY <1>1, <2>1, <2>2
<1> QED
  BY <1>2, <1>3, <1>4, <1>5, <1>6 DEF Acts, CallStep

(* A call with an id stays with its server, and does not go back.          *)
LEMMA AskersStay ==
  ASSUME CallInv, StdioInv, NEW c \in Calls, Moves(c), Alone(c), NEW d \in Calls, want[d] # 0
  PROVE  /\ loc'[d].up = loc[d].up /\ Under(d)' # NoRun /\ loc'[d].up \in Servers
         /\ pc'[d] \notin {"body", "dispense"} /\ ~Is(d, "call")'
<1>1. Under(d) # NoRun /\ pc[d] \notin {"body", "dispense"} /\ ~Is(d, "call") /\ loc[d].up \in Servers
  BY DEF StdioInv, Asking
<1>2. CASE d # c
  <2>1. pc'[d] = pc[d] /\ loc'[d] = loc[d] /\ writing'[d] = writing[d]
    BY <1>2, WritersAssumption DEF Alone
  <2> QED
    BY <1>1, <2>1 DEF Is, Under
<1>3. CASE d = c
  <2>1. ~Resolves(c) /\ SameCall(c)
    BY <1>1, <1>3, Movers
  <2>2. ~Decides(c) /\ ~Meets(c)
    BY <1>1, <1>3 DEF Decides, Meets
  <2>3. pc'[c] \notin {"body", "dispense"} /\ ~Is(c, "call")'
    BY <2>1, <2>2 DEF Moves, Reports, Hears, Serves, Records, Goes, Answers, Is
  <2> QED
    BY <1>1, <1>3, <2>1, <2>3 DEF SameCall, Under
<1> QED
  BY <1>2, <1>3

(* What each step of a server's caller keeps.                              *)
LEMMA SameServersKeep ==
  ASSUME CallInv, StdioInv, NEW c \in Calls, Moves(c), Alone(c),
         UNCHANGED serverVars, pc'[c] # "rpc"
  PROVE  StdioInv'
<1>1. UNCHANGED <<queue, ids, want, asked, owed, pipe, heard>>
  BY DEF serverVars
<1>2. StdioTypes'
  BY <1>1 DEF StdioInv, StdioTypes
<1>3. ASSUME NEW d \in Calls PROVE Asking(d)'
  <2>1. pc'[d] = "rpc" => pc[d] = "rpc"
    BY DEF Alone
  <2>2. Asking(d)
    BY DEF StdioInv
  <2> QED
    BY <1>1, <2>1, <2>2, AskersStay DEF Asking
<1>4. OwnIds'
  BY <1>1, AskersStay DEF StdioInv, OwnIds
<1>5. ASSUME NEW s \in Servers, NEW a \in Nat \X Calls, Fits(a, s) PROVE Fits(a, s)'
  BY <1>1, <1>5, AskersStay DEF Fits
<1>6. OwnAnswers'
  BY <1>1, <1>5 DEF StdioInv, StdioTypes, OwnAnswers
<1> QED
  BY <1>2, <1>3, <1>4, <1>6 DEF StdioInv

LEMMA EnqueueKeeps ==
  ASSUME CallInv, StdioInv, NEW c \in Calls, Moves(c), Alone(c), Stdio!Enqueue(c, loc[c].up),
         Is(c, "call"), loc[c].up \in Servers, pc'[c] = "rpc"
  PROVE  StdioInv'
<1> PICK s \in Servers : s = loc[c].up
  OBVIOUS
<1>1. /\ ids' = [ids EXCEPT ![s] = ids[s] + 1] /\ want' = [want EXCEPT ![c] = ids[s] + 1]
      /\ queue' = [queue EXCEPT ![s] = Append(queue[s], c)]
      /\ UNCHANGED <<asked, owed, pipe, heard>>
  BY DEF Stdio!Enqueue
<1>2. StdioTypes
  BY DEF StdioInv
<1>3. StdioTypes'
  BY SMTT(30), <1>1, <1>2 DEF StdioTypes
<1>4. /\ ids'[s] = ids[s] + 1 /\ \A q \in Servers : q # s => ids'[q] = ids[q]
      /\ want'[c] = ids[s] + 1 /\ \A d \in Calls : d # c => want'[d] = want[d]
      /\ \A q \in Servers : ids[q] \in Nat
      /\ \A d \in Calls : want[d] \in Nat
  BY <1>1, <1>2 DEF StdioTypes
<1>5. want[c] = 0
  BY DEF StdioInv, Asking
<1>6. /\ Under(c)' = Under(c) /\ loc'[c].up = s /\ Under(c) # NoRun
  BY Movers, FaultsAssumption DEF Resolves, Is, SameCall, Under
<1>7. ASSUME NEW d \in Calls, d # c, want[d] # 0
      PROVE  loc'[d].up = loc[d].up /\ loc[d].up \in Servers /\ want[d] <= ids[loc[d].up]
  BY <1>7 DEF StdioInv, Asking, Alone
<1>8. ASSUME NEW d \in Calls PROVE Asking(d)'
  <2>1. CASE d = c
    BY <1>4, <1>6, <2>1 DEF Asking, Is, Under
  <2>2. CASE d # c
    <3>1. pc'[d] = pc[d] /\ want'[d] = want[d] /\ Asking(d)
      BY <1>4, <2>2 DEF Alone, StdioInv
    <3>2. want[d] # 0 => want[d] <= ids'[loc'[d].up]
      BY <1>4, <1>7, <2>2
    <3> QED
      BY <3>1, <3>2, AskersStay DEF Asking
  <2> QED
    BY <2>1, <2>2
<1>9. ASSUME NEW d \in Calls, d # c, want'[d] = want'[c], loc'[d].up = s PROVE FALSE
  BY <1>4, <1>7, <1>9
<1>10. OwnIds'
  <2> SUFFICES ASSUME NEW a \in Calls, NEW d \in Calls,
                      want'[a] # 0, want'[a] = want'[d], loc'[a].up = loc'[d].up
               PROVE  a = d
    BY DEF OwnIds
  <2>1. CASE a = c \/ d = c
    BY <1>6, <1>9, <2>1
  <2>2. CASE a # c /\ d # c
    BY <1>4, <1>7, <2>2 DEF StdioInv, OwnIds
  <2> QED
    BY <2>1, <2>2
<1>11. ASSUME NEW q \in Servers, NEW a \in Nat \X Calls, Fits(a, q) PROVE Fits(a, q)'
  <2>1. a[2] \in Calls /\ a[2] # c /\ want[a[2]] # 0
    BY <1>5, <1>11 DEF Fits
  <2> QED
    BY <1>4, <1>7, <1>11, <2>1 DEF Fits
<1>12. OwnAnswers'
  BY <1>1, <1>2, <1>11 DEF StdioInv, StdioTypes, OwnAnswers
<1> QED
  BY <1>3, <1>8, <1>10, <1>12 DEF StdioInv

(* What a caller reads is its own: the ids say so.                         *)
LEMMA SpeakingKeeps ==
  ASSUME CallInv, StdioInv, NEW c \in Calls, Moves(c), Alone(c), pc[c] = "rpc", loc' = loc,
         NEW s \in Servers, s = loc[c].up, Speaks(c, s)
  PROVE  StdioInv'
<1>1. StdioTypes /\ want[c] # 0 /\ OwnAnswers /\ OwnIds
  BY DEF StdioInv, Asking
<1>2. ids' = ids /\ want' = want
  BY DEF Speaks, Stdio!WriteLine, Stdio!Drain, Stdio!SkipAnswer, Stdio!Notify, Stdio!ReadAnswer,
         Stdio!GiveUp, Stdio!Break
<1>3. ASSUME NEW d \in Calls PROVE Asking(d)'
  <2>1. Asking(d) /\ (pc'[d] = "rpc" => pc[d] = "rpc")
    BY DEF Alone, StdioInv
  <2> QED
    BY <1>2, <2>1, AskersStay DEF Asking
<1>4. OwnIds'
  BY <1>1, <1>2 DEF OwnIds
<1>5. \A q \in Servers : \A a : Fits(a, q)' <=> Fits(a, q)
  BY <1>2 DEF Fits
<1>6. ASSUME \/ Stdio!SkipAnswer(c, s) \/ Stdio!ReadAnswer(c, s)
      PROVE  /\ pipe[s] # <<>> /\ pipe' = [pipe EXCEPT ![s] = Tail(pipe[s])] /\ owed' = owed
             /\ \/ queue' = queue /\ asked' = asked /\ heard' = heard
                \/ /\ queue[s] # <<>> /\ queue' = [queue EXCEPT ![s] = Tail(queue[s])]
                   /\ asked' = asked \ {c} /\ heard' = [heard EXCEPT ![c] = Head(pipe[s])[2]]
                   /\ Head(pipe[s])[1] = want[c]
  BY <1>6 DEF Stdio!SkipAnswer, Stdio!ReadAnswer, Stdio!Holds, Stdio!Unlock, Stdio!Matches
<1>7. ASSUME \/ Stdio!Notify(c, s) \/ Stdio!GiveUp(c, s) \/ Stdio!Break(c, s)
      PROVE  /\ pipe' = pipe /\ owed' = owed /\ heard' = heard
             /\ queue[s] # <<>> /\ queue' = [queue EXCEPT ![s] = Tail(queue[s])]
             /\ asked' = asked \ {c}
  BY <1>7 DEF Stdio!Notify, Stdio!GiveUp, Stdio!Break, Stdio!Draining, Stdio!Holds, Stdio!Unlock
<1>8. ASSUME queue[s] # <<>>, queue' = [queue EXCEPT ![s] = Tail(queue[s])]
       PROVE  queue' \in [Servers -> Seq(Calls)]
  <2>1. queue \in [Servers -> Seq(Calls)] /\ queue[s] \in Seq(Calls)
    BY <1>1 DEF StdioTypes
  <2>2. Tail(queue[s]) \in Seq(Calls)
    BY <1>8, <2>1
  <2> QED
    BY <1>8, <2>1, <2>2
<1>9. asked' \subseteq Calls /\ asked \subseteq Calls
  BY <1>1 DEF StdioTypes, Speaks, Stdio!WriteLine, Stdio!Drain, Stdio!SkipAnswer, Stdio!Notify,
              Stdio!ReadAnswer, Stdio!GiveUp, Stdio!Break, Stdio!Unlock
<1>10. CASE \/ Stdio!WriteLine(c, s, {<<want[c], c>>}) \/ Stdio!WriteLine(c, s, {})
            \/ Stdio!Drain(c, s)
  <2>0. owed \in [Servers -> SUBSET (Nat \X Calls)]
    BY <1>1 DEF StdioTypes
  <2>1. /\ \E due \in {{<<want[c], c>>}, {}} : owed' = [owed EXCEPT ![s] = owed[s] \cup due]
        /\ queue' = queue /\ pipe' = pipe /\ heard' = heard
    <3>1. CASE Stdio!Drain(c, s)
      <4>1. owed = [owed EXCEPT ![s] = owed[s] \cup {}]
        BY <2>0
      <4> QED
        BY <3>1, <4>1 DEF Stdio!Drain
    <3>2. CASE Stdio!WriteLine(c, s, {<<want[c], c>>}) \/ Stdio!WriteLine(c, s, {})
      BY <3>2 DEF Stdio!WriteLine
    <3> QED
      BY <1>10, <3>1, <3>2
  <2> PICK due \in {{<<want[c], c>>}, {}} : owed' = [owed EXCEPT ![s] = owed[s] \cup due]
    BY <2>1
  <2>2. <<want[c], c>> \in Nat \X Calls /\ Fits(<<want[c], c>>, s)
    BY <1>1 DEF StdioTypes, Fits
  <2>3. StdioTypes'
    <3>1. owed' \in [Servers -> SUBSET (Nat \X Calls)]
      <4>1. owed[s] \cup due \in SUBSET (Nat \X Calls)
        BY <2>0, <2>2
      <4> QED
        BY <2>0, <4>1
    <3> QED
      BY <1>1, <1>2, <1>9, <2>1, <3>1 DEF StdioTypes
  <2>4. \A q \in Servers : \A a \in owed'[q] : Fits(a, q)
    BY <1>1, <2>0, <2>2 DEF OwnAnswers
  <2>5. OwnAnswers'
    BY <1>1, <1>5, <2>1, <2>4 DEF OwnAnswers
  <2> QED
    BY <1>3, <1>4, <2>3, <2>5 DEF StdioInv
<1>11. CASE \/ Stdio!SkipAnswer(c, s) \/ Stdio!ReadAnswer(c, s)
  <2> PICK p \in Seq(Nat \X Calls) : p = pipe[s] /\ p # <<>>
    BY <1>1, <1>6, <1>11 DEF StdioTypes
  <2>1. /\ Tail(p) \in Seq(Nat \X Calls) /\ Head(p) = p[1] /\ 1 \in DOMAIN p
        /\ \A i \in DOMAIN Tail(p) : i + 1 \in DOMAIN p /\ Tail(p)[i] = p[i + 1]
    BY SMTT(30)
  <2>2. \A i \in DOMAIN p : Fits(p[i], s)
    BY <1>1 DEF OwnAnswers
  <2>3. queue' \in [Servers -> Seq(Calls)]
    BY <1>1, <1>6, <1>11, <1>8 DEF StdioTypes
  <2>4. heard' = heard
    <3>1. CASE /\ heard' = [heard EXCEPT ![c] = Head(p)[2]]
               /\ Head(p)[1] = want[c]
      <4>1. Fits(p[1], s) /\ p[1] \in Nat \X Calls
        BY <2>1, <2>2
      <4>2. p[1][2] = c
        BY ZenonT(60), <1>1, <2>1, <3>1, <4>1 DEF Fits, OwnIds
      <4> QED
        BY <1>1, <2>1, <3>1, <4>2 DEF StdioTypes
    <3> QED
      BY <1>6, <1>11, <3>1
  <2>5. StdioTypes'
    <3>1. pipe' \in [Servers -> Seq(Nat \X Calls)] /\ owed' = owed
      <4>1. pipe' = [pipe EXCEPT ![s] = Tail(p)] /\ owed' = owed
        BY <1>6, <1>11
      <4>2. pipe \in [Servers -> Seq(Nat \X Calls)]
        BY <1>1 DEF StdioTypes
      <4> QED
        BY ONLY <2>1, <4>1, <4>2
    <3> QED
      BY <1>1, <1>2, <1>9, <2>3, <2>4, <3>1 DEF StdioTypes
  <2>6. ASSUME NEW q \in Servers, NEW i \in DOMAIN pipe'[q] PROVE Fits(pipe'[q][i], q)
    <3>1. CASE q = s
      <4>1. pipe'[q] = Tail(p)
        BY <1>1, <1>6, <1>11, <3>1 DEF StdioTypes
      <4> QED
        BY ZenonT(60), <2>1, <2>2, <2>6, <3>1, <4>1
    <3>2. CASE q # s
      BY <1>1, <1>6, <1>11, <2>6, <3>2 DEF StdioTypes, OwnAnswers
    <3> QED
      BY <3>1, <3>2
  <2>7. OwnAnswers'
    BY <1>1, <1>5, <1>6, <1>11, <2>6 DEF OwnAnswers
  <2> QED
    BY <1>3, <1>4, <2>5, <2>7 DEF StdioInv
<1>12. CASE \/ Stdio!Notify(c, s) \/ Stdio!GiveUp(c, s) \/ Stdio!Break(c, s)
  <2>1. StdioTypes'
    <3>1. queue' \in [Servers -> Seq(Calls)] /\ pipe' = pipe /\ owed' = owed /\ heard' = heard
      BY <1>7, <1>12, <1>8
    <3> QED
      BY <1>1, <1>2, <1>9, <3>1 DEF StdioTypes
  <2>2. OwnAnswers'
    BY <1>1, <1>5, <1>7, <1>12 DEF OwnAnswers
  <2> QED
    BY <1>3, <1>4, <2>1, <2>2 DEF StdioInv
<1> QED
  BY <1>10, <1>11, <1>12 DEF Speaks

LEMMA CallKeepsStdio ==
  ASSUME CallInv, StdioInv, NEW c \in Calls, Acts(c), Moves(c), Alone(c)
  PROVE  StdioInv'
BY ServerMoves, SameServersKeep, EnqueueKeeps, SpeakingKeeps

-----------------------------------------------------------------------------
(* The steps of a call keep the invariant.                                 *)
LEMMA CallKeepsRoute ==
  ASSUME RouteInv, NEW c \in Calls, Acts(c)
  PROVE  RouteInv'
<1>1. /\ CallInv /\ TraceInv /\ FaultInv /\ VaultInv /\ ClaimInv /\ StdioInv /\ TableInv
      /\ StepTypes' /\ Alone(c) /\ Moves(c) /\ alive' = alive
  BY CallMoves DEF RouteInv
<1>2. TableInv'
  BY <1>1 DEF TableInv, TableTypes, OnlyLostIsOrphaned, Alone
<1> QED
  BY <1>1, <1>2, CallKeepsTaken, CallKeepsTrace, CallKeepsFault, CallKeepsVault,
     CallKeepsClaims, CallKeepsStdio DEF RouteInv

(* What is not touched is kept.                                            *)
LEMMA QuietTrace ==
  ASSUME CallInv, TraceInv, UNCHANGED <<pc, loc, answer, counted, known>>,
         \A d \in Calls : writing'[d] = writing[d],
         \A r \in Runs, d \in Calls : trace'[r][d] = trace[r][d]
  PROVE  TraceInv'
<1>1. Own'
  BY DEF TraceInv, Own, Under
<1>2. ASSUME NEW d \in Calls, Under(d) # NoRun PROVE Progress(d)'
  <2>1. Under(d) \in Runs
    BY <1>2 DEF CallInv, CallTypes, Locals, Under
  <2>2. Said(d)' = Said(d) /\ (IsCounted(d)' <=> IsCounted(d))
    BY <2>1 DEF Said, IsCounted, Under
  <2>3. Lines(d)' = Lines(d) /\ Under(d)' = Under(d)
    BY DEF Lines, Under
  <2>4. \A kind : Is(d, kind)' <=> Is(d, kind)
    BY DEF Is
  <2> QED
    BY <1>2, <2>2, <2>3, <2>4 DEF Progress, TraceInv
<1> QED
  BY <1>1, <1>2 DEF TraceInv, Under

LEMMA QuietFault ==
  ASSUME FaultInv, UNCHANGED <<loc, counted, crossed>>
  PROVE  FaultInv'
BY DEF FaultInv, IsCounted, Under

LEMMA QuietVault ==
  ASSUME VaultInv, UNCHANGED <<pc, loc>>, \A d \in Calls : writing'[d] = writing[d]
  PROVE  VaultInv'
BY DEF VaultInv, Is, ShownTheCredential

LEMMA QuietStdio ==
  ASSUME StdioInv, UNCHANGED <<pc, loc, queue, ids, want, asked, owed, pipe, heard>>,
         \A d \in Calls : writing'[d] = writing[d]
  PROVE  StdioInv'
<1>1. StdioTypes' /\ OwnIds'
  BY DEF StdioInv, StdioTypes, OwnIds
<1>2. \A d \in Calls : Asking(d)'
  BY DEF StdioInv, Asking, Is, Under
<1>3. OwnAnswers'
  BY DEF StdioInv, OwnAnswers, Fits
<1> QED
  BY <1>1, <1>2, <1>3 DEF StdioInv

LEMMA QuietTable ==
  ASSUME TableInv, UNCHANGED <<alive, tools, gpc, gloc, raced, broken>>
  PROVE  TableInv'
BY DEF TableInv, TableTypes, OnlyLostIsOrphaned

LEMMA QuietTaken ==
  ASSUME CallInv, RunTypes', UNCHANGED <<pc, loc, answer, tools, started, known, alive>>,
         \A d \in Calls : writing'[d] = writing[d]
  PROVE  CallInv'
BY DEF CallInv, CallTypes, Taken, Under

LEMMA QuietClaim ==
  ASSUME ClaimInv, NEW k \in Claims, UNCHANGED <<pc, loc, answer>>,
         kpc'[k] = kpc[k], kloc'[k] = kloc[k], writing'[k] = writing[k],
         \A q \in Runs : trace'[q][k] = trace[q][k] \/ trace'[q][k] = <<>>,
         kpc[k] \notin {"idle", "ended"} =>
           kloc[k].run \in known' /\ trace'[kloc[k].run][k] = trace[kloc[k].run][k],
         kpc[k] = "upload" =>
           \A w \in Writers : IsPrefix(kloc[k].derived[w], trace'[kloc[k].run][w])
  PROVE  ClaimStage(k)'
<1>1. ClaimStage(k)
  BY DEF ClaimInv
<1>2. \A d : Under(d)' = Under(d) /\ Lines(d)' = Lines(d) /\ pc'[d] = pc[d]
  BY DEF Under, Lines
<1> QED
  BY <1>1, <1>2 DEF ClaimStage

-----------------------------------------------------------------------------
(* A run begins, and traces nobody waits for go.                           *)
LEMMA StartTypes ==
  ASSUME CallInv, NEW r \in Runs, NEW old \in SUBSET {q \in Runs : Prunable(q) /\ Untouched(q)},
         Start(r, old)
  PROVE  RunTypes'
<1>1. /\ armed \in Seq(Runs) /\ started \subseteq Runs /\ known \subseteq started
      /\ \A i \in DOMAIN armed : armed[i] \in known
      /\ trace \in [Runs -> [Writers -> Seq(TraceLine)]]
  BY DEF CallInv, RunTypes
<1>2. /\ armed' = Append(armed, r) /\ started' = started \cup {r} /\ known' = (known \cup {r}) \ old
      /\ r \notin started /\ counted' = counted /\ writing' = writing
      /\ trace' = [q \in Runs |-> IF q \in old THEN [w \in Writers |-> <<>>] ELSE trace[q]]
  BY DEF Start
<1>3. r \notin old /\ \A i \in DOMAIN armed : armed[i] \notin old
  <2>1. r \notin old
    BY <1>1, <1>2 DEF Prunable
  <2>2. ASSUME NEW i \in DOMAIN armed PROVE armed[i] \notin old
    <3>1. Contains(armed, armed[i])
      BY <1>1 DEF Contains
    <3> QED
      BY <3>1 DEF Prunable, IsArmed
  <2> QED
    BY <2>1, <2>2
<1>4. armed' \in Seq(Runs) /\ \A i \in DOMAIN armed' : armed'[i] \in known'
  <2> PICK n \in Nat : n = Len(armed)
    BY <1>1
  <2>1. /\ armed' \in Seq(Runs) /\ Len(armed') = n + 1 /\ DOMAIN armed = 1..n
        /\ DOMAIN armed' = 1..n + 1
        /\ \A i \in 1..n : armed'[i] = armed[i]
        /\ armed'[n + 1] = r
    <3>1. /\ Append(armed, r) \in Seq(Runs) /\ Len(Append(armed, r)) = Len(armed) + 1
          /\ \A i \in 1..Len(armed) : Append(armed, r)[i] = armed[i]
          /\ Append(armed, r)[Len(armed) + 1] = r
      BY <1>1, AppendProperties
    <3> QED
      BY <1>1, <1>2, <3>1
  <2>2. \A i \in 1..n + 1 : i \in 1..n \/ i = n + 1
    OBVIOUS
  <2> QED
    BY <1>1, <1>2, <1>3, <2>1, <2>2
<1>5. trace' \in [Runs -> [Writers -> Seq(TraceLine)]]
  BY <1>1, <1>2
<1>6. started' \subseteq Runs /\ known' \subseteq started'
  BY <1>1, <1>2
<1> QED
  BY <1>2, <1>4, <1>5, <1>6 DEF RunTypes, CallInv

LEMMA StartKeepsRoute ==
  ASSUME RouteInv, StartRun
  PROVE  RouteInv'
<1>0. CallInv /\ TraceInv /\ FaultInv /\ VaultInv /\ ClaimInv /\ StdioInv /\ TableInv
  BY DEF RouteInv
<1> PICK r \in Runs, old \in SUBSET {q \in Runs : Prunable(q) /\ Untouched(q)} : Start(r, old)
  BY DEF StartRun
<1>1. /\ UNCHANGED <<alive, queue, ids, want, asked, owed, pipe, heard, pc, loc, answer, crossed,
                     tools, sim, kpc, kloc, gpc, gloc, raced, broken, counted, writing>>
      /\ started' = started \cup {r} /\ known' = (known \cup {r}) \ old /\ r \notin started
      /\ trace' = [q \in Runs |-> IF q \in old THEN [w \in Writers |-> <<>>] ELSE trace[q]]
  BY DEF StartRun, Start, serverVars, callVars, otherVars, leaks
<1>2. RunTypes'
  BY <1>0, StartTypes
<1>3. \A c \in Calls : Under(c) \in old => pc[c] = "ended"
  BY DEF Untouched
<1>4. \A k \in Claims : kloc[k].run \in old => kpc[k] = "ended"
  BY DEF Untouched
<1>5. CallInv'
  <2>1. CallTypes'
    BY <1>0, <1>1 DEF CallInv, CallTypes
  <2>2. Taken'
    <3> SUFFICES ASSUME NEW c \in Calls
                 PROVE  /\ pc[c] = "idle" => answer[c] = 0
                        /\ Under(c) = NoRun =>
                             /\ loc[c] = NoLocals
                             /\ pc[c] = "idle" \/ (pc[c] = "ended" /\ answer[c] \in {404, 503})
                        /\ Under(c) # NoRun =>
                             /\ pc[c] # "idle" /\ Under(c) \in started' /\ loc[c].tool \in Tools
                             /\ loc[c].up \in Urls \cup Servers
                             /\ pc[c] # "ended" => Under(c) \in known'
                             /\ pc[c] = "append" => writing[c] \in TraceLine /\ writing[c].kind # "claim"
                             /\ pc[c] \in {"upstream", "reading", "relay"} => loc[c].up \in Urls
                             /\ pc[c] = "rpc" => loc[c].up \in Servers
      BY <1>1 DEF Taken, Under
    <3> QED
      BY <1>0, <1>1, <1>3 DEF CallInv, Taken
  <2> QED
    BY <1>2, <2>1, <2>2 DEF CallInv
<1>6. TraceInv'
  <2>1. Own'
    <3>1. \A q \in Runs, d \in Calls : trace'[q][d] = trace[q][d] \/ trace'[q][d] = <<>>
      BY <1>1, WritersAssumption
    <3> QED
      BY <1>0, <1>1, <3>1 DEF TraceInv, Own, Under
  <2>2. ASSUME NEW d \in Calls, Under(d) # NoRun PROVE Progress(d)'
    <3>1. Under(d) \in started /\ Under(d) \in Runs /\ Progress(d)
      BY <1>0, <2>2 DEF CallInv, CallTypes, Locals, Taken, TraceInv, Under
    <3>2. Under(d) \in known' => Under(d) \in known /\ Under(d) \notin old
      BY <1>1, <3>1
    <3>3. Under(d) \notin old => Said(d)' = Said(d)
      BY <1>1, <3>1 DEF Said, Under
    <3>4. IsCounted(d)' <=> IsCounted(d)
      BY <1>1 DEF IsCounted, Under
    <3>5. Lines(d)' = Lines(d) /\ Under(d)' = Under(d)
      BY <1>1 DEF Lines, Under
    <3>6. \A kind : Is(d, kind)' <=> Is(d, kind)
      BY <1>1 DEF Is
    <3>7. pc'[d] = pc[d] /\ loc'[d] = loc[d] /\ answer'[d] = answer[d]
      BY <1>1
    <3>8. CASE pc[d] # "ended"
      <4>1. Said(d)' = Said(d)
        BY <1>3, <3>3, <3>8
      <4> QED
        BY <3>1, <3>4, <3>6, <3>7, <3>8, <4>1 DEF Progress
    <3>9. CASE pc[d] = "ended"
      <4>1. /\ IsCounted(d) <=> \/ answer[d] \in {200, 403, 502}
                                \/ answer[d] \in {499, 500} /\ loc[d].up \in Urls
            /\ answer[d] \notin {404, 503}
            /\ answer[d] \in {200, 502} => loc[d].matched
            /\ Under(d) \in known => Said(d) \in Lines(d)
        BY <3>1, <3>9 DEF Progress
      <4>2. Under(d) \in known' => Said(d)' \in Lines(d)'
        BY <3>2, <3>3, <3>5, <4>1
      <4> QED
        BY <3>4, <3>5, <3>6, <3>7, <3>9, <4>1, <4>2 DEF Progress, Is
    <3> QED
      BY <3>8, <3>9
  <2> QED
    BY <1>1, <2>1, <2>2 DEF TraceInv, Under
<1>7. FaultInv' /\ VaultInv' /\ StdioInv' /\ TableInv'
  BY <1>0, <1>1, QuietFault, QuietVault, QuietStdio, QuietTable
<1>8. ASSUME NEW k \in Claims PROVE ClaimStage(k)'
  <2>1. \A q \in Runs : trace'[q][k] = trace[q][k] \/ trace'[q][k] = <<>>
    BY <1>1, WritersAssumption
  <2>2. kpc[k] \notin {"idle", "ended"} =>
          kloc[k].run \in known' /\ trace'[kloc[k].run] = trace[kloc[k].run]
    BY <1>0, <1>1, <1>4 DEF ClaimInv, ClaimStage
  <2>3. kpc[k] = "upload" =>
          \A w \in Writers : IsPrefix(kloc[k].derived[w], trace'[kloc[k].run][w])
    BY <1>0, <2>2 DEF ClaimInv, ClaimStage
  <2> QED
    BY <1>0, <1>1, <2>1, <2>2, <2>3, QuietClaim
<1>9. ClaimInv'
  BY <1>0, <1>1, <1>8 DEF ClaimInv, ClaimTypes
<1> QED
  BY <1>5, <1>6, <1>7, <1>9 DEF RouteInv

LEMMA SimulateKeepsRoute ==
  ASSUME RouteInv, Simulate
  PROVE  RouteInv'
<1>1. /\ CallInv /\ TraceInv /\ FaultInv /\ VaultInv /\ ClaimInv /\ StdioInv /\ TableInv
      /\ UNCHANGED <<armed, started, known, counted, writing, trace>>
      /\ UNCHANGED <<alive, queue, ids, want, asked, owed, pipe, heard, pc, loc, answer, crossed,
                     tools, kpc, kloc, gpc, gloc, raced, broken>>
  BY DEF RouteInv, Simulate, runVars, serverVars, callVars, leaks
<1>2. RunTypes'
  BY <1>1 DEF CallInv, RunTypes
<1>3. CallInv' /\ TraceInv' /\ FaultInv' /\ VaultInv' /\ StdioInv' /\ TableInv'
  BY <1>1, <1>2, QuietTaken, QuietTrace, QuietFault, QuietVault, QuietStdio, QuietTable
<1>4. ASSUME NEW k \in Claims PROVE ClaimStage(k)'
  BY <1>1, QuietClaim DEF ClaimInv, ClaimStage
<1>5. ClaimInv'
  BY <1>1, <1>4 DEF ClaimInv, ClaimTypes
<1> QED
  BY <1>3, <1>5 DEF RouteInv

-----------------------------------------------------------------------------
(* The steps of a claim.                                                   *)
ClaimMoves(k) ==
  /\ UNCHANGED <<pc, loc, answer, counted, crossed, started, known, tools, gpc, gloc, raced, broken,
                 alive, queue, ids, want, asked, owed, pipe, heard>>
  /\ \A w \in Writers \ {k} : writing'[w] = writing[w]
  /\ \A j \in Claims \ {k} : kpc'[j] = kpc[j] /\ kloc'[j] = kloc[j]
  /\ \/ trace' = trace
     \/ /\ kpc[k] = "append"
        /\ trace'[kloc[k].run][k] = Append(trace[kloc[k].run][k], writing[k])
        /\ \A q \in Runs, w \in Writers : q # kloc[k].run \/ w # k => trace'[q][w] = trace[q][w]

LEMMA ClaimKeepsRoute ==
  ASSUME RouteInv, NEW k \in Claims, ClaimMoves(k), RunTypes', ClaimTypes', ClaimStage(k)'
  PROVE  RouteInv'
<1>1. /\ CallInv /\ TraceInv /\ FaultInv /\ VaultInv /\ ClaimInv /\ StdioInv /\ TableInv
      /\ UNCHANGED <<pc, loc, answer, counted, crossed, started, known, tools, gpc, gloc, raced, broken,
                     alive, queue, ids, want, asked, owed, pipe, heard>>
  BY DEF RouteInv, ClaimMoves
<1>2. \A d \in Calls : d \in Writers /\ d # k
  BY WritersAssumption
<1>3. /\ \A d \in Calls : writing'[d] = writing[d]
      /\ \A q \in Runs, d \in Calls : trace'[q][d] = trace[q][d]
  BY <1>2 DEF ClaimMoves
<1>4. CallInv' /\ TraceInv' /\ FaultInv' /\ VaultInv' /\ StdioInv' /\ TableInv'
  BY <1>1, <1>3, QuietTaken, QuietTrace, QuietFault, QuietVault, QuietStdio, QuietTable
<1>5. ASSUME NEW j \in Claims \ {k} PROVE ClaimStage(j)'
  <2>1. kpc'[j] = kpc[j] /\ kloc'[j] = kloc[j] /\ writing'[j] = writing[j]
    BY WritersAssumption DEF ClaimMoves
  <2>2. \A q \in Runs : trace'[q][j] = trace[q][j]
    BY WritersAssumption DEF ClaimMoves
  <2>3. ClaimStage(j)
    BY <1>1 DEF ClaimInv
  <2>4. kpc[j] \notin {"idle", "ended"} => kloc[j].run \in Runs /\ kloc[j].run \in known'
    BY <1>1, <2>3 DEF ClaimStage
  <2>5. ASSUME kpc[j] = "upload", NEW w \in Writers
        PROVE  IsPrefix(kloc[j].derived[w], trace'[kloc[j].run][w])
    <3>1. /\ kloc[j].run \in Runs /\ IsPrefix(kloc[j].derived[w], trace[kloc[j].run][w])
          /\ kloc[j].derived[w] \in Seq(TraceLine)
      BY <1>1, <2>3, <2>4, <2>5 DEF ClaimStage, ClaimInv, ClaimTypes, ClaimLocals
    <3>2. CASE trace'[kloc[j].run][w] = trace[kloc[j].run][w]
      BY <3>1, <3>2
    <3>3. CASE /\ kpc[k] = "append"
               /\ trace'[kloc[j].run][w] = Append(trace[kloc[j].run][w], writing[k])
      <4>1. writing[k] \in TraceLine /\ trace[kloc[j].run][w] \in Seq(TraceLine)
        BY ZenonT(60), <1>1, <3>1, <3>3 DEF ClaimInv, ClaimStage, CallInv, RunTypes
      <4> QED
        BY <3>1, <3>3, <4>1, PrefixOfMore
    <3> QED
      BY <3>1, <3>2, <3>3 DEF ClaimMoves
  <2> QED
    BY <1>1, <2>1, <2>2, <2>4, <2>5, QuietClaim
<1>6. ClaimInv'
  BY <1>5 DEF ClaimInv
<1> QED
  BY <1>4, <1>6 DEF RouteInv

LEMMA SubmitKeepsRoute ==
  ASSUME RouteInv, NEW k \in Claims, SubmitClaim(k)
  PROVE  RouteInv'
<1>1. /\ CallInv /\ ClaimInv /\ kpc[k] = "idle" /\ kloc \in [Claims -> ClaimLocals]
      /\ kpc \in [Claims -> {"idle", "append", "derive", "upload", "ended"}]
      /\ known \subseteq Runs /\ ClaimStage(k)
  BY DEF RouteInv, SubmitClaim, ClaimInv, ClaimTypes, CallInv, RunTypes
<1>2. PICK r \in known : /\ Record(k, "claim", "none")
                        /\ kloc' = [kloc EXCEPT ![k].run = r, ![k].before = Resting(r)]
  BY DEF SubmitClaim
<1>3. /\ kpc' = [kpc EXCEPT ![k] = "append"]
      /\ UNCHANGED <<pc, loc, answer, counted, crossed, armed, started, known, trace, tools, gpc, gloc,
                     raced, broken, alive, queue, ids, want, asked, owed, pipe, heard>>
  BY DEF SubmitClaim, runRest, serverVars, callVars, leaks
<1>4. /\ k \in Writers /\ [kind |-> "claim", extra |-> "none"] \in TraceLine
      /\ writing \in [Writers -> TraceLine \cup {NoLine}]
  BY <1>1, WritersAssumption DEF TraceLine, Extra, CallInv, RunTypes
<1>5. /\ writing' \in [Writers -> TraceLine \cup {NoLine}]
      /\ \A w \in Writers \ {k} : writing'[w] = writing[w]
      /\ writing'[k] \in TraceLine /\ writing'[k].kind = "claim"
  BY <1>2, <1>4 DEF Record
<1> DEFINE l == [kloc[k] EXCEPT !.run = r, !.before = Resting(r)]
<1>6. l \in ClaimLocals /\ l.run = r /\ l.before = Resting(r)
  <2>1. Resting(r) \in SUBSET Calls /\ r \in Runs
    BY <1>1 DEF Resting
  <2> QED
    BY <1>1, <2>1 DEF ClaimLocals
<1>7. /\ kloc' \in [Claims -> ClaimLocals] /\ kloc'[k] = l
      /\ \A j \in Claims \ {k} : kloc'[j] = kloc[j]
  <2>1. kloc' = [kloc EXCEPT ![k] = l]
    BY <1>1, <1>2
  <2> HIDE DEF l
  <2> QED
    BY <1>1, <1>6, <2>1
<1> HIDE DEF l
<1>8. /\ kpc' \in [Claims -> {"idle", "append", "derive", "upload", "ended"}]
      /\ kpc'[k] = "append" /\ \A j \in Claims \ {k} : kpc'[j] = kpc[j]
  BY <1>1, <1>3
<1>9. ClaimMoves(k)
  BY <1>3, <1>5, <1>7, <1>8 DEF ClaimMoves
<1>10. RunTypes' /\ ClaimTypes'
  BY <1>1, <1>3, <1>5, <1>7, <1>8 DEF RunTypes, CallInv, ClaimTypes
<1>11. ClaimStage(k)'
  <2>1. \A q \in Runs : trace'[q][k] = <<>>
    BY <1>1, <1>3, FaultsAssumption DEF ClaimStage
  <2>2. \A c \in Resting(r) : Under(c)' = r /\ pc'[c] = "ended"
    BY <1>3 DEF Resting, Under
  <2>3. r \in Runs /\ r \in known'
    BY <1>1, <1>3
  <2> QED
    BY <1>5, <1>6, <1>7, <1>8, <2>1, <2>2, <2>3 DEF ClaimStage
<1> QED
  BY <1>9, <1>10, <1>11, ClaimKeepsRoute

LEMMA ClaimWrittenKeepsRoute ==
  ASSUME RouteInv, NEW k \in Claims, ClaimWritten(k)
  PROVE  RouteInv'
<1>1. /\ CallInv /\ ClaimInv /\ kpc[k] = "append" /\ ClaimTypes /\ RunTypes
      /\ kpc \in [Claims -> {"idle", "append", "derive", "upload", "ended"}]
      /\ ClaimStage(k)
  BY DEF RouteInv, ClaimWritten, ClaimInv, ClaimTypes, CallInv
<1> PICK r \in Runs : r = kloc[k].run
  BY <1>1 DEF ClaimStage
<1>2. /\ kpc' = [kpc EXCEPT ![k] = "derive"] /\ kloc' = kloc
      /\ writing' = [writing EXCEPT ![k] = NoLine]
      /\ trace' = [trace EXCEPT ![r][k] = Append(trace[r][k], writing[k])]
      /\ UNCHANGED <<pc, loc, answer, counted, crossed, armed, started, known, tools, gpc, gloc,
                     raced, broken, alive, queue, ids, want, asked, owed, pipe, heard>>
  BY DEF ClaimWritten, Written, Idle, runRest, serverVars, callVars, leaks
<1>3. /\ k \in Writers /\ writing[k] \in TraceLine /\ writing[k].kind = "claim"
      /\ trace[r][k] = <<>> /\ trace \in [Runs -> [Writers -> Seq(TraceLine)]]
      /\ trace[r][k] \in Seq(TraceLine)
      /\ writing \in [Writers -> TraceLine \cup {NoLine}]
  BY ZenonT(60), <1>1, WritersAssumption DEF ClaimStage, RunTypes
<1>4. /\ Append(trace[r][k], writing[k]) \in Seq(TraceLine)
      /\ Kinds(Append(trace[r][k], writing[k])) = <<"claim">>
  BY ZenonT(60), <1>3, KindsAppend, KindsEmpty
<1>5. /\ trace' \in [Runs -> [Writers -> Seq(TraceLine)]]
      /\ trace'[r][k] = Append(trace[r][k], writing[k])
      /\ \A q \in Runs, w \in Writers : q # r \/ w # k => trace'[q][w] = trace[q][w]
  BY <1>2, <1>3, <1>4, Update
<1>6. /\ writing' \in [Writers -> TraceLine \cup {NoLine}]
      /\ \A w \in Writers \ {k} : writing'[w] = writing[w]
  BY <1>2, <1>3
<1>7. /\ kpc' \in [Claims -> {"idle", "append", "derive", "upload", "ended"}]
      /\ kpc'[k] = "derive" /\ \A j \in Claims \ {k} : kpc'[j] = kpc[j]
  BY <1>1, <1>2
<1>8. ClaimMoves(k)
  BY ZenonT(60), <1>1, <1>2, <1>5, <1>6, <1>7 DEF ClaimMoves
<1>9. RunTypes' /\ ClaimTypes'
  BY <1>1, <1>2, <1>5, <1>6, <1>7 DEF RunTypes, ClaimTypes
<1>10. ClaimStage(k)'
  <2>1. \A c : Under(c)' = Under(c)
    BY <1>2 DEF Under
  <2> QED
    BY <1>1, <1>2, <1>3, <1>4, <1>5, <1>7, <2>1 DEF ClaimStage
<1> QED
  BY <1>8, <1>9, <1>10, ClaimKeepsRoute

LEMMA DeriveKeepsRoute ==
  ASSUME RouteInv, NEW k \in Claims, Derive(k)
  PROVE  RouteInv'
<1>1. /\ CallInv /\ ClaimInv /\ kpc[k] = "derive" /\ kloc \in [Claims -> ClaimLocals] /\ RunTypes
      /\ kpc \in [Claims -> {"idle", "append", "derive", "upload", "ended"}]
      /\ ClaimStage(k) /\ TraceInv
  BY DEF RouteInv, Derive, ClaimInv, ClaimTypes, CallInv
<1> PICK r \in Runs : r = kloc[k].run
  BY <1>1 DEF ClaimStage
<1>2. /\ kpc' = [kpc EXCEPT ![k] = "upload"]
      /\ kloc' = [kloc EXCEPT ![k].derived = trace[r]]
      /\ armed' = RemoveFirst(armed, r)
      /\ UNCHANGED <<pc, loc, answer, counted, crossed, started, known, tools, gpc, gloc, writing, trace,
                     raced, broken, alive, queue, ids, want, asked, owed, pipe, heard>>
  BY DEF Derive, RecordedLines, Disarm, serverVars, callVars, leaks
<1>3. k \in Writers /\ trace[r] \in [Writers -> Seq(TraceLine)] /\ r \in known
  BY <1>1, WritersAssumption DEF ClaimStage, RunTypes
<1> DEFINE l == [kloc[k] EXCEPT !.derived = trace[r]]
<1>4. l \in ClaimLocals /\ l.run = r /\ l.before = kloc[k].before /\ l.derived = trace[r]
  BY <1>1, <1>3 DEF ClaimLocals
<1>5. /\ kloc' \in [Claims -> ClaimLocals] /\ kloc'[k] = l
      /\ \A j \in Claims \ {k} : kloc'[j] = kloc[j]
  <2>1. kloc' = [kloc EXCEPT ![k] = l]
    BY <1>1, <1>2
  <2> HIDE DEF l
  <2> QED
    BY <1>1, <1>4, <2>1
<1> HIDE DEF l
<1>6. /\ kpc' \in [Claims -> {"idle", "append", "derive", "upload", "ended"}]
      /\ kpc'[k] = "upload" /\ \A j \in Claims \ {k} : kpc'[j] = kpc[j]
  BY <1>1, <1>2
<1>7. ClaimMoves(k)
  BY <1>2, <1>5, <1>6 DEF ClaimMoves
<1>8. armed' \in Seq(Runs) /\ \A i \in DOMAIN armed' : armed'[i] \in known'
  BY <1>1, <1>2, Disarmed DEF RunTypes
<1>9. RunTypes' /\ ClaimTypes'
  BY <1>1, <1>2, <1>5, <1>6, <1>8 DEF RunTypes, ClaimTypes
<1>10. ASSUME NEW c \in kloc[k].before
       PROVE  Kinds(trace[r][c]) \in Lines(c) /\ Under(c) = r /\ pc[c] = "ended"
  <2>1. c \in Calls /\ Under(c) = r /\ pc[c] = "ended"
    BY <1>1 DEF ClaimStage, ClaimLocals
  <2>2. Progress(c)
    BY <1>1, <2>1, FaultsAssumption DEF TraceInv
  <2> QED
    BY <1>3, <2>1, <2>2 DEF Progress, Said
<1>11. ClaimStage(k)'
  <2>1. \A c : Under(c)' = Under(c) /\ Lines(c)' = Lines(c)
    BY <1>2 DEF Under, Lines
  <2>2. \A w \in Writers : IsPrefix(trace[r][w], trace[r][w])
    BY <1>3, PrefixOfItself
  <2>3. Kinds(trace[r][k]) = <<"claim">> /\ \A q \in Runs : q # r => trace[q][k] = <<>>
    BY <1>1 DEF ClaimStage
  <2> QED
    BY <1>2, <1>3, <1>4, <1>5, <1>6, <1>10, <2>1, <2>2, <2>3 DEF ClaimStage
<1> QED
  BY <1>7, <1>9, <1>11, ClaimKeepsRoute

LEMMA UploadKeepsRoute ==
  ASSUME RouteInv, NEW k \in Claims, Upload(k)
  PROVE  RouteInv'
<1>1. /\ CallInv /\ ClaimInv /\ kpc[k] = "upload" /\ kloc \in [Claims -> ClaimLocals] /\ RunTypes
      /\ kpc \in [Claims -> {"idle", "append", "derive", "upload", "ended"}]
      /\ ClaimStage(k)
  BY DEF RouteInv, Upload, ClaimInv, ClaimTypes, CallInv
<1> PICK r \in Runs : r = kloc[k].run
  BY <1>1 DEF ClaimStage
<1>2. /\ kpc' = [kpc EXCEPT ![k] = "ended"]
      /\ kloc' = [kloc EXCEPT ![k].uploaded = trace[r]]
      /\ UNCHANGED <<pc, loc, answer, counted, crossed, armed, started, known, tools, gpc, gloc, writing,
                     trace, raced, broken, alive, queue, ids, want, asked, owed, pipe, heard>>
  BY DEF Upload, runVars, serverVars, callVars, leaks
<1>3. trace[r] \in [Writers -> Seq(TraceLine)]
  BY <1>1 DEF RunTypes
<1> DEFINE l == [kloc[k] EXCEPT !.uploaded = trace[r]]
<1>4. /\ l \in ClaimLocals /\ l.run = r /\ l.before = kloc[k].before
      /\ l.derived = kloc[k].derived /\ l.uploaded = trace[r]
  BY <1>1, <1>3 DEF ClaimLocals
<1>5. /\ kloc' \in [Claims -> ClaimLocals] /\ kloc'[k] = l
      /\ \A j \in Claims \ {k} : kloc'[j] = kloc[j]
  <2>1. kloc' = [kloc EXCEPT ![k] = l]
    BY <1>1, <1>2
  <2> HIDE DEF l
  <2> QED
    BY <1>1, <1>4, <2>1
<1> HIDE DEF l
<1>6. /\ kpc' \in [Claims -> {"idle", "append", "derive", "upload", "ended"}]
      /\ kpc'[k] = "ended" /\ \A j \in Claims \ {k} : kpc'[j] = kpc[j]
  BY <1>1, <1>2
<1>7. ClaimMoves(k)
  BY <1>2, <1>5, <1>6 DEF ClaimMoves
<1>8. RunTypes' /\ ClaimTypes'
  BY <1>1, <1>2, <1>5, <1>6 DEF RunTypes, ClaimTypes
<1>9. ClaimStage(k)'
  <2>1. \A c : Under(c)' = Under(c) /\ Lines(c)' = Lines(c)
    BY <1>2 DEF Under, Lines
  <2> QED
    BY <1>1, <1>2, <1>4, <1>5, <1>6, <2>1 DEF ClaimStage
<1> QED
  BY <1>7, <1>8, <1>9, ClaimKeepsRoute

-----------------------------------------------------------------------------
(* Registrations, and answers of the servers.                              *)
LEMMA TableKeepsRoute ==
  ASSUME RouteInv,
         UNCHANGED <<armed, started, known, counted, writing, trace, pc, loc, answer, crossed,
                     kpc, kloc, queue, ids, want, asked, owed, pipe, heard>>,
         tools' \in [Tools -> Upstreams], alive' \subseteq Servers, TableInv'
  PROVE  RouteInv'
<1>1. CallInv /\ TraceInv /\ FaultInv /\ VaultInv /\ ClaimInv /\ StdioInv
  BY DEF RouteInv
<1>2. RunTypes' /\ CallTypes' /\ Taken'
  BY <1>1 DEF CallInv, RunTypes, CallTypes, Taken, Under
<1>3. TraceInv' /\ FaultInv' /\ VaultInv' /\ StdioInv'
  BY <1>1, QuietTrace, QuietFault, QuietVault, QuietStdio
<1>4. ASSUME NEW k \in Claims PROVE ClaimStage(k)'
  BY <1>1, QuietClaim DEF ClaimInv, ClaimStage
<1>5. ClaimInv'
  BY <1>1, <1>4 DEF ClaimInv, ClaimTypes
<1> QED
  BY <1>2, <1>3, <1>5 DEF RouteInv, CallInv

LEMMA DiscoverKeepsRoute ==
  ASSUME RouteInv, NEW g \in Registrations, Discover(g)
  PROVE  RouteInv'
<1>1. /\ TableTypes /\ OnlyLostIsOrphaned /\ gpc[g] = "idle" /\ alive \subseteq Servers
      /\ tools \in [Tools -> Upstreams]
  BY DEF RouteInv, TableInv, TableTypes, Discover, CallInv, CallTypes
<1>2. PICK entry \in Offers[g] :
        /\ gloc' = [gloc EXCEPT ![g] = [name |-> entry[1], new |-> entry[2], old |-> NoUpstream]]
        /\ IF entry[2] \in Servers THEN Stdio!Spawn(entry[2]) ELSE UNCHANGED serverVars
  BY DEF Discover
<1> PICK t \in Tools, up \in Servers \cup Urls : t = entry[1] /\ up = entry[2]
  BY UpstreamsAssumption
<1>3. /\ gloc' = [gloc EXCEPT ![g] = [name |-> t, new |-> up, old |-> NoUpstream]]
      /\ gpc' = [gpc EXCEPT ![g] = "initialize"]
      /\ UNCHANGED <<armed, started, known, counted, writing, trace, pc, loc, answer, crossed,
                     kpc, kloc, tools, raced, broken, queue, ids, want, asked, owed, pipe, heard>>
      /\ alive' = IF up \in Servers THEN alive \cup {up} ELSE alive
  BY <1>2 DEF Discover, Stdio!Spawn, serverVars, runVars, callVars, leaks
<1>4. [name |-> t, new |-> up, old |-> NoUpstream]
        \in [name: Tools \cup {NoLocals.tool}, new: Upstreams, old: Upstreams]
  BY DEF Upstreams
<1>5. /\ gloc' \in [Registrations -> [name: Tools \cup {NoLocals.tool}, new: Upstreams, old: Upstreams]]
      /\ gloc'[g].name = t /\ gloc'[g].new = up
      /\ \A h \in Registrations \ {g} : gloc'[h] = gloc[h]
  BY <1>1, <1>3, <1>4 DEF TableTypes
<1>6. /\ gpc' \in [Registrations -> {"idle", "initialize", "list", "closing", "ended"}]
      /\ gpc'[g] = "initialize" /\ \A h \in Registrations \ {g} : gpc'[h] = gpc[h]
  BY <1>1, <1>3 DEF TableTypes
<1>7. ASSUME NEW s \in alive'
      PROVE  \/ s \in Range(tools)
             \/ \E h \in Registrations : gloc'[h].new = s /\ gpc'[h] # "ended"
             \/ s \in raced \cup broken
  <2>1. CASE s = up
    BY <1>5, <1>6, <2>1
  <2>2. CASE s \in alive
    <3>1. s # NoUpstream
      BY <1>1, <2>2, UpstreamsAssumption
    <3>2. ASSUME NEW h \in Registrations, gloc[h].new = s, gpc[h] # "ended"
          PROVE  \E i \in Registrations : gloc'[i].new = s /\ gpc'[i] # "ended"
      <4>1. h # g
        BY <1>1, <3>1, <3>2 DEF TableTypes
      <4> QED
        BY <1>5, <1>6, <3>2, <4>1
    <3> QED
      BY <1>1, <2>2, <3>2 DEF OnlyLostIsOrphaned
  <2> QED
    BY <1>3, <1>7, <2>1, <2>2
<1>8. OnlyLostIsOrphaned'
  BY <1>3, <1>7 DEF OnlyLostIsOrphaned
<1>9. TableTypes'
  BY <1>1, <1>5, <1>6 DEF TableTypes
<1>10. TableInv' /\ alive' \subseteq Servers
  BY <1>1, <1>3, <1>8, <1>9 DEF TableInv
<1> QED
  BY <1>1, <1>3, <1>10, TableKeepsRoute

LEMMA HandshakeKeepsRoute ==
  ASSUME RouteInv, NEW g \in Registrations, HandshakeHttp(g) \/ HandshakeStdio(g)
                                            \/ HandshakeFails(g) \/ HandshakeBreaks(g)
  PROVE  RouteInv'
<1>1. /\ TableTypes /\ OnlyLostIsOrphaned /\ alive \subseteq Servers /\ tools \in [Tools -> Upstreams]
  BY DEF RouteInv, TableInv, TableTypes, CallInv, CallTypes
<1>2. /\ gpc[g] \in {"initialize", "list"} /\ gloc' = gloc
      /\ UNCHANGED <<armed, started, known, counted, writing, trace, pc, loc, answer, crossed,
                     kpc, kloc, tools, raced, queue, ids, want, asked, owed, pipe, heard>>
      /\ \/ gpc' = [gpc EXCEPT ![g] = "list"] /\ alive' = alive /\ broken' = broken
         \/ gpc' = [gpc EXCEPT ![g] = "ended"] /\ alive' = alive \ {gloc[g].new} /\ broken' = broken
         \/ gpc' = [gpc EXCEPT ![g] = "ended"] /\ alive' = alive /\ broken' = broken \cup {gloc[g].new}
  BY DEF HandshakeHttp, HandshakeStdio, Initialized, HandshakeFails, HandshakeBreaks, Stdio!Close, serverVars,
         runVars, callVars, leaks
<1>3. TableTypes'
  BY <1>1, <1>2 DEF TableTypes
<1>4. OnlyLostIsOrphaned'
  <2> SUFFICES ASSUME NEW s \in alive'
               PROVE  \/ s \in Range(tools)
                      \/ \E h \in Registrations : gloc[h].new = s /\ gpc'[h] # "ended"
                      \/ s \in raced \cup broken'
    BY <1>2 DEF OnlyLostIsOrphaned
  <2>1. s \in alive /\ (gpc'[g] = "ended" => s # gloc[g].new \/ s \in broken')
    BY <1>1, <1>2 DEF TableTypes
  <2>2. \A h \in Registrations \ {g} : gpc'[h] = gpc[h]
    BY <1>1, <1>2 DEF TableTypes
  <2> QED
    BY <1>1, <1>2, <2>1, <2>2 DEF OnlyLostIsOrphaned
<1>5. TableInv'
  BY <1>3, <1>4 DEF TableInv
<1> QED
  BY <1>1, <1>2, <1>5, TableKeepsRoute

(* Writing the table loses no process: the one replaced has been closed,   *)
(* or another registration came between.                                   *)
LEMMA InstallKeepsTable ==
  ASSUME RouteInv, NEW g \in Registrations, gpc[g] \in {"list", "closing"}, NEW old,
         Install(g, old), gloc' = gloc, broken' = broken, alive' \subseteq alive, old \notin alive'
  PROVE  TableInv' /\ tools' \in [Tools -> Upstreams]
<1>1. /\ TableTypes /\ OnlyLostIsOrphaned /\ alive \subseteq Servers /\ tools \in [Tools -> Upstreams]
  BY DEF RouteInv, TableInv, TableTypes, CallInv, CallTypes
<1> DEFINE n == gloc[g].name
           new == gloc[g].new
<1>2. n \in Tools /\ new \in Upstreams
  BY <1>1 DEF TableTypes
<1>3. /\ tools' = [tools EXCEPT ![n] = new]
      /\ raced' = IF tools[n] = old THEN raced ELSE raced \cup {tools[n]}
      /\ gpc' = [gpc EXCEPT ![g] = "ended"]
  BY DEF Install
<1>4. /\ tools' \in [Tools -> Upstreams] /\ DOMAIN tools' = Tools /\ DOMAIN tools = Tools
      /\ tools'[n] = new /\ \A t \in Tools : t # n => tools'[t] = tools[t]
  BY <1>1, <1>2, <1>3
<1>5. TableTypes'
  BY <1>1, <1>3 DEF TableTypes
<1>6. \A h \in Registrations \ {g} : gpc'[h] = gpc[h]
  BY <1>1, <1>3 DEF TableTypes
<1>7. OnlyLostIsOrphaned'
  <2> SUFFICES ASSUME NEW s \in alive'
               PROVE  \/ s \in Range(tools')
                      \/ \E h \in Registrations : gloc[h].new = s /\ gpc'[h] # "ended"
                      \/ s \in raced' \cup broken'
    BY DEF OnlyLostIsOrphaned
  <2>1. s \in alive /\ s # old
    OBVIOUS
  <2>2. CASE s \in Range(tools)
    <3> PICK t \in Tools : tools[t] = s
      BY <1>4, <2>2 DEF Range
    <3>1. CASE t = n
      BY <1>3, <2>1, <3>1
    <3>2. CASE t # n
      BY <1>4, <3>2 DEF Range
    <3> QED
      BY <3>1, <3>2
  <2>3. CASE \E h \in Registrations : gloc[h].new = s /\ gpc[h] # "ended"
    <3> PICK h \in Registrations : gloc[h].new = s /\ gpc[h] # "ended"
      BY <2>3
    <3>1. CASE h = g
      BY <1>2, <1>4, <3>1 DEF Range
    <3>2. CASE h # g
      BY <1>6, <3>2
    <3> QED
      BY <3>1, <3>2
  <2>4. CASE s \in raced \cup broken
    BY <1>3, <2>4
  <2> QED
    BY <1>1, <2>1, <2>2, <2>3, <2>4 DEF OnlyLostIsOrphaned
<1> QED
  BY <1>4, <1>5, <1>7 DEF TableInv

LEMMA DoneKeepsRoute ==
  ASSUME RouteInv, NEW g \in Registrations, HandshakeDone(g) \/ Replace(g)
  PROVE  RouteInv'
<1>1. /\ TableTypes /\ OnlyLostIsOrphaned /\ alive \subseteq Servers /\ tools \in [Tools -> Upstreams]
  BY DEF RouteInv, TableInv, TableTypes, CallInv, CallTypes
<1>2. UNCHANGED <<armed, started, known, counted, writing, trace, pc, loc, answer, crossed,
                  kpc, kloc, queue, ids, want, asked, owed, pipe, heard>>
  BY DEF HandshakeDone, Replace, Stdio!Close, serverVars, runVars, callVars, leaks
<1>3. CASE Replace(g)
  <2>1. /\ gpc[g] = "closing" /\ Install(g, gloc[g].old) /\ gloc' = gloc
        /\ alive' = alive \ {gloc[g].old} /\ broken' = broken
    BY <1>3 DEF Replace, Stdio!Close
  <2>2. TableInv' /\ tools' \in [Tools -> Upstreams]
    BY <2>1, InstallKeepsTable
  <2> QED
    BY <1>1, <1>2, <2>1, <2>2, TableKeepsRoute
<1>4. CASE HandshakeDone(g)
  <2> DEFINE old == tools[gloc[g].name]
  <2>1. gpc[g] = "list" /\ alive' = alive /\ broken' = broken
    BY <1>4 DEF HandshakeDone, serverVars
  <2>2. CASE old \notin Servers /\ Install(g, old) /\ gloc' = gloc
    <3>1. old \notin alive'
      BY <1>1, <2>1, <2>2
    <3> HIDE DEF old
    <3>2. TableInv' /\ tools' \in [Tools -> Upstreams]
      BY <2>1, <2>2, <3>1, InstallKeepsTable
    <3> QED
      BY <1>1, <1>2, <2>1, <3>2, TableKeepsRoute
  <2>3. CASE /\ gloc' = [gloc EXCEPT ![g].old = old] /\ old \in Servers
             /\ gpc' = [gpc EXCEPT ![g] = "closing"]
             /\ UNCHANGED <<tools, raced, broken>>
    <3> DEFINE l == [gloc[g] EXCEPT !.old = old]
    <3>1. /\ l \in [name: Tools \cup {NoLocals.tool}, new: Upstreams, old: Upstreams]
          /\ l.name = gloc[g].name /\ l.new = gloc[g].new
      BY <1>1, <2>3 DEF TableTypes, Upstreams
    <3>2. gloc' = [gloc EXCEPT ![g] = l]
      BY <1>1, <2>3 DEF TableTypes
    <3> HIDE DEF l, old
    <3>3. /\ gloc' \in [Registrations -> [name: Tools \cup {NoLocals.tool}, new: Upstreams, old: Upstreams]]
          /\ \A h \in Registrations : gloc'[h].name = gloc[h].name /\ gloc'[h].new = gloc[h].new
      BY <1>1, <3>1, <3>2 DEF TableTypes
    <3>4. /\ gpc' \in [Registrations -> {"idle", "initialize", "list", "closing", "ended"}]
          /\ gpc'[g] = "closing" /\ \A h \in Registrations \ {g} : gpc'[h] = gpc[h]
      BY <1>1, <2>3 DEF TableTypes
    <3>5. TableTypes'
      BY <1>1, <2>1, <3>3, <3>4 DEF TableTypes
    <3>6. OnlyLostIsOrphaned'
      BY <1>1, <2>1, <2>3, <3>3, <3>4 DEF OnlyLostIsOrphaned
    <3>7. TableInv'
      BY <3>5, <3>6 DEF TableInv
    <3> QED
      BY <1>1, <1>2, <2>1, <2>3, <3>7, TableKeepsRoute
  <2> QED
    BY <1>4, <2>2, <2>3 DEF HandshakeDone
<1> QED
  BY <1>3, <1>4

(* A server ends, or answers a request it owes an answer to.               *)
LEMMA ExitKeepsRoute ==
  ASSUME RouteInv, NEW s \in Servers, Stdio!Exit(s), UNCHANGED <<runVars, callVars, otherVars>>
  PROVE  RouteInv'
<1>1. /\ TableInv /\ alive \subseteq Servers /\ tools \in [Tools -> Upstreams]
      /\ alive' = alive \ {s}
      /\ UNCHANGED <<armed, started, known, counted, writing, trace, pc, loc, answer, crossed,
                     kpc, kloc, queue, ids, want, asked, owed, pipe, heard,
                     tools, gpc, gloc, raced, broken>>
  BY DEF RouteInv, CallInv, CallTypes, Stdio!Exit, Stdio!Close, runVars, callVars, otherVars, leaks
<1>2. TableInv'
  BY <1>1 DEF TableInv, TableTypes, OnlyLostIsOrphaned
<1> QED
  BY <1>1, <1>2, TableKeepsRoute

LEMMA ServerKeepsRoute ==
  ASSUME RouteInv, NEW s \in Servers, Stdio!ServerAnswers(s),
         UNCHANGED <<runVars, callVars, otherVars>>
  PROVE  RouteInv'
<1>1. /\ CallInv /\ TraceInv /\ FaultInv /\ VaultInv /\ ClaimInv /\ StdioInv /\ TableInv
      /\ UNCHANGED <<armed, started, known, counted, writing, trace, pc, loc, answer, crossed,
                     tools, kpc, kloc, gpc, gloc, raced, broken, alive, queue, ids, want, asked, heard>>
  BY DEF RouteInv, Stdio!ServerAnswers, runVars, callVars, otherVars, leaks
<1>2. CallInv' /\ TraceInv' /\ FaultInv' /\ VaultInv' /\ TableInv'
  <2>1. RunTypes'
    BY <1>1 DEF CallInv, RunTypes
  <2> QED
    BY <1>1, <2>1, QuietTaken, QuietTrace, QuietFault, QuietVault, QuietTable
<1>3. ClaimInv'
  <2>1. ASSUME NEW k \in Claims PROVE ClaimStage(k)'
    BY <1>1, QuietClaim DEF ClaimInv, ClaimStage
  <2> QED
    BY <1>1, <2>1 DEF ClaimInv, ClaimTypes
<1>4. PICK a \in owed[s] : /\ owed' = [owed EXCEPT ![s] = owed[s] \ {a}]
                          /\ pipe' = [pipe EXCEPT ![s] = Append(pipe[s], a)]
  BY DEF Stdio!ServerAnswers
<1>5. StdioTypes /\ OwnAnswers /\ a \in Nat \X Calls /\ Fits(a, s)
  BY <1>1 DEF StdioInv, StdioTypes, OwnAnswers
<1> PICK A : A = Nat \X Calls
  OBVIOUS
<1> PICK p \in Seq(A) : p = pipe[s]
  BY <1>5 DEF StdioTypes
<1>6. /\ Append(p, a) \in Seq(A)
      /\ \A i \in DOMAIN Append(p, a) : Append(p, a)[i] = a \/ (i \in DOMAIN p /\ Append(p, a)[i] = p[i])
  BY <1>5
<1>7. /\ pipe' \in [Servers -> Seq(A)] /\ pipe'[s] = Append(p, a)
      /\ \A q \in Servers : q # s => pipe'[q] = pipe[q]
  <2>1. pipe' = [pipe EXCEPT ![s] = Append(p, a)] /\ pipe \in [Servers -> Seq(A)]
    BY <1>4, <1>5 DEF StdioTypes
  <2> QED
    BY ONLY <1>6, <2>1, s \in Servers
<1>8. /\ owed' \in [Servers -> SUBSET A] /\ \A q \in Servers : owed'[q] \subseteq owed[q]
  <2>1. owed \in [Servers -> SUBSET A]
    BY <1>5 DEF StdioTypes
  <2> QED
    BY <1>4, <2>1
<1>9. \A b, q : Fits(b, q)' <=> Fits(b, q)
  BY <1>1 DEF Fits
<1>10. OwnAnswers'
  <2>1. ASSUME NEW q \in Servers, NEW b \in owed'[q] PROVE Fits(b, q)
    BY <1>5, <1>8, <2>1 DEF OwnAnswers
  <2>2. ASSUME NEW q \in Servers, NEW i \in DOMAIN pipe'[q] PROVE Fits(pipe'[q][i], q)
    <3>1. CASE q # s
      BY <1>5, <1>7, <2>2, <3>1 DEF OwnAnswers
    <3>2. CASE q = s
      <4>1. i \in DOMAIN Append(p, a) /\ pipe'[q][i] = Append(p, a)[i]
        BY <1>7, <2>2, <3>2
      <4>2. \A j \in DOMAIN p : Fits(p[j], s)
        BY <1>5 DEF OwnAnswers
      <4>3. CASE Append(p, a)[i] = a
        BY <1>5, <3>2, <4>1, <4>3
      <4>4. CASE i \in DOMAIN p /\ Append(p, a)[i] = p[i]
        BY <3>2, <4>1, <4>2, <4>4
      <4> QED
        BY <1>6, <4>1, <4>3, <4>4
    <3> QED
      BY <3>1, <3>2
  <2> QED
    BY <1>9, <2>1, <2>2 DEF OwnAnswers
<1>11. StdioTypes'
  BY <1>1, <1>5, <1>7, <1>8 DEF StdioTypes
<1>12. OwnIds' /\ \A c \in Calls : Asking(c)'
  BY <1>1 DEF StdioInv, OwnIds, Asking, Is, Under
<1> QED
  BY <1>2, <1>3, <1>10, <1>11, <1>12 DEF RouteInv, StdioInv

-----------------------------------------------------------------------------
(* At the start nothing is armed, taken, written or owed.                  *)
LEMMA RouteStarts == Init => RouteInv
<1> SUFFICES ASSUME Init PROVE RouteInv
  OBVIOUS
<1>1. /\ armed = <<>> /\ started = {} /\ known = {}
      /\ counted = [r \in Runs |-> [t \in Tools |-> <<>>]]
      /\ writing = [w \in Writers |-> NoLine]
      /\ trace = [r \in Runs |-> [w \in Writers |-> <<>>]]
  BY DEF Init, RunInit
<1>2. /\ alive = {} /\ queue = [s \in Servers |-> <<>>] /\ ids = [s \in Servers |-> 0]
      /\ want = [c \in Calls |-> 0] /\ asked = {} /\ owed = [s \in Servers |-> {}]
      /\ pipe = [s \in Servers |-> <<>>] /\ heard = [c \in Calls |-> c]
  BY DEF Init, Stdio!ServerInit
<1>3. /\ tools = Started /\ pc = [c \in Calls |-> "idle"] /\ loc = [c \in Calls |-> NoLocals]
      /\ answer = [c \in Calls |-> 0] /\ kpc = [k \in Claims |-> "idle"]
      /\ kloc = [k \in Claims |-> [run |-> NoRun, derived |-> NoLines, uploaded |-> NoLines,
                                   before |-> {}]]
      /\ gpc = [g \in Registrations |-> "idle"]
      /\ gloc = [g \in Registrations |-> [name |-> CHOOSE t \in Tools : TRUE,
                                          new |-> NoUpstream, old |-> NoUpstream]]
  BY DEF Init
<1>4. /\ NoLocals \in Locals /\ NoLocals.run = NoRun /\ ~NoLocals.matched /\ ~NoLocals.called
      /\ NoLocals.tool = CHOOSE t \in Tools : TRUE
  BY SomeHeader DEF NoLocals, Locals, Upstreams, Specs, Shown
<1>5. CallInv
  <2>1. RunTypes
    BY <1>1 DEF RunTypes
  <2>2. CallTypes
    <3>1. tools \in [Tools -> Upstreams]
      BY <1>3, UpstreamsAssumption DEF Upstreams
    <3>2. loc \in [Calls -> Locals]
      BY <1>3, <1>4
    <3> QED
      BY <1>2, <1>3, <3>1, <3>2 DEF CallTypes
  <2>3. Taken
    BY <1>3, <1>4 DEF Taken, Under
  <2> QED
    BY <2>1, <2>2, <2>3 DEF CallInv
<1>6. TraceInv
  <2>1. Own
    BY <1>1, WritersAssumption DEF Own
  <2> QED
    BY <1>3, <1>4, <2>1 DEF TraceInv, Under
<1>7. FaultInv
  BY <1>1, <1>3, <1>4 DEF FaultInv
<1>8. VaultInv
  BY <1>3, <1>4 DEF VaultInv, Is
<1>9. ClaimInv
  <2>1. NoLines \in [Writers -> Seq(TraceLine)]
    BY DEF NoLines
  <2>2. [run |-> NoRun, derived |-> NoLines, uploaded |-> NoLines, before |-> {}] \in ClaimLocals
    BY <2>1 DEF ClaimLocals
  <2>3. ClaimTypes
    BY <1>3, <2>2 DEF ClaimTypes
  <2>4. ASSUME NEW k \in Claims PROVE ClaimStage(k)
    <3>1. /\ kpc[k] = "idle" /\ kloc[k].run = NoRun /\ \A q \in Runs : trace[q][k] = <<>>
      BY <1>1, <1>3, WritersAssumption
    <3> QED
      BY <3>1 DEF ClaimStage
  <2> QED
    BY <2>3, <2>4 DEF ClaimInv
<1>10. StdioInv
  <2>1. StdioTypes
    BY <1>2 DEF StdioTypes
  <2>2. OwnIds /\ OwnAnswers
    BY <1>2 DEF OwnIds, OwnAnswers
  <2>3. \A c \in Calls : Asking(c)
    BY <1>2, <1>3 DEF Asking
  <2> QED
    BY <2>1, <2>2, <2>3 DEF StdioInv
<1>11. TableInv
  <2>1. TableTypes
    <3>1. [name |-> NoLocals.tool, new |-> NoUpstream, old |-> NoUpstream]
            \in [name: Tools \cup {NoLocals.tool}, new: Upstreams, old: Upstreams]
      BY DEF Upstreams
    <3>2. gloc = [g \in Registrations |-> [name |-> NoLocals.tool, new |-> NoUpstream,
                                           old |-> NoUpstream]]
      BY <1>3, <1>4
    <3> QED
      BY <1>3, <3>1, <3>2 DEF TableTypes
  <2> QED
    BY <1>2, <2>1 DEF TableInv, OnlyLostIsOrphaned
<1> QED
  BY <1>5, <1>6, <1>7, <1>8, <1>9, <1>10, <1>11 DEF RouteInv

LEMMA RouteStays == RouteInv /\ [Next]_vars => RouteInv'
<1> SUFFICES ASSUME RouteInv, [Next]_vars PROVE RouteInv'
  OBVIOUS
<1>1. CASE UNCHANGED vars
  <2>1. /\ CallInv /\ TraceInv /\ FaultInv /\ VaultInv /\ ClaimInv /\ StdioInv /\ TableInv
        /\ UNCHANGED <<armed, started, known, counted, writing, trace, alive, queue, ids, want,
                       asked, owed, pipe, heard, tools, pc, loc, answer, kpc, kloc, gpc, gloc,
                       crossed, raced, broken>>
    BY <1>1 DEF RouteInv, vars, runVars, serverVars, leaks
  <2>2. RunTypes'
    BY <2>1 DEF CallInv, RunTypes
  <2>3. CallInv' /\ TraceInv' /\ FaultInv' /\ VaultInv' /\ StdioInv' /\ TableInv'
    BY <2>1, <2>2, QuietTaken, QuietTrace, QuietFault, QuietVault, QuietStdio, QuietTable
  <2>4. ASSUME NEW k \in Claims PROVE ClaimStage(k)'
    BY <2>1, QuietClaim DEF ClaimInv, ClaimStage
  <2>5. ClaimInv'
    BY <2>1, <2>4 DEF ClaimInv, ClaimTypes
  <2> QED
    BY <2>3, <2>5 DEF RouteInv
<1>2. CASE StartRun \/ Simulate
  BY <1>2, StartKeepsRoute, SimulateKeepsRoute
<1>3. CASE \E c \in Calls : CallStep(c) \/ Drained(c)
  BY <1>3, CallKeepsRoute DEF Acts
<1>4. CASE \E k \in Claims : SubmitClaim(k) \/ ClaimStep(k)
  BY <1>4, SubmitKeepsRoute, ClaimWrittenKeepsRoute, DeriveKeepsRoute, UploadKeepsRoute
     DEF ClaimStep
<1>5. CASE \E g \in Registrations : Discover(g) \/ HandshakeHttp(g) \/ HandshakeStdio(g)
                                    \/ HandshakeFails(g) \/ HandshakeBreaks(g)
                                    \/ HandshakeDone(g) \/ Replace(g)
  BY <1>5, DiscoverKeepsRoute, HandshakeKeepsRoute, DoneKeepsRoute
<1>6. CASE \E s \in Servers : ServerStep(s)
  BY <1>6, ExitKeepsRoute, ServerKeepsRoute DEF ServerStep
<1> QED
  BY <1>1, <1>2, <1>3, <1>4, <1>5, <1>6 DEF Next

LEMMA RouteHolds == Spec => []RouteInv
<1> QED
  BY RouteStarts, RouteStays, PTL DEF Spec

-----------------------------------------------------------------------------
(* The theorems.                                                           *)

(* The proxy's types hold in every state of every instance.                *)
LEMMA RouteTypes == RouteInv => RouteTypeOK
<1> SUFFICES ASSUME RouteInv PROVE RouteTypeOK
  OBVIOUS
<1>1. CallTypes /\ RunTypes /\ ClaimTypes
  BY DEF RouteInv, CallInv, ClaimInv
<1>2. ASSUME NEW c \in Calls
      PROVE  loc[c].run \in Runs \cup {NoRun} /\ loc[c].up \in Urls \cup Servers \cup {NoUpstream}
  <2>1. loc[c] \in Locals
    BY <1>1 DEF CallTypes
  <2> QED
    BY <2>1 DEF Locals, Upstreams
<1> QED
  BY <1>1, <1>2 DEF RouteTypeOK, CallTypes, RunTypes, ClaimTypes, Upstreams

(* Every answered call left the lines its answer stands for and was counted *)
(* once, whatever was written, awaited and armed meanwhile; and where no   *)
(* two calls of a run and tool overlapped, a fault met the call it names   *)
(* and no other (tool_route, _stdio_dispatch and fault_for_call).          *)
THEOREM CallsStayAccounted == Spec => []CallsAreAccounted
<1>1. RouteInv => CallsAreAccounted
  <2> SUFFICES ASSUME RouteInv PROVE CallsAreAccounted
    OBVIOUS
  <2>1. CallInv /\ TraceInv /\ FaultInv
    BY DEF RouteInv
  <2>2. \A c \in Calls : Under(c) # NoRun => Progress(c)
    BY <2>1 DEF TraceInv
  <2>3. \A c \in Calls : Answered(c) /\ Under(c) \in known => Kinds(trace[Under(c)][c]) \in Lines(c)
    BY <2>1, <2>2, FaultsAssumption DEF Answered, Progress, Said, CallInv, RunTypes
  <2>4. ASSUME NEW r \in Runs, NEW t \in Tools
        PROVE  /\ IsInjective(counted[r][t])
               /\ (\A c \in TakenFor(r, t) : Answered(c)) =>
                    Range(counted[r][t]) =
                      {c \in TakenFor(r, t) :
                         \/ answer[c] \in {200, 403, 502}
                         \/ answer[c] \in {499, 500} /\ loc[c].up \in Urls}
    <3>1. /\ counted[r][t] \in Seq(Calls)
          /\ \A i \in DOMAIN counted[r][t] :
               Under(counted[r][t][i]) = r /\ loc[counted[r][t][i]].tool = t
          /\ \A i, j \in DOMAIN counted[r][t] : counted[r][t][i] = counted[r][t][j] => i = j
      BY <2>1 DEF CallInv, RunTypes, TraceInv, Own
    <3>2. IsInjective(counted[r][t])
      BY <3>1 DEF IsInjective
    <3>3. Range(counted[r][t]) \subseteq TakenFor(r, t)
      BY <3>1 DEF Range, TakenFor, Under
    <3>4. \A c \in TakenFor(r, t) : Progress(c) /\ (IsCounted(c) <=> c \in Range(counted[r][t]))
      BY <2>2, FaultsAssumption DEF TakenFor, IsCounted, Under
    <3>5. \A c \in TakenFor(r, t) : Answered(c) =>
            (c \in Range(counted[r][t]) <=>
               \/ answer[c] \in {200, 403, 502}
               \/ answer[c] \in {499, 500} /\ loc[c].up \in Urls)
      BY <3>4 DEF Answered, Progress
    <3> QED
      BY <3>2, <3>3, <3>5
  <2>5. TraceTellsTheCall
    BY <2>3, <2>4, RouteTypes DEF TraceTellsTheCall
  <2>6. FaultsTheNth
    <3> SUFFICES ASSUME NEW r \in Runs, NEW t \in Tools, <<r, t>> \notin crossed,
                        NEW i \in DOMAIN counted[r][t],
                        Answered(counted[r][t][i]), answer[counted[r][t][i]] = 200
                 PROVE  loc[counted[r][t][i]].spec # NoFault <=>
                          \E f \in Range(Faults[r]) : f.tool = t /\ f.index \in {Always, i - 1}
      BY DEF FaultsTheNth
    <3> PICK c \in Calls : c = counted[r][t][i] /\ Under(c) = r
      BY <2>1 DEF CallInv, RunTypes, TraceInv, Own
    <3>1. loc[c].matched
      BY <2>2, FaultsAssumption DEF Progress, Answered
    <3> QED
      BY <2>1, <3>1 DEF FaultInv, HasFault
  <2> QED
    BY <2>5, <2>6 DEF CallsAreAccounted
<1> QED
  BY <1>1, RouteHolds, PTL

(* A claim's cases are read off a trace that holds the claim and every     *)
(* line of every call answered before it, and the upload begins with those *)
(* lines, however calls, other claims and the pruning of traces fall       *)
(* between its three stretches (claim and recorder.lines).                 *)
THEOREM EvidenceStaysOfTheTrace == Spec => []EvidenceIsOfTheTrace
<1>1. RouteInv => EvidenceIsOfTheTrace
  BY DEF RouteInv, ClaimInv, ClaimStage, EvidenceIsOfTheTrace
<1> QED
  BY <1>1, RouteHolds, PTL

(* A vault tool's upstream is shown the credential of the endpoint called, *)
(* alone under its header, or is not called, whatever headers of its own   *)
(* the agent sends and though the table is repointed under way (tool_route *)
(* and Credential.applied_to).                                             *)
THEOREM NeverWithoutCredential == Spec => []NoCredentialNoCall
<1>1. RouteInv => NoCredentialNoCall
  BY DEF RouteInv, VaultInv, NoCredentialNoCall, ShownTheCredential
<1> QED
  BY <1>1, RouteHolds, PTL

(* A caller of a stdio server is handed its own answer, through late       *)
(* answers and callers that gave up, and a process that runs is in the     *)
(* table or under registration, was written over by a registration that    *)
(* overlapped its own, or was left by a handshake that ended in another    *)
(* exception than an McpError (stdio_mcp.rpc, discover_stdio and           *)
(* mcp_discover).                                                          *)
THEOREM StdioStaysOwned == Spec => []StdioIsOwned
<1>1. RouteInv => StdioIsOwned
  BY DEF RouteInv, StdioInv, StdioTypes, TableInv, StdioIsOwned, OwnAnswer
<1> QED
  BY <1>1, RouteHolds, PTL
=============================================================================
