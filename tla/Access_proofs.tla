--------------------------- MODULE Access_proofs ---------------------------
(***************************************************************************)
(* Machine-checked safety of the identity service and of the backend's     *)
(* access rules, for every set of people, organizations, requests, keys    *)
(* and nodes, and however the transactions of the requests interleave with *)
(* each other and with restarts of either service.                         *)
(***************************************************************************)
EXTENDS Access, FiniteSetTheorems, SequenceTheorems, TLAPS

RoleNames == {"viewer", "member", "admin", "owner"}
Token == [user: Users, org: Users, login: Nat, revoked: BOOLEAN, expired: BOOLEAN]
AccessToken == [user: Users, org: Users, role: RoleNames, key: SigningKeys]
VisitRow ==
  [op: {"none", "signup", "login", "refresh", "logout", "member"},
   stage: {"none", "user", "org", "owner", "issue", "subject", "revoke", "logout", "member"},
   user: Users \cup {Nobody.user}, org: Users \cup {Nobody.org},
   role: RoleNames \cup {"none"}, token: Nat]

(* Types of the identity service's variables.                              *)
SessionTypes ==
  /\ accounts \subseteq Users /\ orgs \subseteq Users
  /\ members \in [Users -> [Users -> RoleNames \cup {"none"}]]
  /\ tokens \in Seq(Token) /\ access \subseteq AccessToken
  /\ visits \in [Visits -> VisitRow]
  /\ signing \in SigningKeys
  /\ logins \in Nat /\ raced \subseteq 1..logins /\ ended \subseteq 1..logins
  /\ \A i \in DOMAIN tokens : tokens[i].login \in 1..logins

(* An organization is founded when its founder is its owner.               *)
Founded(table, o) == table[o][o] = "owner"

(* Nobody is a member, holds a token or speaks for an organization before  *)
(* it is founded.                                                          *)
FoundersFirst ==
  /\ \A u, o \in Users : members[u][o] # "none" => u \in accounts /\ o \in orgs /\ Founded(members, o)
  /\ \A u, o \in Users : members[u][o] = "owner" => u = o
  /\ \A i \in DOMAIN tokens : Founded(members, tokens[i].org)
  /\ \A t \in access : Founded(members, t.org)

(* What a request has in hand at each of its stages.                       *)
VisitFits(v) ==
  LET w == visits[v] IN
  /\ w.stage \in {"user", "org", "owner"} =>
       /\ w.op = "signup" /\ w.user \in Users /\ w.org = w.user /\ w.role = "owner"
  /\ w.stage \in {"org", "owner"} =>
       /\ w.user \in accounts
       /\ members[w.user][w.user] = "none"
  /\ w.stage = "owner" => w.org \in orgs
  /\ w.stage = "member" =>
       /\ w.op = "member" /\ w.user \in accounts /\ w.org \in orgs
       /\ w.role \in Assignable /\ Founded(members, w.org)
  /\ w.stage \in {"subject", "revoke"} => w.op = "refresh"
  /\ w.stage = "logout" => w.op = "logout"
  /\ w.stage # "none" /\ w.op \in {"refresh", "logout"} => w.token \in DOMAIN tokens
  /\ w.stage \in {"subject", "revoke", "issue"} =>
       w.user \in Users /\ w.org \in Users /\ Founded(members, w.org)
  /\ w.stage \in {"revoke", "issue"} => w.op # "logout" /\ w.role \in RoleNames

(* One sign-up of an email gets past the insert of its account.            *)
OneFounder ==
  \A v, w \in Visits :
    /\ visits[v].stage \in {"org", "owner"} /\ visits[w].stage \in {"org", "owner"}
    /\ visits[v].user = visits[w].user
    => v = w

PeopleInv ==
  /\ SessionTypes
  /\ FoundersFirst
  /\ \A v \in Visits : VisitFits(v)
  /\ OneFounder

(* Requests that present a refresh token, and the login it is of.          *)
Holds(v) == visits[v].stage # "none" /\ visits[v].op \in {"refresh", "logout"}
LoginOf(v) == tokens[visits[v].token].login

(* A login that no two requests raced for is carried by one thing: a good  *)
(* token, or the refresh that has revoked it and will issue the next.      *)
OneCarrier ==
  /\ \A v, w \in Visits :
       Holds(v) /\ Holds(w) /\ visits[v].token = visits[w].token /\ LoginOf(v) \notin raced => v = w
  /\ \A v \in Visits : visits[v].stage \in {"subject", "revoke"} /\ Holds(v) /\ LoginOf(v) \notin raced =>
       ~tokens[visits[v].token].revoked
  /\ \A v \in Visits : visits[v].stage = "issue" /\ Holds(v) /\ LoginOf(v) \notin raced =>
       /\ \A i \in DOMAIN tokens : tokens[i].login = LoginOf(v) => tokens[i].revoked
       /\ LoginOf(v) \notin ended
       /\ \A w \in Visits : visits[w].stage = "issue" /\ Holds(w) /\ LoginOf(w) = LoginOf(v) => v = w
  /\ \A i, j \in DOMAIN tokens :
       /\ tokens[i].login = tokens[j].login /\ tokens[i].login \notin raced
       /\ ~tokens[i].revoked /\ ~tokens[j].revoked
       => i = j
  /\ \A i \in DOMAIN tokens : tokens[i].login \in ended \ raced => tokens[i].revoked

SessionsInv == PeopleInv /\ OneCarrier

-----------------------------------------------------------------------------
Key == [scopes: SUBSET SCOPES, node: Nodes \cup {Anywhere}, org: Users \cup {Public}]
Mint3 == [scopes: SUBSET SCOPES, node: Nodes \cup {Anywhere}, org: Users \cup {Public},
          as: KeyIds \cup {"master", "user"}, by: Key]
Cred == {[kind |-> "none"], [kind |-> "master"]} \cup [kind: {"key"}, id: KeyIds]
        \cup [kind: {"user"}, token: AccessToken]
CallRow ==
  [stage: {"none", "resolving", "unknown", "fetching", "checking", "auditing", "answering"},
   cred: Cred, op: {"none", "mint", "revoke"}, key: KeyIds \cup {Nothing.key},
   scopes: SUBSET SCOPES, node: Nodes \cup {Anywhere}, who: Key,
   as: KeyIds \cup {"master", "user", "none"}]

(* The row a key was stored with.                                          *)
RowOf(k) == [scopes |-> minted[k].scopes, node |-> minted[k].node, org |-> minted[k].org]

(* Types of the backend's variables.                                       *)
AccessTypes ==
  /\ keys \in [KeyIds -> Key] /\ minted \in [KeyIds -> {NoKey} \cup Mint3]
  /\ calls \in [Calls -> CallRow]
  /\ handed \subseteq KeyIds /\ revoked \subseteq KeyIds
  /\ audit \subseteq {"mint", "revoke"} \X KeyIds

(* A stored key is as it was minted, and was minted by one with its rights.*)
KeysFit ==
  \A k \in KeyIds :
    /\ keys[k] # NoKey => k \notin Fresh /\ keys[k] = RowOf(k)
    /\ k \notin Fresh =>
         /\ minted[k] \in Mint3 /\ minted[k].scopes # {}
         /\ minted[k].scopes \subseteq minted[k].by.scopes /\ minted[k].org = minted[k].by.org
         /\ minted[k].by.node # Anywhere => minted[k].node = minted[k].by.node
         /\ minted[k].as \in KeyIds =>
              minted[k].as \notin Fresh /\ minted[k].by = RowOf(minted[k].as)

(* What a call has in hand: a key it was let in with was minted, whether   *)
(* or not it is still there, and what it has done is done.                 *)
CallFits(c) ==
  LET w == calls[c] IN
  /\ w.stage \in {"unknown", "fetching"} => w.cred.kind = "user"
  /\ w.stage = "checking" =>
       /\ w.as # "none"
       /\ w.as \in KeyIds => w.as \notin Fresh /\ w.who = RowOf(w.as)
  /\ w.op = "mint" => w.scopes # {}
  /\ w.stage \in {"auditing", "answering"} =>
       /\ w.key \in KeyIds /\ w.key \notin Fresh /\ w.op # "none"
       /\ w.op = "revoke" => w.key \notin Stored
  /\ w.stage = "answering" => <<w.op, w.key>> \in audit

KeysInv ==
  /\ AccessTypes
  /\ KeysFit
  /\ \A c \in Calls : CallFits(c)
  /\ UsableIsAudited

(* The last fetch is the last of the fetches.                              *)
FetchInv ==
  /\ fetches \in Seq(Nat) /\ clock \in Nat /\ lastFetch \in Nat /\ clock >= MinInterval
  /\ fetches # <<>> => /\ lastFetch = fetches[Len(fetches)] /\ lastFetch <= clock
                       /\ lastFetch >= MinInterval
  /\ FetchesAreSpaced

-----------------------------------------------------------------------------
(* A request that is not in hand is typed like one that is.                *)
LEMMA NobodyFacts ==
  /\ Nobody \in VisitRow /\ Nobody.op = "none" /\ Nobody.stage = "none" /\ Nobody.role = "none"
  /\ DOMAIN Nobody = {"op", "stage", "user", "org", "role", "token"}
BY DEF Nobody, VisitRow

(* Refresh tokens are numbered in the order they are issued.               *)
LEMMA TokenFacts ==
  ASSUME SessionTypes
  PROVE  /\ Len(tokens) \in Nat /\ DOMAIN tokens = 1..Len(tokens)
         /\ \A i \in DOMAIN tokens : tokens[i] \in Token
BY LenProperties DEF SessionTypes

(* A mark on one token leaves the others, and whose it is.                 *)
LEMMA MarkFacts ==
  ASSUME SessionTypes, NEW i \in DOMAIN tokens, NEW t \in Token,
         tokens' = [tokens EXCEPT ![i] = t]
  PROVE  /\ tokens' \in Seq(Token) /\ DOMAIN tokens' = DOMAIN tokens /\ tokens'[i] = t
         /\ \A j \in DOMAIN tokens : j # i => tokens'[j] = tokens[j]
<1>1. i \in 1..Len(tokens) /\ tokens \in Seq(Token)
  BY TokenFacts DEF SessionTypes
<1>2. tokens' \in Seq(Token) /\ Len(tokens') = Len(tokens)
  BY <1>1, ExceptSeq
<1>3. DOMAIN tokens' = DOMAIN tokens
  BY <1>1, <1>2, LenProperties
<1> QED
  BY <1>1, <1>2, <1>3

(* A new token comes last.                                                 *)
LEMMA IssueFacts ==
  ASSUME SessionTypes, NEW t \in Token, tokens' = Append(tokens, t)
  PROVE  /\ tokens' \in Seq(Token) /\ DOMAIN tokens' = DOMAIN tokens \cup {Len(tokens) + 1}
         /\ Len(tokens) + 1 \notin DOMAIN tokens
         /\ tokens'[Len(tokens) + 1] = t
         /\ \A j \in DOMAIN tokens : tokens'[j] = tokens[j]
<1>1. tokens \in Seq(Token) /\ Len(tokens) \in Nat /\ DOMAIN tokens = 1..Len(tokens)
  BY TokenFacts DEF SessionTypes
<1>2. tokens' \in Seq(Token) /\ Len(tokens') = Len(tokens) + 1
  BY <1>1
<1>3. DOMAIN tokens' = 1..(Len(tokens) + 1)
  BY <1>2, LenProperties
<1>4. tokens'[Len(tokens) + 1] = t /\ \A j \in 1..Len(tokens) : tokens'[j] = tokens[j]
  BY <1>1
<1> QED
  BY <1>1, <1>2, <1>3, <1>4

-----------------------------------------------------------------------------
(* What a step of one request may do without disturbing the others: roles  *)
(* are added, of founded organizations; tokens are added, or marked.       *)
LEMMA PeopleStep ==
  ASSUME PeopleInv, NEW v \in Visits, NEW row \in VisitRow, visits' = [visits EXCEPT ![v] = row],
         accounts \subseteq accounts', accounts' \subseteq Users,
         orgs \subseteq orgs', orgs' \subseteq Users,
         members' \in [Users -> [Users -> RoleNames \cup {"none"}]],
         \A u, o \in Users : members[u][o] # "none" => members'[u][o] = members[u][o],
         \A u, o \in Users : members'[u][o] # members[u][o] =>
           /\ u \in accounts' /\ o \in orgs' /\ Founded(members', o) /\ (members'[u][o] = "owner" => u = o),
         \A w \in Visits \ {v} : visits[w].stage \in {"org", "owner"} =>
           members'[visits[w].user][visits[w].user] = members[visits[w].user][visits[w].user],
         tokens' \in Seq(Token), DOMAIN tokens \subseteq DOMAIN tokens',
         \A i \in DOMAIN tokens' :
           \/ i \in DOMAIN tokens /\ tokens'[i].org = tokens[i].org /\ tokens'[i].login = tokens[i].login
           \/ Founded(members', tokens'[i].org) /\ tokens'[i].login \in 1..logins',
         access' \subseteq AccessToken, \A t \in access' \ access : Founded(members', t.org),
         signing' = signing, logins' \in Nat, logins <= logins',
         raced' \subseteq 1..logins', ended' \subseteq 1..logins',
         VisitFits(v)',
         row.stage \in {"org", "owner"} =>
           \A w \in Visits \ {v} : visits[w].stage \in {"org", "owner"} => visits[w].user # row.user
  PROVE  PeopleInv'
<1>1. /\ visits \in [Visits -> VisitRow] /\ visits' \in [Visits -> VisitRow]
      /\ visits'[v] = row /\ \A w \in Visits \ {v} : visits'[w] = visits[w]
  BY DEF PeopleInv, SessionTypes
<1>2. \A o \in Users : Founded(members, o) => Founded(members', o)
  BY DEF Founded
<1>3. \A i \in DOMAIN tokens : tokens[i].org \in Users /\ tokens[i].login \in 1..logins'
      /\ Founded(members, tokens[i].org)
  BY TokenFacts DEF PeopleInv, SessionTypes, FoundersFirst, Token
<1>4. SessionTypes'
  BY <1>1, <1>3 DEF PeopleInv, SessionTypes
<1>5. FoundersFirst'
  <2>1. ASSUME NEW u \in Users, NEW o \in Users, members'[u][o] # "none"
        PROVE  u \in accounts' /\ o \in orgs' /\ Founded(members', o)
    BY <1>2, <2>1 DEF PeopleInv, FoundersFirst
  <2>2. ASSUME NEW u \in Users, NEW o \in Users, members'[u][o] = "owner" PROVE u = o
    <3>1. members[u][o] = "owner" => u = o
      BY DEF PeopleInv, FoundersFirst
    <3> QED
      BY <2>2, <3>1
  <2>3. \A i \in DOMAIN tokens' : Founded(members', tokens'[i].org)
    BY <1>2, <1>3
  <2>4. \A t \in access' : Founded(members', t.org)
    BY <1>2 DEF PeopleInv, FoundersFirst, AccessToken
  <2> QED
    BY <2>1, <2>2, <2>3, <2>4 DEF FoundersFirst
<1>6. ASSUME NEW w \in Visits PROVE VisitFits(w)'
  <2>1. CASE w = v
    BY <2>1
  <2>2. CASE w # v
    <3>1. VisitFits(w) /\ visits'[w] = visits[w]
      BY <1>1, <2>2 DEF PeopleInv
    <3>2. visits[w].stage \in {"org", "owner"} =>
            members'[visits[w].user][visits[w].user] = members[visits[w].user][visits[w].user]
      BY <2>2
    <3>3. visits[w].stage = "member" => visits[w].org \in Users
      BY <3>1 DEF VisitFits, PeopleInv, SessionTypes
    <3> QED
      BY <1>2, <3>1, <3>2, <3>3 DEF VisitFits
  <2> QED
    BY <2>1, <2>2
<1>7. OneFounder'
  BY <1>1 DEF PeopleInv, OneFounder
<1> QED
  BY <1>4, <1>5, <1>6, <1>7 DEF PeopleInv

(* A request comes in, moves on or leaves, and nothing is written.         *)
LEMMA PeopleMove ==
  ASSUME PeopleInv, NEW v \in Visits, NEW row \in VisitRow, visits' = [visits EXCEPT ![v] = row],
         UNCHANGED <<accounts, orgs, members, tokens, signing, access, logins, ended>>,
         raced' \subseteq 1..logins, VisitFits(v)',
         row.stage \notin {"org", "owner"}
  PROVE  PeopleInv'
<1>1. /\ accounts \subseteq Users /\ orgs \subseteq Users
      /\ members \in [Users -> [Users -> RoleNames \cup {"none"}]]
      /\ tokens \in Seq(Token) /\ access \subseteq AccessToken
      /\ logins \in Nat /\ ended \subseteq 1..logins
  BY DEF PeopleInv, SessionTypes
<1>2. logins <= logins
  BY <1>1
<1> QED
  BY <1>1, <1>2, PeopleStep

(* A token keeps its login's one carrier while requests that hold none     *)
(* come and go, and while a refresh looks up its subject.                  *)
LEMMA CarrierMove ==
  ASSUME SessionsInv, NEW v \in Visits, NEW row \in VisitRow, visits' = [visits EXCEPT ![v] = row],
         UNCHANGED <<tokens, raced, ended>>,
         \/ row.stage = "none" \/ row.op \notin {"refresh", "logout"}
         \/ /\ visits[v].stage = "subject" /\ row.stage = "revoke"
            /\ row.op = visits[v].op /\ row.token = visits[v].token
  PROVE  OneCarrier'
<1>1. visits'[v] = row /\ \A w \in Visits \ {v} : visits'[w] = visits[w]
  BY DEF SessionsInv, PeopleInv, SessionTypes
<1>2. \A w \in Visits : Holds(w)' => Holds(w) /\ visits'[w].token = visits[w].token
                                     /\ LoginOf(w)' = LoginOf(w)
  BY <1>1 DEF Holds, LoginOf
<1>3. \A w \in Visits : visits'[w].stage = "issue" /\ Holds(w)' => visits[w].stage = "issue"
  BY <1>1 DEF Holds
<1>4. \A w \in Visits : Holds(w)' /\ visits'[w].stage \in {"subject", "revoke"} =>
        visits[w].stage \in {"subject", "revoke"}
  BY <1>1 DEF Holds
<1>5. \A w, x \in Visits : Holds(w)' /\ Holds(x)' /\ visits'[w].token = visits'[x].token
        /\ LoginOf(w)' \notin raced' => w = x
  BY <1>2 DEF SessionsInv, OneCarrier
<1>6. \A w \in Visits : visits'[w].stage \in {"subject", "revoke"} /\ Holds(w)'
        /\ LoginOf(w)' \notin raced' => ~tokens'[visits'[w].token].revoked
  BY <1>2, <1>4 DEF SessionsInv, OneCarrier
<1>7. \A w \in Visits : visits'[w].stage = "issue" /\ Holds(w)' /\ LoginOf(w)' \notin raced' =>
       /\ \A i \in DOMAIN tokens' : tokens'[i].login = LoginOf(w)' => tokens'[i].revoked
       /\ LoginOf(w)' \notin ended'
       /\ \A x \in Visits : visits'[x].stage = "issue" /\ Holds(x)' /\ LoginOf(x)' = LoginOf(w)'
            => w = x
  BY <1>2, <1>3 DEF SessionsInv, OneCarrier
<1>8. OneCarrier!4' /\ OneCarrier!5'
  BY DEF SessionsInv, OneCarrier
<1> QED
  BY <1>5, <1>6, <1>7, <1>8 DEF OneCarrier

(* The rows of the visits, for a step that changes one of them.            *)
LEMMA StageFacts ==
  ASSUME SessionTypes, NEW v \in Visits
  PROVE  /\ visits[v] \in VisitRow
         /\ \A s \in {"none", "user", "org", "owner", "issue", "subject", "revoke", "logout", "member"} :
              /\ [visits[v] EXCEPT !.stage = s] \in VisitRow
              /\ [visits[v] EXCEPT !.stage = s].stage = s
              /\ [visits[v] EXCEPT !.stage = s].op = visits[v].op
              /\ [visits[v] EXCEPT !.stage = s].user = visits[v].user
              /\ [visits[v] EXCEPT !.stage = s].org = visits[v].org
              /\ [visits[v] EXCEPT !.stage = s].role = visits[v].role
              /\ [visits[v] EXCEPT !.stage = s].token = visits[v].token
         /\ \A s : To(v, s) => visits' = [visits EXCEPT ![v] = [visits[v] EXCEPT !.stage = s]]
<1>1. visits[v] \in VisitRow
  BY DEF SessionTypes
<1>2. \A s : To(v, s) => visits' = [visits EXCEPT ![v] = [visits[v] EXCEPT !.stage = s]]
  BY DEF To
<1> QED
  BY <1>1, <1>2 DEF VisitRow

(* A visit that is over holds nothing.                                     *)
LEMMA LeaveStep ==
  ASSUME SessionsInv, NEW v \in Visits, Leave(v),
         UNCHANGED <<accounts, orgs, members, tokens, signing, access, logins, raced, ended>>
  PROVE  SessionsInv'
<1>1. visits' = [visits EXCEPT ![v] = Nobody] /\ visits'[v] = Nobody
  BY DEF Leave, SessionsInv, PeopleInv, SessionTypes
<1>2. VisitFits(v)'
  BY <1>1, NobodyFacts DEF VisitFits
<1>3. raced' \subseteq 1..logins
  BY DEF SessionsInv, PeopleInv, SessionTypes
<1>4. PeopleInv'
  BY <1>1, <1>2, <1>3, NobodyFacts, PeopleMove DEF SessionsInv
<1>5. OneCarrier'
  BY <1>1, NobodyFacts, CarrierMove
<1> QED
  BY <1>4, <1>5 DEF SessionsInv

(* A sign-up comes in.                                                     *)
LEMMA SignupStep ==
  ASSUME SessionsInv, NEW v \in Visits, NEW u \in Users, Signup(v, u)
  PROVE  SessionsInv'
<1> DEFINE row == [Nobody EXCEPT !.op = "signup", !.stage = "user",
                                 !.user = u, !.org = u, !.role = "owner"]
<1>1. /\ visits' = [visits EXCEPT ![v] = row]
      /\ UNCHANGED <<accounts, orgs, members, tokens, signing, access, logins, raced, ended>>
  BY DEF Signup, sessionNotes
<1>2. /\ row \in VisitRow /\ row.op = "signup" /\ row.stage = "user" /\ row.user = u
      /\ row.org = u /\ row.role = "owner"
  BY NobodyFacts DEF VisitRow, RoleNames
<1> HIDE DEF row
<1>3. visits'[v] = row /\ raced' \subseteq 1..logins
  BY <1>1 DEF SessionsInv, PeopleInv, SessionTypes
<1>4. VisitFits(v)'
  BY <1>2, <1>3 DEF VisitFits
<1>5. PeopleInv'
  BY <1>1, <1>2, <1>3, <1>4, PeopleMove DEF SessionsInv
<1>6. OneCarrier'
  BY <1>1, <1>2, CarrierMove
<1> QED
  BY <1>5, <1>6 DEF SessionsInv

(* The insert of the account: the second of two sign-ups ends here.        *)
LEMMA CreateUserStep ==
  ASSUME SessionsInv, NEW v \in Visits, CreateUser(v)
  PROVE  SessionsInv'
<1> DEFINE w == visits[v]
<1>1. /\ w.stage = "user" /\ w.user \in Users /\ w.org = w.user /\ w.op = "signup" /\ w.role = "owner"
      /\ w.user \in accounts \/ w.user \notin accounts
      /\ SessionTypes
  BY DEF CreateUser, SessionsInv, PeopleInv, VisitFits
<1>2. /\ UNCHANGED <<orgs, members, tokens, signing, access, logins, raced, ended>>
      /\ accounts' = accounts \cup {w.user}
  BY DEF CreateUser, sessionNotes
<1>3. CASE w.user \in accounts
  <2>1. Leave(v) /\ accounts' = accounts
    BY <1>2, <1>3 DEF CreateUser
  <2> QED
    BY <1>2, <2>1, LeaveStep
<1>4. CASE w.user \notin accounts
  <2> DEFINE row == [w EXCEPT !.stage = "org"]
  <2>1. visits' = [visits EXCEPT ![v] = row]
    BY <1>1, <1>4, StageFacts DEF CreateUser
  <2>2. /\ row \in VisitRow /\ row.op = w.op /\ row.stage = "org" /\ row.user = w.user
        /\ row.org = w.org /\ row.role = w.role /\ row.token = w.token
    BY <1>1, StageFacts
  <2> HIDE DEF row
  <2>3. visits'[v] = row
    BY <1>1, <2>1 DEF SessionTypes
  <2>4. members[w.user][w.user] = "none"
    BY <1>1, <1>4 DEF SessionsInv, PeopleInv, FoundersFirst
  <2>5. VisitFits(v)'
    BY <1>1, <1>2, <2>2, <2>3, <2>4 DEF VisitFits
  <2>6. \A x \in Visits : visits[x].stage \in {"org", "owner"} => visits[x].user # row.user
    BY <1>4, <2>2 DEF SessionsInv, PeopleInv, VisitFits
  <2>7. /\ accounts' \subseteq Users /\ orgs \subseteq Users /\ tokens \in Seq(Token)
        /\ members \in [Users -> [Users -> RoleNames \cup {"none"}]]
        /\ access \subseteq AccessToken /\ logins \in Nat /\ logins <= logins
        /\ raced \subseteq 1..logins /\ ended \subseteq 1..logins
    BY <1>1, <1>2 DEF SessionTypes
  <2>8. PeopleInv'
    BY <1>2, <2>1, <2>2, <2>5, <2>6, <2>7, PeopleStep DEF SessionsInv
  <2>9. OneCarrier'
    BY <1>1, <1>2, <2>1, <2>2, CarrierMove
  <2> QED
    BY <2>8, <2>9 DEF SessionsInv
<1> QED
  BY <1>3, <1>4

(* The insert of the organization.                                         *)
LEMMA CreateOrgStep ==
  ASSUME SessionsInv, NEW v \in Visits, CreateOrg(v)
  PROVE  SessionsInv'
<1> DEFINE w == visits[v]
           row == [w EXCEPT !.stage = "owner"]
<1>1. /\ w.stage = "org" /\ w.user \in accounts /\ w.user \in Users /\ w.org = w.user
      /\ w.op = "signup" /\ w.role = "owner" /\ members[w.user][w.user] = "none" /\ SessionTypes
  BY DEF CreateOrg, SessionsInv, PeopleInv, VisitFits
<1>2. /\ UNCHANGED <<accounts, members, tokens, signing, access, logins, raced, ended>>
      /\ orgs' = orgs \cup {w.org} /\ visits' = [visits EXCEPT ![v] = row]
  <2>1. UNCHANGED <<accounts, members, tokens, signing, access, logins, raced, ended>>
        /\ orgs' = orgs \cup {w.org} /\ To(v, "owner")
    BY DEF CreateOrg, sessionNotes
  <2>2. visits' = [visits EXCEPT ![v] = row]
    BY <2>1 DEF To
  <2> QED
    BY <2>1, <2>2
<1>3. /\ row \in VisitRow /\ row.op = w.op /\ row.stage = "owner" /\ row.user = w.user
      /\ row.org = w.org /\ row.role = w.role /\ row.token = w.token
  BY <1>1, StageFacts
<1> HIDE DEF row
<1>4. visits'[v] = row
  BY <1>1, <1>2 DEF SessionTypes
<1>5. VisitFits(v)'
  BY <1>1, <1>2, <1>3, <1>4 DEF VisitFits
<1>6. \A x \in Visits \ {v} : visits[x].stage \in {"org", "owner"} => visits[x].user # row.user
  BY <1>1, <1>3 DEF SessionsInv, PeopleInv, OneFounder
<1>7. /\ accounts \subseteq Users /\ orgs' \subseteq Users /\ tokens \in Seq(Token)
      /\ members \in [Users -> [Users -> RoleNames \cup {"none"}]]
      /\ access \subseteq AccessToken /\ logins \in Nat /\ logins <= logins
      /\ raced \subseteq 1..logins /\ ended \subseteq 1..logins
  BY <1>1, <1>2 DEF SessionTypes
<1>8. PeopleInv'
  BY <1>2, <1>3, <1>5, <1>6, <1>7, PeopleStep DEF SessionsInv
<1>9. OneCarrier'
  BY <1>1, <1>2, <1>3, CarrierMove
<1> QED
  BY <1>8, <1>9 DEF SessionsInv

(* The founder becomes the owner: nobody was a member before.              *)
LEMMA AddOwnerStep ==
  ASSUME SessionsInv, NEW v \in Visits, AddOwner(v)
  PROVE  /\ SessionsInv'
         /\ \A u, o \in Users : members'[u][o] # members[u][o] =>
              members[u][o] = "none" /\ u = o /\ members'[u][o] = "owner"
<1> DEFINE w == visits[v]
           f == visits[v].user
           row == [w EXCEPT !.stage = "issue"]
<1>1. /\ w.stage = "owner" /\ f \in accounts /\ f \in Users /\ w.org = f /\ f \in orgs
      /\ w.op = "signup" /\ w.role = "owner" /\ members[f][f] = "none" /\ SessionTypes
  BY DEF AddOwner, SessionsInv, PeopleInv, VisitFits
<1>2. /\ UNCHANGED <<accounts, orgs, tokens, signing, access, logins, raced, ended>>
      /\ members' = [members EXCEPT ![f][f] = "owner"] /\ visits' = [visits EXCEPT ![v] = row]
  <2>1. UNCHANGED <<accounts, orgs, tokens, signing, access, logins, raced, ended>>
        /\ To(v, "issue") /\ members' = [members EXCEPT ![f][w.org] = "owner"]
    BY DEF AddOwner, sessionNotes
  <2>2. visits' = [visits EXCEPT ![v] = row]
    BY <2>1 DEF To
  <2> QED
    BY <1>1, <2>1, <2>2
<1>3. /\ row \in VisitRow /\ row.op = w.op /\ row.stage = "issue" /\ row.user = f
      /\ row.org = f /\ row.role = "owner" /\ row.token = w.token
  BY <1>1, StageFacts
<1>4. /\ members' \in [Users -> [Users -> RoleNames \cup {"none"}]]
      /\ members'[f][f] = "owner"
      /\ \A u, o \in Users : ~(u = f /\ o = f) => members'[u][o] = members[u][o]
  BY <1>1, <1>2 DEF SessionTypes, RoleNames
<1> HIDE DEF row
<1>5. visits'[v] = row
  BY <1>1, <1>2 DEF SessionTypes
<1>6. VisitFits(v)'
  BY <1>1, <1>2, <1>3, <1>4, <1>5 DEF VisitFits, Founded, RoleNames
<1>7. \A x \in Visits \ {v} : visits[x].stage \in {"org", "owner"} => visits[x].user # f /\ visits[x].user \in Users
  BY <1>1 DEF SessionsInv, PeopleInv, OneFounder, VisitFits
<1>8. /\ accounts \subseteq Users /\ orgs \subseteq Users /\ tokens \in Seq(Token)
      /\ access \subseteq AccessToken /\ logins \in Nat /\ logins <= logins
      /\ raced \subseteq 1..logins /\ ended \subseteq 1..logins
  BY <1>1, <1>2 DEF SessionTypes
<1>9. \A u, o \in Users : members'[u][o] # members[u][o] => u = f /\ o = f
  BY <1>4
<1>10. \A u, o \in Users : members[u][o] # "none" => members'[u][o] = members[u][o]
  BY <1>1, <1>9
<1>11. \A u, o \in Users : members'[u][o] # members[u][o] =>
         /\ u \in accounts' /\ o \in orgs' /\ Founded(members', o) /\ (members'[u][o] = "owner" => u = o)
  BY <1>1, <1>2, <1>4, <1>9 DEF Founded
<1>12. \A x \in Visits \ {v} : visits[x].stage \in {"org", "owner"} =>
         members'[visits[x].user][visits[x].user] = members[visits[x].user][visits[x].user]
  BY <1>4, <1>7
<1>13. PeopleInv'
  BY <1>2, <1>3, <1>4, <1>6, <1>8, <1>10, <1>11, <1>12, PeopleStep DEF SessionsInv
<1>14. OneCarrier'
  BY <1>1, <1>2, <1>3, CarrierMove
<1> QED
  BY <1>1, <1>4, <1>9, <1>13, <1>14 DEF SessionsInv

(* A login comes in, for one of the organizations the account is in.       *)
LEMMA LoginStep ==
  ASSUME SessionsInv, NEW v \in Visits, NEW u \in Users, NEW asked, Login(v, u, asked)
  PROVE  SessionsInv'
<1>1. PICK o \in Picked(u, asked) :
        visits' = [visits EXCEPT ![v] = [Nobody EXCEPT !.op = "login", !.stage = "issue",
                                           !.user = u, !.org = o, !.role = members[u][o]]]
  BY DEF Login
<1> DEFINE row == [Nobody EXCEPT !.op = "login", !.stage = "issue",
                                 !.user = u, !.org = o, !.role = members[u][o]]
<1>2. UNCHANGED <<accounts, orgs, members, tokens, signing, access, logins, raced, ended>>
  BY DEF Login, sessionNotes
<1>3. o \in orgs /\ members[u][o] # "none" /\ o \in Users
  BY DEF Picked, MembershipsOf, SessionsInv, PeopleInv, SessionTypes
<1>4. members[u][o] \in RoleNames /\ Founded(members, o)
  BY <1>3 DEF SessionsInv, PeopleInv, SessionTypes, FoundersFirst
<1>5. /\ row \in VisitRow /\ row.op = "login" /\ row.stage = "issue" /\ row.user = u
      /\ row.org = o /\ row.role = members[u][o]
  BY <1>3, <1>4, NobodyFacts DEF VisitRow
<1> HIDE DEF row
<1>6. visits' = [visits EXCEPT ![v] = row] /\ visits'[v] = row /\ raced' \subseteq 1..logins
  BY <1>1, <1>2 DEF row, SessionsInv, PeopleInv, SessionTypes
<1>7. VisitFits(v)'
  BY <1>2, <1>3, <1>4, <1>5, <1>6 DEF VisitFits
<1>8. PeopleInv'
  BY <1>2, <1>5, <1>6, <1>7, PeopleMove DEF SessionsInv
<1>9. OneCarrier'
  BY <1>2, <1>5, <1>6, CarrierMove
<1> QED
  BY <1>8, <1>9 DEF SessionsInv

(* An admin's addition comes in, for an organization that is founded.      *)
LEMMA AddMemberStep ==
  ASSUME SessionsInv, NEW v \in Visits, NEW t \in access, NEW u \in Users, NEW role \in Assignable,
         AddMember(v, t, u, role)
  PROVE  SessionsInv'
<1> DEFINE row == [Nobody EXCEPT !.op = "member", !.stage = "member",
                                 !.user = u, !.org = t.org, !.role = role]
<1>1. /\ visits' = [visits EXCEPT ![v] = row] /\ u \in accounts
      /\ UNCHANGED <<accounts, orgs, members, tokens, signing, access, logins, raced, ended>>
  BY DEF AddMember, sessionNotes
<1>2. t.org \in Users /\ Founded(members, t.org)
  BY DEF SessionsInv, PeopleInv, SessionTypes, FoundersFirst, AccessToken
<1>3. t.org \in orgs
  BY <1>2 DEF SessionsInv, PeopleInv, FoundersFirst, Founded
<1>4. /\ row \in VisitRow /\ row.op = "member" /\ row.stage = "member" /\ row.user = u
      /\ row.org = t.org /\ row.role = role
  BY <1>2, NobodyFacts DEF VisitRow, Assignable, RoleNames
<1> HIDE DEF row
<1>5. visits'[v] = row /\ raced' \subseteq 1..logins
  BY <1>1 DEF SessionsInv, PeopleInv, SessionTypes
<1>6. VisitFits(v)'
  BY <1>1, <1>2, <1>3, <1>4, <1>5 DEF VisitFits
<1>7. PeopleInv'
  BY <1>1, <1>4, <1>5, <1>6, PeopleMove DEF SessionsInv
<1>8. OneCarrier'
  BY <1>1, <1>4, <1>5, CarrierMove
<1> QED
  BY <1>7, <1>8 DEF SessionsInv

(* The insert of the membership: of two additions, the first one counts.   *)
LEMMA MemberAddedStep ==
  ASSUME SessionsInv, NEW v \in Visits, MemberAdded(v)
  PROVE  /\ SessionsInv'
         /\ \A u, o \in Users : members'[u][o] # members[u][o] =>
              members[u][o] = "none" /\ u # o /\ members'[u][o] # "owner"
<1> DEFINE w == visits[v]
<1>1. /\ w.stage = "member" /\ w.user \in accounts /\ w.org \in orgs /\ w.user \in Users /\ w.org \in Users
      /\ w.role \in Assignable /\ Founded(members, w.org) /\ SessionTypes
  BY DEF MemberAdded, SessionsInv, PeopleInv, VisitFits, SessionTypes
<1>2. /\ Leave(v) /\ UNCHANGED <<accounts, orgs, tokens, signing, access, logins, raced, ended>>
  BY DEF MemberAdded, sessionNotes
<1>3. CASE members[w.user][w.org] # "none"
  <2>1. members' = members
    BY <1>3 DEF MemberAdded
  <2> QED
    BY <1>2, <2>1, LeaveStep
<1>4. CASE members[w.user][w.org] = "none"
  <2>1. members' = [members EXCEPT ![w.user][w.org] = w.role]
    BY <1>4 DEF MemberAdded
  <2>2. w.user # w.org
    BY <1>1, <1>4 DEF Founded
  <2>3. w.role \in RoleNames /\ w.role # "owner" /\ w.role # "none"
    BY <1>1 DEF Assignable, RoleNames
  <2>4. /\ members' \in [Users -> [Users -> RoleNames \cup {"none"}]]
        /\ members'[w.user][w.org] = w.role
        /\ \A u, o \in Users : ~(u = w.user /\ o = w.org) => members'[u][o] = members[u][o]
    BY <1>1, <2>1, <2>3 DEF SessionTypes
  <2>5. \A u, o \in Users : members'[u][o] # members[u][o] => u = w.user /\ o = w.org
    BY <2>4
  <2>6. visits' = [visits EXCEPT ![v] = Nobody] /\ visits'[v] = Nobody
    BY <1>1, <1>2 DEF Leave, SessionTypes
  <2>7. VisitFits(v)'
    BY <2>6, NobodyFacts DEF VisitFits
  <2>8. /\ accounts \subseteq Users /\ orgs \subseteq Users /\ tokens \in Seq(Token)
        /\ access \subseteq AccessToken /\ logins \in Nat /\ logins <= logins
        /\ raced \subseteq 1..logins /\ ended \subseteq 1..logins
    BY <1>1, <1>2 DEF SessionTypes
  <2>9. \A u, o \in Users : members[u][o] # "none" => members'[u][o] = members[u][o]
    BY <1>4, <2>5
  <2>10. Founded(members', w.org)
    BY <1>1, <2>2, <2>4 DEF Founded
  <2>11. \A u, o \in Users : members'[u][o] # members[u][o] =>
         /\ u \in accounts' /\ o \in orgs' /\ Founded(members', o) /\ (members'[u][o] = "owner" => u = o)
    BY <1>1, <1>2, <2>3, <2>4, <2>5, <2>10
  <2>12. \A x \in Visits \ {v} : visits[x].stage \in {"org", "owner"} =>
         members'[visits[x].user][visits[x].user] = members[visits[x].user][visits[x].user]
    BY <2>2, <2>4 DEF SessionsInv, PeopleInv, VisitFits
  <2>13. PeopleInv'
    BY <1>2, <2>4, <2>6, <2>7, <2>8, <2>9, <2>11, <2>12, NobodyFacts, PeopleStep DEF SessionsInv
  <2>14. OneCarrier'
    BY <1>2, <2>6, NobodyFacts, CarrierMove
  <2> QED
    BY <1>4, <2>2, <2>3, <2>4, <2>5, <2>13, <2>14 DEF SessionsInv
<1> QED
  BY <1>3, <1>4

(* The subject of a refresh is looked up.                                  *)
LEMMA SubjectStep ==
  ASSUME SessionsInv, NEW v \in Visits, Subject(v)
  PROVE  SessionsInv'
<1> DEFINE w == visits[v]
           role == members[visits[v].user][visits[v].org]
<1>1. /\ w.stage = "subject" /\ w.op = "refresh" /\ w.token \in DOMAIN tokens
      /\ w.user \in Users /\ w.org \in Users /\ Founded(members, w.org) /\ SessionTypes
  BY DEF Subject, SessionsInv, PeopleInv, VisitFits
<1>2. UNCHANGED <<accounts, orgs, members, tokens, signing, access, logins, raced, ended>>
  BY DEF Subject, sessionNotes
<1>3. CASE role = "none"
  <2>1. Leave(v)
    BY <1>3 DEF Subject
  <2> QED
    BY <1>2, <2>1, LeaveStep
<1>4. CASE role # "none"
  <2> DEFINE row == [w EXCEPT !.stage = "revoke", !.role = role]
  <2>1. visits' = [visits EXCEPT ![v] = row]
    BY <1>4 DEF Subject
  <2>2. role \in RoleNames /\ w \in VisitRow
    BY <1>1, <1>4 DEF SessionTypes
  <2>3. /\ row \in VisitRow /\ row.op = "refresh" /\ row.stage = "revoke" /\ row.user = w.user
        /\ row.org = w.org /\ row.role = role /\ row.token = w.token
    BY <1>1, <2>2 DEF VisitRow
  <2> HIDE DEF row
  <2>4. visits'[v] = row /\ raced' \subseteq 1..logins
    BY <1>1, <1>2, <2>1 DEF SessionTypes
  <2>5. VisitFits(v)'
    BY <1>1, <1>2, <2>2, <2>3, <2>4 DEF VisitFits
  <2>6. PeopleInv'
    BY <1>2, <2>1, <2>3, <2>4, <2>5, PeopleMove DEF SessionsInv
  <2>7. OneCarrier'
    BY <1>1, <1>2, <2>1, <2>3, CarrierMove
  <2> QED
    BY <2>6, <2>7 DEF SessionsInv
<1> QED
  BY <1>3, <1>4

(* A request presents a token: if another one has it in hand, the login is *)
(* raced for.                                                              *)
LEMMA PresentStep ==
  ASSUME SessionsInv, NEW v \in Visits, NEW i \in DOMAIN tokens, ~InHand(v),
         NEW row \in VisitRow, visits' = [visits EXCEPT ![v] = row], row.token = i,
         \/ row.op = "logout" /\ row.stage = "logout"
         \/ /\ row.op = "refresh" /\ row.stage = "subject" /\ ~tokens[i].revoked
            /\ row.user = tokens[i].user /\ row.org = tokens[i].org,
         UNCHANGED <<accounts, orgs, members, tokens, signing, access, logins, ended>>,
         raced' = IF Holding(i) # {} THEN raced \cup {tokens[i].login} ELSE raced
  PROVE  SessionsInv'
<1>1. /\ SessionTypes /\ tokens[i] \in Token /\ tokens[i].login \in 1..logins
      /\ Founded(members, tokens[i].org) /\ tokens[i].user \in Users /\ tokens[i].org \in Users
  BY TokenFacts DEF SessionsInv, PeopleInv, SessionTypes, FoundersFirst, Token
<1>2. visits'[v] = row /\ \A w \in Visits \ {v} : visits'[w] = visits[w]
  BY <1>1 DEF SessionTypes
<1>3. VisitFits(v)'
  BY <1>1, <1>2 DEF VisitFits
<1>4. raced' \subseteq 1..logins
  BY <1>1 DEF SessionTypes
<1>5. PeopleInv'
  <2>1. row.stage \notin {"org", "owner"}
    OBVIOUS
  <2> QED
    BY <1>3, <1>4, <2>1, PeopleMove DEF SessionsInv
<1>6. raced \subseteq raced'
      /\ \A w \in Visits \ {v} : Holds(w) /\ visits[w].token = i => tokens[i].login \in raced'
  BY DEF Holding, Holds, InHand
<1>7. /\ \A w \in Visits \ {v} : /\ Holds(w)' <=> Holds(w)
                                 /\ LoginOf(w)' = LoginOf(w)
      /\ LoginOf(v)' = tokens[i].login
  BY <1>2 DEF Holds, LoginOf
<1>8. ASSUME NEW x \in Visits, NEW y \in Visits, Holds(x)', Holds(y)',
             visits'[x].token = visits'[y].token, LoginOf(x)' \notin raced'
      PROVE  x = y
  <2>1. CASE x = v /\ y # v
    BY <1>2, <1>6, <1>7, <1>8, <2>1
  <2>2. CASE x # v /\ y = v
    <3>1. Holds(x) /\ visits[x].token = i
      BY <1>2, <1>7, <1>8, <2>2
    <3>2. LoginOf(x)' = tokens[i].login
      BY <1>7, <2>2, <3>1 DEF LoginOf
    <3> QED
      BY <1>6, <1>8, <2>2, <3>1, <3>2
  <2>3. CASE x # v /\ y # v
    BY <1>2, <1>6, <1>7, <1>8, <2>3 DEF SessionsInv, OneCarrier
  <2> QED
    BY <2>1, <2>2, <2>3
<1>9. \A x \in Visits : visits'[x].stage \in {"subject", "revoke"} /\ Holds(x)'
        /\ LoginOf(x)' \notin raced' => ~tokens'[visits'[x].token].revoked
  <2> SUFFICES ASSUME NEW x \in Visits, visits'[x].stage \in {"subject", "revoke"}, Holds(x)',
                      LoginOf(x)' \notin raced'
               PROVE  ~tokens[visits'[x].token].revoked
    OBVIOUS
  <2>1. CASE x = v
    BY <1>2, <2>1
  <2>2. CASE x # v
    BY <1>2, <1>6, <1>7, <2>2 DEF SessionsInv, OneCarrier
  <2> QED
    BY <2>1, <2>2
<1>10. ASSUME NEW x \in Visits, visits'[x].stage = "issue", Holds(x)', LoginOf(x)' \notin raced'
       PROVE  /\ \A j \in DOMAIN tokens' : tokens'[j].login = LoginOf(x)' => tokens'[j].revoked
              /\ LoginOf(x)' \notin ended'
              /\ \A y \in Visits : visits'[y].stage = "issue" /\ Holds(y)' /\ LoginOf(y)' = LoginOf(x)'
                   => x = y
  <2>1. x # v /\ Holds(x) /\ visits[x].stage = "issue" /\ LoginOf(x) \notin raced
    BY <1>2, <1>6, <1>7, <1>10
  <2>2. \A y \in Visits : visits'[y].stage = "issue" /\ Holds(y)' /\ LoginOf(y)' = LoginOf(x)' =>
          visits[y].stage = "issue" /\ Holds(y) /\ LoginOf(y) = LoginOf(x)
    BY <1>2, <1>7, <2>1
  <2> QED
    BY <1>7, <2>1, <2>2 DEF SessionsInv, OneCarrier
<1>11. OneCarrier!4' /\ OneCarrier!5'
  BY <1>6 DEF SessionsInv, OneCarrier
<1>12. OneCarrier'
  BY <1>8, <1>9, <1>10, <1>11 DEF OneCarrier
<1> QED
  BY <1>5, <1>12 DEF SessionsInv

(* A refresh comes in with a good token.                                   *)
LEMMA RefreshStep ==
  ASSUME SessionsInv, NEW v \in Visits, NEW i \in DOMAIN tokens, Refresh(v, i)
  PROVE  SessionsInv'
<1> DEFINE row == [Nobody EXCEPT !.op = "refresh", !.stage = "subject", !.token = i,
                                 !.user = tokens[i].user, !.org = tokens[i].org]
<1>1. i \in Nat /\ tokens[i].user \in Users /\ tokens[i].org \in Users
  BY TokenFacts DEF SessionsInv, PeopleInv, Token
<1>2. /\ row \in VisitRow /\ row.op = "refresh" /\ row.stage = "subject" /\ row.token = i
      /\ row.user = tokens[i].user /\ row.org = tokens[i].org
  BY <1>1, NobodyFacts DEF VisitRow
<1>3. visits' = [visits EXCEPT ![v] = row] /\ ~InHand(v) /\ ~tokens[i].revoked
  BY DEF Refresh
<1>4. /\ UNCHANGED <<accounts, orgs, members, tokens, signing, access, logins, ended>>
      /\ raced' = IF Holding(i) # {} THEN raced \cup {tokens[i].login} ELSE raced
  BY DEF Refresh
<1> HIDE DEF row
<1> QED
  BY <1>2, <1>3, <1>4, PresentStep

(* A logout comes in, with any token.                                      *)
LEMMA LogoutStep ==
  ASSUME SessionsInv, NEW v \in Visits, NEW i \in DOMAIN tokens, Logout(v, i)
  PROVE  SessionsInv'
<1> DEFINE row == [Nobody EXCEPT !.op = "logout", !.stage = "logout", !.token = i]
<1>1. i \in Nat
  BY TokenFacts DEF SessionsInv, PeopleInv
<1>2. row \in VisitRow /\ row.op = "logout" /\ row.stage = "logout" /\ row.token = i
  BY <1>1, NobodyFacts DEF VisitRow
<1>3. visits' = [visits EXCEPT ![v] = row] /\ ~InHand(v)
  BY DEF Logout
<1>4. /\ UNCHANGED <<accounts, orgs, members, tokens, signing, access, logins, ended>>
      /\ raced' = IF Holding(i) # {} THEN raced \cup {tokens[i].login} ELSE raced
  BY DEF Logout
<1> HIDE DEF row
<1> QED
  BY <1>2, <1>3, <1>4, PresentStep

(* The marks a request leaves on a token, and whose the token stays.       *)
LEMMA RevokedFacts ==
  ASSUME SessionTypes, NEW i \in DOMAIN tokens, tokens' = [tokens EXCEPT ![i].revoked = TRUE]
  PROVE  /\ tokens' \in Seq(Token) /\ DOMAIN tokens' = DOMAIN tokens
         /\ \A j \in DOMAIN tokens : /\ tokens'[j].org = tokens[j].org
                                     /\ tokens'[j].login = tokens[j].login
                                     /\ j # i => tokens'[j].revoked = tokens[j].revoked
         /\ tokens'[i].revoked
<1> DEFINE t == [tokens[i] EXCEPT !.revoked = TRUE]
<1>1. tokens[i] \in Token
  BY TokenFacts
<1>2. t \in Token /\ t.org = tokens[i].org /\ t.login = tokens[i].login /\ t.revoked
  BY <1>1 DEF Token
<1>3. tokens' = [tokens EXCEPT ![i] = t]
  OBVIOUS
<1> HIDE DEF t
<1> QED
  BY <1>2, <1>3, MarkFacts

(* The refresh revokes the token it was given, and carries the login now.  *)
LEMMA RevokeStep ==
  ASSUME SessionsInv, NEW v \in Visits, Revoke(v)
  PROVE  SessionsInv'
<1> DEFINE w == visits[v]
           i == visits[v].token
           row == [w EXCEPT !.stage = "issue"]
<1>1. /\ w.stage = "revoke" /\ w.op = "refresh" /\ i \in DOMAIN tokens /\ SessionTypes
      /\ w.user \in Users /\ w.org \in Users /\ Founded(members, w.org)
  BY DEF Revoke, SessionsInv, PeopleInv, VisitFits
<1>2. /\ UNCHANGED <<accounts, orgs, members, signing, access, logins, raced, ended>>
      /\ tokens' = [tokens EXCEPT ![i].revoked = TRUE]
  BY DEF Revoke, sessionNotes
<1>3. visits' = [visits EXCEPT ![v] = row]
  BY DEF Revoke, To
<1>4. /\ row \in VisitRow /\ row.op = w.op /\ row.stage = "issue" /\ row.user = w.user
      /\ row.org = w.org /\ row.role = w.role /\ row.token = w.token
  BY <1>1, StageFacts
<1> HIDE DEF row
<1>5. visits'[v] = row /\ \A x \in Visits \ {v} : visits'[x] = visits[x]
  BY <1>1, <1>3 DEF SessionTypes
<1>6. /\ tokens' \in Seq(Token) /\ DOMAIN tokens' = DOMAIN tokens
      /\ \A j \in DOMAIN tokens : /\ tokens'[j].org = tokens[j].org
                                  /\ tokens'[j].login = tokens[j].login
                                  /\ j # i => tokens'[j].revoked = tokens[j].revoked
      /\ tokens'[i].revoked
  BY <1>1, <1>2, RevokedFacts
<1>7. w.role \in RoleNames
  BY <1>1 DEF SessionsInv, PeopleInv, VisitFits
<1>8. VisitFits(v)'
  BY <1>1, <1>2, <1>4, <1>5, <1>6, <1>7 DEF VisitFits
<1>9. /\ accounts \subseteq Users /\ orgs \subseteq Users
      /\ members \in [Users -> [Users -> RoleNames \cup {"none"}]]
      /\ access \subseteq AccessToken /\ logins \in Nat /\ logins <= logins
      /\ raced \subseteq 1..logins /\ ended \subseteq 1..logins
  BY <1>1 DEF SessionTypes
<1>10. PeopleInv'
  BY <1>2, <1>3, <1>4, <1>6, <1>8, <1>9, PeopleStep DEF SessionsInv
<1>11. \A x \in Visits : Holds(x)' <=> Holds(x)
  BY <1>1, <1>4, <1>5 DEF Holds
<1>12. \A x \in Visits : Holds(x) => /\ visits'[x].token = visits[x].token
                                     /\ visits[x].token \in DOMAIN tokens
                                     /\ LoginOf(x)' = LoginOf(x)
  BY <1>4, <1>5, <1>6 DEF Holds, LoginOf, SessionsInv, PeopleInv, VisitFits
<1>13. Holds(v) /\ (LoginOf(v) \notin raced => ~tokens[i].revoked)
  BY <1>1 DEF Holds, SessionsInv, OneCarrier
<1>14. ASSUME NEW x \in Visits, NEW y \in Visits, Holds(x)', Holds(y)',
              visits'[x].token = visits'[y].token, LoginOf(x)' \notin raced'
       PROVE  x = y
  BY <1>2, <1>11, <1>12, <1>14 DEF SessionsInv, OneCarrier
<1>15. ASSUME NEW x \in Visits, visits'[x].stage \in {"subject", "revoke"}, Holds(x)',
              LoginOf(x)' \notin raced'
       PROVE  ~tokens'[visits'[x].token].revoked
  <2>1. x # v /\ Holds(x) /\ visits[x].stage \in {"subject", "revoke"} /\ LoginOf(x) \notin raced
    BY <1>2, <1>4, <1>5, <1>11, <1>12, <1>15
  <2>2. visits[x].token # i
    BY <1>13, <2>1 DEF SessionsInv, OneCarrier
  <2> QED
    BY <1>6, <1>12, <2>1, <2>2 DEF SessionsInv, OneCarrier
<1>16. ASSUME NEW x \in Visits, visits'[x].stage = "issue", Holds(x)', LoginOf(x)' \notin raced'
       PROVE  /\ \A j \in DOMAIN tokens' : tokens'[j].login = LoginOf(x)' => tokens'[j].revoked
              /\ LoginOf(x)' \notin ended'
              /\ \A y \in Visits : visits'[y].stage = "issue" /\ Holds(y)' /\ LoginOf(y)' = LoginOf(x)'
                   => x = y
  <2>1. Holds(x) /\ LoginOf(x) \notin raced /\ LoginOf(x)' = LoginOf(x)
        /\ LoginOf(v) = tokens[i].login
    BY <1>2, <1>11, <1>12, <1>16 DEF LoginOf
  <2>2. CASE x = v
    <3>1. ~tokens[i].revoked
      BY <1>13, <2>1, <2>2
    <3>2. \A j \in DOMAIN tokens' : tokens'[j].login = LoginOf(x)' => tokens'[j].revoked
      BY <1>1, <1>6, <2>1, <2>2, <3>1 DEF SessionsInv, OneCarrier
    <3>3. LoginOf(x)' \notin ended'
      BY <1>1, <1>2, <2>1, <2>2, <3>1 DEF SessionsInv, OneCarrier
    <3>4. ASSUME NEW y \in Visits, visits'[y].stage = "issue", Holds(y)', LoginOf(y)' = LoginOf(x)'
          PROVE  x = y
      <4>1. CASE y # v
        <5>1. visits[y].stage = "issue" /\ Holds(y) /\ LoginOf(y) = LoginOf(v)
          BY <1>5, <1>11, <1>12, <2>1, <2>2, <3>4, <4>1
        <5> QED
          BY <1>1, <2>1, <2>2, <3>1, <5>1 DEF SessionsInv, OneCarrier
      <4> QED
        BY <2>2, <4>1
    <3> QED
      BY <3>2, <3>3, <3>4
  <2>3. CASE x # v
    <3>1. visits[x].stage = "issue"
      BY <1>5, <1>16, <2>3
    <3>2. /\ \A j \in DOMAIN tokens : tokens[j].login = LoginOf(x) => tokens[j].revoked
          /\ LoginOf(x) \notin ended
          /\ \A y \in Visits : visits[y].stage = "issue" /\ Holds(y) /\ LoginOf(y) = LoginOf(x) => x = y
      BY <2>1, <3>1 DEF SessionsInv, OneCarrier
    <3>3. LoginOf(v) # LoginOf(x)
      BY <1>1, <1>13, <2>1, <3>2
    <3>4. \A j \in DOMAIN tokens' : tokens'[j].login = LoginOf(x)' => tokens'[j].revoked
      BY <1>6, <2>1, <3>2
    <3>5. ASSUME NEW y \in Visits, visits'[y].stage = "issue", Holds(y)', LoginOf(y)' = LoginOf(x)'
          PROVE  x = y
      <4>1. Holds(y) /\ LoginOf(y) = LoginOf(x) /\ y # v
        BY <1>11, <1>12, <2>1, <3>3, <3>5
      <4>2. visits[y].stage = "issue"
        BY <1>5, <3>5, <4>1
      <4> QED
        BY <3>2, <4>1, <4>2
    <3> QED
      BY <1>2, <2>1, <3>2, <3>4, <3>5
  <2> QED
    BY <2>2, <2>3
<1>17. OneCarrier!4' /\ OneCarrier!5'
  BY <1>2, <1>6 DEF SessionsInv, OneCarrier
<1>18. OneCarrier'
  BY <1>14, <1>15, <1>16, <1>17 DEF OneCarrier
<1> QED
  BY <1>10, <1>18 DEF SessionsInv

(* A logout revokes the token it was given.                                *)
LEMMA LogoutDoneStep ==
  ASSUME SessionsInv, NEW v \in Visits, LogoutDone(v)
  PROVE  SessionsInv'
<1> DEFINE i == visits[v].token
<1>1. /\ visits[v].stage = "logout" /\ visits[v].op = "logout" /\ i \in DOMAIN tokens
      /\ SessionTypes /\ Holds(v)
  BY DEF LogoutDone, SessionsInv, PeopleInv, VisitFits, Holds
<1>2. /\ UNCHANGED <<accounts, orgs, members, signing, access, logins, raced>>
      /\ tokens' = [tokens EXCEPT ![i].revoked = TRUE]
      /\ ended' = IF tokens[i].revoked THEN ended ELSE ended \cup {tokens[i].login}
      /\ visits' = [visits EXCEPT ![v] = Nobody]
  BY DEF LogoutDone, Leave
<1>3. visits'[v] = Nobody /\ \A x \in Visits \ {v} : visits'[x] = visits[x]
  BY <1>1, <1>2 DEF SessionTypes
<1>4. /\ tokens' \in Seq(Token) /\ DOMAIN tokens' = DOMAIN tokens
      /\ \A j \in DOMAIN tokens : /\ tokens'[j].org = tokens[j].org
                                  /\ tokens'[j].login = tokens[j].login
                                  /\ j # i => tokens'[j].revoked = tokens[j].revoked
      /\ tokens'[i].revoked
  BY <1>1, <1>2, RevokedFacts
<1>5. VisitFits(v)'
  BY <1>3, NobodyFacts DEF VisitFits
<1>6. /\ accounts \subseteq Users /\ orgs \subseteq Users
      /\ members \in [Users -> [Users -> RoleNames \cup {"none"}]]
      /\ access \subseteq AccessToken /\ logins \in Nat /\ logins <= logins
      /\ raced \subseteq 1..logins /\ ended' \subseteq 1..logins
  BY <1>1, <1>2 DEF SessionTypes
<1>7. PeopleInv'
  BY <1>2, <1>4, <1>5, <1>6, NobodyFacts, PeopleStep DEF SessionsInv
<1>8. \A x \in Visits : Holds(x)' => /\ x # v /\ Holds(x) /\ visits'[x] = visits[x]
                                     /\ visits[x].token \in DOMAIN tokens
                                     /\ LoginOf(x)' = LoginOf(x)
  <2> SUFFICES ASSUME NEW x \in Visits, Holds(x)'
               PROVE  /\ x # v /\ Holds(x) /\ visits'[x] = visits[x]
                      /\ visits[x].token \in DOMAIN tokens /\ LoginOf(x)' = LoginOf(x)
    OBVIOUS
  <2>1. x # v
    BY <1>3, NobodyFacts DEF Holds
  <2>2. Holds(x) /\ visits'[x] = visits[x]
    BY <1>3, <2>1 DEF Holds
  <2>3. visits[x].token \in DOMAIN tokens
    BY <2>2 DEF Holds, SessionsInv, PeopleInv, VisitFits
  <2> QED
    BY <1>4, <2>1, <2>2, <2>3 DEF LoginOf
<1>9. ASSUME NEW x \in Visits, NEW y \in Visits, Holds(x)', Holds(y)',
             visits'[x].token = visits'[y].token, LoginOf(x)' \notin raced'
      PROVE  x = y
  BY <1>2, <1>8, <1>9 DEF SessionsInv, OneCarrier
<1>10. ASSUME NEW x \in Visits, visits'[x].stage \in {"subject", "revoke"}, Holds(x)',
              LoginOf(x)' \notin raced'
       PROVE  ~tokens'[visits'[x].token].revoked
  <2>1. x # v /\ Holds(x) /\ visits'[x] = visits[x] /\ LoginOf(x) \notin raced
    BY <1>2, <1>8, <1>10
  <2>2. visits[x].token # i
    BY <1>1, <2>1 DEF SessionsInv, OneCarrier
  <2> QED
    BY <1>4, <1>8, <1>10, <2>1, <2>2 DEF SessionsInv, OneCarrier
<1>11. ASSUME NEW x \in Visits, visits'[x].stage = "issue", Holds(x)', LoginOf(x)' \notin raced'
       PROVE  /\ \A j \in DOMAIN tokens' : tokens'[j].login = LoginOf(x)' => tokens'[j].revoked
              /\ LoginOf(x)' \notin ended'
              /\ \A y \in Visits : visits'[y].stage = "issue" /\ Holds(y)' /\ LoginOf(y)' = LoginOf(x)'
                   => x = y
  <2>1. /\ x # v /\ Holds(x) /\ visits'[x] = visits[x] /\ visits[x].stage = "issue"
        /\ LoginOf(x)' = LoginOf(x) /\ LoginOf(x) \notin raced
    BY <1>2, <1>8, <1>11
  <2>2. /\ \A j \in DOMAIN tokens : tokens[j].login = LoginOf(x) => tokens[j].revoked
        /\ LoginOf(x) \notin ended
        /\ \A y \in Visits : visits[y].stage = "issue" /\ Holds(y) /\ LoginOf(y) = LoginOf(x) => x = y
    BY <2>1 DEF SessionsInv, OneCarrier
  <2>3. LoginOf(x)' \notin ended'
    BY <1>1, <1>2, <2>1, <2>2
  <2>4. \A j \in DOMAIN tokens' : tokens'[j].login = LoginOf(x)' => tokens'[j].revoked
    BY <1>4, <2>1, <2>2
  <2>5. \A y \in Visits : visits'[y].stage = "issue" /\ Holds(y)' /\ LoginOf(y)' = LoginOf(x)' => x = y
    BY <1>8, <2>1, <2>2
  <2> QED
    BY <2>3, <2>4, <2>5
<1>12. OneCarrier!4'
  BY <1>2, <1>4 DEF SessionsInv, OneCarrier
<1>13. ASSUME NEW j \in DOMAIN tokens', tokens'[j].login \in ended' \ raced'
       PROVE  tokens'[j].revoked
  <2>1. j \in DOMAIN tokens /\ tokens'[j].login = tokens[j].login /\ tokens[j].login \notin raced
    BY <1>2, <1>4, <1>13
  <2>2. CASE tokens[j].login \in ended
    BY <1>4, <2>1, <2>2 DEF SessionsInv, OneCarrier
  <2>3. CASE ~tokens[i].revoked /\ tokens[j].login = tokens[i].login
    BY <1>1, <1>4, <2>1, <2>3 DEF SessionsInv, OneCarrier
  <2> QED
    BY <1>2, <1>13, <2>1, <2>2, <2>3
<1>14. OneCarrier'
  BY <1>9, <1>10, <1>11, <1>12, <1>13 DEF OneCarrier
<1> QED
  BY <1>7, <1>14 DEF SessionsInv

(* A session is issued: the next token of a refresh's login, or the first  *)
(* of a new one.                                                           *)
LEMMA IssueStep ==
  ASSUME SessionsInv, NEW v \in Visits, Issue(v)
  PROVE  SessionsInv'
<1> DEFINE w == visits[v]
           login == IF w.op = "refresh" THEN tokens[w.token].login ELSE logins + 1
           t == [user |-> w.user, org |-> w.org, login |-> login, revoked |-> FALSE, expired |-> FALSE]
           a == [user |-> w.user, org |-> w.org, role |-> w.role, key |-> signing]
           n == Len(tokens) + 1
<1>1. /\ w.stage = "issue" /\ w.user \in Users /\ w.org \in Users /\ Founded(members, w.org)
      /\ w.op # "logout" /\ w.role \in RoleNames /\ SessionTypes
      /\ w.op = "refresh" => w.token \in DOMAIN tokens
  BY DEF Issue, SessionsInv, PeopleInv, VisitFits
<1>2. /\ UNCHANGED <<accounts, orgs, members, signing, raced, ended>>
      /\ tokens' = Append(tokens, t) /\ access' = access \cup {a}
      /\ logins' = IF w.op = "refresh" THEN logins ELSE logins + 1
      /\ visits' = [visits EXCEPT ![v] = Nobody]
  BY DEF Issue, Leave
<1>3. visits'[v] = Nobody /\ \A x \in Visits \ {v} : visits'[x] = visits[x]
  BY <1>1, <1>2 DEF SessionTypes
<1>4. /\ logins \in Nat /\ logins' \in Nat /\ logins <= logins' /\ login \in 1..logins'
      /\ w.op = "refresh" => login \in 1..logins
      /\ raced \subseteq 1..logins /\ ended \subseteq 1..logins
      /\ \A j \in DOMAIN tokens : tokens[j].login \in 1..logins
  BY <1>1, <1>2 DEF SessionTypes
<1>5. t \in Token /\ t.org = w.org /\ t.login = login /\ t.revoked = FALSE
  BY <1>1, <1>4 DEF Token
<1>6. a \in AccessToken /\ a.org = w.org
  BY <1>1 DEF AccessToken, SessionTypes
<1> HIDE DEF t, a, login
<1>7. /\ tokens' \in Seq(Token) /\ DOMAIN tokens' = DOMAIN tokens \cup {n} /\ n \notin DOMAIN tokens
      /\ tokens'[n] = t /\ \A j \in DOMAIN tokens : tokens'[j] = tokens[j]
  BY <1>1, <1>2, <1>5, IssueFacts
<1> HIDE DEF n
<1>8. VisitFits(v)'
  BY <1>3, NobodyFacts DEF VisitFits
<1>9. PeopleInv'
  <2>1. \A j \in DOMAIN tokens' :
          \/ j \in DOMAIN tokens /\ tokens'[j].org = tokens[j].org /\ tokens'[j].login = tokens[j].login
          \/ Founded(members', tokens'[j].org) /\ tokens'[j].login \in 1..logins'
    BY <1>1, <1>2, <1>4, <1>5, <1>7
  <2>2. access' \subseteq AccessToken /\ \A b \in access' \ access : Founded(members', b.org)
    BY <1>1, <1>2, <1>6 DEF SessionTypes
  <2>3. /\ accounts \subseteq Users /\ orgs \subseteq Users
        /\ members \in [Users -> [Users -> RoleNames \cup {"none"}]]
        /\ raced' \subseteq 1..logins' /\ ended' \subseteq 1..logins'
    BY <1>1, <1>2, <1>4 DEF SessionTypes
  <2> QED
    BY <1>2, <1>4, <1>7, <1>8, <2>1, <2>2, <2>3, NobodyFacts, PeopleStep DEF SessionsInv
<1>10. \A x \in Visits : Holds(x)' => /\ x # v /\ Holds(x) /\ visits'[x] = visits[x]
                                      /\ visits[x].token \in DOMAIN tokens
                                      /\ LoginOf(x)' = LoginOf(x) /\ LoginOf(x) \in 1..logins
  <2> SUFFICES ASSUME NEW x \in Visits, Holds(x)'
               PROVE  /\ x # v /\ Holds(x) /\ visits'[x] = visits[x]
                      /\ visits[x].token \in DOMAIN tokens /\ LoginOf(x)' = LoginOf(x)
                      /\ LoginOf(x) \in 1..logins
    OBVIOUS
  <2>1. x # v
    BY <1>3, NobodyFacts DEF Holds
  <2>2. Holds(x) /\ visits'[x] = visits[x]
    BY <1>3, <2>1 DEF Holds
  <2>3. visits[x].token \in DOMAIN tokens
    BY <2>2 DEF Holds, SessionsInv, PeopleInv, VisitFits
  <2> QED
    BY <1>4, <1>7, <2>1, <2>2, <2>3 DEF LoginOf
<1>11. login \notin raced =>
         /\ login \notin ended
         /\ \A j \in DOMAIN tokens : tokens[j].login = login => tokens[j].revoked
         /\ \A x \in Visits : visits[x].stage = "issue" /\ Holds(x) /\ LoginOf(x) = login
                              /\ LoginOf(x) \in 1..logins => x = v
  <2>1. CASE w.op = "refresh"
    <3>1. Holds(v) /\ LoginOf(v) = login
      BY <1>1, <2>1 DEF Holds, LoginOf, login
    <3> QED
      BY <1>1, <3>1 DEF SessionsInv, OneCarrier
  <2>2. CASE w.op # "refresh"
    <3>1. login = logins + 1
      BY <2>2 DEF login
    <3> QED
      BY <1>4, <3>1
  <2> QED
    BY <2>1, <2>2
<1>12. ASSUME NEW x \in Visits, NEW y \in Visits, Holds(x)', Holds(y)',
              visits'[x].token = visits'[y].token, LoginOf(x)' \notin raced'
       PROVE  x = y
  BY <1>2, <1>10, <1>12 DEF SessionsInv, OneCarrier
<1>13. ASSUME NEW x \in Visits, visits'[x].stage \in {"subject", "revoke"}, Holds(x)',
              LoginOf(x)' \notin raced'
       PROVE  ~tokens'[visits'[x].token].revoked
  BY <1>2, <1>7, <1>10, <1>13 DEF SessionsInv, OneCarrier
<1>14. ASSUME NEW x \in Visits, visits'[x].stage = "issue", Holds(x)', LoginOf(x)' \notin raced'
       PROVE  /\ \A j \in DOMAIN tokens' : tokens'[j].login = LoginOf(x)' => tokens'[j].revoked
              /\ LoginOf(x)' \notin ended'
              /\ \A y \in Visits : visits'[y].stage = "issue" /\ Holds(y)' /\ LoginOf(y)' = LoginOf(x)'
                   => x = y
  <2>1. /\ x # v /\ Holds(x) /\ visits'[x] = visits[x] /\ visits[x].stage = "issue"
        /\ LoginOf(x)' = LoginOf(x) /\ LoginOf(x) \notin raced
    BY <1>2, <1>10, <1>14
  <2>2. /\ \A j \in DOMAIN tokens : tokens[j].login = LoginOf(x) => tokens[j].revoked
        /\ LoginOf(x) \notin ended
        /\ \A y \in Visits : visits[y].stage = "issue" /\ Holds(y) /\ LoginOf(y) = LoginOf(x) => x = y
    BY <2>1 DEF SessionsInv, OneCarrier
  <2>3. LoginOf(x) # login
    BY <1>10, <1>11, <1>14, <2>1
  <2>4. \A j \in DOMAIN tokens' : tokens'[j].login = LoginOf(x)' => tokens'[j].revoked
    BY <1>5, <1>7, <2>1, <2>2, <2>3
  <2>5. \A y \in Visits : visits'[y].stage = "issue" /\ Holds(y)' /\ LoginOf(y)' = LoginOf(x)' => x = y
    BY <1>10, <2>1, <2>2
  <2> QED
    BY <1>2, <2>1, <2>2, <2>4, <2>5
<1>15. ASSUME NEW i \in DOMAIN tokens', NEW j \in DOMAIN tokens',
              tokens'[i].login = tokens'[j].login, tokens'[i].login \notin raced',
              ~tokens'[i].revoked, ~tokens'[j].revoked
       PROVE  i = j
  <2>1. CASE i # n /\ j # n
    BY <1>2, <1>7, <1>15, <2>1 DEF SessionsInv, OneCarrier
  <2>2. CASE i = n /\ j # n
    BY <1>2, <1>5, <1>7, <1>11, <1>15, <2>2
  <2>3. CASE i # n /\ j = n
    BY <1>2, <1>5, <1>7, <1>11, <1>15, <2>3
  <2> QED
    BY <2>1, <2>2, <2>3
<1>16. ASSUME NEW i \in DOMAIN tokens', tokens'[i].login \in ended' \ raced'
       PROVE  tokens'[i].revoked
  <2>1. i # n
    BY <1>2, <1>5, <1>7, <1>11, <1>16
  <2> QED
    BY <1>2, <1>7, <1>16, <2>1 DEF SessionsInv, OneCarrier
<1>17. OneCarrier'
  BY <1>12, <1>13, <1>14, <1>15, <1>16 DEF OneCarrier
<1> QED
  BY <1>9, <1>17 DEF SessionsInv

(* A token expires.                                                        *)
LEMMA ExpireStep ==
  ASSUME SessionsInv, NEW i \in DOMAIN tokens, Expire(i)
  PROVE  SessionsInv'
<1> DEFINE t == [tokens[i] EXCEPT !.expired = TRUE]
<1>1. /\ UNCHANGED <<accounts, orgs, members, visits, signing, access, logins, raced, ended>>
      /\ tokens' = [tokens EXCEPT ![i] = t]
  BY DEF Expire, sessionNotes
<1>2. SessionTypes /\ tokens[i] \in Token
  BY TokenFacts DEF SessionsInv, PeopleInv
<1>3. /\ t \in Token /\ t.org = tokens[i].org /\ t.login = tokens[i].login
      /\ t.revoked = tokens[i].revoked
  BY <1>2 DEF Token
<1> HIDE DEF t
<1>4. /\ tokens' \in Seq(Token) /\ DOMAIN tokens' = DOMAIN tokens
      /\ \A j \in DOMAIN tokens : /\ tokens'[j].org = tokens[j].org
                                  /\ tokens'[j].login = tokens[j].login
                                  /\ tokens'[j].revoked = tokens[j].revoked
  BY <1>1, <1>2, <1>3, MarkFacts
<1>5. SessionTypes'
  BY <1>1, <1>2, <1>4 DEF SessionTypes
<1>6. FoundersFirst' /\ OneFounder'
  BY <1>1, <1>4 DEF SessionsInv, PeopleInv, FoundersFirst, OneFounder
<1>7. \A v \in Visits : VisitFits(v)'
  BY <1>1, <1>4 DEF SessionsInv, PeopleInv, VisitFits
<1>8. \A v \in Visits : /\ Holds(v)' <=> Holds(v)
                        /\ Holds(v) => visits[v].token \in DOMAIN tokens /\ LoginOf(v)' = LoginOf(v)
  BY <1>1, <1>4 DEF Holds, LoginOf, SessionsInv, PeopleInv, VisitFits
<1>9. OneCarrier!1' /\ OneCarrier!2'
  BY <1>1, <1>4, <1>8 DEF SessionsInv, OneCarrier
<1>10. OneCarrier!3'
  BY <1>1, <1>4, <1>8 DEF SessionsInv, OneCarrier
<1>11. OneCarrier!4' /\ OneCarrier!5'
  BY <1>1, <1>4 DEF SessionsInv, OneCarrier
<1> QED
  BY <1>5, <1>6, <1>7, <1>9, <1>10, <1>11 DEF SessionsInv, PeopleInv, OneCarrier

(* A restart cuts every request in hand: at worst a login has no good      *)
(* token, never two.                                                       *)
LEMMA IdentityRestartStep ==
  ASSUME SessionsInv, NEW k \in SigningKeys, IdentityRestarts(k)
  PROVE  SessionsInv'
<1>1. /\ UNCHANGED <<accounts, orgs, members, tokens, access, logins, raced, ended>>
      /\ visits' = [v \in Visits |-> Nobody] /\ signing' = k
  BY DEF IdentityRestarts
<1>2. SessionTypes' /\ FoundersFirst'
  BY <1>1, NobodyFacts DEF SessionsInv, PeopleInv, SessionTypes, FoundersFirst
<1>3. OneFounder' /\ \A v \in Visits : VisitFits(v)'
  BY <1>1, NobodyFacts DEF OneFounder, VisitFits
<1>4. \A v \in Visits : ~Holds(v)'
  BY <1>1, NobodyFacts DEF Holds
<1>5. OneCarrier!4' /\ OneCarrier!5'
  BY <1>1 DEF SessionsInv, OneCarrier
<1> QED
  BY <1>2, <1>3, <1>4, <1>5 DEF SessionsInv, PeopleInv, OneCarrier

(* Initially there is nobody.                                              *)
LEMMA InitSessions == SessionsInit => SessionsInv
<1> SUFFICES ASSUME SessionsInit PROVE SessionsInv
  OBVIOUS
<1>1. tokens \in Seq(Token) /\ DOMAIN tokens = {}
  BY EmptySeq DEF SessionsInit
<1>2. SessionTypes
  BY <1>1, NobodyFacts DEF SessionsInit, SessionTypes
<1>3. FoundersFirst
  BY <1>1 DEF SessionsInit, FoundersFirst
<1>4. OneFounder /\ \A v \in Visits : VisitFits(v)
  BY NobodyFacts DEF SessionsInit, OneFounder, VisitFits
<1>5. \A v \in Visits : ~Holds(v)
  BY NobodyFacts DEF SessionsInit, Holds
<1> QED
  BY <1>1, <1>2, <1>3, <1>4, <1>5 DEF SessionsInv, PeopleInv, OneCarrier

(* A step of the identity service, whichever it is, keeps the invariant,   *)
(* and gives a role only where there is none.                              *)
LEMMA SessionsNext ==
  ASSUME SessionsInv,
         \/ \E v \in Visits : Visit(v)
         \/ \E i \in DOMAIN tokens : Expire(i)
         \/ \E k \in SigningKeys : IdentityRestarts(k)
  PROVE  /\ SessionsInv'
         /\ \A u, o \in Users : members'[u][o] # members[u][o] =>
              members[u][o] = "none" /\ (members'[u][o] = "owner" <=> u = o)
<1> DEFINE RoleIsFirst ==
             \A u, o \in Users : members'[u][o] # members[u][o] =>
               members[u][o] = "none" /\ (members'[u][o] = "owner" <=> u = o)
<1>1. ASSUME UNCHANGED members PROVE RoleIsFirst
  BY <1>1
<1> HIDE DEF RoleIsFirst
<1>2. ASSUME NEW v \in Visits, Visit(v) PROVE SessionsInv' /\ RoleIsFirst
  <2>1. ASSUME NEW u \in Users, Signup(v, u) PROVE SessionsInv' /\ RoleIsFirst
    BY <1>1, <2>1, SignupStep DEF Signup
  <2>2. ASSUME NEW u \in Users, NEW asked, Login(v, u, asked) PROVE SessionsInv' /\ RoleIsFirst
    BY <1>1, <2>2, LoginStep DEF Login
  <2>3. ASSUME NEW i \in DOMAIN tokens, Refresh(v, i) PROVE SessionsInv' /\ RoleIsFirst
    BY <1>1, <2>3, RefreshStep DEF Refresh
  <2>4. ASSUME NEW i \in DOMAIN tokens, Logout(v, i) PROVE SessionsInv' /\ RoleIsFirst
    BY <1>1, <2>4, LogoutStep DEF Logout
  <2>5. ASSUME NEW t \in access, NEW u \in Users, NEW role \in Assignable, AddMember(v, t, u, role)
        PROVE  SessionsInv' /\ RoleIsFirst
    BY <1>1, <2>5, AddMemberStep DEF AddMember
  <2>6. CASE CreateUser(v)
    BY <1>1, <2>6, CreateUserStep DEF CreateUser
  <2>7. CASE CreateOrg(v)
    BY <1>1, <2>7, CreateOrgStep DEF CreateOrg
  <2>8. CASE AddOwner(v)
    BY <2>8, AddOwnerStep DEF RoleIsFirst
  <2>9. CASE Subject(v)
    BY <1>1, <2>9, SubjectStep DEF Subject
  <2>10. CASE Revoke(v)
    BY <1>1, <2>10, RevokeStep DEF Revoke
  <2>11. CASE LogoutDone(v)
    BY <1>1, <2>11, LogoutDoneStep DEF LogoutDone
  <2>12. CASE Issue(v)
    BY <1>1, <2>12, IssueStep DEF Issue
  <2>13. CASE MemberAdded(v)
    BY <2>13, MemberAddedStep DEF RoleIsFirst
  <2> QED
    BY <1>2, <2>1, <2>2, <2>3, <2>4, <2>5, <2>6, <2>7, <2>8, <2>9, <2>10, <2>11, <2>12, <2>13
    DEF Visit, VisitStep
<1>3. ASSUME NEW i \in DOMAIN tokens, Expire(i) PROVE SessionsInv' /\ RoleIsFirst
  BY <1>1, <1>3, ExpireStep DEF Expire
<1>4. ASSUME NEW k \in SigningKeys, IdentityRestarts(k) PROVE SessionsInv' /\ RoleIsFirst
  BY <1>1, <1>4, IdentityRestartStep DEF IdentityRestarts
<1> QED
  BY <1>2, <1>3, <1>4 DEF RoleIsFirst

(* The identity service's invariant does not depend on the backend.        *)
(* A step of the backend leaves the identity service alone.                *)
LEMMA SessionsStutter == SessionsInv /\ UNCHANGED sessionVars => SessionsInv'
<1> SUFFICES ASSUME SessionsInv, UNCHANGED sessionVars PROVE SessionsInv'
  OBVIOUS
<1>1. UNCHANGED <<accounts, orgs, members, tokens, visits, signing, access, logins, raced, ended>>
  BY DEF sessionVars, sessionNotes
<1>2. PeopleInv'
  BY <1>1 DEF SessionsInv, PeopleInv, SessionTypes, FoundersFirst, OneFounder, VisitFits
<1>3. OneCarrier'
  BY <1>1 DEF SessionsInv, OneCarrier, Holds, LoginOf
<1> QED
  BY <1>2, <1>3 DEF SessionsInv

(* One good token is at most one.                                          *)
LEMMA OneGoodToken == SessionsInv => OnlyOverlapSplitsALogin
<1> SUFFICES ASSUME SessionsInv PROVE OnlyOverlapSplitsALogin
  OBVIOUS
<1>1. SessionsTypeOK
  BY DEF SessionsInv, PeopleInv, SessionTypes, FoundersFirst, SessionsTypeOK
<1>2. ASSUME NEW l \in 1..logins, l \notin raced
      PROVE  Cardinality(Live(l)) <= 1 /\ (l \in ended => Live(l) = {})
  <2>1. \A i, j \in Live(l) : i = j
    BY <1>2 DEF Live, SessionsInv, OneCarrier
  <2>2. l \in ended => Live(l) = {}
    BY <1>2 DEF Live, SessionsInv, OneCarrier
  <2>3. CASE Live(l) = {}
    BY <2>2, <2>3, FS_EmptySet
  <2>4. ASSUME NEW i \in Live(l) PROVE Cardinality(Live(l)) <= 1
    <3>1. Live(l) = {i}
      BY <2>1
    <3>2. Cardinality(Live(l)) = 1
      BY <3>1, FS_Singleton
    <3> QED
      BY <3>2
  <2> QED
    BY <2>2, <2>3, <2>4
<1> QED
  BY <1>1, <1>2 DEF OnlyOverlapSplitsALogin

-----------------------------------------------------------------------------
(* A call that has not come in is typed like one that has.                 *)
LEMMA NothingFacts ==
  /\ NoKey \in Key /\ NoKey.scopes = {}
  /\ Nothing \in CallRow /\ Nothing.stage = "none" /\ Nothing.op = "none"
<1>1. NoKey \in Key /\ NoKey.scopes = {}
  BY DEF NoKey, Key
<1> QED
  BY <1>1 DEF Nothing, CallRow, Cred

(* What a role is worth.                                                   *)
LEMMA ScopeFacts == \A role : ScopesForRole(role) \subseteq SCOPES
BY DEF ScopesForRole, SCOPES


(* A call moves on, or is over: the keys and the log are as they were.     *)
LEMMA CallStay ==
  ASSUME KeysInv, NEW c \in Calls, NEW row \in CallRow, calls' = [calls EXCEPT ![c] = row],
         UNCHANGED <<keys, audit, handed, minted, revoked>>, CallFits(c)'
  PROVE  KeysInv'
<1>1. /\ calls' \in [Calls -> CallRow] /\ \A d \in Calls \ {c} : calls'[d] = calls[d]
  BY DEF KeysInv, AccessTypes
<1>2. AccessTypes' /\ KeysFit' /\ UsableIsAudited'
  BY <1>1 DEF KeysInv, AccessTypes, KeysFit, UsableIsAudited, Fresh, Stored, RowOf
<1>3. ASSUME NEW d \in Calls PROVE CallFits(d)'
  <2>1. CASE d = c
    BY <2>1
  <2>2. CASE d # c
    BY <1>1, <2>2 DEF KeysInv, CallFits, Fresh, Stored, RowOf
  <2> QED
    BY <2>1, <2>2
<1> QED
  BY <1>2, <1>3 DEF KeysInv

(* A call that is over has nothing in hand.                                *)
LEMMA OverStep ==
  ASSUME KeysInv, NEW c \in Calls, Over(c), UNCHANGED <<keys, audit, handed, minted, revoked>>
  PROVE  KeysInv'
<1>1. calls' = [calls EXCEPT ![c] = Nothing] /\ calls'[c] = Nothing
  BY DEF Over, KeysInv, AccessTypes
<1>2. CallFits(c)'
  BY <1>1, NothingFacts DEF CallFits
<1> QED
  BY <1>1, <1>2, NothingFacts, CallStay

(* Past the middleware, with a credential that is a key that was minted,   *)
(* or no key.                                                              *)
LEMMA GateStep ==
  ASSUME KeysInv, NEW c \in Calls, calls[c].stage \in {"resolving", "fetching"},
         NEW who \in Key, NEW as \in KeyIds \cup {"master", "user"},
         as \in KeyIds => as \notin Fresh /\ who = RowOf(as),
         Put(c, Gate(calls[c], who, as)), UNCHANGED <<keys, audit, handed, minted, revoked>>
  PROVE  KeysInv'
<1> DEFINE row == [calls[c] EXCEPT !.who = who, !.as = as, !.stage = "checking"]
<1>1. CASE "admin" \in who.scopes
  <2>1. calls' = [calls EXCEPT ![c] = row]
    BY <1>1 DEF Put, Gate
  <2>2. calls[c] \in CallRow /\ CallFits(c) /\ as # "none"
    BY AccessAssumption DEF KeysInv, AccessTypes
  <2>3. /\ row \in CallRow /\ row.stage = "checking" /\ row.as = as /\ row.who = who
        /\ row.op = calls[c].op /\ row.scopes = calls[c].scopes
    BY <2>2 DEF CallRow
  <2> HIDE DEF row
  <2>4. calls'[c] = row
    BY <2>1 DEF KeysInv, AccessTypes
  <2>5. CallFits(c)'
    BY <2>2, <2>3, <2>4 DEF CallFits, Fresh, RowOf
  <2> QED
    BY <2>1, <2>3, <2>5, CallStay
<1>2. CASE "admin" \notin who.scopes
  BY <1>2, OverStep DEF Put, Gate, Over
<1> QED
  BY <1>1, <1>2

(* A call whose stage changes, and nothing else of it.                     *)
LEMMA ReachFacts ==
  ASSUME AccessTypes, NEW c \in Calls,
         NEW stage \in {"none", "resolving", "unknown", "fetching", "checking", "auditing", "answering"},
         Reach(c, stage)
  PROVE  /\ calls' = [calls EXCEPT ![c] = calls'[c]] /\ calls'[c] \in CallRow
         /\ calls'[c].stage = stage /\ calls'[c].op = calls[c].op /\ calls'[c].key = calls[c].key
         /\ calls'[c].cred = calls[c].cred /\ calls'[c].scopes = calls[c].scopes
<1> DEFINE row == [calls[c] EXCEPT !.stage = stage]
<1>1. calls \in [Calls -> CallRow] /\ calls[c] \in CallRow
  BY DEF AccessTypes
<1>2. calls' = [calls EXCEPT ![c] = row]
  BY DEF Reach
<1>3. /\ row \in CallRow /\ row.stage = stage /\ row.op = calls[c].op /\ row.key = calls[c].key
      /\ row.cred = calls[c].cred /\ row.scopes = calls[c].scopes
  BY <1>1 DEF CallRow
<1> HIDE DEF row
<1>4. calls'[c] = row
  BY <1>1, <1>2
<1> QED
  BY <1>2, <1>3, <1>4

(* A call comes in, with a credential somebody holds.                      *)
LEMMA RequestStep ==
  ASSUME KeysInv, SessionTypes, NEW c \in Calls, NEW cred \in Credentials,
         NEW op \in {"mint", "revoke"}, NEW k \in KeyIds \cup {Nothing.key},
         NEW s \in SUBSET SCOPES, NEW n \in Nodes \cup {Anywhere},
         op = "mint" => s # {},
         Request(c, cred, op, k, s, n)
  PROVE  KeysInv'
<1> DEFINE row == [Nothing EXCEPT !.stage = "resolving", !.cred = cred, !.op = op, !.key = k,
                                  !.scopes = s, !.node = n]
<1>1. cred \in Cred
  BY DEF Credentials, Cred, KeysInv, AccessTypes, SessionTypes
<1>2. /\ calls' = [calls EXCEPT ![c] = row]
      /\ UNCHANGED <<keys, audit, handed, minted, revoked>>
  BY DEF Request, Put
<1>3. row \in CallRow /\ row.stage = "resolving" /\ row.op = op /\ row.scopes = s
  BY <1>1, NothingFacts DEF CallRow
<1> HIDE DEF row
<1>4. calls'[c] = row
  BY <1>2 DEF KeysInv, AccessTypes
<1>5. CallFits(c)'
  BY <1>3, <1>4 DEF CallFits
<1> QED
  BY <1>2, <1>3, <1>5, CallStay

(* The credential is looked up: the master token, a stored key, or a login *)
(* that a key document verifies, now or after a fetch.                     *)
LEMMA ResolveStep ==
  ASSUME KeysInv, NEW c \in Calls,
         \/ ResolveMaster(c) \/ ResolveKey(c) \/ ResolveUser(c)
         \/ Refreshed(c) \/ Fetched(c) \/ FetchFails(c)
  PROVE  KeysInv'
<1>1. /\ UNCHANGED <<keys, audit, handed, minted, revoked>> /\ AccessTypes /\ CallFits(c)
      /\ calls[c].cred \in Cred
  BY DEF ResolveMaster, ResolveKey, ResolveUser, Refreshed, Fetched, FetchFails, KeysInv, AccessTypes,
     CallRow
<1>2. CASE Over(c)
  BY <1>1, <1>2, OverStep
<1>3. ASSUME NEW stage \in {"unknown", "fetching"}, Reach(c, stage), calls[c].cred.kind = "user"
      PROVE  KeysInv'
  <2>1. /\ calls' = [calls EXCEPT ![c] = calls'[c]] /\ calls'[c] \in CallRow
        /\ calls'[c].stage = stage /\ calls'[c].op = calls[c].op
        /\ calls'[c].cred = calls[c].cred /\ calls'[c].scopes = calls[c].scopes
    BY <1>1, <1>3, ReachFacts
  <2>2. CallFits(c)'
    BY <1>1, <1>3, <2>1 DEF CallFits
  <2> QED
    BY <1>1, <2>1, <2>2, CallStay
<1>4. ASSUME calls[c].stage \in {"resolving", "fetching"}, calls[c].cred.kind = "user",
             Put(c, Gate(calls[c], UserPrincipal(calls[c].cred.token), "user"))
      PROVE  KeysInv'
  <2>1. calls[c].cred.token \in AccessToken
    BY <1>1, <1>4 DEF Cred
  <2>2. UserPrincipal(calls[c].cred.token) \in Key
    BY <2>1, ScopeFacts DEF UserPrincipal, Key, AccessToken
  <2>3. "user" \notin KeyIds
    BY AccessAssumption
  <2> QED
    BY <1>1, <1>4, <2>2, <2>3, GateStep
<1>5. CASE ResolveMaster(c)
  <2>1. [scopes |-> SCOPES, node |-> Anywhere, org |-> Public] \in Key /\ "master" \notin KeyIds
    BY AccessAssumption DEF Key
  <2> QED
    BY <1>1, <1>5, <2>1, GateStep DEF ResolveMaster
<1>6. CASE ResolveKey(c)
  <2>1. CASE calls[c].cred.id \in Stored
    <3> DEFINE k == calls[c].cred.id
    <3>1. k \in KeyIds /\ keys[k] \in Key /\ k \notin Fresh /\ keys[k] = RowOf(k)
      BY <1>1, <2>1 DEF Stored, KeysInv, KeysFit, AccessTypes
    <3> QED
      BY <1>1, <1>6, <2>1, <3>1, GateStep DEF ResolveKey
  <2>2. CASE calls[c].cred.id \notin Stored
    BY <1>2, <1>6, <2>2 DEF ResolveKey
  <2> QED
    BY <2>1, <2>2
<1>7. CASE ResolveUser(c)
  <2>1. \/ Over(c) \/ Reach(c, "unknown")
        \/ Put(c, Gate(calls[c], UserPrincipal(calls[c].cred.token), "user"))
    BY <1>7 DEF ResolveUser
  <2> QED
    BY <1>2, <1>3, <1>4, <1>7, <2>1 DEF ResolveUser
<1>8. CASE Refreshed(c)
  <2>1. Over(c) \/ Reach(c, "fetching")
    BY <1>8 DEF Refreshed
  <2>2. calls[c].cred.kind = "user"
    BY <1>1, <1>8 DEF Refreshed, CallFits
  <2> QED
    BY <1>2, <1>3, <2>1, <2>2
<1>9. CASE Fetched(c)
  <2>1. Over(c) \/ Put(c, Gate(calls[c], UserPrincipal(calls[c].cred.token), "user"))
    BY <1>9 DEF Fetched
  <2>2. calls[c].stage = "fetching" /\ calls[c].cred.kind = "user"
    BY <1>1, <1>9 DEF Fetched, CallFits
  <2> QED
    BY <1>2, <1>4, <2>1, <2>2
<1>10. CASE FetchFails(c)
  BY <1>2, <1>10 DEF FetchFails
<1> QED
  BY <1>5, <1>6, <1>7, <1>8, <1>9, <1>10

(* A key is minted, within the rights of who asked, by the key it was let  *)
(* in with even if that one is revoked by now.                             *)
LEMMA MintStep ==
  ASSUME KeysInv, NEW c \in Calls, Mint(c)
  PROVE  KeysInv'
<1> DEFINE w == calls[c]
           who == calls[c].who
           row == [scopes |-> w.scopes, node |-> BoundTo(who, w.node), org |-> who.org]
<1>1. /\ w.stage = "checking" /\ w.op = "mint" /\ AccessTypes /\ w \in CallRow /\ CallFits(c)
      /\ UNCHANGED <<audit, handed, revoked>>
  BY DEF Mint, KeysInv, AccessTypes
<1>2. CASE ~Delegable(who, w.scopes, w.node)
  BY <1>1, <1>2, OverStep DEF Mint
<1>3. ASSUME Delegable(who, w.scopes, w.node), NEW k \in Fresh,
             keys' = [keys EXCEPT ![k] = row],
             minted' = [minted EXCEPT ![k] = [scopes |-> row.scopes, node |-> row.node, org |-> row.org,
                                              as |-> w.as, by |-> who]],
             Put(c, [w EXCEPT !.stage = "auditing", !.key = k])
      PROVE  KeysInv'
  <2> DEFINE m == [scopes |-> row.scopes, node |-> row.node, org |-> row.org, as |-> w.as, by |-> who]
             x == [w EXCEPT !.stage = "auditing", !.key = k]
  <2>1. /\ who \in Key /\ w.scopes \in SUBSET SCOPES /\ w.node \in Nodes \cup {Anywhere}
        /\ w.as \in KeyIds \cup {"master", "user"} /\ w.scopes # {}
        /\ w.as \in KeyIds => w.as \notin Fresh /\ who = RowOf(w.as)
    BY <1>1 DEF CallRow, CallFits
  <2>2. BoundTo(who, w.node) \in Nodes \cup {Anywhere}
        /\ (who.node # Anywhere => BoundTo(who, w.node) = who.node)
    BY <2>1 DEF BoundTo, Key
  <2>3. w.scopes \subseteq who.scopes
    BY <1>3 DEF Delegable
  <2>4. row \in Key /\ row.scopes = w.scopes /\ row.node = BoundTo(who, w.node) /\ row.org = who.org
    BY <2>1, <2>2 DEF Key
  <2>5. /\ m \in Mint3 /\ m.scopes # {} /\ m.scopes \subseteq m.by.scopes /\ m.org = m.by.org
        /\ m.by.node # Anywhere => m.node = m.by.node
        /\ m.as = w.as /\ m.by = who
        /\ row = [scopes |-> m.scopes, node |-> m.node, org |-> m.org]
    BY <2>1, <2>2, <2>3, <2>4 DEF Mint3, Key
  <2>6. /\ x \in CallRow /\ x.stage = "auditing" /\ x.op = "mint" /\ x.key = k /\ x.scopes = w.scopes
    BY <1>1 DEF CallRow, Fresh
  <2> HIDE DEF row, m, x
  <2>7. /\ keys' = [keys EXCEPT ![k] = row] /\ minted' = [minted EXCEPT ![k] = m]
        /\ calls' = [calls EXCEPT ![c] = x]
    BY <1>3 DEF m, x, Put
  <2>8. k \in KeyIds /\ minted[k] = NoKey /\ m # NoKey
    BY <2>5, NothingFacts DEF Fresh
  <2>9. /\ keys'[k] = row /\ minted'[k] = m
        /\ \A j \in KeyIds \ {k} : keys'[j] = keys[j] /\ minted'[j] = minted[j]
    BY <1>1, <2>7, <2>8 DEF AccessTypes
  <2>10. calls'[c] = x /\ \A d \in Calls \ {c} : calls'[d] = calls[d]
    BY <1>1, <2>7 DEF AccessTypes
  <2>11. Fresh' = Fresh \ {k} /\ Stored' \subseteq Stored \cup {k}
    BY <2>8, <2>9 DEF Fresh, Stored
  <2>12. RowOf(k)' = row /\ \A j \in KeyIds \ {k} : RowOf(j)' = RowOf(j)
    BY <2>5, <2>9 DEF RowOf
  <2>13. AccessTypes'
    <3>1. keys' \in [KeyIds -> Key]
      BY <1>1, <2>4, <2>7 DEF AccessTypes
    <3>2. minted' \in [KeyIds -> {NoKey} \cup Mint3]
      BY <1>1, <2>5, <2>7 DEF AccessTypes
    <3>3. calls' \in [Calls -> CallRow]
      BY <1>1, <2>6, <2>7 DEF AccessTypes
    <3> QED
      BY <1>1, <3>1, <3>2, <3>3 DEF AccessTypes
  <2>14. KeysFit'
    <3> SUFFICES ASSUME NEW j \in KeyIds PROVE KeysFit!(j)'
      BY DEF KeysFit
    <3>1. CASE j = k
      BY <2>1, <2>5, <2>8, <2>9, <2>11, <2>12, <3>1
    <3>2. CASE j # k
      <4>1. KeysFit!(j) /\ (j \in Fresh' <=> j \in Fresh) /\ keys'[j] = keys[j] /\ minted'[j] = minted[j]
            /\ RowOf(j)' = RowOf(j)
        BY <2>9, <2>11, <2>12, <3>2 DEF KeysInv, KeysFit
      <4> QED
        BY <2>11, <2>12, <4>1
    <3> QED
      BY <3>1, <3>2
  <2>15. ASSUME NEW d \in Calls PROVE CallFits(d)'
    <3>1. CASE d = c
      BY <2>1, <2>6, <2>8, <2>10, <2>11, <3>1 DEF CallFits
    <3>2. CASE d # c
      <4>1. CallFits(d) /\ calls'[d] = calls[d]
        BY <2>10, <3>2 DEF KeysInv
      <4> QED
        BY <1>1, <2>11, <2>12, <4>1 DEF CallFits
    <3> QED
      BY <3>1, <3>2
  <2>16. UsableIsAudited'
    <3>1. \A a \in audit : a[2] \in KeyIds /\ a[2] \notin Fresh
      BY <1>1 DEF KeysInv, UsableIsAudited, AccessTypes, Fresh
    <3>2. \A a \in audit' : minted'[a[2]] # NoKey
      BY <1>1, <2>8, <2>9, <3>1 DEF Fresh
    <3>3. \A j \in revoked : j \notin Fresh
      BY <3>1 DEF KeysInv, UsableIsAudited
    <3> QED
      BY <1>1, <2>11, <3>2, <3>3 DEF KeysInv, UsableIsAudited
  <2> QED
    BY <2>13, <2>14, <2>15, <2>16 DEF KeysInv
<1> QED
  BY <1>2, <1>3 DEF Mint

(* A key of the caller's organization is deleted.                          *)
LEMMA DeleteStep ==
  ASSUME KeysInv, NEW c \in Calls, Delete(c)
  PROVE  KeysInv'
<1> DEFINE k == calls[c].key
<1>1. /\ calls[c].stage = "checking" /\ calls[c].op = "revoke" /\ AccessTypes /\ CallFits(c)
      /\ UNCHANGED <<audit, handed, minted, revoked>>
  BY DEF Delete, KeysInv
<1>2. CASE Over(c) /\ keys' = keys
  BY <1>1, <1>2, OverStep
<1>3. CASE k \in Stored /\ keys' = [keys EXCEPT ![k] = NoKey] /\ Reach(c, "auditing")
  <2>1. /\ calls' = [calls EXCEPT ![c] = calls'[c]] /\ calls'[c] \in CallRow
        /\ calls'[c].stage = "auditing" /\ calls'[c].op = "revoke" /\ calls'[c].key = k
    BY <1>1, <1>3, ReachFacts
  <2>2. \A d \in Calls \ {c} : calls'[d] = calls[d]
    BY <1>1, <2>1 DEF AccessTypes
  <2>3. k \in KeyIds /\ k \notin Fresh
    BY <1>3 DEF Stored, KeysInv, KeysFit
  <2>4. keys'[k] = NoKey /\ \A j \in KeyIds \ {k} : keys'[j] = keys[j]
    BY <1>1, <1>3, <2>3 DEF AccessTypes
  <2>5. Fresh' = Fresh /\ Stored' = Stored \ {k} /\ \A j : RowOf(j)' = RowOf(j)
    BY <1>1, <2>4 DEF Fresh, Stored, RowOf
  <2>6. AccessTypes'
    <3>1. keys' \in [KeyIds -> Key]
      BY <1>1, <1>3, NothingFacts DEF AccessTypes
    <3>2. calls' \in [Calls -> CallRow]
      BY <1>1, <2>1 DEF AccessTypes
    <3> QED
      BY <1>1, <3>1, <3>2 DEF AccessTypes
  <2>7. KeysFit'
    BY <1>1, <2>4, <2>5 DEF KeysInv, KeysFit
  <2>8. ASSUME NEW d \in Calls PROVE CallFits(d)'
    <3>1. CASE d = c
      BY <2>1, <2>3, <2>5, <3>1 DEF CallFits
    <3>2. CASE d # c
      <4>1. CallFits(d) /\ calls'[d] = calls[d]
        BY <2>2, <3>2 DEF KeysInv
      <4> QED
        BY <1>1, <2>5, <4>1 DEF CallFits
    <3> QED
      BY <3>1, <3>2
  <2>9. UsableIsAudited'
    BY <1>1, <2>5 DEF KeysInv, UsableIsAudited
  <2> QED
    BY <2>6, <2>7, <2>8, <2>9 DEF KeysInv
<1> QED
  BY <1>2, <1>3 DEF Delete

(* The row of the credential log, and then the answer.                     *)
LEMMA AuditedStep ==
  ASSUME KeysInv, NEW c \in Calls, Audited(c)
  PROVE  KeysInv'
<1> DEFINE k == calls[c].key
           op == calls[c].op
<1>1. /\ calls[c].stage = "auditing" /\ AccessTypes /\ CallFits(c) /\ calls[c] \in CallRow
      /\ UNCHANGED <<keys, handed, minted, revoked>> /\ audit' = audit \cup {<<op, k>>}
      /\ Reach(c, "answering")
  BY DEF Audited, KeysInv, AccessTypes
<1>2. /\ calls' = [calls EXCEPT ![c] = calls'[c]] /\ calls'[c] \in CallRow
      /\ calls'[c].stage = "answering" /\ calls'[c].op = op /\ calls'[c].key = k
      /\ calls'[c].scopes = calls[c].scopes
  BY <1>1, ReachFacts
<1>3. \A d \in Calls \ {c} : calls'[d] = calls[d]
  BY <1>1, <1>2 DEF AccessTypes
<1>4. k \in KeyIds /\ k \notin Fresh /\ op \in {"mint", "revoke"}
  BY <1>1 DEF CallFits, CallRow
<1>5. Fresh' = Fresh /\ Stored' = Stored /\ \A j : RowOf(j)' = RowOf(j)
  BY <1>1 DEF Fresh, Stored, RowOf
<1>6. AccessTypes'
  <2>1. calls' \in [Calls -> CallRow]
    BY <1>1, <1>2 DEF AccessTypes
  <2> QED
    BY <1>1, <1>4, <2>1 DEF AccessTypes
<1>7. KeysFit'
  BY <1>1, <1>5 DEF KeysInv, KeysFit
<1>8. ASSUME NEW d \in Calls PROVE CallFits(d)'
  <2>1. CASE d = c
    BY <1>1, <1>2, <1>4, <1>5, <2>1 DEF CallFits
  <2>2. CASE d # c
    <3>1. CallFits(d) /\ calls'[d] = calls[d]
      BY <1>3, <2>2 DEF KeysInv
    <3> QED
      BY <1>1, <1>5, <3>1 DEF CallFits
  <2> QED
    BY <2>1, <2>2
<1>9. UsableIsAudited'
  <2>1. minted[k] # NoKey /\ <<op, k>>[2] = k
    BY <1>4 DEF Fresh
  <2> QED
    BY <1>1, <1>5, <2>1 DEF KeysInv, UsableIsAudited
<1> QED
  BY <1>6, <1>7, <1>8, <1>9 DEF KeysInv

(* The answer: the secret is out, or the caller knows the key is gone.     *)
LEMMA AnsweredStep ==
  ASSUME KeysInv, NEW c \in Calls, Answered(c)
  PROVE  KeysInv'
<1> DEFINE k == calls[c].key
           op == calls[c].op
<1>1. /\ calls[c].stage = "answering" /\ AccessTypes /\ CallFits(c)
      /\ UNCHANGED <<keys, audit, minted>> /\ calls' = [calls EXCEPT ![c] = Nothing]
      /\ handed' = IF op = "mint" THEN handed \cup {k} ELSE handed
      /\ revoked' = IF op = "revoke" THEN revoked \cup {k} ELSE revoked
  BY DEF Answered, Over, KeysInv
<1>2. k \in KeyIds /\ <<op, k>> \in audit /\ (op = "revoke" => k \notin Stored)
  BY <1>1 DEF CallFits
<1>3. calls'[c] = Nothing /\ \A d \in Calls \ {c} : calls'[d] = calls[d]
  BY <1>1 DEF AccessTypes
<1>4. Fresh' = Fresh /\ Stored' = Stored /\ \A j : RowOf(j)' = RowOf(j)
  BY <1>1 DEF Fresh, Stored, RowOf
<1>5. AccessTypes'
  <2>1. calls' \in [Calls -> CallRow]
    BY <1>1, NothingFacts DEF AccessTypes
  <2> QED
    BY <1>1, <1>2, <2>1 DEF AccessTypes
<1>6. KeysFit'
  BY <1>1, <1>4 DEF KeysInv, KeysFit
<1>7. ASSUME NEW d \in Calls PROVE CallFits(d)'
  <2>1. CASE d = c
    BY <1>3, <2>1, NothingFacts DEF CallFits
  <2>2. CASE d # c
    <3>1. CallFits(d) /\ calls'[d] = calls[d]
      BY <1>3, <2>2 DEF KeysInv
    <3> QED
      BY <1>1, <1>4, <3>1 DEF CallFits
  <2> QED
    BY <2>1, <2>2
<1>8. UsableIsAudited'
  BY <1>1, <1>2, <1>4 DEF KeysInv, UsableIsAudited
<1> QED
  BY <1>5, <1>6, <1>7, <1>8 DEF KeysInv

(* A restart drops the calls; the keys and the log are stored.             *)
LEMMA BackendRestartStep ==
  ASSUME KeysInv, UNCHANGED <<keys, audit, handed, minted, revoked>>,
         calls' = [c \in Calls |-> Nothing]
  PROVE  KeysInv'
<1>1. AccessTypes'
  BY NothingFacts DEF KeysInv, AccessTypes
<1>2. KeysFit' /\ UsableIsAudited'
  BY DEF KeysInv, KeysFit, UsableIsAudited, Fresh, Stored, RowOf
<1>3. \A c \in Calls : CallFits(c)'
  BY NothingFacts DEF CallFits
<1> QED
  BY <1>1, <1>2, <1>3 DEF KeysInv

(* Initially there is no key, and no call.                                 *)
LEMMA InitKeys == Init => KeysInv
<1> SUFFICES ASSUME Init PROVE KeysInv
  OBVIOUS
<1>1. AccessTypes
  BY NothingFacts DEF Init, AccessTypes
<1>2. Fresh = KeyIds /\ Stored = {}
  BY DEF Init, Fresh, Stored
<1>3. KeysFit /\ UsableIsAudited
  BY <1>2 DEF Init, KeysFit, UsableIsAudited
<1>4. \A c \in Calls : CallFits(c)
  BY NothingFacts DEF Init, CallFits
<1> QED
  BY <1>1, <1>3, <1>4 DEF KeysInv

(* Steps that touch neither keys nor calls keep what is known of them.     *)
LEMMA KeysStutter ==
  KeysInv /\ UNCHANGED <<keys, calls, audit, handed, minted, revoked>> => KeysInv'
<1> SUFFICES ASSUME KeysInv, UNCHANGED <<keys, calls, audit, handed, minted, revoked>> PROVE KeysInv'
  OBVIOUS
<1>1. AccessTypes' /\ KeysFit' /\ UsableIsAudited'
  BY DEF KeysInv, AccessTypes, KeysFit, UsableIsAudited, Fresh, Stored, RowOf
<1>2. \A c \in Calls : CallFits(c)'
  BY DEF KeysInv, CallFits, Fresh, Stored, RowOf
<1> QED
  BY <1>1, <1>2 DEF KeysInv

(* A step of a call, whichever it is, keeps the invariant.                 *)
LEMMA CallNext ==
  ASSUME KeysInv, NEW c \in Calls, CallStep(c)
  PROVE  KeysInv'
<1>1. CASE \/ ResolveMaster(c) \/ ResolveKey(c) \/ ResolveUser(c)
           \/ Refreshed(c) \/ Fetched(c) \/ FetchFails(c)
  BY <1>1, ResolveStep
<1>2. CASE AuditFails(c)
  BY <1>2, OverStep DEF AuditFails
<1> QED
  BY <1>1, <1>2, MintStep, DeleteStep, AuditedStep, AnsweredStep DEF CallStep

(* So does every other step of the backend.                                *)
LEMMA KeysNext ==
  ASSUME SessionTypes, KeysInv, [Next]_vars
  PROVE  KeysInv'
<1>1. CASE UNCHANGED accessVars
  BY <1>1, KeysStutter DEF accessVars
<1>2. CASE \E c \in Calls : CallStep(c)
  BY <1>2, CallNext
<1>3. ASSUME NEW c \in Calls, NEW cred \in Credentials, NEW s \in Asked, NEW n \in Nodes \cup {Anywhere},
             Request(c, cred, "mint", Nothing.key, s, n)
      PROVE  KeysInv'
  <2>1. s \in SUBSET SCOPES /\ s # {}
    BY AccessAssumption DEF SCOPES
  <2> QED
    BY <1>3, <2>1, RequestStep
<1>4. ASSUME NEW c \in Calls, NEW cred \in Credentials, NEW k \in handed,
             Request(c, cred, "revoke", k, {}, Anywhere)
      PROVE  KeysInv'
  <2>1. k \in KeyIds
    BY DEF KeysInv, AccessTypes
  <2> QED
    BY <1>4, <2>1, RequestStep
<1>5. ASSUME NEW doc, BackendRestarts(doc) PROVE KeysInv'
  BY <1>5, BackendRestartStep DEF BackendRestarts
<1>6. CASE Ticks
  BY <1>6, KeysStutter DEF Ticks
<1> QED
  BY <1>1, <1>2, <1>3, <1>4, <1>5, <1>6 DEF Next, vars

(* The rights of a key are within those of whoever minted it, and of       *)
(* whoever minted that.                                                    *)
LEMMA NarrowedTwice == KeysInv => KeysAreAccounted
<1> SUFFICES ASSUME KeysInv, NEW k \in KeyIds \ Fresh
             PROVE  /\ minted[k].scopes \subseteq minted[k].by.scopes
                    /\ minted[k].org = minted[k].by.org
                    /\ minted[k].by.node # Anywhere => minted[k].node = minted[k].by.node
                    /\ \A p \in Roots(k) : \A q \in {p} \cup Roots(p) :
                         /\ minted[k].scopes \subseteq minted[q].scopes
                         /\ minted[k].org = minted[q].org
                         /\ minted[q].node \in {Anywhere, minted[k].node}
  BY DEF KeysAreAccounted, KeysNarrow, KeysInv
<1> DEFINE Within(j, p) == /\ minted[j].scopes \subseteq minted[p].scopes /\ minted[j].org = minted[p].org
                           /\ minted[p].node # Anywhere => minted[j].node = minted[p].node
<1>1. \A j \in KeyIds \ Fresh :
        /\ minted[j].scopes \subseteq minted[j].by.scopes /\ minted[j].org = minted[j].by.org
        /\ minted[j].by.node # Anywhere => minted[j].node = minted[j].by.node
        /\ minted[j].as \in KeyIds => minted[j].as \notin Fresh /\ minted[j].by = RowOf(minted[j].as)
  BY DEF KeysInv, KeysFit
<1>2. ASSUME NEW j \in KeyIds \ Fresh, NEW p \in Roots(j)
      PROVE  p \in KeyIds \ Fresh /\ Within(j, p)
  <2>1. p = minted[j].as /\ p \in KeyIds
    BY <1>2 DEF Roots
  <2>2. p \notin Fresh /\ minted[j].by = RowOf(p)
    BY <1>1, <2>1
  <2>3. /\ minted[j].by.scopes = minted[p].scopes /\ minted[j].by.org = minted[p].org
        /\ minted[j].by.node = minted[p].node
    BY <2>2 DEF RowOf
  <2> QED
    BY <1>1, <2>1, <2>2, <2>3
<1>3. ASSUME NEW p \in Roots(k), NEW q \in {p} \cup Roots(p) PROVE Within(k, q)
  <2>1. p \in KeyIds \ Fresh /\ Within(k, p)
    BY <1>2
  <2>2. CASE q \in Roots(p)
    BY <1>2, <2>1, <2>2
  <2> QED
    BY <2>1, <2>2
<1> QED
  BY <1>1, <1>3

-----------------------------------------------------------------------------
(* No fetch has been made yet.                                             *)
LEMMA NoFetches ==
  ASSUME fetches = <<>>, lastFetch = Never, clock \in Nat, clock >= MinInterval
  PROVE  FetchInv
<1>1. fetches \in Seq(Nat) /\ Len(fetches) = 0
  BY EmptySeq
<1> QED
  BY <1>1 DEF FetchInv, FetchesAreSpaced, Never

(* A fetch is begun only when the interval since the last one has passed.  *)
LEMMA FetchStep ==
  ASSUME FetchInv, NEW c \in Calls, Refreshed(c), fetches' # fetches
  PROVE  FetchInv'
<1>1. /\ lastFetch' = clock /\ clock' = clock /\ fetches' = Append(fetches, clock)
      /\ ~(lastFetch # Never /\ clock - lastFetch < MinInterval)
  BY DEF Refreshed
<1>2. fetches \in Seq(Nat) /\ clock \in Nat /\ lastFetch \in Nat /\ clock >= MinInterval /\ MinInterval \in Nat
  BY AccessAssumption DEF FetchInv
<1>3. /\ Len(fetches) \in Nat /\ fetches' \in Seq(Nat) /\ Len(fetches') = Len(fetches) + 1
      /\ fetches'[Len(fetches) + 1] = clock
      /\ \A i \in 1..Len(fetches) : fetches'[i] = fetches[i] /\ fetches[i] \in Nat
  BY <1>1, <1>2, LenProperties, AppendProperties
<1>4. Len(fetches) > 0 => clock - fetches[Len(fetches)] >= MinInterval
  <2>1. Len(fetches) > 0 => /\ lastFetch = fetches[Len(fetches)] /\ lastFetch <= clock
                            /\ lastFetch >= MinInterval
    BY <1>2 DEF FetchInv
  <2>2. lastFetch = 0 /\ lastFetch >= MinInterval => clock - lastFetch >= MinInterval
    BY <1>2
  <2> QED
    BY <1>1, <1>2, <2>1, <2>2 DEF Never
<1>5. ASSUME NEW i \in 1..Len(fetches') - 1 PROVE fetches'[i + 1] - fetches'[i] >= MinInterval
  <2>1. i \in 1..Len(fetches)
    BY <1>3
  <2>2. CASE i = Len(fetches)
    BY <1>3, <1>4, <2>1, <2>2
  <2>3. CASE i # Len(fetches)
    <3>1. i \in 1..Len(fetches) - 1 /\ i + 1 \in 1..Len(fetches)
      BY <1>3, <2>1, <2>3
    <3>2. fetches[i + 1] - fetches[i] >= MinInterval
      BY <3>1 DEF FetchInv, FetchesAreSpaced
    <3> QED
      BY <1>3, <3>1, <3>2
  <2> QED
    BY <2>2, <2>3
<1>6. FetchesAreSpaced'
  BY <1>5 DEF FetchesAreSpaced
<1> QED
  BY <1>1, <1>2, <1>3, <1>6 DEF FetchInv

(* Time passes, and nothing is fetched.                                    *)
LEMMA FetchStay ==
  ASSUME FetchInv, UNCHANGED <<lastFetch, fetches>>, clock' \in {clock, clock + 1}
  PROVE  FetchInv'
<1>1. clock' \in Nat /\ clock' >= clock /\ clock \in Nat /\ MinInterval \in Nat
  BY AccessAssumption DEF FetchInv
<1>2. FetchesAreSpaced'
  BY DEF FetchInv, FetchesAreSpaced
<1>3. fetches # <<>> => lastFetch <= clock'
  BY <1>1 DEF FetchInv
<1>4. clock' >= MinInterval
  BY <1>1 DEF FetchInv
<1> QED
  BY <1>1, <1>2, <1>3, <1>4 DEF FetchInv

(* Every step keeps the fetches apart; a restart forgets them.             *)
LEMMA FetchNext ==
  ASSUME FetchInv, [Next]_vars
  PROVE  FetchInv'
<1>1. CASE UNCHANGED accessVars
  BY <1>1, FetchStay DEF accessVars
<1>2. ASSUME NEW c \in Calls, CallStep(c) PROVE FetchInv'
  <2>1. CASE Refreshed(c)
    <3>1. CASE fetches' # fetches
      BY <2>1, <3>1, FetchStep
    <3>2. CASE fetches' = fetches
      <4>1. fetches' = Append(fetches, clock) => fetches' # fetches
        BY AppendProperties DEF FetchInv
      <4> QED
        BY <2>1, <3>2, <4>1, FetchStay DEF Refreshed
    <3> QED
      BY <3>1, <3>2
  <2>2. CASE ~Refreshed(c)
    <3>1. UNCHANGED <<lastFetch, fetches, clock>>
      BY <1>2, <2>2 DEF CallStep, ResolveMaster, ResolveKey, ResolveUser, Fetched, FetchFails, Mint, Delete,
         Audited, AuditFails, Answered
    <3> QED
      BY <3>1, FetchStay
  <2> QED
    BY <2>1, <2>2
<1>3. CASE \E c \in Calls, cred \in Credentials, s \in Asked, n \in Nodes \cup {Anywhere} :
             Request(c, cred, "mint", Nothing.key, s, n)
  BY <1>3, FetchStay DEF Request
<1>4. CASE \E c \in Calls, cred \in Credentials, k \in handed : Request(c, cred, "revoke", k, {}, Anywhere)
  BY <1>4, FetchStay DEF Request
<1>5. ASSUME NEW doc, BackendRestarts(doc) PROVE FetchInv'
  <2>1. fetches' = <<>> /\ lastFetch' = Never /\ clock' \in Nat /\ clock' >= MinInterval
    BY <1>5 DEF BackendRestarts, FetchInv
  <2>2. fetches' \in Seq(Nat) /\ Len(fetches') = 0
    BY <2>1, EmptySeq
  <2> QED
    BY <2>1, <2>2 DEF FetchInv, FetchesAreSpaced, Never
<1>6. CASE Ticks
  BY <1>6, FetchStay DEF Ticks
<1> QED
  BY <1>1, <1>2, <1>3, <1>4, <1>5, <1>6 DEF Next, vars

-----------------------------------------------------------------------------
(* Every step, of either service, keeps the identity service's invariant,  *)
(* and gives a role only where there is none.                              *)
LEMMA EveryStep ==
  ASSUME SessionsInv, [Next]_vars
  PROVE  /\ SessionsInv'
         /\ \A u, o \in Users : members'[u][o] # members[u][o] =>
              members[u][o] = "none" /\ (members'[u][o] = "owner" <=> u = o)
<1>1. CASE UNCHANGED sessionVars
  <2>1. members' = members
    BY <1>1 DEF sessionVars
  <2> QED
    BY <1>1, <2>1, SessionsStutter
<1>2. CASE \/ \E v \in Visits : Visit(v)
           \/ \E i \in DOMAIN tokens : Expire(i)
           \/ \E k \in SigningKeys : IdentityRestarts(k)
  BY <1>2, SessionsNext
<1> QED
  BY <1>1, <1>2 DEF Next, vars

(* The identity service keeps its invariant, whatever the backend does.    *)
LEMMA SessionsKept == Spec => []SessionsInv
<1>1. Init => SessionsInv
  BY InitSessions DEF Init
<1>2. SessionsInv /\ [Next]_vars => SessionsInv'
  BY EveryStep
<1> QED
  BY <1>1, <1>2, PTL DEF Spec

(* The backend keeps its own, with the access tokens the service issues.   *)
LEMMA KeysKept == Spec => []KeysInv
<1>1. SessionsInv /\ KeysInv /\ [Next]_vars => KeysInv'
  BY KeysNext DEF SessionsInv, PeopleInv
<1> QED
  BY <1>1, InitKeys, SessionsKept, PTL DEF Spec

(* Whatever two requests do between each other's transactions, a login has *)
(* at most one good refresh token, and none after its logout, unless two   *)
(* requests held its token at the same time (app.py, refresh and logout).  *)
THEOREM OneSessionPerLogin == Spec => []OnlyOverlapSplitsALogin
  BY SessionsKept, OneGoodToken, PTL

(* No step gives a role to who has one, or makes an owner of anyone but    *)
(* the founder (app.py, sign-up and add_member).                           *)
THEOREM FirstRoleIsKept == Spec => FirstRoleStands
<1>1. SessionsInv /\ [Next]_vars =>
        [\A u, o \in Users : members'[u][o] # members[u][o] =>
           members[u][o] = "none" /\ (members'[u][o] = "owner" <=> u = o)]_sessionVars
  BY EveryStep
<1> QED
  BY <1>1, SessionsKept, PTL DEF Spec, FirstRoleStands

(* A key never has a right its minter had not, nor its minter's minter,    *)
(* and every secret handed out and every revocation answered is in the     *)
(* credential log (routers/keys.py).                                       *)
THEOREM KeysAreKept == Spec => []KeysAreAccounted
  BY KeysKept, NarrowedTwice, PTL

(* However many requests name an unknown key, the documents are fetched an *)
(* interval apart (identity_client.py).                                    *)
THEOREM FetchesKeepApart == Spec => []FetchesAreSpaced
<1>1. Init => FetchInv
  BY NoFetches, AccessAssumption DEF Init
<1>2. FetchInv /\ [Next]_vars => FetchInv'
  BY FetchNext
<1>3. FetchInv => FetchesAreSpaced
  BY DEF FetchInv
<1> QED
  BY <1>1, <1>2, <1>3, PTL DEF Spec
=============================================================================
