------------------------------ MODULE Sessions ------------------------------
(***************************************************************************)
(* The identity service (axor_identity/app.py, storage.py): accounts,       *)
(* organizations, memberships and refresh tokens, each request a sequence   *)
(* of transactions with nothing around them.  A sign-up founds one          *)
(* organization, named here by its founder.  An access token is a value the *)
(* holder keeps: [user, org, role, key], key the one that signed it.        *)
(***************************************************************************)
EXTENDS Naturals, Sequences, FiniteSets

CONSTANTS Users, Visits,      \* people, requests to the service
          SigningKeys

Roles == <<"viewer", "member", "admin", "owner">>
Assignable == {"admin", "member", "viewer"}
Rank(role) == CHOOSE i \in DOMAIN Roles : Roles[i] = role
RoleAtLeast(role, least) == Rank(role) >= Rank(least)

VARIABLES accounts,    \* users with a row
          orgs,        \* organizations with a row
          members,     \* [user -> [org -> role or "none"]]
          tokens,      \* refresh tokens in the order issued: [user, org, login, revoked, expired]
          visits,      \* request -> [op, stage, user, org, role, token]
          signing      \* the key this service signs with

(* For the properties: the access tokens handed out, logins in order,       *)
(* logins whose token was in two requests at once, logins ended by logout.  *)
VARIABLES access, logins, raced, ended

sessionNotes == <<access, logins, raced, ended>>
sessionVars == <<accounts, orgs, members, tokens, visits, signing, sessionNotes>>

Nobody == [op |-> "none", stage |-> "none", user |-> CHOOSE u \in Users : TRUE,
           org |-> CHOOSE u \in Users : TRUE, role |-> "none", token |-> 0]

SessionsInit ==
  /\ accounts = {} /\ orgs = {}
  /\ members = [u \in Users |-> [o \in Users |-> "none"]]
  /\ tokens = <<>>
  /\ visits = [v \in Visits |-> Nobody]
  /\ signing \in SigningKeys
  /\ access = {} /\ logins = 0 /\ raced = {} /\ ended = {}

InHand(v) == visits[v].stage # "none"
To(v, stage) == visits' = [visits EXCEPT ![v].stage = stage]
Leave(v) == visits' = [visits EXCEPT ![v] = Nobody]      \* answered or refused

(* The claims an access token of the caller makes, when its signature is of *)
(* the key in use.                                                          *)
Caller(t) == t \in access /\ t.key = signing

(* A request that is refused where it comes in changes nothing: its step is   *)
(* left out, and what refuses it is the guard of the one that goes on.        *)
(* ---- sign-up: four transactions ------------------------------------------ *)

Signup(v, u) ==
  /\ ~InHand(v)
  /\ u \notin accounts     \* 409
  /\ visits' = [visits EXCEPT ![v] = [Nobody EXCEPT !.op = "signup", !.stage = "user",
                                                     !.user = u, !.org = u, !.role = "owner"]]
  /\ UNCHANGED <<accounts, orgs, members, tokens, signing, sessionNotes>>

(* The unique email decides between two sign-ups: the second one fails.      *)
CreateUser(v) ==
  /\ visits[v].stage = "user"
  /\ IF visits[v].user \in accounts THEN Leave(v) ELSE To(v, "org")
  /\ accounts' = accounts \cup {visits[v].user}
  /\ UNCHANGED <<orgs, members, tokens, signing, sessionNotes>>

CreateOrg(v) ==
  /\ visits[v].stage = "org"
  /\ orgs' = orgs \cup {visits[v].org}
  /\ To(v, "owner")
  /\ UNCHANGED <<accounts, members, tokens, signing, sessionNotes>>

AddOwner(v) ==
  /\ visits[v].stage = "owner"
  /\ members' = [members EXCEPT ![visits[v].user][visits[v].org] = "owner"]
  /\ To(v, "issue")
  /\ UNCHANGED <<accounts, orgs, tokens, signing, sessionNotes>>

(* ---- login ----------------------------------------------------------------- *)

MembershipsOf(u) == {o \in orgs : members[u][o] # "none"}

(* _pick_org: the one asked for, or the only one.  A wrong password and an   *)
(* unknown email are refused alike (401).                                    *)
Picked(u, asked) ==
  IF asked # {} THEN MembershipsOf(u) \cap asked
  ELSE IF Cardinality(MembershipsOf(u)) = 1 THEN MembershipsOf(u) ELSE {}

Login(v, u, asked) ==
  /\ ~InHand(v)
  /\ u \in accounts
  /\ \E o \in Picked(u, asked) :
       visits' = [visits EXCEPT ![v] = [Nobody EXCEPT !.op = "login", !.stage = "issue",
                                          !.user = u, !.org = o, !.role = members[u][o]]]
  /\ UNCHANGED <<accounts, orgs, members, tokens, signing, sessionNotes>>

(* ---- refresh and logout ------------------------------------------------------ *)

Holding(i) == {v \in Visits : InHand(v) /\ visits[v].op \in {"refresh", "logout"} /\ visits[v].token = i}

Refresh(v, i) ==
  /\ ~InHand(v) /\ i \in DOMAIN tokens
  /\ ~tokens[i].revoked /\ ~tokens[i].expired     \* 401
  /\ visits' = [visits EXCEPT ![v] = [Nobody EXCEPT !.op = "refresh", !.stage = "subject", !.token = i,
                                                     !.user = tokens[i].user, !.org = tokens[i].org]]
  /\ raced' = IF Holding(i) # {} THEN raced \cup {tokens[i].login} ELSE raced
  /\ UNCHANGED <<accounts, orgs, members, tokens, signing, access, logins, ended>>

(* The subject is looked up again: the role is the one it has now.           *)
Subject(v) ==
  /\ visits[v].stage = "subject"
  /\ LET role == members[visits[v].user][visits[v].org]
     IN  IF role = "none" THEN Leave(v)
         ELSE visits' = [visits EXCEPT ![v].stage = "revoke", ![v].role = role]
  /\ UNCHANGED <<accounts, orgs, members, tokens, signing, sessionNotes>>

BugRevoke(v) ==      \* the presented token stays good
  /\ visits[v].stage = "revoke"
  /\ To(v, "issue")
  /\ UNCHANGED <<accounts, orgs, members, tokens, signing, sessionNotes>>

(* revoke_refresh: unconditional, whatever it finds.                          *)
Revoke(v) ==
  /\ visits[v].stage = "revoke"
  /\ tokens' = [tokens EXCEPT ![visits[v].token].revoked = TRUE]
  /\ To(v, "issue")
  /\ UNCHANGED <<accounts, orgs, members, signing, sessionNotes>>

Logout(v, i) ==
  /\ ~InHand(v) /\ i \in DOMAIN tokens
  /\ visits' = [visits EXCEPT ![v] = [Nobody EXCEPT !.op = "logout", !.stage = "logout", !.token = i]]
  /\ raced' = IF Holding(i) # {} THEN raced \cup {tokens[i].login} ELSE raced
  /\ UNCHANGED <<accounts, orgs, members, tokens, signing, access, logins, ended>>

LogoutDone(v) ==
  /\ visits[v].stage = "logout"
  /\ LET i == visits[v].token
     IN  /\ tokens' = [tokens EXCEPT ![i].revoked = TRUE]
         /\ ended' = IF tokens[i].revoked THEN ended ELSE ended \cup {tokens[i].login}
  /\ Leave(v)
  /\ UNCHANGED <<accounts, orgs, members, signing, access, logins, raced>>

(* _issue_session: the refresh token is stored, then both are answered.       *)
Issue(v) ==
  /\ visits[v].stage = "issue"
  /\ LET w == visits[v]
         login == IF w.op = "refresh" THEN tokens[w.token].login ELSE logins + 1
     IN  /\ tokens' = Append(tokens, [user |-> w.user, org |-> w.org, login |-> login,
                                      revoked |-> FALSE, expired |-> FALSE])
         /\ access' = access \cup {[user |-> w.user, org |-> w.org, role |-> w.role, key |-> signing]}
         /\ logins' = IF w.op = "refresh" THEN logins ELSE logins + 1
  /\ Leave(v)
  /\ UNCHANGED <<accounts, orgs, members, signing, raced, ended>>

(* ---- membership --------------------------------------------------------------- *)

AddMember(v, t, u, role) ==
  /\ ~InHand(v) /\ Caller(t) /\ role \in Assignable
  /\ RoleAtLeast(t.role, "admin") /\ u \in accounts /\ members[u][t.org] = "none"
  /\ visits' = [visits EXCEPT ![v] = [Nobody EXCEPT !.op = "member", !.stage = "member",
                                                     !.user = u, !.org = t.org, !.role = role]]
  /\ UNCHANGED <<accounts, orgs, members, tokens, signing, sessionNotes>>

BugMemberAdded(v) ==      \* the last of two additions wins
  /\ visits[v].stage = "member"
  /\ members' = [members EXCEPT ![visits[v].user][visits[v].org] = visits[v].role]
  /\ Leave(v)
  /\ UNCHANGED <<accounts, orgs, tokens, signing, sessionNotes>>

(* One role per user and organization: the second insert fails.               *)
MemberAdded(v) ==
  /\ visits[v].stage = "member"
  /\ IF members[visits[v].user][visits[v].org] = "none"
     THEN members' = [members EXCEPT ![visits[v].user][visits[v].org] = visits[v].role] /\ Leave(v)
     ELSE members' = members /\ Leave(v)
  /\ UNCHANGED <<accounts, orgs, tokens, signing, sessionNotes>>

(* ---- the calendar and the process ---------------------------------------------- *)

Expire(i) ==
  /\ i \in DOMAIN tokens /\ ~tokens[i].expired
  /\ tokens' = [tokens EXCEPT ![i].expired = TRUE]
  /\ UNCHANGED <<accounts, orgs, members, visits, signing, sessionNotes>>

(* A restart cuts the requests in hand; the key is the one configured now, or *)
(* a new one where none is.                                                    *)
IdentityRestarts(k) ==
  /\ visits' = [v \in Visits |-> Nobody]
  /\ signing' = k
  /\ UNCHANGED <<accounts, orgs, members, tokens, access, logins, raced, ended>>

VisitStep(v) ==
  \/ CreateUser(v) \/ CreateOrg(v) \/ AddOwner(v) \/ Subject(v) \/ Revoke(v) \/ LogoutDone(v)
  \/ Issue(v) \/ MemberAdded(v)

(* ------------------------------------------------------------------------------ *)

SessionsTypeOK ==
  /\ accounts \subseteq Users /\ orgs \subseteq Users
  /\ \A u, o \in Users : members[u][o] # "none" => u \in accounts /\ o \in orgs
  /\ \A i \in DOMAIN tokens : tokens[i].login \in 1..logins
  /\ signing \in SigningKeys

Live(login) == {i \in DOMAIN tokens : tokens[i].login = login /\ ~tokens[i].revoked}

(* Rotation keeps one session per login: at most one refresh token of a      *)
(* login is good at any time, and none once a logout revoked the good one,   *)
(* unless a request presented a token that another one had in hand: those    *)
(* read the token and revoke it in two transactions.                          *)
OnlyOverlapSplitsALogin ==
  /\ SessionsTypeOK
  /\ \A l \in 1..logins : l \notin raced =>
       /\ Cardinality(Live(l)) <= 1
       /\ l \in ended => Live(l) = {}

(* A role is given once: whoever adds whom, at the same time or while an        *)
(* organization is being founded, the first role stays, and the owner's is its  *)
(* founder's alone.                                                              *)
FirstRoleStands ==
  [][ \A u, o \in Users : members'[u][o] # members[u][o] =>
        members[u][o] = "none" /\ (members'[u][o] = "owner" <=> u = o) ]_sessionVars

(* Not kept: "the presented token is single-use" (app.py).                    *)
SingleUse == \A l \in 1..logins : Cardinality(Live(l)) <= 1

(* Not kept: a restart between the transactions of a sign-up leaves an email   *)
(* that can neither sign up (409) nor log in (403).                            *)
NobodyIsStranded ==
  \A u \in accounts :
    \/ MembershipsOf(u) # {}
    \/ \E v \in Visits : InHand(v) /\ visits[v].user = u
=============================================================================
