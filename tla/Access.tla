------------------------------- MODULE Access -------------------------------
(***************************************************************************)
(* Who may do what in the backend: the credential a request presents         *)
(* (security.py), the keys a login is verified with (identity_client.py) and *)
(* the API keys it mints and revokes (routers/keys.py), beside the identity  *)
(* service whose access tokens it accepts.                                   *)
(***************************************************************************)
EXTENDS Sessions

CONSTANTS Calls,         \* requests to the backend
          KeyIds, Nodes,
          Anywhere,      \* the binding of a key that is bound to no node
          Public,        \* the tenant of the master token
          Asked,         \* scope sets a caller asks a key for
          BootDocuments, \* the key documents a boot may be given
          MinInterval

ASSUME AccessAssumption ==
  /\ Anywhere \notin Nodes /\ Public \notin Users /\ MinInterval \in Nat
  /\ KeyIds \cap {"master", "user", "none"} = {}   \* `as` tells a key from another credential
  /\ \A d \in BootDocuments : d \subseteq SigningKeys
  /\ \A s \in Asked : s # {} /\ s \subseteq {"read", "ingest", "operate", "admin"}

SCOPES == {"read", "ingest", "operate", "admin"}

VARIABLES document,   \* the verifying keys held
          lastFetch, holder,   \* when the last fetch began, who holds the refresher's lock
          clock,
          keys,       \* key -> its row, or NoKey
          calls       \* request -> [stage, cred, op, key, scopes, node, who]

(* For the properties: rows of the credential log, secrets handed out, every *)
(* key ever minted with who minted it, revocations answered, times of fetches.*)
VARIABLES audit, handed, minted, revoked, fetches

accessVars == <<document, lastFetch, holder, clock, keys, calls, audit, handed, minted, revoked, fetches>>
vars == <<sessionVars, accessVars>>

NoKey == [scopes |-> {}, node |-> Anywhere, org |-> Public]
Nothing == [stage |-> "none", cred |-> [kind |-> "none"], op |-> "none", key |-> CHOOSE k \in KeyIds : TRUE,
            scopes |-> {}, node |-> Anywhere, who |-> NoKey, as |-> "none"]

Never == 0

Init ==
  /\ SessionsInit
  /\ document \in BootDocuments \cup {{signing}}
  /\ lastFetch = Never /\ holder = "free" /\ clock = MinInterval
  /\ keys = [k \in KeyIds |-> NoKey]
  /\ calls = [c \in Calls |-> Nothing]
  /\ audit = {} /\ handed = {} /\ minted = [k \in KeyIds |-> NoKey] /\ revoked = {} /\ fetches = <<>>

ScopesForRole(role) ==
  CASE role = "viewer" -> {"read"}
    [] role = "member" -> {"read", "ingest"}
    [] role = "admin"  -> {"read", "ingest", "operate"}
    [] role = "owner"  -> SCOPES
    [] OTHER           -> {}

Stored == {k \in KeyIds : keys[k] # NoKey}
Fresh == {k \in KeyIds : minted[k] = NoKey}

(* ---- the principal ----------------------------------------------------------- *)

Put(c, r) == calls' = [calls EXCEPT ![c] = r]
Over(c) == calls' = [calls EXCEPT ![c] = Nothing]      \* answered or refused
Reach(c, stage) == calls' = [calls EXCEPT ![c].stage = stage]

(* Past the middleware: the bar of /v1/keys is admin.                          *)
Gate(call, who, as) ==
  IF "admin" \in who.scopes THEN [call EXCEPT !.who = who, !.as = as, !.stage = "checking"] ELSE Nothing

UserPrincipal(t) == [scopes |-> ScopesForRole(t.role), node |-> Anywhere, org |-> t.org]

(* verify_access_token: the key the header names, or the only one there is,    *)
(* whose signature then does not match.                                        *)
Verdict(doc, t) ==
  IF t.key \in doc THEN "good" ELSE IF Cardinality(doc) = 1 THEN "bad" ELSE "unknown"

Request(c, cred, op, key, scopes, node) ==
  /\ calls[c].stage = "none"
  /\ Put(c, [Nothing EXCEPT !.stage = "resolving", !.cred = cred, !.op = op, !.key = key,
                            !.scopes = scopes, !.node = node])
  /\ UNCHANGED <<document, lastFetch, holder, clock, keys, audit, handed, minted, revoked, fetches>>

ResolveMaster(c) ==
  /\ calls[c].stage = "resolving" /\ calls[c].cred.kind = "master"
  /\ Put(c, Gate(calls[c], [scopes |-> SCOPES, node |-> Anywhere, org |-> Public], "master"))
  /\ UNCHANGED <<document, lastFetch, holder, clock, keys, audit, handed, minted, revoked, fetches>>

ResolveKey(c) ==
  /\ calls[c].stage = "resolving" /\ calls[c].cred.kind = "key"
  /\ LET k == calls[c].cred.id
     IN  IF k \in Stored THEN Put(c, Gate(calls[c], keys[k], k)) ELSE Over(c)
  /\ UNCHANGED <<document, lastFetch, holder, clock, keys, audit, handed, minted, revoked, fetches>>

ResolveUser(c) ==
  /\ calls[c].stage = "resolving" /\ calls[c].cred.kind = "user"
  /\ LET t == calls[c].cred.token
         v == Verdict(document, t)
     IN  IF v = "good" THEN Put(c, Gate(calls[c], UserPrincipal(t), "user"))
         ELSE IF v = "bad" THEN Over(c) ELSE Reach(c, "unknown")
  /\ UNCHANGED <<document, lastFetch, holder, clock, keys, audit, handed, minted, revoked, fetches>>

BugRefreshed(c) ==     \* measures the interval before waiting for the lock
  /\ calls[c].stage = "unknown" /\ holder = "free"
  /\ lastFetch' = clock /\ holder' = c /\ fetches' = Append(fetches, clock)
  /\ Reach(c, "fetching")
  /\ UNCHANGED <<document, clock, keys, audit, handed, minted, revoked>>

(* refreshed: one at a time, one per interval; who waited for another's fetch  *)
(* finds the interval running.                                                 *)
Refreshed(c) ==
  /\ calls[c].stage = "unknown" /\ holder = "free"
  /\ IF lastFetch # Never /\ clock - lastFetch < MinInterval
     THEN Over(c) /\ UNCHANGED <<lastFetch, holder, fetches>>
     ELSE /\ lastFetch' = clock /\ holder' = c /\ fetches' = Append(fetches, clock)
          /\ Reach(c, "fetching")
  /\ UNCHANGED <<document, clock, keys, audit, handed, minted, revoked>>

(* What identity publishes now is its one key.                                 *)
Fetched(c) ==
  /\ calls[c].stage = "fetching"
  /\ document' = {signing}
  /\ holder' = "free"
  /\ LET t == calls[c].cred.token
     IN  IF Verdict({signing}, t) = "good" THEN Put(c, Gate(calls[c], UserPrincipal(t), "user"))
         ELSE Over(c)
  /\ UNCHANGED <<lastFetch, clock, keys, audit, handed, minted, revoked, fetches>>

FetchFails(c) ==
  /\ calls[c].stage = "fetching"
  /\ holder' = "free"
  /\ Over(c)
  /\ UNCHANGED <<document, lastFetch, clock, keys, audit, handed, minted, revoked, fetches>>

(* ---- mint --------------------------------------------------------------------- *)

Delegable(who, scopes, node) ==
  /\ scopes \subseteq who.scopes
  /\ who.node # Anywhere => node \in {Anywhere, who.node}

BugBoundTo(who, node) == IF who.node = Anywhere THEN node ELSE node   \* who asks for none gets none

BoundTo(who, node) == IF who.node = Anywhere THEN node ELSE who.node

(* The check and the id are the handler's own; the row is one transaction.      *)
Mint(c) ==
  /\ calls[c].stage = "checking" /\ calls[c].op = "mint"
  /\ LET who == calls[c].who
         row == [scopes |-> calls[c].scopes, node |-> BoundTo(who, calls[c].node), org |-> who.org]
     IN  IF Delegable(who, calls[c].scopes, calls[c].node)
         THEN \E k \in Fresh :
                /\ keys' = [keys EXCEPT ![k] = row]
                /\ minted' = [minted EXCEPT ![k] = [scopes |-> row.scopes, node |-> row.node, org |-> row.org,
                                                    as |-> calls[c].as, by |-> who]]
                /\ Put(c, [calls[c] EXCEPT !.stage = "auditing", !.key = k])
         ELSE Over(c) /\ UNCHANGED <<keys, minted>>
  /\ UNCHANGED <<document, lastFetch, holder, clock, audit, handed, revoked, fetches>>

(* ---- revoke: this tenant's key, or 404 --------------------------------------- *)

Delete(c) ==
  /\ calls[c].stage = "checking" /\ calls[c].op = "revoke"
  /\ LET k == calls[c].key
         mine == k \in Stored /\ keys[k].org = calls[c].who.org
     IN  /\ keys' = IF mine THEN [keys EXCEPT ![k] = NoKey] ELSE keys
         /\ IF mine THEN Reach(c, "auditing") ELSE Over(c)
  /\ UNCHANGED <<document, lastFetch, holder, clock, audit, handed, minted, revoked, fetches>>

Audited(c) ==
  /\ calls[c].stage = "auditing"
  /\ audit' = audit \cup {<<calls[c].op, calls[c].key>>}
  /\ Reach(c, "answering")
  /\ UNCHANGED <<document, lastFetch, holder, clock, keys, handed, minted, revoked, fetches>>

(* The row is refused: the answer is a 500, and what was stored stays.          *)
AuditFails(c) ==
  /\ calls[c].stage = "auditing"
  /\ Over(c)
  /\ UNCHANGED <<document, lastFetch, holder, clock, keys, audit, handed, minted, revoked, fetches>>

(* The secret is in the answer and nowhere else.                                *)
Answered(c) ==
  /\ calls[c].stage = "answering"
  /\ handed' = IF calls[c].op = "mint" THEN handed \cup {calls[c].key} ELSE handed
  /\ revoked' = IF calls[c].op = "revoke" THEN revoked \cup {calls[c].key} ELSE revoked
  /\ Over(c)
  /\ UNCHANGED <<document, lastFetch, holder, clock, keys, audit, minted, fetches>>

BackendRestarts(doc) ==
  /\ calls' = [c \in Calls |-> Nothing]
  /\ document' = doc /\ lastFetch' = Never /\ holder' = "free" /\ fetches' = <<>>
  /\ UNCHANGED <<clock, keys, audit, handed, minted, revoked>>

Ticks == clock' = clock + 1
         /\ UNCHANGED <<document, lastFetch, holder, keys, calls, audit, handed, minted, revoked, fetches>>

CallStep(c) ==
  \/ ResolveMaster(c) \/ ResolveKey(c) \/ ResolveUser(c) \/ Refreshed(c) \/ Fetched(c) \/ FetchFails(c)
  \/ Mint(c) \/ Delete(c) \/ Audited(c) \/ AuditFails(c) \/ Answered(c)

Credentials ==
  {[kind |-> "master"]} \cup {[kind |-> "key", id |-> k] : k \in handed}
  \cup {[kind |-> "user", token |-> t] : t \in access}

(* What people do with the identity service.                                     *)
Visit(v) ==
  \/ \E u \in Users : Signup(v, u) \/ \E asked \in {{}} \cup {{o} : o \in Users} : Login(v, u, asked)
  \/ \E i \in DOMAIN tokens : Refresh(v, i) \/ Logout(v, i)
  \/ \E t \in access, u \in Users, role \in Assignable : AddMember(v, t, u, role)
  \/ VisitStep(v)

Next ==
  \/ /\ UNCHANGED accessVars
     /\ \/ \E v \in Visits : Visit(v)
        \/ \E i \in DOMAIN tokens : Expire(i)
        \/ \E k \in SigningKeys : IdentityRestarts(k)
  \/ /\ UNCHANGED sessionVars
     /\ \/ \E c \in Calls : CallStep(c)
        \/ \E c \in Calls, cred \in Credentials, s \in Asked, n \in Nodes \cup {Anywhere} :
             Request(c, cred, "mint", Nothing.key, s, n)
        \/ \E c \in Calls, cred \in Credentials, k \in handed : Request(c, cred, "revoke", k, {}, Anywhere)
        \/ \E doc \in BootDocuments \cup {{signing}} : BackendRestarts(doc)
        \/ Ticks

Spec == Init /\ [][Next]_vars

(* ------------------------------------------------------------------------------- *)

Roots(k) == IF minted[k].as \in KeyIds THEN {minted[k].as} ELSE {}

(* A key narrows: whoever minted it, and whoever minted that, held every scope   *)
(* it has, was of its organization, and, where bound to a node, bound it to the  *)
(* same one.  A mint under way when its own key is revoked is held to the same.  *)
KeysNarrow ==
  \A k \in KeyIds \ Fresh :
    /\ minted[k].scopes \subseteq minted[k].by.scopes
    /\ minted[k].org = minted[k].by.org
    /\ minted[k].by.node # Anywhere => minted[k].node = minted[k].by.node
    /\ \A p \in Roots(k) : \A q \in {p} \cup Roots(p) :
         /\ minted[k].scopes \subseteq minted[q].scopes
         /\ minted[k].org = minted[q].org
         /\ minted[q].node \in {Anywhere, minted[k].node}

(* Whoever holds a secret holds one the credential log says was minted, and a    *)
(* revocation that was answered is in it too, over failing rows and restarts; a  *)
(* revoked key is never back.                                                    *)
UsableIsAudited ==
  /\ \A k \in handed : <<"mint", k>> \in audit
  /\ \A k \in revoked : <<"revoke", k>> \in audit /\ k \notin Stored
  /\ \A a \in audit : minted[a[2]] # NoKey

(* Every key is accounted for: by the log, and by a minter with its rights.      *)
KeysAreAccounted == KeysNarrow /\ UsableIsAudited

(* Refetches are an interval apart, however many requests name an unknown key.   *)
FetchesAreSpaced ==
  \A i \in 1..Len(fetches) - 1 : fetches[i + 1] - fetches[i] >= MinInterval

(* Not kept: "one row per credential-lifecycle act": the row follows the act in  *)
(* a transaction of its own.                                                     *)
EveryActIsAudited ==
  \A k \in KeyIds \ Fresh :
    <<"mint", k>> \in audit \/ \E c \in Calls : calls[c].key = k /\ calls[c].stage = "auditing"

(* Not kept: a rotation is followed by a refetch (JwksRefresher): a document of  *)
(* one key never answers "unknown".                                              *)
RotationIsFollowed ==
  [][\A c \in Calls : calls[c].stage = "resolving" /\ calls'[c].stage = "none" /\ calls[c].cred.kind = "user" =>
       calls[c].cred.token.key # signing \/ lastFetch # Never]_vars
=============================================================================
