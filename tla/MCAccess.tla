------------------------------ MODULE MCAccess ------------------------------
(* One of four agendas at a time.                                           *)
EXTENDS Access, TLC
CONSTANTS u1, u2, s0, s1, s2, k1, k2, k3, c1, c2, v1, v2

VARIABLE agenda
mcVars == <<vars, agenda>>

MCBoot == {{s0, s1}}
MCAsked == {{"admin"}, {"read", "admin"}}

MCSymmetry == Permutations({v1, v2})

On(name) == agenda = name

(* People: two sign-ups and additions.  Sessions: one person's logins,       *)
(* refreshes and logouts.  Keys: one owner, three keys, one request mints     *)
(* and one revokes.  Rotation: logins under two signing keys.                 *)
MaxTokens == CASE On("people") -> 3 [] On("sessions") -> 3 [] On("keys") -> 1 [] OTHER -> 2

Ops == CASE On("people") -> {"signup", "login", "member"} [] On("sessions") -> {"signup", "login", "refresh", "logout"}
         [] OTHER -> {"signup", "login"}

Bounds ==
  /\ Len(tokens) <= MaxTokens
  /\ \A v \in Visits : visits[v].op \in Ops \cup {"none"} /\ visits[v].role # "member"
  /\ \A i \in DOMAIN tokens : tokens[i].expired => i = 1 /\ On("sessions")
  /\ On("people") \/ accounts \subseteq {u1}
  /\ On("people") \/ On("sessions") => \A c \in Calls : calls[c] = Nothing
  /\ On("keys") \/ On("rotation") => Cardinality({v \in Visits : InHand(v)}) <= 1
  /\ signing # s0
  /\ ~On("rotation") => clock = MinInterval /\ signing = s1 /\ document = {s1}
  /\ On("keys") => calls[c1].op # "revoke" /\ calls[c2].op # "mint"
                   /\ calls[c1].cred.kind # "master" /\ calls[c2].cred.kind # "key"
                   /\ (calls[c2].op = "revoke" => calls[c2].key = k1)
  /\ On("rotation") => /\ clock <= 2 + MinInterval /\ k2 \in Fresh
                       /\ \A c \in Calls : calls[c].stage = "none" \/ calls[c].cred.kind = "user"
                       /\ \A c \in Calls : /\ calls[c].op # "revoke" /\ calls[c].node = Anywhere
                                           /\ calls[c].scopes \subseteq {"admin"}

(* Keys are taken in order, the first from the owner; requests to one        *)
(* service wait for the other.                                               *)
Waits ==
  /\ k2 \in Fresh => k3 \in Fresh'
  /\ k1 \in Fresh => k2 \in Fresh'
  /\ Fresh = {} => \A c \in Calls : calls[c].op # "mint" => calls'[c].op # "mint"
  /\ \A c \in Calls : calls[c] = Nothing /\ calls'[c].op = "mint" /\ k1 \notin Fresh => calls'[c].cred.kind = "key"
  /\ (\E v \in Visits : InHand(v)) => accessVars' = accessVars

MCInit ==
  /\ agenda \in {"people", "sessions", "keys", "rotation"}
  /\ Init
  /\ signing = s1

MCSpec == MCInit /\ [][Next /\ UNCHANGED agenda /\ Bounds' /\ Waits]_mcVars
=============================================================================
