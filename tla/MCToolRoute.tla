---------------------------- MODULE MCToolRoute ----------------------------
(* Two calls, a claim and three registrations on a run with a fault that    *)
(* needs its upstream on the second call of the HTTP tool, and one that     *)
(* needs none on the second call of the stdio tool.                          *)
EXTENDS ToolRoute
CONSTANTS c1, c2, k1, r1, web, mcp, g1, g2, s1, s2, s3, u1, u2, auth, apikey
MCFaults == [r \in Runs |->
  <<[tool |-> web, mode |-> "content_swap", index |-> 1],
    [tool |-> mcp, mode |-> "silent_fail", index |-> 1]>>]
MCWriters == Calls \cup Claims
MCOffers == [g \in Registrations |->
  CASE g = g1 -> {<<mcp, s1>>, <<web, u2>>}
    [] g = g2 -> {<<mcp, s2>>}
    [] OTHER -> {<<mcp, s3>>, <<web, s3>>}]
MCCarries == [c \in Calls |-> IF c = c1 THEN {auth} ELSE {auth, apikey}]
MCScript == <<c1, c2>>
MCStarted == [t \in Tools |-> IF t = web THEN u1 ELSE NoUpstream]

(* Bounds: a claim and a registration, which share nothing, do not meet;    *)
(* only the first call comes when nothing is armed; a second run is started *)
(* when the claim on the first has been answered, and takes no call; the    *)
(* registrations g2 and g3 come after g1, and meet one call at most; a      *)
(* server ends by itself only while a call waits for it; the vault enrolled *)
(* what it gives the first call under Authorization.                        *)
Apart ==
  /\ \/ \A k \in Claims : kpc[k] = "idle"
     \/ \A g \in Registrations : gpc[g] = "idle"
  /\ loc[c1].cred # NoUpstream => loc[c1].header = auth
  /\ armed = <<>> => \A c \in Calls : answer[c] = 503 => c = c1
  /\ gpc[g1] # "ended" => \A g \in Registrations \ {g1} : gpc[g] = "idle"
  /\ (\E g \in Registrations \ {g1, g2} : gpc[g] # "idle") => pc[c2] = "idle"
  /\ started \ {r1} # {} =>
       /\ r1 \in started
       /\ \A k \in Claims : kpc[k] = "ended"
       /\ \A c \in Calls : loc[c].run \in {NoRun, r1}
ExitMeetsACall ==
  \A s \in alive \ alive' :
    \/ \E g \in Registrations : gpc'[g] # gpc[g]
    \/ \E c \in Calls : pc[c] = "rpc" /\ loc[c].up = s
MCSpec == Init /\ [][Next /\ Apart' /\ ExitMeetsACall]_vars /\ Fairness
=============================================================================
