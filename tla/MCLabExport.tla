---------------------------- MODULE MCLabExport ----------------------------
(* Two tools that return values, one that sends them away.  Runs of at most  *)
(* four events, of which at most one is refused while it is read.            *)
EXTENDS LabExport, TLC
CONSTANTS mail, digest, post, r1, r2, n1, n2

MaxEvents == 4

Root(tainted) == [tainted |-> tainted, sensitive |-> FALSE]
NoArgs == [a \in Args |-> NoRef]
Nothing == [a \in Args |-> Unrecorded]
First(ref) == [NoArgs EXCEPT ![1] = ref]
Second(root) == [Nothing EXCEPT ![2] = root]

CallEvent(t, verdict, refs, declared, provenance, root, floor) ==
  [kind |-> "tool_call", node |-> n1, tool |-> t, verdict |-> verdict, refs |-> refs, declared |-> declared,
   provenance |-> provenance, egress |-> t = post, root |-> root, floor |-> floor, complete |-> TRUE]

Result(t, ref, tainted) ==
  [kind |-> "tool_result", node |-> n1, tool |-> t, ref |-> ref, root |-> Root(tainted)]

MCGate(egress, root, floor) == egress /\ (root.tainted \/ root.sensitive \/ floor)

Reads == {CallEvent(t, "pass", refs, {}, Nothing, Root(FALSE), FALSE) :
            t \in {mail, digest}, refs \in {NoArgs, First(r1)}}
Sends == {CallEvent(post, v, First(ref), {}, Nothing, root, FALSE) :
            v \in {"pass", "deny"}, ref \in {r1, r2}, root \in {Unrecorded, Root(FALSE)}}
Composes ==
  {CallEvent(post, v, NoArgs, {2}, Second(Root(tainted)), Unrecorded, FALSE) : v \in {"pass", "deny"}, tainted \in BOOLEAN}
  \cup {CallEvent(post, v, First(r1), {2}, Second(Root(FALSE)), Unrecorded, TRUE) : v \in {"pass", "deny"}}
Odd == { CallEvent(post, "none", First(r1), {}, Nothing, Unrecorded, FALSE),
         CallEvent(post, "deny", NoArgs, {}, Nothing, Root(TRUE), FALSE),
         [CallEvent(post, "deny", First(r1), {}, Nothing, Unrecorded, FALSE) EXCEPT !.complete = FALSE] }

MCCalls == Reads \cup Sends \cup Composes \cup Odd
MCResults == {Result(t, r, tainted) : t \in {mail, digest}, r \in {r1, r2}, tainted \in BOOLEAN}
             \cup {[Result(mail, NoRef, TRUE) EXCEPT !.node = n2]}
MCOthers == {[kind |-> "message_sent", node |-> n2, verdict |-> v] : v \in {"none", "deny"}}
            \cup {[kind |-> k, node |-> n2, verdict |-> "none"] : k \in {"node_spawned", "resource"}}

(* r1 is returned first; one event that carries no value; a refusal ends it. *)
Bounds ==
  /\ Len(recorded) <= MaxEvents
  /\ r2 \in Ids => r1 \in Ids
  /\ Cardinality({i \in DOMAIN recorded : recorded[i].node = n2}) <= 1
  /\ \A i \in DOMAIN recorded : recorded[i].node = n2 => \A j \in 1 .. (i - 1) : recorded[j].tool # post

Waits == reasons # {} => recorded' = recorded

MCSpec == Init /\ [][Next /\ Bounds' /\ Waits]_vars
=============================================================================
