----------------------------- MODULE DesiredRow -----------------------------
(***************************************************************************)
(* The data of the command channel: the desired_state row of one node, a   *)
(* request to write it, and the merge that makes the next row.             *)
(*                                                                         *)
(* `state` holds the value last written to each key; the request that      *)
(* wrote it stands for the value.  `by` is the signed command recorded     *)
(* behind each key: commands_json stores it as key -> signature beside     *)
(* signature -> command, and its commands are those in `by`.               *)
(***************************************************************************)
EXTENDS Naturals

CONSTANTS
  Req,    \* the HTTP requests that will be served; each writes its own value
  Key,    \* keys of the desired state
  None    \* no value, no request

ASSUME NoneAssumption == None \notin Req

NoCommand == [sig |-> None, version |-> 0]
Command == [sig: Req \cup {None}, version: Nat]

Row == [version: Nat,                    \* 0 when the node has no row
        state: [Key -> Req \cup {None}],
        by: [Key -> Command]]
NoRow == [version |-> 0,
          state |-> [k \in Key |-> None],
          by |-> [k \in Key |-> NoCommand]]

Job == [kind: {"none", "command", "cascade", "ack"},
        keys: SUBSET Key,          \* the keys of the delta, or the key acked
        expect: Nat,               \* the version a command was signed on top of
        signed: BOOLEAN,           \* a signature was verified and is recorded
        hasId: BOOLEAN,            \* the pending_excision it carries has an id
        consumed: Req \cup {None}] \* history: the value the node consumed
NoJob == [kind |-> "none", keys |-> {}, expect |-> 0, signed |-> FALSE,
          hasId |-> FALSE, consumed |-> None]

(* Definitions named Bug* are seeded faults: each stands for a definition  *)
(* that follows it in a mutation run, and no specification uses it.        *)

(* An ack pops its key; any other write gives each of its keys its value.  *)
Written(j, r) == IF j.kind = "ack" THEN None ELSE r

(* A signed write is recorded under every key it writes; an unsigned one   *)
(* and an ack leave their keys with no command.                            *)
Recorded(by, j, r, v) ==
  [k \in Key |-> IF k \notin j.keys THEN by[k]
                 ELSE IF j.signed THEN [sig |-> r, version |-> v] ELSE NoCommand]

Merge(old, j, r) ==
  [version |-> old.version + 1,
   state   |-> [k \in Key |-> IF k \in j.keys THEN Written(j, r) ELSE old.state[k]],
   by      |-> Recorded(old.by, j, r, old.version + 1)]
=============================================================================
