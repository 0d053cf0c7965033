------------------------------ MODULE LabExport ------------------------------
(***************************************************************************)
(* lab_export.py: one recorded run converted into an incident package of   *)
(* the Lab, or refused with every reason.  The converter reads the kernel  *)
(* events once, in the order they were stored (_scan), and then derives    *)
(* everything else from what it has read (build_incident_package).  The    *)
(* run is any sequence of recorded events; what a kernel records of a      *)
(* value is whether its root has sources and whether it is sensitive.      *)
(***************************************************************************)
EXTENDS Integers, Sequences, FiniteSets, FiniteSetsExt, SequencesExt

CONSTANTS
  CallEvents,         \* the tool_call events a run may hold
  ResultEvents,       \* its tool_result events
  OtherEvents,        \* its messages, spawns and events of another kind
  Refs,               \* the value refs producers record
  Args,               \* argument names, numbered in their sorted order
  Tools, Nodes,
  NoTool, NoRef,      \* a value the model composed; a result without a ref
  Unrecorded,         \* a call without driving_root, an argument without provenance
  NoDrivingArgs, Unresolved,  \* driving_unresolved: no driving value, and why
  TaintGate(_, _, _)  \* axor_core: does the floor deny (egress, root, floor)?

Roots == [tainted : BOOLEAN, sensitive : BOOLEAN]

(* A call's arguments and the values they are bound to, NoRef for none. *)
Bindings(S) == [Args -> S \cup {NoRef}]
Given(refs) == {a \in Args : refs[a] # NoRef}
Used(refs) == {refs[a] : a \in Given(refs)}

ASSUME EventsAssumption ==
  /\ Args \subseteq Nat /\ NoTool \notin Tools /\ NoRef \notin Refs
  /\ \A r \in Refs : r \notin Nat \X Args   \* no recorded ref is one the converter mints
  /\ \A e \in CallEvents :
       /\ e.kind = "tool_call" /\ e.node \in Nodes /\ e.tool \in Tools
       /\ e.verdict \in {"pass", "deny", "none"}
       /\ e.refs \in Bindings(Refs) /\ e.provenance \in [Args -> Roots \cup {Unrecorded}]
       /\ e.declared \in SUBSET Args
       /\ e.egress \in BOOLEAN /\ e.complete \in BOOLEAN /\ e.floor \in BOOLEAN
       /\ e.root \in Roots \cup {Unrecorded}
  /\ \A e \in ResultEvents :
       /\ e.kind = "tool_result" /\ e.node \in Nodes /\ e.tool \in Tools
       /\ e.ref \in Refs \cup {NoRef} /\ e.root \in Roots
  /\ \A e \in OtherEvents : e.node \in Nodes /\ e.kind \notin {"tool_call", "tool_result"}

VARIABLES
  recorded,   \* the events read so far
  calls,      \* _Call, in order
  values,     \* _Value by id: the ledger
  plan,       \* the trace events planned
  last_call,  \* node -> index of its last call, 0 when it made none
  reasons,    \* why the run is refused
  package     \* NotYet, Refused, or what was exported
vars == <<recorded, calls, values, plan, last_call, reasons, package>>

NotYet == [outcome |-> "none"]

Init ==
  /\ recorded = <<>> /\ calls = <<>> /\ plan = <<>>
  /\ values = [v \in {} |-> NoRef]
  /\ last_call = [n \in Nodes |-> 0]
  /\ reasons = {}
  /\ package = NotYet

-----------------------------------------------------------------------------
(* The scan.  Every event is numbered by its place in the run, which its     *)
(* node and sequence number identify.                                       *)
Now == Len(recorded) + 1
Ids == DOMAIN values

Untrusted(v) == values[v].root.tainted
LiveUntrusted == {v \in Ids : Untrusted(v)}

(* Driving arguments the call declares and the model composed: a recorded    *)
(* provenance and no ref.  Event and argument name the value, as long as no  *)
(* node, number and argument run together into those of another.             *)
Composed(e) == {a \in e.declared \ Given(e.refs) : e.provenance[a] # Unrecorded}
Minted(e) == {<<Now, a>> : a \in Composed(e)}
ModelValue(e, a) ==
  [tool |-> NoTool, root |-> e.provenance[a], content |-> Now, at |-> Now,
   from |-> IF e.provenance[a].tainted THEN LiveUntrusted ELSE {}]

(* The first concrete use of a value is its recorded content. *)
Bind(e) ==
  [v \in Ids |-> IF values[v].content = 0 /\ v \in Used(e.refs)
                 THEN [values[v] EXCEPT !.content = Now] ELSE values[v]]

ArgRefs(e) == [a \in Args |-> IF a \in Composed(e) THEN <<Now, a>> ELSE e.refs[a]]

BugUnknown(e) == {}

Unknown(e) == {a \in Given(e.refs) : e.refs[a] \notin Ids}

Call(e) ==
  [node |-> e.node, tool |-> e.tool, refs |-> ArgRefs(e), verdict |-> e.verdict, egress |-> e.egress,
   declared |-> e.declared, root |-> e.root, floor |-> e.floor, complete |-> e.complete, at |-> Now]

Planned(node, type, call, produces) == [node |-> node, type |-> type, call |-> call, produces |-> produces]

Read(e) == package = NotYet /\ recorded' = Append(recorded, e)

Refuse(why) == reasons' = reasons \cup why

(* A call nobody judged cannot be replayed. *)
ScanObservation(e) ==
  /\ Read(e) /\ e.verdict = "none"
  /\ Refuse({<<"no verdict", Now>>})
  /\ UNCHANGED <<calls, values, plan, last_call, package>>

ScanCall(e) ==
  /\ Read(e) /\ e.verdict # "none"
  /\ calls' = Append(calls, Call(e))
  /\ values' = [v \in Ids \cup Minted(e) |-> IF v \in Ids THEN Bind(e)[v] ELSE ModelValue(e, v[2])]
  /\ plan' = plan \o << Planned(e.node, "tool_call_intent", Len(calls) + 1, {}),
                        Planned(e.node, "gate_decision", Len(calls) + 1, {}) >>
  /\ last_call' = [last_call EXCEPT ![e.node] = Len(calls) + 1]
  /\ Refuse({<<"unknown ref", Now, a>> : a \in Unknown(e)})
  /\ UNCHANGED package

(* What the node's last call used, when that call was of the same tool. *)
DerivedFrom(e) ==
  LET c == last_call[e.node] IN
  IF c # 0 /\ calls[c].tool = e.tool
  THEN Used(calls[c].refs) \cap Ids ELSE {}

ToolValue(e) == [tool |-> e.tool, root |-> e.root, content |-> 0, at |-> Now, from |-> DerivedFrom(e)]

ScanReminted(e) ==
  /\ Read(e) /\ e.ref # NoRef /\ e.ref \in Ids
  /\ Refuse({<<"reminted", Now>>})
  /\ UNCHANGED <<calls, values, plan, last_call, package>>

ScanResult(e) ==
  /\ Read(e) /\ (e.ref = NoRef \/ e.ref \notin Ids)
  /\ LET produced == {e.ref} \ {NoRef} IN
     /\ values' = [v \in Ids \cup produced |-> IF v \in Ids THEN values[v] ELSE ToolValue(e)]
     /\ plan' = Append(plan, Planned(e.node, "tool_result", 0, produced))
  /\ UNCHANGED <<calls, last_call, reasons, package>>

TraceType(e) ==
  CASE e.kind = "message_sent" -> "message_send" [] e.kind = "message_received" -> "message_recv" [] OTHER -> "spawn"

Representable(e) ==
  \/ e.kind \in {"message_sent", "message_received"} /\ e.verdict # "deny"
  \/ e.kind = "node_spawned"

ScanOther(e) ==
  /\ Read(e)
  /\ IF Representable(e)
     THEN plan' = Append(plan, Planned(e.node, TraceType(e), 0, {})) /\ UNCHANGED reasons
     ELSE Refuse({<<"no representation", Now>>}) /\ UNCHANGED plan
  /\ UNCHANGED <<calls, values, last_call, package>>

Scan ==
  \/ \E e \in CallEvents : ScanObservation(e) \/ ScanCall(e)
  \/ \E e \in ResultEvents : ScanReminted(e) \/ ScanResult(e)
  \/ \E e \in OtherEvents : ScanOther(e)

-----------------------------------------------------------------------------
(* The tool table. *)
CallsOf(t) == {i \in DOMAIN calls : calls[i].tool = t}
ResultsOf(t) == {v \in Ids : values[v].tool = t}
ToolTable == {calls[i].tool : i \in DOMAIN calls} \cup ({values[v].tool : v \in Ids} \ {NoTool})

Egress(t) == \E i \in CallsOf(t) : calls[i].egress
DrivingOf(c) == IF c.declared # {} THEN c.declared ELSE Given(c.refs)
Driving(t) == UNION {DrivingOf(calls[i]) : i \in {j \in CallsOf(t) : calls[j].egress}}
Enters(v) == values[v].from = {}
UntrustedSource(t) == \E v \in ResultsOf(t) : Enters(v) /\ Untrusted(v)
SensitiveSource(t) == \E v \in ResultsOf(t) : Enters(v) /\ values[v].root.sensitive

Manifest(t) ==
  [egress |-> Egress(t), driving |-> Driving(t), result |-> ResultsOf(t) # {},
   untrusted |-> UntrustedSource(t), sensitive |-> SensitiveSource(t)]

BugOriginSources(v) == IF Untrusted(v) THEN {values[v].tool} ELSE {}

(* Where the taint of v entered: the walk back along derived_from, stopped   *)
(* at trusted values and at those already seen.  What it has seen when its   *)
(* stack is empty is the least set that holds v and the parents of each of   *)
(* its untrusted values.                                                    *)
ClosedFrom(v) == {S \in SUBSET Ids : v \in S /\ \A u \in S \cap LiveUntrusted : values[u].from \cap Ids \subseteq S}
Seen(v) == {w \in Ids : \A S \in ClosedFrom(v) : w \in S}

OriginSources(v) == {values[w].tool : w \in {u \in Seen(v) : Untrusted(u) /\ Enters(u)}} \ {NoTool}

-----------------------------------------------------------------------------
(* The decisions, made again. *)
DrivingBinding(c) ==
  IF Driving(c.tool) = {} THEN NoDrivingArgs
  ELSE LET first == Min(Driving(c.tool)) IN
       IF first \in Given(c.refs) THEN c.refs[first] ELSE Unresolved

DrivingValues(c) == {c.refs[a] : a \in Driving(c.tool)} \cap Ids

RecordedRoot(c) ==
  IF c.root # Unrecorded THEN c.root
  ELSE [tainted |-> \E v \in DrivingValues(c) : Untrusted(v),
        sensitive |-> \E v \in DrivingValues(c) : values[v].root.sensitive]

KernelDecide(c) ==
  [verdict |-> IF TaintGate(Egress(c.tool), RecordedRoot(c), c.floor) THEN "deny" ELSE "pass",
   driving |-> DrivingBinding(c)]

Undecidable == {<<"incomplete", calls[i].at>> : i \in {j \in DOMAIN calls : ~calls[j].complete}}
Mismatched ==
  {<<"verdict", calls[i].at>> :
    i \in {j \in DOMAIN calls : calls[j].complete /\ KernelDecide(calls[j]).verdict # calls[j].verdict}}
DecideAll == Undecidable \cup Mismatched

NoVector == IF \E t \in ToolTable : UntrustedSource(t) THEN {} ELSE {<<"no untrusted source">>}

BugUsableSinks == {t \in ToolTable : Egress(t)}

UsableSinks == {t \in ToolTable : Egress(t) /\ Driving(t) # {}}

NoSink ==
  IF ~\E t \in ToolTable : Egress(t) THEN {<<"no egress">>}
  ELSE IF UsableSinks = {} THEN {<<"no driving argument">>} ELSE {}

-----------------------------------------------------------------------------
(* What leaves. *)
SinkCalls == {i \in DOMAIN calls : calls[i].tool \in {t \in ToolTable : Egress(t) /\ Driving(t) # {}}}
ViolationCall ==
  LET denied == {i \in SinkCalls : calls[i].verdict = "deny"} IN
  IF denied # {} THEN Min(denied) ELSE Min(SinkCalls)

SuccessTool ==
  LET harmless == {i \in DOMAIN calls : ~Egress(calls[i].tool)} IN
  IF harmless # {} THEN calls[Min(harmless)].tool ELSE calls[ViolationCall].tool

Scenario ==
  LET sink == calls[ViolationCall].tool IN
  [tools |-> ToolTable, fixtures |-> {t \in ToolTable : UntrustedSource(t)},
   violation |-> [tool |-> sink, driving |-> Min(Driving(sink))], success |-> SuccessTool]

LedgerRow(v) ==
  [untrusted |-> Untrusted(v), sensitive |-> values[v].root.sensitive, sources |-> OriginSources(v),
   content |-> values[v].content, from |-> values[v].from, composed |-> values[v].tool = NoTool]

(* seq counts the node's trace events from 0; an intent and its decision     *)
(* share the call's number.                                                  *)
TraceEvent(i) ==
  LET p == plan[i] IN
  [seq |-> Cardinality({j \in 1 .. (i - 1) : plan[j].node = p.node}),
   node |-> p.node, type |-> p.type, call |-> p.call, produces |-> p.produces,
   bindings |-> IF p.call # 0 THEN calls[p.call].refs ELSE [a \in Args |-> NoRef],
   decision |-> IF p.type = "gate_decision" THEN KernelDecide(calls[p.call]) ELSE <<>>]

Export ==
  [outcome |-> "exported", scenario |-> Scenario,
   manifests |-> [t \in ToolTable |-> Manifest(t)],
   events |-> [i \in DOMAIN plan |-> TraceEvent(i)],
   ledger |-> [v \in Ids |-> LedgerRow(v)]]

(* build_incident_package, after the scan.  Scenario synthesis raises when   *)
(* no sink is left for the violation to name.                                *)
Convert ==
  /\ package = NotYet
  /\ LET all == IF recorded = <<>> THEN {<<"no kernel events">>} ELSE reasons \cup NoVector \cup NoSink \cup DecideAll IN
     /\ reasons' = reasons \cup all
     /\ package' = IF all # {} THEN [outcome |-> "refused"]
                   ELSE IF SinkCalls = {} THEN [outcome |-> "internal"] ELSE Export
  /\ UNCHANGED <<recorded, calls, values, plan, last_call>>

Next == Scan \/ Convert
Spec == Init /\ [][Next]_vars

-----------------------------------------------------------------------------
(* The ledger while it is built: every planned event names calls and values  *)
(* that are there, a binding that does not resolve has refused the run, and  *)
(* a value is derived only from values minted before it, so the walk to its  *)
(* roots ends [_scan, _model_values]; and what leaves binds no argument to a  *)
(* value its ledger does not hold.                                          *)
Exported == package.outcome = "exported"

MintedIds == Nat \X Args
ValueRecord == [tool : Tools \cup {NoTool}, root : Roots, content : Nat, at : Nat, from : SUBSET Ids]
CallRecord ==
  [node : Nodes, tool : Tools, refs : Bindings(Refs \cup MintedIds), verdict : {"pass", "deny"},
   egress : BOOLEAN, declared : SUBSET Args, root : Roots \cup {Unrecorded}, floor : BOOLEAN,
   complete : BOOLEAN, at : Nat]
TraceTypes == {"tool_call_intent", "gate_decision", "tool_result", "message_send", "message_recv", "spawn"}
PlanRecord == [node : Nodes, type : TraceTypes, call : Nat, produces : SUBSET Refs]

TypeOK ==
  /\ recorded \in Seq(CallEvents \cup ResultEvents \cup OtherEvents)
  /\ calls \in Seq(CallRecord) /\ plan \in Seq(PlanRecord)
  /\ \A v \in Ids : values[v] \in ValueRecord
  /\ last_call \in [Nodes -> 0 .. Len(calls)]

ParentsAreEarlier ==
  \A v \in Ids : values[v].at <= Len(recorded) /\ \A p \in values[v].from : values[p].at < values[v].at

BindingsResolve ==
  \A i \in DOMAIN calls : Used(calls[i].refs) \subseteq Ids \/ \E r \in reasons : r[1] = "unknown ref"

PlanResolves ==
  \A i \in DOMAIN plan : plan[i].call <= Len(calls) /\ plan[i].produces \subseteq Ids

ExportedBindingsResolve ==
  Exported => \A i \in DOMAIN package.events : Used(package.events[i].bindings) \subseteq DOMAIN package.ledger

LedgerIsClosed == TypeOK /\ ParentsAreEarlier /\ BindingsResolve /\ PlanResolves /\ ExportedBindingsResolve

-----------------------------------------------------------------------------
(* Every name in an exported package is defined in it: products,             *)
(* parents and driving values are in the ledger, sources have fixtures, the  *)
(* violation names a declared sink and one of its driving arguments.         *)
NamesResolve ==
  LET sink == package.scenario.violation IN
  /\ \A i \in DOMAIN package.events :
       LET e == package.events[i] IN
       /\ e.produces \subseteq DOMAIN package.ledger
       /\ e.type = "gate_decision" =>
            e.decision.driving \in {NoDrivingArgs, Unresolved} \cup Used(e.bindings)
  /\ \A v \in DOMAIN package.ledger :
       /\ package.ledger[v].from \subseteq DOMAIN package.ledger
       /\ package.ledger[v].sources \subseteq package.scenario.fixtures
  /\ \A t \in package.scenario.fixtures : package.manifests[t].untrusted
  /\ package.scenario.tools = DOMAIN package.manifests
  /\ package.manifests[sink.tool].egress /\ sink.driving \in package.manifests[sink.tool].driving

(* Every recorded call is in the trace once and in its order, as an intent   *)
(* followed by its decision, with the bindings that were recorded, and the   *)
(* decision carries the verdict that was recorded.                          *)
Judged == {k \in DOMAIN recorded : recorded[k].kind = "tool_call"}
Decided == {i \in DOMAIN package.events : package.events[i].type = "gate_decision"}
Intended == {i \in DOMAIN package.events : package.events[i].type = "tool_call_intent"}
Place(S, k) == Cardinality({j \in S : j <= k})

VerdictsReproduce ==
  /\ Cardinality(Judged) = Cardinality(Decided) /\ Cardinality(Intended) = Cardinality(Decided)
  /\ \A i \in Decided, k \in Judged :
       LET decision == package.events[i]
           intent == package.events[i - 1] IN
       /\ i - 1 \in Intended
       /\ intent.node = decision.node /\ intent.seq + 1 = decision.seq
       /\ intent.call = decision.call /\ intent.bindings = decision.bindings
       /\ Place(Decided, i) = Place(Judged, k) =>
            /\ decision.node = recorded[k].node /\ decision.decision.verdict = recorded[k].verdict
            /\ \A a \in Given(recorded[k].refs) : decision.bindings[a] = recorded[k].refs[a]

(* A recorded value carries the content of its first use. *)
Uses(v) == {i \in DOMAIN recorded : recorded[i].kind = "tool_call" /\ v \in Used(recorded[i].refs)}
FirstUseIsTheValue ==
  \A v \in DOMAIN package.ledger \cap Refs :
    package.ledger[v].content = IF Uses(v) = {} THEN 0 ELSE Min(Uses(v))

(* What is exported replays: its names resolve, its decisions are the         *)
(* recorded ones, its contents those of the first use; and the refusals       *)
(* before it leave the synthesis nothing to raise [_violation_call 648-651]. *)
PackageIsFaithful ==
  /\ package.outcome # "internal"
  /\ Exported => NamesResolve /\ VerdictsReproduce /\ FirstUseIsTheValue

(* The sources of a ledger row are its transitive causal root: the tools its *)
(* taint entered through, however many values it passed [474-490].           *)
TaintedBy ==
  LET roots[v \in Ids] ==
        IF ~Untrusted(v) THEN {}
        ELSE IF values[v].from = {} THEN {values[v].tool} \ {NoTool}
        ELSE UNION {roots[p] : p \in values[v].from}
  IN  roots
SourcesAreTheRoots ==
  Exported => \A v \in DOMAIN package.ledger : package.ledger[v].sources = TaintedBy[v]

-----------------------------------------------------------------------------
(* Not kept. An untrusted value names at least one source ["an omission is a *)
(* soundness bug", 487]: a value returned by a tool whose arguments were     *)
(* trusted has parents, and none of them is untrusted.                       *)
UntrustedHasASource ==
  Exported => \A v \in DOMAIN package.ledger : package.ledger[v].untrusted => package.ledger[v].sources # {}

(* Not kept. A denial follows from the labels the package carries [the      *)
(* docstring, 15-26: the exported condition replays over labels]: a denial   *)
(* by the confidentiality floor, or on a recorded root the ledger's label    *)
(* does not share, is exported all the same.                                 *)
LabelsExplainDenials ==
  Exported => \A i \in DOMAIN package.events :
    LET e == package.events[i] IN
    e.type = "gate_decision" /\ e.decision.verdict = "deny" /\ e.decision.driving \in DOMAIN package.ledger =>
      package.ledger[e.decision.driving].untrusted
=============================================================================
