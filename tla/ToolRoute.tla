----------------------------- MODULE ToolRoute -----------------------------
(***************************************************************************)
(* The proxy (app.py) between an agent and its tools: tool calls, the runs  *)
(* they are recorded under, the claims that end a run, and the table of     *)
(* tools, whose entries can be repointed while calls are under way.  Each   *)
(* action is what a handler does between two awaits.                        *)
(***************************************************************************)
EXTENDS RunManager, FiniteSets

CONSTANTS Calls, Claims, Registrations,
          Servers,        \* stdio processes, each spawned by one registration
          Urls,           \* HTTP upstreams
          Started,        \* the tool table at start: tool -> url or NoUpstream
          Offers,         \* registration -> what it may register: <<name, upstream>>
          VaultTools,     \* tools whose credential this proxy injects
          CredHeaders,    \* header names credentials come under, case folded
          Carries,        \* call -> those under which its agent sends one
          HasVault,       \* whether there is a backend to dispense from
          HasSealingSeed, \* whether this node can open a sealed secret
          Governed,       \* runs armed with manifests
          Script, ScriptClaim,  \* the calls and the claim of the scripted agent
          NoUpstream

ASSUME WritersAssumption == Writers = Calls \cup Claims /\ Calls \cap Claims = {}
ASSUME UpstreamsAssumption ==
  /\ Servers \cap Urls = {} /\ NoUpstream \notin Servers \cup Urls
  /\ Started \in [Tools -> Urls \cup {NoUpstream}]
  /\ \A g \in Registrations : Offers[g] \subseteq Tools \X (Servers \cup Urls)

ASSUME HeadersAssumption ==
  CredHeaders # {} /\ Carries \in [Calls -> SUBSET CredHeaders]

VARIABLES alive, queue, ids, want, asked, drained, owed, pipe, heard,
          tools,     \* state.tools
          sim,       \* the run the scripted agent drives, or NoRun
          pc, loc,   \* call -> where its handler waits, and its locals
          answer,    \* call -> the status it was answered with
          kpc, kloc, \* claim -> the same
          gpc, gloc, \* registration -> the same
          crossed,   \* history: <<run, tool>> two of whose calls overlapped
          raced,     \* history: upstreams written over by a registration that
                     \* had not seen them: two of one name overlapped
          broken     \* history: processes whose handshake ended in an exception
                     \* that is no McpError

Stdio == INSTANCE StdioServer WITH Callers <- Calls

serverVars == <<alive, queue, ids, want, asked, drained, owed, pipe, heard>>
leaks == <<raced, broken>>
vars == <<runVars, serverVars, tools, sim,
          pc, loc, answer, kpc, kloc, gpc, gloc, crossed, leaks>>
callVars == <<pc, loc, answer, crossed>>
otherVars == <<tools, sim, kpc, kloc, gpc, gloc, leaks>>

NoLines == [w \in Writers |-> <<>>]
NoLocals == [run |-> NoRun, tool |-> CHOOSE t \in Tools : TRUE, up |-> NoUpstream,
             body |-> "plain", cred |-> NoUpstream, header |-> CHOOSE h \in CredHeaders : TRUE,
             judged |-> FALSE, spec |-> NoFault, matched |-> FALSE, called |-> FALSE,
             sent |-> {}]

Init ==
  /\ RunInit
  /\ Stdio!ServerInit
  /\ tools = Started
  /\ sim = NoRun
  /\ pc = [c \in Calls |-> "idle"]
  /\ loc = [c \in Calls |-> NoLocals]
  /\ answer = [c \in Calls |-> 0]
  /\ kpc = [k \in Claims |-> "idle"]
  /\ kloc = [k \in Claims |-> [run |-> NoRun, derived |-> NoLines, uploaded |-> NoLines,
                               before |-> {}]]
  /\ gpc = [g \in Registrations |-> "idle"]
  /\ gloc = [g \in Registrations |-> [name |-> CHOOSE t \in Tools : TRUE,
                                      new |-> NoUpstream, old |-> NoUpstream]]
  /\ crossed = {}
  /\ raced = {} /\ broken = {}

---------------------------------------------------------------------------
(* One call.  Its line is being written while pc is "append".              *)

Under(c) == loc[c].run
Set(c, field, value) == loc' = [loc EXCEPT ![c][field] = value]
Goto(c, where) == pc' = [pc EXCEPT ![c] = where]
End(c, status) ==
  /\ pc' = [pc EXCEPT ![c] = "ended"]
  /\ answer' = [answer EXCEPT ![c] = status]

(* Another call of this run and tool has matched its fault and not been     *)
(* counted: counting now changes the index it was matched at.               *)
Count(c) ==
  LET r == Under(c)
      t == loc[c].tool
      others == {d \in Calls \ {c} :
                   /\ loc[d].run = r
                   /\ loc[d].tool = t
                   /\ loc[d].matched
                   /\ ~Contains(counted[r][t], d)}
  IN  /\ CountCall(r, t, c)
      /\ crossed' = IF others = {} THEN crossed ELSE crossed \cup {<<r, t>>}
NoCount == UNCHANGED <<counted, crossed>>

runRest == <<armed, started, known>>

(* sniff_rpc_call: a tools/call shows its arguments, and they can be judged; *)
(* a JSON-RPC notification shows none and expects no answer; any other body *)
(* is opaque.  Over HTTP the last two are treated alike.                    *)
Bodies(up) == {"call", "plain"} \cup (IF up \in Servers THEN {"notice"} ELSE {})
IsRpc(c) == loc[c].body # "plain"

(* The scripted agent (agent.py) makes its calls one after another, under   *)
(* the header of its run; any other caller may name a run, or none.         *)
Scripted(c) == sim # NoRun /\ Contains(Script, c)
InTurn(c) ==
  \A i \in 2..Len(Script) : Script[i] = c => pc[Script[i-1]] = "ended"
Headers(c) == IF Scripted(c) THEN {sim} ELSE Runs \cup {NoRun}

Resolve(c) ==
  /\ pc[c] = "idle"
  /\ Scripted(c) => InTurn(c)
  /\ \E named \in Headers(c), t \in Tools :
       LET r == ActiveFor(named) IN
       \/ /\ r = NoRun
          /\ End(c, 503)
          /\ UNCHANGED loc
       \/ /\ r # NoRun
          /\ tools[t] = NoUpstream
          /\ End(c, 404)
          /\ UNCHANGED loc
       \/ /\ r # NoRun
          /\ tools[t] # NoUpstream
          /\ Goto(c, "body")
          /\ \E body \in Bodies(tools[t]) :
               loc' = [loc EXCEPT ![c] = [NoLocals EXCEPT !.run = r, !.tool = t,
                                          !.up = tools[t], !.body = body]]
          /\ UNCHANGED answer
  /\ UNCHANGED <<runVars, serverVars, otherVars, crossed>>

(* _govern observes: the verdict, whichever it is, goes on the line and the *)
(* call goes on, with the credential of an endpoint and its header, if any. *)
Govern(c, cred, header) ==
  LET judged == Under(c) \in Governed /\ loc[c].body = "call" IN
  /\ Record(c, "call", IF judged THEN "judged" ELSE "none")
  /\ loc' = [loc EXCEPT ![c].judged = judged, ![c].cred = cred, ![c].header = header]
  /\ Goto(c, "append")

Refuse(c) ==
  /\ Record(c, "refused", "deny")
  /\ Goto(c, "append")
  /\ UNCHANGED loc

(* The body is in: a vault tool needs its credential first, and a stdio     *)
(* tool has no header to carry one.                                         *)
Body(c) ==
  /\ pc[c] = "body"
  /\ \/ /\ loc[c].tool \notin VaultTools
        /\ Govern(c, NoUpstream, loc[c].header)
     \/ /\ loc[c].tool \in VaultTools
        /\ ~HasVault \/ loc[c].up \in Servers
        /\ Refuse(c)
     \/ /\ loc[c].tool \in VaultTools
        /\ HasVault
        /\ loc[c].up \in Urls
        /\ Goto(c, "dispense")
        /\ UNCHANGED <<loc, writing>>
  /\ UNCHANGED <<runRest, counted, trace, serverVars, otherVars, answer, crossed>>

(* What the vault may answer, and whether a secret comes of it: one sealed  *)
(* to a key this node does not hold is a refusal, not a bare call.          *)
VaultAnswers == {"unreachable", "refused", "malformed", "plain", "sealed", "foreign"}
Opens(a) == a = "plain" \/ (a = "sealed" /\ HasSealingSeed)
IsCredential(a) == a \notin {"unreachable", "refused", "malformed"} /\ Opens(a)

Dispense(c) ==
  /\ pc[c] = "dispense"
  /\ \E a \in VaultAnswers :
       IF IsCredential(a) THEN \E h \in CredHeaders : Govern(c, loc[c].up, h) ELSE Refuse(c)
  /\ UNCHANGED <<runRest, counted, trace, serverVars, otherVars, answer, crossed>>

(* The credentials an upstream is shown, each under its header: the agent's *)
(* pass, and the vault's replaces the one under its own header.             *)
OfAgent(names) == {<<h, "agent">> : h \in names}
BugOutgoingAdds(c) ==         \* the agent's stays beside it
  OfAgent(Carries[c]) \cup
    (IF loc[c].cred = NoUpstream THEN {} ELSE {<<loc[c].header, loc[c].cred>>})
Outgoing(c) ==
  IF loc[c].cred = NoUpstream THEN OfAgent(Carries[c])
  ELSE OfAgent(Carries[c] \ {loc[c].header}) \cup {<<loc[c].header, loc[c].cred>>}

(* A refused call is counted, so that a fault's index counts it too.        *)
RefusedWritten(c) ==
  /\ writing[c].kind = "refused"
  /\ Idle(c)
  /\ Count(c)
  /\ End(c, 403)
  /\ UNCHANGED <<loc, serverVars>>

ApplyFault(c, spec) ==
  /\ Record(c, "fault", spec.mode)
  /\ Goto(c, "append")

(* With the call on record its fault is matched, and the call goes to a     *)
(* stdio server, to an URL, or, when the fault needs none, to no upstream.  *)
CallWritten(c) ==
  LET spec == FaultForCall(Under(c), loc[c].tool)
      up == loc[c].up
      local == spec # NoFault /\ ~NeedsUpstream(spec)
      ask == ~local /\ (up \in Servers => IsRpc(c))
  IN
  /\ writing[c].kind = "call"
  /\ loc' = [loc EXCEPT ![c].spec = spec, ![c].called = ask,
                         ![c].sent = IF ask /\ up \in Urls THEN Outgoing(c) ELSE {},
                         ![c].matched = (up \in Servers => IsRpc(c))]
  /\ \/ /\ up \in Servers /\ ~IsRpc(c)     \* not one JSON-RPC message
        /\ Idle(c) /\ NoCount /\ End(c, 400)
        /\ UNCHANGED serverVars
     \/ /\ up \in Servers => IsRpc(c)
        /\ local
        /\ ApplyFault(c, spec) /\ NoCount
        /\ UNCHANGED <<serverVars, answer>>
     \/ /\ ask /\ up \in Urls
        /\ Idle(c) /\ NoCount /\ Goto(c, "upstream")
        /\ UNCHANGED <<serverVars, answer>>
     \/ /\ ask /\ up \in alive
        /\ Stdio!Enqueue(c, up)
        /\ Idle(c) /\ NoCount /\ Goto(c, "rpc")
        /\ UNCHANGED answer
     \/ /\ ask /\ up \in Servers \ alive         \* McpError at once
        /\ Record(c, "error", "none") /\ Count(c) /\ Goto(c, "append")
        /\ UNCHANGED <<serverVars, answer>>

(* _register: a governed call's output enters the ledger, or the line says  *)
(* why not.  The stdio path of the code never calls it.                     *)
Ledger(c, held) ==
  IF Under(c) \notin Governed \/ loc[c].up \in Servers THEN "silent"
  ELSE IF loc[c].judged /\ held THEN "registered" ELSE "gap"

FaultWritten(c) ==
  /\ writing[c].kind = "fault"
  /\ Record(c, "result", Ledger(c, TRUE))
  /\ NoCount
  /\ UNCHANGED <<pc, loc, answer, serverVars>>

(* A faulted call is counted here, when all of it is on record; any other   *)
(* was counted when its upstream answered.                                  *)
ResultWritten(c) ==
  /\ writing[c].kind = "result"
  /\ Idle(c)
  /\ IF loc[c].spec # NoFault THEN Count(c) ELSE NoCount
  /\ End(c, 200)
  /\ UNCHANGED <<loc, serverVars>>

ErrorWritten(c) ==
  /\ writing[c].kind = "error"
  /\ Idle(c)
  /\ NoCount
  /\ End(c, 502)
  /\ UNCHANGED <<loc, serverVars>>

LineWritten(c) ==
  /\ pc[c] = "append"
  /\ Written(Under(c), c)
  /\ \/ RefusedWritten(c) \/ CallWritten(c) \/ FaultWritten(c)
     \/ ResultWritten(c) \/ ErrorWritten(c)
  /\ UNCHANGED <<runRest, otherVars>>

(* What the upstream's answer leads to, over HTTP and over stdio.           *)
BugFailedUncounted(c) ==      \* a failed call does not move the fault index
  /\ Record(c, "error", "none")
  /\ NoCount
  /\ Goto(c, "append")

Failed(c) ==
  /\ Record(c, "error", "none")
  /\ Count(c)
  /\ Goto(c, "append")

AnsweredUnderFault(c) ==
  /\ loc[c].spec # NoFault
  /\ ApplyFault(c, loc[c].spec)
  /\ NoCount

(* A clean HTTP answer is buffered for the ledger when the call was judged  *)
(* and the body is not an event stream, and relayed otherwise.              *)
Upstream(c) ==
  /\ pc[c] = "upstream"
  /\ \/ Failed(c)
     \/ AnsweredUnderFault(c)
     \/ /\ loc[c].spec = NoFault
        /\ Count(c)
        /\ \E next \in {"relay"} \cup (IF loc[c].judged THEN {"reading"} ELSE {}) :
             Goto(c, next)
        /\ UNCHANGED writing
  /\ UNCHANGED <<runRest, trace, serverVars, otherVars, loc, answer>>

(* aread: the rest of the body, or an exception nothing catches.            *)
ReadBody(c) ==
  /\ pc[c] = "reading"
  /\ \/ /\ Record(c, "result", Ledger(c, TRUE))
        /\ Goto(c, "append")
        /\ UNCHANGED answer
     \/ /\ End(c, 500)
        /\ UNCHANGED writing
  /\ UNCHANGED <<runRest, counted, trace, serverVars, otherVars, loc, crossed>>

(* relay: the last chunk, or the upstream's error, then the observation.    *)
(* An agent that leaves cancels the handler, and the line is not written.   *)
Relay(c) ==
  /\ pc[c] = "relay"
  /\ \/ /\ Record(c, "result", Ledger(c, FALSE))
        /\ Goto(c, "append")
        /\ UNCHANGED answer
     \/ /\ End(c, 499)
        /\ UNCHANGED writing
  /\ UNCHANGED <<runRest, counted, trace, serverVars, otherVars, loc, crossed>>

StdioAnswered(c) ==
  \/ AnsweredUnderFault(c)
  \/ /\ loc[c].spec = NoFault
     /\ Count(c)
     /\ Record(c, "result", Ledger(c, TRUE))
     /\ Goto(c, "append")

Rpc(c) ==
  /\ pc[c] = "rpc"
  /\ LET s == loc[c].up IN
       \/ /\ IF loc[c].body = "notice" THEN Stdio!WriteNotice(c, s)
             ELSE Stdio!WriteRequest(c, s) \/ Stdio!SkipAnswer(c, s)
          /\ UNCHANGED <<writing, counted, crossed, pc, answer>>
       \/ /\ loc[c].body # "notice"
          /\ Stdio!ReadAnswer(c, s)
          /\ StdioAnswered(c)
          /\ UNCHANGED answer
       \/ /\ Stdio!GiveUp(c, s)
          /\ Failed(c)
          /\ UNCHANGED answer
       \/ /\ Stdio!Break(c, s)
          /\ End(c, 500)
          /\ NoCount
          /\ UNCHANGED writing
  /\ UNCHANGED <<runRest, trace, otherVars, loc>>

(* The server goes on reading: the write is drained, which is all there is  *)
(* to a notification.                                                       *)
Drained(c) ==
  /\ pc[c] = "rpc"
  /\ \/ /\ loc[c].body # "notice"
        /\ Stdio!Drain(c, loc[c].up)
        /\ UNCHANGED <<writing, counted, crossed, pc>>
     \/ /\ loc[c].body = "notice"
        /\ Stdio!Notify(c, loc[c].up)
        /\ StdioAnswered(c)
  /\ UNCHANGED <<runRest, trace, otherVars, loc, answer>>

---------------------------------------------------------------------------
(* A claim: recorded like any line, then the file is read for the evidence, *)
(* the run is disarmed, and the file is read again for the upload.          *)

Resting(r) ==   \* calls of r that have been answered
  {c \in Calls : Under(c) = r /\ pc[c] = "ended"}

SubmitClaim(k) ==
  /\ kpc[k] = "idle"
  /\ k = ScriptClaim /\ sim # NoRun => \A i \in DOMAIN Script : pc[Script[i]] = "ended"
  /\ \E r \in (IF k = ScriptClaim /\ sim # NoRun THEN known \cap {sim} ELSE known) :
       /\ Record(k, "claim", "none")
       /\ kloc' = [kloc EXCEPT ![k].run = r, ![k].before = Resting(r)]
  /\ kpc' = [kpc EXCEPT ![k] = "append"]
  /\ UNCHANGED <<runRest, counted, trace, serverVars, callVars, tools, sim, gpc, gloc, leaks>>

BugDeriveFirst(k) ==           \* the evidence is read before the claim is written
  /\ kpc[k] = "append"
  /\ kloc' = [kloc EXCEPT ![k].derived = trace[kloc[k].run]]
  /\ Written(kloc[k].run, k)
  /\ Idle(k)
  /\ Disarm(kloc[k].run)
  /\ kpc' = [kpc EXCEPT ![k] = "upload"]
  /\ UNCHANGED <<started, known, counted, serverVars, callVars, tools, sim, gpc, gloc, leaks>>

ClaimWritten(k) ==
  /\ kpc[k] = "append"
  /\ Written(kloc[k].run, k)
  /\ Idle(k)
  /\ kpc' = [kpc EXCEPT ![k] = "derive"]
  /\ UNCHANGED <<runRest, counted, serverVars, callVars, tools, sim, kloc, gpc, gloc, leaks>>

RecordedLines(r) == trace[r]   \* recorder.lines: the file, as it is now

Derive(k) ==
  /\ kpc[k] = "derive"
  /\ kloc' = [kloc EXCEPT ![k].derived = RecordedLines(kloc[k].run)]
  /\ Disarm(kloc[k].run)
  /\ kpc' = [kpc EXCEPT ![k] = "upload"]
  /\ UNCHANGED <<started, known, counted, writing, trace, serverVars, callVars, tools, sim,
                 gpc, gloc, leaks>>

Upload(k) ==
  /\ kpc[k] = "upload"
  /\ kloc' = [kloc EXCEPT ![k].uploaded = trace[kloc[k].run]]
  /\ kpc' = [kpc EXCEPT ![k] = "ended"]
  /\ UNCHANGED <<runVars, serverVars, callVars, tools, sim, gpc, gloc, leaks>>

(* start_run.  A trace is past the retention window only if nothing has     *)
(* been under way on its run for that long.                                 *)
Untouched(q) ==
  /\ \A c \in Calls : Under(c) = q => pc[c] = "ended"
  /\ \A k \in Claims : kloc[k].run = q => kpc[k] = "ended"

StartRun ==
  /\ \E r \in Runs, old \in SUBSET {q \in Runs : Prunable(q) /\ Untouched(q)} :
       Start(r, old)
  /\ UNCHANGED <<serverVars, callVars, otherVars>>

(* simulate: refused unless the run is armed when it begins.                *)
Simulate ==
  /\ sim = NoRun
  /\ kpc[ScriptClaim] = "idle"
  /\ \A i \in DOMAIN Script : pc[Script[i]] = "idle"
  /\ \E r \in known : IsArmed(r) /\ sim' = r
  /\ UNCHANGED <<runVars, serverVars, callVars, tools, kpc, kloc, gpc, gloc, leaks>>

---------------------------------------------------------------------------
(* Registration: the new upstream is shaken hands with, the process it      *)
(* replaces is closed and waited for, and the table is written.             *)

Discover(g) ==
  /\ gpc[g] = "idle"
  /\ \E entry \in Offers[g] :
       /\ gloc' = [gloc EXCEPT ![g] = [name |-> entry[1], new |-> entry[2], old |-> NoUpstream]]
       /\ IF entry[2] \in Servers THEN Stdio!Spawn(entry[2]) ELSE UNCHANGED serverVars
  /\ gpc' = [gpc EXCEPT ![g] = "initialize"]
  /\ UNCHANGED <<runVars, callVars, tools, sim, kpc, kloc, leaks>>

(* initialize, then tools/list; over HTTP a refusal of the notification in  *)
(* between does not matter, over stdio the process must live through it.    *)
Initialized(g) ==
  /\ gpc[g] = "initialize"
  /\ gpc' = [gpc EXCEPT ![g] = "list"]
  /\ UNCHANGED <<runVars, callVars, serverVars, tools, sim, kpc, kloc, gloc, leaks>>
HandshakeHttp(g) == gloc[g].new \in Urls /\ Initialized(g)
HandshakeStdio(g) == gloc[g].new \in alive /\ Initialized(g)

(* discover_stdio closes what it spawned when the handshake fails with an   *)
(* McpError ...                                                             *)
HandshakeFails(g) ==
  /\ gpc[g] \in {"initialize", "list"}
  /\ Stdio!Close({gloc[g].new})
  /\ gpc' = [gpc EXCEPT ![g] = "ended"]
  /\ UNCHANGED <<runVars, callVars, tools, sim, kpc, kloc, gloc, leaks>>

(* ... and lets any other exception pass: a line past the reader's limit or *)
(* one that does not decode, an answer of another shape.                    *)
HandshakeBreaks(g) ==
  /\ gpc[g] \in {"initialize", "list"}
  /\ gloc[g].new \in alive
  /\ broken' = broken \cup {gloc[g].new}
  /\ gpc' = [gpc EXCEPT ![g] = "ended"]
  /\ UNCHANGED <<runVars, callVars, serverVars, tools, sim, kpc, kloc, gloc, raced>>

Install(g, old) ==
  /\ tools' = [tools EXCEPT ![gloc[g].name] = gloc[g].new]
  /\ raced' = IF tools[gloc[g].name] = old THEN raced ELSE raced \cup {tools[gloc[g].name]}
  /\ gpc' = [gpc EXCEPT ![g] = "ended"]

HandshakeDone(g) ==
  /\ gpc[g] = "list"
  /\ LET old == tools[gloc[g].name] IN
       \/ /\ old \notin Servers
          /\ Install(g, old)
          /\ UNCHANGED gloc
       \/ /\ old \in Servers
          /\ gloc' = [gloc EXCEPT ![g].old = old]
          /\ gpc' = [gpc EXCEPT ![g] = "closing"]
          /\ UNCHANGED <<tools, raced>>
  /\ UNCHANGED <<runVars, callVars, serverVars, sim, kpc, kloc, broken>>

(* close: terminate, wait, kill after three seconds.                        *)
Replace(g) ==
  /\ gpc[g] = "closing"
  /\ Stdio!Close({gloc[g].old})
  /\ Install(g, gloc[g].old)
  /\ UNCHANGED <<runVars, callVars, sim, kpc, kloc, gloc, broken>>

---------------------------------------------------------------------------
CallStep(c) ==
  \/ Resolve(c) \/ Body(c) \/ Dispense(c) \/ LineWritten(c)
  \/ Upstream(c) \/ ReadBody(c) \/ Relay(c) \/ Rpc(c)

ClaimStep(k) == ClaimWritten(k) \/ Derive(k) \/ Upload(k)

ServerStep(s) ==
  /\ Stdio!ServerAnswers(s) \/ Stdio!Exit(s)
  /\ UNCHANGED <<runVars, callVars, otherVars>>

Next ==
  \/ StartRun \/ Simulate
  \/ \E c \in Calls : CallStep(c) \/ Drained(c)
  \/ \E k \in Claims : SubmitClaim(k) \/ ClaimStep(k)
  \/ \E g \in Registrations : Discover(g) \/ HandshakeHttp(g) \/ HandshakeStdio(g)
                                \/ HandshakeFails(g) \/ HandshakeBreaks(g)
                                \/ HandshakeDone(g) \/ Replace(g)
  \/ \E s \in Servers : ServerStep(s)

(* The event loop runs a ready handler; an upstream answers or its time     *)
(* limit ends the wait.  Nobody has to call, to send the rest of a body or  *)
(* to read an answer, to claim or to register, and no server has to read.   *)
OfAgents == {"idle", "body", "relay"}
Fairness ==
  /\ \A c \in Calls : WF_vars(pc[c] \notin OfAgents /\ CallStep(c))
  /\ \A k \in Claims : WF_vars(ClaimStep(k))

Spec == Init /\ [][Next]_vars /\ Fairness

---------------------------------------------------------------------------
(* Properties *)

(* Type invariant of the module's own variables and of the trace. *)
RouteTypeOK ==
  /\ \A c \in Calls :
       /\ pc[c] \in {"idle", "body", "dispense", "append", "upstream", "rpc",
                    "reading", "relay", "ended"}
       /\ answer[c] \in {0, 200, 400, 403, 404, 499, 500, 502, 503}
       /\ loc[c].run \in Runs \cup {NoRun} /\ loc[c].up \in Urls \cup Servers \cup {NoUpstream}
  /\ \A k \in Claims : kpc[k] \in {"idle", "append", "derive", "upload", "ended"}
  /\ tools \in [Tools -> Urls \cup Servers \cup {NoUpstream}]
  /\ known \subseteq Runs /\ alive \subseteq Servers

(* The lines an answer stands for. *)
Lines(c) ==
  CASE answer[c] \in {404, 503} -> {<<>>}
    [] answer[c] = 403 -> {<<"refused">>}
    [] answer[c] \in {400, 499, 500} -> {<<"call">>}
    [] answer[c] = 502 -> {<<"call", "error">>}
    [] answer[c] = 200 /\ loc[c].spec # NoFault -> {<<"call", "fault", "result">>}
    [] OTHER -> {<<"call", "result">>}

Answered(c) == pc[c] = "ended"
TakenFor(r, t) == {c \in Calls : loc[c].run = r /\ loc[c].tool = t}

(* A trace says what happened: every answered call left exactly the lines   *)
(* its answer stands for, in that order; and a tool's count is that of the  *)
(* calls that were refused, failed or served, each once.                    *)
(* (tool_route and _stdio_dispatch, whose paths each record and count.)     *)
TraceTellsTheCall ==
  /\ RouteTypeOK
  /\ \A c \in Calls : Answered(c) /\ Under(c) \in known =>
       Kinds(trace[Under(c)][c]) \in Lines(c)
  /\ \A r \in Runs, t \in Tools :
       /\ IsInjective(counted[r][t])
       /\ (\A c \in TakenFor(r, t) : Answered(c)) =>
            Range(counted[r][t]) =
              {c \in TakenFor(r, t) :
                 \/ answer[c] \in {200, 403, 502}
                 \/ answer[c] \in {499, 500} /\ loc[c].up \in Urls}

(* Where no two calls of a run and tool overlapped, the fault of index n    *)
(* changed the answer of the n-th counted call and of no other one (calls   *)
(* that were refused, failed or broke have no answer to change).            *)
FaultsTheNth ==
  \A r \in Runs, t \in Tools :
    <<r, t>> \notin crossed =>
      \A i \in DOMAIN counted[r][t] :
        LET c == counted[r][t][i] IN
        Answered(c) /\ answer[c] = 200 =>
          (loc[c].spec # NoFault <=>
             \E f \in Range(Faults[r]) : f.tool = t /\ f.index \in {Always, i - 1})

(* An answered call is accounted for: its lines are its answer's, it counts *)
(* once, and a fault met it only if it was the call the fault names.        *)
CallsAreAccounted == TraceTellsTheCall /\ FaultsTheNth

(* The cases of a claim are read off the trace: with the claim itself and   *)
(* every line of every call answered before the claim came; and what is     *)
(* uploaded later begins with exactly those lines (recorder.lines).         *)
EvidenceIsOfTheTrace ==
  \A k \in Claims :
    LET d == kloc[k].derived IN
    kpc[k] \in {"upload", "ended"} =>
      /\ Kinds(d[k]) = <<"claim">>
      /\ \A c \in kloc[k].before : Kinds(d[c]) \in Lines(c)
      /\ kpc[k] = "ended" => \A w \in Writers : IsPrefix(d[w], kloc[k].uploaded[w])

(* Fail closed: a vault tool's upstream is called with the credential that  *)
(* was dispensed for the very endpoint called, and with nothing else under  *)
(* that header and no other endpoint's under any, or it is not called,      *)
(* though the table may be repointed while the credential is fetched; and   *)
(* it is never a stdio server.  (Under other headers the agent's own go     *)
(* along: NothingOfTheAgents.)                                              *)
NoCredentialNoCall ==
  \A c \in Calls : loc[c].called /\ loc[c].tool \in VaultTools =>
    /\ loc[c].up \in Urls
    /\ \E h \in CredHeaders :
         /\ <<h, loc[c].up>> \in loc[c].sent
         /\ \A p \in loc[c].sent : p[1] = h => p[2] = loc[c].up
    /\ \A p \in loc[c].sent : p[2] \in {loc[c].up, "agent"}

(* A caller of a stdio server is handed the answer to its own request, also *)
(* when an earlier caller gave up and its answer came late.                 *)
OwnAnswer == \A c \in Calls : heard[c] = c

(* A spawned process is registered, or its registration is under way; any   *)
(* other was written over by a registration that overlapped its own, or is  *)
(* what a handshake left behind that ended in neither an answer nor an      *)
(* McpError.                                                                *)
OnlyLostIsOrphaned ==
  \A s \in alive :
    \/ s \in Range(tools)
    \/ \E g \in Registrations : gloc[g].new = s /\ gpc[g] # "ended"
    \/ s \in raced \cup broken

(* A stdio server answers whoever asked and is somebody's, through late     *)
(* answers, dying pipes and registrations that replace it.                  *)
StdioIsOwned == OwnAnswer /\ OnlyLostIsOrphaned

(* The holder of a server's lock waits for the server to read.              *)
Stalled(s) == \E c \in Calls : Stdio!Draining(c, s)

(* Liveness: a call whose body is in is answered, or its answer streams:    *)
(* nobody waits for the lock of a stdio server for ever, though answers are *)
(* lost and servers end or are replaced, unless from some time on the       *)
(* server reads no more, which holds up whoever writes and all behind it.   *)
EveryCallIsAnswered ==
  \A c \in Calls :
    \/ pc[c] \notin OfAgents ~> pc[c] \in {"relay", "ended"}
    \/ <>[](pc[c] = "rpc" /\ Stalled(loc[c].up))

---------------------------------------------------------------------------
(* What comments say and the code does not keep. *)

(* mcp_discover: repointing "must not leak the old process".                *)
NoOrphan ==
  (\A g \in Registrations : gpc[g] \in {"idle", "ended"}) => alive \subseteq Range(tools)

(* discover_stdio: McpError on anything that is not a healthy server, "with *)
(* the process cleaned up".                                                 *)
FailureCleansUp == broken \cap alive = {}

(* vault.py: an agent-supplied credential on a vault-mode tool "is          *)
(* discarded".                                                              *)
NothingOfTheAgents ==
  \A c \in Calls : loc[c].called /\ loc[c].tool \in VaultTools =>
    \A p \in loc[c].sent : p[2] # "agent"

(* rpc: a server that does not answer in time is an "rpc timeout".          *)
RpcTimesOut == \A c \in Calls : pc[c] = "rpc" ~> pc[c] # "rpc"

(* FaultSpec: "inject on the Nth call to the tool".                         *)
NthCallOnce ==
  \A r \in Runs, t \in Tools : \A i \in DOMAIN Faults[r] :
    Faults[r][i].index # Always =>
      Cardinality({c \in TakenFor(r, t) : loc[c].spec = Faults[r][i]}) <= 1

(* _register: a gap in the ledger "has to be legible rather than implied".  *)
GapIsLegible ==
  \A r \in Governed, c \in Calls : \A i \in DOMAIN trace[r][c] :
    trace[r][c][i].kind = "result" => trace[r][c][i].extra # "silent"

(* recorder.lines: the proxy's cases and the plane's are "derived from the  *)
(* same bytes".                                                             *)
SameBytes == \A k \in Claims : kpc[k] = "ended" => kloc[k].derived = kloc[k].uploaded
=============================================================================
