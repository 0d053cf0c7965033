---------------------------- MODULE StdioServer ----------------------------
(***************************************************************************)
(* The stdio-MCP servers a proxy fronts (stdio_mcp.py): processes it        *)
(* spawned, each spoken to by one caller at a time over two pipes.  A       *)
(* caller queues at the server's lock, writes a request under an id it      *)
(* alone holds, waits until the server has taken it in (drain, without a    *)
(* time limit), and reads lines until one carries that id; a late answer to *)
(* a caller that gave up stays in the pipe for the next one to skip.        *)
(***************************************************************************)
EXTENDS Naturals, Sequences

CONSTANTS Servers, Callers

VARIABLES alive,     \* the processes that run
          queue,     \* server -> callers at its asyncio.Lock; the head holds it
          ids,       \* server -> _next_id
          want,      \* caller -> the id of its request, 0 when it has none
          asked,     \* the callers whose line has been written
          drained,   \* those of them that read: their drain has returned
          owed,      \* server -> requests it was written and has not answered
          pipe,      \* server -> answers in its stdout, as <<id, caller>>
          heard      \* history: caller -> whose answer it was given

serverVars == <<alive, queue, ids, want, asked, drained, owed, pipe, heard>>

ServerInit ==
  /\ alive = {}
  /\ queue = [s \in Servers |-> <<>>]
  /\ ids = [s \in Servers |-> 0]
  /\ want = [c \in Callers |-> 0]
  /\ asked = {} /\ drained = {}
  /\ owed = [s \in Servers |-> {}]
  /\ pipe = [s \in Servers |-> <<>>]
  /\ heard = [c \in Callers |-> c]

Holds(c, s) == queue[s] # <<>> /\ Head(queue[s]) = c

(* rpc up to the lock: the process is checked and an id is taken before the *)
(* caller waits (for a notification too, here: nothing answers it).         *)
Enqueue(c, s) ==
  /\ s \in alive
  /\ ids' = [ids EXCEPT ![s] = @ + 1]
  /\ want' = [want EXCEPT ![c] = ids[s] + 1]
  /\ queue' = [queue EXCEPT ![s] = Append(@, c)]
  /\ UNCHANGED <<alive, asked, drained, owed, pipe, heard>>

(* The lock is ours: the line is written, and some of it may wait in a      *)
(* buffer until the server reads.                                           *)
WriteLine(c, s, due) ==
  /\ Holds(c, s)
  /\ s \in alive
  /\ c \notin asked
  /\ asked' = asked \cup {c}
  /\ owed' = [owed EXCEPT ![s] = @ \cup due]
  /\ UNCHANGED <<alive, queue, ids, want, drained, pipe, heard>>
WriteRequest(c, s) == WriteLine(c, s, {<<want[c], c>>})
WriteNotice(c, s) == WriteLine(c, s, {})

(* drain returns: the server has taken in enough of what was written.       *)
Draining(c, s) == Holds(c, s) /\ c \in asked \ drained

Drain(c, s) ==
  /\ Draining(c, s)
  /\ s \in alive
  /\ drained' = drained \cup {c}
  /\ UNCHANGED <<alive, queue, ids, want, asked, owed, pipe, heard>>

(* The process answers what it likes of what it has read, when it likes. *)
ServerAnswers(s) ==
  /\ s \in alive
  /\ \E a \in owed[s] :
       /\ owed' = [owed EXCEPT ![s] = @ \ {a}]
       /\ pipe' = [pipe EXCEPT ![s] = Append(@, a)]
  /\ UNCHANGED <<alive, queue, ids, want, asked, drained, heard>>

Unlock(c, s) ==
  /\ queue' = [queue EXCEPT ![s] = Tail(@)]
  /\ asked' = asked \ {c}
  /\ drained' = drained \ {c}

(* _read_response: one line; the answer with our id ends the call.          *)
BugTakesAnyAnswer(answer, c) == TRUE  \* reads the next line, whatever its id
Matches(answer, c) == answer[1] = want[c]

ReadAnswer(c, s) ==
  /\ Holds(c, s)
  /\ c \in drained
  /\ pipe[s] # <<>>
  /\ Matches(Head(pipe[s]), c)
  /\ pipe' = [pipe EXCEPT ![s] = Tail(@)]
  /\ heard' = [heard EXCEPT ![c] = Head(pipe[s])[2]]
  /\ Unlock(c, s)
  /\ UNCHANGED <<alive, ids, want, owed>>

SkipAnswer(c, s) ==
  /\ Holds(c, s)
  /\ c \in drained
  /\ pipe[s] # <<>>
  /\ ~Matches(Head(pipe[s]), c)
  /\ pipe' = [pipe EXCEPT ![s] = Tail(@)]
  /\ UNCHANGED <<alive, queue, ids, want, asked, drained, owed, heard>>

(* A notification expects no answer: written, drained, and done. *)
Notify(c, s) ==
  /\ Draining(c, s)
  /\ s \in alive
  /\ Unlock(c, s)
  /\ UNCHANGED <<alive, ids, want, owed, pipe, heard>>

(* The timeout, which limits the reading alone, or a pipe that broke, at    *)
(* any stage: McpError.                                                     *)
BugGiveUpKeepsLock(c, s) ==    \* a caller that timed out leaves the lock taken
  /\ Holds(c, s)
  /\ s \notin alive \/ c \in drained
  /\ asked' = asked \ {c}
  /\ drained' = drained \ {c}
  /\ UNCHANGED <<alive, queue, ids, want, owed, pipe, heard>>

GiveUp(c, s) ==
  /\ Holds(c, s)
  /\ s \notin alive \/ c \in drained
  /\ Unlock(c, s)
  /\ UNCHANGED <<alive, ids, want, owed, pipe, heard>>

(* A line past the reader's limit: an exception rpc does not turn into an   *)
(* McpError.                                                                *)
Break(c, s) ==
  /\ Holds(c, s)
  /\ c \in drained
  /\ s \in alive
  /\ Unlock(c, s)
  /\ UNCHANGED <<alive, ids, want, owed, pipe, heard>>

(* create_subprocess_exec, and close once the process is gone. *)
Spawn(s) ==
  /\ alive' = alive \cup {s}
  /\ UNCHANGED <<queue, ids, want, asked, drained, owed, pipe, heard>>

Close(dead) ==
  /\ alive' = alive \ dead
  /\ UNCHANGED <<queue, ids, want, asked, drained, owed, pipe, heard>>

(* A server ends by itself. *)
Exit(s) == s \in alive /\ Close({s})
=============================================================================
