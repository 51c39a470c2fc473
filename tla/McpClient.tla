----------------------------- MODULE McpClient ------------------------------
(***************************************************************************)
(* ai/mcp_client.py: the threads of the AI service share one MCP           *)
(* connection, whose event loop runs in a thread of its own.  A thread     *)
(* gets the connection under the module's lock, waits for its handshake    *)
(* outside the lock, and makes its call over the loop; whoever sees a call *)
(* fail closes the connection, and the next caller replaces it.  The       *)
(* server may be slow, hang, break the stream or answer with a tool error. *)
(***************************************************************************)
EXTENDS Naturals, FiniteSets

CONSTANTS Threads,     \* threads that call tools
          MaxConns,    \* bound on the connections ever made
          MaxCalls     \* bound on the calls of a thread

ASSUME BoundsAssumption == MaxConns \in Nat \ {0} /\ MaxCalls \in Nat

VARIABLES
    current,    \* _connection; 0 is None
    conn,       \* the _Connection objects, by number
    made,       \* how many of them exist
    pc,         \* where a thread is in call_tool
    using,      \* the connection that its call uses
    future,     \* what has become of the coroutine it submitted
    calls,      \* the calls it made
    failedOver  \* history: connections over which a call failed

mcpVars == <<current, conn, made, pc, using, future, calls, failedOver>>

Conns == 1..MaxConns

\* ready and session are the fields; loop is where the coroutine _connect is; shutdown is set
\* by close().
Connection == [ready : BOOLEAN, session : BOOLEAN, shutdown : BOOLEAN,
               loop : {"absent", "handshake", "open", "ended"}]

New == [ready |-> FALSE, session |-> FALSE, shutdown |-> FALSE, loop |-> "handshake"]
Absent == [New EXCEPT !.loop = "absent"]

Failed(c) == conn[c].ready /\ ~conn[c].session

McpInit ==
    /\ current = 0
    /\ conn = [c \in Conns |-> Absent]
    /\ made = 0
    /\ pc = [t \in Threads |-> "idle"]
    /\ using = [t \in Threads |-> 0]
    /\ future = [t \in Threads |-> "none"]
    /\ calls = [t \in Threads |-> 0]
    /\ failedOver = {}


-----------------------------------------------------------------------------
(* A thread in call_tool *)

\* Fault: a connection that is still shaking hands is replaced.
NoneUsable(c) == c = 0 \/ ~conn[c].session

NeedsNew(c) == c = 0 \/ Failed(c)

\* _get_connection under its lock.
GetConnection(t) ==
    /\ pc[t] = "idle" /\ calls[t] < MaxCalls
    /\ IF NeedsNew(current)
       THEN /\ made < MaxConns
            /\ made' = made + 1
            /\ current' = made'
            /\ conn' = [conn EXCEPT ![made'] = New]
       ELSE UNCHANGED <<made, current, conn>>
    /\ using' = [using EXCEPT ![t] = current']
    /\ pc' = [pc EXCEPT ![t] = "waitReady"]
    /\ calls' = [calls EXCEPT ![t] = @ + 1]
    /\ UNCHANGED <<future, failedOver>>

\* wait_ready, then reading self._session and submitting the call to the loop.  Without a
\* session each of the two raises ToolUnavailable.
Ready(t) ==
    /\ pc[t] = "waitReady" /\ conn[using[t]].ready
    /\ pc' = [pc EXCEPT ![t] = IF conn[using[t]].session THEN "ready" ELSE "idle"]
    /\ UNCHANGED <<current, conn, made, using, future, calls, failedOver>>

\* The handshake takes too long for this caller.
GiveUpWaiting(t) ==
    /\ pc[t] = "waitReady" /\ ~conn[using[t]].ready
    /\ pc' = [pc EXCEPT ![t] = "idle"]
    /\ UNCHANGED <<current, conn, made, using, future, calls, failedOver>>

Submit(t) ==
    /\ pc[t] = "ready"
    /\ IF conn[using[t]].session
       THEN /\ pc' = [pc EXCEPT ![t] = "inFlight"]
            /\ future' = [future EXCEPT ![t] = "pending"]
       ELSE /\ pc' = [pc EXCEPT ![t] = "idle"]
            /\ UNCHANGED future
    /\ UNCHANGED <<current, conn, made, using, calls, failedOver>>

\* The server answered, with a result or a tool error.
ReturnResult(t) ==
    /\ pc[t] = "inFlight" /\ future[t] = "answered"
    /\ pc' = [pc EXCEPT ![t] = "idle"]
    /\ future' = [future EXCEPT ![t] = "none"]
    /\ UNCHANGED <<current, conn, made, using, calls, failedOver>>

\* Fault: future.result() without a timeout.
OnlyIfRaised(t) == future[t] = "raised"

\* The call raised, or did not come back within the call timeout.
MayFail(t) == future[t] \in {"raised", "pending"}

\* Fault: the connection in the global is closed, whoever made it.
ClosesCurrent(t) == current

Closes(t) == using[t]

\* Fault: the loop is told to end, but the session stays.
SignalledOnly(k) == [k EXCEPT !.shutdown = TRUE]

Closed(k) == [k EXCEPT !.session = FALSE, !.shutdown = TRUE]

\* A failed call closes its connection: the session goes, the loop is told to end.
CallFails(t) ==
    /\ pc[t] = "inFlight" /\ MayFail(t)
    /\ conn' = [conn EXCEPT ![Closes(t)] = Closed(@)]
    /\ pc' = [pc EXCEPT ![t] = "closing"]
    /\ future' = [future EXCEPT ![t] = "none"]
    /\ failedOver' = failedOver \cup {using[t]}
    /\ UNCHANGED <<current, made, using, calls>>

\* join() returns when the loop has ended, or after its own timeout; then ToolUnavailable.
Joined(t) ==
    /\ pc[t] = "closing"
    /\ pc' = [pc EXCEPT ![t] = "idle"]
    /\ UNCHANGED <<current, conn, made, using, future, calls, failedOver>>

-----------------------------------------------------------------------------
(* The event loop of connection c; the server and the network decide which *)

LoopStep(c, from, to) ==
    /\ conn[c].loop = from
    /\ conn' = [conn EXCEPT ![c] = to]
    /\ UNCHANGED <<current, made, pc, using, future, calls, failedOver>>

Connected(c) ==
    LoopStep(c, "handshake", [conn[c] EXCEPT !.loop = "open", !.session = TRUE, !.ready = TRUE])

\* Fault: an exception leaves the session of a dead stream in place.
KeepsSession(k) == [k EXCEPT !.loop = "ended", !.ready = TRUE]

AfterException(k) == [k EXCEPT !.loop = "ended", !.ready = TRUE, !.session = FALSE]

HandshakeFails(c) == LoopStep(c, "handshake", AfterException(conn[c]))
StreamBreaks(c) == LoopStep(c, "open", AfterException(conn[c]))

ShutDown(c) == conn[c].shutdown /\ LoopStep(c, "open", [conn[c] EXCEPT !.loop = "ended"])

\* A running loop completes the call of t; once the loop has ended nobody does.
Complete(t) ==
    /\ future[t] = "pending" /\ conn[using[t]].loop = "open"
    /\ \E outcome \in {"answered", "raised"} : future' = [future EXCEPT ![t] = outcome]
    /\ UNCHANGED <<current, conn, made, pc, using, calls, failedOver>>

-----------------------------------------------------------------------------

Step(t) ==
    \/ GetConnection(t) \/ Ready(t) \/ GiveUpWaiting(t) \/ Submit(t)
    \/ ReturnResult(t) \/ CallFails(t) \/ Joined(t)

Loop(c) == Connected(c) \/ HandshakeFails(c) \/ StreamBreaks(c) \/ ShutDown(c)

McpNext == (\E t \in Threads : Step(t) \/ Complete(t)) \/ (\E c \in Conns : Loop(c))

McpSpec == McpInit /\ [][McpNext]_mcpVars

\* A thread that can run does, and a timeout that is due fires; the server owes nothing.
McpFairSpec ==
    McpSpec /\ \A t \in Threads :
        WF_mcpVars(Ready(t) \/ GiveUpWaiting(t) \/ Submit(t)
                   \/ ReturnResult(t) \/ CallFails(t) \/ Joined(t))

-----------------------------------------------------------------------------
(* Properties *)

McpTypeOK ==
    /\ current = made /\ made \in 0..MaxConns
    /\ conn \in [Conns -> Connection]
    /\ \A c \in Conns :
          /\ conn[c].loop = "absent" <=> c > made
          /\ conn[c].session => conn[c].ready /\ conn[c].loop = "open"
    /\ pc \in [Threads -> {"idle", "waitReady", "ready", "inFlight", "closing"}]
    /\ using \in [Threads -> 0..MaxConns]
    /\ \A t \in Threads : pc[t] # "idle" => using[t] \in 1..made
    /\ future \in [Threads -> {"none", "pending", "answered", "raised"}]
    /\ \A t \in Threads : future[t] # "none" <=> pc[t] = "inFlight"
    /\ calls \in [Threads -> 0..MaxCalls]
    /\ failedOver \subseteq Conns

\* "One persistent connection" (ai/mcp_client.py:13): concurrent callers share a handshake in
\* flight, and a connection is replaced only when it can never be used again.
OneConnection ==
    \A c, d \in 1..made : ~Failed(c) /\ ~Failed(d) => c = d

\* A connection whose loop has ended counts as failed, so the next caller rebuilds it instead of
\* submitting calls that nobody will run (comment at ai/mcp_client.py:128).
DeadIsFailed == \A c \in Conns : conn[c].loop = "ended" => Failed(c)

\* There is one connection, and it is replaced when it is dead and only then.
OneLiveConnection == OneConnection /\ DeadIsFailed

\* Once a call has failed over a connection, nobody is handed that connection again.
FailedNeverReused ==
    [][\A t \in Threads : pc[t] = "idle" /\ pc'[t] = "waitReady" => using'[t] \notin failedOver]_mcpVars

\* Together: one connection at a time, replaced when a call has failed over it, and not used
\* again from then on (_get_connection, _Connection.call_tool).
OneUsableConnection == []OneLiveConnection /\ FailedNeverReused

\* A connection that works is torn down only by a call that was made over it: a late timeout
\* of a call over the old connection does not hit its replacement.
ClosedByOwnCall ==
    [][\A c \in Conns : conn[c].session /\ ~conn'[c].session /\ conn'[c].loop = "open" =>
          \E t \in Threads : using[t] = c /\ pc[t] = "inFlight" /\ pc'[t] = "closing"]_mcpVars

\* Every call returns, with a result or an error, even one that was submitted to a loop that
\* has ended or waits for a handshake that hangs.
EveryCallReturns == \A t \in Threads : pc[t] # "idle" ~> pc[t] = "idle"
=============================================================================
