----------------------------- MODULE LiveQueue -----------------------------
(***************************************************************************)
(* The live server of the vendored design tool (.github/skills/impeccable/ *)
(* scripts): the queue of browser events that agents lease by polling      *)
(* (live-server.mjs, live/poll-lanes.mjs), the journal from which a new    *)
(* server restores it (live/session-store.mjs), the page that generates,   *)
(* reviews and decides (live-browser.js), and the agents that answer       *)
(* (live-poll.mjs, live-complete.mjs).                                     *)
(*                                                                         *)
(* A handler of the server runs to its end (one thread), the preflight of  *)
(* a generate excepted.  Steering, manual edits and the variants one by    *)
(* one are left out: a session has its variants or it has none.            *)
(***************************************************************************)
EXTENDS Naturals, Sequences, SequencesExt, FiniteSetsExt

CONSTANTS MaxSession,   \* bound on the sessions a user starts
          Agents,
          Lanes,        \* the event types that every agent polls for
          MaxFaults     \* bound on server crashes, lost agents and pages cut off, together

Decisions == {"accept", "discard"}
EventTypes == Decisions \cup {"generate", "exit"}
Sessions == 1..MaxSession

ASSUME LiveAssumption ==
    /\ MaxSession \in Nat /\ MaxFaults \in Nat
    /\ Lanes \in [Agents -> SUBSET EventTypes]

VARIABLES
    up,         \* whether a server runs
    queue,      \* pendingEvents in order of arrival
    polls,      \* pendingPolls: the agents parked at the server
    exitTimer,  \* armed when the last page disconnects
    journal,    \* the durable snapshot of every session
    agent,      \* every agent process, with the event it handles
    attached,   \* whether the page is connected to this server
    screen, current,    \* state and currentSessionId of the page
    handled,    \* the sessions the page has seen decided (localStorage)
    written,    \* the sessions whose variants are in the source
    owed,       \* history: the decision on a session that nobody answered yet
    blamed,     \* history: sessions with an error reported after their decision
    faults

server == <<up, queue, polls, exitTimer, journal>>
page == <<attached, screen, current, handled>>
ghosts == <<owed, blamed>>
vars == <<server, agent, page, written, ghosts, faults>>

None == 0
Unborn == [phase |-> "new", pending |-> "none", prepared |-> FALSE,
           canceled |-> FALSE, completed |-> FALSE]
Free == [at |-> "idle", id |-> None, type |-> "none", holds |-> FALSE]

Init ==
    /\ up = TRUE /\ queue = <<>> /\ polls = <<>> /\ exitTimer = FALSE
    /\ journal = [s \in Sessions |-> Unborn]
    /\ agent = [a \in Agents |-> Free]
    /\ attached = TRUE /\ screen = "picking" /\ current = None /\ handled = {}
    /\ written = {}
    /\ owed = [s \in Sessions |-> "none"] /\ blamed = {}
    /\ faults = 0

-----------------------------------------------------------------------------
(* The queue and the polls *)

Event(s, type, prepared) ==
    [id |-> s, type |-> type, leased |-> FALSE, stage |-> IF prepared THEN "ready" ELSE "raw"]

eventPriority(e) == IF e.type = "generate" THEN 2 ELSE 0

Available(q, types) == {i \in DOMAIN q : ~q[i].leased /\ q[i].type \in types}
Selected(q, types) ==
    CHOOSE i \in Available(q, types) :
        \A k \in Available(q, types) \ {i} :
            \/ eventPriority(q[i]) < eventPriority(q[k])
            \/ eventPriority(q[i]) = eventPriority(q[k]) /\ i < k

\* Fault: the claim waits for the end of the preflight.
ClaimedAfterPreflight(q, i) ==
    IF q[i].type = "exit" THEN RemoveAt(q, i)
    ELSE [q EXCEPT ![i].leased = q[i].type # "generate" \/ q[i].stage # "raw"]
\* The entry is claimed before its preflight; an exit has no id and leaves with its reader.
Claimed(q, i) ==
    IF q[i].type = "exit" THEN RemoveAt(q, i)
    ELSE [q EXCEPT ![i].leased = TRUE, ![i].stage =
              IF q[i].type = "generate" /\ q[i].stage = "raw" THEN "preparing" ELSE @]

Reader(e) ==
    IF e.type = "exit" THEN [Free EXCEPT !.at = "off"]
    ELSE [at |-> IF e.type = "generate" /\ e.stage = "raw" THEN "waiting" ELSE "working",
          id |-> e.id, type |-> e.type, holds |-> TRUE]

Serve(w, a) ==
    IF Available(w.queue, Lanes[a]) = {} THEN [w EXCEPT !.polls = Append(@, a)]
    ELSE LET i == Selected(w.queue, Lanes[a])
         IN [w EXCEPT !.queue = Claimed(w.queue, i), !.agent[a] = Reader(w.queue[i])]

\* Every parked poll is tried in order; those without an event stay.
flushPendingPolls(q, ag) ==
    FoldLeft(Serve, [queue |-> q, polls |-> <<>>, agent |-> ag], polls)

\* Fault: what became available waits for the next poll.
NoFlush(q, ag) == queue' = q /\ polls' = polls /\ agent' = ag
\* Each handler ends by giving what became available to the parked polls.
Flush(q, ag) ==
    LET w == flushPendingPolls(q, ag)
    IN queue' = w.queue /\ polls' = w.polls /\ agent' = w.agent

Queued(q, s, type) == \E i \in DOMAIN q : q[i].id = s /\ q[i].type = type
Enqueued(q, e) == IF e.id # None /\ Queued(q, e.id, e.type) THEN q ELSE Append(q, e)
\* Whoever has a lease on an event of the session loses it with the event.
Released(ag, s, type) ==
    [a \in Agents |-> IF ag[a].id = s /\ ag[a].type = type THEN [ag[a] EXCEPT !.holds = FALSE]
                      ELSE ag[a]]
Without(q, s, types) ==
    FoldLeft(LAMBDA kept, e : IF e.id = s /\ e.type \in types THEN kept ELSE Append(kept, e), <<>>, q)

-----------------------------------------------------------------------------
(* The journal: applyEvent of the session store, one operator per event *)

Fenced == {"accept_requested", "discard_requested", "carbonize_required", "completed", "discarded"}
Closed(j) == j.phase \in {"completed", "discarded"}

Generated(j, prepared) ==
    [j EXCEPT !.phase = "generate_requested", !.pending = "generate", !.prepared = prepared]
Checkpointed(j, phase) ==
    IF j.canceled \/ j.phase \in Fenced THEN j ELSE [j EXCEPT !.phase = phase]
Requested(type) == IF type = "accept" THEN "accept_requested" ELSE "discard_requested"
\* Fault: the decision is journaled when an agent answers it.
DecidedWhenAnswered(j, type) == [j EXCEPT !.phase = Requested(type), !.canceled = TRUE]
Decided(j, type) ==
    [j EXCEPT !.phase = Requested(type), !.pending = type, !.canceled = TRUE]

Ended(j, phase) == [j EXCEPT !.phase = phase, !.pending = "none"]
AgentDone(j, carbonize) ==
    IF (j.canceled \/ j.phase \in Fenced) /\ ~(carbonize /\ j.phase = "accept_requested") THEN j
    ELSE [Ended(j, IF carbonize THEN "carbonize_required" ELSE "variants_ready")
            EXCEPT !.completed = TRUE]
AgentError(j, source) ==
    IF j.canceled /\ source = "generate" THEN j ELSE Ended(j, "agent_error")

Journaled(j, reply, source) ==
    CASE reply = "complete" -> Ended(j, "completed")
      [] reply = "discarded" -> Ended(j, "discarded")
      [] reply = "error" -> AgentError(j, source)
      [] OTHER -> AgentDone(j, reply = "carbonize")

-----------------------------------------------------------------------------
(* What the page does with a message, and when it connects *)

\* A done shows the variants of its session, a discard ends it; an error drops whatever the
\* page was doing.
Shown(reply, s) ==
    LET mine == attached /\ current = s
        over == mine /\ reply = "discarded"
    IN /\ screen' = IF over \/ (attached /\ reply = "error") THEN "picking"
                    ELSE IF mine /\ reply = "done" /\ screen \in {"generating", "recovering"}
                         THEN "cycling" ELSE screen
       /\ current' = IF over THEN None ELSE current
       /\ handled' = IF over THEN handled \cup {s} ELSE handled
       /\ UNCHANGED attached

\* POST /poll: the reply acknowledges an event of its source type, or of any type when the
\* source is "any"; it is journaled unless the session is over and nothing was acknowledged.
HandlePollPost(s, reply, source, ag) ==
    LET of == {i \in DOMAIN queue : queue[i].id = s /\ source \in {"any", queue[i].type}}
        acked == IF of = {} THEN "none" ELSE queue[Min(of)].type
    IN /\ IF of = {} THEN Flush(queue, ag)
          ELSE Flush(RemoveAt(queue, Min(of)), Released(ag, s, acked))
       /\ journal' = IF of = {} /\ Closed(journal[s]) THEN journal
                     ELSE [journal EXCEPT ![s] = Journaled(@, reply, acked)]
       /\ Shown(reply, s)
       /\ UNCHANGED <<up, exitTimer>>

\* Fault: the phase tells, which a page that resumes sets back.
ReadyPhase(j) == j.phase = "variants_ready"
\* A page that missed the end of a generation: its session's durable marker says so.
MissedCompletion(j) == j.completed /\ ~j.canceled /\ j.phase \notin Fenced

-----------------------------------------------------------------------------
(* The page *)

CanPost == up /\ attached

\* Go: a new session, generated from here on.
Go ==
    /\ CanPost /\ screen = "picking"
    /\ \E s \in Sessions :
          /\ journal[s].phase = "new" /\ \A t \in 1..(s - 1) : journal[t].phase # "new"
          /\ journal' = [journal EXCEPT ![s] = Generated(@, FALSE)]
          /\ current' = s
          /\ Flush(Enqueued(queue, Event(s, "generate", FALSE)), agent)
    /\ screen' = "generating"
    /\ UNCHANGED <<up, exitTimer, attached, handled, written, ghosts, faults>>

\* The variants reach the page by hot reload, before the agent says that it is done, or when
\* the page recovers them.
VariantsArrive ==
    /\ CanPost /\ screen \in {"generating", "recovering"} /\ current \in written
    /\ screen' = "cycling"
    /\ journal' = [journal EXCEPT ![current] = Checkpointed(@, "cycling")]
    /\ UNCHANGED <<up, queue, polls, exitTimer, agent, attached, current, handled, written,
                   ghosts, faults>>

\* handleAccept, handleDiscard: durable and fenced when the POST returns; the generate of the
\* session is retired.
Decide(type) ==
    /\ CanPost /\ screen = "cycling"
    /\ journal' = [journal EXCEPT ![current] = Decided(@, type)]
    /\ Flush(Enqueued(Without(queue, current, {"generate"}), Event(current, type, TRUE)),
             Released(agent, current, "generate"))
    /\ owed' = [owed EXCEPT ![current] = type]
    /\ handled' = handled \cup {current} /\ screen' = "picking" /\ current' = None
    /\ UNCHANGED <<up, exitTimer, attached, written, blamed, faults>>

\* Fault: a parked poll goes on waiting.
GoneUnseen(ag) == [a \in Agents |-> IF ag[a].at = "parked" THEN ag[a] ELSE [ag[a] EXCEPT !.holds = FALSE]]
\* What the agents notice of a server that is gone: their polls end, and a decision under way
\* cannot be posted.
Gone(ag) ==
    [a \in Agents |->
        IF ag[a].at \in {"parked", "waiting"} THEN Free
        ELSE IF ag[a].at = "working" /\ ag[a].type \in Decisions
             THEN [ag[a] EXCEPT !.at = "cleaning", !.holds = FALSE]
        ELSE [ag[a] EXCEPT !.holds = FALSE]]

Down ==
    /\ faults < MaxFaults /\ faults' = faults + 1
    /\ up' = FALSE /\ queue' = <<>> /\ polls' = <<>> /\ exitTimer' = FALSE
    /\ agent' = Gone(agent) /\ attached' = FALSE

\* The same, with the server gone before it answers: the page offers the choice again.
DecideUnheard(type) ==
    /\ CanPost /\ screen = "cycling"
    /\ journal' = [journal EXCEPT ![current] = Decided(@, type)]
    /\ owed' = [owed EXCEPT ![current] = type]
    /\ Down
    /\ UNCHANGED <<screen, current, handled, written, blamed>>

\* The page is left, reloaded or cut off; with the exit button it says so.
Detach(exit) ==
    /\ CanPost /\ faults < MaxFaults /\ faults' = faults + 1
    /\ attached' = FALSE /\ exitTimer' = TRUE
    /\ IF exit THEN Flush(Append(queue, Event(None, "exit", TRUE)), agent)
       ELSE UNCHANGED <<queue, polls, agent>>
    /\ UNCHANGED <<up, journal, screen, current, handled, written, ghosts>>

ExitTimer ==
    /\ up /\ exitTimer
    /\ exitTimer' = FALSE
    /\ Flush(Append(queue, Event(None, "exit", TRUE)), agent)
    /\ UNCHANGED <<up, journal, page, written, ghosts, faults>>

\* Fault: only the timer is stopped.
ExitsLeft(q) == q
cancelQueuedAnonymousExitEvents(q) == Without(q, None, {"exit"})

\* A page connects, or is loaded anew: queued exits are withdrawn.  It resumes the session whose
\* variants it finds in the document; else the one that it saved, as one that generates, unless
\* it was being accepted; and it reports where it is.
Attach(found) ==
    /\ up
    /\ attached' = TRUE /\ exitTimer' = FALSE
    /\ queue' = cancelQueuedAnonymousExitEvents(queue)
    /\ found \subseteq written \ handled
    /\ \/ \E s \in found :
             /\ current' = s /\ screen' = "cycling"
             /\ journal' = [journal EXCEPT ![s] = Checkpointed(@, "cycling")]
       \/ /\ found = {} /\ screen # "picking"
          /\ screen' = IF MissedCompletion(journal[current]) THEN "recovering" ELSE "generating"
          /\ journal' = [journal EXCEPT ![current] = Checkpointed(@, "generating")]
          /\ UNCHANGED current
       \/ /\ found = {} /\ screen \in {"picking", "cycling"}
          /\ screen' = "picking" /\ current' = None
          /\ UNCHANGED journal
    /\ UNCHANGED <<up, polls, agent, handled, written, ghosts, faults>>

-----------------------------------------------------------------------------
(* The agents *)

\* GET /poll: the best event at once, or a place among the parked polls.
Poll(a) ==
    /\ up /\ agent[a].at = "idle"
    /\ IF Available(queue, Lanes[a]) = {}
       THEN /\ polls' = Append(polls, a)
            /\ agent' = [agent EXCEPT ![a].at = "parked"]
            /\ UNCHANGED queue
       ELSE LET i == Selected(queue, Lanes[a])
            IN /\ queue' = Claimed(queue, i)
               /\ agent' = [agent EXCEPT ![a] = Reader(queue[i])]
               /\ UNCHANGED polls
    /\ UNCHANGED <<up, exitTimer, journal, page, written, ghosts, faults>>

\* The poll times out, or its process ends, and it is not parked any more.
Withdraw(a) ==
    /\ agent[a].at = "parked"
    /\ \E i \in DOMAIN polls : polls[i] = a /\ polls' = RemoveAt(polls, i)
    /\ agent' = [agent EXCEPT ![a] = Free]
    /\ UNCHANGED <<up, queue, exitTimer, journal, page, written, ghosts, faults>>

\* After an exit a new loop is started.
Join(a) ==
    /\ agent[a].at = "off"
    /\ agent' = [agent EXCEPT ![a] = Free]
    /\ UNCHANGED <<server, page, written, ghosts, faults>>

AgentLost(a) ==
    /\ agent[a].at \in {"waiting", "working", "wrote", "cleaning"}
    /\ faults < MaxFaults /\ faults' = faults + 1
    /\ agent' = [agent EXCEPT ![a] = Free]
    /\ UNCHANGED <<server, page, written, ghosts>>

\* The scaffold is there: the generate is journaled again with it, and its reader has it.
PreflightEnds ==
    \E i \in DOMAIN queue :
        /\ queue[i].stage = "preparing"
        /\ queue' = [queue EXCEPT ![i].stage = "ready", ![i].leased = TRUE]
        /\ journal' = [journal EXCEPT ![queue[i].id] = Generated(@, TRUE)]
        /\ agent' = [a \in Agents |->
              IF agent[a].at = "waiting" /\ agent[a].id = queue[i].id
              THEN [agent[a] EXCEPT !.at = "working"] ELSE agent[a]]
        /\ UNCHANGED <<up, polls, exitTimer, page, written, ghosts, faults>>

\* Ten minutes pass: the event is there for others.  An answer to a decision takes less than
\* that, unless its agent is lost.
Owner(e) == {a \in Agents : agent[a].at # "cleaning" /\ agent[a].id = e.id /\ agent[a].type = e.type}
LeaseExpires ==
    \E i \in DOMAIN queue :
        /\ queue[i].leased /\ queue[i].stage # "preparing"
        /\ queue[i].type = "generate" \/ Owner(queue[i]) = {}
        /\ Flush([queue EXCEPT ![i].leased = FALSE],
                 Released(agent, queue[i].id, queue[i].type))
        /\ UNCHANGED <<up, exitTimer, journal, page, written, ghosts, faults>>

Generating(a) == agent[a].type = "generate" /\ agent[a].at \in {"working", "wrote"}

\* The variants and their wrapper are written to the source in one edit.
Write(a) ==
    /\ Generating(a) /\ agent[a].at = "working"
    /\ agent' = [agent EXCEPT ![a].at = "wrote"]
    /\ written' = written \cup {agent[a].id}
    /\ UNCHANGED <<server, page, ghosts, faults>>

\* live-poll --reply done: whoever worked longer than its lease replies all the same.
ReplyDone(a) ==
    /\ up /\ Generating(a) /\ agent[a].at = "wrote"
    /\ HandlePollPost(agent[a].id, "done", "generate", [agent EXCEPT ![a] = Free])
    /\ UNCHANGED <<written, ghosts, faults>>

\* inferSourceEventType: a failure is put down to what is leased of the session.
ErrorSource(s) ==
    LET leased == {i \in DOMAIN queue : queue[i].id = s /\ queue[i].leased}
    IN IF leased = {} THEN "generate" ELSE queue[Min(leased)].type

ReplyError(a) ==
    /\ up /\ Generating(a)
    /\ HandlePollPost(agent[a].id, "error", ErrorSource(agent[a].id), [agent EXCEPT ![a] = Free])
    /\ blamed' = IF owed[agent[a].id] # "none" THEN blamed \cup {agent[a].id} ELSE blamed
    /\ UNCHANGED <<written, owed, faults>>

\* live-accept runs, and its outcome is posted with the type of the event; what needs cleaning
\* is left to live-complete.
Answers(type) ==
    CASE type = "accept" -> {"complete", "carbonize", "agent_done", "error"}
      [] type = "discard" -> {"discarded", "error"}
      [] OTHER -> {}
AnswerDecision(a, reply) ==
    /\ up /\ agent[a].at = "working" /\ reply \in Answers(agent[a].type)
    /\ LET s == agent[a].id
       IN /\ HandlePollPost(s, reply, agent[a].type,
                [agent EXCEPT ![a] =
                    IF reply \in {"carbonize", "agent_done"}
                    THEN [@ EXCEPT !.at = "cleaning", !.holds = FALSE] ELSE Free])
          /\ written' = IF reply = "error" THEN written ELSE written \ {s}
          /\ owed' = [owed EXCEPT ![s] = "none"]
    /\ UNCHANGED <<blamed, faults>>

\* live-complete: through the server, which infers what is acknowledged, or straight to the
\* journal.
CompleteSource(s, reply) ==
    IF reply = "discarded" THEN "discard"
    ELSE IF Queued(queue, s, "accept") THEN "accept"
    ELSE IF Queued(queue, s, "generate") THEN "generate" ELSE "any"
Complete(a) ==
    /\ agent[a].at = "cleaning"
    /\ LET s == agent[a].id
           reply == IF agent[a].type = "discard" THEN "discarded" ELSE "complete"
       IN /\ IF up THEN HandlePollPost(s, reply, CompleteSource(s, reply), [agent EXCEPT ![a] = Free])
             ELSE /\ journal' = [journal EXCEPT ![s] = Journaled(@, reply, "none")]
                  /\ agent' = [agent EXCEPT ![a] = Free]
                  /\ UNCHANGED <<up, queue, polls, exitTimer, page>>
          /\ written' = written \ {s}
          /\ owed' = [owed EXCEPT ![s] = "none"]
    /\ UNCHANGED <<blamed, faults>>

-----------------------------------------------------------------------------
(* The server stops and starts *)

Crash ==
    /\ up /\ Down
    /\ UNCHANGED <<journal, screen, current, handled, written, ghosts>>

\* restorePendingEventsFromStore: the pending event of every session that is not over.
Pending(j) == j.pending # "none" /\ ~Closed(j)
Restart ==
    /\ ~up
    /\ up' = TRUE
    /\ queue' = FoldLeft(LAMBDA q, s : IF Pending(journal[s])
                                       THEN Append(q, Event(s, journal[s].pending,
                                                journal[s].pending # "generate" \/ journal[s].prepared))
                                       ELSE q,
                         <<>>, [s \in Sessions |-> s])
    /\ UNCHANGED <<polls, exitTimer, journal, agent, page, written, ghosts, faults>>

Next ==
    \/ Go \/ VariantsArrive \/ ExitTimer
    \/ \E found \in SUBSET Sessions : Attach(found)
    \/ \E type \in Decisions : Decide(type) \/ DecideUnheard(type)
    \/ \E exit \in BOOLEAN : Detach(exit)
    \/ \E a \in Agents : \/ Poll(a) \/ Withdraw(a) \/ Join(a) \/ AgentLost(a)
                         \/ Write(a) \/ ReplyDone(a) \/ ReplyError(a) \/ Complete(a)
                         \/ \E reply \in Answers(agent[a].type) : AnswerDecision(a, reply)
    \/ PreflightEnds \/ LeaseExpires
    \/ Crash \/ Restart

Spec == Init /\ [][Next]_vars

-----------------------------------------------------------------------------

TypeOK ==
    /\ up \in BOOLEAN /\ exitTimer \in BOOLEAN /\ attached \in BOOLEAN
    /\ \A i \in DOMAIN queue :
          /\ queue[i].id \in Sessions \cup {None} /\ queue[i].type \in EventTypes
          /\ queue[i].leased \in BOOLEAN /\ queue[i].stage \in {"raw", "preparing", "ready"}
    /\ \A i \in DOMAIN polls : polls[i] \in Agents /\ agent[polls[i]].at = "parked"
    /\ \A a \in Agents :
          /\ agent[a].at \in {"off", "idle", "parked", "waiting", "working", "wrote", "cleaning"}
          /\ agent[a].type \in Decisions \cup {"generate", "none"}
          /\ agent[a].at = "parked" => \E i \in DOMAIN polls : polls[i] = a
    /\ screen \in {"picking", "generating", "recovering", "cycling"}
    /\ current \in Sessions \cup {None} /\ handled \subseteq Sessions /\ written \subseteq Sessions

\* No event is worked on by two agents whose leases both run: it is claimed before the server
\* waits for its preflight, and only an expired lease or a new server hands it out again.
OneWorkerPerEvent ==
    \A a, b \in Agents :
        a # b /\ agent[a].holds /\ agent[b].holds
            => agent[a].id # agent[b].id \/ agent[a].type # agent[b].type

\* No wakeup is lost: nothing that a parked poll could have lies in the queue, however it got
\* there: enqueued, expired, restored, or next after an acknowledgement.
NoWakeupLost == \A i \in DOMAIN polls : Available(queue, Lanes[polls[i]]) = {}

\* The user's decision stands: its session is not generated any more, and until an agent has
\* answered, the decision lies in the queue and in the journal, so that it outlives a crash.
DecisionStands ==
    \A s \in Sessions :
        /\ journal[s].canceled => ~Queued(queue, s, "generate") /\ journal[s].pending # "generate"
        /\ owed[s] # "none" /\ s \notin blamed
              => journal[s].pending = owed[s] /\ (up => Queued(queue, s, owed[s]))

\* A page never waits for variants that are finished: it has shown them, or recovers them,
\* even if it was away when they were announced.
NotStranded == attached /\ screen = "generating" =>
    ~journal[current].completed \/ journal[current].canceled

\* The agents are sent away only when no page is connected.
ExitOnlyWhenGone == attached => ~Queued(queue, None, "exit")
=============================================================================
