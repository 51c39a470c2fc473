-------------------------- MODULE LiveQueueProofs --------------------------
(***************************************************************************)
(* The live server and its agents and page, for any number of sessions,    *)
(* agents, lanes, queued events, parked polls and faults.                  *)
(*                                                                         *)
(* The invariant is LiveInv.  What the runs check is not inductive alone:  *)
(* that an event has one worker needs that whoever holds one has the lease *)
(* of the only entry there is of it (QueueOK, HeldOK); that a decision     *)
(* stands needs that it is the pending event of a session that is not over *)
(* (Owes), that no generate is queued of a decided session (EntryOK), and  *)
(* that an agent only cleans up after a decision (AgentOK).                *)
(*                                                                         *)
(* Almost every handler ends with flushPendingPolls.  It is a fold, and    *)
(* after k of its polls queue, polls and agents are what k times Serve     *)
(* make of them (FlushTrace, by FoldLemmas).  Serve keeps the leases and   *)
(* makes nothing available, so that a poll once tried in vain would be     *)
(* tried in vain again: after the last one nothing is left for anybody     *)
(* (FlushKeeps).  What a handler does before that need only keep LeasesOK  *)
(* and PollsOK, which makes the lemmas on single actions short.            *)
(*                                                                         *)
(* The other two folds, the removal of events (Without) and the restored   *)
(* queue of a new server (Restart), are taken step by step in the same     *)
(* way.                                                                    *)
(***************************************************************************)
EXTENDS LiveQueue, FoldLemmas, SequenceTheorems, TLAPS

-----------------------------------------------------------------------------
(* The invariant *)

Entry ==
    [id : Sessions \cup {None}, type : EventTypes, leased : BOOLEAN,
     stage : {"raw", "preparing", "ready"}]
Agent ==
    [at : {"off", "idle", "parked", "waiting", "working", "wrote", "cleaning"},
     id : Sessions \cup {None}, type : Decisions \cup {"generate", "none"}, holds : BOOLEAN]
Journal ==
    [phase : {"new", "generate_requested", "generating", "cycling", "variants_ready",
              "accept_requested", "discard_requested", "carbonize_required", "agent_error",
              "completed", "discarded"},
     pending : Decisions \cup {"generate", "none"}, prepared : BOOLEAN, canceled : BOOLEAN,
     completed : BOOLEAN]

Canceled(j) == {s \in Sessions : j[s].canceled}

\* A generate is of a session that is not decided, a decision of one that is; an exit has no
\* session and no lease; and what is prepared has been claimed.
EntryOK(e, C) ==
    /\ e.id = None <=> e.type = "exit"
    /\ e.type \in Decisions => e.id \in C
    /\ e.type = "generate" => e.id \notin C
    /\ e.type = "exit" => e.leased = FALSE
    /\ e.stage = "preparing" => e.type = "generate" /\ e.leased = TRUE

QueueOK(q, C) ==
    /\ q \in Seq(Entry)
    /\ \A i \in DOMAIN q : EntryOK(q[i], C)
    /\ \A i, k \in DOMAIN q :
          q[i].id # None /\ q[i].id = q[k].id /\ q[i].type = q[k].type => i = k

Idling == {"off", "idle", "parked"}
AgentOK(g, C) ==
    /\ g.at \in Idling => g.id = None /\ g.type = "none" /\ g.holds = FALSE
    /\ g.at \notin Idling => g.id \in Sessions /\ g.type \in Decisions \cup {"generate"}
    /\ g.at \in {"waiting", "wrote"} => g.type = "generate"
    /\ g.at = "cleaning" => g.type \in Decisions
    /\ g.type \in Decisions => g.id \in C

AgentsOK(ag, C) == ag \in [Agents -> Agent] /\ \A a \in Agents : AgentOK(ag[a], C)

\* Whoever holds an event has the lease of it, and has it alone.
HeldOK(q, ag) ==
    /\ \A a \in Agents : ag[a].holds =>
          \E i \in DOMAIN q : q[i].leased /\ q[i].id = ag[a].id /\ q[i].type = ag[a].type
    /\ \A a, b \in Agents : a # b /\ ag[a].holds /\ ag[b].holds
          => ag[a].id # ag[b].id \/ ag[a].type # ag[b].type

PollsOK(p, ag) ==
    /\ p \in Seq(Agents)
    /\ \A i, k \in DOMAIN p : p[i] = p[k] => i = k
    /\ \A i \in DOMAIN p : ag[p[i]].at = "parked"
    /\ \A a \in Agents : ag[a].at = "parked" => \E i \in DOMAIN p : p[i] = a

NothingFor(q, p) == \A i \in DOMAIN p : Available(q, Lanes[p[i]]) = {}

ServerOK ==
    /\ QueueOK(queue, Canceled(journal)) /\ AgentsOK(agent, Canceled(journal))
    /\ HeldOK(queue, agent) /\ PollsOK(polls, agent) /\ NothingFor(queue, polls)
    /\ up \in BOOLEAN /\ exitTimer \in BOOLEAN
    /\ ~up => queue = <<>> /\ polls = <<>> /\ exitTimer = FALSE

\* A decision cancels the session, and only a canceled session is fenced.
RecordOK(j) ==
    /\ j.canceled => j.pending # "generate"
    /\ j.pending \in Decisions => j.canceled
    /\ j.phase \in Fenced => j.canceled
    /\ j.phase = "new" => j.canceled = FALSE /\ j.completed = FALSE

JournalOK(j) == j \in [Sessions -> Journal] /\ \A s \in Sessions : RecordOK(j[s])

\* A decision that nobody answered or spoiled is pending, open and queued.
Owes(s) ==
    /\ journal[s].phase = "new" => owed[s] = "none"
    /\ owed[s] # "none" /\ s \notin blamed =>
          /\ journal[s].canceled /\ ~Closed(journal[s]) /\ journal[s].pending = owed[s]
          /\ up => Queued(queue, s, owed[s])

OwedOK == owed \in [Sessions -> Decisions \cup {"none"}] /\ \A s \in Sessions : Owes(s)

PageOK ==
    /\ attached \in BOOLEAN /\ screen \in {"picking", "generating", "recovering", "cycling"}
    /\ current \in Sessions \cup {None} /\ handled \subseteq Sessions /\ written \subseteq Sessions
    /\ screen # "picking" => current \in Sessions
    /\ attached => up /\ exitTimer = FALSE
    /\ NotStranded /\ ExitOnlyWhenGone

LiveInv == ServerOK /\ JournalOK(journal) /\ OwedOK /\ PageOK

-----------------------------------------------------------------------------
(* Entries leave a queue *)

\* The entries of r are entries of q, each another one.
Within(r, q) ==
    \E from \in [DOMAIN r -> DOMAIN q] :
        /\ \A k \in DOMAIN r : r[k] = q[from[k]]
        /\ \A k, l \in DOMAIN r : from[k] = from[l] => k = l

\* r is q without some of its entries, all of them of session s and of one of the types.
Removed(r, q, s, types) ==
    /\ r \in Seq(Entry) /\ Within(r, q)
    /\ \A k \in DOMAIN q : (q[k].id = s /\ q[k].type \in types) \/ \E m \in DOMAIN r : r[m] = q[k]

(* RemoveAt takes one element out (splice). *)
LEMMA RemovedAt ==
    ASSUME NEW S, NEW q \in Seq(S), NEW i \in DOMAIN q
    PROVE  /\ RemoveAt(q, i) \in Seq(S) /\ Len(RemoveAt(q, i)) = Len(q) - 1
           /\ \A k \in 1 .. Len(q) - 1 : RemoveAt(q, i)[k] = IF k < i THEN q[k] ELSE q[k + 1]
<1> DEFINE n == Len(q)
           a == SubSeq(q, 1, i - 1)
           b == SubSeq(q, i + 1, n)
<1>1. n \in Nat /\ i \in 1 .. n
    OBVIOUS
<1>2. a \in Seq(S) /\ Len(a) = i - 1 /\ \A k \in 1 .. i - 1 : a[k] = q[k]
    BY <1>1
<1>3. b \in Seq(S) /\ Len(b) = n - i /\ \A k \in 1 .. n - i : b[k] = q[i + k]
    BY <1>1
<1>4. RemoveAt(q, i) = a \o b
    BY DEF RemoveAt
<1> HIDE DEF a, b, n
<1>p. /\ a \o b \in Seq(S) /\ Len(a \o b) = Len(a) + Len(b)
      /\ \A k \in 1 .. Len(a) + Len(b) : (a \o b)[k] = IF k <= Len(a) THEN a[k] ELSE b[k - Len(a)]
    BY <1>2, <1>3, ConcatProperties, Zenon
<1>5. a \o b \in Seq(S) /\ Len(a \o b) = n - 1
    BY <1>p, <1>1, <1>2, <1>3
<1>6. ASSUME NEW k \in 1 .. n - 1 PROVE (a \o b)[k] = IF k < i THEN q[k] ELSE q[k + 1]
    <2>0. (a \o b)[k] = IF k <= Len(a) THEN a[k] ELSE b[k - Len(a)]
        <3>1. k \in 1 .. Len(a) + Len(b)
            BY <1>1, <1>2, <1>3
        <3> QED  BY <1>p, <3>1
    <2>1. CASE k < i
        BY <1>1, <1>2, <2>0, <2>1
    <2>2. CASE ~ (k < i)
        <3>1. (a \o b)[k] = b[k - (i - 1)] /\ k - (i - 1) \in 1 .. n - i
            BY <1>1, <1>2, <2>0, <2>2
        <3>2. i + (k - (i - 1)) = k + 1
            BY <1>1
        <3> QED  BY <1>3, <2>2, <3>1, <3>2
    <2> QED  BY <2>1, <2>2
<1> QED  BY <1>4, <1>5, <1>6 DEF n

(* What RemoveAt leaves of a queue. *)
LEMMA RemoveAtRemoves ==
    ASSUME NEW q \in Seq(Entry), NEW i \in DOMAIN q
    PROVE  Removed(RemoveAt(q, i), q, q[i].id, {q[i].type})
<1> DEFINE n == Len(q)
           r == RemoveAt(q, i)
           from == [k \in 1 .. n - 1 |-> IF k < i THEN k ELSE k + 1]
<1>1. n \in Nat /\ DOMAIN q = 1 .. n /\ i \in 1 .. n
    OBVIOUS
<1>2. /\ r \in Seq(Entry) /\ Len(r) = n - 1
      /\ \A k \in 1 .. n - 1 : r[k] = IF k < i THEN q[k] ELSE q[k + 1]
    BY RemovedAt
<1> HIDE DEF r, n
<1>3. DOMAIN r = 1 .. n - 1
    BY <1>1, <1>2
<1>4. Within(r, q)
    <2>1. from \in [DOMAIN r -> DOMAIN q]
        BY <1>1, <1>3
    <2>2. \A k \in DOMAIN r : r[k] = q[from[k]]
        BY <1>1, <1>2, <1>3
    <2>3. \A k, l \in DOMAIN r : from[k] = from[l] => k = l
        BY <1>1, <1>3
    <2> HIDE DEF from
    <2> QED  BY <2>1, <2>2, <2>3 DEF Within
<1>5. ASSUME NEW k \in DOMAIN q PROVE k = i \/ \E m \in DOMAIN r : r[m] = q[k]
    <2>1. CASE k < i
        <3>1. k \in 1 .. n - 1 /\ r[k] = q[k]
            BY <1>1, <1>2, <2>1
        <3> QED  BY <1>3, <3>1
    <2>2. CASE k > i
        <3>1. k - 1 \in 1 .. n - 1 /\ ~ (k - 1 < i) /\ (k - 1) + 1 = k
            BY <1>1, <2>2
        <3>2. r[k - 1] = q[k]
            BY <1>2, <3>1
        <3> QED  BY <1>3, <3>1, <3>2
    <2> QED  BY <1>1, <2>1, <2>2
<1> QED  BY <1>2, <1>4, <1>5 DEF Removed, r

(* Nor is the one event of a session left that was taken out. *)
LEMMA RemoveAtTakesIt ==
    ASSUME NEW C, NEW q, QueueOK(q, C), NEW i \in DOMAIN q, q[i].id # None
    PROVE  ~Queued(RemoveAt(q, i), q[i].id, q[i].type)
<1> DEFINE n == Len(q)
           r == RemoveAt(q, i)
<1>1. q \in Seq(Entry) /\ n \in Nat /\ DOMAIN q = 1 .. n /\ i \in 1 .. n
    BY DEF QueueOK
<1>2. /\ r \in Seq(Entry) /\ Len(r) = n - 1
      /\ \A k \in 1 .. n - 1 : r[k] = IF k < i THEN q[k] ELSE q[k + 1]
    BY <1>1, RemovedAt
<1> HIDE DEF r, n
<1>3. SUFFICES ASSUME NEW k \in DOMAIN r, r[k].id = q[i].id, r[k].type = q[i].type PROVE FALSE
    BY DEF Queued, r
<1>4. k \in 1 .. n - 1
    BY <1>1, <1>2
<1>5. PICK m \in 1 .. n : m # i /\ r[k] = q[m]
    BY <1>1, <1>2, <1>4
<1>6. m = i
    BY <1>1, <1>3, <1>5 DEF QueueOK
<1> QED  BY <1>5, <1>6

(* A queue stays in order when entries leave it. *)
LEMMA RemovedKeeps ==
    ASSUME NEW C, NEW q, QueueOK(q, C), NEW r, NEW s, NEW types, Removed(r, q, s, types)
    PROVE  /\ QueueOK(r, C)
           /\ \A T : Available(q, T) = {} => Available(r, T) = {}
           /\ \A id, type : Queued(r, id, type) => Queued(q, id, type)
           /\ \A id, type : Queued(q, id, type) /\ ~(id = s /\ type \in types) => Queued(r, id, type)
<1>1. PICK from \in [DOMAIN r -> DOMAIN q] :
        /\ \A k \in DOMAIN r : r[k] = q[from[k]]
        /\ \A k, l \in DOMAIN r : from[k] = from[l] => k = l
    BY DEF Removed, Within
<1>2. \A k \in DOMAIN r : from[k] \in DOMAIN q
    OBVIOUS
<1>3. QueueOK(r, C)
    <2>1. r \in Seq(Entry)
        BY DEF Removed
    <2>2. \A k \in DOMAIN r : EntryOK(r[k], C)
        BY <1>1, <1>2 DEF QueueOK
    <2>3. ASSUME NEW k \in DOMAIN r, NEW l \in DOMAIN r,
                 r[k].id # None, r[k].id = r[l].id, r[k].type = r[l].type
          PROVE  k = l
        <3>1. from[k] = from[l]
            BY <1>1, <1>2, <2>3 DEF QueueOK
        <3> QED  BY <1>1, <3>1
    <2> QED  BY <2>1, <2>2, <2>3 DEF QueueOK
<1>4. \A T : Available(q, T) = {} => Available(r, T) = {}
    BY <1>1, <1>2 DEF Available
<1>5. \A id, type : Queued(r, id, type) => Queued(q, id, type)
    BY <1>1, <1>2 DEF Queued
<1>6. \A id, type : Queued(q, id, type) /\ ~(id = s /\ type \in types) => Queued(r, id, type)
    BY DEF Removed, Queued
<1> QED  BY <1>3, <1>4, <1>5, <1>6

(* Leases go with what is removed, the others stay. *)
LEMMA RemovedHeld ==
    ASSUME NEW q, NEW ag, HeldOK(q, ag), NEW r, NEW s, NEW types, Removed(r, q, s, types), NEW new,
           \A a \in Agents : new[a].holds =>
              /\ ag[a].holds /\ new[a].id = ag[a].id /\ new[a].type = ag[a].type
              /\ ~(ag[a].id = s /\ ag[a].type \in types)
    PROVE  HeldOK(r, new)
<1>1. ASSUME NEW a \in Agents, new[a].holds
      PROVE  \E m \in DOMAIN r : r[m].leased /\ r[m].id = new[a].id /\ r[m].type = new[a].type
    <2>1. PICK k \in DOMAIN q : q[k].leased /\ q[k].id = ag[a].id /\ q[k].type = ag[a].type
        BY <1>1 DEF HeldOK
    <2>2. PICK m \in DOMAIN r : r[m] = q[k]
        BY <1>1, <2>1 DEF Removed
    <2> QED  BY <1>1, <2>1, <2>2
<1> QED  BY <1>1 DEF HeldOK

\* w[k] is what Without keeps of the first k entries.
Keeping(w, q, s, types) ==
    /\ w \in [0 .. Len(q) -> Seq(Entry)] /\ w[0] = <<>> /\ w[Len(q)] = Without(q, s, types)
    /\ \A k \in 1 .. Len(q) : w[k] = IF q[k].id = s /\ q[k].type \in types THEN w[k - 1]
                                     ELSE Append(w[k - 1], q[k])

(* Without, entry by entry. *)
LEMMA WithoutTrace ==
    ASSUME NEW q \in Seq(Entry), NEW s, NEW types
    PROVE  \E w : Keeping(w, q, s, types)
<1> DEFINE n == Len(q)
           Op(kept, e) == IF e.id = s /\ e.type \in types THEN kept ELSE Append(kept, e)
           F == [k \in 1 .. n |-> [kept \in Seq(Entry) |-> Op(kept, q[k])]]
           Eqn(f) == f = [p \in SUBSET DOMAIN q |->
                            IF p = {} THEN <<>> ELSE Op(f[p \ {Max(p)}], q[Max(p)])]
           iter == CHOOSE f : Eqn(f)
<1>0. n \in Nat /\ DOMAIN q = 1 .. n /\ \A k \in 1 .. n : q[k] \in Entry
    OBVIOUS
<1>1. \A kept \in Seq(Entry), k \in 1 .. n : Op(kept, q[k]) \in Seq(Entry)
    BY <1>0
<1>2. F \in [1 .. n -> [Seq(Entry) -> Seq(Entry)]] /\ <<>> \in Seq(Entry)
    BY <1>1
<1>3. \A k \in 1 .. n, kept \in Seq(Entry) : F[k][kept] = Op(kept, q[k])
    OBVIOUS
<1>4. Without(q, s, types) = iter[DOMAIN q]
    BY DEF Without, FoldLeft, MapThenFoldSet
<1> HIDE DEF F, Op, n
<1>5. PICK g : Iterates(g, n, Seq(Entry), <<>>, F)
    BY <1>0, <1>2, RecursionOnSubsets, Zenon
<1>6. Eqn(g)
    <2> SUFFICES ASSUME NEW p \in SUBSET (1 .. n), p # {}
                 PROVE  F[Max(p)][g[p \ {Max(p)}]] = Op(g[p \ {Max(p)}], q[Max(p)])
        BY <1>0, <1>5 DEF Iterates
    <2> QED  BY <1>0, <1>3, <1>5, MaxUpTo DEF Iterates
<1>7. Eqn(iter)
    BY <1>6, Zenon
<1> HIDE DEF iter
<1>8. FoldsAs(iter, n, Seq(Entry), <<>>, F)
    BY <1>0, <1>3, <1>7, MaxUpTo DEF FoldsAs
<1> DEFINE w == [k \in 0 .. n |-> iter[1 .. k]]
<1>9. Trace(w, n, Seq(Entry), <<>>, F)
    BY <1>0, <1>2, <1>8, TraceOfFold, Zenon
<1>10. w[n] = iter[1 .. n]
    BY <1>0
<1> HIDE DEF w
<1>11. \A k \in 1 .. n : w[k] = Op(w[k - 1], q[k])
    <2>1. \A k \in 1 .. n : k - 1 \in 0 .. n
        BY <1>0
    <2> QED  BY <1>3, <1>9, <2>1 DEF Trace
<1> QED  BY <1>0, <1>4, <1>9, <1>10, <1>11 DEF Keeping, Op, Trace, n

(* What Without leaves of a queue. *)
LEMMA WithoutRemoves ==
    ASSUME NEW q \in Seq(Entry), NEW s, NEW types
    PROVE  /\ Removed(Without(q, s, types), q, s, types)
           /\ \A m \in DOMAIN Without(q, s, types) :
                ~(Without(q, s, types)[m].id = s /\ Without(q, s, types)[m].type \in types)
<1> DEFINE n == Len(q)
           Gone1(e) == e.id = s /\ e.type \in types
           From(r, k) ==
              \E from \in [DOMAIN r -> 1 .. k] :
                 /\ \A m \in DOMAIN r : r[m] = q[from[m]]
                 /\ \A m, l \in DOMAIN r : from[m] = from[l] => m = l
           Good(r, k) ==
              /\ From(r, k)
              /\ \A j \in 1 .. k : Gone1(q[j]) \/ \E m \in DOMAIN r : r[m] = q[j]
              /\ \A m \in DOMAIN r : ~Gone1(r[m])
<1>0. n \in Nat /\ DOMAIN q = 1 .. n /\ \A k \in 1 .. n : q[k] \in Entry
    OBVIOUS
<1>a. PICK w : Keeping(w, q, s, types)
    BY WithoutTrace, Zenon
<1>1. /\ w \in [0 .. n -> Seq(Entry)] /\ w[0] = <<>> /\ w[n] = Without(q, s, types)
      /\ \A k \in 1 .. n : w[k] = IF Gone1(q[k]) THEN w[k - 1] ELSE Append(w[k - 1], q[k])
    BY <1>a DEF Keeping
<1> HIDE DEF n
<1>2. Good(w[0], 0)
    <2>1. DOMAIN w[0] = {}
        BY <1>1
    <2>2. From(w[0], 0)
        <3> DEFINE from == [m \in {} |-> m]
        <3>1. from \in [DOMAIN w[0] -> 1 .. 0]
            BY <2>1
        <3> QED  BY <2>1, <3>1
    <2>3. \A j \in 1 .. 0 : FALSE
        OBVIOUS
    <2> HIDE DEF From, Gone1
    <2> QED  BY <2>1, <2>2, <2>3
<1>3. ASSUME NEW k \in 0 .. n - 1, Good(w[k], k) PROVE Good(w[k + 1], k + 1)
    <2>0. k \in Nat /\ k \in 0 .. n /\ k + 1 \in 1 .. n /\ (k + 1) - 1 = k /\ q[k + 1] \in Entry
        BY <1>0
    <2> DEFINE r == w[k]
               next == w[k + 1]
    <2>1. r \in Seq(Entry) /\ Len(r) \in Nat /\ DOMAIN r = 1 .. Len(r)
        <3>1. r \in Seq(Entry)
            BY <1>1, <2>0
        <3> HIDE DEF r
        <3> QED  BY <3>1
    <2>2. next = IF Gone1(q[k + 1]) THEN r ELSE Append(r, q[k + 1])
        BY <1>1, <2>0
    <2>3. PICK from \in [DOMAIN r -> 1 .. k] :
                 /\ \A m \in DOMAIN r : r[m] = q[from[m]]
                 /\ \A m, l \in DOMAIN r : from[m] = from[l] => m = l
        BY <1>3
    <2>4. /\ \A j \in 1 .. k : Gone1(q[j]) \/ \E m \in DOMAIN r : r[m] = q[j]
          /\ \A m \in DOMAIN r : ~Gone1(r[m])
        BY <1>3
    <2>5. \A j \in 1 .. k + 1 : j \in 1 .. k \/ j = k + 1
        BY <2>0
    <2> HIDE DEF r, next, Gone1
    <2>6. CASE Gone1(q[k + 1])
        <3>1. next = r
            BY <2>2, <2>6
        <3>2. from \in [DOMAIN r -> 1 .. k + 1]
            BY <2>0, <2>3
        <3>3. From(r, k + 1)
            BY <2>3, <3>2
        <3> HIDE DEF From
        <3>4. Good(r, k + 1)
            BY <2>4, <2>5, <2>6, <3>3
        <3> QED  BY <3>1, <3>4 DEF next
    <2>7. CASE ~Gone1(q[k + 1])
        <3> DEFINE into == [m \in 1 .. Len(r) + 1 |-> IF m = Len(r) + 1 THEN k + 1 ELSE from[m]]
        <3>1. /\ next \in Seq(Entry) /\ Len(next) = Len(r) + 1 /\ DOMAIN next = 1 .. Len(r) + 1
              /\ \A m \in 1 .. Len(r) : next[m] = r[m]
              /\ next[Len(r) + 1] = q[k + 1]
            BY <2>0, <2>1, <2>2, <2>7
        <3>2. \A m \in 1 .. Len(r) + 1 : m = Len(r) + 1 \/ (m \in 1 .. Len(r) /\ m # Len(r) + 1)
            BY <2>1
        <3>3. \A m \in 1 .. Len(r) : from[m] \in 1 .. k /\ from[m] \in 1 .. k + 1 /\ from[m] # k + 1
            BY <2>0, <2>1, <2>3
        <3>4. into \in [DOMAIN next -> 1 .. k + 1]
            BY <2>0, <3>1, <3>2, <3>3
        <3>5. \A m \in DOMAIN next : next[m] = q[into[m]]
            BY <2>1, <2>3, <3>1, <3>2
        <3>6. \A m, l \in DOMAIN next : into[m] = into[l] => m = l
            BY <2>1, <2>3, <3>1, <3>2, <3>3
        <3> HIDE DEF into
        <3>7. From(next, k + 1)
            BY <3>4, <3>5, <3>6
        <3>8. \A j \in 1 .. k + 1 : Gone1(q[j]) \/ \E m \in DOMAIN next : next[m] = q[j]
            <4>1. \A m \in DOMAIN r : m \in DOMAIN next /\ next[m] = r[m]
                BY <2>1, <3>1
            <4>2. Len(r) + 1 \in DOMAIN next
                BY <2>1, <3>1
            <4> QED  BY <2>4, <2>5, <3>1, <4>1, <4>2
        <3>9. \A m \in DOMAIN next : ~Gone1(next[m])
            BY <2>1, <2>4, <2>7, <3>1, <3>2
        <3> HIDE DEF From
        <3>10. Good(next, k + 1)
            BY <3>7, <3>8, <3>9
        <3> QED  BY <3>10 DEF next
    <2> QED  BY <2>6, <2>7
<1>4. Good(w[n], n)
    <2> DEFINE T == {k \in 0 .. n : Good(w[k], k)}
    <2> HIDE DEF Good
    <2>1. 0 \in T /\ \A k \in 0 .. n - 1 : k \in T => k + 1 \in T
        BY <1>0, <1>2, <1>3
    <2> HIDE DEF T
    <2>2. 0 .. n \subseteq T
        BY <1>0, <2>1, UpTo, Zenon
    <2>3. n \in T
        BY <1>0, <2>2
    <2> QED  BY <2>3 DEF T
<1> DEFINE r == w[n]
<1>5. r \in Seq(Entry) /\ r = Without(q, s, types)
    BY <1>0, <1>1
<1>6. Within(r, q)
    BY <1>0, <1>4 DEF Within
<1>7. Removed(r, q, s, types)
    BY <1>0, <1>4, <1>5, <1>6 DEF Removed
<1> QED  BY <1>4, <1>5, <1>7

-----------------------------------------------------------------------------
(* Entries come, change and are claimed *)

\* r has the events of q; exits may have gone.
SameEvents(r, q) ==
    /\ \A s \in Sessions : \A type : Queued(r, s, type) <=> Queued(q, s, type)
    /\ Queued(r, None, "exit") => Queued(q, None, "exit")

(* An event is enqueued. *)
LEMMA AppendKeeps ==
    ASSUME NEW C, NEW q, QueueOK(q, C), NEW e \in Entry, EntryOK(e, C),
           e.id = None \/ ~Queued(q, e.id, e.type)
    PROVE  /\ QueueOK(Append(q, e), C)
           /\ \A ag : HeldOK(q, ag) => HeldOK(Append(q, e), ag)
           /\ \A s, type : Queued(Append(q, e), s, type)
                              <=> Queued(q, s, type) \/ (e.id = s /\ e.type = type)
<1> DEFINE n == Len(q)
           r == Append(q, e)
<1>0. q \in Seq(Entry) /\ n \in Nat /\ DOMAIN q = 1 .. n
    BY DEF QueueOK
<1>1. /\ r \in Seq(Entry) /\ DOMAIN r = 1 .. n + 1
      /\ \A k \in 1 .. n : r[k] = q[k]
      /\ r[n + 1] = e
    BY <1>0
<1>2. \A k \in 1 .. n + 1 : k \in 1 .. n \/ k = n + 1
    BY <1>0
<1>3. n + 1 \in 1 .. n + 1 /\ \A k \in 1 .. n : k \in 1 .. n + 1
    BY <1>0
<1> HIDE DEF r, n
<1>4. \A s, type : Queued(r, s, type) <=> Queued(q, s, type) \/ (e.id = s /\ e.type = type)
    BY <1>0, <1>1, <1>2, <1>3 DEF Queued
<1>5. QueueOK(r, C)
    <2>1. \A k \in DOMAIN r : EntryOK(r[k], C)
        BY <1>0, <1>1, <1>2 DEF QueueOK
    <2>2. ASSUME NEW k \in DOMAIN r, NEW l \in DOMAIN r,
                 r[k].id # None, r[k].id = r[l].id, r[k].type = r[l].type
          PROVE  k = l
        <3>1. CASE k \in 1 .. n /\ l \in 1 .. n
            BY <1>0, <1>1, <2>2, <3>1 DEF QueueOK
        <3>2. CASE k \in 1 .. n /\ l = n + 1
            BY <1>0, <1>1, <2>2, <3>2 DEF Queued
        <3>3. CASE k = n + 1 /\ l \in 1 .. n
            BY <1>0, <1>1, <2>2, <3>3 DEF Queued
        <3> QED  BY <1>1, <1>2, <3>1, <3>2, <3>3
    <2> QED  BY <1>1, <2>1, <2>2 DEF QueueOK
<1>6. ASSUME NEW ag, HeldOK(q, ag) PROVE HeldOK(r, ag)
    <2>1. \A k \in DOMAIN q : k \in DOMAIN r /\ r[k] = q[k]
        BY <1>0, <1>1, <1>3
    <2> QED  BY <1>6, <2>1 DEF HeldOK
<1> QED  BY <1>4, <1>5, <1>6 DEF r

\* r is q with f in the place of the entry i, for the same event.
Updated(r, q, i, f) ==
    /\ DOMAIN r = DOMAIN q /\ r[i] = f
    /\ \A k \in DOMAIN q : k # i => r[k] = q[k]
    /\ \A s, type : Queued(r, s, type) <=> Queued(q, s, type)
    /\ f.leased => \A T : Available(q, T) = {} => Available(r, T) = {}

(* An entry changes, but not its event. *)
LEMMA UpdateKeeps ==
    ASSUME NEW C, NEW q, QueueOK(q, C), NEW i \in DOMAIN q, NEW f \in Entry,
           f.id = q[i].id, f.type = q[i].type, EntryOK(f, C), NEW r, r = [q EXCEPT ![i] = f]
    PROVE  QueueOK(r, C) /\ Updated(r, q, i, f)
<1>1. /\ r \in Seq(Entry) /\ DOMAIN r = DOMAIN q /\ r[i] = f
      /\ \A k \in DOMAIN q : k # i => r[k] = q[k]
    BY DEF QueueOK
<1>2. \A k \in DOMAIN q : r[k].id = q[k].id /\ r[k].type = q[k].type
    BY <1>1
<1>3. \A k \in DOMAIN q : EntryOK(r[k], C)
    BY <1>1 DEF QueueOK
<1>4. QueueOK(r, C)
    BY <1>1, <1>2, <1>3 DEF QueueOK
<1>5. \A s, type : Queued(r, s, type) <=> Queued(q, s, type)
    BY <1>1, <1>2 DEF Queued
<1>6. f.leased => \A T : Available(q, T) = {} => Available(r, T) = {}
    BY <1>1, <1>2 DEF Available
<1> QED  BY <1>1, <1>4, <1>5, <1>6 DEF Updated

(* The event that is selected is available (findNextAvailablePendingEvent). *)
LEMMA SelectedIsAvailable ==
    ASSUME NEW q \in Seq(Entry), NEW types, Available(q, types) # {}
    PROVE  Selected(q, types) \in Available(q, types)
<1> DEFINE A == Available(q, types)
           First == {i \in A : q[i].type # "generate"}
           Best(i) == \A k \in A \ {i} :
                        \/ eventPriority(q[i]) < eventPriority(q[k])
                        \/ eventPriority(q[i]) = eventPriority(q[k]) /\ i < k
<1>1. A \in SUBSET Nat /\ A # {} /\ First \in SUBSET Nat /\ First \subseteq A
    BY DEF Available
<1>2. \A i \in A : eventPriority(q[i]) = IF i \in First THEN 0 ELSE 2
    BY DEF eventPriority
<1>3. \A i \in A \ First : \A k \in First : 0 < 2
    OBVIOUS
<1> HIDE DEF A, First
<1>4. \E i \in A : Best(i)
    <2>1. CASE First # {}
        <3>1. PICK m \in First : \A k \in First : m <= k
            BY <1>1, <2>1, LeastOf
        <3>2. \A k \in First : k # m => m < k
            BY <1>1, <3>1
        <3>3. Best(m)
            BY <1>1, <1>2, <3>1, <3>2
        <3> QED  BY <1>1, <3>1, <3>3
    <2>2. CASE First = {}
        <3>1. PICK m \in A : \A k \in A : m <= k
            BY <1>1, LeastOf
        <3>2. \A k \in A : k # m => m < k
            BY <1>1, <3>1
        <3>3. Best(m)
            BY <1>2, <2>2, <3>1, <3>2
        <3> QED  BY <3>1, <3>3
    <2> QED  BY <2>1, <2>2
<1>5. Selected(q, types) = CHOOSE i \in A : Best(i)
    BY DEF Selected, A
<1> HIDE DEF Best
<1> QED  BY <1>4, <1>5 DEF A

(* What the selected entry becomes, and whoever reads it. *)
LEMMA ReaderType ==
    ASSUME NEW C \in SUBSET Sessions, NEW e \in Entry, EntryOK(e, C)
    PROVE  /\ Reader(e) \in Agent /\ AgentOK(Reader(e), C)
           /\ Reader(e).at \in {"off", "waiting", "working"}
           /\ Reader(e).holds => Reader(e).id = e.id /\ Reader(e).type = e.type /\ e.type # "exit"
<1>1. CASE e.type = "exit"
    <2>1. Reader(e) = [at |-> "off", id |-> None, type |-> "none", holds |-> FALSE]
        BY <1>1 DEF Reader, Free
    <2>2. None \in Sessions \cup {None} /\ "none" \in Decisions \cup {"generate", "none"}
        OBVIOUS
    <2> QED  BY <2>1, <2>2 DEF Agent, AgentOK, Idling, Decisions
<1>2. CASE e.type # "exit"
    <2>1. PICK at \in {"waiting", "working"} :
              /\ Reader(e) = [at |-> at, id |-> e.id, type |-> e.type, holds |-> TRUE]
              /\ at = "waiting" => e.type = "generate"
        BY <1>2 DEF Reader
    <2>2. e.id \in Sessions /\ e.type \in Decisions \cup {"generate"}
        BY <1>2 DEF Entry, EntryOK, EventTypes
    <2>3. e.type \in Decisions => e.id \in C
        BY DEF EntryOK
    <2> QED  BY <1>2, <2>1, <2>2, <2>3 DEF Agent, AgentOK, Idling
<1> QED  BY <1>1, <1>2

\* Queue and agents in order, with every lease in place.
LeasesOK(q, ag, C) == QueueOK(q, C) /\ AgentsOK(ag, C) /\ HeldOK(q, ag)

(* An agent that has nothing claims the selected event: it is the only one that has it (GET /poll). *)
LEMMA ClaimKeeps ==
    ASSUME NEW C \in SUBSET Sessions, NEW q, NEW ag, LeasesOK(q, ag, C),
           NEW a \in Agents, ag[a].at \in Idling,
           NEW types, NEW i \in Available(q, types)
    PROVE  /\ LeasesOK(Claimed(q, i), [ag EXCEPT ![a] = Reader(q[i])], C)
           /\ \A T : Available(q, T) = {} => Available(Claimed(q, i), T) = {}
           /\ SameEvents(Claimed(q, i), q)
<1> DEFINE e == q[i]
           r == Claimed(q, i)
           new == [ag EXCEPT ![a] = Reader(e)]
<1>0. QueueOK(q, C) /\ AgentsOK(ag, C) /\ HeldOK(q, ag) /\ q \in Seq(Entry) /\ ag \in [Agents -> Agent]
    BY DEF LeasesOK, QueueOK, AgentsOK
<1>1. i \in DOMAIN q /\ e \in Entry /\ EntryOK(e, C) /\ e.leased = FALSE
    <2>1. i \in DOMAIN q /\ ~e.leased
        BY DEF Available
    <2>2. e \in Entry
        BY <1>0, <2>1
    <2> QED  BY <1>0, <2>1, <2>2 DEF QueueOK, Entry
<1>2. /\ Reader(e) \in Agent /\ AgentOK(Reader(e), C)
      /\ Reader(e).holds => Reader(e).id = e.id /\ Reader(e).type = e.type /\ e.type # "exit"
    BY <1>1, ReaderType
<1>3. /\ new \in [Agents -> Agent] /\ new[a] = Reader(e)
      /\ \A b \in Agents : b # a => new[b] = ag[b]
    BY <1>0, <1>2
<1> HIDE DEF new, e
<1>4. AgentsOK(new, C)
    BY <1>0, <1>2, <1>3 DEF AgentsOK
<1>5. ASSUME NEW b \in Agents, b # a, new[b].holds
      PROVE  /\ ag[b].holds /\ new[b].id = ag[b].id /\ new[b].type = ag[b].type
             /\ new[b].id # None /\ new[b].type # "exit"
             /\ new[b].id # e.id \/ new[b].type # e.type
    <2>1. ag[b].holds /\ new[b] = ag[b]
        BY <1>3, <1>5
    <2>2. ag[b].id \in Sessions /\ ag[b].type \in Decisions \cup {"generate"}
        BY <1>0, <2>1 DEF AgentsOK, AgentOK
    <2>3. ag[b].id # None /\ ag[b].type # "exit"
        BY <2>2, LiveAssumption DEF Sessions, None, Decisions
    <2>4. PICK k \in DOMAIN q : q[k].leased /\ q[k].id = ag[b].id /\ q[k].type = ag[b].type
        BY <1>0, <2>1 DEF HeldOK
    <2>5. k # i
        BY <1>1, <2>4 DEF e
    <2>6. q[k].id # e.id \/ q[k].type # e.type
        BY <1>0, <1>1, <2>3, <2>4, <2>5 DEF QueueOK, e
    <2> QED  BY <2>1, <2>3, <2>4, <2>6
<1>6. CASE e.type = "exit"
    <2>1. r = RemoveAt(q, i) /\ e.id = None
        BY <1>1, <1>6 DEF Claimed, EntryOK, e
    <2>2. Removed(r, q, None, {"exit"})
        BY <1>0, <1>1, <1>6, <2>1, RemoveAtRemoves DEF e
    <2> HIDE DEF r
    <2>3. /\ QueueOK(r, C)
          /\ \A T : Available(q, T) = {} => Available(r, T) = {}
          /\ \A id, type : Queued(r, id, type) => Queued(q, id, type)
          /\ \A id, type : Queued(q, id, type) /\ ~(id = None /\ type \in {"exit"}) => Queued(r, id, type)
        BY <1>0, <2>2, RemovedKeeps
    <2>4. \A b \in Agents : new[b].holds =>
              /\ ag[b].holds /\ new[b].id = ag[b].id /\ new[b].type = ag[b].type
              /\ ~(ag[b].id = None /\ ag[b].type \in {"exit"})
        BY <1>2, <1>3, <1>5, <1>6
    <2>5. HeldOK(r, new)
        BY <1>0, <2>2, <2>4, RemovedHeld
    <2>6. SameEvents(r, q)
        <3>1. \A s \in Sessions : s # None
            BY LiveAssumption DEF Sessions, None
        <3> QED  BY <2>3, <3>1 DEF SameEvents
    <2> QED  BY <1>4, <2>3, <2>5, <2>6 DEF LeasesOK, r, new, e
<1>7. CASE e.type # "exit"
    <2> DEFINE stage == IF e.type = "generate" /\ e.stage = "raw" THEN "preparing" ELSE e.stage
               f == [e EXCEPT !.leased = TRUE, !.stage = stage]
    <2>1. /\ f \in Entry /\ f.id = e.id /\ f.type = e.type /\ f.leased = TRUE
          /\ f.stage = "preparing" => e.type = "generate"
        BY <1>1 DEF Entry, EntryOK
    <2>2. EntryOK(f, C)
        BY <1>1, <1>7, <2>1 DEF EntryOK
    <2>3. r = [q EXCEPT ![i] = f]
        BY <1>0, <1>1, <1>7 DEF Claimed, e
    <2> HIDE DEF f, r
    <2>4. QueueOK(r, C) /\ Updated(r, q, i, f)
        <3>1. f.id = q[i].id /\ f.type = q[i].type
            BY <2>1 DEF e
        <3>2. i \in DOMAIN q /\ f \in Entry
            BY <1>1, <2>1
        <3> QED  BY <1>0, <2>2, <2>3, <3>1, <3>2, UpdateKeeps, Zenon
    <2>5. HeldOK(r, new)
        <3>1. ASSUME NEW b \in Agents, new[b].holds
              PROVE  \E k \in DOMAIN r : r[k].leased /\ r[k].id = new[b].id /\ r[k].type = new[b].type
            <4>1. CASE b = a
                BY <1>1, <1>2, <1>3, <2>1, <2>4, <3>1, <4>1 DEF Updated
            <4>2. CASE b # a
                <5>1. PICK k \in DOMAIN q : q[k].leased /\ q[k].id = ag[b].id /\ q[k].type = ag[b].type
                    BY <1>0, <1>5, <3>1, <4>2 DEF HeldOK
                <5>2. k # i
                    BY <1>1, <5>1 DEF e
                <5> QED  BY <1>5, <2>4, <3>1, <4>2, <5>1, <5>2 DEF Updated
            <4> QED  BY <4>1, <4>2
        <3>2. ASSUME NEW b \in Agents, NEW c \in Agents, b # c, new[b].holds, new[c].holds
              PROVE  new[b].id # new[c].id \/ new[b].type # new[c].type
            <4>1. CASE b = a
                BY <1>2, <1>3, <1>5, <3>2, <4>1
            <4>2. CASE c = a
                BY <1>2, <1>3, <1>5, <3>2, <4>2
            <4>3. CASE b # a /\ c # a
                BY <1>0, <1>5, <3>2, <4>3 DEF HeldOK
            <4> QED  BY <4>1, <4>2, <4>3
        <3> QED  BY <3>1, <3>2 DEF HeldOK
    <2>6. SameEvents(r, q)
        BY <2>4 DEF SameEvents, Updated
    <2> QED  BY <1>4, <2>1, <2>4, <2>5, <2>6 DEF LeasesOK, Updated, r, new, e
<1> QED  BY <1>6, <1>7

-----------------------------------------------------------------------------
(* The parked polls *)

World == [queue : Seq(Entry), polls : Seq(Agents), agent : [Agents -> Agent]]

(* Serving one poll keeps the types. *)
LEMMA ServeType ==
    ASSUME NEW w \in World, NEW a \in Agents
    PROVE  Serve(w, a) \in World
<1> DEFINE q == w.queue
           i == Selected(q, Lanes[a])
<1>1. q \in Seq(Entry) /\ w.polls \in Seq(Agents) /\ w.agent \in [Agents -> Agent]
    BY DEF World
<1>2. CASE Available(q, Lanes[a]) = {}
    <2>1. Append(w.polls, a) \in Seq(Agents)
        BY <1>1
    <2>2. Serve(w, a) = [w EXCEPT !.polls = Append(w.polls, a)]
        BY <1>2 DEF Serve
    <2> QED  BY <2>1, <2>2 DEF World
<1>3. CASE Available(q, Lanes[a]) # {}
    <2>1. i \in DOMAIN q
        BY <1>1, <1>3, SelectedIsAvailable DEF Available
    <2> HIDE DEF i
    <2>2. q[i] \in Entry
        BY <1>1, <2>1
    <2> HIDE DEF q
    <2>3. Claimed(q, i) \in Seq(Entry)
        <3>1. CASE q[i].type = "exit"
            BY <1>1, <2>1, <3>1, RemovedAt DEF Claimed
        <3>2. CASE q[i].type # "exit"
            <4> DEFINE stage == IF q[i].type = "generate" /\ q[i].stage = "raw" THEN "preparing" ELSE q[i].stage
                       f == [q[i] EXCEPT !.leased = TRUE, !.stage = stage]
            <4>1. f \in Entry
                BY <2>2 DEF Entry
            <4>2. Claimed(q, i) = [q EXCEPT ![i] = f]
                BY <1>1, <2>1, <3>2 DEF Claimed
            <4> HIDE DEF f
            <4> QED  BY <1>1, <2>1, <4>1, <4>2
        <3> QED  BY <3>1, <3>2
    <2>4. Reader(q[i]) \in Agent
        <3>1. CASE q[i].type = "exit"
            <4>1. Reader(q[i]) = [at |-> "off", id |-> None, type |-> "none", holds |-> FALSE]
                BY <3>1 DEF Reader, Free
            <4>2. None \in Sessions \cup {None} /\ "none" \in Decisions \cup {"generate", "none"}
                OBVIOUS
            <4> QED  BY <4>1, <4>2 DEF Agent
        <3>2. CASE q[i].type # "exit"
            <4>1. PICK at \in {"waiting", "working"} :
                    Reader(q[i]) = [at |-> at, id |-> q[i].id, type |-> q[i].type, holds |-> TRUE]
                BY <3>2 DEF Reader
            <4>2. q[i].id \in Sessions \cup {None} /\ q[i].type \in Decisions \cup {"generate", "none"}
                BY <2>2, <3>2 DEF Entry, EventTypes
            <4> QED  BY <4>1, <4>2 DEF Agent
        <3> QED  BY <3>1, <3>2
    <2>5. Serve(w, a) = [w EXCEPT !.queue = Claimed(q, i), !.agent = [w.agent EXCEPT ![a] = Reader(q[i])]]
        BY <1>1, <1>3 DEF Serve, i, q
    <2>6. [w.agent EXCEPT ![a] = Reader(q[i])] \in [Agents -> Agent]
        BY <1>1, <2>4
    <2> QED  BY <2>3, <2>5, <2>6 DEF World
<1> QED  BY <1>2, <1>3

\* w[k] is what flushPendingPolls has made of queue and agents after k polls.
Flushing(w, q, p, ag) ==
    /\ w \in [0 .. Len(p) -> World]
    /\ w[0] = [queue |-> q, polls |-> <<>>, agent |-> ag]
    /\ \A k \in 1 .. Len(p) : w[k] = Serve(w[k - 1], p[k])

(* flushPendingPolls, poll by poll. *)
LEMMA FlushTrace ==
    ASSUME NEW q \in Seq(Entry), NEW ag \in [Agents -> Agent], polls \in Seq(Agents)
    PROVE  \E w : Flushing(w, q, polls, ag) /\ w[Len(polls)] = flushPendingPolls(q, ag)
<1> DEFINE n == Len(polls)
           base == [queue |-> q, polls |-> <<>>, agent |-> ag]
           F == [k \in 1 .. n |-> [v \in World |-> Serve(v, polls[k])]]
           Eqn(f) == f = [p \in SUBSET DOMAIN polls |->
                            IF p = {} THEN base ELSE Serve(f[p \ {Max(p)}], polls[Max(p)])]
           iter == CHOOSE f : Eqn(f)
<1>0. n \in Nat /\ DOMAIN polls = 1 .. n /\ \A k \in 1 .. n : polls[k] \in Agents
    OBVIOUS
<1>1. \A v \in World, k \in 1 .. n : Serve(v, polls[k]) \in World
    BY <1>0, ServeType
<1>2. F \in [1 .. n -> [World -> World]] /\ base \in World
    <2>1. <<>> \in Seq(Agents)
        OBVIOUS
    <2> QED  BY <1>1, <2>1 DEF World
<1>3. \A k \in 1 .. n, v \in World : F[k][v] = Serve(v, polls[k])
    OBVIOUS
<1>4. flushPendingPolls(q, ag) = iter[DOMAIN polls]
    BY DEF flushPendingPolls, FoldLeft, MapThenFoldSet
<1> HIDE DEF F, n, base
<1>5. PICK g : Iterates(g, n, World, base, F)
    BY <1>0, <1>2, RecursionOnSubsets, Zenon
<1>6. Eqn(g)
    <2> SUFFICES ASSUME NEW p \in SUBSET (1 .. n), p # {}
                 PROVE  F[Max(p)][g[p \ {Max(p)}]] = Serve(g[p \ {Max(p)}], polls[Max(p)])
        BY <1>0, <1>5 DEF Iterates
    <2> QED  BY <1>0, <1>3, <1>5, MaxUpTo DEF Iterates
<1>7. Eqn(iter)
    BY <1>6, Zenon
<1> HIDE DEF iter
<1>8. FoldsAs(iter, n, World, base, F)
    BY <1>0, <1>3, <1>7, MaxUpTo DEF FoldsAs
<1> DEFINE w == [k \in 0 .. n |-> iter[1 .. k]]
<1>9. Trace(w, n, World, base, F)
    BY <1>0, <1>2, <1>8, TraceOfFold, Zenon
<1>10. w[n] = iter[1 .. n]
    BY <1>0
<1> HIDE DEF w
<1>11. \A k \in 1 .. n : w[k] = Serve(w[k - 1], polls[k])
    <2>1. \A k \in 1 .. n : k - 1 \in 0 .. n
        BY <1>0
    <2> QED  BY <1>3, <1>9, <2>1 DEF Trace
<1>12. Flushing(w, q, polls, ag)
    BY <1>9, <1>11 DEF Flushing, Trace, n, base
<1> QED  BY <1>0, <1>4, <1>10, <1>12 DEF n

\* After k of the polls p, the ones kept and the ones not tried yet are those that are parked.
ParkedAre(kept, p, k, ag) ==
    /\ kept \in Seq(Agents)
    /\ \A i, l \in DOMAIN kept : kept[i] = kept[l] => i = l
    /\ \A i \in DOMAIN kept : ag[kept[i]].at = "parked" /\ \E j \in 1 .. k : p[j] = kept[i]
    /\ \A j \in k + 1 .. Len(p) : ag[p[j]].at = "parked"
    /\ \A a \in Agents : ag[a].at = "parked" =>
          (\E i \in DOMAIN kept : kept[i] = a) \/ (\E j \in k + 1 .. Len(p) : p[j] = a)

\* What holds of queue, polls and agents after k polls.
ServedTo(w, k, q, p, C) ==
    /\ LeasesOK(w.queue, w.agent, C) /\ SameEvents(w.queue, q)
    /\ NothingFor(w.queue, w.polls)
    /\ ParkedAre(w.polls, p, k, w.agent)

(* A poll that stays parked. *)
LEMMA ParkedStays ==
    ASSUME NEW p \in Seq(Agents), \A i, l \in DOMAIN p : p[i] = p[l] => i = l,
           NEW k \in 0 .. Len(p) - 1, NEW kept, NEW ag, ParkedAre(kept, p, k, ag)
    PROVE  ParkedAre(Append(kept, p[k + 1]), p, k + 1, ag)
<1> DEFINE n == Len(p)
           a == p[k + 1]
           m == Len(kept)
           new == Append(kept, a)
<1>0. /\ n \in Nat /\ DOMAIN p = 1 .. n /\ k \in Nat /\ k + 1 \in 1 .. n
      /\ \A j \in 1 .. k : j \in 1 .. n /\ j \in 1 .. k + 1 /\ j # k + 1
      /\ k + 1 \in 1 .. k + 1 /\ k + 1 \in k + 1 .. n
      /\ \A j \in k + 1 .. n : j = k + 1 \/ j \in k + 1 + 1 .. n
      /\ \A j \in k + 1 + 1 .. n : j \in k + 1 .. n
    OBVIOUS
<1>1. a \in Agents /\ kept \in Seq(Agents) /\ m \in Nat /\ DOMAIN kept = 1 .. m
    BY <1>0 DEF ParkedAre
<1>2. /\ new \in Seq(Agents) /\ DOMAIN new = 1 .. m + 1
      /\ \A i \in 1 .. m : new[i] = kept[i]
      /\ new[m + 1] = a
    BY <1>1
<1>3. /\ \A i \in 1 .. m + 1 : i = m + 1 \/ i \in 1 .. m
      /\ \A i \in 1 .. m : i \in 1 .. m + 1
      /\ m + 1 \in 1 .. m + 1
    BY <1>1
<1>4. \A i \in 1 .. m : kept[i] # a
    <2> SUFFICES ASSUME NEW i \in 1 .. m, kept[i] = a PROVE FALSE
        OBVIOUS
    <2>1. PICK j \in 1 .. k : p[j] = kept[i]
        BY <1>1 DEF ParkedAre
    <2> QED  BY <1>0, <2>1
<1>5. ag[a].at = "parked" /\ \A j \in k + 1 + 1 .. n : ag[p[j]].at = "parked"
    BY <1>0 DEF ParkedAre
<1>6. \A i \in 1 .. m : ag[kept[i]].at = "parked" /\ \E j \in 1 .. k : p[j] = kept[i]
    BY <1>1 DEF ParkedAre
<1>7. \A b \in Agents : ag[b].at = "parked" =>
          (\E i \in 1 .. m : kept[i] = b) \/ (\E j \in k + 1 .. n : p[j] = b)
    BY <1>1 DEF ParkedAre
<1>8. \A i, l \in 1 .. m : kept[i] = kept[l] => i = l
    BY <1>1 DEF ParkedAre
<1> HIDE DEF n, m, new
<1>9. \A i, l \in DOMAIN new : new[i] = new[l] => i = l
    BY <1>2, <1>3, <1>4, <1>8
<1>10. \A i \in DOMAIN new : ag[new[i]].at = "parked" /\ \E j \in 1 .. k + 1 : p[j] = new[i]
    BY <1>0, <1>2, <1>3, <1>5, <1>6
<1>11. \A b \in Agents : ag[b].at = "parked" =>
          (\E i \in DOMAIN new : new[i] = b) \/ (\E j \in k + 1 + 1 .. n : p[j] = b)
    BY <1>0, <1>2, <1>3, <1>7
<1> QED  BY <1>2, <1>5, <1>9, <1>10, <1>11 DEF ParkedAre, n, new

(* A poll that is answered. *)
LEMMA ParkedLeaves ==
    ASSUME NEW p \in Seq(Agents), \A i, l \in DOMAIN p : p[i] = p[l] => i = l,
           NEW k \in 0 .. Len(p) - 1, NEW kept, NEW ag, ParkedAre(kept, p, k, ag),
           NEW new, new[p[k + 1]].at # "parked",
           \A b \in Agents : b # p[k + 1] => new[b] = ag[b]
    PROVE  ParkedAre(kept, p, k + 1, new)
<1> DEFINE n == Len(p)
           a == p[k + 1]
<1>0. /\ n \in Nat /\ DOMAIN p = 1 .. n /\ k \in Nat /\ k + 1 \in 1 .. n
      /\ \A j \in 1 .. k : j \in 1 .. n /\ j \in 1 .. k + 1 /\ j # k + 1
      /\ \A j \in k + 1 .. n : j = k + 1 \/ j \in k + 1 + 1 .. n
      /\ \A j \in k + 1 + 1 .. n : j \in k + 1 .. n /\ j \in 1 .. n /\ j # k + 1
    OBVIOUS
<1>1. a \in Agents /\ kept \in Seq(Agents) /\ \A i \in DOMAIN kept : kept[i] \in Agents
    BY <1>0 DEF ParkedAre
<1>2. \A j \in 1 .. n : p[j] \in Agents
    BY <1>0
<1> HIDE DEF n
<1>3. ASSUME NEW i \in DOMAIN kept
      PROVE  kept[i] # a /\ new[kept[i]].at = "parked" /\ \E j \in 1 .. k + 1 : p[j] = kept[i]
    <2>1. PICK j \in 1 .. k : p[j] = kept[i]
        BY DEF ParkedAre
    <2>2. kept[i] # a
        BY <1>0, <2>1
    <2>3. ag[kept[i]].at = "parked"
        BY DEF ParkedAre
    <2> QED  BY <1>0, <1>1, <2>1, <2>2, <2>3
<1>4. \A j \in k + 1 + 1 .. n : new[p[j]].at = "parked"
    <2> SUFFICES ASSUME NEW j \in k + 1 + 1 .. n PROVE new[p[j]].at = "parked"
        OBVIOUS
    <2>1. p[j] # a /\ p[j] \in Agents
        BY <1>0, <1>2
    <2>2. ag[p[j]].at = "parked"
        BY <1>0 DEF ParkedAre, n
    <2> QED  BY <2>1, <2>2
<1>5. ASSUME NEW b \in Agents, new[b].at = "parked"
      PROVE  (\E i \in DOMAIN kept : kept[i] = b) \/ (\E j \in k + 1 + 1 .. n : p[j] = b)
    <2>1. b # a /\ ag[b].at = "parked"
        BY <1>5
    <2>2. (\E i \in DOMAIN kept : kept[i] = b) \/ (\E j \in k + 1 .. n : p[j] = b)
        BY <2>1 DEF ParkedAre, n
    <2> QED  BY <1>0, <2>1, <2>2
<1>6. \A i, l \in DOMAIN kept : kept[i] = kept[l] => i = l
    BY DEF ParkedAre
<1> QED  BY <1>1, <1>3, <1>4, <1>5, <1>6 DEF ParkedAre, n

(* One poll is tried. *)
LEMMA ServeKeeps ==
    ASSUME NEW C \in SUBSET Sessions, NEW p \in Seq(Agents), \A i, l \in DOMAIN p : p[i] = p[l] => i = l,
           NEW q, NEW k \in 0 .. Len(p) - 1, NEW w \in World, ServedTo(w, k, q, p, C)
    PROVE  ServedTo(Serve(w, p[k + 1]), k + 1, q, p, C)
<1> DEFINE a == p[k + 1]
           i == Selected(w.queue, Lanes[a])
           v == Serve(w, a)
<1>0. k + 1 \in 1 .. Len(p) /\ k + 1 \in k + 1 .. Len(p) /\ a \in Agents
    OBVIOUS
<1>1. /\ LeasesOK(w.queue, w.agent, C) /\ SameEvents(w.queue, q)
      /\ NothingFor(w.queue, w.polls) /\ ParkedAre(w.polls, p, k, w.agent)
    BY DEF ServedTo
<1>2. w.agent[a].at = "parked"
    BY <1>0, <1>1 DEF ParkedAre
<1>3. w.queue \in Seq(Entry) /\ w.polls \in Seq(Agents) /\ w.agent \in [Agents -> Agent]
    BY DEF World
<1>4. CASE Available(w.queue, Lanes[a]) = {}
    <2>1. v.queue = w.queue /\ v.agent = w.agent /\ v.polls = Append(w.polls, a)
        BY <1>4 DEF Serve, World
    <2>2. ParkedAre(v.polls, p, k + 1, v.agent)
        BY <1>1, <2>1, ParkedStays
    <2>3. NothingFor(v.queue, v.polls)
        <3> DEFINE m == Len(w.polls)
        <3>1. /\ m \in Nat /\ DOMAIN v.polls = 1 .. m + 1 /\ DOMAIN w.polls = 1 .. m
              /\ \A l \in 1 .. m : v.polls[l] = w.polls[l]
              /\ v.polls[m + 1] = a
            BY <1>0, <1>3, <2>1
        <3> HIDE DEF m
        <3>2. \A l \in 1 .. m + 1 : l = m + 1 \/ l \in 1 .. m
            BY <3>1
        <3> HIDE DEF v
        <3> QED  BY <1>1, <1>4, <2>1, <3>1, <3>2 DEF NothingFor
    <2> QED  BY <1>1, <2>1, <2>2, <2>3 DEF ServedTo
<1>5. CASE Available(w.queue, Lanes[a]) # {}
    <2>1. i \in Available(w.queue, Lanes[a])
        BY <1>3, <1>5, SelectedIsAvailable
    <2> DEFINE r == Claimed(w.queue, i)
               new == [w.agent EXCEPT ![a] = Reader(w.queue[i])]
    <2>2. v.queue = r /\ v.agent = new /\ v.polls = w.polls
        BY <1>5 DEF Serve, World
    <2>3. /\ LeasesOK(r, new, C)
          /\ \A T : Available(w.queue, T) = {} => Available(r, T) = {}
          /\ SameEvents(r, w.queue)
        <3>1. w.agent[a].at \in Idling
            BY <1>2 DEF Idling
        <3> HIDE DEF i
        <3> QED  BY <1>0, <1>1, <2>1, <3>1, ClaimKeeps
    <2>4. new[a].at # "parked" /\ \A b \in Agents : b # a => new[b] = w.agent[b]
        <3>1. i \in DOMAIN w.queue
            BY <2>1 DEF Available
        <3> HIDE DEF i
        <3>2. w.queue[i] \in Entry /\ EntryOK(w.queue[i], C)
            BY <1>1, <1>3, <3>1 DEF LeasesOK, QueueOK
        <3>3. Reader(w.queue[i]).at # "parked"
            BY <3>2, ReaderType
        <3> QED  BY <1>0, <1>3, <3>3
    <2> HIDE DEF r, new, i, v
    <2>5. ParkedAre(v.polls, p, k + 1, v.agent)
        BY <1>1, <2>2, <2>4, ParkedLeaves
    <2>6. NothingFor(v.queue, v.polls)
        BY <1>1, <2>2, <2>3 DEF NothingFor
    <2>7. SameEvents(v.queue, q)
        BY <1>1, <2>2, <2>3 DEF SameEvents
    <2> QED  BY <2>2, <2>3, <2>5, <2>6, <2>7 DEF ServedTo, v
<1> QED  BY <1>4, <1>5

(* After a handler the parked polls have been given what became available, and leases and *)
(* events are in order (flushPendingPolls).                                              *)
LEMMA FlushKeeps ==
    ASSUME NEW C \in SUBSET Sessions, NEW q, NEW ag, LeasesOK(q, ag, C), PollsOK(polls, ag), Flush(q, ag)
    PROVE  /\ LeasesOK(queue', agent', C) /\ PollsOK(polls', agent')
           /\ NothingFor(queue', polls') /\ SameEvents(queue', q)
<1> DEFINE n == Len(polls)
<1>0. /\ q \in Seq(Entry) /\ ag \in [Agents -> Agent] /\ polls \in Seq(Agents)
      /\ \A i, l \in DOMAIN polls : polls[i] = polls[l] => i = l
    BY DEF LeasesOK, QueueOK, AgentsOK, PollsOK
<1>1. n \in Nat /\ DOMAIN polls = 1 .. n
    BY <1>0
<1>2. PICK w : Flushing(w, q, polls, ag) /\ w[n] = flushPendingPolls(q, ag)
    BY <1>0, FlushTrace
<1>3. /\ w \in [0 .. n -> World] /\ w[0] = [queue |-> q, polls |-> <<>>, agent |-> ag]
      /\ \A k \in 1 .. n : w[k] = Serve(w[k - 1], polls[k])
    BY <1>2 DEF Flushing
<1> HIDE DEF n
<1>4. ServedTo(w[0], 0, q, polls, C)
    <2>1. w[0].queue = q /\ w[0].polls = <<>> /\ w[0].agent = ag
        BY <1>3
    <2>2. SameEvents(q, q) /\ NothingFor(q, <<>>)
        BY DEF SameEvents, NothingFor
    <2>3. ParkedAre(<<>>, polls, 0, ag)
        <3>1. <<>> \in Seq(Agents)
            OBVIOUS
        <3>2. \A j \in 0 + 1 .. n : j \in DOMAIN polls
            BY <1>1
        <3>3. \A j \in DOMAIN polls : j \in 0 + 1 .. n
            BY <1>1
        <3> QED  BY <3>1, <3>2, <3>3 DEF ParkedAre, PollsOK, n
    <2> QED  BY <2>1, <2>2, <2>3 DEF ServedTo
<1>5. ASSUME NEW k \in 0 .. n - 1, ServedTo(w[k], k, q, polls, C)
      PROVE  ServedTo(w[k + 1], k + 1, q, polls, C)
    <2>1. k + 1 \in 1 .. n /\ (k + 1) - 1 = k /\ k \in 0 .. n
        BY <1>1
    <2>2. w[k] \in World /\ w[k + 1] = Serve(w[k], polls[k + 1])
        BY <1>3, <2>1
    <2> QED  BY <1>0, <1>5, <2>2, ServeKeeps DEF n
<1>6. ServedTo(w[n], n, q, polls, C)
    <2> DEFINE T == {k \in 0 .. n : ServedTo(w[k], k, q, polls, C)}
    <2>1. 0 \in T /\ \A k \in 0 .. n - 1 : k \in T => k + 1 \in T
        BY <1>1, <1>4, <1>5
    <2> HIDE DEF T
    <2>2. 0 .. n \subseteq T
        BY <1>1, <2>1, UpTo, Zenon
    <2>3. n \in T
        BY <1>1, <2>2
    <2> QED  BY <2>3 DEF T
<1>7. queue' = w[n].queue /\ polls' = w[n].polls /\ agent' = w[n].agent
    BY <1>2 DEF Flush
<1>8. /\ LeasesOK(w[n].queue, w[n].agent, C) /\ SameEvents(w[n].queue, q)
      /\ NothingFor(w[n].queue, w[n].polls) /\ ParkedAre(w[n].polls, polls, n, w[n].agent)
    BY <1>6 DEF ServedTo
<1>9. PollsOK(w[n].polls, w[n].agent)
    <2>1. \A j \in n + 1 .. n : FALSE
        BY <1>1
    <2> QED  BY <1>8, <2>1 DEF ParkedAre, PollsOK, n
<1> QED  BY <1>7, <1>8, <1>9

-----------------------------------------------------------------------------
(* Agents let go *)

\* No agent has become parked or has been unparked, and none has got a lease.
Fewer(new, ag, C) ==
    /\ new \in [Agents -> Agent]
    /\ \A a \in Agents :
          /\ AgentOK(new[a], C)
          /\ new[a].at = "parked" <=> ag[a].at = "parked"
          /\ new[a].holds => ag[a].holds /\ new[a].id = ag[a].id /\ new[a].type = ag[a].type

(* Leases and polls stay in order when agents only let go. *)
LEMMA FewerKeeps ==
    ASSUME NEW C, NEW q, NEW p, NEW ag, LeasesOK(q, ag, C), PollsOK(p, ag), NEW new, Fewer(new, ag, C)
    PROVE  LeasesOK(q, new, C) /\ PollsOK(p, new)
<1>1. AgentsOK(new, C)
    BY DEF Fewer, AgentsOK
<1>2. HeldOK(q, new)
    BY DEF LeasesOK, HeldOK, Fewer
<1>3. PollsOK(p, new)
    <2>1. p \in Seq(Agents) /\ \A i \in DOMAIN p : p[i] \in Agents
        BY DEF PollsOK
    <2> QED  BY <2>1 DEF PollsOK, Fewer
<1> QED  BY <1>1, <1>2, <1>3 DEF LeasesOK

(* An agent that is not parked leaves what it did, and none of the others changes. *)
LEMMA FreeIsFewer ==
    ASSUME NEW C, NEW ag, AgentsOK(ag, C), NEW a \in Agents, ag[a].at # "parked"
    PROVE  Fewer([ag EXCEPT ![a] = Free], ag, C)
<1>1. Free \in Agent
    <2>1. None \in Sessions \cup {None} /\ "none" \in Decisions \cup {"generate", "none"}
        OBVIOUS
    <2> QED  BY <2>1 DEF Free, Agent
<1>2. AgentOK(Free, C) /\ Free.at = "idle" /\ Free.holds = FALSE
    BY DEF Free, AgentOK, Idling, Decisions
<1> DEFINE new == [ag EXCEPT ![a] = Free]
<1>3. new \in [Agents -> Agent] /\ new[a] = Free /\ \A b \in Agents : b # a => new[b] = ag[b]
    BY <1>1 DEF AgentsOK
<1> HIDE DEF new
<1>4. Fewer(new, ag, C)
    BY <1>2, <1>3 DEF Fewer, AgentsOK
<1> QED  BY <1>4 DEF new

(* The lease of an event is lost with it. *)
LEMMA ReleasedIsFewer ==
    ASSUME NEW C, NEW ag, AgentsOK(ag, C), NEW s, NEW type
    PROVE  /\ Fewer(Released(ag, s, type), ag, C)
           /\ \A a \in Agents : Released(ag, s, type)[a].holds => ag[a].id # s \/ ag[a].type # type
<1> DEFINE new == Released(ag, s, type)
           off(a) == [ag[a] EXCEPT !.holds = FALSE]
<1>1. ASSUME NEW a \in Agents
      PROVE  /\ off(a) \in Agent /\ off(a).at = ag[a].at /\ off(a).id = ag[a].id
             /\ off(a).type = ag[a].type /\ off(a).holds = FALSE
    BY DEF AgentsOK, Agent
<1>2. \A a \in Agents : AgentOK(off(a), C)
    BY <1>1 DEF AgentOK, AgentsOK
<1>3. \A a \in Agents : new[a] = IF ag[a].id = s /\ ag[a].type = type THEN off(a) ELSE ag[a]
    BY DEF Released
<1> HIDE DEF off
<1>4. new \in [Agents -> Agent]
    BY <1>1 DEF Released, AgentsOK, off
<1> HIDE DEF new
<1>5. Fewer(new, ag, C)
    BY <1>1, <1>2, <1>3, <1>4 DEF Fewer, AgentsOK
<1>6. \A a \in Agents : new[a].holds => ag[a].id # s \/ ag[a].type # type
    BY <1>1, <1>3
<1> QED  BY <1>5, <1>6 DEF new

(* Fewer of fewer. *)
LEMMA FewerOfFewer ==
    ASSUME NEW C, NEW a, NEW b, NEW c, Fewer(a, b, C), Fewer(b, c, C)
    PROVE  Fewer(a, c, C)
BY DEF Fewer

(* Events of a session leave with their leases. *)
LEMMA ReleaseKeeps ==
    ASSUME NEW C, NEW q, NEW ag, LeasesOK(q, ag, C), PollsOK(polls, ag), NEW s, NEW type,
           NEW r, Removed(r, q, s, {type})
    PROVE  LeasesOK(r, Released(ag, s, type), C) /\ PollsOK(polls, Released(ag, s, type))
<1> DEFINE new == Released(ag, s, type)
<1>1. /\ Fewer(new, ag, C)
      /\ \A a \in Agents : new[a].holds => ag[a].id # s \/ ag[a].type # type
    BY ReleasedIsFewer DEF LeasesOK
<1> HIDE DEF new
<1>2. LeasesOK(q, new, C) /\ PollsOK(polls, new)
    BY <1>1, FewerKeeps
<1>3. QueueOK(r, C)
    BY RemovedKeeps DEF LeasesOK
<1>4. \A a \in Agents : new[a].holds =>
              /\ ag[a].holds /\ new[a].id = ag[a].id /\ new[a].type = ag[a].type
              /\ ~(ag[a].id = s /\ ag[a].type \in {type})
    BY <1>1 DEF Fewer
<1>5. HeldOK(q, ag)
    BY DEF LeasesOK
<1>6. HeldOK(r, new)
    BY <1>4, <1>5, RemovedHeld
<1> QED  BY <1>2, <1>3, <1>6 DEF LeasesOK, new

-----------------------------------------------------------------------------
(* The journal *)

\* What an answer leaves of the record of a session: a decision stays one, and is only closed
\* by whoever carries it out.
Answered(k, j, reply) ==
    /\ k \in Journal /\ RecordOK(k)
    /\ k.canceled = j.canceled
    /\ k.phase = "new" => j.phase = "new"
    /\ reply \in {"done", "agent_done"} /\ j.canceled => k = j
    /\ reply # "done" /\ ~j.canceled => k.completed = j.completed

(* An answer keeps a record in order, if only a decided session is completed (applyEvent). *)
LEMMA JournaledKeeps ==
    ASSUME NEW j \in Journal, RecordOK(j),
           NEW reply \in {"done", "agent_done", "error", "complete", "discarded", "carbonize"},
           reply \notin {"done", "error"} => j.canceled,
           NEW source
    PROVE  Answered(Journaled(j, reply, source), j, reply)
<1>1. /\ j.canceled \in BOOLEAN /\ j.completed \in BOOLEAN /\ j.prepared \in BOOLEAN
      /\ j = [phase |-> j.phase, pending |-> j.pending, prepared |-> j.prepared,
              canceled |-> j.canceled, completed |-> j.completed]
    BY DEF Journal
<1> DEFINE over(phase) == [j EXCEPT !.phase = phase, !.pending = "none"]
           ready(phase) == [j EXCEPT !.phase = phase, !.pending = "none", !.completed = TRUE]
<1>2. \A phase \in {"completed", "discarded", "carbonize_required", "variants_ready", "agent_error"} :
        /\ over(phase) \in Journal /\ ready(phase) \in Journal
        /\ over(phase).phase = phase /\ over(phase).pending = "none"
        /\ over(phase).canceled = j.canceled /\ over(phase).completed = j.completed
        /\ ready(phase).phase = phase /\ ready(phase).pending = "none"
        /\ ready(phase).canceled = j.canceled
    BY DEF Journal
<1> HIDE DEF over, ready
<1>3. CASE reply = "complete"
    <2>1. Journaled(j, reply, source) = over("completed")
        BY <1>3 DEF Journaled, Ended, over
    <2> QED  BY <1>2, <1>3, <2>1 DEF Answered, RecordOK, Fenced, Decisions
<1>4. CASE reply = "discarded"
    <2>1. Journaled(j, reply, source) = over("discarded")
        BY <1>4 DEF Journaled, Ended, over
    <2> QED  BY <1>2, <1>4, <2>1 DEF Answered, RecordOK, Fenced, Decisions
<1>5. CASE reply = "error"
    <2>1. Journaled(j, reply, source) \in {j, over("agent_error")}
        BY <1>5 DEF Journaled, AgentError, Ended, over
    <2> QED  BY <1>2, <1>5, <2>1 DEF Answered, RecordOK, Fenced, Decisions
<1>6. CASE reply = "carbonize"
    <2>1. Journaled(j, reply, source) \in {j, ready("carbonize_required")}
        BY <1>6 DEF Journaled, AgentDone, Ended, ready
    <2> QED  BY <1>2, <1>6, <2>1 DEF Answered, RecordOK, Fenced, Decisions
<1>7. CASE reply \in {"done", "agent_done"}
    <2>1. Journaled(j, reply, source) = AgentDone(j, FALSE)
        BY <1>7 DEF Journaled
    <2>2. CASE j.canceled \/ j.phase \in Fenced
        <3>1. Journaled(j, reply, source) = j
            BY <2>1, <2>2 DEF AgentDone
        <3> QED  BY <3>1 DEF Answered
    <2>3. CASE ~(j.canceled \/ j.phase \in Fenced)
        <3>1. Journaled(j, reply, source) = ready("variants_ready") /\ reply = "done"
            BY <1>7, <2>1, <2>3 DEF AgentDone, Ended, ready
        <3> QED  BY <1>2, <2>3, <3>1 DEF Answered, RecordOK, Fenced, Decisions
    <2> QED  BY <2>2, <2>3
<1> QED  BY <1>3, <1>4, <1>5, <1>6, <1>7

\* The record of one session changes, and not whether it is decided.
Recorded(new, s, k) ==
    new = [journal EXCEPT ![s] = k] /\ k \in Journal /\ RecordOK(k) /\ k.canceled = journal[s].canceled

(* The journal stays in order, and the decisions in it the same. *)
LEMMA RecordedKeeps ==
    ASSUME JournalOK(journal), NEW s \in Sessions, NEW k, NEW new, Recorded(new, s, k)
    PROVE  /\ JournalOK(new) /\ Canceled(new) = Canceled(journal) /\ new[s] = k
           /\ \A t \in Sessions : t # s => new[t] = journal[t]
BY DEF JournalOK, Recorded, Canceled

(* A page that resumes a session sets its phase, if it is not decided. *)
LEMMA CheckpointKeeps ==
    ASSUME NEW j \in Journal, RecordOK(j), NEW phase \in {"cycling", "generating"}
    PROVE  LET k == Checkpointed(j, phase) IN
           /\ k \in Journal /\ RecordOK(k) /\ k.canceled = j.canceled /\ k.completed = j.completed
           /\ k.pending = j.pending
           /\ k.phase = "new" => j.phase = "new"
           /\ j.canceled => k = j
<1>1. CASE j.canceled \/ j.phase \in Fenced
    BY <1>1 DEF Checkpointed
<1>2. CASE ~(j.canceled \/ j.phase \in Fenced)
    <2>1. Checkpointed(j, phase) = [j EXCEPT !.phase = phase]
        BY <1>2 DEF Checkpointed
    <2> DEFINE k == [j EXCEPT !.phase = phase]
    <2>2. /\ k \in Journal /\ k.phase = phase /\ k.pending = j.pending
          /\ k.canceled = j.canceled /\ k.completed = j.completed
        BY DEF Journal
    <2> HIDE DEF k
    <2>3. RecordOK(k)
        BY <1>2, <2>2 DEF RecordOK, Fenced
    <2> QED  BY <1>2, <2>1, <2>2, <2>3 DEF k
<1> QED  BY <1>1, <1>2

(* A session is generated, or generated with its scaffold. *)
LEMMA GeneratedKeeps ==
    ASSUME NEW j \in Journal, RecordOK(j), ~j.canceled, NEW prepared \in BOOLEAN
    PROVE  LET k == Generated(j, prepared) IN
           /\ k \in Journal /\ RecordOK(k) /\ k.canceled = j.canceled /\ k.completed = j.completed
           /\ k.phase = "generate_requested"
<1> DEFINE k == [j EXCEPT !.phase = "generate_requested", !.pending = "generate", !.prepared = prepared]
<1>1. /\ k \in Journal /\ k.phase = "generate_requested" /\ k.pending = "generate"
      /\ k.canceled = j.canceled /\ k.completed = j.completed
    BY DEF Journal
<1> HIDE DEF k
<1>2. RecordOK(k)
    BY <1>1 DEF RecordOK, Fenced, Decisions
<1>3. Generated(j, prepared) = k
    BY DEF Generated, k
<1> QED  BY <1>1, <1>2, <1>3

(* A decision is pending, and its session is fenced. *)
LEMMA DecidedKeeps ==
    ASSUME NEW j \in Journal, NEW type \in Decisions
    PROVE  LET k == Decided(j, type) IN
           /\ k \in Journal /\ RecordOK(k) /\ k.canceled = TRUE /\ k.pending = type
           /\ ~Closed(k) /\ k.phase # "new"
<1> DEFINE k == [j EXCEPT !.phase = Requested(type), !.pending = type, !.canceled = TRUE]
<1>1. Requested(type) \in {"accept_requested", "discard_requested"}
    BY DEF Requested
<1>2. k \in Journal /\ k.phase = Requested(type) /\ k.pending = type /\ k.canceled = TRUE
    BY <1>1 DEF Journal
<1> HIDE DEF k
<1>3. RecordOK(k) /\ ~Closed(k) /\ k.phase # "new"
    BY <1>1, <1>2 DEF RecordOK, Closed, Decisions
<1>4. Decided(j, type) = k
    BY DEF Decided, k
<1> QED  BY <1>2, <1>3, <1>4

-----------------------------------------------------------------------------
(* Answers *)

(* The first of several positions is one of them. *)
LEMMA MinOf ==
    ASSUME NEW S \in SUBSET Nat, S # {}
    PROVE  Min(S) \in S
<1>1. PICK m \in S : \A k \in S : m <= k
    BY LeastOf
<1> QED  BY <1>1 DEF Min

Replies == {"done", "agent_done", "error", "complete", "discarded", "carbonize"}

(* POST /poll leaves the queue in order and acknowledges no more than an event of its session and *)
(* source; what it journals is an answer (handlePollPost).                                       *)
LEMMA PostKeeps ==
    ASSUME NEW C \in SUBSET Sessions, LeasesOK(queue, agent, C), PollsOK(polls, agent),
           JournalOK(journal), NEW s \in Sessions, NEW reply \in Replies,
           reply \notin {"done", "error"} => journal[s].canceled,
           NEW source, NEW ag, Fewer(ag, agent, C), HandlePollPost(s, reply, source, ag)
    PROVE  /\ LeasesOK(queue', agent', C) /\ PollsOK(polls', agent') /\ NothingFor(queue', polls')
           /\ Queued(queue', None, "exit") => Queued(queue, None, "exit")
           /\ \A t \in Sessions : \A type :
                Queued(queue, t, type) /\ ~(t = s /\ source \in {"any", type}) => Queued(queue', t, type)
           /\ Recorded(journal', s, journal'[s]) /\ Answered(journal'[s], journal[s], reply)
<1> DEFINE of == {i \in DOMAIN queue : queue[i].id = s /\ source \in {"any", queue[i].type}}
           i == Min(of)
           acked == IF of = {} THEN "none" ELSE queue[i].type
<1>0. queue \in Seq(Entry) /\ QueueOK(queue, C)
    BY DEF LeasesOK, QueueOK
<1>1. /\ IF of = {} THEN Flush(queue, ag) ELSE Flush(RemoveAt(queue, i), Released(ag, s, acked))
      /\ journal' = IF of = {} /\ Closed(journal[s]) THEN journal
                    ELSE [journal EXCEPT ![s] = Journaled(@, reply, acked)]
    BY DEF HandlePollPost
<1>2. of \in SUBSET Nat
    BY <1>0
<1>3. of # {} => i \in of
    BY <1>2, MinOf
<1>4. \A k \in of : k \in DOMAIN queue /\ queue[k].id = s /\ source \in {"any", queue[k].type}
    OBVIOUS
<1>5. LeasesOK(queue, ag, C) /\ PollsOK(polls, ag)
    BY FewerKeeps
<1> HIDE DEF of, i
<1>6. /\ LeasesOK(queue', agent', C) /\ PollsOK(polls', agent') /\ NothingFor(queue', polls')
      /\ Queued(queue', None, "exit") => Queued(queue, None, "exit")
      /\ \A t \in Sessions : \A type :
           Queued(queue, t, type) /\ ~(t = s /\ source \in {"any", type}) => Queued(queue', t, type)
    <2>1. CASE of = {}
        <3>1. Flush(queue, ag)
            BY <1>1, <2>1
        <3>2. /\ LeasesOK(queue', agent', C) /\ PollsOK(polls', agent')
              /\ NothingFor(queue', polls') /\ SameEvents(queue', queue)
            BY <1>5, <3>1, FlushKeeps
        <3> QED  BY <3>2 DEF SameEvents
    <2>2. CASE of # {}
        <3> DEFINE r == RemoveAt(queue, i)
        <3>1. i \in DOMAIN queue /\ queue[i].id = s /\ source \in {"any", acked} /\ acked = queue[i].type
            BY <1>3, <1>4, <2>2
        <3>2. Flush(r, Released(ag, s, acked))
            BY <1>1, <2>2
        <3>3. Removed(r, queue, s, {acked})
            BY <1>0, <3>1, RemoveAtRemoves
        <3> HIDE DEF r, acked
        <3>4. LeasesOK(r, Released(ag, s, acked), C) /\ PollsOK(polls, Released(ag, s, acked))
            BY <1>5, <3>3, ReleaseKeeps
        <3>5. /\ LeasesOK(queue', agent', C) /\ PollsOK(polls', agent')
              /\ NothingFor(queue', polls') /\ SameEvents(queue', r)
            BY <3>2, <3>4, FlushKeeps
        <3>6. /\ \A t, type : Queued(r, t, type) => Queued(queue, t, type)
              /\ \A t, type : Queued(queue, t, type) /\ ~(t = s /\ type \in {acked}) => Queued(r, t, type)
            BY <1>0, <3>3, RemovedKeeps
        <3> QED  BY <3>1, <3>5, <3>6 DEF SameEvents
    <2> QED  BY <2>1, <2>2
<1>7. Recorded(journal', s, journal'[s]) /\ Answered(journal'[s], journal[s], reply)
    <2>1. journal[s] \in Journal /\ RecordOK(journal[s]) /\ journal \in [Sessions -> Journal]
        BY DEF JournalOK
    <2> HIDE DEF acked
    <2>2. CASE journal' = journal
        <3>1. journal = [journal EXCEPT ![s] = journal[s]]
            BY <2>1
        <3> QED  BY <2>1, <2>2, <3>1 DEF Recorded, Answered
    <2>3. CASE journal' = [journal EXCEPT ![s] = Journaled(@, reply, acked)]
        <3> DEFINE k == Journaled(journal[s], reply, acked)
        <3>1. Answered(k, journal[s], reply)
            BY <2>1, JournaledKeeps DEF Replies
        <3>2. journal' = [journal EXCEPT ![s] = k]
            BY <2>3
        <3> HIDE DEF k
        <3>3. journal'[s] = k
            BY <2>1, <3>2
        <3> QED  BY <3>1, <3>2, <3>3 DEF Recorded, Answered
    <2> QED  BY <1>1, <2>2, <2>3
<1> QED  BY <1>6, <1>7

(* The page after an answer (handleMessage of live-browser.js). *)
LEMMA PageHears ==
    ASSUME PageOK, NEW s \in Sessions, NEW reply \in Replies, Shown(reply, s),
           Recorded(journal', s, journal'[s]), Answered(journal'[s], journal[s], reply),
           JournalOK(journal), up' = up, exitTimer' = exitTimer,
           Queued(queue', None, "exit") => Queued(queue, None, "exit"),
           written' \subseteq Sessions
    PROVE  PageOK'
<1> DEFINE mine == attached /\ current = s
           over == mine /\ reply = "discarded"
<1>1. /\ screen' = IF over \/ (attached /\ reply = "error") THEN "picking"
                    ELSE IF mine /\ reply = "done" /\ screen \in {"generating", "recovering"}
                         THEN "cycling" ELSE screen
      /\ current' = IF over THEN None ELSE current
      /\ handled' = IF over THEN handled \cup {s} ELSE handled
      /\ attached' = attached
    BY DEF Shown
<1>2. \A t \in Sessions : t # s => journal'[t] = journal[t]
    BY RecordedKeeps
<1>3. /\ screen' \in {"picking", "generating", "recovering", "cycling"}
      /\ current' \in Sessions \cup {None} /\ handled' \subseteq Sessions
      /\ screen' # "picking" => current' = current /\ current \in Sessions
    BY <1>1 DEF PageOK
<1>4. NotStranded'
    <2> SUFFICES ASSUME attached, screen' = "generating"
                 PROVE  ~journal'[current'].completed \/ journal'[current'].canceled
        BY <1>1 DEF NotStranded
    <2>1. screen = "generating" /\ current' = current /\ current \in Sessions
        BY <1>1, <1>3
    <2>2. ~journal[current].completed \/ journal[current].canceled
        BY <2>1 DEF PageOK, NotStranded
    <2>3. CASE current # s
        BY <1>2, <2>1, <2>2, <2>3
    <2>4. CASE current = s
        <3>1. reply # "done"
            BY <1>1, <2>1, <2>4
        <3> QED  BY <2>1, <2>2, <2>4, <3>1 DEF Answered
    <2> QED  BY <2>3, <2>4
<1>5. ExitOnlyWhenGone'
    BY <1>1 DEF PageOK, ExitOnlyWhenGone
<1> QED  BY <1>1, <1>3, <1>4, <1>5 DEF PageOK

(* What is owed to a session whose decision is not answered. *)
LEMMA OwesStill ==
    ASSUME OwedOK, NEW s \in Sessions, owed'[s] = owed[s],
           journal[s].canceled => journal'[s] = journal[s],
           journal'[s].phase = "new" => journal[s].phase = "new",
           s \in blamed => s \in blamed', up' => up,
           up' => \A type \in Decisions : Queued(queue, s, type) => Queued(queue', s, type)
    PROVE  Owes(s)'
<1>1. Owes(s) /\ owed[s] \in Decisions \cup {"none"}
    BY DEF OwedOK
<1> QED  BY <1>1 DEF Owes

-----------------------------------------------------------------------------
(* The page's actions *)

(* The invariant, as the lemmas on single actions use it. *)
LEMMA InvFacts ==
    ASSUME LiveInv
    PROVE  /\ Canceled(journal) \in SUBSET Sessions
           /\ LeasesOK(queue, agent, Canceled(journal)) /\ PollsOK(polls, agent) /\ NothingFor(queue, polls)
           /\ JournalOK(journal) /\ journal \in [Sessions -> Journal]
           /\ \A s \in Sessions : journal[s] \in Journal /\ RecordOK(journal[s])
           /\ OwedOK /\ PageOK
           /\ up \in BOOLEAN /\ exitTimer \in BOOLEAN
BY DEF LiveInv, ServerOK, LeasesOK, JournalOK, Canceled

(* The server's part of the invariant after a step. *)
LEMMA ServerAfter ==
    ASSUME LeasesOK(queue', agent', Canceled(journal)'), PollsOK(polls', agent'), NothingFor(queue', polls'),
           up' \in BOOLEAN, exitTimer' \in BOOLEAN,
           up' = FALSE => queue' = <<>> /\ polls' = <<>> /\ exitTimer' = FALSE
    PROVE  ServerOK'
BY DEF ServerOK, LeasesOK

(* An event of a session is enqueued, once (enqueueEvent). *)
LEMMA EnqueueKeeps ==
    ASSUME NEW C, NEW q, NEW ag, LeasesOK(q, ag, C), NEW e \in Entry, EntryOK(e, C), e.id # None
    PROVE  /\ LeasesOK(Enqueued(q, e), ag, C)
           /\ \A s, type : Queued(Enqueued(q, e), s, type)
                              <=> Queued(q, s, type) \/ (e.id = s /\ e.type = type)
<1>1. CASE Queued(q, e.id, e.type)
    <2>1. Enqueued(q, e) = q
        BY <1>1 DEF Enqueued
    <2> QED  BY <1>1, <2>1
<1>2. CASE ~Queued(q, e.id, e.type)
    <2>1. Enqueued(q, e) = Append(q, e)
        BY <1>2 DEF Enqueued
    <2>2. /\ QueueOK(Append(q, e), C) /\ HeldOK(Append(q, e), ag)
          /\ \A s, type : Queued(Append(q, e), s, type)
                              <=> Queued(q, s, type) \/ (e.id = s /\ e.type = type)
        BY <1>2, AppendKeeps DEF LeasesOK
    <2> QED  BY <2>1, <2>2 DEF LeasesOK
<1> QED  BY <1>1, <1>2

(* A session has a number. *)
LEMMA SessionIsSome == \A s \in Sessions : s # None
BY LiveAssumption DEF Sessions, None

(* The entry of an event. *)
LEMMA EventType ==
    ASSUME NEW s \in Sessions \cup {None}, NEW type \in EventTypes, NEW prepared \in BOOLEAN
    PROVE  /\ Event(s, type, prepared) \in Entry
           /\ Event(s, type, prepared).id = s /\ Event(s, type, prepared).type = type
           /\ Event(s, type, prepared).leased = FALSE
           /\ Event(s, type, prepared).stage # "preparing"
BY DEF Event, Entry

(* A new session: its generate is queued, and it is not decided (handleGo). *)
LEMMA GoKeeps == LiveInv /\ Go => LiveInv'
<1> SUFFICES ASSUME LiveInv, Go PROVE LiveInv'
    OBVIOUS
<1> DEFINE C == Canceled(journal)
           e(s) == Event(s, "generate", FALSE)
<1>1. /\ C \in SUBSET Sessions /\ LeasesOK(queue, agent, C) /\ PollsOK(polls, agent)
      /\ JournalOK(journal) /\ OwedOK /\ PageOK /\ up \in BOOLEAN /\ exitTimer \in BOOLEAN
    BY InvFacts
<1>2. PICK s \in Sessions :
          /\ journal[s].phase = "new"
          /\ journal' = [journal EXCEPT ![s] = Generated(@, FALSE)]
          /\ current' = s
          /\ Flush(Enqueued(queue, Event(s, "generate", FALSE)), agent)
    BY DEF Go
<1>3. /\ up = TRUE /\ attached = TRUE /\ screen' = "generating" /\ up' = up /\ exitTimer' = exitTimer
      /\ attached' = attached /\ handled' = handled /\ written' = written /\ owed' = owed /\ blamed' = blamed
    BY <1>1 DEF Go, CanPost, PageOK, ghosts
<1>4. journal[s] \in Journal /\ RecordOK(journal[s]) /\ journal[s].canceled = FALSE /\ journal[s].completed = FALSE
    BY <1>1, <1>2 DEF JournalOK, RecordOK, Journal
<1> DEFINE k == Generated(journal[s], FALSE)
<1>5. k \in Journal /\ RecordOK(k) /\ k.canceled = FALSE /\ k.completed = FALSE /\ k.phase = "generate_requested"
    BY <1>4, GeneratedKeeps
<1>6. journal' = [journal EXCEPT ![s] = k]
    BY <1>2
<1> HIDE DEF k
<1>7. /\ JournalOK(journal') /\ Canceled(journal') = C /\ journal'[s] = k
      /\ \A t \in Sessions : t # s => journal'[t] = journal[t]
    <2>1. Recorded(journal', s, k)
        BY <1>4, <1>5, <1>6 DEF Recorded
    <2> QED  BY <1>1, <2>1, RecordedKeeps
<1>8. /\ e(s) \in Entry /\ EntryOK(e(s), C) /\ e(s).id = s /\ e(s).type = "generate"
    <2>1. s \notin C
        BY <1>4 DEF Canceled
    <2>2. "generate" \in EventTypes /\ FALSE \in BOOLEAN /\ s \in Sessions \cup {None} /\ s # None
        BY SessionIsSome DEF EventTypes
    <2>3. /\ e(s) \in Entry /\ e(s).id = s /\ e(s).type = "generate" /\ e(s).leased = FALSE
          /\ e(s).stage # "preparing"
        BY <2>2, EventType
    <2> HIDE DEF e
    <2> QED  BY <2>1, <2>2, <2>3 DEF EntryOK, Decisions
<1> DEFINE q == Enqueued(queue, e(s))
<1>9. /\ LeasesOK(q, agent, C)
      /\ \A t, type : Queued(q, t, type) <=> Queued(queue, t, type) \/ (s = t /\ "generate" = type)
    <2>1. e(s).id # None
        BY <1>8, SessionIsSome
    <2> HIDE DEF e
    <2> QED  BY <1>1, <1>8, <2>1, EnqueueKeeps
<1>10. Flush(q, agent)
    BY <1>2
<1> HIDE DEF q
<1>11. /\ LeasesOK(queue', agent', C) /\ PollsOK(polls', agent')
       /\ NothingFor(queue', polls') /\ SameEvents(queue', q)
    BY <1>1, <1>9, <1>10, FlushKeeps
<1>12. ServerOK'
    BY <1>1, <1>3, <1>7, <1>11, ServerAfter
<1>13. OwedOK'
    <2>1. ASSUME NEW t \in Sessions PROVE Owes(t)'
        <3>1. CASE t = s
            BY <1>1, <1>2, <1>3, <1>5, <1>7, <3>1 DEF OwedOK, Owes
        <3>2. CASE t # s
            <4>1. \A type \in Decisions : Queued(queue, t, type) => Queued(queue', t, type)
                BY <1>9, <1>11 DEF SameEvents
            <4> QED  BY <1>1, <1>3, <1>7, <3>2, <4>1, OwesStill
        <3> QED  BY <3>1, <3>2
    <2> QED  BY <1>1, <1>3, <2>1 DEF OwedOK
<1>14. PageOK'
    <2>1. NotStranded'
        BY <1>2, <1>5, <1>7 DEF NotStranded
    <2>2. ~Queued(queue', None, "exit")
        BY <1>1, <1>3, <1>9, <1>11, SessionIsSome DEF SameEvents, PageOK, ExitOnlyWhenGone
    <2> QED  BY <1>1, <1>2, <1>3, <2>1, <2>2 DEF PageOK, ExitOnlyWhenGone
<1> QED  BY <1>7, <1>12, <1>13, <1>14 DEF LiveInv

(* An exit is queued for whoever polls next. *)
LEMMA ExitKeeps ==
    ASSUME NEW C, NEW q, NEW ag, LeasesOK(q, ag, C)
    PROVE  /\ LeasesOK(Append(q, Event(None, "exit", TRUE)), ag, C)
           /\ \A s \in Sessions : \A type :
                 Queued(Append(q, Event(None, "exit", TRUE)), s, type) <=> Queued(q, s, type)
<1> DEFINE e == Event(None, "exit", TRUE)
<1>1. None \in Sessions \cup {None} /\ "exit" \in EventTypes /\ TRUE \in BOOLEAN
    BY DEF EventTypes
<1>2. e \in Entry /\ e.id = None /\ e.type = "exit" /\ e.leased = FALSE /\ e.stage # "preparing"
    BY <1>1, EventType
<1> HIDE DEF e
<1>3. EntryOK(e, C)
    BY <1>2 DEF EntryOK, Decisions
<1>4. /\ QueueOK(Append(q, e), C) /\ HeldOK(Append(q, e), ag)
      /\ \A s, type : Queued(Append(q, e), s, type) <=> Queued(q, s, type) \/ (e.id = s /\ e.type = type)
    BY <1>2, <1>3, AppendKeeps DEF LeasesOK
<1> QED  BY <1>2, <1>4, SessionIsSome DEF LeasesOK, e

(* The timer of the last page that left runs out. *)
LEMMA ExitTimerKeeps == LiveInv /\ ExitTimer => LiveInv'
<1> SUFFICES ASSUME LiveInv, ExitTimer PROVE LiveInv'
    OBVIOUS
<1> DEFINE C == Canceled(journal)
           q == Append(queue, Event(None, "exit", TRUE))
<1>1. /\ C \in SUBSET Sessions /\ LeasesOK(queue, agent, C) /\ PollsOK(polls, agent)
      /\ JournalOK(journal) /\ OwedOK /\ PageOK /\ up \in BOOLEAN /\ exitTimer \in BOOLEAN
    BY InvFacts
<1>2. /\ up /\ exitTimer /\ exitTimer' = FALSE /\ Flush(q, agent)
      /\ up' = up /\ journal' = journal /\ attached' = attached /\ screen' = screen
      /\ current' = current /\ handled' = handled /\ written' = written /\ owed' = owed /\ blamed' = blamed
    BY DEF ExitTimer, page, ghosts
<1>3. LeasesOK(q, agent, C) /\ \A s \in Sessions : \A type : Queued(q, s, type) <=> Queued(queue, s, type)
    BY <1>1, ExitKeeps
<1> HIDE DEF q
<1>4. /\ LeasesOK(queue', agent', C) /\ PollsOK(polls', agent')
      /\ NothingFor(queue', polls') /\ SameEvents(queue', q)
    BY <1>1, <1>2, <1>3, FlushKeeps
<1>5. ServerOK'
    <2>1. Canceled(journal)' = C
        BY <1>2
    <2> QED  BY <1>1, <1>2, <1>4, <2>1, ServerAfter
<1>6. OwedOK'
    <2>1. ASSUME NEW t \in Sessions PROVE Owes(t)'
        <3>1. \A type \in Decisions : Queued(queue, t, type) => Queued(queue', t, type)
            BY <1>3, <1>4 DEF SameEvents
        <3> QED  BY <1>1, <1>2, <3>1, OwesStill
    <2> QED  BY <1>1, <1>2, <2>1 DEF OwedOK
<1>7. PageOK'
    <2>1. attached = FALSE
        BY <1>1, <1>2 DEF PageOK
    <2> QED  BY <1>1, <1>2, <2>1 DEF PageOK, NotStranded, ExitOnlyWhenGone
<1> QED  BY <1>1, <1>2, <1>5, <1>6, <1>7 DEF LiveInv

(* The page goes, with or without the exit button. *)
LEMMA DetachKeeps ==
    ASSUME LiveInv, NEW exit \in BOOLEAN, Detach(exit)
    PROVE  LiveInv'
<1> DEFINE C == Canceled(journal)
           q == Append(queue, Event(None, "exit", TRUE))
<1>1. /\ C \in SUBSET Sessions /\ LeasesOK(queue, agent, C) /\ PollsOK(polls, agent)
      /\ JournalOK(journal) /\ OwedOK /\ PageOK /\ up \in BOOLEAN /\ exitTimer \in BOOLEAN
      /\ NothingFor(queue, polls)
    BY InvFacts
<1>2. /\ up /\ attached' = FALSE /\ exitTimer' = TRUE
      /\ IF exit THEN Flush(q, agent) ELSE queue' = queue /\ polls' = polls /\ agent' = agent
      /\ up' = up /\ journal' = journal /\ screen' = screen
      /\ current' = current /\ handled' = handled /\ written' = written /\ owed' = owed /\ blamed' = blamed
    BY DEF Detach, CanPost, ghosts
<1>3. LeasesOK(q, agent, C) /\ \A s \in Sessions : \A type : Queued(q, s, type) <=> Queued(queue, s, type)
    BY <1>1, ExitKeeps
<1> HIDE DEF q
<1>4. /\ LeasesOK(queue', agent', C) /\ PollsOK(polls', agent') /\ NothingFor(queue', polls')
      /\ \A s \in Sessions : \A type : Queued(queue', s, type) <=> Queued(queue, s, type)
    <2>1. CASE exit
        <3>1. Flush(q, agent)
            BY <1>2, <2>1
        <3>2. /\ LeasesOK(queue', agent', C) /\ PollsOK(polls', agent')
              /\ NothingFor(queue', polls') /\ SameEvents(queue', q)
            BY <1>1, <1>3, <3>1, FlushKeeps
        <3> QED  BY <1>3, <3>2 DEF SameEvents
    <2>2. CASE ~exit
        BY <1>1, <1>2, <2>2
    <2> QED  BY <2>1, <2>2
<1>5. ServerOK'
    <2>1. Canceled(journal)' = C
        BY <1>2
    <2> QED  BY <1>1, <1>2, <1>4, <2>1, ServerAfter
<1>6. OwedOK'
    <2>1. ASSUME NEW t \in Sessions PROVE Owes(t)'
        BY <1>1, <1>2, <1>4, OwesStill
    <2> QED  BY <1>1, <1>2, <2>1 DEF OwedOK
<1>7. PageOK'
    BY <1>1, <1>2 DEF PageOK, NotStranded, ExitOnlyWhenGone
<1> QED  BY <1>1, <1>2, <1>5, <1>6, <1>7 DEF LiveInv

\* The page sets the phase of a session back, nothing else of the journal changes.
Resumed(s, phase) == journal' = [journal EXCEPT ![s] = Checkpointed(@, phase)]

(* A resumed session is as decided, and as completed, as before. *)
LEMMA ResumedKeeps ==
    ASSUME JournalOK(journal), NEW s \in Sessions, NEW phase \in {"cycling", "generating"}, Resumed(s, phase)
    PROVE  /\ JournalOK(journal') /\ Canceled(journal') = Canceled(journal)
           /\ \A t \in Sessions : /\ journal[t].canceled => journal'[t] = journal[t]
                                  /\ journal'[t].phase = "new" => journal[t].phase = "new"
                                  /\ journal'[t].canceled = journal[t].canceled
                                  /\ journal'[t].completed = journal[t].completed
<1> DEFINE k == Checkpointed(journal[s], phase)
<1>1. journal[s] \in Journal /\ RecordOK(journal[s])
    BY DEF JournalOK
<1>2. /\ k \in Journal /\ RecordOK(k) /\ k.canceled = journal[s].canceled /\ k.completed = journal[s].completed
      /\ k.phase = "new" => journal[s].phase = "new"
      /\ journal[s].canceled => k = journal[s]
    BY <1>1, CheckpointKeeps
<1>3. journal' = [journal EXCEPT ![s] = k]
    BY DEF Resumed
<1> HIDE DEF k
<1>4. Recorded(journal', s, k)
    BY <1>2, <1>3 DEF Recorded
<1>5. /\ JournalOK(journal') /\ Canceled(journal') = Canceled(journal) /\ journal'[s] = k
      /\ \A t \in Sessions : t # s => journal'[t] = journal[t]
    BY <1>4, RecordedKeeps
<1> QED  BY <1>2, <1>5

(* The variants arrive by hot reload, or are recovered. *)
LEMMA VariantsArriveKeeps == LiveInv /\ VariantsArrive => LiveInv'
<1> SUFFICES ASSUME LiveInv, VariantsArrive PROVE LiveInv'
    OBVIOUS
<1>1. /\ LeasesOK(queue, agent, Canceled(journal)) /\ PollsOK(polls, agent) /\ NothingFor(queue, polls)
      /\ JournalOK(journal) /\ OwedOK /\ PageOK /\ ServerOK
    BY InvFacts DEF LiveInv
<1>2. /\ screen \in {"generating", "recovering"} /\ screen' = "cycling" /\ Resumed(current, "cycling")
      /\ up' = up /\ queue' = queue /\ polls' = polls /\ exitTimer' = exitTimer /\ agent' = agent
      /\ attached' = attached /\ current' = current /\ handled' = handled /\ written' = written
      /\ owed' = owed /\ blamed' = blamed
    BY DEF VariantsArrive, ghosts, Resumed
<1>3. current \in Sessions
    BY <1>1, <1>2 DEF PageOK
<1>4. /\ JournalOK(journal') /\ Canceled(journal') = Canceled(journal)
      /\ \A t \in Sessions : /\ journal[t].canceled => journal'[t] = journal[t]
                             /\ journal'[t].phase = "new" => journal[t].phase = "new"
    BY <1>1, <1>2, <1>3, ResumedKeeps
<1>5. ServerOK'
    BY <1>1, <1>2, <1>4 DEF ServerOK
<1>6. OwedOK'
    <2>1. ASSUME NEW t \in Sessions PROVE Owes(t)'
        BY <1>1, <1>2, <1>4, OwesStill
    <2> QED  BY <1>1, <1>2, <2>1 DEF OwedOK
<1>7. PageOK'
    BY <1>1, <1>2, <1>3 DEF PageOK, NotStranded, ExitOnlyWhenGone
<1> QED  BY <1>4, <1>5, <1>6, <1>7 DEF LiveInv

(* A page connects: the exits are withdrawn, and a missed end is recovered. *)
LEMMA AttachKeeps ==
    ASSUME LiveInv, NEW found \in SUBSET Sessions, Attach(found)
    PROVE  LiveInv'
<1> DEFINE C == Canceled(journal)
           r == Without(queue, None, {"exit"})
<1>1. /\ C \in SUBSET Sessions /\ LeasesOK(queue, agent, C) /\ PollsOK(polls, agent)
      /\ NothingFor(queue, polls)
      /\ JournalOK(journal) /\ OwedOK /\ PageOK /\ up \in BOOLEAN /\ exitTimer \in BOOLEAN
    BY InvFacts
<1>2. /\ up /\ attached' = TRUE /\ exitTimer' = FALSE /\ queue' = r
      /\ up' = up /\ polls' = polls /\ agent' = agent /\ handled' = handled /\ written' = written
      /\ owed' = owed /\ blamed' = blamed
    BY DEF Attach, ghosts, cancelQueuedAnonymousExitEvents
<1>3. QueueOK(queue, C) /\ queue \in Seq(Entry) /\ AgentsOK(agent, C) /\ HeldOK(queue, agent)
    BY <1>1 DEF LeasesOK, QueueOK
<1>4. Removed(r, queue, None, {"exit"}) /\ ~Queued(r, None, "exit")
    BY <1>3, WithoutRemoves DEF Queued
<1> HIDE DEF r
<1>5. /\ QueueOK(r, C)
      /\ \A T : Available(queue, T) = {} => Available(r, T) = {}
      /\ \A id, type : Queued(queue, id, type) /\ ~(id = None /\ type \in {"exit"}) => Queued(r, id, type)
    BY <1>3, <1>4, RemovedKeeps
<1>6. HeldOK(r, agent)
    <2>1. ASSUME NEW a \in Agents, agent[a].holds PROVE agent[a].id # None
        <3>1. agent[a].id \in Sessions
            BY <1>3, <2>1 DEF AgentsOK, AgentOK
        <3> QED  BY <3>1, SessionIsSome
    <2>2. \A a \in Agents : agent[a].holds =>
              /\ agent[a].holds /\ agent[a].id = agent[a].id /\ agent[a].type = agent[a].type
              /\ ~(agent[a].id = None /\ agent[a].type \in {"exit"})
        BY <2>1
    <2> QED  BY <1>3, <1>4, <2>2, RemovedHeld
<1>7. LeasesOK(r, agent, C) /\ NothingFor(r, polls)
    BY <1>1, <1>3, <1>5, <1>6 DEF LeasesOK, NothingFor
<1>8. \/ \E s \in found : current' = s /\ screen' = "cycling" /\ Resumed(s, "cycling")
      \/ /\ screen # "picking" /\ current' = current /\ Resumed(current, "generating")
         /\ screen' = IF MissedCompletion(journal[current]) THEN "recovering" ELSE "generating"
      \/ screen' = "picking" /\ current' = None /\ journal' = journal
    BY DEF Attach, Resumed
<1>9. screen # "picking" => current \in Sessions
    BY <1>1 DEF PageOK
<1>10. /\ JournalOK(journal') /\ Canceled(journal') = C
       /\ \A t \in Sessions : /\ journal[t].canceled => journal'[t] = journal[t]
                              /\ journal'[t].phase = "new" => journal[t].phase = "new"
                              /\ journal'[t].canceled = journal[t].canceled
                              /\ journal'[t].completed = journal[t].completed
    <2>1. CASE journal' = journal
        BY <1>1, <2>1
    <2>2. CASE \E s \in Sessions, phase \in {"cycling", "generating"} : Resumed(s, phase)
        BY <1>1, <2>2, ResumedKeeps
    <2> QED  BY <1>8, <1>9, <2>1, <2>2
<1>11. ServerOK'
    <2>1. Canceled(journal)' = C
        BY <1>10
    <2> QED  BY <1>1, <1>2, <1>7, <2>1, ServerAfter
<1>12. OwedOK'
    <2>1. ASSUME NEW t \in Sessions PROVE Owes(t)'
        <3>1. \A type \in Decisions : Queued(queue, t, type) => Queued(queue', t, type)
            BY <1>2, <1>5, SessionIsSome
        <3> QED  BY <1>1, <1>2, <1>10, <3>1, OwesStill
    <2> QED  BY <1>1, <1>2, <2>1 DEF OwedOK
<1>13. PageOK'
    <2>1. /\ screen' \in {"picking", "generating", "recovering", "cycling"}
          /\ current' \in Sessions \cup {None}
          /\ screen' # "picking" => current' \in Sessions
        BY <1>8, <1>9
    <2>2. NotStranded'
        <3> SUFFICES ASSUME screen' = "generating"
                     PROVE  ~journal'[current'].completed \/ journal'[current'].canceled
            BY DEF NotStranded
        <3>1. current' = current /\ current \in Sessions /\ ~MissedCompletion(journal[current])
            BY <1>8, <1>9
        <3>2. ~journal[current].completed \/ journal[current].canceled
            BY <1>1, <3>1 DEF MissedCompletion, JournalOK, RecordOK
        <3> QED  BY <1>10, <3>1, <3>2
    <2>3. ExitOnlyWhenGone'
        BY <1>2, <1>4 DEF ExitOnlyWhenGone
    <2> QED  BY <1>1, <1>2, <2>1, <2>2, <2>3 DEF PageOK
<1> QED  BY <1>10, <1>11, <1>12, <1>13 DEF LiveInv

-----------------------------------------------------------------------------
(* The agents' actions *)

(* A step of queue, polls and agents that takes no event of a session away. *)
LEMMA CalmKeeps ==
    ASSUME LiveInv,
           LeasesOK(queue', agent', Canceled(journal)), PollsOK(polls', agent'),
           NothingFor(queue', polls'), SameEvents(queue', queue),
           up = FALSE => queue' = <<>> /\ polls' = <<>>,
           up' = up, exitTimer' = exitTimer, journal' = journal, page' = page,
           owed' = owed, blamed' = blamed, written' \subseteq Sessions
    PROVE  LiveInv'
<1>1. JournalOK(journal) /\ OwedOK /\ PageOK /\ up \in BOOLEAN /\ exitTimer \in BOOLEAN
    BY InvFacts
<1>2. attached' = attached /\ screen' = screen /\ current' = current /\ handled' = handled
    BY DEF page
<1>3. ServerOK'
    <2>1. Canceled(journal)' = Canceled(journal)
        OBVIOUS
    <2>2. up = FALSE => exitTimer = FALSE
        BY DEF LiveInv, ServerOK
    <2> QED  BY <1>1, <2>1, <2>2, ServerAfter
<1>4. OwedOK'
    <2>1. ASSUME NEW t \in Sessions PROVE Owes(t)'
        <3>1. \A type \in Decisions : Queued(queue, t, type) => Queued(queue', t, type)
            BY DEF SameEvents
        <3> QED  BY <1>1, <3>1, OwesStill
    <2> QED  BY <1>1, <2>1 DEF OwedOK
<1>5. PageOK'
    <2>1. NotStranded'
        BY <1>1, <1>2 DEF PageOK, NotStranded
    <2>2. ExitOnlyWhenGone'
        BY <1>1, <1>2 DEF PageOK, ExitOnlyWhenGone, SameEvents
    <2> QED  BY <1>1, <1>2, <2>1, <2>2 DEF PageOK
<1> QED  BY <1>1, <1>3, <1>4, <1>5 DEF LiveInv

(* Nothing happened to the queue. *)
LEMMA SameAsItself == \A q : SameEvents(q, q)
BY DEF SameEvents

(* A poll is answered at once, or parked where nothing is for it (handlePollGet). *)
LEMMA PollKeeps ==
    ASSUME LiveInv, NEW a \in Agents, Poll(a)
    PROVE  LiveInv'
<1> DEFINE C == Canceled(journal)
           i == Selected(queue, Lanes[a])
<1>1. /\ C \in SUBSET Sessions /\ LeasesOK(queue, agent, C) /\ PollsOK(polls, agent)
      /\ NothingFor(queue, polls) /\ PageOK
    BY InvFacts
<1>2. /\ up /\ agent[a].at = "idle"
      /\ up' = up /\ exitTimer' = exitTimer /\ journal' = journal /\ page' = page
      /\ owed' = owed /\ blamed' = blamed /\ written' = written
    BY DEF Poll, ghosts
<1>3. queue \in Seq(Entry) /\ polls \in Seq(Agents) /\ agent \in [Agents -> Agent] /\ AgentsOK(agent, C)
    BY <1>1 DEF LeasesOK, QueueOK, AgentsOK, PollsOK
<1>4. /\ LeasesOK(queue', agent', C) /\ PollsOK(polls', agent')
      /\ NothingFor(queue', polls') /\ SameEvents(queue', queue)
    <2>1. CASE Available(queue, Lanes[a]) = {}
        <3> DEFINE new == [agent EXCEPT ![a].at = "parked"]
                   p == Append(polls, a)
                   n == Len(polls)
        <3>1. queue' = queue /\ polls' = p /\ agent' = new
            BY <2>1 DEF Poll
        <3>2. /\ n \in Nat /\ p \in Seq(Agents) /\ DOMAIN p = 1 .. n + 1 /\ DOMAIN polls = 1 .. n
              /\ p[n + 1] = a /\ \A k \in 1 .. n : p[k] = polls[k]
              /\ \A k \in 1 .. n + 1 : k = n + 1 \/ k \in 1 .. n
              /\ \A k \in 1 .. n : k \in 1 .. n + 1
              /\ n + 1 \in 1 .. n + 1
            BY <1>3
        <3>3. /\ new \in [Agents -> Agent] /\ new[a].at = "parked" /\ new[a].holds = agent[a].holds
              /\ new[a].id = agent[a].id /\ new[a].type = agent[a].type
              /\ \A b \in Agents : b # a => new[b] = agent[b]
            BY <1>3 DEF Agent
        <3> HIDE DEF new, p, n
        <3>4. AgentsOK(new, C)
            <4>1. AgentOK(new[a], C)
                BY <1>2, <1>3, <3>3 DEF AgentsOK, AgentOK, Idling
            <4> QED  BY <1>3, <3>3, <4>1 DEF AgentsOK
        <3>5. HeldOK(queue, new)
            <4>1. \A b \in Agents :
                    new[b].holds = agent[b].holds /\ new[b].id = agent[b].id /\ new[b].type = agent[b].type
                BY <3>3
            <4>2. HeldOK(queue, agent)
                BY <1>1 DEF LeasesOK
            <4> QED  BY <4>1, <4>2 DEF HeldOK
        <3>6. PollsOK(p, new)
            <4>1. \A k \in 1 .. n : polls[k] # a /\ polls[k] \in Agents /\ agent[polls[k]].at = "parked"
                <5>1. \A k \in 1 .. n : agent[polls[k]].at = "parked"
                    BY <1>1, <3>2 DEF PollsOK
                <5>2. \A k \in 1 .. n : polls[k] \in Agents
                    BY <1>3, <3>2
                <5> QED  BY <1>2, <5>1, <5>2
            <4>2. \A k \in DOMAIN p : new[p[k]].at = "parked"
                BY <3>2, <3>3, <4>1
            <4>3. \A k, l \in DOMAIN p : p[k] = p[l] => k = l
                BY <1>1, <3>2, <4>1 DEF PollsOK
            <4>4. ASSUME NEW b \in Agents, new[b].at = "parked" PROVE \E k \in DOMAIN p : p[k] = b
                <5>1. CASE b = a
                    BY <3>2, <5>1
                <5>2. CASE b # a
                    <6>1. \E k \in 1 .. n : polls[k] = b
                        BY <1>1, <3>2, <3>3, <4>4, <5>2 DEF PollsOK
                    <6> QED  BY <3>2, <6>1
                <5> QED  BY <5>1, <5>2
            <4> QED  BY <3>2, <4>2, <4>3, <4>4 DEF PollsOK
        <3>7. NothingFor(queue, p)
            BY <1>1, <2>1, <3>2 DEF NothingFor
        <3>8. LeasesOK(queue, new, C)
            BY <1>1, <3>4, <3>5 DEF LeasesOK
        <3> QED  BY <3>1, <3>6, <3>7, <3>8, SameAsItself
    <2>2. CASE Available(queue, Lanes[a]) # {}
        <3> DEFINE r == Claimed(queue, i)
                   new == [agent EXCEPT ![a] = Reader(queue[i])]
        <3>1. queue' = r /\ polls' = polls /\ agent' = new
            BY <2>2 DEF Poll
        <3>2. i \in Available(queue, Lanes[a]) /\ agent[a].at \in Idling
            BY <1>2, <1>3, <2>2, SelectedIsAvailable DEF Idling
        <3> HIDE DEF i
        <3>3. /\ LeasesOK(r, new, C) /\ SameEvents(r, queue)
              /\ \A T : Available(queue, T) = {} => Available(r, T) = {}
            BY <1>1, <3>2, ClaimKeeps
        <3>4. /\ new[a] = Reader(queue[i]) /\ \A b \in Agents : b # a => new[b] = agent[b]
            BY <1>3
        <3>5. new[a].at # "parked" /\ agent[a].at # "parked"
            <4>1. queue[i] \in Entry /\ EntryOK(queue[i], C)
                BY <1>1, <1>3, <3>2 DEF LeasesOK, QueueOK, Available
            <4>2. Reader(queue[i]).at \in {"off", "waiting", "working"}
                BY <1>1, <4>1, ReaderType
            <4> QED  BY <1>2, <3>4, <4>2
        <3> HIDE DEF r, new
        <3>6. PollsOK(polls, new)
            <4>1. \A k \in DOMAIN polls : polls[k] \in Agents
                BY <1>3
            <4>2. \A b \in Agents : (new[b].at = "parked") = (agent[b].at = "parked")
                BY <3>4, <3>5
            <4> QED  BY <1>1, <4>1, <4>2 DEF PollsOK
        <3>7. NothingFor(r, polls)
            BY <1>1, <3>3 DEF NothingFor
        <3> QED  BY <3>1, <3>3, <3>6, <3>7
    <2> QED  BY <2>1, <2>2
<1>5. written' \subseteq Sessions
    BY <1>1, <1>2 DEF PageOK
<1> HIDE DEF C
<1> QED  BY <1>2, <1>4, <1>5, CalmKeeps DEF C

(* A parked poll times out. *)
LEMMA WithdrawKeeps ==
    ASSUME LiveInv, NEW a \in Agents, Withdraw(a)
    PROVE  LiveInv'
<1> DEFINE C == Canceled(journal)
           n == Len(polls)
           new == [agent EXCEPT ![a] = Free]
<1>1. /\ C \in SUBSET Sessions /\ LeasesOK(queue, agent, C) /\ PollsOK(polls, agent)
      /\ NothingFor(queue, polls) /\ PageOK
    BY InvFacts
<1>2. /\ agent[a].at = "parked" /\ agent' = new
      /\ up' = up /\ queue' = queue /\ exitTimer' = exitTimer /\ journal' = journal /\ page' = page
      /\ owed' = owed /\ blamed' = blamed /\ written' = written
    BY DEF Withdraw, ghosts
<1>3. PICK i \in DOMAIN polls : polls[i] = a /\ polls' = RemoveAt(polls, i)
    BY DEF Withdraw
<1>4. polls \in Seq(Agents) /\ agent \in [Agents -> Agent] /\ AgentsOK(agent, C)
    BY <1>1 DEF LeasesOK, AgentsOK, PollsOK
<1> DEFINE p == RemoveAt(polls, i)
<1>5. /\ p \in Seq(Agents) /\ Len(p) = n - 1
      /\ \A k \in 1 .. n - 1 : p[k] = IF k < i THEN polls[k] ELSE polls[k + 1]
    BY <1>4, RemovedAt
<1>6. n \in Nat /\ DOMAIN polls = 1 .. n /\ i \in 1 .. n
    BY <1>4
<1> HIDE DEF p, n
<1>7. DOMAIN p = 1 .. n - 1
    BY <1>5, <1>6
<1>8. /\ \A k \in 1 .. n - 1 : k \in 1 .. n /\ k + 1 \in 1 .. n
      /\ \A k \in 1 .. n : k = i \/ (k < i /\ k \in 1 .. n - 1) \/ (k > i /\ k - 1 \in 1 .. n - 1 /\ ~(k - 1 < i) /\ (k - 1) + 1 = k)
    BY <1>6
<1>9. /\ Free \in Agent /\ AgentOK(Free, C) /\ Free.at = "idle" /\ Free.holds = FALSE
    <2>1. None \in Sessions \cup {None} /\ "none" \in Decisions \cup {"generate", "none"}
        OBVIOUS
    <2> QED  BY <2>1 DEF Free, Agent, AgentOK, Idling, Decisions
<1>10. new \in [Agents -> Agent] /\ new[a] = Free /\ \A b \in Agents : b # a => new[b] = agent[b]
    BY <1>4, <1>9
<1> HIDE DEF new
<1>11. LeasesOK(queue, new, C)
    <2>1. AgentsOK(new, C)
        BY <1>4, <1>9, <1>10 DEF AgentsOK
    <2>2. HeldOK(queue, new)
        <3>1. \A b \in Agents : new[b].holds => new[b] = agent[b]
            BY <1>9, <1>10
        <3> QED  BY <1>1, <3>1 DEF LeasesOK, HeldOK
    <2> QED  BY <1>1, <2>1, <2>2 DEF LeasesOK
<1>12. \A k \in 1 .. n - 1 : \E m \in 1 .. n : m # i /\ p[k] = polls[m]
    BY <1>5, <1>6, <1>8
<1>13. PollsOK(p, new)
    <2>1. \A k \in DOMAIN p : p[k] \in Agents /\ p[k] # a /\ new[p[k]].at = "parked"
        <3> SUFFICES ASSUME NEW k \in DOMAIN p PROVE p[k] \in Agents /\ p[k] # a /\ new[p[k]].at = "parked"
            OBVIOUS
        <3>1. PICK m \in 1 .. n : m # i /\ p[k] = polls[m]
            BY <1>7, <1>12
        <3>2. p[k] # a
            BY <1>1, <1>3, <1>6, <3>1 DEF PollsOK
        <3>3. agent[polls[m]].at = "parked" /\ polls[m] \in Agents
            BY <1>1, <1>4, <1>6, <3>1 DEF PollsOK
        <3> QED  BY <1>10, <3>1, <3>2, <3>3
    <2>2. \A k, l \in DOMAIN p : p[k] = p[l] => k = l
        <3> SUFFICES ASSUME NEW k \in DOMAIN p, NEW l \in DOMAIN p, p[k] = p[l] PROVE k = l
            OBVIOUS
        <3> DEFINE f(x) == IF x < i THEN x ELSE x + 1
        <3>1. f(k) \in 1 .. n /\ f(l) \in 1 .. n /\ p[k] = polls[f(k)] /\ p[l] = polls[f(l)]
            BY <1>5, <1>7, <1>8
        <3>2. f(k) = f(l)
            <4>1. polls[f(k)] = polls[f(l)]
                BY <3>1
            <4> HIDE DEF f
            <4> QED  BY <1>1, <1>6, <3>1, <4>1 DEF PollsOK
        <3> QED  BY <1>6, <1>7, <3>2
    <2>3. ASSUME NEW b \in Agents, new[b].at = "parked" PROVE \E k \in DOMAIN p : p[k] = b
        <3>1. b # a /\ agent[b].at = "parked"
            BY <1>9, <1>10, <2>3
        <3>2. PICK m \in 1 .. n : polls[m] = b
            BY <1>1, <1>6, <3>1 DEF PollsOK
        <3>3. m # i
            BY <1>3, <3>1, <3>2
        <3> QED  BY <1>5, <1>7, <1>8, <3>2, <3>3
    <2> QED  BY <1>5, <2>1, <2>2, <2>3 DEF PollsOK
<1>14. NothingFor(queue, p)
    BY <1>1, <1>6, <1>7, <1>12 DEF NothingFor
<1>15. up = FALSE => FALSE
    BY <1>3 DEF LiveInv, ServerOK
<1>16. written' \subseteq Sessions
    BY <1>1, <1>2 DEF PageOK
<1>17. polls' = p
    BY <1>3 DEF p
<1> HIDE DEF C
<1> QED  BY <1>2, <1>11, <1>13, <1>14, <1>15, <1>16, <1>17, CalmKeeps, SameAsItself DEF C

(* An agent starts, is lost, or writes what it generates. *)
LEMMA FewerSteps ==
    ASSUME LiveInv, Fewer(agent', agent, Canceled(journal)), server' = server, page' = page,
           owed' = owed, blamed' = blamed, written' \subseteq Sessions
    PROVE  LiveInv'
<1>1. /\ up' = up /\ queue' = queue /\ polls' = polls /\ exitTimer' = exitTimer /\ journal' = journal
    BY DEF server
<1>2. /\ LeasesOK(queue, agent, Canceled(journal)) /\ PollsOK(polls, agent) /\ NothingFor(queue, polls)
    BY InvFacts
<1>3. LeasesOK(queue, agent', Canceled(journal)) /\ PollsOK(polls, agent')
    BY <1>2, FewerKeeps
<1>4. up = FALSE => queue = <<>> /\ polls = <<>>
    BY DEF LiveInv, ServerOK
<1> QED  BY <1>1, <1>2, <1>3, <1>4, CalmKeeps, SameAsItself

(* An agent starts anew, or is lost with its lease still in the queue. *)
LEMMA JoinKeeps ==
    ASSUME LiveInv, NEW a \in Agents, Join(a) \/ AgentLost(a)
    PROVE  LiveInv'
<1>1. /\ agent[a].at # "parked" /\ agent' = [agent EXCEPT ![a] = Free]
      /\ server' = server /\ page' = page /\ owed' = owed /\ blamed' = blamed /\ written' = written
    BY DEF Join, AgentLost, ghosts
<1>2. AgentsOK(agent, Canceled(journal)) /\ PageOK
    BY InvFacts DEF LeasesOK
<1>3. Fewer(agent', agent, Canceled(journal))
    BY <1>1, <1>2, FreeIsFewer
<1> QED  BY <1>1, <1>2, <1>3, FewerSteps DEF PageOK

(* The variants are in the source; the generate is still held. *)
LEMMA WriteKeeps ==
    ASSUME LiveInv, NEW a \in Agents, Write(a)
    PROVE  LiveInv'
<1> DEFINE C == Canceled(journal)
           new == [agent EXCEPT ![a].at = "wrote"]
<1>1. /\ agent[a].type = "generate" /\ agent[a].at = "working" /\ agent' = new
      /\ written' = written \cup {agent[a].id}
      /\ server' = server /\ page' = page /\ owed' = owed /\ blamed' = blamed
    BY DEF Write, Generating, ghosts
<1>2. AgentsOK(agent, C) /\ PageOK
    BY InvFacts DEF LeasesOK
<1>3. agent \in [Agents -> Agent] /\ AgentOK(agent[a], C)
    BY <1>2 DEF AgentsOK
<1>4. /\ new \in [Agents -> Agent] /\ new[a].at = "wrote" /\ new[a].holds = agent[a].holds
      /\ new[a].id = agent[a].id /\ new[a].type = agent[a].type
      /\ \A b \in Agents : b # a => new[b] = agent[b]
    BY <1>3 DEF Agent
<1> HIDE DEF new
<1>5. AgentOK(new[a], C)
    BY <1>1, <1>3, <1>4 DEF AgentOK, Idling
<1>6. Fewer(new, agent, C)
    BY <1>1, <1>2, <1>4, <1>5 DEF Fewer, AgentsOK
<1>7. agent[a].id \in Sessions
    BY <1>1, <1>3 DEF AgentOK, Idling
<1>8. written' \subseteq Sessions
    BY <1>1, <1>2, <1>7 DEF PageOK
<1> HIDE DEF C
<1> QED  BY <1>1, <1>6, <1>8, FewerSteps DEF C

(* A lease runs out: its holder loses it before the event is handed out again. *)
LEMMA LeaseExpiresKeeps == LiveInv /\ LeaseExpires => LiveInv'
<1> SUFFICES ASSUME LiveInv, LeaseExpires PROVE LiveInv'
    OBVIOUS
<1> DEFINE C == Canceled(journal)
<1>1. /\ C \in SUBSET Sessions /\ LeasesOK(queue, agent, C) /\ PollsOK(polls, agent)
      /\ NothingFor(queue, polls) /\ PageOK
    BY InvFacts
<1>2. PICK i \in DOMAIN queue :
          /\ queue[i].leased /\ queue[i].stage # "preparing"
          /\ Flush([queue EXCEPT ![i].leased = FALSE], Released(agent, queue[i].id, queue[i].type))
    BY DEF LeaseExpires
<1>3. /\ up' = up /\ exitTimer' = exitTimer /\ journal' = journal /\ page' = page
      /\ owed' = owed /\ blamed' = blamed /\ written' = written
    BY DEF LeaseExpires, ghosts
<1>4. queue \in Seq(Entry) /\ QueueOK(queue, C) /\ AgentsOK(agent, C) /\ HeldOK(queue, agent)
    BY <1>1 DEF LeasesOK, QueueOK
<1>5. queue[i] \in Entry /\ EntryOK(queue[i], C)
    BY <1>4 DEF QueueOK
<1> DEFINE e == queue[i]
           f == [e EXCEPT !.leased = FALSE]
           r == [queue EXCEPT ![i].leased = FALSE]
           ag == Released(agent, e.id, e.type)
<1>6. f \in Entry /\ f.id = e.id /\ f.type = e.type /\ f.stage = e.stage /\ f.leased = FALSE
    BY <1>5 DEF Entry
<1>7. r = [queue EXCEPT ![i] = f]
    BY <1>4
<1>8. EntryOK(f, C)
    <2> HIDE DEF f
    <2> QED  BY <1>2, <1>5, <1>6 DEF EntryOK
<1>9. Flush(r, ag)
    BY <1>2
<1> HIDE DEF f, r, ag
<1>10. QueueOK(r, C) /\ Updated(r, queue, i, f)
    <2>1. f.id = queue[i].id /\ f.type = queue[i].type /\ f \in Entry /\ i \in DOMAIN queue
        BY <1>6
    <2> QED  BY <1>4, <1>7, <1>8, <2>1, UpdateKeeps, Zenon
<1>11. /\ Fewer(ag, agent, C)
       /\ \A a \in Agents : ag[a].holds => agent[a].id # e.id \/ agent[a].type # e.type
    BY <1>4, ReleasedIsFewer DEF ag
<1>12. LeasesOK(queue, ag, C) /\ PollsOK(polls, ag)
    BY <1>1, <1>11, FewerKeeps
<1>13. HeldOK(r, ag)
    <2>1. ASSUME NEW a \in Agents, ag[a].holds
          PROVE  \E k \in DOMAIN r : r[k].leased /\ r[k].id = ag[a].id /\ r[k].type = ag[a].type
        <3>1. PICK k \in DOMAIN queue : queue[k].leased /\ queue[k].id = ag[a].id /\ queue[k].type = ag[a].type
            BY <1>12, <2>1 DEF LeasesOK, HeldOK
        <3>2. k # i
            BY <1>11, <2>1, <3>1 DEF Fewer
        <3> QED  BY <1>10, <3>1, <3>2 DEF Updated
    <2> QED  BY <1>12, <2>1 DEF LeasesOK, HeldOK
<1>14. LeasesOK(r, ag, C)
    BY <1>10, <1>12, <1>13 DEF LeasesOK
<1>15. /\ LeasesOK(queue', agent', C) /\ PollsOK(polls', agent')
       /\ NothingFor(queue', polls') /\ SameEvents(queue', r)
    BY <1>1, <1>9, <1>12, <1>14, FlushKeeps
<1>16. SameEvents(queue', queue)
    BY <1>10, <1>15 DEF SameEvents, Updated
<1>17. up = FALSE => FALSE
    BY <1>2 DEF LiveInv, ServerOK
<1>18. written' \subseteq Sessions
    BY <1>1, <1>3 DEF PageOK
<1> HIDE DEF C
<1> QED  BY <1>3, <1>15, <1>16, <1>17, <1>18, CalmKeeps DEF C

-----------------------------------------------------------------------------
(* Decisions, and what befalls the server *)

(* A session is decided of which no generate is queued. *)
LEMMA MoreDecided ==
    ASSUME NEW C, NEW s, NEW q, NEW ag, LeasesOK(q, ag, C),
           \A m \in DOMAIN q : ~(q[m].id = s /\ q[m].type \in {"generate"})
    PROVE  LeasesOK(q, ag, C \cup {s})
<1>1. QueueOK(q, C) /\ AgentsOK(ag, C) /\ HeldOK(q, ag)
    BY DEF LeasesOK
<1>2. \A m \in DOMAIN q : EntryOK(q[m], C \cup {s})
    BY <1>1 DEF QueueOK, EntryOK
<1>3. QueueOK(q, C \cup {s})
    BY <1>1, <1>2 DEF QueueOK
<1>4. \A a \in Agents : AgentOK(ag[a], C \cup {s})
    BY <1>1 DEF AgentsOK, AgentOK
<1>5. AgentsOK(ag, C \cup {s})
    BY <1>1, <1>4 DEF AgentsOK
<1> QED  BY <1>1, <1>3, <1>5 DEF LeasesOK

\* The decision on a session is in the journal.
Decides(s, type) == journal' = [journal EXCEPT ![s] = Decided(@, type)]

(* The journal after a decision. *)
LEMMA DecidesKeeps ==
    ASSUME JournalOK(journal), NEW s \in Sessions, NEW type \in Decisions, Decides(s, type)
    PROVE  /\ JournalOK(journal') /\ Canceled(journal') = Canceled(journal) \cup {s}
           /\ journal'[s].canceled /\ journal'[s].pending = type /\ ~Closed(journal'[s])
           /\ journal'[s].phase # "new"
           /\ \A t \in Sessions : t # s => journal'[t] = journal[t]
<1> DEFINE k == Decided(journal[s], type)
<1>1. journal[s] \in Journal
    BY DEF JournalOK
<1>2. /\ k \in Journal /\ RecordOK(k) /\ k.canceled = TRUE /\ k.pending = type
      /\ ~Closed(k) /\ k.phase # "new"
    BY <1>1, DecidedKeeps
<1>3. journal' = [journal EXCEPT ![s] = k]
    BY DEF Decides
<1> HIDE DEF k
<1>4. journal'[s] = k /\ \A t \in Sessions : t # s => journal'[t] = journal[t]
    BY <1>3 DEF JournalOK
<1>5. JournalOK(journal')
    BY <1>2, <1>3, <1>4 DEF JournalOK
<1>6. Canceled(journal') = Canceled(journal) \cup {s}
    BY <1>2, <1>4 DEF Canceled
<1> QED  BY <1>2, <1>4, <1>5, <1>6

(* A decision replaces the generate of its session in the queue (handleAccept). *)
LEMMA DecideKeeps ==
    ASSUME LiveInv, NEW type \in Decisions, Decide(type)
    PROVE  LiveInv'
<1> DEFINE C == Canceled(journal)
           s == current
           D == C \cup {s}
           e == Event(s, type, TRUE)
           q1 == Without(queue, s, {"generate"})
           ag == Released(agent, s, "generate")
<1>1. /\ C \in SUBSET Sessions /\ LeasesOK(queue, agent, C) /\ PollsOK(polls, agent)
      /\ JournalOK(journal) /\ OwedOK /\ PageOK /\ up \in BOOLEAN /\ exitTimer \in BOOLEAN
    BY InvFacts
<1>2. /\ up /\ attached /\ screen = "cycling" /\ Decides(s, type) /\ Flush(Enqueued(q1, e), ag)
      /\ owed' = [owed EXCEPT ![s] = type]
      /\ handled' = handled \cup {s} /\ screen' = "picking" /\ current' = None
      /\ up' = up /\ exitTimer' = exitTimer /\ attached' = attached /\ written' = written /\ blamed' = blamed
    BY DEF Decide, CanPost, Decides
<1>3. s \in Sessions
    BY <1>1, <1>2 DEF PageOK
<1>4. queue \in Seq(Entry) /\ QueueOK(queue, C)
    BY <1>1 DEF LeasesOK, QueueOK
<1>5. /\ Removed(q1, queue, s, {"generate"})
      /\ \A m \in DOMAIN q1 : ~(q1[m].id = s /\ q1[m].type \in {"generate"})
    BY <1>4, WithoutRemoves
<1> HIDE DEF q1
<1>6. LeasesOK(q1, ag, C) /\ PollsOK(polls, ag)
    BY <1>1, <1>5, ReleaseKeeps
<1>7. /\ \A id, t : Queued(q1, id, t) => Queued(queue, id, t)
      /\ \A id, t : Queued(queue, id, t) /\ ~(id = s /\ t \in {"generate"}) => Queued(q1, id, t)
    BY <1>4, <1>5, RemovedKeeps
<1>8. LeasesOK(q1, ag, D)
    BY <1>5, <1>6, MoreDecided
<1>9. e \in Entry /\ EntryOK(e, D) /\ e.id = s /\ e.type = type /\ e.id # None
    <2>1. type \in EventTypes /\ TRUE \in BOOLEAN /\ s \in Sessions \cup {None} /\ s # None
        BY <1>3, SessionIsSome DEF EventTypes
    <2>2. /\ e \in Entry /\ e.id = s /\ e.type = type /\ e.leased = FALSE /\ e.stage # "preparing"
        BY <2>1, EventType
    <2> HIDE DEF e
    <2> QED  BY <2>1, <2>2 DEF EntryOK, Decisions
<1> HIDE DEF e, ag
<1> DEFINE q == Enqueued(q1, e)
<1>10. /\ LeasesOK(q, ag, D)
       /\ \A t, y : Queued(q, t, y) <=> Queued(q1, t, y) \/ (s = t /\ type = y)
    BY <1>8, <1>9, EnqueueKeeps
<1>11. Flush(q, ag)
    BY <1>2
<1> HIDE DEF q
<1>12. /\ JournalOK(journal') /\ Canceled(journal') = D
       /\ journal'[s].canceled /\ journal'[s].pending = type /\ ~Closed(journal'[s])
       /\ journal'[s].phase # "new"
       /\ \A t \in Sessions : t # s => journal'[t] = journal[t]
    BY <1>1, <1>2, <1>3, DecidesKeeps
<1>13. D \in SUBSET Sessions
    BY <1>1, <1>3
<1> HIDE DEF D
<1>14. /\ LeasesOK(queue', agent', D) /\ PollsOK(polls', agent')
       /\ NothingFor(queue', polls') /\ SameEvents(queue', q)
    BY <1>6, <1>10, <1>11, <1>13, FlushKeeps
<1>15. ServerOK'
    <2>1. Canceled(journal)' = D
        BY <1>12
    <2> QED  BY <1>1, <1>2, <1>14, <2>1, ServerAfter
<1>16. OwedOK'
    <2>1. owed' \in [Sessions -> Decisions \cup {"none"}] /\ owed'[s] = type
          /\ \A t \in Sessions : t # s => owed'[t] = owed[t]
        BY <1>1, <1>2, <1>3 DEF OwedOK
    <2>2. ASSUME NEW t \in Sessions PROVE Owes(t)'
        <3>1. CASE t = s
            <4>1. Queued(queue', s, type)
                BY <1>3, <1>10, <1>14 DEF SameEvents
            <4> QED  BY <1>12, <2>1, <3>1, <4>1 DEF Owes
        <3>2. CASE t # s
            <4>1. \A y \in Decisions : Queued(queue, t, y) => Queued(queue', t, y)
                BY <1>7, <1>10, <1>14, <3>2 DEF SameEvents
            <4> QED  BY <1>1, <1>2, <1>12, <2>1, <3>2, <4>1, OwesStill
        <3> QED  BY <3>1, <3>2
    <2> QED  BY <2>1, <2>2 DEF OwedOK
<1>17. PageOK'
    <2>1. NotStranded'
        BY <1>2 DEF NotStranded
    <2>2. ~Queued(queue', None, "exit")
        <3>1. ~Queued(queue, None, "exit")
            BY <1>1, <1>2 DEF PageOK, ExitOnlyWhenGone
        <3> QED  BY <1>3, <1>7, <1>10, <1>14, <3>1, SessionIsSome DEF SameEvents
    <2> QED  BY <1>1, <1>2, <1>3, <2>1, <2>2 DEF PageOK, ExitOnlyWhenGone
<1> QED  BY <1>12, <1>15, <1>16, <1>17 DEF LiveInv

(* When the server is gone no agent holds anything, and what a decision leaves to clean is still *)
(* of a decided session.                                                                        *)
LEMMA DownKeeps ==
    ASSUME LiveInv, Down, NEW D \in SUBSET Sessions, Canceled(journal) \subseteq D, Canceled(journal)' = D
    PROVE  ServerOK'
<1> DEFINE C == Canceled(journal)
           new == Gone(agent)
<1>1. /\ up' = FALSE /\ queue' = <<>> /\ polls' = <<>> /\ exitTimer' = FALSE /\ agent' = new
    BY DEF Down
<1>2. AgentsOK(agent, C) /\ agent \in [Agents -> Agent]
    BY DEF LiveInv, ServerOK, AgentsOK
<1>3. ASSUME NEW a \in Agents
      PROVE  new[a] \in Agent /\ AgentOK(new[a], D) /\ new[a].at # "parked" /\ new[a].holds = FALSE
    <2>1. agent[a] \in Agent /\ AgentOK(agent[a], C)
        BY <1>2 DEF AgentsOK
    <2>2. CASE agent[a].at \in {"parked", "waiting"}
        <3>1. new[a] = Free
            BY <2>2 DEF Gone
        <3>2. Free \in Agent
            <4>1. None \in Sessions \cup {None} /\ "none" \in Decisions \cup {"generate", "none"}
                OBVIOUS
            <4> QED  BY <4>1 DEF Free, Agent
        <3> QED  BY <3>1, <3>2 DEF Free, AgentOK, Idling, Decisions
    <2>3. CASE agent[a].at = "working" /\ agent[a].type \in Decisions
        <3> DEFINE g == [agent[a] EXCEPT !.at = "cleaning", !.holds = FALSE]
        <3>1. new[a] = g
            BY <2>3 DEF Gone
        <3>2. /\ g \in Agent /\ g.at = "cleaning" /\ g.holds = FALSE
              /\ g.id = agent[a].id /\ g.type = agent[a].type
            BY <2>1 DEF Agent
        <3> HIDE DEF g, new
        <3> QED  BY <2>1, <2>3, <3>1, <3>2 DEF AgentOK, Idling, Decisions
    <2>4. CASE ~(agent[a].at \in {"parked", "waiting"})
               /\ ~(agent[a].at = "working" /\ agent[a].type \in Decisions)
        <3> DEFINE g == [agent[a] EXCEPT !.holds = FALSE]
        <3>1. new[a] = g
            BY <2>4 DEF Gone
        <3>2. /\ g \in Agent /\ g.at = agent[a].at /\ g.holds = FALSE
              /\ g.id = agent[a].id /\ g.type = agent[a].type
            BY <2>1 DEF Agent
        <3> HIDE DEF g, new
        <3> QED  BY <2>1, <2>4, <3>1, <3>2 DEF AgentOK
    <2> QED  BY <2>2, <2>3, <2>4
<1>4. new \in [Agents -> Agent]
    <2>1. new = [a \in Agents |-> new[a]]
        BY DEF Gone
    <2> HIDE DEF new
    <2> QED  BY <1>3, <2>1
<1> HIDE DEF new
<1>5. AgentsOK(new, D)
    BY <1>3, <1>4 DEF AgentsOK
<1>6. <<>> \in Seq(Entry) /\ <<>> \in Seq(Agents) /\ DOMAIN <<>> = {}
    OBVIOUS
<1>7. QueueOK(<<>>, D) /\ HeldOK(<<>>, new) /\ PollsOK(<<>>, new) /\ NothingFor(<<>>, <<>>)
    BY <1>3, <1>6 DEF QueueOK, HeldOK, PollsOK, NothingFor
<1> QED  BY <1>1, <1>5, <1>7, ServerAfter DEF LeasesOK

(* The server goes after a decision is journaled and before it answers. *)
LEMMA DecideUnheardKeeps ==
    ASSUME LiveInv, NEW type \in Decisions, DecideUnheard(type)
    PROVE  LiveInv'
<1> DEFINE s == current
<1>1. /\ Canceled(journal) \in SUBSET Sessions /\ JournalOK(journal) /\ OwedOK /\ PageOK
    BY InvFacts
<1>2. /\ screen = "cycling" /\ Decides(s, type) /\ owed' = [owed EXCEPT ![s] = type] /\ Down
      /\ screen' = screen /\ current' = current /\ handled' = handled /\ written' = written /\ blamed' = blamed
    BY DEF DecideUnheard, Decides
<1>3. s \in Sessions
    BY <1>1, <1>2 DEF PageOK
<1>4. /\ JournalOK(journal') /\ Canceled(journal') = Canceled(journal) \cup {s}
      /\ journal'[s].canceled /\ journal'[s].pending = type /\ ~Closed(journal'[s])
      /\ journal'[s].phase # "new"
      /\ \A t \in Sessions : t # s => journal'[t] = journal[t]
    BY <1>1, <1>2, <1>3, DecidesKeeps
<1>5. ServerOK'
    <2> DEFINE D == Canceled(journal) \cup {s}
    <2>1. D \in SUBSET Sessions /\ Canceled(journal) \subseteq D /\ Canceled(journal)' = D
        BY <1>1, <1>3, <1>4
    <2> HIDE DEF D
    <2> QED  BY <1>2, <2>1, DownKeeps
<1>6. up' = FALSE /\ attached' = FALSE
    BY <1>2 DEF Down
<1>7. OwedOK'
    <2>1. owed' \in [Sessions -> Decisions \cup {"none"}] /\ owed'[s] = type
          /\ \A t \in Sessions : t # s => owed'[t] = owed[t]
        BY <1>1, <1>2, <1>3 DEF OwedOK
    <2>2. ASSUME NEW t \in Sessions PROVE Owes(t)'
        <3>1. CASE t = s
            BY <1>4, <1>6, <2>1, <3>1 DEF Owes
        <3>2. CASE t # s
            BY <1>1, <1>2, <1>4, <1>6, <2>1, <3>2 DEF OwedOK, Owes
        <3> QED  BY <3>1, <3>2
    <2> QED  BY <2>1, <2>2 DEF OwedOK
<1>8. PageOK'
    BY <1>1, <1>2, <1>6 DEF PageOK, NotStranded, ExitOnlyWhenGone
<1> QED  BY <1>4, <1>5, <1>7, <1>8 DEF LiveInv

(* The server goes. *)
LEMMA CrashKeeps == LiveInv /\ Crash => LiveInv'
<1> SUFFICES ASSUME LiveInv, Crash PROVE LiveInv'
    OBVIOUS
<1>1. /\ Canceled(journal) \in SUBSET Sessions /\ JournalOK(journal) /\ OwedOK /\ PageOK
    BY InvFacts
<1>2. /\ Down /\ journal' = journal /\ screen' = screen /\ current' = current /\ handled' = handled
      /\ written' = written /\ owed' = owed /\ blamed' = blamed /\ up' = FALSE /\ attached' = FALSE
    BY DEF Crash, Down, ghosts
<1>3. ServerOK'
    <2> DEFINE C == Canceled(journal)
    <2>1. C \in SUBSET Sessions /\ Canceled(journal) \subseteq C /\ Canceled(journal)' = C
        BY <1>1, <1>2
    <2> HIDE DEF C
    <2> QED  BY <1>2, <2>1, DownKeeps
<1>4. OwedOK'
    BY <1>1, <1>2 DEF OwedOK, Owes
<1>5. PageOK'
    BY <1>1, <1>2 DEF PageOK, NotStranded, ExitOnlyWhenGone
<1> QED  BY <1>1, <1>2, <1>3, <1>4, <1>5 DEF LiveInv

(* The preflight ends: its entry was leased all along (prepareGenerateEventForLease). *)
LEMMA PreflightEndsKeeps == LiveInv /\ PreflightEnds => LiveInv'
<1> SUFFICES ASSUME LiveInv, PreflightEnds PROVE LiveInv'
    OBVIOUS
<1> DEFINE C == Canceled(journal)
<1>1. /\ C \in SUBSET Sessions /\ LeasesOK(queue, agent, C) /\ PollsOK(polls, agent)
      /\ NothingFor(queue, polls) /\ JournalOK(journal) /\ OwedOK /\ PageOK
      /\ up \in BOOLEAN /\ exitTimer \in BOOLEAN
    BY InvFacts
<1>2. PICK i \in DOMAIN queue :
        /\ queue[i].stage = "preparing"
        /\ queue' = [queue EXCEPT ![i].stage = "ready", ![i].leased = TRUE]
        /\ journal' = [journal EXCEPT ![queue[i].id] = Generated(@, TRUE)]
        /\ agent' = [a \in Agents |->
              IF agent[a].at = "waiting" /\ agent[a].id = queue[i].id
              THEN [agent[a] EXCEPT !.at = "working"] ELSE agent[a]]
        /\ up' = up /\ polls' = polls /\ exitTimer' = exitTimer /\ page' = page /\ written' = written
        /\ owed' = owed /\ blamed' = blamed
    BY DEF PreflightEnds, ghosts
<1>3. queue \in Seq(Entry) /\ QueueOK(queue, C) /\ AgentsOK(agent, C) /\ HeldOK(queue, agent)
    BY <1>1 DEF LeasesOK, QueueOK
<1> DEFINE e == queue[i]
           s == e.id
           f == [e EXCEPT !.stage = "ready", !.leased = TRUE]
<1>4. e \in Entry /\ EntryOK(e, C)
    BY <1>3 DEF QueueOK
<1>5. e.type = "generate" /\ e.leased = TRUE /\ s \in Sessions /\ s \notin C
    BY <1>2, <1>4 DEF EntryOK, Entry
<1>6. f \in Entry /\ f.id = e.id /\ f.type = e.type /\ f.stage = "ready" /\ f.leased = TRUE
    BY <1>4 DEF Entry
<1>7. queue' = [queue EXCEPT ![i] = f]
    BY <1>2, <1>3
<1>8. QueueOK(queue', C) /\ Updated(queue', queue, i, f)
    <2> HIDE DEF f
    <2>1. EntryOK(f, C)
        BY <1>4, <1>5, <1>6 DEF EntryOK, Decisions
    <2>2. f.id = queue[i].id /\ f.type = queue[i].type /\ f \in Entry /\ i \in DOMAIN queue
        BY <1>6
    <2> QED  BY <1>3, <1>7, <2>1, <2>2, UpdateKeeps, Zenon
<1> HIDE DEF f
<1>9. HeldOK(queue', agent)
    <2>1. \A k \in DOMAIN queue :
            /\ k \in DOMAIN queue' /\ queue'[k].id = queue[k].id /\ queue'[k].type = queue[k].type
            /\ queue[k].leased => queue'[k].leased
        BY <1>6, <1>8 DEF Updated
    <2> QED  BY <1>3, <2>1 DEF HeldOK
<1>10. NothingFor(queue', polls)
    BY <1>1, <1>6, <1>8 DEF NothingFor, Updated
<1>11. SameEvents(queue', queue)
    BY <1>8 DEF SameEvents, Updated
<1>12. Fewer(agent', agent, C)
    <2> DEFINE g(a) == [agent[a] EXCEPT !.at = "working"]
    <2>1. ASSUME NEW a \in Agents
          PROVE  /\ agent[a] \in Agent /\ AgentOK(agent[a], C)
                 /\ g(a) \in Agent /\ g(a).at = "working" /\ g(a).id = agent[a].id
                 /\ g(a).type = agent[a].type /\ g(a).holds = agent[a].holds
        BY <1>3 DEF AgentsOK, Agent
    <2>2. \A a \in Agents : agent'[a] = IF agent[a].at = "waiting" /\ agent[a].id = s THEN g(a) ELSE agent[a]
        BY <1>2
    <2>3. agent' = [a \in Agents |-> agent'[a]]
        BY <1>2
    <2> HIDE DEF g
    <2>4. \A a \in Agents : agent[a].at = "waiting" => AgentOK(g(a), C)
        BY <2>1 DEF AgentOK, Idling
    <2>5. agent' \in [Agents -> Agent]
        BY <2>1, <2>2, <2>3
    <2> QED  BY <2>1, <2>2, <2>4, <2>5 DEF Fewer
<1>13. LeasesOK(queue', agent', C) /\ PollsOK(polls, agent')
    <2>1. LeasesOK(queue', agent, C)
        BY <1>3, <1>8, <1>9 DEF LeasesOK
    <2> QED  BY <1>1, <1>12, <2>1, FewerKeeps
<1> DEFINE k == Generated(journal[s], TRUE)
<1>14. /\ k \in Journal /\ RecordOK(k) /\ k.canceled = journal[s].canceled
       /\ k.completed = journal[s].completed /\ k.phase = "generate_requested"
       /\ ~journal[s].canceled
    <2>1. journal[s] \in Journal /\ RecordOK(journal[s]) /\ ~journal[s].canceled
        BY <1>1, <1>5 DEF JournalOK, Canceled
    <2> QED  BY <2>1, GeneratedKeeps
<1>15. journal' = [journal EXCEPT ![s] = k]
    BY <1>2
<1> HIDE DEF k
<1>16. /\ JournalOK(journal') /\ Canceled(journal') = C /\ journal'[s] = k
       /\ \A t \in Sessions : t # s => journal'[t] = journal[t]
    <2>1. Recorded(journal', s, k)
        BY <1>14, <1>15 DEF Recorded
    <2> QED  BY <1>1, <1>5, <2>1, RecordedKeeps
<1>17. ServerOK'
    <2>1. Canceled(journal)' = C
        BY <1>16
    <2>2. up' = FALSE => FALSE
        BY <1>2 DEF LiveInv, ServerOK
    <2> QED  BY <1>1, <1>2, <1>10, <1>13, <2>1, <2>2, ServerAfter
<1>18. OwedOK'
    <2>1. ASSUME NEW t \in Sessions PROVE Owes(t)'
        <3>1. CASE t = s
            BY <1>1, <1>2, <1>5, <1>14, <1>16, <3>1 DEF OwedOK, Owes
        <3>2. CASE t # s
            <4>1. \A type \in Decisions : Queued(queue, t, type) => Queued(queue', t, type)
                BY <1>11 DEF SameEvents
            <4> QED  BY <1>1, <1>2, <1>16, <3>2, <4>1, OwesStill
        <3> QED  BY <3>1, <3>2
    <2> QED  BY <1>1, <1>2, <2>1 DEF OwedOK
<1>19. PageOK'
    <2>1. attached' = attached /\ screen' = screen /\ current' = current /\ handled' = handled
        BY <1>2 DEF page
    <2>2. NotStranded'
        <3> SUFFICES ASSUME attached, screen = "generating"
                     PROVE  ~journal'[current].completed \/ journal'[current].canceled
            BY <2>1 DEF NotStranded
        <3>1. current \in Sessions /\ (~journal[current].completed \/ journal[current].canceled)
            BY <1>1 DEF PageOK, NotStranded
        <3> QED  BY <1>14, <1>16, <3>1
    <2>3. ExitOnlyWhenGone'
        BY <1>1, <1>11, <2>1 DEF PageOK, ExitOnlyWhenGone, SameEvents
    <2> QED  BY <1>1, <1>2, <2>1, <2>2, <2>3 DEF PageOK
<1> QED  BY <1>16, <1>17, <1>18, <1>19 DEF LiveInv

-----------------------------------------------------------------------------
(* Answers of the agents *)

(* An answer that is posted: it settles its session's decision, or it is blamed, or it is of a *)
(* generation and leaves the decision alone.                                                  *)
LEMMA AnswerKeeps ==
    ASSUME LiveInv, up, NEW s \in Sessions, NEW reply \in Replies,
           reply \notin {"done", "error"} => journal[s].canceled,
           NEW source, NEW ag, Fewer(ag, agent, Canceled(journal)), HandlePollPost(s, reply, source, ag),
           written' \subseteq Sessions, blamed \subseteq blamed',
           owed' \in [Sessions -> Decisions \cup {"none"}],
           \A t \in Sessions : t # s => owed'[t] = owed[t],
           \/ owed'[s] = "none"
           \/ owed'[s] = owed[s] /\ s \in blamed'
           \/ owed'[s] = owed[s] /\ reply = "done" /\ source = "generate"
    PROVE  LiveInv'
<1> DEFINE C == Canceled(journal)
<1>1. /\ C \in SUBSET Sessions /\ LeasesOK(queue, agent, C) /\ PollsOK(polls, agent)
      /\ JournalOK(journal) /\ OwedOK /\ PageOK /\ up \in BOOLEAN /\ exitTimer \in BOOLEAN
    BY InvFacts
<1>2. up' = up /\ exitTimer' = exitTimer /\ Shown(reply, s)
    BY DEF HandlePollPost
<1>3. /\ LeasesOK(queue', agent', C) /\ PollsOK(polls', agent') /\ NothingFor(queue', polls')
      /\ Queued(queue', None, "exit") => Queued(queue, None, "exit")
      /\ \A t \in Sessions : \A type :
           Queued(queue, t, type) /\ ~(t = s /\ source \in {"any", type}) => Queued(queue', t, type)
      /\ Recorded(journal', s, journal'[s]) /\ Answered(journal'[s], journal[s], reply)
    BY <1>1, PostKeeps
<1> HIDE DEF C
<1>4. /\ JournalOK(journal') /\ Canceled(journal') = C
      /\ \A t \in Sessions : t # s => journal'[t] = journal[t]
    BY <1>1, <1>3, RecordedKeeps DEF C
<1>5. ServerOK'
    <2>1. Canceled(journal)' = C
        BY <1>4
    <2>2. up' = TRUE
        BY <1>1, <1>2
    <2> QED  BY <1>1, <1>2, <1>3, <2>1, <2>2, ServerAfter
<1>6. OwedOK'
    <2>1. ASSUME NEW t \in Sessions PROVE Owes(t)'
        <3>1. CASE t # s
            <4>1. \A type \in Decisions : Queued(queue, t, type) => Queued(queue', t, type)
                BY <1>3, <3>1
            <4> QED  BY <1>1, <1>2, <1>4, <3>1, <4>1, OwesStill
        <3>2. CASE t = s /\ owed'[s] = "none"
            BY <3>2 DEF Owes
        <3>3. CASE t = s /\ owed'[s] = owed[s] /\ s \in blamed'
            <4>1. journal'[s].phase = "new" => journal[s].phase = "new"
                BY <1>3 DEF Answered
            <4>2. journal[s].phase = "new" => owed[s] = "none"
                BY <1>1 DEF OwedOK, Owes
            <4> QED  BY <3>3, <4>1, <4>2 DEF Owes
        <3>4. CASE t = s /\ owed'[s] = owed[s] /\ reply = "done" /\ source = "generate"
            <4>1. \A type \in Decisions : Queued(queue, s, type) => Queued(queue', s, type)
                BY <1>3, <3>4 DEF Decisions
            <4>2. /\ journal[s].canceled => journal'[s] = journal[s]
                  /\ journal'[s].phase = "new" => journal[s].phase = "new"
                BY <1>3, <3>4 DEF Answered
            <4>3. s \in blamed => s \in blamed'
                OBVIOUS
            <4> QED  BY <1>1, <1>2, <3>4, <4>1, <4>2, <4>3, OwesStill
        <3> QED  BY <3>1, <3>2, <3>3, <3>4
    <2> QED  BY <2>1 DEF OwedOK
<1>7. PageOK'
    BY <1>1, <1>2, <1>3, PageHears
<1> QED  BY <1>4, <1>5, <1>6, <1>7 DEF LiveInv

(* Whoever handles an event knows its session; a decision that is answered was made. *)
LEMMA AgentFacts ==
    ASSUME LiveInv, NEW a \in Agents
    PROVE  /\ AgentsOK(agent, Canceled(journal)) /\ agent \in [Agents -> Agent] /\ agent[a] \in Agent
           /\ agent[a].at \notin Idling =>
                agent[a].id \in Sessions /\ agent[a].type \in Decisions \cup {"generate"}
           /\ agent[a].at \notin Idling /\ agent[a].type \in Decisions => journal[agent[a].id].canceled
           /\ agent[a].at = "cleaning" => agent[a].type \in Decisions
           /\ agent[a].at # "parked" => Fewer([agent EXCEPT ![a] = Free], agent, Canceled(journal))
<1>1. AgentsOK(agent, Canceled(journal)) /\ agent \in [Agents -> Agent] /\ AgentOK(agent[a], Canceled(journal))
    BY InvFacts DEF LeasesOK, AgentsOK
<1>2. agent[a].at # "parked" => Fewer([agent EXCEPT ![a] = Free], agent, Canceled(journal))
    BY <1>1, FreeIsFewer
<1> QED  BY <1>1, <1>2 DEF AgentOK, Canceled

(* A generation is done; if it is late, the decision that overtook it is untouched. *)
LEMMA ReplyDoneKeeps ==
    ASSUME LiveInv, NEW a \in Agents, ReplyDone(a)
    PROVE  LiveInv'
<1> DEFINE s == agent[a].id
           ag == [agent EXCEPT ![a] = Free]
<1>1. /\ up /\ agent[a].at = "wrote" /\ HandlePollPost(s, "done", "generate", ag)
      /\ written' = written /\ owed' = owed /\ blamed' = blamed
    BY DEF ReplyDone, ghosts
<1>2. s \in Sessions /\ Fewer(ag, agent, Canceled(journal))
    BY <1>1, AgentFacts DEF Idling
<1>3. OwedOK /\ written \subseteq Sessions
    BY InvFacts DEF PageOK
<1> HIDE DEF s, ag
<1>4. "done" \in Replies
    BY DEF Replies
<1> QED  BY <1>1, <1>2, <1>3, <1>4, AnswerKeeps DEF OwedOK

(* A generation fails; a decision that it might spoil is blamed. *)
LEMMA ReplyErrorKeeps ==
    ASSUME LiveInv, NEW a \in Agents, ReplyError(a)
    PROVE  LiveInv'
<1> DEFINE s == agent[a].id
           ag == [agent EXCEPT ![a] = Free]
           source == ErrorSource(s)
<1>1. /\ up /\ agent[a].at \in {"working", "wrote"} /\ HandlePollPost(s, "error", source, ag)
      /\ blamed' = IF owed[s] # "none" THEN blamed \cup {s} ELSE blamed
      /\ written' = written /\ owed' = owed
    BY DEF ReplyError, Generating
<1>2. s \in Sessions /\ Fewer(ag, agent, Canceled(journal))
    BY <1>1, AgentFacts DEF Idling
<1>3. OwedOK /\ written \subseteq Sessions
    BY InvFacts DEF PageOK
<1> HIDE DEF s, ag, source
<1>4. "error" \in Replies
    BY DEF Replies
<1>5. blamed \subseteq blamed' /\ (owed'[s] = "none" \/ (owed'[s] = owed[s] /\ s \in blamed'))
    BY <1>1
<1> QED  BY <1>1, <1>2, <1>3, <1>4, <1>5, AnswerKeeps DEF OwedOK

(* A decision is answered. *)
LEMMA AnswerDecisionKeeps ==
    ASSUME LiveInv, NEW a \in Agents, NEW reply, AnswerDecision(a, reply)
    PROVE  LiveInv'
<1> DEFINE C == Canceled(journal)
           s == agent[a].id
           g == [agent[a] EXCEPT !.at = "cleaning", !.holds = FALSE]
           ag == [agent EXCEPT ![a] = IF reply \in {"carbonize", "agent_done"} THEN g ELSE Free]
           source == agent[a].type
<1>1. /\ up /\ agent[a].at = "working" /\ reply \in Answers(source)
      /\ HandlePollPost(s, reply, source, ag)
      /\ written' = IF reply = "error" THEN written ELSE written \ {s}
      /\ owed' = [owed EXCEPT ![s] = "none"] /\ blamed' = blamed
    BY DEF AnswerDecision
<1>2. s \in Sessions /\ source \in Decisions \cup {"generate"}
    BY <1>1, AgentFacts DEF Idling
<1>3. OwedOK /\ written \subseteq Sessions
    BY InvFacts DEF PageOK
<1>4. source \in Decisions /\ reply \in Replies
    BY <1>1, <1>2 DEF Answers, Decisions, Replies
<1>5. journal[s].canceled
    BY <1>1, <1>4, AgentFacts DEF Idling
<1>6. Fewer(ag, agent, C)
    <2>1. CASE reply \in {"carbonize", "agent_done"}
        <3>1. AgentsOK(agent, C) /\ agent \in [Agents -> Agent] /\ agent[a] \in Agent /\ AgentOK(agent[a], C)
            BY AgentFacts DEF AgentsOK
        <3>2. /\ g \in Agent /\ g.at = "cleaning" /\ g.holds = FALSE
              /\ g.id = agent[a].id /\ g.type = agent[a].type
            BY <3>1 DEF Agent
        <3> HIDE DEF g
        <3>3. AgentOK(g, C)
            BY <1>1, <1>4, <3>1, <3>2 DEF AgentOK, Idling, Decisions
        <3>4. ag = [agent EXCEPT ![a] = g]
            BY <2>1
        <3>5. /\ ag \in [Agents -> Agent] /\ ag[a] = g /\ \A b \in Agents : b # a => ag[b] = agent[b]
            BY <3>1, <3>2, <3>4
        <3> HIDE DEF ag
        <3> QED  BY <1>1, <3>1, <3>2, <3>3, <3>5 DEF Fewer, AgentsOK
    <2>2. CASE reply \notin {"carbonize", "agent_done"}
        <3>1. ag = [agent EXCEPT ![a] = Free]
            BY <2>2
        <3> HIDE DEF ag
        <3> QED  BY <1>1, <3>1, AgentFacts
    <2> QED  BY <2>1, <2>2
<1> HIDE DEF s, ag, source
<1>7. /\ owed' \in [Sessions -> Decisions \cup {"none"}] /\ owed'[s] = "none"
      /\ \A t \in Sessions : t # s => owed'[t] = owed[t]
    BY <1>1, <1>2, <1>3 DEF OwedOK
<1>8. written' \subseteq Sessions /\ blamed \subseteq blamed'
    BY <1>1, <1>3
<1> HIDE DEF C
<1> QED  BY <1>1, <1>2, <1>4, <1>5, <1>6, <1>7, <1>8, AnswerKeeps DEF C

(* What an accept left to clean is cleaned, by the server or without it. *)
LEMMA CompleteKeeps ==
    ASSUME LiveInv, NEW a \in Agents, Complete(a)
    PROVE  LiveInv'
<1> DEFINE C == Canceled(journal)
           s == agent[a].id
           reply == IF agent[a].type = "discard" THEN "discarded" ELSE "complete"
           ag == [agent EXCEPT ![a] = Free]
<1>1. /\ agent[a].at = "cleaning"
      /\ IF up THEN HandlePollPost(s, reply, CompleteSource(s, reply), ag)
         ELSE /\ journal' = [journal EXCEPT ![s] = Journaled(@, reply, "none")]
              /\ agent' = ag
              /\ up' = up /\ queue' = queue /\ polls' = polls /\ exitTimer' = exitTimer /\ page' = page
      /\ written' = written \ {s} /\ owed' = [owed EXCEPT ![s] = "none"] /\ blamed' = blamed
    BY DEF Complete
<1>2. s \in Sessions /\ journal[s].canceled /\ Fewer(ag, agent, C)
    BY <1>1, AgentFacts DEF Idling
<1>3. /\ LeasesOK(queue, agent, C) /\ PollsOK(polls, agent) /\ NothingFor(queue, polls)
      /\ JournalOK(journal) /\ OwedOK /\ PageOK /\ up \in BOOLEAN /\ exitTimer \in BOOLEAN
    BY InvFacts
<1>4. reply \in {"discarded", "complete"} /\ reply \in Replies
    BY DEF Replies
<1> HIDE DEF s, ag, reply
<1>5. /\ owed' \in [Sessions -> Decisions \cup {"none"}] /\ owed'[s] = "none"
      /\ \A t \in Sessions : t # s => owed'[t] = owed[t]
    BY <1>1, <1>2, <1>3 DEF OwedOK
<1>6. written' \subseteq Sessions /\ blamed \subseteq blamed'
    BY <1>1, <1>3 DEF PageOK
<1> HIDE DEF C
<1>7. CASE up
    <2> DEFINE source == CompleteSource(s, reply)
    <2>1. HandlePollPost(s, reply, source, ag)
        BY <1>1, <1>7
    <2> HIDE DEF source
    <2> QED  BY <1>2, <1>4, <1>5, <1>6, <1>7, <2>1, AnswerKeeps DEF C
<1>8. CASE ~up
    <2>1. /\ journal' = [journal EXCEPT ![s] = Journaled(@, reply, "none")] /\ agent' = ag
          /\ up' = up /\ queue' = queue /\ polls' = polls /\ exitTimer' = exitTimer
          /\ attached' = attached /\ screen' = screen /\ current' = current /\ handled' = handled
        BY <1>1, <1>8 DEF page
    <2> DEFINE k == Journaled(journal[s], reply, "none")
    <2>2. Answered(k, journal[s], reply)
        BY <1>2, <1>3, <1>4, JournaledKeeps DEF JournalOK, Replies
    <2>3. journal' = [journal EXCEPT ![s] = k]
        BY <2>1
    <2> HIDE DEF k
    <2>4. Recorded(journal', s, k)
        BY <2>2, <2>3 DEF Recorded, Answered
    <2>5. /\ JournalOK(journal') /\ Canceled(journal') = C /\ journal'[s] = k
          /\ \A t \in Sessions : t # s => journal'[t] = journal[t]
        BY <1>2, <1>3, <2>4, RecordedKeeps DEF C
    <2>6. LeasesOK(queue, ag, C) /\ PollsOK(polls, ag)
        BY <1>2, <1>3, FewerKeeps
    <2>7. up = FALSE => queue = <<>> /\ polls = <<>> /\ exitTimer = FALSE
        BY DEF LiveInv, ServerOK
    <2>8. ServerOK'
        <3>1. Canceled(journal)' = C
            BY <2>5
        <3> QED  BY <1>3, <2>1, <2>6, <2>7, <3>1, ServerAfter
    <2>9. OwedOK'
        <3>1. ASSUME NEW t \in Sessions PROVE Owes(t)'
            <4>1. CASE t = s
                BY <1>5, <4>1 DEF Owes
            <4>2. CASE t # s
                BY <1>1, <1>3, <1>5, <2>1, <2>5, <4>2, OwesStill
            <4> QED  BY <4>1, <4>2
        <3> QED  BY <1>5, <3>1 DEF OwedOK
    <2>10. attached = FALSE
        BY <1>3, <1>8 DEF PageOK
    <2>11. PageOK'
        BY <1>3, <1>6, <2>1, <2>10 DEF PageOK, NotStranded, ExitOnlyWhenGone
    <2> QED  BY <2>5, <2>8, <2>9, <2>11 DEF LiveInv
<1> QED  BY <1>7, <1>8

-----------------------------------------------------------------------------
(* A new server *)

\* The entry that is restored of a session.
Restorable(s) ==
    Event(s, journal[s].pending, journal[s].pending # "generate" \/ journal[s].prepared)

\* q restores the pending events of the first k sessions, each once.
RestoredTo(q, k) ==
    /\ q \in Seq(Entry)
    /\ \A m \in DOMAIN q : \E s \in Sessions : s <= k /\ Pending(journal[s]) /\ q[m] = Restorable(s)
    /\ \A m, l \in DOMAIN q : q[m].id = q[l].id => m = l
    /\ \A s \in Sessions : s <= k /\ Pending(journal[s]) => \E m \in DOMAIN q : q[m] = Restorable(s)

(* What is restored is an entry of the kind that handlers enqueue. *)
LEMMA RestorableType ==
    ASSUME JournalOK(journal), NEW s \in Sessions, Pending(journal[s])
    PROVE  /\ Restorable(s) \in Entry /\ Restorable(s).id = s /\ Restorable(s).type = journal[s].pending
           /\ Restorable(s).leased = FALSE /\ EntryOK(Restorable(s), Canceled(journal))
<1> DEFINE j == journal[s]
           prepared == j.pending # "generate" \/ j.prepared
           e == Restorable(s)
<1>1. j \in Journal /\ RecordOK(j) /\ j.pending # "none"
    BY DEF JournalOK, Pending
<1>2. j.pending \in Decisions \cup {"generate"} /\ j.pending \in EventTypes /\ prepared \in BOOLEAN
    BY <1>1 DEF Journal, EventTypes
<1>3. s \in Sessions \cup {None} /\ s # None
    BY SessionIsSome
<1>4. e = Event(s, j.pending, prepared)
    BY DEF Restorable
<1> HIDE DEF prepared, e
<1>5. e \in Entry /\ e.id = s /\ e.type = j.pending /\ e.leased = FALSE /\ e.stage # "preparing"
    BY <1>2, <1>3, <1>4, EventType
<1>6. s \in Canceled(journal) <=> j.canceled
    BY DEF Canceled
<1> HIDE DEF j
<1>7. EntryOK(e, Canceled(journal))
    BY <1>1, <1>2, <1>3, <1>5, <1>6 DEF EntryOK, RecordOK, Decisions
<1> QED  BY <1>5, <1>7 DEF e, j

(* Restoring goes session by session (restorePendingEventsFromStore). *)
LEMMA RestoreTrace ==
    ASSUME JournalOK(journal), Restart
    PROVE  \E w : /\ w \in [0 .. MaxSession -> Seq(Entry)] /\ w[0] = <<>> /\ w[MaxSession] = queue'
                  /\ \A k \in 1 .. MaxSession :
                        w[k] = IF Pending(journal[k]) THEN Append(w[k - 1], Restorable(k)) ELSE w[k - 1]
<1> DEFINE n == MaxSession
           ids == [s \in Sessions |-> s]
           Op(q, s) == IF Pending(journal[s]) THEN Append(q, Restorable(s)) ELSE q
           F == [k \in 1 .. n |-> [q \in Seq(Entry) |-> Op(q, k)]]
           Eqn(f) == f = [p \in SUBSET Sessions |->
                            IF p = {} THEN <<>> ELSE Op(f[p \ {Max(p)}], ids[Max(p)])]
           iter == CHOOSE f : Eqn(f)
<1>0. n \in Nat /\ Sessions = 1 .. n /\ \A k \in Sessions : ids[k] = k
    BY LiveAssumption DEF Sessions
<1>n. n \in Nat
    BY <1>0
<1>1. \A q \in Seq(Entry), k \in 1 .. n : Op(q, k) \in Seq(Entry)
    <2> SUFFICES ASSUME NEW q \in Seq(Entry), NEW k \in 1 .. n PROVE Op(q, k) \in Seq(Entry)
        OBVIOUS
    <2>1. Pending(journal[k]) => Restorable(k) \in Entry
        BY <1>0, RestorableType
    <2> QED  BY <2>1
<1>2. F \in [1 .. n -> [Seq(Entry) -> Seq(Entry)]] /\ <<>> \in Seq(Entry)
    BY <1>1
<1>3. \A k \in 1 .. n, q \in Seq(Entry) : F[k][q] = Op(q, k)
    OBVIOUS
<1>4. queue' = iter[Sessions]
    BY DEF Restart, FoldLeft, MapThenFoldSet, Restorable
<1> HIDE DEF F, Op, n, ids
<1>5. PICK g : Iterates(g, n, Seq(Entry), <<>>, F)
    BY <1>n, <1>2, RecursionOnSubsets, Zenon
<1>6. Eqn(g)
    <2> SUFFICES ASSUME NEW p \in SUBSET (1 .. n), p # {}
                 PROVE  F[Max(p)][g[p \ {Max(p)}]] = Op(g[p \ {Max(p)}], ids[Max(p)])
        BY <1>0, <1>5 DEF Iterates
    <2>1. Max(p) \in 1 .. n
        BY <1>0, MaxUpTo
    <2> QED  BY <1>0, <1>3, <1>5, <2>1 DEF Iterates
<1>7. Eqn(iter)
    BY <1>6, Zenon
<1> HIDE DEF iter
<1>8. FoldsAs(iter, n, Seq(Entry), <<>>, F)
    <2>1. \A p \in SUBSET (1 .. n) : p # {} => Max(p) \in 1 .. n /\ ids[Max(p)] = Max(p)
        BY <1>0, MaxUpTo
    <2>2. /\ iter[{}] = <<>>
          /\ \A p \in SUBSET (1 .. n) : p # {} => iter[p] = Op(iter[p \ {Max(p)}], ids[Max(p)])
        BY <1>0, <1>7
    <2> QED  BY <1>3, <2>1, <2>2 DEF FoldsAs
<1> DEFINE w == [k \in 0 .. n |-> iter[1 .. k]]
<1>9. Trace(w, n, Seq(Entry), <<>>, F)
    BY <1>n, <1>2, <1>8, TraceOfFold, Zenon
<1>10. w[n] = iter[1 .. n]
    BY <1>0
<1> HIDE DEF w
<1>11. \A k \in 1 .. n : w[k] = Op(w[k - 1], k)
    <2>1. \A k \in 1 .. n : k - 1 \in 0 .. n
        BY <1>0
    <2> QED  BY <1>3, <1>9, <2>1 DEF Trace
<1> QED  BY <1>0, <1>4, <1>9, <1>10, <1>11 DEF Op, Trace, n

(* What is restored: the pending event of every session that is not over, and nothing else. *)
LEMMA RestoresAll ==
    ASSUME JournalOK(journal), Restart
    PROVE  RestoredTo(queue', MaxSession)
<1> DEFINE n == MaxSession
<1>0. n \in Nat /\ Sessions = 1 .. n
    BY LiveAssumption DEF Sessions
<1>1. PICK w : /\ w \in [0 .. n -> Seq(Entry)] /\ w[0] = <<>> /\ w[n] = queue'
               /\ \A k \in 1 .. n :
                     w[k] = IF Pending(journal[k]) THEN Append(w[k - 1], Restorable(k)) ELSE w[k - 1]
    BY RestoreTrace
<1> HIDE DEF n
<1>2. RestoredTo(w[0], 0)
    <2>1. <<>> \in Seq(Entry) /\ DOMAIN <<>> = {}
        OBVIOUS
    <2>2. \A s \in Sessions : ~(s <= 0)
        BY <1>0
    <2> QED  BY <1>1, <2>1, <2>2 DEF RestoredTo
<1>3. ASSUME NEW k \in 0 .. n - 1, RestoredTo(w[k], k) PROVE RestoredTo(w[k + 1], k + 1)
    <2> DEFINE r == w[k]
               m == Len(r)
               e == Restorable(k + 1)
               new == w[k + 1]
    <2>0. /\ k \in Nat /\ k \in 0 .. n /\ k + 1 \in Sessions /\ (k + 1) - 1 = k
          /\ \A s \in Sessions : s <= k + 1 <=> s <= k \/ s = k + 1
          /\ ~(k + 1 <= k) /\ k + 1 <= k + 1
        BY <1>0
    <2>1. r \in Seq(Entry)
        BY <1>1, <2>0
    <2>2. new = IF Pending(journal[k + 1]) THEN Append(r, e) ELSE r
        BY <1>0, <1>1, <2>0
    <2>3. /\ \A i \in DOMAIN r : \E s \in Sessions : s <= k /\ Pending(journal[s]) /\ r[i] = Restorable(s)
          /\ \A i, l \in DOMAIN r : r[i].id = r[l].id => i = l
          /\ \A s \in Sessions : s <= k /\ Pending(journal[s]) => \E i \in DOMAIN r : r[i] = Restorable(s)
        BY <1>3 DEF RestoredTo
    <2> HIDE DEF r, new
    <2>4. CASE ~Pending(journal[k + 1])
        <3>1. new = r
            BY <2>2, <2>4
        <3> HIDE DEF e
        <3>2. RestoredTo(r, k + 1)
            BY <2>0, <2>1, <2>3, <2>4 DEF RestoredTo
        <3> QED  BY <3>1, <3>2 DEF new
    <2>5. CASE Pending(journal[k + 1])
        <3>1. e \in Entry /\ e.id = k + 1
            BY <2>0, <2>5, RestorableType
        <3> HIDE DEF e
        <3>2. /\ new \in Seq(Entry) /\ m \in Nat /\ DOMAIN r = 1 .. m /\ DOMAIN new = 1 .. m + 1
              /\ new[m + 1] = e /\ \A i \in 1 .. m : new[i] = r[i]
              /\ \A i \in 1 .. m + 1 : i = m + 1 \/ i \in 1 .. m
              /\ \A i \in 1 .. m : i \in 1 .. m + 1
              /\ m + 1 \in 1 .. m + 1
            BY <2>1, <2>2, <2>5, <3>1
        <3> HIDE DEF m
        <3>3. ASSUME NEW i \in 1 .. m PROVE r[i].id # k + 1
            <4>1. PICK s \in Sessions : s <= k /\ Pending(journal[s]) /\ r[i] = Restorable(s)
                BY <2>3, <3>2
            <4>2. r[i].id = s
                BY <4>1, RestorableType
            <4> QED  BY <2>0, <4>1, <4>2
        <3>4. \A i \in DOMAIN new : \E s \in Sessions : s <= k + 1 /\ Pending(journal[s]) /\ new[i] = Restorable(s)
            <4> SUFFICES ASSUME NEW i \in DOMAIN new
                         PROVE  \E s \in Sessions : s <= k + 1 /\ Pending(journal[s]) /\ new[i] = Restorable(s)
                OBVIOUS
            <4>1. CASE i = m + 1
                BY <2>0, <2>5, <3>2, <4>1 DEF e
            <4>2. CASE i \in 1 .. m
                <5>1. PICK s \in Sessions : s <= k /\ Pending(journal[s]) /\ r[i] = Restorable(s)
                    BY <2>3, <3>2, <4>2
                <5>2. s <= k + 1
                    BY <2>0, <5>1
                <5> QED  BY <3>2, <4>2, <5>1, <5>2
            <4> QED  BY <3>2, <4>1, <4>2
        <3>5. \A i, l \in DOMAIN new : new[i].id = new[l].id => i = l
            BY <2>3, <3>1, <3>2, <3>3
        <3>6. ASSUME NEW s \in Sessions, s <= k + 1, Pending(journal[s])
              PROVE  \E i \in DOMAIN new : new[i] = Restorable(s)
            <4>1. CASE s = k + 1
                BY <3>2, <4>1 DEF e
            <4>2. CASE s # k + 1
                <5>1. s <= k
                    BY <2>0, <3>6, <4>2
                <5>2. PICK i \in DOMAIN r : r[i] = Restorable(s)
                    BY <2>3, <3>6, <5>1
                <5>3. i \in DOMAIN new /\ new[i] = r[i]
                    BY <3>2
                <5> QED  BY <5>2, <5>3
            <4> QED  BY <4>1, <4>2
        <3>7. RestoredTo(new, k + 1)
            BY <3>2, <3>4, <3>5, <3>6 DEF RestoredTo
        <3> QED  BY <3>7 DEF new
    <2> QED  BY <2>4, <2>5
<1> DEFINE T == {k \in 0 .. n : RestoredTo(w[k], k)}
<1>4. 0 \in T /\ \A k \in 0 .. n - 1 : k \in T => k + 1 \in T
    BY <1>0, <1>2, <1>3
<1> HIDE DEF T
<1>5. 0 .. n \subseteq T
    BY <1>0, <1>4, UpTo, Zenon
<1>6. n \in T
    BY <1>0, <1>5
<1> QED  BY <1>1, <1>6 DEF T, n

(* Every decision that is owed is in the queue of the new server. *)
LEMMA RestartKeeps == LiveInv /\ Restart => LiveInv'
<1> SUFFICES ASSUME LiveInv, Restart PROVE LiveInv'
    OBVIOUS
<1> DEFINE C == Canceled(journal)
<1>1. /\ C \in SUBSET Sessions /\ LeasesOK(queue, agent, C) /\ PollsOK(polls, agent)
      /\ JournalOK(journal) /\ OwedOK /\ PageOK /\ up \in BOOLEAN /\ exitTimer \in BOOLEAN
    BY InvFacts
<1>2. /\ ~up /\ up' = TRUE /\ polls' = polls /\ exitTimer' = exitTimer /\ journal' = journal
      /\ agent' = agent /\ page' = page /\ written' = written /\ owed' = owed /\ blamed' = blamed
    BY DEF Restart, ghosts
<1>3. queue = <<>> /\ polls = <<>>
    BY <1>2 DEF LiveInv, ServerOK
<1> DEFINE q == queue'
<1>4. RestoredTo(q, MaxSession)
    BY <1>1, RestoresAll
<1>5. \A s \in Sessions : s <= MaxSession
    BY LiveAssumption DEF Sessions
<1>6. /\ q \in Seq(Entry)
      /\ \A m \in DOMAIN q : \E s \in Sessions : Pending(journal[s]) /\ q[m] = Restorable(s)
      /\ \A m, l \in DOMAIN q : q[m].id = q[l].id => m = l
      /\ \A s \in Sessions : Pending(journal[s]) => \E m \in DOMAIN q : q[m] = Restorable(s)
    BY <1>4, <1>5 DEF RestoredTo
<1>7. QueueOK(q, C)
    <2>1. \A m \in DOMAIN q : EntryOK(q[m], C)
        BY <1>1, <1>6, RestorableType
    <2> QED  BY <1>6, <2>1 DEF QueueOK
<1>8. HeldOK(q, agent)
    <2>1. \A a \in Agents : ~agent[a].holds
        BY <1>1, <1>3 DEF LeasesOK, HeldOK
    <2> QED  BY <2>1 DEF HeldOK
<1>9. LeasesOK(q, agent, C) /\ NothingFor(q, polls)
    BY <1>1, <1>3, <1>7, <1>8 DEF LeasesOK, NothingFor
<1>10. ServerOK'
    <2>1. Canceled(journal)' = C
        BY <1>2
    <2> QED  BY <1>1, <1>2, <1>9, <2>1, ServerAfter
<1>11. OwedOK'
    <2>1. ASSUME NEW s \in Sessions PROVE Owes(s)'
        <3>1. Owes(s) /\ owed[s] \in Decisions \cup {"none"}
            BY <1>1 DEF OwedOK
        <3>2. ASSUME owed[s] # "none", s \notin blamed PROVE Queued(queue', s, owed[s])
            <4>1. ~Closed(journal[s]) /\ journal[s].pending = owed[s]
                BY <3>1, <3>2 DEF Owes
            <4>2. Pending(journal[s])
                BY <3>2, <4>1 DEF Pending
            <4>3. PICK m \in DOMAIN q : q[m] = Restorable(s)
                BY <1>6, <4>2
            <4>4. q[m].id = s /\ q[m].type = owed[s]
                BY <1>1, <4>1, <4>2, <4>3, RestorableType
            <4> QED  BY <4>4 DEF Queued
        <3> QED  BY <1>2, <3>1, <3>2 DEF Owes
    <2> QED  BY <1>1, <1>2, <2>1 DEF OwedOK
<1>12. PageOK'
    <2>1. attached' = attached /\ screen' = screen /\ current' = current /\ handled' = handled
        BY <1>2 DEF page
    <2>2. attached = FALSE
        BY <1>1, <1>2 DEF PageOK
    <2> QED  BY <1>1, <1>2, <2>1, <2>2 DEF PageOK, NotStranded, ExitOnlyWhenGone
<1> QED  BY <1>1, <1>2, <1>10, <1>11, <1>12 DEF LiveInv

-----------------------------------------------------------------------------
(* The theorems *)

(* At the start nothing is queued, parked or journaled. *)
LEMMA LiveInvInit == Init => LiveInv
<1> SUFFICES ASSUME Init PROVE LiveInv
    OBVIOUS
<1>1. \A s \in Sessions : journal[s] = Unborn
    BY DEF Init
<1>2. Unborn \in Journal /\ RecordOK(Unborn) /\ Unborn.canceled = FALSE /\ Unborn.completed = FALSE
    BY DEF Unborn, Journal, RecordOK, Fenced, Decisions
<1>3. JournalOK(journal)
    BY <1>1, <1>2 DEF Init, JournalOK
<1>4. Canceled(journal) = {}
    BY <1>1, <1>2 DEF Canceled
<1>5. Free \in Agent /\ AgentOK(Free, {}) /\ Free.at = "idle" /\ Free.holds = FALSE
    <2>1. None \in Sessions \cup {None} /\ "none" \in Decisions \cup {"generate", "none"}
        OBVIOUS
    <2> QED  BY <2>1 DEF Free, Agent, AgentOK, Idling, Decisions
<1>6. \A a \in Agents : agent[a] = Free
    BY DEF Init
<1>7. AgentsOK(agent, {})
    BY <1>5, <1>6 DEF Init, AgentsOK
<1>8. <<>> \in Seq(Entry) /\ <<>> \in Seq(Agents) /\ DOMAIN <<>> = {}
    OBVIOUS
<1>9. QueueOK(queue, {}) /\ HeldOK(queue, agent) /\ PollsOK(polls, agent) /\ NothingFor(queue, polls)
    BY <1>5, <1>6, <1>8 DEF Init, QueueOK, HeldOK, PollsOK, NothingFor
<1>10. ServerOK
    BY <1>4, <1>7, <1>9 DEF Init, ServerOK
<1>11. OwedOK
    BY <1>1, <1>2 DEF Init, OwedOK, Owes
<1>12. PageOK
    BY <1>8 DEF Init, PageOK, NotStranded, ExitOnlyWhenGone, Queued
<1> QED  BY <1>3, <1>10, <1>11, <1>12 DEF LiveInv

(* A step in which nothing changes. *)
LEMMA StutterKeeps == LiveInv /\ UNCHANGED vars => LiveInv'
<1> SUFFICES ASSUME LiveInv, UNCHANGED vars PROVE LiveInv'
    OBVIOUS
<1>1. /\ up' = up /\ queue' = queue /\ polls' = polls /\ exitTimer' = exitTimer /\ journal' = journal
      /\ agent' = agent /\ page' = page /\ written' = written /\ owed' = owed /\ blamed' = blamed
    BY DEF vars, server, ghosts
<1>2. /\ LeasesOK(queue, agent, Canceled(journal)) /\ PollsOK(polls, agent) /\ NothingFor(queue, polls)
      /\ PageOK
    BY InvFacts
<1>3. up = FALSE => queue = <<>> /\ polls = <<>>
    BY DEF LiveInv, ServerOK
<1> QED  BY <1>1, <1>2, <1>3, CalmKeeps, SameAsItself DEF PageOK

(* Every step keeps the invariant. *)
LEMMA LiveInvNext == LiveInv /\ [Next]_vars => LiveInv'
<1> SUFFICES ASSUME LiveInv, [Next]_vars PROVE LiveInv'
    OBVIOUS
<1>1. CASE Go \/ VariantsArrive \/ ExitTimer
    BY <1>1, GoKeeps, VariantsArriveKeeps, ExitTimerKeeps
<1>2. CASE \E found \in SUBSET Sessions : Attach(found)
    BY <1>2, AttachKeeps
<1>3. CASE \E type \in Decisions : Decide(type) \/ DecideUnheard(type)
    BY <1>3, DecideKeeps, DecideUnheardKeeps
<1>4. CASE \E exit \in BOOLEAN : Detach(exit)
    BY <1>4, DetachKeeps
<1>5. ASSUME NEW a \in Agents,
             \/ Poll(a) \/ Withdraw(a) \/ Join(a) \/ AgentLost(a)
             \/ Write(a) \/ ReplyDone(a) \/ ReplyError(a) \/ Complete(a)
             \/ \E reply \in Answers(agent[a].type) : AnswerDecision(a, reply)
      PROVE  LiveInv'
    <2>1. CASE Poll(a) \/ Withdraw(a) \/ Join(a) \/ AgentLost(a)
        BY <2>1, PollKeeps, WithdrawKeeps, JoinKeeps
    <2>2. CASE Write(a) \/ ReplyDone(a) \/ ReplyError(a) \/ Complete(a)
        BY <2>2, WriteKeeps, ReplyDoneKeeps, ReplyErrorKeeps, CompleteKeeps
    <2>3. CASE \E reply \in Answers(agent[a].type) : AnswerDecision(a, reply)
        BY <2>3, AnswerDecisionKeeps
    <2> QED  BY <1>5, <2>1, <2>2, <2>3
<1>6. CASE PreflightEnds \/ LeaseExpires
    BY <1>6, PreflightEndsKeeps, LeaseExpiresKeeps
<1>7. CASE Crash \/ Restart
    BY <1>7, CrashKeeps, RestartKeeps
<1>8. CASE UNCHANGED vars
    BY <1>8, StutterKeeps
<1> QED  BY <1>1, <1>2, <1>3, <1>4, <1>5, <1>6, <1>7, <1>8 DEF Next

(* The invariant. *)
LEMMA LiveInvAlways == Spec => []LiveInv
BY LiveInvInit, LiveInvNext, PTL DEF Spec

(* Every field of the queue, of the agents and of the page has its type, and the parked agents *)
(* are the ones that the server knows of.                                                      *)
THEOREM TypeCorrect == Spec => []TypeOK
<1>1. LiveInv => TypeOK
    <2> SUFFICES ASSUME LiveInv PROVE TypeOK
        OBVIOUS
    <2>1. /\ queue \in Seq(Entry) /\ AgentsOK(agent, Canceled(journal)) /\ PollsOK(polls, agent)
          /\ up \in BOOLEAN /\ exitTimer \in BOOLEAN /\ PageOK
        BY DEF LiveInv, ServerOK, QueueOK
    <2>2. \A i \in DOMAIN queue : queue[i] \in Entry
        BY <2>1
    <2>3. \A i \in DOMAIN polls : polls[i] \in Agents /\ agent[polls[i]].at = "parked"
        BY <2>1 DEF PollsOK
    <2>4. \A a \in Agents : agent[a] \in Agent /\ (agent[a].at = "parked" => \E i \in DOMAIN polls : polls[i] = a)
        BY <2>1 DEF AgentsOK, PollsOK
    <2> QED  BY <2>1, <2>2, <2>3, <2>4 DEF TypeOK, PageOK, Entry, Agent
<1> QED  BY <1>1, LiveInvAlways, PTL

(* An event is claimed before the server waits for its preflight, and a lease is taken away   *)
(* whenever its event leaves or becomes available again: no two agents hold the same event.   *)
THEOREM OneWorker == Spec => []OneWorkerPerEvent
<1>1. LiveInv => OneWorkerPerEvent
    BY DEF LiveInv, ServerOK, HeldOK, OneWorkerPerEvent
<1> QED  BY <1>1, LiveInvAlways, PTL

(* Every handler that makes an event available ends with flushPendingPolls, which tries all   *)
(* parked polls, however many there are and whatever they poll for.                           *)
THEOREM NothingIsSleptThrough == Spec => []NoWakeupLost
<1>1. LiveInv => NoWakeupLost
    BY DEF LiveInv, ServerOK, NothingFor, NoWakeupLost
<1> QED  BY <1>1, LiveInvAlways, PTL

(* A decision is journaled and queued in one handler, retires the generate of its session, and *)
(* is restored by a new server until an agent has answered it.                                 *)
THEOREM DecisionsStand == Spec => []DecisionStands
<1>1. LiveInv => DecisionStands
    <2> SUFFICES ASSUME LiveInv, NEW s \in Sessions
                 PROVE  /\ journal[s].canceled => ~Queued(queue, s, "generate") /\ journal[s].pending # "generate"
                        /\ owed[s] # "none" /\ s \notin blamed
                              => journal[s].pending = owed[s] /\ (up => Queued(queue, s, owed[s]))
        BY DEF DecisionStands
    <2>1. QueueOK(queue, Canceled(journal)) /\ RecordOK(journal[s]) /\ Owes(s)
        BY DEF LiveInv, ServerOK, JournalOK, OwedOK
    <2>2. ASSUME journal[s].canceled PROVE ~Queued(queue, s, "generate")
        <3>1. s \in Canceled(journal)
            BY <2>2 DEF Canceled
        <3> QED  BY <2>1, <3>1 DEF QueueOK, EntryOK, Queued
    <2> QED  BY <2>1, <2>2 DEF RecordOK, Owes
<1> QED  BY <1>1, LiveInvAlways, PTL

(* A page that was away when its variants were announced finds the durable marker, and never   *)
(* waits for them.                                                                             *)
THEOREM NoPageIsStranded == Spec => []NotStranded
<1>1. LiveInv => NotStranded
    BY DEF LiveInv, PageOK
<1> QED  BY <1>1, LiveInvAlways, PTL

(* Queued exits are withdrawn when a page connects, and none is queued while it is connected.  *)
THEOREM ExitsWaitForThePage == Spec => []ExitOnlyWhenGone
<1>1. LiveInv => ExitOnlyWhenGone
    BY DEF LiveInv, PageOK
<1> QED  BY <1>1, LiveInvAlways, PTL
=============================================================================
