--------------------------- MODULE ChatPageProofs ---------------------------
(***************************************************************************)
(* The chat page, for any number of questions, loads and restores under    *)
(* way.  Neither what it shows nor what a refresh finds is inductive:      *)
(* PageInv adds where the answers and the restored turns stand in the      *)
(* recorded history (RecordedOnce, FetchIsPrefix), that the backend has    *)
(* heard of every question sent (SentIsHeard), and, for a page that asked  *)
(* nothing before a restore, that the restore is alone (RestoresAlone) and *)
(* that the answer to come belongs behind those shown                      *)
(* (AnswersBeforeWaiting).                                                 *)
(***************************************************************************)
EXTENDS ChatPage, FiniteSetTheorems, TLAPS

(* The history holds a turn once, in the conversation that it was sent to, and only when done. *)
RecordedOnce ==
    /\ \A s \in Sessions : \A m \in DOMAIN rows[s] :
          backend[rows[s][m]] = "done" /\ sentTo[rows[s][m]] = s
    /\ \A s \in Sessions : \A m, n \in DOMAIN rows[s] : rows[s][m] = rows[s][n] => m = n

(* The backend hears of a question when it is sent, to a session that exists. *)
SentIsHeard ==
    \A t \in Turns : /\ client[t] = "unused" <=> backend[t] = "none"
                     /\ client[t] # "unused" => sentTo[t] \in Sessions

OnlyOneWaits ==
    /\ isLoading <=> Waiting # {}
    /\ \A t, u \in Waiting : t = u

(* A restore brings the first turns of the conversation, as they were when it was served. *)
FetchIsPrefix ==
    \A i \in Fetches : fetches[i].stage = "found" =>
        \A m \in DOMAIN fetches[i].turns :
            m \in DOMAIN rows[restoreId] /\ fetches[i].turns[m] = rows[restoreId][m]

RestoreWasAsked == RestoreFailureShown => restoreId # 0

(* While no question came before a restore: a page that restores has no question under way *)
(* and has not left the URL it was loaded with, *)
RestoresAlone ==
    /\ Fetching # {} => Waiting = {} /\ url = restoreId
    /\ messages = <<Error(NoTurn)>> => url = restoreId

(* a question under way is shown, and asked of the session that is shown, *)
WaitingIsShown ==
    \A t \in Waiting : /\ sentTo[t] = sessionId
                       /\ \E k \in DOMAIN messages : messages[k] = User(t)

(* and the answers shown are done with, and stand in the history before the one to come. *)
AnswersAreDone ==
    \A i \in Answers : messages[i].turn \in Turns /\ backend[messages[i].turn] = "done"

AnswersBeforeWaiting ==
    \A i \in Answers : \A t \in Waiting : \A m, n \in DOMAIN rows[sessionId] :
        rows[sessionId][m] = messages[i].turn /\ rows[sessionId][n] = t => m < n

Unmixed ==
    /\ RestoresAlone /\ WaitingIsShown /\ AnswersAreDone /\ AnswersBeforeWaiting
    /\ AnswersOfSession /\ InRecordedOrder
    /\ Answers # {} => url = sessionId

PageInv ==
    /\ TypeOK /\ RecordedOnce /\ SentIsHeard /\ OnlyOneWaits /\ FetchIsPrefix /\ RestoreWasAsked
    /\ ~mixed => Unmixed

-----------------------------------------------------------------------------
(* Facts about sequences, sets and messages *)

LEMMA AppendProperties ==
    ASSUME NEW S, NEW seq \in Seq(S), NEW x \in S
    PROVE  /\ Append(seq, x) \in Seq(S)
           /\ Len(seq) \in Nat /\ DOMAIN seq = 1 .. Len(seq)
           /\ Len(Append(seq, x)) = Len(seq) + 1
           /\ DOMAIN Append(seq, x) = 1 .. Len(seq) + 1
           /\ \A k \in DOMAIN seq : seq[k] \in S /\ k # Len(seq) + 1 /\ Append(seq, x)[k] = seq[k]
           /\ Append(seq, x)[Len(seq) + 1] = x
           /\ \A k \in DOMAIN Append(seq, x) : k \in DOMAIN seq \/ k = Len(seq) + 1
OBVIOUS

LEMMA MessageOfTurn ==
    ASSUME NEW t \in Turns \cup {NoTurn}
    PROVE  /\ {User(t), Assistant(t), Error(t)} \subseteq Message
           /\ User(t).kind = "user" /\ Assistant(t).kind = "assistant" /\ Error(t).kind = "error"
           /\ User(t).turn = t /\ Assistant(t).turn = t /\ Error(t).turn = t
BY DEF User, Assistant, Error, Message

(* What a message added to the page does to the answers shown. *)
LEMMA AppendMessage ==
    ASSUME messages \in Seq(Message), NEW m \in Message, messages' = Append(messages, m)
    PROVE  /\ messages' \in Seq(Message)
           /\ \A k \in DOMAIN messages : k \in DOMAIN messages' /\ messages'[k] = messages[k]
           /\ DOMAIN messages = 1 .. Len(messages) /\ Len(messages) \in Nat
           /\ Len(messages) + 1 \in DOMAIN messages' /\ messages'[Len(messages) + 1] = m
           /\ Answers \subseteq DOMAIN messages
           /\ m.kind # "assistant" => Answers' = Answers
           /\ m.kind = "assistant" => Answers' = Answers \cup {Len(messages) + 1}
           /\ \A i \in Answers : messages'[i] = messages[i] /\ i < Len(messages) + 1
           /\ messages = <<>> \/ messages' # <<m>>
           /\ \A k \in DOMAIN messages' : messages'[k] = m \/ messages'[k] \in {messages[j] : j \in DOMAIN messages}
<1>1. /\ messages' \in Seq(Message) /\ Len(messages') = Len(messages) + 1
      /\ \A k \in DOMAIN messages : k \in DOMAIN messages' /\ messages'[k] = messages[k]
      /\ DOMAIN messages = 1 .. Len(messages) /\ Len(messages) \in Nat
      /\ Len(messages) + 1 \in DOMAIN messages' /\ messages'[Len(messages) + 1] = m
      /\ DOMAIN messages' = DOMAIN messages \cup {Len(messages) + 1}
    BY AppendProperties
<1>2. Answers \subseteq DOMAIN messages /\ \A i \in Answers : messages'[i] = messages[i] /\ i < Len(messages) + 1
    BY <1>1 DEF Answers
<1>3. m.kind # "assistant" => Answers' = Answers
    BY <1>1 DEF Answers
<1>4. m.kind = "assistant" => Answers' = Answers \cup {Len(messages) + 1}
    BY <1>1 DEF Answers
<1>5. messages = <<>> \/ messages' # <<m>>
    BY <1>1
<1> QED  BY <1>1, <1>2, <1>3, <1>4, <1>5

(* A page that restores was asked for a session that exists. *)
LEMMA RestoreIdIsSession ==
    ASSUME PageAssumption, restoreId \in 0..MaxLoads, restoreId # 0
    PROVE  restoreId \in Sessions
BY DEF PageAssumption, Sessions

-----------------------------------------------------------------------------

LEMMA PageInvInit == ASSUME PageAssumption PROVE Init => PageInv
<1> SUFFICES ASSUME Init PROVE PageInv
    OBVIOUS
<1> USE PageAssumption DEF Init
<1>1. TypeOK
    <2>1. fetches \in [Fetches -> Fetch] /\ Fetching = {}
        BY DEF Fetch, NoFetch, Fetching
    <2>2. load \in 1..MaxLoads /\ sessionId \in Sessions /\ {url, restoreId} \subseteq 0..MaxLoads
        BY DEF Sessions
    <2>3. rows \in [Sessions -> Seq(Turns)] /\ sentTo \in [Turns -> 0..MaxLoads]
        BY DEF Sessions
    <2>4. messages \in Seq(Message)
        OBVIOUS
    <2>6. {isLoading, isRestoring, mixed} \subseteq BOOLEAN
        BY Zenon
    <2>5. client \in [Turns -> {"unused", "waiting", "over"}]
          /\ backend \in [Turns -> {"none", "processing", "done"}]
        OBVIOUS
    <2> QED  BY <2>1, <2>2, <2>3, <2>4, <2>5, <2>6 DEF TypeOK
<1>2. Answers = {} /\ Waiting = {} /\ Fetching = {}
    BY DEF Answers, Waiting, Fetching, NoFetch
<1>3. RecordedOnce /\ SentIsHeard
    BY DEF RecordedOnce, SentIsHeard
<1>4. OnlyOneWaits /\ FetchIsPrefix /\ RestoreWasAsked
    BY <1>2 DEF OnlyOneWaits, FetchIsPrefix, RestoreWasAsked, RestoreFailureShown, Contains, NoFetch
<1>5. Unmixed
    BY <1>2 DEF Unmixed, RestoresAlone, WaitingIsShown, AnswersAreDone, AnswersBeforeWaiting,
                AnswersOfSession, InRecordedOrder
<1> QED  BY <1>1, <1>3, <1>4, <1>5 DEF PageInv

(* The history as it was, and the answers shown as they were, stay in order. *)
LEMMA OrderKept ==
    ASSUME InRecordedOrder, UNCHANGED <<rows, sessionId>>, Answers' = Answers,
           \A i \in Answers : messages'[i] = messages[i]
    PROVE  InRecordedOrder'
<1>1. \A i, j \in Answers' : messages'[i] = messages[i] /\ messages'[j] = messages[j]
    OBVIOUS
<1>2. UNCHANGED <<rows, sessionId>> /\ Answers' = Answers
    OBVIOUS
<1>3. \A i, j \in Answers' : i < j =>
         \A m, n \in DOMAIN rows'[sessionId'] :
            rows'[sessionId'][m] = messages'[i].turn /\ rows'[sessionId'][n] = messages'[j].turn => m < n
    <2> SUFFICES ASSUME NEW i \in Answers, NEW j \in Answers, i < j,
                        NEW m \in DOMAIN rows[sessionId], NEW n \in DOMAIN rows[sessionId],
                        rows[sessionId][m] = messages[i].turn, rows[sessionId][n] = messages[j].turn
                 PROVE  m < n
        BY <1>1, <1>2
    <2> QED  BY DEF InRecordedOrder
<1> QED  BY <1>3 DEF InRecordedOrder

-----------------------------------------------------------------------------
(* Sending and answering *)

LEMMA OnSendKeeps ==
    ASSUME PageAssumption, PageInv, NEW t \in Turns, OnSend(t)
    PROVE  PageInv'
<1>0. /\ client[t] = "unused" /\ ~isLoading
      /\ messages' = Append(messages, User(t)) /\ isLoading'
      /\ client' = [client EXCEPT ![t] = "waiting"]
      /\ backend' = [backend EXCEPT ![t] = "processing"]
      /\ sentTo' = [sentTo EXCEPT ![t] = sessionId]
      /\ mixed' = (mixed \/ Fetching # {})
      /\ UNCHANGED <<load, url, restoreId, sessionId, isRestoring, fetches, rows>>
    BY DEF OnSend, MaySend
<1>1. TypeOK /\ RecordedOnce /\ SentIsHeard /\ OnlyOneWaits /\ FetchIsPrefix /\ RestoreWasAsked
    BY DEF PageInv
<1>2. User(t) \in Message /\ User(t).kind # "assistant" /\ User(t) # Error(NoTurn) /\ User(t).turn = t
    <2>1. Error(NoTurn).kind = "error" /\ User(t).kind = "user" /\ User(t) \in Message /\ User(t).turn = t
        BY MessageOfTurn
    <2> QED  BY <2>1
<1>3. /\ messages \in Seq(Message) /\ sessionId \in Sessions
      /\ client \in [Turns -> {"unused", "waiting", "over"}]
      /\ backend \in [Turns -> {"none", "processing", "done"}]
      /\ sentTo \in [Turns -> 0..MaxLoads] /\ rows \in [Sessions -> Seq(Turns)]
    BY <1>1 DEF TypeOK
<1>4. /\ messages' \in Seq(Message) /\ Answers' = Answers
      /\ \A i \in Answers : messages'[i] = messages[i]
      /\ \A k \in DOMAIN messages : k \in DOMAIN messages' /\ messages'[k] = messages[k]
      /\ Len(messages) + 1 \in DOMAIN messages' /\ messages'[Len(messages) + 1] = User(t)
      /\ messages = <<>> \/ messages' # <<User(t)>>
      /\ \A k \in DOMAIN messages' : messages'[k] = User(t) \/ messages'[k] \in {messages[j] : j \in DOMAIN messages}
    BY <1>0, <1>2, <1>3, AppendMessage
<1>5. Waiting = {} /\ Waiting' = {t}
    BY <1>0, <1>1, <1>3 DEF OnlyOneWaits, Waiting
<1>6. Fetching' = Fetching
    BY <1>0 DEF Fetching
<1>7. backend[t] = "none"
    BY <1>0, <1>1 DEF SentIsHeard
<1>8. \A s \in Sessions : \A m \in DOMAIN rows[s] : rows[s][m] # t /\ rows[s][m] \in Turns
    BY <1>1, <1>3, <1>7 DEF RecordedOnce
<1>11. TypeOK'
    <2>1. client' \in [Turns -> {"unused", "waiting", "over"}] /\ backend' \in [Turns -> {"none", "processing", "done"}]
          /\ sentTo' \in [Turns -> 0..MaxLoads]
        BY <1>0, <1>3, PageAssumption DEF Sessions
    <2>2. {isLoading', isRestoring', mixed'} \subseteq BOOLEAN
        BY <1>0, <1>1 DEF TypeOK
    <2> QED  BY <1>0, <1>1, <1>4, <1>6, <2>1, <2>2 DEF TypeOK
<1>12. RecordedOnce'
    BY <1>0, <1>1, <1>3, <1>8 DEF RecordedOnce
<1>13. SentIsHeard'
    BY <1>0, <1>1, <1>3 DEF SentIsHeard
<1>14. OnlyOneWaits'
    BY <1>0, <1>5 DEF OnlyOneWaits
<1>15. FetchIsPrefix'
    BY <1>0, <1>1 DEF FetchIsPrefix
<1>16. RestoreWasAsked'
    BY <1>0, <1>1, <1>2, <1>3, <1>4 DEF RestoreWasAsked, RestoreFailureShown, Contains
<1>17. ~mixed' => Unmixed'
    <2> SUFFICES ASSUME ~mixed' PROVE Unmixed'
        OBVIOUS
    <2>1. ~mixed /\ Fetching = {} /\ Unmixed
        BY <1>0 DEF PageInv
    <2>2. RestoresAlone'
        <3>1. messages' # <<Error(NoTurn)>>
            BY <1>2, <1>4
        <3> QED  BY <1>6, <2>1, <3>1 DEF RestoresAlone
    <2>3. WaitingIsShown'
        BY <1>0, <1>3, <1>4, <1>5 DEF WaitingIsShown
    <2>4. AnswersAreDone'
        BY <1>0, <1>3, <1>4, <1>7, <2>1 DEF AnswersAreDone, Unmixed
    <2>5. AnswersBeforeWaiting'
        BY <1>0, <1>3, <1>5, <1>8 DEF AnswersBeforeWaiting
    <2>6. AnswersOfSession'
        BY <1>0, <1>3, <1>4, <1>7, <2>1 DEF AnswersOfSession, Unmixed, AnswersAreDone
    <2>7. InRecordedOrder'
        BY <1>0, <1>4, <2>1, OrderKept DEF Unmixed
    <2> QED  BY <1>0, <1>4, <2>1, <2>2, <2>3, <2>4, <2>5, <2>6, <2>7 DEF Unmixed
<1> QED  BY <1>11, <1>12, <1>13, <1>14, <1>15, <1>16, <1>17 DEF PageInv

LEMMA HandleErrorKeeps ==
    ASSUME PageAssumption, PageInv, NEW t \in Turns, HandleError(t)
    PROVE  PageInv'
<1>0. /\ client[t] = "waiting" /\ isLoading' = FALSE
      /\ messages' = Append(messages, Error(t))
      /\ client' = [client EXCEPT ![t] = "over"]
      /\ UNCHANGED <<load, url, restoreId, sessionId, isRestoring, fetches, backend, sentTo, rows, mixed>>
    BY DEF HandleError, LoadingAfterError
<1>1. TypeOK /\ RecordedOnce /\ SentIsHeard /\ OnlyOneWaits /\ FetchIsPrefix /\ RestoreWasAsked
    BY DEF PageInv
<1>2. Error(t) \in Message /\ Error(t).kind # "assistant" /\ Error(t) # Error(NoTurn)
    <2>1. Error(t).kind = "error" /\ Error(t).turn = t /\ Error(NoTurn).turn = NoTurn /\ Error(t) \in Message
        BY MessageOfTurn
    <2> QED  BY <2>1, PageAssumption
<1>3. /\ messages \in Seq(Message) /\ client \in [Turns -> {"unused", "waiting", "over"}]
    BY <1>1 DEF TypeOK
<1>4. /\ messages' \in Seq(Message) /\ Answers' = Answers
      /\ \A i \in Answers : messages'[i] = messages[i]
      /\ Len(messages) + 1 \in DOMAIN messages' /\ messages'[Len(messages) + 1] = Error(t)
      /\ \A k \in DOMAIN messages' : messages'[k] = Error(t) \/ messages'[k] \in {messages[j] : j \in DOMAIN messages}
    BY <1>0, <1>2, <1>3, AppendMessage
<1>5. Waiting = {t} /\ Waiting' = {}
    BY <1>0, <1>1, <1>3 DEF OnlyOneWaits, Waiting
<1>6. Fetching' = Fetching
    BY <1>0 DEF Fetching
<1>11. TypeOK'
    <2>1. client' \in [Turns -> {"unused", "waiting", "over"}]
        BY <1>0, <1>3
    <2>2. {isLoading', isRestoring', mixed'} \subseteq BOOLEAN
        BY <1>0, <1>1 DEF TypeOK
    <2> QED  BY <1>0, <1>1, <1>4, <1>6, <2>1, <2>2 DEF TypeOK
<1>12. RecordedOnce'
    BY <1>0, <1>1 DEF RecordedOnce
<1>13. SentIsHeard'
    BY <1>0, <1>1, <1>3 DEF SentIsHeard
<1>14. OnlyOneWaits'
    BY <1>0, <1>5 DEF OnlyOneWaits
<1>15. FetchIsPrefix'
    BY <1>0, <1>1 DEF FetchIsPrefix
<1>16. RestoreWasAsked'
    BY <1>0, <1>1, <1>2, <1>3, <1>4 DEF RestoreWasAsked, RestoreFailureShown, Contains
<1>17. ~mixed' => Unmixed'
    <2> SUFFICES ASSUME ~mixed' PROVE Unmixed'
        OBVIOUS
    <2>1. ~mixed /\ Unmixed
        BY <1>0 DEF PageInv
    <2>2. RestoresAlone'
        <3>1. messages' # <<Error(NoTurn)>>
            BY <1>2, <1>4
        <3> QED  BY <1>0, <1>5, <1>6, <2>1, <3>1 DEF RestoresAlone, Unmixed
    <2>3. WaitingIsShown' /\ AnswersBeforeWaiting'
        BY <1>5 DEF WaitingIsShown, AnswersBeforeWaiting
    <2>4. AnswersAreDone'
        BY <1>0, <1>4, <2>1 DEF AnswersAreDone, Unmixed
    <2>6. AnswersOfSession'
        BY <1>0, <1>4, <2>1 DEF AnswersOfSession, Unmixed
    <2>7. InRecordedOrder'
        BY <1>0, <1>4, <2>1, OrderKept DEF Unmixed
    <2> QED  BY <1>0, <1>4, <2>1, <2>2, <2>3, <2>4, <2>6, <2>7 DEF Unmixed
<1> QED  BY <1>11, <1>12, <1>13, <1>14, <1>15, <1>16, <1>17 DEF PageInv

LEMMA HandleSuccessKeeps ==
    ASSUME PageAssumption, PageInv, NEW t \in Turns, HandleSuccess(t)
    PROVE  PageInv'
<1>0. /\ client[t] = "waiting" /\ backend[t] = "done" /\ isLoading' = FALSE
      /\ messages' = Append(messages, Assistant(t)) /\ url' = sessionId
      /\ client' = [client EXCEPT ![t] = "over"]
      /\ UNCHANGED <<load, restoreId, sessionId, isRestoring, fetches, backend, sentTo, rows, mixed>>
    BY DEF HandleSuccess, SyncedUrl
<1>1. TypeOK /\ RecordedOnce /\ SentIsHeard /\ OnlyOneWaits /\ FetchIsPrefix /\ RestoreWasAsked
    BY DEF PageInv
<1>2. /\ Assistant(t) \in Message /\ Assistant(t).kind = "assistant" /\ Assistant(t) # Error(NoTurn)
      /\ Assistant(t).turn = t
    <2>1. /\ Assistant(t).kind = "assistant" /\ Error(NoTurn).kind = "error" /\ Assistant(t).turn = t
          /\ Assistant(t) \in Message
        BY MessageOfTurn
    <2> QED  BY <2>1
<1>3. /\ messages \in Seq(Message) /\ client \in [Turns -> {"unused", "waiting", "over"}]
      /\ sessionId \in Sessions
    BY <1>1 DEF TypeOK
<1>4. /\ messages' \in Seq(Message) /\ Answers' = Answers \cup {Len(messages) + 1}
      /\ \A i \in Answers : messages'[i] = messages[i] /\ i < Len(messages) + 1 /\ i \in Nat
      /\ Len(messages) \in Nat
      /\ Len(messages) + 1 \in DOMAIN messages' /\ messages'[Len(messages) + 1] = Assistant(t)
      /\ \A k \in DOMAIN messages' : messages'[k] = Assistant(t) \/ messages'[k] \in {messages[j] : j \in DOMAIN messages}
    BY <1>0, <1>2, <1>3, AppendMessage
<1>5. Waiting = {t} /\ Waiting' = {}
    BY <1>0, <1>1, <1>3 DEF OnlyOneWaits, Waiting
<1>6. Fetching' = Fetching
    BY <1>0 DEF Fetching
<1>11. TypeOK'
    <2>1. client' \in [Turns -> {"unused", "waiting", "over"}]
        BY <1>0, <1>3
    <2>2. {isLoading', isRestoring', mixed'} \subseteq BOOLEAN
        BY <1>0, <1>1 DEF TypeOK
    <2>3. {url', restoreId'} \subseteq 0..MaxLoads
        BY <1>0, <1>1, PageAssumption DEF TypeOK, Sessions
    <2> QED  BY <1>0, <1>1, <1>4, <1>6, <2>1, <2>2, <2>3 DEF TypeOK
<1>12. RecordedOnce'
    BY <1>0, <1>1 DEF RecordedOnce
<1>13. SentIsHeard'
    BY <1>0, <1>1, <1>3 DEF SentIsHeard
<1>14. OnlyOneWaits'
    BY <1>0, <1>5 DEF OnlyOneWaits
<1>15. FetchIsPrefix'
    BY <1>0, <1>1 DEF FetchIsPrefix
<1>16. RestoreWasAsked'
    BY <1>0, <1>1, <1>2, <1>3, <1>4 DEF RestoreWasAsked, RestoreFailureShown, Contains
<1>17. ~mixed' => Unmixed'
    <2> SUFFICES ASSUME ~mixed' PROVE Unmixed'
        OBVIOUS
    <2>1. ~mixed /\ Unmixed
        BY <1>0 DEF PageInv
    <2>2. RestoresAlone'
        <3>1. messages' # <<Error(NoTurn)>>
            BY <1>2, <1>4
        <3>2. Fetching' = {}
            BY <1>5, <1>6, <2>1 DEF Unmixed, RestoresAlone
        <3> QED  BY <3>1, <3>2 DEF RestoresAlone
    <2>3. WaitingIsShown' /\ AnswersBeforeWaiting'
        BY <1>5 DEF WaitingIsShown, AnswersBeforeWaiting
    <2>4. AnswersAreDone'
        BY <1>0, <1>2, <1>4, <2>1 DEF AnswersAreDone, Unmixed
    <2>5. sentTo[t] = sessionId
        BY <1>5, <2>1 DEF Unmixed, WaitingIsShown
    <2>6. AnswersOfSession'
        BY <1>0, <1>2, <1>4, <2>1, <2>5 DEF AnswersOfSession, Unmixed
    <2>7. InRecordedOrder'
        <3>1. InRecordedOrder /\ AnswersBeforeWaiting
            BY <2>1 DEF Unmixed
        <3>2. ASSUME NEW i \in Answers', NEW j \in Answers', i < j,
                     NEW m \in DOMAIN rows[sessionId], NEW n \in DOMAIN rows[sessionId],
                     rows[sessionId][m] = messages'[i].turn, rows[sessionId][n] = messages'[j].turn
              PROVE  m < n
            <4>1. i \in Answers
                BY <1>4, <3>2
            <4>2. CASE j \in Answers
                BY <1>4, <3>1, <3>2, <4>1, <4>2 DEF InRecordedOrder
            <4>3. CASE j = Len(messages) + 1
                BY <1>2, <1>4, <1>5, <3>1, <3>2, <4>1, <4>3 DEF AnswersBeforeWaiting
            <4> QED  BY <1>4, <4>2, <4>3
        <3>3. \A i, j \in Answers' : i < j =>
                 \A m, n \in DOMAIN rows[sessionId] :
                    rows[sessionId][m] = messages'[i].turn /\ rows[sessionId][n] = messages'[j].turn => m < n
            BY <3>2
        <3>4. UNCHANGED <<rows, sessionId>>
            BY <1>0
        <3> QED  BY <3>3, <3>4 DEF InRecordedOrder
    <2> QED  BY <1>0, <1>4, <2>1, <2>2, <2>3, <2>4, <2>6, <2>7 DEF Unmixed
<1> QED  BY <1>11, <1>12, <1>13, <1>14, <1>15, <1>16, <1>17 DEF PageInv

-----------------------------------------------------------------------------
(* The backend *)

LEMMA ProcessKeeps ==
    ASSUME PageAssumption, PageInv, NEW t \in Turns, Process(t)
    PROVE  PageInv'
<1>0. /\ backend[t] = "processing" /\ backend' = [backend EXCEPT ![t] = "done"]
      /\ rows' \in {rows, [rows EXCEPT ![sentTo[t]] = Append(@, t)]}
      /\ UNCHANGED <<load, url, restoreId, sessionId, messages, isLoading, isRestoring, mixed, fetches, client, sentTo>>
    BY DEF Process, page
<1>1. TypeOK /\ RecordedOnce /\ SentIsHeard /\ OnlyOneWaits /\ FetchIsPrefix /\ RestoreWasAsked
    BY DEF PageInv
<1>2. /\ messages \in Seq(Message) /\ sessionId \in Sessions
      /\ backend \in [Turns -> {"none", "processing", "done"}]
      /\ rows \in [Sessions -> Seq(Turns)] /\ fetches \in [Fetches -> Fetch]
      /\ restoreId \in 0..MaxLoads /\ (Fetching # {} => restoreId # 0)
    BY <1>1 DEF TypeOK
<1>3. sentTo[t] \in Sessions
    BY <1>0, <1>1 DEF SentIsHeard
<1>4. Answers' = Answers /\ Waiting' = Waiting /\ Fetching' = Fetching
    BY <1>0 DEF Answers, Waiting, Fetching
(* Every conversation keeps its turns; the new one, if any, is the last of its own. *)
<1>5. rows' \in [Sessions -> Seq(Turns)]
      /\ \A s \in Sessions :
            /\ \A m \in DOMAIN rows[s] :
                  /\ m \in DOMAIN rows'[s] /\ rows'[s][m] = rows[s][m]
                  /\ rows[s][m] \in Turns /\ rows[s][m] # t
            /\ \A m \in DOMAIN rows'[s] :
                  m \in DOMAIN rows[s] \/ (s = sentTo[t] /\ rows'[s][m] = t)
            /\ \A m, n \in DOMAIN rows'[s] : m \notin DOMAIN rows[s] =>
                  m \in Nat /\ n \in Nat /\ (n \in DOMAIN rows[s] => n < m) /\ (n \notin DOMAIN rows[s] => n = m)
    <2>1. \A s \in Sessions : rows[s] \in Seq(Turns)
        BY <1>2
    <2>2. \A s \in Sessions : \A m \in DOMAIN rows[s] : rows[s][m] \in Turns /\ rows[s][m] # t
        BY <1>0, <1>1, <2>1 DEF RecordedOnce
    <2>3. CASE rows' = rows
        BY <1>2, <2>2, <2>3
    <2>4. CASE rows' = [rows EXCEPT ![sentTo[t]] = Append(@, t)]
        <3>1. /\ rows'[sentTo[t]] = Append(rows[sentTo[t]], t)
              /\ \A s \in Sessions : s # sentTo[t] => rows'[s] = rows[s]
            BY <1>2, <1>3, <2>4
        <3>2. /\ Append(rows[sentTo[t]], t) \in Seq(Turns)
              /\ DOMAIN rows[sentTo[t]] = 1 .. Len(rows[sentTo[t]]) /\ Len(rows[sentTo[t]]) \in Nat
              /\ DOMAIN Append(rows[sentTo[t]], t) = 1 .. Len(rows[sentTo[t]]) + 1
              /\ \A k \in DOMAIN rows[sentTo[t]] : Append(rows[sentTo[t]], t)[k] = rows[sentTo[t]][k]
              /\ Append(rows[sentTo[t]], t)[Len(rows[sentTo[t]]) + 1] = t
            BY <1>3, <2>1, AppendProperties
        <3>3. rows' \in [Sessions -> Seq(Turns)]
            BY <1>2, <1>3, <2>4, <3>2
        <3>4. ASSUME NEW s \in Sessions
              PROVE  /\ \A m \in DOMAIN rows[s] :
                           m \in DOMAIN rows'[s] /\ rows'[s][m] = rows[s][m]
                     /\ \A m \in DOMAIN rows'[s] :
                           m \in DOMAIN rows[s] \/ (s = sentTo[t] /\ rows'[s][m] = t)
                     /\ \A m, n \in DOMAIN rows'[s] : m \notin DOMAIN rows[s] =>
                           m \in Nat /\ n \in Nat /\ (n \in DOMAIN rows[s] => n < m) /\ (n \notin DOMAIN rows[s] => n = m)
            <4>1. CASE s # sentTo[t]
                BY <3>1, <4>1
            <4>2. CASE s = sentTo[t]
                BY <3>1, <3>2, <4>2
            <4> QED  BY <4>1, <4>2
        <3> QED  BY <2>2, <3>3, <3>4
    <2> QED  BY <1>0, <2>3, <2>4
<1>6. \A u \in Turns : backend[u] = "done" => backend'[u] = "done"
    BY <1>0, <1>2
<1>7. backend'[t] = "done" /\ backend' \in [Turns -> {"none", "processing", "done"}]
    BY <1>0, <1>2
<1>11. TypeOK'
    BY <1>0, <1>1, <1>4, <1>5, <1>7 DEF TypeOK
<1>12. RecordedOnce'
    <2>1. \A s \in Sessions : \A m \in DOMAIN rows'[s] :
             backend'[rows'[s][m]] = "done" /\ sentTo'[rows'[s][m]] = s
        BY <1>0, <1>1, <1>5, <1>6, <1>7 DEF RecordedOnce
    <2>2. ASSUME NEW s \in Sessions, NEW m \in DOMAIN rows'[s], NEW n \in DOMAIN rows'[s], rows'[s][m] = rows'[s][n]
          PROVE  m = n
        <3>1. CASE m \in DOMAIN rows[s] /\ n \in DOMAIN rows[s]
            BY <1>1, <1>5, <2>2, <3>1 DEF RecordedOnce
        <3>2. CASE m \notin DOMAIN rows[s] \/ n \notin DOMAIN rows[s]
            BY <1>5, <2>2, <3>2
        <3> QED  BY <3>1, <3>2
    <2> QED  BY <2>1, <2>2 DEF RecordedOnce
<1>13. SentIsHeard'
    BY <1>0, <1>1, <1>2 DEF SentIsHeard
<1>14. OnlyOneWaits'
    BY <1>0, <1>1, <1>4 DEF OnlyOneWaits
<1>15. FetchIsPrefix'
    <2> SUFFICES ASSUME NEW i \in Fetches, fetches[i].stage = "found", NEW m \in DOMAIN fetches[i].turns
                 PROVE  m \in DOMAIN rows'[restoreId] /\ fetches[i].turns[m] = rows'[restoreId][m]
        BY <1>0 DEF FetchIsPrefix
    <2>1. restoreId \in Sessions
        <3>1. i \in Fetching
            BY DEF Fetching
        <3>2. restoreId # 0 /\ restoreId \in 0..MaxLoads
            BY <1>2, <3>1
        <3> QED  BY <3>2, RestoreIdIsSession
    <2> QED  BY <1>1, <1>5, <2>1 DEF FetchIsPrefix
<1>16. RestoreWasAsked'
    BY <1>0, <1>1 DEF RestoreWasAsked, RestoreFailureShown
<1>17. ~mixed' => Unmixed'
    <2> SUFFICES ASSUME ~mixed' PROVE Unmixed'
        OBVIOUS
    <2>1. ~mixed /\ Unmixed
        BY <1>0 DEF PageInv
    <2>2. RestoresAlone' /\ WaitingIsShown'
        BY <1>0, <1>4, <2>1 DEF RestoresAlone, WaitingIsShown, Unmixed
    <2>3. AnswersAreDone'
        BY <1>0, <1>4, <1>6, <2>1 DEF AnswersAreDone, Unmixed
    <2>4. \A i \in Answers : messages[i].turn \in Turns /\ messages[i].turn # t
        BY <1>0, <2>1 DEF AnswersAreDone, Unmixed
    <2>5. AnswersBeforeWaiting'
        <3>1. ASSUME NEW i \in Answers, NEW u \in Waiting, NEW m \in DOMAIN rows'[sessionId], NEW n \in DOMAIN rows'[sessionId],
                     rows'[sessionId][m] = messages[i].turn, rows'[sessionId][n] = u
              PROVE  m < n
            <4>1. m \in DOMAIN rows[sessionId]
                BY <1>2, <1>5, <2>4, <3>1
            <4>2. CASE n \in DOMAIN rows[sessionId]
                BY <1>2, <1>5, <2>1, <3>1, <4>1, <4>2 DEF AnswersBeforeWaiting, Unmixed
            <4>3. CASE n \notin DOMAIN rows[sessionId]
                BY <1>2, <1>5, <3>1, <4>1, <4>3
            <4> QED  BY <4>2, <4>3
        <3>2. \A i \in Answers : \A u \in Waiting : \A m, n \in DOMAIN rows'[sessionId] :
                 rows'[sessionId][m] = messages[i].turn /\ rows'[sessionId][n] = u => m < n
            BY <3>1
        <3> QED  BY <1>0, <1>4, <3>2 DEF AnswersBeforeWaiting
    <2>6. AnswersOfSession'
        BY <1>0, <1>4, <2>1 DEF AnswersOfSession, Unmixed
    <2>7. InRecordedOrder'
        <3>1. ASSUME NEW i \in Answers, NEW j \in Answers, i < j,
                     NEW m \in DOMAIN rows'[sessionId], NEW n \in DOMAIN rows'[sessionId],
                     rows'[sessionId][m] = messages[i].turn, rows'[sessionId][n] = messages[j].turn
              PROVE  m < n
            <4>1. m \in DOMAIN rows[sessionId] /\ n \in DOMAIN rows[sessionId]
                BY <1>2, <1>5, <2>4, <3>1
            <4> QED  BY <1>2, <1>5, <2>1, <3>1, <4>1 DEF InRecordedOrder, Unmixed
        <3>2. \A i, j \in Answers : i < j => \A m, n \in DOMAIN rows'[sessionId] :
                 rows'[sessionId][m] = messages[i].turn /\ rows'[sessionId][n] = messages[j].turn => m < n
            BY <3>1
        <3> QED  BY <1>0, <1>4, <3>2 DEF InRecordedOrder
    <2> QED  BY <1>0, <1>4, <2>1, <2>2, <2>3, <2>5, <2>6, <2>7 DEF Unmixed
<1> QED  BY <1>11, <1>12, <1>13, <1>14, <1>15, <1>16, <1>17 DEF PageInv

-----------------------------------------------------------------------------
(* Restoring *)

(* Serving or putting aside a request leaves who waits and what is shown. *)
LEMMA ServeFetchKeeps ==
    ASSUME PageAssumption, PageInv, NEW i \in Fetches, ServeFetch(i)
    PROVE  PageInv'
<1>0. /\ fetches[i].stage = "asked"
      /\ \/ fetches' = [fetches EXCEPT ![i] = [stage |-> "found", turns |-> rows[restoreId]]]
         \/ fetches' = [fetches EXCEPT ![i].stage = "failed"]
      /\ UNCHANGED <<load, url, restoreId, sessionId, messages, isLoading, isRestoring, mixed, client, backend, sentTo, rows>>
    BY DEF ServeFetch, page
<1>1. TypeOK /\ RecordedOnce /\ SentIsHeard /\ OnlyOneWaits /\ FetchIsPrefix /\ RestoreWasAsked
    BY DEF PageInv
<1>2. /\ rows \in [Sessions -> Seq(Turns)] /\ fetches \in [Fetches -> Fetch]
      /\ restoreId \in 0..MaxLoads /\ (Fetching # {} => restoreId # 0)
    BY <1>1 DEF TypeOK
<1>3. i \in Fetching
    BY <1>0 DEF Fetching
<1>4. restoreId \in Sessions
    BY <1>2, <1>3, RestoreIdIsSession
<1>5. rows[restoreId] \in Seq(Turns)
    BY <1>2, <1>4
<1>6. /\ fetches' \in [Fetches -> Fetch]
      /\ \A j \in Fetches : j # i => fetches'[j] = fetches[j]
      /\ fetches'[i].stage # "none"
      /\ fetches'[i].stage = "found" => fetches'[i].turns = rows[restoreId]
    <2>1. CASE fetches' = [fetches EXCEPT ![i] = [stage |-> "found", turns |-> rows[restoreId]]]
        <3>1. [stage |-> "found", turns |-> rows[restoreId]] \in Fetch
            BY <1>5 DEF Fetch
        <3> QED  BY <1>2, <2>1, <3>1
    <2>2. CASE fetches' = [fetches EXCEPT ![i].stage = "failed"]
        BY <1>2, <2>2 DEF Fetch
    <2> QED  BY <1>0, <2>1, <2>2
<1>7. Fetching' = Fetching
    BY <1>3, <1>6 DEF Fetching
<1>8. Answers' = Answers /\ Waiting' = Waiting
    BY <1>0 DEF Answers, Waiting
<1>11. TypeOK'
    BY <1>0, <1>1, <1>6, <1>7 DEF TypeOK
<1>12. RecordedOnce' /\ SentIsHeard' /\ RestoreWasAsked'
    BY <1>0, <1>1 DEF RecordedOnce, SentIsHeard, RestoreWasAsked, RestoreFailureShown
<1>13. OnlyOneWaits'
    BY <1>0, <1>1, <1>8 DEF OnlyOneWaits
<1>14. FetchIsPrefix'
    BY <1>0, <1>1, <1>6 DEF FetchIsPrefix
<1>15. ~mixed' => Unmixed'
    <2> SUFFICES ASSUME ~mixed' PROVE Unmixed'
        OBVIOUS
    <2>1. ~mixed /\ Unmixed
        BY <1>0 DEF PageInv
    <2>2. RestoresAlone' /\ WaitingIsShown' /\ AnswersAreDone'
        BY <1>0, <1>7, <1>8, <2>1 DEF RestoresAlone, WaitingIsShown, AnswersAreDone, Unmixed
    <2>3. AnswersBeforeWaiting'
        BY <1>0, <1>8, <2>1 DEF AnswersBeforeWaiting, Unmixed
    <2>4. AnswersOfSession'
        BY <1>0, <1>8, <2>1 DEF AnswersOfSession, Unmixed
    <2>5. InRecordedOrder'
        BY <1>0, <1>8, <2>1, OrderKept DEF Unmixed
    <2> QED  BY <1>0, <1>8, <2>1, <2>2, <2>3, <2>4, <2>5 DEF Unmixed
<1> QED  BY <1>11, <1>12, <1>13, <1>14, <1>15 DEF PageInv

LEMMA RestoreFailedKeeps ==
    ASSUME PageAssumption, PageInv, NEW i \in Fetches, RestoreFailed(i)
    PROVE  PageInv'
<1>0. /\ fetches[i].stage = "failed" /\ messages' = <<Error(NoTurn)>> /\ isRestoring' = FALSE
      /\ fetches' = [fetches EXCEPT ![i] = NoFetch]
      /\ UNCHANGED <<load, url, restoreId, sessionId, isLoading, client, backend, sentTo, rows, mixed>>
    BY DEF RestoreFailed, RestoringAfterError
<1>1. TypeOK /\ RecordedOnce /\ SentIsHeard /\ OnlyOneWaits /\ FetchIsPrefix /\ RestoreWasAsked
    BY DEF PageInv
<1>2. fetches \in [Fetches -> Fetch] /\ (Fetching # {} => restoreId # 0)
    BY <1>1 DEF TypeOK
<1>3. i \in Fetching
    BY <1>0 DEF Fetching
<1>4. /\ fetches' \in [Fetches -> Fetch] /\ fetches'[i].stage = "none"
      /\ \A j \in Fetches : j # i => fetches'[j] = fetches[j]
    <2>1. NoFetch \in Fetch /\ NoFetch.stage = "none"
        BY DEF Fetch, NoFetch
    <2> QED  BY <1>0, <1>2, <2>1
<1>5. Fetching' \subseteq Fetching
    BY <1>4 DEF Fetching
<1>6. /\ messages' \in Seq(Message) /\ DOMAIN messages' = {1} /\ messages'[1] = Error(NoTurn)
      /\ Error(NoTurn).kind = "error"
    <2>1. Error(NoTurn) \in Message /\ Error(NoTurn).kind = "error"
        BY MessageOfTurn
    <2> QED  BY <1>0, <2>1
<1>7. Answers' = {} /\ Waiting' = Waiting
    BY <1>0, <1>6 DEF Answers, Waiting
<1>11. TypeOK'
    <2>1. {isLoading', isRestoring', mixed'} \subseteq BOOLEAN
        BY <1>0, <1>1 DEF TypeOK
    <2> QED  BY <1>0, <1>1, <1>2, <1>3, <1>4, <1>6, <2>1 DEF TypeOK
<1>12. RecordedOnce' /\ SentIsHeard'
    BY <1>0, <1>1 DEF RecordedOnce, SentIsHeard
<1>13. OnlyOneWaits'
    BY <1>0, <1>1, <1>7 DEF OnlyOneWaits
<1>14. FetchIsPrefix'
    BY <1>0, <1>1, <1>4 DEF FetchIsPrefix
<1>15. RestoreWasAsked'
    <2>1. restoreId' # 0
        BY <1>0, <1>2, <1>3
    <2> QED  BY <2>1 DEF RestoreWasAsked
<1>16. ~mixed' => Unmixed'
    <2> SUFFICES ASSUME ~mixed' PROVE Unmixed'
        OBVIOUS
    <2>1. ~mixed /\ Unmixed
        BY <1>0 DEF PageInv
    <2>2. Waiting = {} /\ url = restoreId
        BY <1>3, <2>1 DEF Unmixed, RestoresAlone
    <2>3. RestoresAlone' /\ WaitingIsShown'
        BY <1>0, <1>7, <2>2 DEF RestoresAlone, WaitingIsShown
    <2>4. AnswersAreDone' /\ AnswersBeforeWaiting' /\ AnswersOfSession' /\ InRecordedOrder'
        BY <1>7 DEF AnswersAreDone, AnswersBeforeWaiting, AnswersOfSession, InRecordedOrder
    <2> QED  BY <1>7, <2>3, <2>4 DEF Unmixed
<1> QED  BY <1>11, <1>12, <1>13, <1>14, <1>15, <1>16 DEF PageInv

LEMMA RetryRestoreKeeps ==
    ASSUME PageAssumption, PageInv, NEW i \in Fetches, RetryRestore(i)
    PROVE  PageInv'
<1>0. /\ i \notin Fetching /\ RestoreFailureShown
      /\ fetches' = [fetches EXCEPT ![i].stage = "asked"] /\ isRestoring' = TRUE
      /\ mixed' = (mixed \/ Len(messages) > 1)
      /\ UNCHANGED <<load, url, restoreId, sessionId, messages, isLoading, client, backend, sentTo, rows>>
    BY DEF RetryRestore
<1>1. TypeOK /\ RecordedOnce /\ SentIsHeard /\ OnlyOneWaits /\ FetchIsPrefix /\ RestoreWasAsked
    BY DEF PageInv
<1>2. fetches \in [Fetches -> Fetch] /\ messages \in Seq(Message)
    BY <1>1 DEF TypeOK
<1>3. restoreId # 0
    BY <1>0, <1>1 DEF RestoreWasAsked
<1>4. /\ fetches' \in [Fetches -> Fetch] /\ fetches'[i].stage = "asked"
      /\ \A j \in Fetches : j # i => fetches'[j] = fetches[j]
    BY <1>0, <1>2 DEF Fetch
<1>5. Answers' = Answers /\ Waiting' = Waiting
    BY <1>0 DEF Answers, Waiting
<1>11. TypeOK'
    <2>1. {isLoading', isRestoring', mixed'} \subseteq BOOLEAN
        BY <1>0, <1>1 DEF TypeOK
    <2> QED  BY <1>0, <1>1, <1>3, <1>4, <2>1 DEF TypeOK
<1>12. RecordedOnce' /\ SentIsHeard' /\ RestoreWasAsked'
    BY <1>0, <1>1 DEF RecordedOnce, SentIsHeard, RestoreWasAsked, RestoreFailureShown
<1>13. OnlyOneWaits'
    BY <1>0, <1>1, <1>5 DEF OnlyOneWaits
<1>14. FetchIsPrefix'
    BY <1>0, <1>1, <1>4 DEF FetchIsPrefix
<1>15. ~mixed' => Unmixed'
    <2> SUFFICES ASSUME ~mixed' PROVE Unmixed'
        OBVIOUS
    <2>1. ~mixed /\ Unmixed /\ ~(Len(messages) > 1)
        BY <1>0 DEF PageInv
    <2>2. messages = <<Error(NoTurn)>>
        <3>1. \E k \in 1 .. Len(messages) : messages[k] = Error(NoTurn)
            BY <1>0 DEF RestoreFailureShown, Contains
        <3>2. PICK k \in 1 .. Len(messages) : messages[k] = Error(NoTurn)
            BY <3>1
        <3>3. Len(messages) \in Nat
            BY <1>2
        <3>4. Len(messages) = 1 /\ k = 1
            BY <2>1, <3>2, <3>3
        <3> QED  BY <1>2, <3>2, <3>4
    <2>3. DOMAIN messages = {1} /\ messages[1] = Error(NoTurn) /\ Error(NoTurn).kind = "error"
        BY <2>2, MessageOfTurn
    <2>4. Answers = {}
        BY <2>3 DEF Answers
    <2>5. Waiting = {}
        <3> SUFFICES ASSUME NEW t \in Waiting PROVE FALSE
            OBVIOUS
        <3>1. User(t) = Error(NoTurn)
            BY <2>1, <2>3 DEF Unmixed, WaitingIsShown
        <3>2. User(t).kind = "user"
            BY DEF User
        <3> QED  BY <2>3, <3>1, <3>2
    <2>6. url = restoreId
        BY <2>1, <2>2 DEF Unmixed, RestoresAlone
    <2>7. RestoresAlone' /\ WaitingIsShown'
        BY <1>0, <1>5, <2>5, <2>6 DEF RestoresAlone, WaitingIsShown
    <2>8. AnswersAreDone' /\ AnswersBeforeWaiting' /\ AnswersOfSession' /\ InRecordedOrder'
        BY <1>5, <2>4 DEF AnswersAreDone, AnswersBeforeWaiting, AnswersOfSession, InRecordedOrder
    <2> QED  BY <1>5, <2>4, <2>7, <2>8 DEF Unmixed
<1> QED  BY <1>11, <1>12, <1>13, <1>14, <1>15 DEF PageInv

(* What a restored conversation shows: its turns in their order, and nothing else. *)
LEMMA ConversationShown ==
    ASSUME NEW turns \in Seq(Turns)
    PROVE  /\ Conversation(turns) \in Seq(Message)
           /\ \A k \in DOMAIN Conversation(turns) :
                 \E a \in DOMAIN turns :
                    /\ \/ k = 2 * a - 1 /\ Conversation(turns)[k] = User(turns[a])
                       \/ k = 2 * a /\ Conversation(turns)[k] = Assistant(turns[a])
                    /\ a \in Nat /\ turns[a] \in Turns
<1> DEFINE n == 2 * Len(turns)
<1>1. Len(turns) \in Nat /\ DOMAIN turns = 1 .. Len(turns) /\ \A a \in DOMAIN turns : turns[a] \in Turns
    OBVIOUS
<1>2. DOMAIN Conversation(turns) = 1 .. n /\ n \in Nat
    BY <1>1 DEF Conversation
<1>3. ASSUME NEW k \in 1 .. n
      PROVE  \E a \in DOMAIN turns :
                 \/ k = 2 * a - 1 /\ Conversation(turns)[k] = User(turns[a])
                 \/ k = 2 * a /\ Conversation(turns)[k] = Assistant(turns[a])
    <2>1. CASE k % 2 = 1
        <3>1. Conversation(turns)[k] = User(turns[(k + 1) \div 2])
            BY <2>1 DEF Conversation
        <3>2. (k + 1) \div 2 \in DOMAIN turns /\ k = 2 * ((k + 1) \div 2) - 1
            BY <1>1, <2>1
        <3> QED  BY <3>1, <3>2
    <2>2. CASE k % 2 # 1
        <3>1. Conversation(turns)[k] = Assistant(turns[k \div 2])
            BY <2>2 DEF Conversation
        <3>2. k \div 2 \in DOMAIN turns /\ k = 2 * (k \div 2)
            BY <1>1, <2>2
        <3> QED  BY <3>1, <3>2
    <2> QED  BY <2>1, <2>2
<1>4. \A k \in 1 .. n : Conversation(turns)[k] \in Message
    <2>1. \A t \in Turns : User(t) \in Message /\ Assistant(t) \in Message
        BY DEF User, Assistant, Message
    <2> QED  BY <1>1, <1>3, <2>1
<1>5. Conversation(turns) \in Seq(Message)
    <2>1. Conversation(turns) = [k \in 1 .. n |-> Conversation(turns)[k]]
        BY DEF Conversation
    <2> HIDE DEF n
    <2>2. Conversation(turns) \in [1 .. n -> Message]
        BY <1>4, <2>1
    <2> QED  BY <1>2, <2>2
<1> QED  BY <1>1, <1>2, <1>3, <1>5

LEMMA RestoredKeeps ==
    ASSUME PageAssumption, PageInv, NEW i \in Fetches, Restored(i)
    PROVE  PageInv'
<1> DEFINE turns == fetches[i].turns
<1>0. /\ fetches[i].stage = "found" /\ sessionId' = restoreId /\ messages' = Conversation(turns)
      /\ isRestoring' = FALSE /\ fetches' = [fetches EXCEPT ![i] = NoFetch]
      /\ UNCHANGED <<load, url, restoreId, isLoading, client, backend, sentTo, rows, mixed>>
    BY DEF Restored, SessionRestored
<1>1. TypeOK /\ RecordedOnce /\ SentIsHeard /\ OnlyOneWaits /\ FetchIsPrefix /\ RestoreWasAsked
    BY DEF PageInv
<1>2. /\ fetches \in [Fetches -> Fetch] /\ (Fetching # {} => restoreId # 0)
      /\ restoreId \in 0..MaxLoads /\ rows \in [Sessions -> Seq(Turns)]
    BY <1>1 DEF TypeOK
<1>3. i \in Fetching
    BY <1>0 DEF Fetching
<1>4. restoreId \in Sessions
    BY <1>2, <1>3, RestoreIdIsSession
<1>5. /\ fetches' \in [Fetches -> Fetch] /\ fetches'[i].stage = "none"
      /\ \A j \in Fetches : j # i => fetches'[j] = fetches[j]
    <2>1. NoFetch \in Fetch /\ NoFetch.stage = "none"
        BY DEF Fetch, NoFetch
    <2> QED  BY <1>0, <1>2, <2>1
<1>6. Fetching' \subseteq Fetching
    BY <1>5 DEF Fetching
<1>7. turns \in Seq(Turns)
    BY <1>2 DEF Fetch
<1>8. \A a \in DOMAIN turns : a \in DOMAIN rows[restoreId] /\ turns[a] = rows[restoreId][a]
    BY <1>0, <1>1 DEF FetchIsPrefix
<1> HIDE DEF turns
<1>9. messages' \in Seq(Message)
    BY <1>0, <1>7, ConversationShown
<1>10. \A k \in DOMAIN messages' :
          \E a \in DOMAIN turns :
             /\ \/ k = 2 * a - 1 /\ messages'[k] = User(turns[a])
                \/ k = 2 * a /\ messages'[k] = Assistant(turns[a])
             /\ a \in Nat /\ turns[a] \in Turns
    BY <1>0, <1>7, ConversationShown
<1>11. \A k \in DOMAIN messages' : messages'[k] # Error(NoTurn)
    BY <1>10 DEF User, Assistant, Error
<1>12. \A k \in Answers' :
          \E a \in DOMAIN turns :
             /\ k = 2 * a /\ a \in Nat /\ turns[a] \in Turns /\ messages'[k].turn = turns[a]
             /\ a \in DOMAIN rows[restoreId] /\ rows[restoreId][a] = turns[a]
    <2> SUFFICES ASSUME NEW k \in Answers'
                 PROVE  \E a \in DOMAIN turns :
                           /\ k = 2 * a /\ a \in Nat /\ turns[a] \in Turns /\ messages'[k].turn = turns[a]
                           /\ a \in DOMAIN rows[restoreId] /\ rows[restoreId][a] = turns[a]
        OBVIOUS
    <2>1. k \in DOMAIN messages' /\ messages'[k].kind = "assistant"
        BY DEF Answers
    <2>2. PICK a \in DOMAIN turns :
             /\ \/ k = 2 * a - 1 /\ messages'[k] = User(turns[a])
                \/ k = 2 * a /\ messages'[k] = Assistant(turns[a])
             /\ a \in Nat /\ turns[a] \in Turns
        BY <1>10, <2>1
    <2>3. k = 2 * a /\ messages'[k].turn = turns[a]
        BY <2>1, <2>2 DEF User, Assistant
    <2> QED  BY <1>8, <2>2, <2>3
<1>13. Waiting' = Waiting
    BY <1>0 DEF Waiting
<1>21. TypeOK'
    <2>1. {isLoading', isRestoring', mixed'} \subseteq BOOLEAN
        BY <1>0, <1>1 DEF TypeOK
    <2> QED  BY <1>0, <1>1, <1>2, <1>3, <1>4, <1>5, <1>9, <2>1 DEF TypeOK
<1>22. RecordedOnce' /\ SentIsHeard'
    BY <1>0, <1>1 DEF RecordedOnce, SentIsHeard
<1>23. OnlyOneWaits'
    BY <1>0, <1>1, <1>13 DEF OnlyOneWaits
<1>24. FetchIsPrefix'
    BY <1>0, <1>1, <1>5 DEF FetchIsPrefix
<1>25. RestoreWasAsked'
    <2>1. restoreId' # 0
        BY <1>0, <1>2, <1>3
    <2> QED  BY <2>1 DEF RestoreWasAsked
<1>26. ~mixed' => Unmixed'
    <2> SUFFICES ASSUME ~mixed' PROVE Unmixed'
        OBVIOUS
    <2>1. ~mixed /\ Unmixed
        BY <1>0 DEF PageInv
    <2>2. Waiting = {} /\ url = restoreId
        BY <1>3, <2>1 DEF Unmixed, RestoresAlone
    <2>3. RestoresAlone' /\ WaitingIsShown' /\ AnswersBeforeWaiting'
        BY <1>0, <1>13, <2>2 DEF RestoresAlone, WaitingIsShown, AnswersBeforeWaiting
    <2>4. \A k \in Answers' :
             /\ messages'[k].turn \in Turns /\ backend[messages'[k].turn] = "done"
             /\ sentTo[messages'[k].turn] = restoreId
        BY <1>1, <1>4, <1>12 DEF RecordedOnce
    <2>5. AnswersAreDone' /\ AnswersOfSession'
        BY <1>0, <2>4 DEF AnswersAreDone, AnswersOfSession
    <2>6. InRecordedOrder'
        <3>1. ASSUME NEW k \in Answers', NEW l \in Answers', k < l,
                     NEW m \in DOMAIN rows[restoreId], NEW n \in DOMAIN rows[restoreId],
                     rows[restoreId][m] = messages'[k].turn, rows[restoreId][n] = messages'[l].turn
              PROVE  m < n
            <4>1. PICK a \in DOMAIN rows[restoreId] :
                     a \in Nat /\ k = 2 * a /\ rows[restoreId][a] = messages'[k].turn
                BY <1>12
            <4>2. PICK b \in DOMAIN rows[restoreId] :
                     b \in Nat /\ l = 2 * b /\ rows[restoreId][b] = messages'[l].turn
                BY <1>12
            <4>3. m = a /\ n = b
                BY <1>1, <1>4, <3>1, <4>1, <4>2 DEF RecordedOnce
            <4> QED  BY <3>1, <4>1, <4>2, <4>3
        <3>2. \A k, l \in Answers' : k < l => \A m, n \in DOMAIN rows[restoreId] :
                 rows[restoreId][m] = messages'[k].turn /\ rows[restoreId][n] = messages'[l].turn => m < n
            BY <3>1
        <3>3. rows' = rows /\ sessionId' = restoreId
            BY <1>0
        <3> QED  BY <3>2, <3>3 DEF InRecordedOrder
    <2> QED  BY <1>0, <2>2, <2>3, <2>5, <2>6 DEF Unmixed
<1> QED  BY <1>21, <1>22, <1>23, <1>24, <1>25, <1>26 DEF PageInv

(* A page loaded again starts without questions, and restores what its URL names. *)
LEMMA LoadKeeps ==
    ASSUME PageAssumption, PageInv, Load
    PROVE  PageInv'
<1>0. /\ load < MaxLoads /\ load' = load + 1
      /\ url' \in {url, 0} \cup {s \in Sessions : rows[s] # <<>>}
      /\ restoreId' = url' /\ sessionId' = load'
      /\ messages' = <<>> /\ isLoading' = FALSE /\ isRestoring' = (url' # 0)
      /\ fetches' = [i \in Fetches |-> IF i = 1 /\ url' # 0 THEN [NoFetch EXCEPT !.stage = "asked"] ELSE NoFetch]
      /\ client' = [t \in Turns |-> IF client[t] = "waiting" THEN "over" ELSE client[t]]
      /\ mixed' = FALSE
      /\ UNCHANGED <<backend, sentTo, rows>>
    BY DEF Load
<1>1. TypeOK /\ RecordedOnce /\ SentIsHeard
    BY DEF PageInv
<1>2. /\ load \in 1..MaxLoads /\ url \in 0..MaxLoads
      /\ client \in [Turns -> {"unused", "waiting", "over"}]
    BY <1>1 DEF TypeOK
<1>3. load' \in 1..MaxLoads /\ sessionId' \in Sessions /\ url' \in 0..MaxLoads /\ restoreId' \in 0..MaxLoads
    BY <1>0, <1>2, PageAssumption DEF Sessions
<1>4. /\ fetches' \in [Fetches -> Fetch]
      /\ \A i \in Fetches : fetches'[i].stage # "found" /\ (fetches'[i].stage # "none" => url' # 0)
    <2>1. /\ NoFetch \in Fetch /\ [NoFetch EXCEPT !.stage = "asked"] \in Fetch
          /\ NoFetch.stage = "none" /\ [NoFetch EXCEPT !.stage = "asked"].stage = "asked"
        <3>1. <<>> \in Seq(Turns)
            OBVIOUS
        <3>2. [NoFetch EXCEPT !.stage = "asked"] = [stage |-> "asked", turns |-> <<>>]
            BY DEF NoFetch
        <3>3. NoFetch \in Fetch /\ NoFetch.stage = "none"
            BY <3>1 DEF Fetch, NoFetch
        <3>4. [stage |-> "asked", turns |-> <<>>] \in Fetch
            BY <3>1 DEF Fetch
        <3> QED  BY <3>2, <3>3, <3>4
    <2> HIDE DEF NoFetch, Fetch
    <2>2. \A i \in Fetches : \/ fetches'[i] = NoFetch
                             \/ url' # 0 /\ fetches'[i] = [NoFetch EXCEPT !.stage = "asked"]
        BY <1>0
    <2>3. fetches' = [i \in Fetches |-> fetches'[i]]
        BY <1>0, Zenon
    <2>4. fetches' \in [Fetches -> Fetch]
        BY <2>1, <2>2, <2>3
    <2> QED  BY <2>1, <2>2, <2>4
<1>5. Fetching' # {} => restoreId' # 0
    BY <1>0, <1>4 DEF Fetching
<1>6. client' \in [Turns -> {"unused", "waiting", "over"}] /\ Waiting' = {}
    BY <1>0, <1>2 DEF Waiting
<1>7. Answers' = {} /\ DOMAIN messages' = {} /\ messages' \in Seq(Message)
    BY <1>0 DEF Answers
<1>11. TypeOK'
    <2>1. {isLoading', isRestoring', mixed'} \subseteq BOOLEAN
        BY <1>0
    <2> QED  BY <1>0, <1>1, <1>3, <1>4, <1>5, <1>6, <1>7, <2>1 DEF TypeOK
<1>12. RecordedOnce'
    BY <1>0, <1>1 DEF RecordedOnce
<1>13. SentIsHeard'
    BY <1>0, <1>1, <1>2 DEF SentIsHeard
<1>14. OnlyOneWaits' /\ FetchIsPrefix' /\ RestoreWasAsked'
    <2>1. OnlyOneWaits'
        BY <1>0, <1>6 DEF OnlyOneWaits
    <2>2. FetchIsPrefix'
        BY <1>4 DEF FetchIsPrefix
    <2>3. RestoreWasAsked'
        BY <1>0 DEF RestoreWasAsked, RestoreFailureShown, Contains
    <2> QED  BY <2>1, <2>2, <2>3
<1>15. Unmixed'
    <2>1. RestoresAlone'
        BY <1>0, <1>6 DEF RestoresAlone
    <2>2. WaitingIsShown' /\ AnswersAreDone' /\ AnswersBeforeWaiting' /\ AnswersOfSession' /\ InRecordedOrder'
        BY <1>6, <1>7 DEF WaitingIsShown, AnswersAreDone, AnswersBeforeWaiting, AnswersOfSession, InRecordedOrder
    <2> QED  BY <1>7, <2>1, <2>2 DEF Unmixed
<1> QED  BY <1>11, <1>12, <1>13, <1>14, <1>15 DEF PageInv

-----------------------------------------------------------------------------

LEMMA PageInvStutters == ASSUME PageInv, UNCHANGED vars PROVE PageInv'
<1>1. UNCHANGED <<load, url, restoreId, sessionId, messages, isLoading, isRestoring, mixed, fetches, client,
                  backend, sentTo, rows>>
    BY DEF vars, page
<1>2. Fetching' = Fetching /\ Waiting' = Waiting /\ Answers' = Answers
    BY <1>1 DEF Fetching, Waiting, Answers
<1>3. TypeOK' /\ RecordedOnce' /\ SentIsHeard' /\ OnlyOneWaits' /\ FetchIsPrefix' /\ RestoreWasAsked'
    BY <1>1, <1>2 DEF PageInv, TypeOK, RecordedOnce, SentIsHeard, OnlyOneWaits, FetchIsPrefix,
                      RestoreWasAsked, RestoreFailureShown
<1>4. ~mixed' => Unmixed'
    <2> SUFFICES ASSUME ~mixed PROVE Unmixed'
        BY <1>1
    <2>1. Unmixed
        BY DEF PageInv
    <2>2. InRecordedOrder'
        BY <1>1, <1>2, <2>1, OrderKept DEF Unmixed
    <2> QED  BY <1>1, <1>2, <2>1, <2>2 DEF Unmixed, RestoresAlone, WaitingIsShown, AnswersAreDone,
                                           AnswersBeforeWaiting, AnswersOfSession
<1> QED  BY <1>3, <1>4 DEF PageInv

(* The invariant holds in every state: each operation of the page, the backend and the browser keeps it. *)
THEOREM PageIsConsistent == Spec => []PageInv
<1> USE PageAssumption
<1>1. Init => PageInv
    BY PageInvInit
<1>2. PageInv /\ [Next]_vars => PageInv'
    <2> SUFFICES ASSUME PageInv, [Next]_vars PROVE PageInv'
        OBVIOUS
    <2>1. ASSUME NEW t \in Turns, OnSend(t) \/ Answered(t) \/ Process(t) PROVE PageInv'
        BY <2>1, OnSendKeeps, HandleSuccessKeeps, HandleErrorKeeps, ProcessKeeps DEF Answered
    <2>2. ASSUME NEW i \in Fetches, Settle(i) \/ RetryRestore(i) PROVE PageInv'
        BY <2>2, ServeFetchKeeps, RestoredKeeps, RestoreFailedKeeps, RetryRestoreKeeps DEF Settle
    <2>3. CASE Load
        BY <2>3, LoadKeeps
    <2>4. CASE UNCHANGED vars
        BY <2>4, PageInvStutters
    <2> QED  BY <2>1, <2>2, <2>3, <2>4 DEF Next
<1> QED  BY <1>1, <1>2, PTL DEF Spec

(* The values of the page's state stay of their types, and only a page asked for a session restores one. *)
THEOREM TypeCorrect == Spec => []TypeOK
<1>1. PageInv => TypeOK
    BY DEF PageInv
<1> QED  BY <1>1, PageIsConsistent, PTL

(* The spinner of the composer stands for one question under way, never for none and never for two. *)
THEOREM SendsOneAtATime == Spec => []OneQuestionAtATime
<1>1. PageInv => OneQuestionAtATime
    <2> SUFFICES ASSUME PageInv PROVE OneQuestionAtATime
        OBVIOUS
    <2>1. OnlyOneWaits
        BY DEF PageInv
    <2>2. CASE Waiting = {}
        BY <2>1, <2>2, FS_EmptySet DEF OnlyOneWaits, OneQuestionAtATime
    <2>3. CASE Waiting # {}
        <3>1. PICK t \in Waiting : Waiting = {t}
            BY <2>1, <2>3 DEF OnlyOneWaits
        <3>2. Cardinality(Waiting) = 1
            BY <3>1, FS_Singleton
        <3> QED  BY <2>1, <3>2 DEF OnlyOneWaits, OneQuestionAtATime
    <2> QED  BY <2>2, <2>3
<1> QED  BY <1>1, PageIsConsistent, PTL

(* What the page shows is the conversation it goes on with, in the order of the history, and a *)
(* refresh finds it again, as long as no question was sent before a restore that came later. *)
THEOREM ShowsOneConversation == Spec => []ConversationSurvives
<1>1. PageInv => ConversationSurvives
    BY DEF PageInv, Unmixed, ConversationSurvives, ShowsItsConversation, RefreshRestores
<1> QED  BY <1>1, PageIsConsistent, PTL
=============================================================================
