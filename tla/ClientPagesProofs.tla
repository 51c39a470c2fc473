------------------------- MODULE ClientPagesProofs -------------------------
(* The safety properties of ClientPages for any number of users, conversations, requests and *)
(* sign-ins.                                                                                  *)
EXTENDS ClientPages, TLAPS, FiniteSetTheorems

\* What a request brings is of the kind that its page takes.
Typed(q) ==
    /\ q.kind = "detail" => q.arg \in Entries
    /\ q.kind = "load" => q.answer \subseteq Conversations \cup Entries
    /\ q.kind = "login" /\ q.stage = "sent" => q.answer \subseteq Users
    /\ q.kind = "login" \/ q.stage = "none" \/ q.token # 0
RequestsTyped == \A r \in Requests : Typed(requests[r])

Known == Issued \cup {0}
LoginOk(r) == requests[r].kind = "login" /\ requests[r].stage = "ok"

\* The token of a sign-in that is not taken over yet is known to nobody else.
Fresh(r) ==
    /\ requests[r].arg \in Issued \ refused
    /\ requests[r].arg # token /\ requests[r].arg # stored
    /\ \A q \in Requests :
          /\ requests[q].token # requests[r].arg
          /\ q # r /\ LoginOk(q) => requests[q].arg # requests[r].arg

\* Every token in use was issued; the stored one is the tab's own or no request carries it.
TokenInv ==
    /\ token \in Known /\ stored \in Known /\ refused \subseteq Issued
    /\ \A r \in Requests : requests[r].token \in Known
    /\ \A r \in Requests : LoginOk(r) => Fresh(r)
    /\ stored # token => \A r \in Requests : stored = 0 \/ requests[r].token # stored
    /\ place # "login" => token # 0

\* A page hears only of its own requests, sent with the token that the tab still has.
HeardBy(q) ==
    q.heard = "page" =>
        /\ q.kind = "login" => place = "login"
        /\ q.kind = "ask" => place = "chat"
        /\ q.kind = "delete" => place = "history"
        /\ q.kind = "load" => place \in {"history", "audit"}
        /\ q.kind = "detail" => place = "audit"
        /\ q.kind # "none"
        /\ place # "login" /\ ~switched => q.token = token
        /\ q.kind = "load" => isLoading
        /\ q.kind = "load" /\ q.stage = "ok" /\ place = "history" =>
              q.answer \subseteq {c \in Conversations : Owner[c] = userOf[q.token]}
PageInv ==
    /\ pendingDelete # 0 => place = "history"
    /\ \A r \in Requests : HeardBy(requests[r])
OneLoad == \A q, r \in OfPage("load") : q = r

\* What the history page shows, until a delete of its own has been answered, and what a list
\* brings that was asked for after every delete was carried out.
Current(list) ==
    \A c \in Conversations :
        \/ \E r \in OfPage("delete") : requests[r].arg = c
        \/ c \in list <=> c \in Owned(currentUser)
DeletesInv ==
    /\ \A r \in UnderWay("delete") : requests[r].stage = "ok" => requests[r].arg \notin rows
    /\ isLoading /\ place = "history" => pendingDelete = 0
    /\ place = "history" /\ ~crossed /\ ~switched =>
          /\ \A r \in UnderWay("delete") :
                requests[r].stage = "sent" => requests[r].heard = "page" /\ ~isLoading
          /\ \A r \in OfPage("load") : requests[r].stage = "ok" => requests[r].answer = Owned(currentUser)
          /\ ListShown("history") => items \subseteq Conversations /\ Current(items)

Inv ==
    /\ TypeOK /\ RequestsTyped /\ TokenInv /\ RefusedIsOver /\ OnlyOwnData
    /\ PageInv /\ OneLoad /\ SpinnerHasRequest /\ DeletesInv

-----------------------------------------------------------------------------
(* What a step does to a request *)

SameFields(r) ==
    /\ requests'[r].kind = requests[r].kind /\ requests'[r].stage = requests[r].stage
    /\ requests'[r].arg = requests[r].arg /\ requests'[r].token = requests[r].token
    /\ requests'[r].answer = requests[r].answer
Detached(r) == SameFields(r) /\ requests'[r].heard \in {"app", "nobody"}
Over(r) == requests'[r] = Idle
LoadBegun(r) ==
    /\ requests'[r].kind = "load" /\ requests'[r].stage = "sent" /\ requests'[r].arg = 0
    /\ requests'[r].token = token' /\ requests'[r].heard = "page" /\ requests'[r].answer = {}

\* The page is built anew: the requests of the old one go on without it, and the new one hears
\* of its own load alone.
Rebuilt(reqs) ==
    /\ submitting' = FALSE /\ isDetailLoading' = FALSE /\ errorMessage' = FALSE
    /\ items' = {} /\ pendingDelete' = 0 /\ search' = Conversations /\ pageNo' = 1
    /\ selectedEntry' = 0 /\ switched' = FALSE
    /\ isLoading' \in BOOLEAN /\ (isLoading' <=> place' \in {"history", "audit"})
    /\ crossed' \in BOOLEAN
    /\ crossed' <=> isLoading' /\ \E r \in Requests : requests'[r].kind = "delete" /\ requests'[r].stage = "sent"
    /\ requests' \in [Requests -> Request0]
    /\ \A r \in Requests : \/ Over(r)
                           \/ Detached(r) /\ reqs[r] = requests[r]
                           \/ isLoading' /\ LoadBegun(r)
    /\ isLoading' => \E r \in Requests : LoadBegun(r) /\ \A q \in Requests : LoadBegun(q) => q = r

Stayed(reqs) ==
    /\ requests' = reqs
    /\ switched' = (switched \/ token' # token)
    /\ UNCHANGED <<place, spinners, errorMessage, history, selectedEntry>>

LEMMA IdleFacts ==
    /\ Idle \in Request0 /\ Idle.kind = "none" /\ Idle.stage = "none" /\ Idle.arg = 0
    /\ Idle.token = 0 /\ Idle.heard = "nobody" /\ Idle.answer = {}
<1> QED
  BY PagesAssumption DEF Idle, Request0

LEMMA EndedFacts ==
    ASSUME requests \in [Requests -> Request0], NEW r \in Requests
    PROVE  /\ Done(r) \in [Requests -> Request0]
           /\ Done(r)[r] = Idle
           /\ \A q \in Requests : q # r => Done(r)[q] = requests[q]
<1> QED
  BY IdleFacts DEF Done

\* A page that is entered.
LEMMA EnterFacts ==
    ASSUME requests \in [Requests -> Request0], token' \in 0..MaxLogins,
           NEW reqs, NEW reqs0, NEW p \in Places, reqs \in [Requests -> Request0],
           \A r \in Requests : \/ reqs[r] = Idle
                               \/ /\ reqs0[r] = requests[r]
                                  /\ reqs[r].kind = requests[r].kind /\ reqs[r].stage = requests[r].stage
                                  /\ reqs[r].arg = requests[r].arg /\ reqs[r].token = requests[r].token
                                  /\ reqs[r].answer = requests[r].answer
                                  /\ reqs[r].heard \in {"app", "nobody"},
           Carrying(reqs) \in BOOLEAN,
           Enter(p, reqs)
    PROVE  place' = p /\ Rebuilt(reqs0)
<1> DEFINE New == [[kind |-> "load", stage |-> "sent", arg |-> 0, token |-> token,
                    heard |-> "page", answer |-> {}] EXCEPT !.token = token']
<1>1. /\ New.kind = "load" /\ New.stage = "sent" /\ New.arg = 0 /\ New.token = token'
      /\ New.heard = "page" /\ New.answer = {} /\ New \in Request0
  BY DEF Request0
<1>2. CASE p \in {"history", "audit"}
  <2>1. PICK r \in Requests : reqs[r].kind = "none" /\ requests' = [reqs EXCEPT ![r] = New]
    BY <1>2 DEF Enter, Request
  <2>2. /\ requests'[r] = New /\ requests' \in [Requests -> Request0]
        /\ \A q \in Requests : q # r => requests'[q] = reqs[q]
    BY <2>1, <1>1
  <2> HIDE DEF New
  <2>3. LoadBegun(r) /\ \A q \in Requests : LoadBegun(q) => q = r
    BY <2>2, <1>1, IdleFacts DEF LoadBegun
  <2>4. \A q \in Requests : \/ Over(q)
                            \/ Detached(q) /\ reqs0[q] = requests[q]
                            \/ LoadBegun(q)
    BY <2>2, <2>3 DEF Over, Detached, SameFields
  <2>5. Carrying(reqs) <=> \E q \in Requests : requests'[q].kind = "delete" /\ requests'[q].stage = "sent"
    BY <2>1, <2>2, <1>1 DEF Carrying
  <2>6. /\ place' = p /\ isLoading' = TRUE /\ crossed' = Carrying(reqs)
        /\ submitting' = FALSE /\ isDetailLoading' = FALSE /\ errorMessage' = FALSE
        /\ items' = {} /\ pendingDelete' = 0 /\ search' = Conversations /\ pageNo' = 1
        /\ selectedEntry' = 0 /\ switched' = FALSE
    BY <1>2 DEF Enter
  <2> QED
    BY <1>2, <2>2, <2>3, <2>4, <2>5, <2>6 DEF Rebuilt
<1>3. CASE p \notin {"history", "audit"}
  <2>1. /\ place' = p /\ isLoading' = FALSE /\ crossed' = FALSE /\ requests' = reqs
        /\ submitting' = FALSE /\ isDetailLoading' = FALSE /\ errorMessage' = FALSE
        /\ items' = {} /\ pendingDelete' = 0 /\ search' = Conversations /\ pageNo' = 1
        /\ selectedEntry' = 0 /\ switched' = FALSE
    BY <1>3 DEF Enter
  <2>2. \A r \in Requests : Over(r) \/ (Detached(r) /\ reqs0[r] = requests[r])
    BY <2>1 DEF Over, Detached, SameFields
  <2>3. isLoading' \in BOOLEAN /\ (isLoading' <=> place' \in {"history", "audit"})
    BY <1>3, <2>1
  <2>4. /\ crossed' \in BOOLEAN
        /\ crossed' <=> isLoading' /\ \E r \in Requests : requests'[r].kind = "delete" /\ requests'[r].stage = "sent"
    BY <2>1
  <2> QED
    BY <2>1, <2>2, <2>3, <2>4 DEF Rebuilt
<1> QED
  BY <1>2, <1>3

\* The router: the page that is shown stays as it is, another one is built.
LEMMA NavigateFacts ==
    ASSUME TypeOK, token' \in 0..MaxLogins, NEW p \in Places,
           NEW reqs \in [Requests -> Request0],
           \A r \in Requests : reqs[r] = Idle \/ reqs[r] = requests[r],
           Navigate(p, reqs)
    PROVE  /\ place' = Guarded(p, place = "login") /\ place' \in Places
           /\ returnUrl' \in Places \ {"login"}
           /\ place' = place => Stayed(reqs)
           /\ place' # place => Rebuilt(reqs)
<1> DEFINE to == Guarded(p, place = "login")
<1>1. to \in Places
  BY DEF Guarded, Places
<1>2. returnUrl' \in Places \ {"login"}
  BY <1>1 DEF Navigate, ReturnUrl, Places
<1>3. CASE to = place
  BY <1>1, <1>2, <1>3 DEF Navigate, Stayed
<1>4. CASE to # place
  <2>1. Enter(to, Left(reqs))
    BY <1>4 DEF Navigate
  <2>2. /\ Left(reqs) \in [Requests -> Request0]
        /\ \A r \in Requests : \/ Left(reqs)[r] = Idle
                               \/ /\ reqs[r] = requests[r]
                                  /\ Left(reqs)[r].kind = requests[r].kind /\ Left(reqs)[r].stage = requests[r].stage
                                  /\ Left(reqs)[r].arg = requests[r].arg /\ Left(reqs)[r].token = requests[r].token
                                  /\ Left(reqs)[r].answer = requests[r].answer
                                  /\ Left(reqs)[r].heard \in {"app", "nobody"}
    <3>1. requests \in [Requests -> Request0]
      BY DEF TypeOK
    <3>2. ASSUME NEW r \in Requests
          PROVE  /\ Left(reqs)[r] \in Request0
                 /\ \/ Left(reqs)[r] = Idle
                    \/ /\ reqs[r] = requests[r]
                       /\ Left(reqs)[r].kind = requests[r].kind /\ Left(reqs)[r].stage = requests[r].stage
                       /\ Left(reqs)[r].arg = requests[r].arg /\ Left(reqs)[r].token = requests[r].token
                       /\ Left(reqs)[r].answer = requests[r].answer
                       /\ Left(reqs)[r].heard \in {"app", "nobody"}
      <4>1. Left(reqs)[r] = IF reqs[r].heard # "page" THEN reqs[r]
                            ELSE IF Matters(reqs[r]) THEN [reqs[r] EXCEPT !.heard = "app"] ELSE Idle
        BY DEF Left
      <4>2. CASE reqs[r].heard # "page"
        BY <3>1, <4>1, <4>2, IdleFacts DEF Request0
      <4>3. CASE reqs[r].heard = "page" /\ Matters(reqs[r])
        <5>1. reqs[r] = requests[r]
          BY <4>3, IdleFacts
        <5> QED
          BY <3>1, <4>1, <4>3, <5>1 DEF Request0
      <4>4. CASE reqs[r].heard = "page" /\ ~Matters(reqs[r])
        BY <4>1, <4>4, IdleFacts
      <4> QED
        BY <4>2, <4>3, <4>4
    <3> QED
      BY <3>2 DEF Left
  <2>3. place' = to /\ Rebuilt(reqs)
    <3> HIDE DEF to
    <3>1. Carrying(Left(reqs)) \in BOOLEAN
      BY DEF Carrying
    <3> QED
      BY <1>1, <2>1, <2>2, <3>1, EnterFacts DEF TypeOK
  <2> QED
    BY <1>1, <1>2, <1>4, <2>3
<1> QED
  BY <1>3, <1>4

-----------------------------------------------------------------------------
(* Tokens *)

\* A request is over, carries what it carried, or is sent with the token of the tab.
SessionPart(r) ==
    \/ Over(r)
    \/ /\ requests'[r].kind = requests[r].kind /\ requests'[r].token = requests[r].token
       /\ requests'[r].arg = requests[r].arg
       /\ requests'[r].kind = "login" => requests'[r].stage = requests[r].stage
    \/ requests'[r].stage = "sent" /\ requests'[r].token = token'

TokenPart == TokenInv /\ RefusedIsOver

LEMMA IssuedFacts == Issued \subseteq Tokens /\ 0 \notin Issued
<1> QED
  BY PagesAssumption DEF Issued, Tokens

\* A step that issues no token keeps the tokens apart, if the tab's own and the stored one are
\* good and no request carries a stored one that the tab does not have.
LEMMA KeepTokens ==
    ASSUME TokenPart, userOf' = userOf,
           \A r \in Requests : SessionPart(r),
           token' \in Known \ refused', stored' \in Known \ refused', refused' \subseteq Issued,
           \A r \in Requests : LoginOk(r) /\ LoginOk(r)' =>
                requests[r].arg \notin refused' /\ requests[r].arg # token' /\ requests[r].arg # stored',
           stored' # token' => stored' = 0 \/ \A r \in Requests : requests[r].token # stored',
           place' # "login" => token' # 0
    PROVE  TokenPart'
<1>1. Issued' = Issued /\ Known' = Known
  BY DEF Issued, Known
<1>2. 0 \in Known /\ 0 \notin Issued
  BY IssuedFacts DEF Known
<1>3. \A r \in Requests :
          /\ requests'[r].token \in Known
          /\ requests'[r].token \in {0, token', requests[r].token}
          /\ stored' # token' => stored' = 0 \/ requests'[r].token # stored'
  BY <1>2, IdleFacts DEF TokenPart, TokenInv, SessionPart, Over
<1>4. \A r \in Requests : LoginOk(r)' =>
          LoginOk(r) /\ requests'[r].arg = requests[r].arg
  BY IdleFacts DEF SessionPart, Over, LoginOk
<1>5. ASSUME NEW r \in Requests, LoginOk(r)' PROVE Fresh(r)'
  <2>1. Fresh(r) /\ requests'[r].arg = requests[r].arg /\ LoginOk(r)
    BY <1>4, <1>5 DEF TokenPart, TokenInv
  <2>2. requests[r].arg \in Issued \ refused' /\ requests[r].arg # token' /\ requests[r].arg # stored'
    BY <1>5, <2>1 DEF Fresh
  <2>3. \A q \in Requests : requests'[q].token # requests[r].arg
    BY <1>2, <1>3, <2>1, <2>2 DEF Fresh
  <2>4. \A q \in Requests : q # r /\ LoginOk(q)' => requests'[q].arg # requests[r].arg
    BY <1>4, <2>1 DEF Fresh
  <2> QED
    BY <1>1, <2>1, <2>2, <2>3, <2>4 DEF Fresh
<1>6. TokenInv'
  BY <1>1, <1>3, <1>5 DEF TokenInv
<1>7. RefusedIsOver'
  BY DEF RefusedIsOver
<1> QED
  BY <1>6, <1>7 DEF TokenPart

\* The same when the session stays.
LEMMA KeepSession ==
    ASSUME TokenPart, token' = token, stored' = stored, userOf' = userOf, refused' = refused,
           \A r \in Requests : SessionPart(r),
           place' # "login" => token # 0
    PROVE  TokenPart'
<1>1. \A r \in Requests : LoginOk(r) =>
          requests[r].arg \notin refused' /\ requests[r].arg # token' /\ requests[r].arg # stored'
  BY DEF TokenPart, TokenInv, Fresh
<1>2. token' \in Known \ refused' /\ stored' \in Known \ refused' /\ refused' \subseteq Issued
  BY DEF TokenPart, TokenInv, RefusedIsOver
<1>3. stored' # token' => stored' = 0 \/ \A r \in Requests : requests[r].token # stored'
  BY DEF TokenPart, TokenInv
<1> QED
  BY <1>1, <1>2, <1>3, KeepTokens

\* A new token is nobody's.
LEMMA IssueToken ==
    ASSUME TypeOK, TokenPart, Issued # Tokens, NEW u \in Users,
           userOf' = [userOf EXCEPT ![NextToken] = u]
    PROVE  /\ NextToken \in Tokens \ Issued /\ Issued' = Issued \cup {NextToken}
           /\ \A t \in Issued : userOf'[t] = userOf[t]
           /\ token # NextToken /\ stored # NextToken /\ NextToken \notin refused /\ NextToken # 0
           /\ \A r \in Requests : /\ requests[r].token # NextToken
                                  /\ LoginOk(r) => requests[r].arg # NextToken
<1>1. NextToken \in Tokens \ Issued
  BY IssuedFacts DEF NextToken
<1>2. Issued' = Issued \cup {NextToken}
  BY <1>1 DEF Issued, TypeOK
<1>3. \A t \in Issued : userOf'[t] = userOf[t]
  BY <1>1 DEF TypeOK
<1>4. NextToken # 0
  BY <1>1, PagesAssumption DEF Tokens
<1> QED
  BY <1>1, <1>2, <1>3, <1>4 DEF TokenPart, TokenInv, Known, Fresh

LEMMA AbortedFacts ==
    ASSUME requests \in [Requests -> Request0]
    PROVE  /\ Aborted \in [Requests -> Request0]
           /\ \A r \in Requests :
                 \/ Aborted[r] = Idle
                 \/ /\ Aborted[r].kind = "delete" /\ requests[r].kind = "delete"
                    /\ Aborted[r].stage = requests[r].stage /\ Aborted[r].arg = requests[r].arg
                    /\ Aborted[r].token = requests[r].token
                    /\ Aborted[r].answer = requests[r].answer /\ Aborted[r].heard = "nobody"
<1> SUFFICES ASSUME NEW r \in Requests
             PROVE  /\ Aborted[r] \in Request0
                    /\ \/ Aborted[r] = Idle
                       \/ /\ Aborted[r].kind = "delete" /\ requests[r].kind = "delete"
                          /\ Aborted[r].stage = requests[r].stage /\ Aborted[r].arg = requests[r].arg
                          /\ Aborted[r].token = requests[r].token
                          /\ Aborted[r].answer = requests[r].answer /\ Aborted[r].heard = "nobody"
  BY DEF Aborted
<1> QED
  BY IdleFacts DEF Aborted, Request0

LEMMA RebuiltSession == ASSUME NEW reqs, Rebuilt(reqs) PROVE \A r \in Requests : SessionPart(r)
<1> QED
  BY DEF Rebuilt, SessionPart, Detached, SameFields, LoadBegun

\* A reload takes the stored token.
LEMMA ReloadFacts ==
    ASSUME TypeOK, Reload
    PROVE  /\ token' = stored /\ stored' = stored /\ userOf' = userOf /\ refused' = refused /\ rows' = rows
           /\ place' = Guarded(place, TRUE) /\ place' \in Places /\ returnUrl' \in Places \ {"login"}
           /\ Rebuilt(requests)
<1>1. token' = stored /\ stored' = stored /\ userOf' = userOf /\ refused' = refused /\ rows' = rows
  BY DEF Reload, backend
<1> DEFINE to == Guarded(place, TRUE)
<1>2. to \in Places
  BY DEF Guarded, Places, TypeOK
<1>3. returnUrl' \in Places \ {"login"}
  BY DEF Reload, Places, TypeOK
<1>4. Enter(to, Aborted)
  BY DEF Reload
<1>5. place' = to /\ Rebuilt(requests)
  <2> HIDE DEF to
  <2>1. Carrying(Aborted) \in BOOLEAN
    BY DEF Carrying
  <2>2. requests \in [Requests -> Request0] /\ token' \in 0..MaxLogins
    BY <1>1 DEF TypeOK
  <2>3. \A r \in Requests :
            \/ Aborted[r] = Idle
            \/ /\ requests[r] = requests[r]
               /\ Aborted[r].kind = requests[r].kind /\ Aborted[r].stage = requests[r].stage
               /\ Aborted[r].arg = requests[r].arg /\ Aborted[r].token = requests[r].token
               /\ Aborted[r].answer = requests[r].answer /\ Aborted[r].heard \in {"app", "nobody"}
    BY <2>2, AbortedFacts
  <2> QED
    BY <1>2, <1>4, <2>1, <2>2, <2>3, AbortedFacts, EnterFacts
<1> QED
  BY <1>1, <1>2, <1>3, <1>5

\* What a step without navigation does to its request.
SentAs(r, kind, arg, answer) ==
    requests' = [requests EXCEPT ![r] = [kind |-> kind, stage |-> "sent", arg |-> arg,
                                         token |-> token, heard |-> "page", answer |-> answer]]
Begun(r, kind) == \E arg \in Nat, answer \in SUBSET Users : SentAs(r, kind, arg, answer)

LEMMA SentFacts ==
    ASSUME TypeOK, NEW r \in Requests, NEW arg \in Nat, NEW answer \in SUBSET Users,
           NEW kind \in {"login", "ask", "load", "delete", "detail"},
           SentAs(r, kind, arg, answer)
    PROVE  /\ requests' \in [Requests -> Request0]
           /\ \A q \in Requests : q # r => requests'[q] = requests[q]
           /\ requests'[r].kind = kind /\ requests'[r].stage = "sent" /\ requests'[r].arg = arg
           /\ requests'[r].token = token /\ requests'[r].heard = "page" /\ requests'[r].answer = answer
<1>1. [kind |-> kind, stage |-> "sent", arg |-> arg, token |-> token, heard |-> "page",
       answer |-> answer] \in Request0
  BY DEF Request0, TypeOK
<1> QED
  BY <1>1 DEF SentAs, TypeOK

LEMMA RespondFacts ==
    ASSUME TypeOK, NEW r \in Requests, NEW arg \in Nat,
           NEW answer \in SUBSET (Users \cup Conversations \cup Entries), Respond(r, arg, answer)
    PROVE  /\ requests' \in [Requests -> Request0]
           /\ \A q \in Requests : q # r => requests'[q] = requests[q]
           /\ \/ Over(r) /\ requests[r].heard # "page"
              \/ /\ requests'[r].kind = requests[r].kind /\ requests'[r].stage = "ok"
                 /\ requests'[r].arg = arg /\ requests'[r].answer = answer
                 /\ requests'[r].token = requests[r].token /\ requests'[r].heard = requests[r].heard
<1> DEFINE reply == [requests[r] EXCEPT !.stage = "ok", !.arg = arg, !.answer = answer]
<1>1. /\ reply \in Request0 /\ reply.kind = requests[r].kind /\ reply.stage = "ok"
      /\ reply.arg = arg /\ reply.answer = answer
      /\ reply.token = requests[r].token /\ reply.heard = requests[r].heard
  BY DEF Request0, TypeOK
<1>2. \/ requests' = [requests EXCEPT ![r] = reply]
      \/ requests' = [requests EXCEPT ![r] = Idle] /\ reply.heard # "page"
  BY DEF Respond
<1> HIDE DEF reply
<1> QED
  BY <1>1, <1>2, IdleFacts DEF Over, TypeOK

PageKinds == {"login", "ask", "load", "delete", "detail"}
\* A step that asks, hears of or serves request r, or none.
OneRequest(r) ==
    \/ requests' = requests
    \/ requests' = Done(r)
    \/ \E kind \in PageKinds : Begun(r, kind)
    \/ /\ requests[r].kind # "login"
       /\ \E answer \in SUBSET (Users \cup Conversations \cup Entries) :
             Respond(r, requests[r].arg, answer)

LEMMA OneRequestFacts ==
    ASSUME TypeOK, token' = token, NEW r \in Requests, OneRequest(r)
    PROVE  /\ requests' \in [Requests -> Request0]
           /\ \A q \in Requests : SessionPart(q)
           /\ \A q \in Requests : q # r => requests'[q] = requests[q]
<1>1. CASE requests' = requests
  BY <1>1 DEF SessionPart, TypeOK
<1>2. CASE requests' = Done(r)
  BY <1>2, EndedFacts DEF SessionPart, Over, TypeOK
<1>3. ASSUME NEW kind \in PageKinds, Begun(r, kind)
      PROVE  /\ requests' \in [Requests -> Request0]
             /\ \A q \in Requests : SessionPart(q)
             /\ \A q \in Requests : q # r => requests'[q] = requests[q]
  BY <1>3, SentFacts DEF Begun, SessionPart, PageKinds
<1>4. ASSUME requests[r].kind # "login", NEW answer \in SUBSET (Users \cup Conversations \cup Entries),
             Respond(r, requests[r].arg, answer)
      PROVE  /\ requests' \in [Requests -> Request0]
             /\ \A q \in Requests : SessionPart(q)
             /\ \A q \in Requests : q # r => requests'[q] = requests[q]
  <2>1. requests[r].arg \in Nat
    BY DEF TypeOK, Request0
  <2> QED
    BY <1>4, <2>1, RespondFacts DEF SessionPart
<1> QED
  BY <1>1, <1>2, <1>3, <1>4 DEF OneRequest

\* The steps that leave the session and the place alone.
Plain ==
    /\ token' = token /\ stored' = stored /\ userOf' = userOf /\ refused' = refused
    /\ place' = place /\ returnUrl' = returnUrl /\ switched' = switched
    /\ requests' = requests \/ \E r \in Requests : OneRequest(r)

LEMMA PlainKeepsTokens == ASSUME TypeOK, TokenPart, Plain PROVE TokenPart'
<1>1. \A r \in Requests : SessionPart(r)
  BY OneRequestFacts DEF Plain, SessionPart
<1> QED
  BY <1>1, KeepSession DEF Plain, TokenPart, TokenInv

\* Which steps these are.
PlainAction(r) ==
    \/ \E u \in Users : OnSignIn(r, u)
    \/ Ask(r) \/ Load(r) \/ Remove(r) \/ ServeRead(r) \/ ServeDelete(r)
    \/ SignInFailed(r) \/ Loaded(r) \/ LoadFailed(r) \/ Removed(r) \/ RemoveFailed(r)
    \/ DetailArrived(r) \/ DetailFailed(r) \/ AskFailed(r) \/ Unheard(r)
    \/ \E e \in Entries : OpenDetail(r, e)
PageAction ==
    \/ \E s \in {Conversations, Matching} : Filter(s)
    \/ \E n \in 1..Cardinality(Conversations) : GoToPage(n)
    \/ \E c \in Conversations : ConfirmRemove(c)
    \/ CancelRemove \/ CloseDetail

LEMMA BegunFacts ==
    ASSUME NEW r \in Requests, NEW kind, NEW arg \in Nat
    PROVE  /\ requests' = [requests EXCEPT ![r] = Request(kind, arg)] => Begun(r, kind)
           /\ \A u \in Users : requests' = [requests EXCEPT ![r] = [Request(kind, arg) EXCEPT !.answer = {u}]]
                                   => Begun(r, kind)
<1>1. Request(kind, arg) = [kind |-> kind, stage |-> "sent", arg |-> arg, token |-> token,
                            heard |-> "page", answer |-> {}]
  BY DEF Request
<1>2. \A u \in Users : [Request(kind, arg) EXCEPT !.answer = {u}] =
          [kind |-> kind, stage |-> "sent", arg |-> arg, token |-> token, heard |-> "page", answer |-> {u}]
  BY <1>1
<1> QED
  BY <1>1, <1>2 DEF Begun, SentAs

LEMMA PlainActions == ASSUME TypeOK, NEW r \in Requests, PlainAction(r) PROVE Plain
<1>0. 0 \in Nat /\ pendingDelete \in Nat /\ \A e \in Entries : e \in Nat
  <2>1. pendingDelete \in Conversations \cup {0}
    BY DEF TypeOK
  <2> QED
    BY <2>1, PagesAssumption
<1>1. CASE \/ \E u \in Users : OnSignIn(r, u)
           \/ Ask(r) \/ Load(r) \/ Remove(r) \/ \E e \in Entries : OpenDetail(r, e)
  <2>1. \E kind \in PageKinds : Begun(r, kind)
    BY <1>0, <1>1, BegunFacts DEF OnSignIn, Ask, Load, Remove, OpenDetail, PageKinds
  <2>2. /\ token' = token /\ stored' = stored /\ userOf' = userOf /\ refused' = refused
        /\ place' = place /\ returnUrl' = returnUrl /\ switched' = switched
    BY <1>1 DEF OnSignIn, Ask, Load, Remove, OpenDetail, session, backend, page, history, spinners
  <2> QED
    BY <2>1, <2>2 DEF Plain, OneRequest
<1>2. CASE \/ SignInFailed(r) \/ Loaded(r) \/ LoadFailed(r) \/ Removed(r) \/ RemoveFailed(r)
           \/ DetailArrived(r) \/ DetailFailed(r) \/ AskFailed(r) \/ Unheard(r)
  <2>1. requests' = Done(r)
    BY <1>2 DEF SignInFailed, Loaded, LoadFailed, Removed, RemoveFailed, DetailArrived, DetailFailed,
                AskFailed, Unheard
  <2>2. /\ token' = token /\ stored' = stored /\ userOf' = userOf /\ refused' = refused
        /\ place' = place /\ returnUrl' = returnUrl /\ switched' = switched
    BY <1>2 DEF SignInFailed, Loaded, LoadFailed, Removed, RemoveFailed, DetailArrived, DetailFailed,
                AskFailed, Unheard, session, backend, page, history, spinners
  <2> QED
    BY <2>1, <2>2 DEF Plain, OneRequest
<1>3. CASE ServeRead(r) \/ ServeDelete(r)
  <2>1. ListFor(r) \subseteq Conversations \cup Entries
    BY DEF ListFor, Owned, TypeOK
  <2>2. \E answer \in SUBSET (Users \cup Conversations \cup Entries) : Respond(r, requests[r].arg, answer)
    BY <1>3, <2>1 DEF ServeRead, ServeDelete
  <2>3. requests[r].kind # "login"
    BY <1>3 DEF ServeRead, ServeDelete
  <2>4. /\ token' = token /\ stored' = stored /\ userOf' = userOf /\ refused' = refused
        /\ place' = place /\ returnUrl' = returnUrl /\ switched' = switched
    BY <1>3 DEF ServeRead, ServeDelete, session, backend, page
  <2> QED
    BY <2>2, <2>3, <2>4 DEF Plain, OneRequest
<1> QED
  BY <1>1, <1>2, <1>3 DEF PlainAction

LEMMA PageActions == ASSUME PageAction \/ UNCHANGED vars PROVE Plain /\ requests' = requests
<1> QED
  BY DEF PageAction, Filter, GoToPage, ConfirmRemove, CancelRemove, CloseDetail, Plain,
         session, backend, page, history, spinners, vars

\* Where a navigation leads needs a session, as long as there is one behind the login page.
LEMMA GuardFacts ==
    ASSUME NEW p \in Places, NEW outside \in BOOLEAN, Guarded(p, outside) # "login"
    PROVE  p # "login" /\ (outside => token' # 0)
<1> QED
  BY DEF Guarded

LEMMA NavigationSession ==
    ASSUME TypeOK, NEW reqs,
           reqs = requests \/ \E r \in Requests : reqs = Done(r),
           Stayed(reqs) \/ Rebuilt(reqs)
    PROVE  \A q \in Requests : SessionPart(q)
<1>1. requests \in [Requests -> Request0]
  BY DEF TypeOK
<1>2. ASSUME Stayed(reqs), NEW q \in Requests PROVE SessionPart(q)
  BY <1>1, <1>2, EndedFacts DEF Stayed, SessionPart, Over
<1> QED
  BY <1>2, RebuiltSession

\* The reply to r is not heard again.
LEMMA DoneIsOver ==
    ASSUME TypeOK, NEW r \in Requests, requests[r].kind # "none",
           Stayed(Done(r)) \/ Rebuilt(Done(r))
    PROVE  ~LoginOk(r)'
<1>1. Done(r)[r] = Idle /\ Idle.kind = "none"
  BY EndedFacts, IdleFacts DEF TypeOK
<1>2. CASE Stayed(Done(r))
  BY <1>1, <1>2 DEF Stayed, LoginOk
<1>3. CASE Rebuilt(Done(r))
  <2>1. Over(r) \/ LoadBegun(r)
    BY <1>1, <1>3 DEF Rebuilt
  <2> QED
    BY <1>1, <2>1 DEF Over, LoadBegun, LoginOk
<1> QED
  BY <1>2, <1>3

LEMMA ReqsFacts ==
    ASSUME TypeOK, NEW reqs, reqs = requests \/ \E r \in Requests : reqs = Done(r)
    PROVE  /\ reqs \in [Requests -> Request0]
           /\ \A r \in Requests : reqs[r] = Idle \/ reqs[r] = requests[r]
<1> QED
  BY EndedFacts DEF TypeOK

\* Every navigation with what it does to the requests.
LEMMA Routed ==
    ASSUME TypeOK, token' \in 0..MaxLogins, NEW p \in Places, NEW reqs,
           reqs = requests \/ \E r \in Requests : reqs = Done(r),
           Navigate(p, reqs)
    PROVE  /\ place' = Guarded(p, place = "login") /\ place' \in Places
           /\ returnUrl' \in Places \ {"login"}
           /\ place' = place => Stayed(reqs)
           /\ place' # place => Rebuilt(reqs)
           /\ \A q \in Requests : SessionPart(q)
           /\ place' # "login" => p # "login" /\ (place = "login" => token' # 0)
           /\ \A r \in Requests : reqs = Done(r) /\ requests[r].kind # "none" => ~LoginOk(r)'
<1>1. /\ place' = Guarded(p, place = "login") /\ place' \in Places
      /\ returnUrl' \in Places \ {"login"}
      /\ place' = place => Stayed(reqs)
      /\ place' # place => Rebuilt(reqs)
  BY ReqsFacts, NavigateFacts
<1>2. Stayed(reqs) \/ Rebuilt(reqs)
  BY <1>1
<1>3. \A q \in Requests : SessionPart(q)
  BY <1>2, NavigationSession
<1>4. place' # "login" => p # "login" /\ (place = "login" => token' # 0)
  BY <1>1, GuardFacts
<1>5. \A r \in Requests : reqs = Done(r) /\ requests[r].kind # "none" => ~LoginOk(r)'
  BY <1>2, DoneIsOver
<1> QED
  BY <1>1, <1>3, <1>4, <1>5

LEMMA GoToTokens == ASSUME TypeOK, TokenPart, NEW p \in Places, GoTo(p) PROVE TokenPart'
<1>1. token' = token /\ stored' = stored /\ userOf' = userOf /\ refused' = refused
  BY DEF GoTo, session, backend
<1>2. Navigate(p, requests) /\ token' \in 0..MaxLogins
  BY <1>1 DEF GoTo, TypeOK
<1>3. /\ \A q \in Requests : SessionPart(q)
      /\ place' # "login" => token' # 0
  BY <1>1, <1>2, Routed DEF TokenPart, TokenInv
<1> QED
  BY <1>1, <1>3, KeepSession

LEMMA AskDoneTokens == ASSUME TypeOK, TokenPart, NEW r \in Requests, AskDone(r) PROVE TokenPart'
<1>1. token' = token /\ stored' = stored /\ userOf' = userOf /\ refused' = refused
  BY DEF AskDone, session, backend
<1>2. CASE Navigate("chat", Done(r))
  <2>1. token' \in 0..MaxLogins /\ "chat" \in Places
    BY <1>1 DEF TypeOK, Places
  <2>2. /\ \A q \in Requests : SessionPart(q)
        /\ place' # "login" => token' # 0
    BY <1>1, <1>2, <2>1, Routed DEF TokenPart, TokenInv
  <2> QED
    BY <1>1, <2>2, KeepSession
<1>3. CASE requests' = Done(r) /\ UNCHANGED page
  <2>1. Plain
    BY <1>1, <1>3 DEF Plain, OneRequest, page
  <2> QED
    BY <2>1, PlainKeepsTokens
<1> QED
  BY <1>2, <1>3 DEF AskDone

LEMMA ReloadTokens == ASSUME TypeOK, TokenPart, Reload PROVE TokenPart'
<1>1. /\ token' = stored /\ stored' = stored /\ userOf' = userOf /\ refused' = refused
      /\ \A q \in Requests : SessionPart(q)
      /\ place' = Guarded(place, TRUE)
  BY ReloadFacts, RebuiltSession
<1>2. place' # "login" => token' # 0
  BY <1>1, GuardFacts DEF TypeOK
<1>3. \A r \in Requests : LoginOk(r) =>
          requests[r].arg \notin refused' /\ requests[r].arg # token' /\ requests[r].arg # stored'
  BY <1>1 DEF TokenPart, TokenInv, Fresh
<1>4. token' \in Known \ refused' /\ stored' \in Known \ refused' /\ refused' \subseteq Issued
  BY <1>1 DEF TokenPart, TokenInv, RefusedIsOver
<1>5. stored' = token'
  BY <1>1
<1> QED
  BY <1>1, <1>2, <1>3, <1>4, <1>5, KeepTokens

\* A session that ends, also because token t was refused.
LEMMA EndTokens ==
    ASSUME TypeOK, TokenPart, NEW reqs,
           reqs = requests \/ \E r \in Requests : reqs = Done(r),
           EndSession(reqs),
           refused' = refused \/ \E r \in Requests : /\ requests[r].token # 0
                                                     /\ refused' = refused \cup {requests[r].token}
    PROVE  TokenPart'
<1>1. token' = 0 /\ stored' = 0 /\ userOf' = userOf /\ Navigate("login", reqs)
  BY DEF EndSession, StoredAfterLogout, backend
<1>2. token' \in 0..MaxLogins /\ "login" \in Places
  BY <1>1, PagesAssumption DEF Places
<1>3. /\ \A q \in Requests : SessionPart(q)
      /\ place' = "login"
  BY <1>1, <1>2, Routed
<1>4. refused' \subseteq Issued /\ 0 \notin Issued
  BY IssuedFacts DEF TokenPart, TokenInv, Known
<1>5. \A r \in Requests : LoginOk(r) =>
          requests[r].arg \notin refused' /\ requests[r].arg # token' /\ requests[r].arg # stored'
  BY <1>1, <1>4 DEF TokenPart, TokenInv, Fresh
<1>6. token' \in Known \ refused' /\ stored' \in Known \ refused'
  BY <1>1, <1>4 DEF Known
<1> QED
  BY <1>1, <1>3, <1>4, <1>5, <1>6, KeepTokens

LEMMA TokenRefusedTokens ==
    ASSUME TypeOK, RequestsTyped, TokenPart, NEW r \in Requests, TokenRefused(r) PROVE TokenPart'
<1>1. requests[r].token # 0 /\ refused' = refused \cup {requests[r].token}
  BY DEF TokenRefused, Refused, RequestsTyped, Typed
<1>2. CASE token # 0
  <2>1. EndSession(Done(r))
    BY <1>2 DEF TokenRefused
  <2> QED
    BY <1>1, <2>1, EndTokens
<1>3. CASE token = 0
  <2>1. /\ requests' = Done(r) /\ token' = token /\ stored' = stored /\ userOf' = userOf
        /\ place' = place
    BY <1>3 DEF TokenRefused, session, backend, page
  <2>2. \A q \in Requests : SessionPart(q)
    BY <2>1, EndedFacts DEF SessionPart, Over, TypeOK
  <2>3. refused' \subseteq Issued /\ 0 \notin Issued
    BY <1>1, IssuedFacts DEF TokenPart, TokenInv, Known
  <2>4. stored # requests[r].token
    BY <1>1, <1>3 DEF TokenPart, TokenInv
  <2>5. token' \in Known \ refused' /\ stored' \in Known \ refused'
    BY <1>1, <1>3, <2>1, <2>3, <2>4 DEF TokenPart, TokenInv, RefusedIsOver
  <2>6. \A q \in Requests : LoginOk(q) =>
            requests[q].arg \notin refused' /\ requests[q].arg # token' /\ requests[q].arg # stored'
    BY <1>1, <2>1 DEF TokenPart, TokenInv, Fresh
  <2>7. stored' # token' => stored' = 0 \/ \A q \in Requests : requests[q].token # stored'
    BY <2>1 DEF TokenPart, TokenInv
  <2>8. place' # "login" => token' # 0
    BY <2>1 DEF TokenPart, TokenInv
  <2> QED
    BY <2>1, <2>2, <2>3, <2>5, <2>6, <2>7, <2>8, KeepTokens
<1> QED
  BY <1>2, <1>3

LEMMA SignInRefusedTokens ==
    ASSUME TypeOK, TokenPart, NEW r \in Requests, SignInRefused(r), PageInv PROVE TokenPart'
<1>1. refused' = refused /\ requests[r].kind = "login"
  BY DEF SignInRefused
<1>2. CASE Heard(r)
  <2>1. /\ token' = 0 /\ stored' = IF token # 0 THEN 0 ELSE stored
        /\ requests' = Done(r) /\ userOf' = userOf /\ place' = place
    BY <1>2 DEF SignInRefused, StoredAfterLogout, backend
  <2>2. place = "login"
    BY <1>1, <1>2 DEF PageInv, HeardBy, Heard
  <2>3. \A q \in Requests : SessionPart(q)
    BY <2>1, EndedFacts DEF SessionPart, Over, TypeOK
  <2>4. 0 \in Known \ refused'
    BY <1>1, IssuedFacts DEF TokenPart, TokenInv, Known
  <2>5. stored' \in Known \ refused' /\ refused' \subseteq Issued
    BY <1>1, <2>1, <2>4 DEF TokenPart, TokenInv, RefusedIsOver
  <2>6. \A q \in Requests : LoginOk(q) =>
            requests[q].arg \notin refused' /\ requests[q].arg # token' /\ requests[q].arg # stored'
    BY <1>1, <2>1, IssuedFacts DEF TokenPart, TokenInv, Fresh
  <2>7. stored' # token' => stored' = 0 \/ \A q \in Requests : requests[q].token # stored'
    BY <2>1 DEF TokenPart, TokenInv
  <2> QED
    BY <2>1, <2>2, <2>3, <2>4, <2>5, <2>6, <2>7, KeepTokens
<1>3. CASE ~Heard(r) /\ token # 0
  <2>1. EndSession(Done(r))
    BY <1>3 DEF SignInRefused
  <2> QED
    BY <1>1, <2>1, EndTokens
<1>4. CASE ~Heard(r) /\ token = 0
  <2>1. Plain
    BY <1>1, <1>4 DEF SignInRefused, Plain, OneRequest, session, backend, page
  <2> QED
    BY <2>1, PlainKeepsTokens
<1> QED
  BY <1>2, <1>3, <1>4

\* The page of a sign-in, or the application after it was left, takes the new token.
LEMMA SignedInFacts ==
    ASSUME TypeOK, TokenPart, NEW r \in Requests, SignedIn(r)
    PROVE  /\ LoginOk(r) /\ Fresh(r)
           /\ token' = requests[r].arg /\ stored' = requests[r].arg
           /\ userOf' = userOf /\ refused' = refused /\ rows' = rows
           /\ token' # 0 /\ token' \in 0..MaxLogins /\ token' # token
           /\ \E p \in Places \ {"login"} : Navigate(p, Done(r))
           /\ Heard(r) => Navigate(returnUrl, Done(r))
<1>1. LoginOk(r)
  BY DEF SignedIn, Answered, Listening, LoginOk
<1>2. Fresh(r)
  BY <1>1 DEF TokenPart, TokenInv
<1>3. /\ token' = requests[r].arg /\ stored' = requests[r].arg
      /\ userOf' = userOf /\ refused' = refused /\ rows' = rows
  BY DEF SignedIn, backend
<1>4. token' # 0 /\ token' \in 0..MaxLogins /\ token' # token
  <2>1. token' \in Tokens /\ token' # token
    BY <1>2, <1>3, IssuedFacts DEF Fresh
  <2> QED
    BY <2>1, PagesAssumption DEF Tokens
<1>5. returnUrl \in Places \ {"login"}
  BY DEF TypeOK
<1>6. /\ \E p \in Places \ {"login"} : Navigate(p, Done(r))
      /\ Heard(r) => Navigate(returnUrl, Done(r))
  BY <1>5 DEF SignedIn
<1> QED
  BY <1>1, <1>2, <1>3, <1>4, <1>6

LEMMA SignedInTokens ==
    ASSUME TypeOK, TokenPart, NEW r \in Requests, SignedIn(r) PROVE TokenPart'
<1>1. /\ LoginOk(r) /\ Fresh(r)
      /\ token' = requests[r].arg /\ stored' = requests[r].arg
      /\ userOf' = userOf /\ refused' = refused
      /\ token' # 0 /\ token' \in 0..MaxLogins
  BY SignedInFacts
<1>2. PICK p \in Places \ {"login"} : Navigate(p, Done(r))
  BY SignedInFacts
<1>3. (\A q \in Requests : SessionPart(q)) /\ ~LoginOk(r)'
  BY <1>1, <1>2, Routed DEF LoginOk
<1>4. \A q \in Requests : LoginOk(q) /\ LoginOk(q)' =>
          requests[q].arg \notin refused' /\ requests[q].arg # token' /\ requests[q].arg # stored'
  BY <1>1, <1>3 DEF TokenPart, TokenInv, Fresh
<1>5. token' \in Known \ refused' /\ stored' \in Known \ refused' /\ refused' \subseteq Issued
  BY <1>1 DEF TokenPart, TokenInv, Fresh, Known
<1> QED
  BY <1>1, <1>3, <1>4, <1>5, KeepTokens

\* A token that is issued is known to the answer of its sign-in alone, or to the storage.
LEMMA ServeLoginTokens ==
    ASSUME TypeOK, TokenPart, RequestsTyped, NEW r \in Requests, ServeLogin(r) PROVE TokenPart'
<1>1. /\ token' = token /\ stored' = stored /\ refused' = refused /\ place' = place
      /\ requests[r].kind = "login" /\ requests[r].stage = "sent" /\ Issued # Tokens
      /\ Respond(r, NextToken, {})
  BY DEF ServeLogin, session, page
<1>2. PICK u \in Users : userOf' = [userOf EXCEPT ![NextToken] = u]
  BY <1>1 DEF ServeLogin, RequestsTyped, Typed
<1>3. /\ NextToken \in Tokens \ Issued /\ Issued' = Issued \cup {NextToken}
      /\ token # NextToken /\ stored # NextToken /\ NextToken \notin refused /\ NextToken # 0
      /\ \A q \in Requests : /\ requests[q].token # NextToken
                             /\ LoginOk(q) => requests[q].arg # NextToken
  BY <1>1, <1>2, IssueToken
<1>4. NextToken \in Nat /\ {} \in SUBSET (Users \cup Conversations \cup Entries)
  BY <1>3 DEF Tokens
<1>5. /\ \A q \in Requests : q # r => requests'[q] = requests[q]
      /\ \/ Over(r)
         \/ /\ requests'[r].kind = requests[r].kind /\ requests'[r].stage = "ok"
            /\ requests'[r].arg = NextToken /\ requests'[r].token = requests[r].token
  BY <1>1, <1>4, RespondFacts
<1>6. Known' = Known \cup {NextToken}
  BY <1>3 DEF Known
<1>7. \A q \in Requests : requests'[q].token \in Known /\ requests'[q].token \in {0, requests[q].token}
  BY <1>5, IdleFacts DEF Over, TokenPart, TokenInv, Known
<1>8. \A q \in Requests : LoginOk(q)' =>
          \/ q # r /\ LoginOk(q) /\ requests'[q].arg = requests[q].arg
          \/ q = r /\ requests'[q].arg = NextToken
  BY <1>5, IdleFacts DEF LoginOk, Over
<1>9. ASSUME NEW q \in Requests, LoginOk(q)' PROVE Fresh(q)'
  <2>1. CASE q = r
    <3>1. requests'[q].arg = NextToken
      BY <1>8, <1>9, <2>1
    <3>2. \A o \in Requests : o # r /\ LoginOk(o)' => requests'[o].arg # NextToken
      BY <1>3, <1>8
    <3>3. \A o \in Requests : requests'[o].token # NextToken
      BY <1>3, <1>7
    <3> QED
      BY <1>1, <1>3, <2>1, <3>1, <3>2, <3>3 DEF Fresh
  <2>2. CASE q # r
    <3>1. LoginOk(q) /\ requests'[q].arg = requests[q].arg /\ Fresh(q)
      BY <1>8, <1>9, <2>2 DEF TokenPart, TokenInv
    <3>2. \A o \in Requests : o # q /\ LoginOk(o)' => requests'[o].arg # requests[q].arg
      BY <1>3, <1>8, <3>1 DEF Fresh
    <3>3. \A o \in Requests : requests'[o].token # requests[q].arg
      BY <1>7, <3>1, IssuedFacts DEF Fresh
    <3> QED
      BY <1>1, <1>3, <3>1, <3>2, <3>3 DEF Fresh
  <2> QED
    BY <2>1, <2>2
<1>10. TokenInv'
  <2>1. stored' # token' => stored' = 0 \/ \A q \in Requests : requests'[q].token # stored'
    BY <1>1, <1>7 DEF TokenPart, TokenInv
  <2>2. /\ token' \in Known' /\ stored' \in Known' /\ refused' \subseteq Issued'
        /\ place' # "login" => token' # 0
        /\ \A q \in Requests : requests'[q].token \in Known'
    BY <1>1, <1>3, <1>6, <1>7 DEF TokenPart, TokenInv
  <2> QED
    BY <1>9, <2>1, <2>2 DEF TokenInv
<1> QED
  BY <1>1, <1>10 DEF TokenPart, RefusedIsOver

LEMMA OtherTabTokens == ASSUME TypeOK, TokenPart, OtherTab PROVE TokenPart'
<1>0. token' = token /\ refused' = refused /\ place' = place /\ requests' = requests
  BY DEF OtherTab, page
<1>1. CASE stored' = 0 /\ UNCHANGED backend
  <2>1. userOf' = userOf /\ \A r \in Requests : SessionPart(r)
    BY <1>0, <1>1 DEF SessionPart, backend
  <2>2. 0 \in Known \ refused'
    BY <1>0, IssuedFacts DEF TokenPart, TokenInv, Known
  <2>3. \A r \in Requests : LoginOk(r) =>
            requests[r].arg \notin refused' /\ requests[r].arg # token' /\ requests[r].arg # stored'
    BY <1>0, <1>1, IssuedFacts DEF TokenPart, TokenInv, Fresh
  <2>4. token' \in Known \ refused' /\ refused' \subseteq Issued /\ (place' # "login" => token' # 0)
    BY <1>0 DEF TokenPart, TokenInv, RefusedIsOver
  <2> QED
    BY <1>1, <2>1, <2>2, <2>3, <2>4, KeepTokens
<1>2. CASE Issued # Tokens /\ stored' = NextToken /\ \E u \in Users : userOf' = [userOf EXCEPT ![NextToken] = u]
  <2>1. /\ NextToken \in Tokens \ Issued /\ Issued' = Issued \cup {NextToken}
        /\ token # NextToken /\ NextToken \notin refused /\ NextToken # 0
        /\ \A q \in Requests : /\ requests[q].token # NextToken
                               /\ LoginOk(q) => requests[q].arg # NextToken
    BY <1>2, IssueToken
  <2>2. Known' = Known \cup {NextToken}
    BY <2>1 DEF Known
  <2>3. \A q \in Requests : LoginOk(q)' => LoginOk(q) /\ Fresh(q)
    BY <1>0 DEF LoginOk, TokenPart, TokenInv
  <2>4. \A q \in Requests : LoginOk(q)' => Fresh(q)'
    BY <1>0, <1>2, <2>1, <2>3 DEF Fresh, LoginOk
  <2>5. TokenInv'
    BY <1>0, <1>2, <2>1, <2>2, <2>4 DEF TokenPart, TokenInv
  <2> QED
    BY <1>0, <1>2, <2>1, <2>5 DEF TokenPart, RefusedIsOver
<1> QED
  BY <1>1, <1>2 DEF OtherTab

\* Tokens stay apart, whatever happens in this tab and in the others.
LEMMA NextTokens ==
    ASSUME TypeOK, RequestsTyped, PageInv, TokenPart, [Next]_vars PROVE TokenPart'
<1>1. ASSUME NEW p \in Places, GoTo(p) PROVE TokenPart'
  BY <1>1, GoToTokens
<1>2. CASE Reload
  BY <1>2, ReloadTokens
<1>3. CASE Logout
  BY <1>3, EndTokens DEF Logout
<1>4. CASE OtherTab
  BY <1>4, OtherTabTokens
<1>5. ASSUME NEW r \in Requests, PlainAction(r) PROVE TokenPart'
  BY <1>5, PlainActions, PlainKeepsTokens
<1>6. ASSUME NEW r \in Requests, SignedIn(r) \/ SignInRefused(r) \/ TokenRefused(r) \/ AskDone(r) \/ ServeLogin(r)
      PROVE  TokenPart'
  BY <1>6, SignedInTokens, SignInRefusedTokens, TokenRefusedTokens, AskDoneTokens, ServeLoginTokens
<1>7. CASE PageAction \/ UNCHANGED vars
  BY <1>7, PageActions, PlainKeepsTokens
<1> QED
  BY <1>1, <1>2, <1>3, <1>4, <1>5, <1>6, <1>7 DEF Next, Serve, Answer, PlainAction, PageAction

-----------------------------------------------------------------------------
(* Types *)

RequestPart == requests' \in [Requests -> Request0] /\ RequestsTyped'
SessionTypes == /\ {token, stored} \subseteq 0..MaxLogins
                /\ userOf \in [Tokens -> Users \cup {NoUser}]
                /\ rows \subseteq Conversations /\ refused \subseteq Tokens

\* Wherever the router leads, what is under way and what is shown keep their types.
LEMMA RoutedTypes ==
    ASSUME TypeOK, RequestsTyped, SessionTypes', place' \in Places, returnUrl' \in Places \ {"login"},
           NEW reqs, reqs = requests \/ \E r \in Requests : reqs = Done(r),
           Stayed(reqs) \/ Rebuilt(reqs),
           place' # "login" => token' # 0
    PROVE  TypeOK' /\ RequestsTyped'
<1>0. requests \in [Requests -> Request0] /\ switched \in BOOLEAN
  BY DEF TypeOK
<1>1. CASE Stayed(reqs)
  <2>1. /\ requests' \in [Requests -> Request0]
        /\ \A r \in Requests : requests'[r] = Idle \/ requests'[r] = requests[r]
    BY <1>1, ReqsFacts DEF Stayed
  <2>2. RequestsTyped'
    BY <2>1, IdleFacts DEF RequestsTyped, Typed
  <2>3. switched' \in BOOLEAN
    BY <1>1 DEF Stayed
  <2> QED
    BY <1>1, <2>1, <2>2, <2>3 DEF Stayed, TypeOK, SessionTypes, spinners, history
<1>2. CASE Rebuilt(reqs)
  <2>1. ASSUME NEW r \in Requests PROVE Typed(requests'[r])
    <3>1. CASE Over(r)
      BY <3>1, IdleFacts DEF Over, Typed
    <3>2. CASE Detached(r)
      BY <3>2 DEF Detached, SameFields, RequestsTyped, Typed
    <3>3. CASE isLoading' /\ LoadBegun(r)
      BY <1>2, <3>3 DEF Rebuilt, LoadBegun, Typed
    <3> QED
      BY <1>2, <3>1, <3>2, <3>3 DEF Rebuilt
  <2>2. RequestsTyped'
    BY <2>1 DEF RequestsTyped
  <2>3. /\ submitting' \in BOOLEAN /\ isLoading' \in BOOLEAN /\ isDetailLoading' \in BOOLEAN
        /\ errorMessage' \in BOOLEAN /\ crossed' \in BOOLEAN /\ switched' \in BOOLEAN
    BY <1>2 DEF Rebuilt
  <2>4. /\ items' \subseteq Conversations \cup Entries /\ pendingDelete' \in Conversations \cup {0}
        /\ search' \subseteq Conversations /\ pageNo' \in Nat \ {0} /\ selectedEntry' \in Entries \cup {0}
        /\ requests' \in [Requests -> Request0]
    BY <1>2 DEF Rebuilt
  <2> QED
    BY <2>2, <2>3, <2>4 DEF TypeOK, SessionTypes
<1> QED
  BY <1>1, <1>2

LEMMA RoutedRoute ==
    ASSUME TypeOK, token' \in 0..MaxLogins, NEW p \in Places, NEW reqs,
           reqs = requests \/ \E r \in Requests : reqs = Done(r),
           Navigate(p, reqs)
    PROVE  /\ place' \in Places /\ returnUrl' \in Places \ {"login"}
           /\ place' = place => Stayed(reqs)
           /\ place' # place => Rebuilt(reqs)
<1> QED
  BY Routed

\* A session that ends leads to the login page.
LEMMA EndTypes ==
    ASSUME TypeOK, RequestsTyped, NEW reqs, reqs = requests \/ \E r \in Requests : reqs = Done(r),
           EndSession(reqs), refused' \subseteq Tokens
    PROVE  TypeOK' /\ RequestsTyped'
<1>1. /\ token' = 0 /\ stored' = 0 /\ userOf' = userOf /\ rows' = rows /\ Navigate("login", reqs)
      /\ "login" \in Places /\ 0 \in 0..MaxLogins
  BY PagesAssumption DEF EndSession, StoredAfterLogout, backend, Places
<1>2. /\ place' = "login" /\ returnUrl' \in Places \ {"login"}
      /\ Stayed(reqs) \/ Rebuilt(reqs)
  BY <1>1, Routed
<1>3. SessionTypes'
  BY <1>1 DEF SessionTypes, TypeOK
<1> QED
  BY <1>1, <1>2, <1>3, RoutedTypes

LEMMA RoutedStepTypes ==
    ASSUME TypeOK, RequestsTyped, TokenPart, TokenPart',
           (\E p \in Places : GoTo(p)) \/ Reload \/ Logout
    PROVE  TypeOK' /\ RequestsTyped'
<1>0. (place' # "login" => token' # 0) /\ "chat" \in Places /\ SessionTypes
  BY DEF TokenPart, TokenInv, Places, SessionTypes, TypeOK
<1>1. ASSUME NEW p \in Places, GoTo(p) PROVE TypeOK' /\ RequestsTyped'
  <2>1. SessionTypes' /\ Navigate(p, requests) /\ token' \in 0..MaxLogins
    BY <1>0, <1>1 DEF GoTo, SessionTypes, session, backend
  <2> QED
    BY <1>0, <2>1, RoutedRoute, RoutedTypes
<1>2. CASE Reload
  <2>1. SessionTypes'
    BY <1>0, <1>2, ReloadFacts DEF SessionTypes
  <2> QED
    BY <1>0, <1>2, <2>1, ReloadFacts, RoutedTypes
<1>3. CASE Logout
  BY <1>3, EndTypes DEF Logout, TypeOK
<1> QED
  BY <1>1, <1>2, <1>3

LEMMA RoutedAnswerTypes ==
    ASSUME TypeOK, RequestsTyped, TokenPart, TokenPart', NEW r \in Requests,
           \/ SignedIn(r)
           \/ AskDone(r) /\ Navigate("chat", Done(r))
           \/ TokenRefused(r) /\ token # 0
           \/ SignInRefused(r) /\ ~Heard(r) /\ token # 0
    PROVE  TypeOK' /\ RequestsTyped'
<1>0. (place' # "login" => token' # 0) /\ "chat" \in Places /\ SessionTypes
  BY DEF TokenPart, TokenInv, Places, SessionTypes, TypeOK
<1>1. CASE SignedIn(r)
  <2>1. PICK o \in Places : Navigate(o, Done(r))
    BY <1>1, SignedInFacts
  <2>2. SessionTypes' /\ token' \in 0..MaxLogins
    BY <1>0, <1>1, SignedInFacts DEF SessionTypes
  <2> QED
    BY <1>0, <2>1, <2>2, RoutedRoute, RoutedTypes
<1>2. CASE AskDone(r) /\ Navigate("chat", Done(r))
  <2>1. SessionTypes' /\ token' \in 0..MaxLogins
    BY <1>0, <1>2 DEF AskDone, SessionTypes, session, backend
  <2> QED
    BY <1>0, <1>2, <2>1, RoutedRoute, RoutedTypes
<1>3. CASE TokenRefused(r) /\ token # 0
  <2>1. EndSession(Done(r)) /\ refused' = refused \cup {requests[r].token} /\ requests[r].token # 0
    BY <1>3 DEF TokenRefused, Refused, RequestsTyped, Typed
  <2>2. refused' \subseteq Tokens
    BY <2>1, IssuedFacts DEF TokenPart, TokenInv, Known
  <2> QED
    BY <2>1, <2>2, EndTypes
<1>4. CASE SignInRefused(r) /\ ~Heard(r) /\ token # 0
  <2>1. EndSession(Done(r)) /\ refused' \subseteq Tokens
    BY <1>4 DEF SignInRefused, TypeOK
  <2> QED
    BY <2>1, EndTypes
<1> QED
  BY <1>1, <1>2, <1>3, <1>4

LEMMA BegunTypes ==
    ASSUME TypeOK, RequestsTyped, NEW r \in Requests, NEW arg \in Nat, NEW answer \in SUBSET Users,
           NEW kind \in PageKinds, SentAs(r, kind, arg, answer),
           kind = "detail" => arg \in Entries,
           kind = "load" => answer = {},
           kind # "login" => token # 0
    PROVE  RequestPart
<1>1. /\ requests' \in [Requests -> Request0]
      /\ \A q \in Requests : q # r => requests'[q] = requests[q]
      /\ requests'[r].kind = kind /\ requests'[r].stage = "sent" /\ requests'[r].arg = arg
      /\ requests'[r].token = token /\ requests'[r].heard = "page" /\ requests'[r].answer = answer
  BY SentFacts DEF PageKinds
<1>2. Typed(requests'[r])
  BY <1>1 DEF Typed
<1> QED
  BY <1>1, <1>2 DEF RequestPart, RequestsTyped

LEMMA DoneTypes ==
    ASSUME TypeOK, RequestsTyped, NEW r \in Requests, requests' = Done(r) \/ requests' = requests
    PROVE  RequestPart
<1>1. /\ requests' \in [Requests -> Request0]
      /\ \A q \in Requests : requests'[q] = Idle \/ requests'[q] = requests[q]
  BY EndedFacts DEF TypeOK
<1> QED
  BY <1>1, IdleFacts DEF RequestPart, RequestsTyped, Typed

LEMMA SentIs ==
    ASSUME NEW r, NEW kind, NEW arg, NEW u
    PROVE  /\ requests' = [requests EXCEPT ![r] = Request(kind, arg)] => SentAs(r, kind, arg, {})
           /\ requests' = [requests EXCEPT ![r] = [Request(kind, arg) EXCEPT !.answer = {u}]]
                  => SentAs(r, kind, arg, {u})
<1>1. Request(kind, arg) = [kind |-> kind, stage |-> "sent", arg |-> arg, token |-> token,
                            heard |-> "page", answer |-> {}]
  BY DEF Request
<1>2. [Request(kind, arg) EXCEPT !.answer = {u}] =
          [kind |-> kind, stage |-> "sent", arg |-> arg, token |-> token, heard |-> "page", answer |-> {u}]
  BY <1>1
<1> QED
  BY <1>1, <1>2 DEF SentAs

\* Requests that begin.
LEMMA BeginTypes ==
    ASSUME TypeOK, RequestsTyped, TokenPart, PageInv, NEW r \in Requests,
           \/ \E u \in Users : OnSignIn(r, u)
           \/ Ask(r) \/ Load(r) \/ Remove(r) \/ \E e \in Entries : OpenDetail(r, e)
    PROVE  TypeOK' /\ RequestsTyped'
<1>0. /\ place # "login" => token # 0
      /\ 0 \in Nat /\ pendingDelete \in Nat /\ \A e \in Entries : e \in Nat
  <2>1. pendingDelete \in Conversations \cup {0}
    BY DEF TypeOK
  <2> QED
    BY <2>1, PagesAssumption DEF TokenPart, TokenInv
<1>1. ASSUME NEW u \in Users, OnSignIn(r, u) PROVE TypeOK' /\ RequestsTyped'
  <2>1. SentAs(r, "login", 0, {u})
    BY <1>1, SentIs DEF OnSignIn
  <2>2. RequestPart
    BY <1>0, <2>1, BegunTypes DEF PageKinds
  <2> QED
    BY <1>1, <2>2 DEF RequestPart, OnSignIn, TypeOK, session, backend, history
<1>2. CASE Ask(r)
  <2>1. SentAs(r, "ask", 0, {}) /\ token # 0
    BY <1>0, <1>2, SentIs DEF Ask
  <2>2. RequestPart
    BY <1>0, <2>1, BegunTypes DEF PageKinds
  <2> QED
    BY <1>2, <2>2 DEF RequestPart, Ask, TypeOK, session, backend, page, history, spinners
<1>3. CASE Load(r)
  <2>1. SentAs(r, "load", 0, {}) /\ token # 0
    BY <1>0, <1>3, SentIs DEF Load
  <2>2. RequestPart
    BY <1>0, <2>1, BegunTypes DEF PageKinds
  <2>3. crossed' \in BOOLEAN
    BY <1>3 DEF Load, Carrying
  <2> QED
    BY <1>3, <2>2, <2>3 DEF RequestPart, Load, TypeOK, session, backend
<1>4. CASE Remove(r)
  <2>1. SentAs(r, "delete", pendingDelete, {}) /\ token # 0
    BY <1>0, <1>4, SentIs DEF Remove, PageInv
  <2>2. RequestPart
    BY <1>0, <1>4, <2>1, BegunTypes DEF PageKinds
  <2> QED
    BY <1>4, <2>2 DEF RequestPart, Remove, TypeOK, session, backend, spinners
<1>5. ASSUME NEW e \in Entries, OpenDetail(r, e) PROVE TypeOK' /\ RequestsTyped'
  <2>1. SentAs(r, "detail", e, {}) /\ token # 0
    BY <1>0, <1>5, SentIs DEF OpenDetail, ListShown
  <2>2. RequestPart
    BY <1>0, <2>1, BegunTypes DEF PageKinds
  <2> QED
    BY <1>5, <2>2 DEF RequestPart, OpenDetail, TypeOK, session, backend, history
<1> QED
  BY <1>1, <1>2, <1>3, <1>4, <1>5

\* Requests that end, or are answered by the backend.
LEMMA AnswerTypes ==
    ASSUME TypeOK, RequestsTyped, NEW r \in Requests,
           \/ SignInFailed(r) \/ Loaded(r) \/ LoadFailed(r) \/ Removed(r) \/ RemoveFailed(r)
           \/ DetailArrived(r) \/ DetailFailed(r) \/ AskFailed(r) \/ Unheard(r)
    PROVE  TypeOK' /\ RequestsTyped'
<1>0. requests' = Done(r)
  BY DEF SignInFailed, Loaded, LoadFailed, Removed, RemoveFailed, DetailArrived, DetailFailed,
         AskFailed, Unheard
<1>1. RequestPart
  BY <1>0, DoneTypes
<1>2. /\ Loaded(r) => requests[r].answer \subseteq Conversations \cup Entries
      /\ DetailArrived(r) => requests[r].arg \in Entries
  BY DEF Loaded, DetailArrived, Answered, Listening, RequestsTyped, Typed
<1>3. CASE Loaded(r)
  BY <1>1, <1>2, <1>3 DEF RequestPart, Loaded, TypeOK, session, backend
<1>4. CASE DetailArrived(r)
  BY <1>1, <1>2, <1>4 DEF RequestPart, DetailArrived, TypeOK, session, backend, history
<1>5. CASE SignInFailed(r)
  BY <1>1, <1>5 DEF RequestPart, SignInFailed, TypeOK, session, backend, history
<1>6. CASE LoadFailed(r)
  BY <1>1, <1>6 DEF RequestPart, LoadFailed, LoadingAfterFailure, TypeOK, session, backend, history
<1>7. CASE Removed(r)
  BY <1>1, <1>7 DEF RequestPart, Removed, WithoutRemoved, TypeOK, session, backend, spinners
<1>8. CASE RemoveFailed(r)
  BY <1>1, <1>8 DEF RequestPart, RemoveFailed, TypeOK, session, backend, history, spinners
<1>9. CASE DetailFailed(r)
  BY <1>1, <1>9 DEF RequestPart, DetailFailed, TypeOK, session, backend, history
<1>10. CASE AskFailed(r) \/ Unheard(r)
  BY <1>1, <1>10 DEF RequestPart, AskFailed, Unheard, TypeOK, session, backend, page, history, spinners
<1> QED
  BY <1>3, <1>4, <1>5, <1>6, <1>7, <1>8, <1>9, <1>10

LEMMA ServeTypes ==
    ASSUME TypeOK, RequestsTyped, NEW r \in Requests, ServeRead(r) \/ ServeDelete(r)
    PROVE  TypeOK' /\ RequestsTyped'
<1>1. requests[r].arg \in Nat
  BY DEF TypeOK, Request0
<1>2. PICK answer \in SUBSET (Conversations \cup Entries) : Respond(r, requests[r].arg, answer)
  <2>1. ListFor(r) \subseteq Conversations \cup Entries
    BY DEF ListFor, Owned, TypeOK
  <2> QED
    BY <2>1 DEF ServeRead, ServeDelete
<1>3. /\ requests' \in [Requests -> Request0]
      /\ \A q \in Requests : q # r => requests'[q] = requests[q]
      /\ \/ Over(r)
         \/ /\ requests'[r].kind = requests[r].kind /\ requests'[r].stage = "ok"
            /\ requests'[r].arg = requests[r].arg /\ requests'[r].answer = answer
            /\ requests'[r].token = requests[r].token
  BY <1>1, <1>2, RespondFacts
<1>4. requests[r].token # 0 /\ requests[r].kind # "login"
  BY DEF ServeRead, ServeDelete
<1>5. Typed(requests'[r])
  BY <1>3, <1>4, IdleFacts DEF Over, Typed, RequestsTyped
<1>6. RequestsTyped'
  BY <1>3, <1>5 DEF RequestsTyped
<1> QED
  BY <1>3, <1>6 DEF ServeRead, ServeDelete, TypeOK, session, backend, page, history, spinners

LEMMA ServeLoginTypes ==
    ASSUME TypeOK, RequestsTyped, TokenPart, NEW r \in Requests, ServeLogin(r)
    PROVE  TypeOK' /\ RequestsTyped'
<1>1. PICK u \in Users : userOf' = [userOf EXCEPT ![NextToken] = u]
  BY DEF ServeLogin, RequestsTyped, Typed
<1>2. NextToken \in Tokens /\ NextToken \in Nat
  <2>1. NextToken \in Tokens
    BY <1>1, IssueToken DEF ServeLogin
  <2> QED
    BY <2>1 DEF Tokens
<1>3. /\ requests' \in [Requests -> Request0]
      /\ \A q \in Requests : q # r => requests'[q] = requests[q]
      /\ Over(r) \/ (requests'[r].kind = "login" /\ requests'[r].stage = "ok")
  <2>1. Respond(r, NextToken, {}) /\ {} \in SUBSET (Users \cup Conversations \cup Entries)
    BY DEF ServeLogin
  <2> QED
    BY <1>2, <2>1, RespondFacts DEF ServeLogin
<1>4. RequestsTyped'
  BY <1>3, IdleFacts DEF RequestsTyped, Typed, Over
<1>5. userOf' \in [Tokens -> Users \cup {NoUser}]
  BY <1>1 DEF TypeOK
<1> QED
  BY <1>3, <1>4, <1>5 DEF ServeLogin, TypeOK, session, page, history, spinners

LEMMA OtherTabTypes ==
    ASSUME TypeOK, RequestsTyped, TokenPart, OtherTab PROVE TypeOK' /\ RequestsTyped'
<1>1. requests' = requests /\ token' = token /\ rows' = rows /\ refused' = refused /\ UNCHANGED page
  BY DEF OtherTab, backend
<1>2. RequestsTyped'
  BY <1>1 DEF RequestsTyped
<1>3. stored' \in 0..MaxLogins /\ userOf' \in [Tokens -> Users \cup {NoUser}]
  <2>1. CASE stored' = 0 /\ UNCHANGED backend
    BY <2>1, PagesAssumption DEF backend, TypeOK
  <2>2. ASSUME NEW u \in Users, Issued # Tokens, stored' = NextToken, userOf' = [userOf EXCEPT ![NextToken] = u]
        PROVE  stored' \in 0..MaxLogins /\ userOf' \in [Tokens -> Users \cup {NoUser}]
    <3>1. NextToken \in Tokens
      BY <2>2, IssueToken
    <3>2. NextToken \in 0..MaxLogins
      BY <3>1, PagesAssumption DEF Tokens
    <3> QED
      BY <2>2, <3>2 DEF TypeOK
  <2> QED
    BY <2>1, <2>2 DEF OtherTab
<1> QED
  BY <1>1, <1>2, <1>3 DEF TypeOK, page, history, spinners

LEMMA PageTypes ==
    ASSUME TypeOK, RequestsTyped, PageAction \/ UNCHANGED vars PROVE TypeOK' /\ RequestsTyped'
<1>1. requests' = requests /\ RequestsTyped'
  <2>1. requests' = requests
    BY PageActions
  <2> QED
    BY <2>1 DEF RequestsTyped
<1>2. ASSUME NEW s \in {Conversations, Matching}, Filter(s) PROVE TypeOK'
  BY <1>2, PagesAssumption DEF Filter, TypeOK, session, backend, spinners
<1>3. ASSUME NEW n \in 1..Cardinality(Conversations), GoToPage(n) PROVE TypeOK'
  <2>1. n \in Nat \ {0}
    BY PagesAssumption, FS_CardinalityType
  <2> QED
    BY <1>3, <2>1 DEF GoToPage, TypeOK, session, backend, spinners
<1>4. ASSUME NEW c \in Conversations, ConfirmRemove(c) PROVE TypeOK'
  BY <1>4 DEF ConfirmRemove, TypeOK, session, backend, spinners
<1>5. CASE CancelRemove
  BY <1>1, <1>5 DEF CancelRemove, TypeOK, session, backend, spinners
<1>6. CASE CloseDetail
  BY <1>1, <1>6 DEF CloseDetail, TypeOK, session, backend, spinners, history
<1>7. CASE UNCHANGED vars
  BY <1>1, <1>7 DEF vars, TypeOK, session, backend, page, spinners, history
<1> QED
  BY <1>1, <1>2, <1>3, <1>4, <1>5, <1>6, <1>7 DEF PageAction

\* The answers that end without leaving the page, or without anybody to take them.
LEMMA QuietTypes ==
    ASSUME TypeOK, RequestsTyped, TokenPart, NEW r \in Requests,
           \/ AskDone(r) /\ ~Navigate("chat", Done(r))
           \/ TokenRefused(r) /\ token = 0
           \/ SignInRefused(r) /\ (Heard(r) \/ token = 0)
    PROVE  TypeOK' /\ RequestsTyped'
<1>1. RequestPart
  <2>1. requests' = Done(r)
    BY DEF AskDone, TokenRefused, SignInRefused
  <2> QED
    BY <2>1, DoneTypes
<1>2. CASE AskDone(r) /\ ~Navigate("chat", Done(r))
  BY <1>1, <1>2 DEF RequestPart, AskDone, TypeOK, session, backend, page, history, spinners
<1>3. CASE TokenRefused(r) /\ token = 0
  <2>1. /\ refused' = refused \cup {requests[r].token} /\ requests[r].token # 0
        /\ UNCHANGED <<session, backend, page>>
    BY <1>3 DEF TokenRefused, Refused, RequestsTyped, Typed
  <2>2. refused' \subseteq Tokens
    BY <2>1, IssuedFacts DEF TokenPart, TokenInv, Known
  <2> QED
    BY <1>1, <2>1, <2>2 DEF RequestPart, TypeOK, session, backend, page, history, spinners
<1>4. CASE SignInRefused(r) /\ Heard(r)
  <2>1. /\ token' \in 0..MaxLogins /\ stored' \in 0..MaxLogins
        /\ returnUrl' \in Places /\ returnUrl' # "login"
        /\ submitting' = FALSE /\ errorMessage' = TRUE
        /\ UNCHANGED <<backend, refused, place, isLoading, isDetailLoading, history, selectedEntry, switched>>
    BY <1>4, PagesAssumption DEF SignInRefused, StoredAfterLogout, Places, TypeOK
  <2> QED
    BY <1>1, <2>1 DEF RequestPart, TypeOK, backend, history
<1>5. CASE SignInRefused(r) /\ ~Heard(r) /\ token = 0
  BY <1>1, <1>5 DEF RequestPart, SignInRefused, TypeOK, session, backend, page, history, spinners
<1> QED
  BY <1>2, <1>3, <1>4, <1>5

LEMMA NextTypes ==
    ASSUME TypeOK, RequestsTyped, TokenPart, PageInv, TokenPart', [Next]_vars
    PROVE  TypeOK' /\ RequestsTyped'
<1>1. CASE (\E p \in Places : GoTo(p)) \/ Reload \/ Logout
  BY <1>1, RoutedStepTypes
<1>2. CASE OtherTab
  BY <1>2, OtherTabTypes
<1>3. ASSUME NEW r \in Requests,
             SignedIn(r) \/ AskDone(r) \/ TokenRefused(r) \/ SignInRefused(r)
      PROVE  TypeOK' /\ RequestsTyped'
  BY <1>3, RoutedAnswerTypes, QuietTypes
<1>4. ASSUME NEW r \in Requests, PlainAction(r) PROVE TypeOK' /\ RequestsTyped'
  BY <1>4, BeginTypes, AnswerTypes, ServeTypes DEF PlainAction
<1>5. ASSUME NEW r \in Requests, ServeLogin(r) PROVE TypeOK' /\ RequestsTyped'
  BY <1>5, ServeLoginTypes
<1>6. CASE PageAction \/ UNCHANGED vars
  BY <1>6, PageTypes
<1> QED
  BY <1>1, <1>2, <1>3, <1>4, <1>5, <1>6 DEF Next, Serve, Answer, PlainAction, PageAction

-----------------------------------------------------------------------------
(* Pages and their requests *)

PagePart == PageInv /\ OneLoad /\ OnlyOwnData /\ SpinnerHasRequest

\* A page that is built hears of its own load alone.
LEMMA RebuiltPage ==
    ASSUME NEW reqs, Rebuilt(reqs), place' # "login" => token' # 0,
           place' = "audit" => currentUser' \in Admins
    PROVE  PagePart'
<1>1. ASSUME NEW r \in Requests, requests'[r].heard = "page" PROVE isLoading' /\ LoadBegun(r)
  BY <1>1, IdleFacts DEF Rebuilt, Over, Detached
<1>2. ASSUME NEW r \in Requests PROVE HeardBy(requests[r])'
  BY <1>1 DEF HeardBy, LoadBegun, Rebuilt
<1>3. PageInv'
  BY <1>2 DEF PageInv, Rebuilt
<1>4. OneLoad'
  BY <1>1 DEF OneLoad, OfPage, UnderWay, Rebuilt
<1>5. OnlyOwnData'
  BY DEF OnlyOwnData, Rebuilt
<1>6. SpinnerHasRequest'
  <2>1. isLoading' => OfPage("load")' # {}
    BY DEF Rebuilt, OfPage, UnderWay, LoadBegun
  <2> QED
    BY <2>1 DEF SpinnerHasRequest, Rebuilt
<1> QED
  BY <1>3, <1>4, <1>5, <1>6 DEF PagePart

\* The page stays, with its user or with the mark that the user changed.
Settled ==
    /\ place' = place
    /\ switched' \/ place = "login" \/ (token' = token /\ ~switched)
    /\ \A t \in Issued : userOf'[t] = userOf[t]

LEMMA HeardKept ==
    ASSUME TypeOK, RequestsTyped, TokenPart, Settled, NEW r \in Requests,
           HeardBy(requests[r]), requests'[r] = requests[r],
           r \in OfPage("load") => isLoading'
    PROVE  HeardBy(requests[r])'
<1>1. requests[r].kind = "load" /\ requests[r].stage = "ok" =>
          userOf'[requests[r].token] = userOf[requests[r].token]
  BY DEF RequestsTyped, Typed, TokenPart, TokenInv, Known, Settled
<1> QED
  BY <1>1 DEF HeardBy, Settled, OfPage, UnderWay

\* A page that stays is right if its request r is, and the spinners follow it.
LEMMA KeepPage ==
    ASSUME TypeOK, RequestsTyped, TokenPart, PagePart, Settled, place' # "login" => token' # 0,
           NEW r,
           \A q \in Requests : q # r => requests'[q] = requests[q],
           r \in Requests => HeardBy(requests[r])' \/ requests'[r] = requests[r],
           pendingDelete' # 0 => place = "history",
           place = "history" /\ ~switched' => \A c \in items' : c \in items \/ Owner[c] = currentUser,
           \/ isLoading' = isLoading /\ (r \in OfPage("load")' <=> r \in OfPage("load"))
           \/ isLoading' = FALSE /\ r \in OfPage("load") /\ r \notin OfPage("load")'
           \/ ~isLoading /\ isLoading' = TRUE /\ r \in OfPage("load")',
           isDetailLoading' => r \in OfPage("detail")' \/ (isDetailLoading /\ r \notin OfPage("detail")),
           submitting' => r \in OfPage("login")' \/ (submitting /\ r \notin OfPage("login"))
    PROVE  PagePart'
<1>1. \A k, q : q # r => (q \in OfPage(k)' <=> q \in OfPage(k))
  BY DEF OfPage, UnderWay
<1>2. \A q \in OfPage("load") : isLoading /\ \A o \in OfPage("load") : o = q
  BY DEF PagePart, PageInv, HeardBy, OneLoad, OfPage, UnderWay
<1>3. ASSUME NEW q \in Requests PROVE HeardBy(requests[q])'
  <2>1. CASE requests'[q] = requests[q]
    <3>1. q \in OfPage("load") => isLoading'
      <4>1. q \in OfPage("load")' <=> q \in OfPage("load")
        BY <2>1 DEF OfPage, UnderWay
      <4> QED
        BY <1>2, <4>1
    <3> QED
      BY <2>1, <3>1, HeardKept DEF PagePart, PageInv
  <2> QED
    BY <2>1
<1>4. PageInv'
  BY <1>3 DEF PageInv, Settled
<1>5. OneLoad'
  BY <1>1, <1>2 DEF OneLoad
<1>6. OnlyOwnData'
  <2>1. ASSUME ~switched', place # "login" PROVE ~switched /\ currentUser' = currentUser
    BY <2>1 DEF Settled, currentUser, TokenPart, TokenInv, Known
  <2> QED
    BY <2>1 DEF OnlyOwnData, PagePart, Settled
<1>7. SpinnerHasRequest'
  <2>1. isLoading' => OfPage("load")' # {}
    <3>1. CASE isLoading' = isLoading /\ (r \in OfPage("load")' <=> r \in OfPage("load"))
      BY <1>1, <3>1 DEF PagePart, SpinnerHasRequest
    <3> QED
      BY <3>1
  <2>2. isDetailLoading' => OfPage("detail")' # {}
    BY <1>1 DEF PagePart, SpinnerHasRequest
  <2>3. submitting' => OfPage("login")' # {}
    BY <1>1 DEF PagePart, SpinnerHasRequest
  <2> QED
    BY <2>1, <2>2, <2>3 DEF SpinnerHasRequest
<1> QED
  BY <1>4, <1>5, <1>6, <1>7 DEF PagePart

\* Navigation to the page that is shown, while r ends that no spinner waits for.
LEMMA StayedPage ==
    ASSUME TypeOK, RequestsTyped, TokenPart, PagePart, userOf' = userOf, place' # "login" => token' # 0,
           NEW r, NEW reqs, Stayed(reqs),
           \/ reqs = requests
           \/ /\ r \in Requests /\ reqs = Done(r)
              /\ requests[r].heard # "page" \/ requests[r].kind = "ask"
    PROVE  PagePart'
<1>1. /\ place' = place /\ switched' = (switched \/ token' # token)
      /\ isLoading' = isLoading /\ isDetailLoading' = isDetailLoading /\ submitting' = submitting
      /\ pendingDelete' = pendingDelete /\ items' = items /\ requests' = reqs
  BY DEF Stayed, spinners, history
<1>2. Settled
  BY <1>1 DEF Settled
<1>3. CASE reqs = requests
  <2>1. \A k : OfPage(k)' = OfPage(k)
    BY <1>1, <1>3 DEF OfPage, UnderWay
  <2>2. r \in Requests => requests'[r] = requests[r]
    BY <1>1, <1>3
  <2> QED
    BY <1>1, <1>2, <1>3, <2>1, <2>2, KeepPage DEF PagePart, PageInv, SpinnerHasRequest
<1>4. CASE /\ r \in Requests /\ reqs = Done(r)
           /\ requests[r].heard # "page" \/ requests[r].kind = "ask"
  <2>1. requests'[r] = Idle /\ \A q \in Requests : q # r => requests'[q] = requests[q]
    BY <1>1, <1>4, EndedFacts DEF TypeOK
  <2>2. HeardBy(requests[r])'
    BY <2>1, IdleFacts DEF HeardBy
  <2>3. \A k \in {"load", "detail", "login"} : r \notin OfPage(k)' /\ r \notin OfPage(k)
    BY <1>4, <2>1, IdleFacts DEF OfPage, UnderWay
  <2> QED
    BY <1>1, <1>2, <1>4, <2>1, <2>2, <2>3, KeepPage DEF PagePart, PageInv
<1> QED
  BY <1>3, <1>4

LEMMA AdminFacts ==
    ASSUME NEW p \in Places, NEW outside \in BOOLEAN, Guarded(p, outside) = "audit"
    PROVE  currentUser' \in Admins
<1> QED
  BY DEF Guarded

\* A navigation, with the request that ends in it.
LEMMA RoutedPage ==
    ASSUME TypeOK, RequestsTyped, TokenPart, PagePart, userOf' = userOf, token' \in 0..MaxLogins,
           place' # "login" => token' # 0,
           NEW p \in Places, NEW reqs, NEW r, Navigate(p, reqs),
           \/ reqs = requests
           \/ /\ r \in Requests /\ reqs = Done(r)
              /\ place' = place => requests[r].heard # "page" \/ requests[r].kind = "ask"
    PROVE  PagePart'
<1>1. /\ place' = Guarded(p, place = "login")
      /\ place' = place => Stayed(reqs)
      /\ place' # place => Rebuilt(reqs)
  BY Routed
<1>2. place' = "audit" => currentUser' \in Admins
  BY <1>1, AdminFacts
<1>3. CASE place' = place
  BY <1>1, <1>3, StayedPage
<1>4. CASE place' # place
  BY <1>1, <1>2, <1>4, RebuiltPage
<1> QED
  BY <1>3, <1>4

LEMMA RoutedStepPage ==
    ASSUME TypeOK, RequestsTyped, TokenPart, PagePart, TokenPart',
           (\E p \in Places : GoTo(p)) \/ Reload \/ Logout
    PROVE  PagePart'
<1>0. (place' # "login" => token' # 0) /\ token \in 0..MaxLogins /\ "login" \in Places /\ 0 \in 0..MaxLogins
  BY PagesAssumption DEF TokenPart, TokenInv, Places, TypeOK
<1>1. ASSUME NEW p \in Places, GoTo(p) PROVE PagePart'
  <2>1. Navigate(p, requests) /\ token' \in 0..MaxLogins /\ userOf' = userOf
    BY <1>0, <1>1 DEF GoTo, session, backend
  <2> QED
    BY <1>0, <2>1, RoutedPage
<1>2. CASE Reload
  <2>1. place' = Guarded(place, TRUE) /\ Rebuilt(requests) /\ place \in Places
    BY <1>2, ReloadFacts DEF TypeOK
  <2>2. place' = "audit" => currentUser' \in Admins
    BY <2>1, AdminFacts
  <2> QED
    BY <1>0, <2>1, <2>2, RebuiltPage
<1>3. CASE Logout
  <2>1. Navigate("login", requests) /\ token' = 0 /\ userOf' = userOf
    BY <1>3 DEF Logout, EndSession, backend
  <2> QED
    BY <1>0, <2>1, RoutedPage
<1> QED
  BY <1>1, <1>2, <1>3

\* The answers that navigate, none of which a spinner of the page that stays waits for.
NavigatingAnswer(r) ==
    \/ SignedIn(r)
    \/ AskDone(r) /\ Navigate("chat", Done(r))
    \/ TokenRefused(r) /\ token # 0
    \/ SignInRefused(r) /\ ~Heard(r) /\ token # 0

LEMMA AnswerRoutes ==
    ASSUME TypeOK, TokenPart, PagePart, TokenPart', NEW r \in Requests, NavigatingAnswer(r)
    PROVE  /\ userOf' = userOf /\ rows' = rows /\ token' \in 0..MaxLogins
           /\ \E p \in Places : Navigate(p, Done(r))
           /\ place' = place => requests[r].heard # "page" \/ requests[r].kind = "ask"
<1>0. /\ place' # "login" => token' # 0
      /\ token \in 0..MaxLogins /\ "login" \in Places /\ "chat" \in Places /\ 0 \in 0..MaxLogins
      /\ HeardBy(requests[r])
  BY PagesAssumption DEF TokenPart, TokenInv, Places, TypeOK, PagePart, PageInv
<1>1. CASE SignedIn(r)
  <2>1. /\ LoginOk(r) /\ userOf' = userOf /\ rows' = rows /\ token' # 0 /\ token' \in 0..MaxLogins
        /\ \E p \in Places \ {"login"} : Navigate(p, Done(r))
        /\ Heard(r) => Navigate(returnUrl, Done(r))
    BY <1>1, SignedInFacts
  <2>2. ASSUME requests[r].heard = "page" PROVE place' # place
    <3>1. place = "login" /\ returnUrl \in Places \ {"login"} /\ Navigate(returnUrl, Done(r))
      BY <1>0, <2>1, <2>2 DEF HeardBy, Heard, LoginOk, TypeOK
    <3>2. place' = Guarded(returnUrl, place = "login")
      BY <2>1, <3>1, Routed
    <3> QED
      BY <2>1, <3>1, <3>2 DEF Guarded
  <2> QED
    BY <2>1, <2>2
<1>2. CASE AskDone(r) /\ Navigate("chat", Done(r))
  <2>1. requests[r].kind = "ask" /\ userOf' = userOf /\ rows' = rows /\ token' = token
    BY <1>2 DEF AskDone, Answered, Listening, session, backend
  <2> QED
    BY <1>0, <1>2, <2>1
<1>3. CASE TokenRefused(r) /\ token # 0
  <2>1. /\ requests[r].kind # "login" /\ Navigate("login", Done(r))
        /\ token' = 0 /\ userOf' = userOf /\ rows' = rows
    BY <1>3 DEF TokenRefused, EndSession, backend
  <2>2. place' = "login"
    BY <1>0, <2>1
  <2>3. place' = place => requests[r].heard # "page"
    BY <1>0, <2>1, <2>2 DEF HeardBy, TypeOK, Request0
  <2> QED
    BY <1>0, <2>1, <2>3
<1>4. CASE SignInRefused(r) /\ ~Heard(r) /\ token # 0
  <2>1. /\ requests[r].heard # "page" /\ Navigate("login", Done(r))
        /\ token' = 0 /\ userOf' = userOf /\ rows' = rows
    BY <1>4 DEF SignInRefused, EndSession, Heard, backend
  <2> QED
    BY <1>0, <2>1
<1> QED
  BY <1>1, <1>2, <1>3, <1>4 DEF NavigatingAnswer

LEMMA RoutedAnswerPage ==
    ASSUME TypeOK, RequestsTyped, TokenPart, PagePart, TokenPart', NEW r \in Requests, NavigatingAnswer(r)
    PROVE  PagePart'
<1>1. /\ userOf' = userOf /\ token' \in 0..MaxLogins
      /\ place' = place => requests[r].heard # "page" \/ requests[r].kind = "ask"
  BY AnswerRoutes
<1>2. PICK p \in Places : Navigate(p, Done(r))
  BY AnswerRoutes
<1>3. place' # "login" => token' # 0
  BY DEF TokenPart, TokenInv
<1> QED
  BY <1>1, <1>2, <1>3, RoutedPage

\* The steps that leave the page as it is, or change what only a reader sees.
Undisturbed ==
    /\ isLoading' = isLoading /\ isDetailLoading' = isDetailLoading /\ submitting' = submitting
    /\ pendingDelete' # 0 => place = "history"
    /\ place = "history" => items' \subseteq items

LEMMA EndedPage ==
    ASSUME TypeOK, RequestsTyped, TokenPart, PagePart, Settled, place' # "login" => token' # 0,
           Undisturbed, NEW r,
           \/ requests' = requests
           \/ /\ r \in Requests /\ requests' = Done(r)
              /\ requests[r].heard # "page" \/ requests[r].kind \in {"ask", "delete"}
    PROVE  PagePart'
<1>1. CASE requests' = requests
  <2>1. \A k : OfPage(k)' = OfPage(k)
    BY <1>1 DEF OfPage, UnderWay
  <2>2. r \in Requests => requests'[r] = requests[r]
    BY <1>1
  <2>3. isLoading' = isLoading /\ (r \in OfPage("load")' <=> r \in OfPage("load"))
    BY <2>1 DEF Undisturbed
  <2>4. /\ isDetailLoading' => r \in OfPage("detail")' \/ (isDetailLoading /\ r \notin OfPage("detail"))
        /\ submitting' => r \in OfPage("login")' \/ (submitting /\ r \notin OfPage("login"))
    BY <2>1 DEF Undisturbed
  <2> QED
    BY <1>1, <2>2, <2>3, <2>4, KeepPage DEF Undisturbed
<1>2. CASE /\ r \in Requests /\ requests' = Done(r)
           /\ requests[r].heard # "page" \/ requests[r].kind \in {"ask", "delete"}
  <2>1. requests'[r] = Idle /\ \A q \in Requests : q # r => requests'[q] = requests[q]
    BY <1>2, EndedFacts DEF TypeOK
  <2>2. HeardBy(requests[r])'
    BY <2>1, IdleFacts DEF HeardBy
  <2>3. \A k \in {"load", "detail", "login"} : r \notin OfPage(k)' /\ r \notin OfPage(k)
    BY <1>2, <2>1, IdleFacts DEF OfPage, UnderWay
  <2> QED
    BY <1>2, <2>1, <2>2, <2>3, KeepPage DEF Undisturbed
<1> QED
  BY <1>1, <1>2

LEMMA QuietPage ==
    ASSUME TypeOK, RequestsTyped, TokenPart, PagePart, TokenPart', NEW r \in Requests,
           \/ AskDone(r) /\ ~Navigate("chat", Done(r))
           \/ TokenRefused(r) /\ token = 0
           \/ SignInRefused(r) /\ (Heard(r) \/ token = 0)
    PROVE  PagePart'
<1>0. /\ place' # "login" => token' # 0
      /\ place # "login" => token # 0
      /\ HeardBy(requests[r]) /\ switched \in BOOLEAN
  BY DEF TokenPart, TokenInv, TypeOK, PagePart, PageInv
<1>1. CASE AskDone(r) /\ ~Navigate("chat", Done(r))
  <2>1. Settled /\ Undisturbed /\ requests' = Done(r) /\ requests[r].kind = "ask"
    BY <1>0, <1>1 DEF AskDone, Answered, Listening, Settled, Undisturbed, PagePart, PageInv,
                      session, backend, page, history, spinners
  <2> QED
    BY <1>0, <2>1, EndedPage
<1>2. CASE TokenRefused(r) /\ token = 0
  <2>1. Settled /\ Undisturbed /\ requests' = Done(r) /\ requests[r].kind # "login"
    BY <1>0, <1>2 DEF TokenRefused, Settled, Undisturbed, PagePart, PageInv,
                      session, backend, page, history, spinners
  <2>2. requests[r].heard # "page"
    BY <1>0, <1>2, <2>1 DEF HeardBy, TypeOK, Request0
  <2> QED
    BY <1>0, <2>1, <2>2, EndedPage
<1>3. CASE SignInRefused(r) /\ Heard(r)
  <2>1. /\ requests' = Done(r) /\ requests[r].kind = "login" /\ submitting' = FALSE
        /\ UNCHANGED <<backend, place, isLoading, isDetailLoading, history, selectedEntry, switched>>
    BY <1>3 DEF SignInRefused
  <2>2. place = "login"
    BY <1>0, <1>3, <2>1 DEF HeardBy, Heard
  <2>3. Settled
    BY <2>1, <2>2 DEF Settled, backend
  <2>4. requests'[r] = Idle /\ \A q \in Requests : q # r => requests'[q] = requests[q]
    BY <2>1, EndedFacts DEF TypeOK
  <2>5. HeardBy(requests[r])'
    BY <2>4, IdleFacts DEF HeardBy
  <2>6. \A k \in {"load", "detail"} : r \notin OfPage(k)' /\ r \notin OfPage(k)
    BY <2>1, <2>4, IdleFacts DEF OfPage, UnderWay
  <2>7. pendingDelete' = pendingDelete /\ items' = items
    BY <2>1 DEF history
  <2> QED
    BY <1>0, <2>1, <2>2, <2>3, <2>4, <2>5, <2>6, <2>7, KeepPage DEF PagePart, PageInv
<1>4. CASE SignInRefused(r) /\ ~Heard(r) /\ token = 0
  <2>1. Settled /\ Undisturbed /\ requests' = Done(r) /\ requests[r].heard # "page"
    BY <1>0, <1>4 DEF SignInRefused, Heard, Settled, Undisturbed, PagePart, PageInv,
                      session, backend, page, history, spinners
  <2> QED
    BY <1>0, <2>1, EndedPage
<1> QED
  BY <1>1, <1>2, <1>3, <1>4

\* A request that begins turns its spinner.
LEMMA BegunPage ==
    ASSUME TypeOK, RequestsTyped, TokenPart, PagePart, TokenPart', Settled,
           token' = token, userOf' = userOf,
           NEW r \in Requests, MaySend(r), NEW kind \in PageKinds,
           NEW arg \in Nat, NEW answer \in SUBSET Users, SentAs(r, kind, arg, answer),
           kind = "login" => place = "login",
           kind = "ask" => place = "chat",
           kind = "delete" => place = "history",
           kind = "load" => place \in {"history", "audit"} /\ ~isLoading,
           kind = "detail" => place = "audit",
           isLoading' = IF kind = "load" THEN TRUE ELSE isLoading,
           isDetailLoading' = IF kind = "detail" THEN TRUE ELSE isDetailLoading,
           submitting' = IF kind = "login" THEN TRUE ELSE submitting,
           pendingDelete' \in {0, pendingDelete}, items' = items
    PROVE  PagePart'
<1>1. /\ \A q \in Requests : q # r => requests'[q] = requests[q]
      /\ requests'[r].kind = kind /\ requests'[r].stage = "sent"
      /\ requests'[r].token = token /\ requests'[r].heard = "page"
  BY SentFacts DEF PageKinds
<1>2. HeardBy(requests[r])'
  BY <1>1 DEF HeardBy, Settled, PageKinds
<1>3. \A k \in PageKinds : (r \in OfPage(k)' <=> k = kind) /\ r \notin OfPage(k)
  BY <1>1 DEF OfPage, UnderWay, MaySend, PageKinds
<1>4. /\ place' # "login" => token' # 0
      /\ pendingDelete' # 0 => place = "history"
  BY DEF TokenPart, TokenInv, PagePart, PageInv
<1>5. {"load", "detail", "login"} \subseteq PageKinds
  BY DEF PageKinds
<1>6. /\ \/ isLoading' = isLoading /\ (r \in OfPage("load")' <=> r \in OfPage("load"))
         \/ ~isLoading /\ isLoading' = TRUE /\ r \in OfPage("load")'
      /\ isDetailLoading' => r \in OfPage("detail")' \/ (isDetailLoading /\ r \notin OfPage("detail"))
      /\ submitting' => r \in OfPage("login")' \/ (submitting /\ r \notin OfPage("login"))
  BY <1>3, <1>5
<1> QED
  BY <1>1, <1>2, <1>4, <1>6, KeepPage

LEMMA BeginPage ==
    ASSUME TypeOK, RequestsTyped, TokenPart, PagePart, TokenPart', NEW r \in Requests,
           \/ \E u \in Users : OnSignIn(r, u)
           \/ Ask(r) \/ Load(r) \/ Remove(r) \/ \E e \in Entries : OpenDetail(r, e)
    PROVE  PagePart'
<1>0. /\ switched \in BOOLEAN
      /\ 0 \in Nat /\ pendingDelete \in Nat /\ \A e \in Entries : e \in Nat
      /\ pendingDelete # 0 => place = "history"
  <2>1. pendingDelete \in Conversations \cup {0}
    BY DEF TypeOK
  <2> QED
    BY <2>1, PagesAssumption DEF TypeOK, PagePart, PageInv
<1>1. ASSUME NEW u \in Users, OnSignIn(r, u) PROVE PagePart'
  <2>1. SentAs(r, "login", 0, {u}) /\ MaySend(r) /\ place = "login" /\ submitting' = TRUE
    BY <1>1, SentIs DEF OnSignIn
  <2>2. /\ Settled /\ token' = token /\ userOf' = userOf
        /\ isLoading' = isLoading /\ isDetailLoading' = isDetailLoading
        /\ pendingDelete' = pendingDelete /\ items' = items
    BY <1>0, <1>1 DEF OnSignIn, Settled, session, backend, history
  <2> QED
    BY <1>0, <2>1, <2>2, BegunPage DEF PageKinds
<1>2. CASE Ask(r)
  <2>1. SentAs(r, "ask", 0, {}) /\ MaySend(r) /\ place = "chat"
    BY <1>2, SentIs DEF Ask
  <2>2. /\ Settled /\ token' = token /\ userOf' = userOf
        /\ isLoading' = isLoading /\ isDetailLoading' = isDetailLoading /\ submitting' = submitting
        /\ pendingDelete' = pendingDelete /\ items' = items
    BY <1>0, <1>2 DEF Ask, Settled, session, backend, page, history, spinners
  <2>3. "ask" \in PageKinds /\ {} \in SUBSET Users /\ 0 \in Nat
    BY <1>0 DEF PageKinds
  <2> QED
    BY <2>1, <2>2, <2>3, BegunPage
<1>3. CASE Load(r)
  <2>1. SentAs(r, "load", 0, {}) /\ MaySend(r) /\ place \in {"history", "audit"} /\ ~isLoading /\ isLoading' = TRUE
    BY <1>3, SentIs DEF Load
  <2>2. /\ Settled /\ token' = token /\ userOf' = userOf
        /\ isDetailLoading' = isDetailLoading /\ submitting' = submitting
        /\ pendingDelete' = pendingDelete /\ items' = items
    BY <1>0, <1>3 DEF Load, Settled, session, backend
  <2>3. "load" \in PageKinds /\ {} \in SUBSET Users /\ 0 \in Nat
    BY <1>0 DEF PageKinds
  <2> QED
    BY <2>1, <2>2, <2>3, BegunPage
<1>4. CASE Remove(r)
  <2>1. SentAs(r, "delete", pendingDelete, {}) /\ MaySend(r) /\ place = "history" /\ pendingDelete' = 0
    BY <1>0, <1>4, SentIs DEF Remove
  <2>2. /\ Settled /\ token' = token /\ userOf' = userOf
        /\ isLoading' = isLoading /\ isDetailLoading' = isDetailLoading /\ submitting' = submitting
        /\ items' = items
    BY <1>0, <1>4 DEF Remove, Settled, session, backend, spinners
  <2> DEFINE removed == pendingDelete
             kind == "delete"
  <2>3. removed \in Nat /\ SentAs(r, kind, removed, {}) /\ MaySend(r) /\ place = "history"
    BY <1>0, <2>1
  <2>4. /\ kind \in PageKinds /\ {} \in SUBSET Users /\ pendingDelete' \in {0, pendingDelete}
        /\ kind \notin {"login", "ask", "load", "detail"}
    BY <2>1 DEF PageKinds
  <2> HIDE DEF removed, kind
  <2> QED
    BY <2>2, <2>3, <2>4, BegunPage
<1>5. ASSUME NEW e \in Entries, OpenDetail(r, e) PROVE PagePart'
  <2>1. SentAs(r, "detail", e, {}) /\ MaySend(r) /\ place = "audit" /\ isDetailLoading' = TRUE
    BY <1>0, <1>5, SentIs DEF OpenDetail, ListShown
  <2>2. /\ Settled /\ token' = token /\ userOf' = userOf
        /\ isLoading' = isLoading /\ submitting' = submitting
        /\ pendingDelete' = pendingDelete /\ items' = items
    BY <1>0, <1>5 DEF OpenDetail, Settled, session, backend, history
  <2>3. "detail" \in PageKinds /\ {} \in SUBSET Users /\ e \in Nat
    BY <1>0 DEF PageKinds
  <2> QED
    BY <2>1, <2>2, <2>3, BegunPage
<1> QED
  BY <1>1, <1>2, <1>3, <1>4, <1>5

\* An answer that its page takes stops the spinner of its request.
LEMMA AnswerPage ==
    ASSUME TypeOK, RequestsTyped, TokenPart, PagePart, TokenPart', NEW r \in Requests,
           \/ SignInFailed(r) \/ Loaded(r) \/ LoadFailed(r) \/ Removed(r) \/ RemoveFailed(r)
           \/ DetailArrived(r) \/ DetailFailed(r) \/ AskFailed(r) \/ Unheard(r)
    PROVE  PagePart'
<1>0. requests' = Done(r)
  BY DEF SignInFailed, Loaded, LoadFailed, Removed, RemoveFailed, DetailArrived, DetailFailed,
         AskFailed, Unheard
<1>1. requests'[r] = Idle /\ \A q \in Requests : q # r => requests'[q] = requests[q]
  BY <1>0, EndedFacts DEF TypeOK
<1>2. HeardBy(requests[r])' /\ \A k \in PageKinds : r \notin OfPage(k)'
  BY <1>1, IdleFacts DEF HeardBy, OfPage, UnderWay, PageKinds
<1>3. /\ Settled
      /\ place' # "login" => token' # 0
      /\ pendingDelete' # 0 => place = "history"
  <2>1. PlainAction(r)
    BY DEF PlainAction
  <2>2. place' = place /\ token' = token /\ userOf' = userOf /\ switched' = switched
    BY <2>1, PlainActions DEF Plain
  <2>3. Settled
    BY <2>2 DEF Settled, TypeOK
  <2>4. pendingDelete' = pendingDelete
    BY DEF SignInFailed, Loaded, LoadFailed, Removed, RemoveFailed, DetailArrived, DetailFailed,
           AskFailed, Unheard, page, history
  <2> QED
    BY <2>2, <2>3, <2>4 DEF TokenPart, TokenInv, PagePart, PageInv
<1>4. HeardBy(requests[r])'
  BY <1>2
<1>5. r \notin OfPage("load")' /\ r \notin OfPage("detail")' /\ r \notin OfPage("login")'
  BY <1>2 DEF PageKinds
<1>6. CASE Loaded(r) \/ LoadFailed(r)
  <2>1. r \in OfPage("load") /\ isLoading' = FALSE /\ submitting' = submitting /\ isDetailLoading' = isDetailLoading
    BY <1>6 DEF Loaded, LoadFailed, LoadingAfterFailure, Answered, Failed, Listening, OfPage, UnderWay
  <2>2. r \notin OfPage("detail") /\ r \notin OfPage("login")
    BY <2>1 DEF OfPage, UnderWay
  <2>3. place = "history" /\ ~switched' => \A c \in items' : c \in items \/ Owner[c] = currentUser
    <3>1. CASE LoadFailed(r)
      BY <3>1 DEF LoadFailed, history
    <3>2. CASE Loaded(r)
      <4>1. items' = requests[r].answer /\ switched' = switched /\ requests[r].stage = "ok"
        BY <3>2 DEF Loaded, Answered
      <4>2. HeardBy(requests[r]) /\ requests[r].heard = "page" /\ requests[r].kind = "load"
        BY <2>1 DEF PagePart, PageInv, OfPage, UnderWay
      <4>3. place = "history" => token # 0
        BY DEF TokenPart, TokenInv
      <4> QED
        BY <4>1, <4>2, <4>3 DEF HeardBy, currentUser
    <3> QED
      BY <1>6, <3>1, <3>2
  <2> QED
    BY <1>1, <1>3, <1>4, <1>5, <2>1, <2>2, <2>3, KeepPage
<1>7. CASE DetailArrived(r) \/ DetailFailed(r)
  <2>1. /\ requests[r].kind = "detail"
        /\ isDetailLoading' = FALSE /\ isLoading' = isLoading /\ submitting' = submitting /\ items' = items
    BY <1>7 DEF DetailArrived, DetailFailed, Answered, Failed, Listening, history
  <2>2. r \notin OfPage("load") /\ r \notin OfPage("login")
    BY <2>1 DEF OfPage, UnderWay
  <2> QED
    BY <1>1, <1>3, <1>4, <1>5, <2>1, <2>2, KeepPage
<1>8. CASE SignInFailed(r)
  <2>1. /\ requests[r].kind = "login" /\ isLoading' = isLoading /\ isDetailLoading' = isDetailLoading
        /\ items' = items /\ submitting' = IF Heard(r) THEN FALSE ELSE submitting
    BY <1>8 DEF SignInFailed, Failed, Listening, history
  <2>2. r \notin OfPage("load") /\ r \notin OfPage("detail")
    BY <2>1 DEF OfPage, UnderWay
  <2>3. submitting' => submitting /\ r \notin OfPage("login")
    BY <2>1 DEF Heard, OfPage, UnderWay
  <2> QED
    BY <1>1, <1>3, <1>4, <1>5, <2>1, <2>2, <2>3, KeepPage
<1>9. CASE Removed(r) \/ RemoveFailed(r) \/ AskFailed(r) \/ Unheard(r)
  <2>1. /\ isLoading' = isLoading /\ isDetailLoading' = isDetailLoading /\ submitting' = submitting
        /\ items' \subseteq items
    BY <1>9 DEF Removed, RemoveFailed, AskFailed, Unheard, WithoutRemoved, page, history, spinners
  <2>2. requests[r].heard # "page" \/ requests[r].kind \in {"ask", "delete"}
    BY <1>9 DEF Removed, RemoveFailed, AskFailed, Unheard, Answered, Failed, Listening
  <2> QED
    BY <1>0, <1>3, <2>1, <2>2, EndedPage DEF Undisturbed
<1> QED
  BY <1>6, <1>7, <1>8, <1>9

\* What the backend answers is the sender's own, as is what the page asked for.
LEMMA ServePage ==
    ASSUME TypeOK, RequestsTyped, TokenPart, PagePart, TokenPart', NEW r \in Requests, Serve(r)
    PROVE  PagePart'
<1>0. /\ place' # "login" => token' # 0
      /\ HeardBy(requests[r]) /\ requests[r] \in Request0 /\ switched \in BOOLEAN
  BY DEF TokenPart, TokenInv, PagePart, PageInv, TypeOK
<1>1. /\ place' = place /\ token' = token /\ switched' = switched
      /\ isLoading' = isLoading /\ isDetailLoading' = isDetailLoading /\ submitting' = submitting
      /\ pendingDelete' = pendingDelete /\ items' = items
  BY DEF Serve, ServeRead, ServeDelete, ServeLogin, session, page, history, spinners
<1>2. \A t \in Issued : userOf'[t] = userOf[t]
  <2>1. CASE ServeLogin(r)
    <3>1. PICK u \in Users : userOf' = [userOf EXCEPT ![NextToken] = u]
      BY <2>1 DEF ServeLogin, RequestsTyped, Typed
    <3> QED
      BY <2>1, <3>1, IssueToken DEF ServeLogin
  <2>2. CASE ServeRead(r) \/ ServeDelete(r)
    BY <2>2 DEF ServeRead, ServeDelete, backend
  <2> QED
    BY <2>1, <2>2 DEF Serve
<1>3. Settled
  BY <1>0, <1>1, <1>2 DEF Settled
<1>4. PICK arg \in Nat, answer \in SUBSET (Users \cup Conversations \cup Entries) :
          /\ Respond(r, arg, answer)
          /\ requests[r].kind = "load" => answer = ListFor(r) /\ requests[r].token # 0
  <2>1. CASE ServeLogin(r)
    <3>1. NextToken \in Tokens
      <4>1. PICK u \in Users : userOf' = [userOf EXCEPT ![NextToken] = u]
        BY <2>1 DEF ServeLogin, RequestsTyped, Typed
      <4> QED
        BY <2>1, <4>1, IssueToken DEF ServeLogin
    <3>2. NextToken \in Nat /\ {} \in SUBSET (Users \cup Conversations \cup Entries)
      BY <3>1 DEF Tokens
    <3> QED
      BY <2>1, <3>2 DEF ServeLogin
  <2>2. CASE ServeRead(r) \/ ServeDelete(r)
    <3>1. ListFor(r) \subseteq Conversations \cup Entries /\ requests[r].arg \in Nat
      BY <1>0 DEF ListFor, Owned, TypeOK, Request0
    <3> QED
      BY <2>2, <3>1 DEF ServeRead, ServeDelete
  <2> QED
    BY <2>1, <2>2 DEF Serve
<1>5. /\ \A q \in Requests : q # r => requests'[q] = requests[q]
      /\ \/ Over(r) /\ requests[r].heard # "page"
         \/ /\ requests'[r].kind = requests[r].kind /\ requests'[r].stage = "ok"
            /\ requests'[r].answer = answer
            /\ requests'[r].token = requests[r].token /\ requests'[r].heard = requests[r].heard
  BY <1>4, RespondFacts
<1>6. \A k \in PageKinds : r \in OfPage(k)' <=> r \in OfPage(k)
  BY <1>5, IdleFacts DEF Over, OfPage, UnderWay
<1>7. HeardBy(requests[r])'
  <2>1. CASE Over(r)
    BY <2>1, IdleFacts DEF Over, HeardBy
  <2>2. CASE requests'[r].kind = "load" /\ place = "history"
    <3>1. requests[r].kind = "load"
      BY <1>5, <2>2, IdleFacts DEF Over
    <3>2. requests[r].token \in Issued
      BY <1>4, <3>1 DEF TokenPart, TokenInv, Known
    <3>3. userOf'[requests[r].token] = userOf[requests[r].token]
      BY <1>2, <3>2
    <3>4. answer \subseteq {c \in Conversations : Owner[c] = userOf[requests[r].token]}
      BY <1>4, <2>2, <3>1 DEF ListFor, Owned, Sender, TypeOK
    <3> QED
      BY <1>0, <1>1, <1>5, <2>1, <2>2, <3>3, <3>4 DEF HeardBy
  <2>3. CASE ~(requests'[r].kind = "load" /\ place = "history") /\ ~Over(r)
    BY <1>0, <1>1, <1>5, <2>3 DEF HeardBy
  <2> QED
    BY <2>1, <2>2, <2>3
<1>8. "load" \in PageKinds /\ "detail" \in PageKinds /\ "login" \in PageKinds
  BY DEF PageKinds
<1>9. pendingDelete' # 0 => place = "history"
  BY <1>1 DEF PagePart, PageInv
<1>10. /\ isLoading' = isLoading /\ (r \in OfPage("load")' <=> r \in OfPage("load"))
       /\ isDetailLoading' => r \in OfPage("detail")' \/ (isDetailLoading /\ r \notin OfPage("detail"))
       /\ submitting' => r \in OfPage("login")' \/ (submitting /\ r \notin OfPage("login"))
  BY <1>1, <1>6, <1>8
<1> QED
  BY <1>0, <1>1, <1>3, <1>5, <1>7, <1>9, <1>10, KeepPage

LEMMA ReaderPage ==
    ASSUME TypeOK, RequestsTyped, TokenPart, PagePart, TokenPart', PageAction \/ OtherTab \/ UNCHANGED vars
    PROVE  PagePart'
<1>0. place' # "login" => token' # 0
  BY DEF TokenPart, TokenInv
<1>1. CASE OtherTab
  <2>1. requests' = requests /\ token' = token /\ UNCHANGED page
    BY <1>1 DEF OtherTab
  <2>2. \A t \in Issued : userOf'[t] = userOf[t]
    <3>1. ASSUME NEW u \in Users, Issued # Tokens, userOf' = [userOf EXCEPT ![NextToken] = u]
          PROVE  \A t \in Issued : userOf'[t] = userOf[t]
      BY <3>1, IssueToken
    <3> QED
      BY <1>1, <3>1 DEF OtherTab, backend
  <2>3. Settled /\ Undisturbed
    BY <2>1, <2>2 DEF Settled, Undisturbed, TypeOK, PagePart, PageInv, page, history, spinners
  <2> QED
    BY <1>0, <2>1, <2>3, EndedPage
<1>2. CASE PageAction \/ UNCHANGED vars
  <2>1. Plain /\ requests' = requests
    BY <1>2, PageActions
  <2>2. Settled
    BY <2>1 DEF Plain, Settled, TypeOK
  <2>3. Undisturbed
    <3>1. pendingDelete # 0 => place = "history"
      BY DEF PagePart, PageInv
    <3> QED
      BY <1>2, <3>1 DEF Undisturbed, PageAction, Filter, GoToPage, ConfirmRemove, CancelRemove, CloseDetail,
                        ListShown, spinners, history, vars, page
  <2> QED
    BY <1>0, <2>1, <2>2, <2>3, EndedPage
<1> QED
  BY <1>1, <1>2

LEMMA NextPage ==
    ASSUME TypeOK, RequestsTyped, TokenPart, PagePart, TokenPart', [Next]_vars PROVE PagePart'
<1>1. CASE (\E p \in Places : GoTo(p)) \/ Reload \/ Logout
  BY <1>1, RoutedStepPage
<1>2. ASSUME NEW r \in Requests,
             SignedIn(r) \/ AskDone(r) \/ TokenRefused(r) \/ SignInRefused(r)
      PROVE  PagePart'
  BY <1>2, RoutedAnswerPage, QuietPage DEF NavigatingAnswer
<1>3. ASSUME NEW r \in Requests,
             \/ \E u \in Users : OnSignIn(r, u)
             \/ Ask(r) \/ Load(r) \/ Remove(r) \/ \E e \in Entries : OpenDetail(r, e)
      PROVE  PagePart'
  BY <1>3, BeginPage
<1>4. ASSUME NEW r \in Requests,
             \/ SignInFailed(r) \/ Loaded(r) \/ LoadFailed(r) \/ Removed(r) \/ RemoveFailed(r)
             \/ DetailArrived(r) \/ DetailFailed(r) \/ AskFailed(r) \/ Unheard(r)
      PROVE  PagePart'
  BY <1>4, AnswerPage
<1>5. ASSUME NEW r \in Requests, Serve(r) PROVE PagePart'
  BY <1>5, ServePage
<1>6. CASE PageAction \/ OtherTab \/ UNCHANGED vars
  BY <1>6, ReaderPage
<1> QED
  BY <1>1, <1>2, <1>3, <1>4, <1>5, <1>6 DEF Next, Answer, PageAction

-----------------------------------------------------------------------------
(* Lists and deletes *)

\* A page that is built waits for its list.
LEMMA RebuiltDeletes ==
    ASSUME DeletesInv, NEW reqs, Rebuilt(reqs), rows' = rows PROVE DeletesInv'
<1>1. ASSUME NEW r \in Requests, requests'[r].kind = "delete"
      PROVE  /\ requests[r].kind = "delete" /\ requests'[r].stage = requests[r].stage
             /\ requests'[r].arg = requests[r].arg
  BY <1>1, IdleFacts DEF Rebuilt, Over, Detached, SameFields, LoadBegun
<1>2. \A r \in UnderWay("delete")' : requests'[r].stage = "ok" => requests'[r].arg \notin rows'
  BY <1>1 DEF DeletesInv, UnderWay
<1>3. \A r \in OfPage("load")' : requests'[r].stage = "sent"
  BY IdleFacts DEF Rebuilt, Over, Detached, LoadBegun, OfPage, UnderWay
<1>4. place' = "history" => isLoading'
  BY DEF Rebuilt
<1>5. place' = "history" /\ ~crossed' => \A r \in UnderWay("delete")' : requests'[r].stage # "sent"
  BY <1>4 DEF Rebuilt, UnderWay
<1>6. pendingDelete' = 0
  BY DEF Rebuilt
<1> QED
  BY <1>2, <1>3, <1>4, <1>5, <1>6 DEF DeletesInv, ListShown

\* The same page has the same conversations to show.
LEMMA SameUser ==
    ASSUME TokenPart, Settled, place = "history", ~switched'
    PROVE  ~switched /\ token' = token /\ token # 0 /\ currentUser' = currentUser
<1> QED
  BY DEF TokenPart, TokenInv, Known, Settled, currentUser

\* Steps that neither load nor delete.
Quiet(r) ==
    /\ \A q \in Requests : q # r => requests'[q] = requests[q]
    /\ r \in Requests =>
          \/ requests'[r] = requests[r]
          \/ requests'[r].kind # "delete" /\ r \notin OfPage("load")' /\ r \notin OfPage("delete")
    /\ rows' = rows /\ isLoading' = isLoading
    /\ place = "history" => crossed' = crossed /\ items' = items /\ errorMessage' = errorMessage
    /\ place = "history" /\ isLoading => pendingDelete' \in {0, pendingDelete}

LEMMA QuietDeletes == ASSUME TokenPart, DeletesInv, Settled, NEW r, Quiet(r) PROVE DeletesInv'
<1>1. \A q \in UnderWay("delete")' : q \in UnderWay("delete") /\ requests'[q] = requests[q]
  BY DEF UnderWay, Quiet
<1>2. \A q \in OfPage("load")' : q \in OfPage("load") /\ requests'[q] = requests[q]
  BY DEF OfPage, UnderWay, Quiet
<1>3. \A q \in OfPage("delete") : q \in OfPage("delete")' /\ requests'[q] = requests[q]
  BY DEF OfPage, UnderWay, Quiet
<1>4. \A q \in UnderWay("delete")' : requests'[q].stage = "ok" => requests'[q].arg \notin rows'
  BY <1>1 DEF DeletesInv, Quiet
<1>5. isLoading' /\ place' = "history" => pendingDelete' = 0
  BY DEF DeletesInv, Quiet, Settled
<1>6. ASSUME place' = "history", ~crossed', ~switched'
      PROVE  /\ \A q \in UnderWay("delete")' :
                   requests'[q].stage = "sent" => requests'[q].heard = "page" /\ ~isLoading'
             /\ \A q \in OfPage("load")' : requests'[q].stage = "ok" => requests'[q].answer = Owned(currentUser)'
             /\ ListShown("history")' => items' \subseteq Conversations /\ Current(items)'
  <2>1. /\ place = "history" /\ ~crossed /\ ~switched /\ currentUser' = currentUser
        /\ items' = items /\ errorMessage' = errorMessage /\ isLoading' = isLoading /\ rows' = rows
    BY <1>6, SameUser DEF Settled, Quiet
  <2>2. Owned(currentUser)' = Owned(currentUser)
    BY <2>1 DEF Owned
  <2>3. ListShown("history")' => items' \subseteq Conversations /\ Current(items)'
    BY <1>3, <2>1, <2>2 DEF DeletesInv, ListShown, Current
  <2> QED
    BY <1>1, <1>2, <2>1, <2>2, <2>3 DEF DeletesInv
<1> QED
  BY <1>4, <1>5, <1>6 DEF DeletesInv

LEMMA RoutedDeletes ==
    ASSUME TypeOK, TokenPart, DeletesInv, userOf' = userOf, rows' = rows, token' \in 0..MaxLogins,
           NEW p \in Places, NEW reqs, NEW r, Navigate(p, reqs),
           \/ reqs = requests
           \/ /\ r \in Requests /\ reqs = Done(r)
              /\ place' = place => requests[r].heard # "page" \/ requests[r].kind = "ask"
    PROVE  DeletesInv'
<1>1. /\ place' = place => Stayed(reqs)
      /\ place' # place => Rebuilt(reqs)
  BY Routed
<1>2. CASE place' = place
  <2>1. Settled
    BY <1>1, <1>2 DEF Stayed, Settled
  <2>2. /\ \A q \in Requests : q # r => requests'[q] = requests[q]
        /\ r \in Requests => requests'[r] = requests[r] \/ (requests'[r] = Idle /\ r \notin OfPage("delete"))
    BY <1>1, <1>2, EndedFacts DEF Stayed, OfPage, UnderWay, TypeOK
  <2>3. Quiet(r)
    BY <1>1, <1>2, <2>2, IdleFacts DEF Stayed, Quiet, history, spinners, OfPage, UnderWay
  <2> QED
    BY <2>1, <2>3, QuietDeletes
<1>3. CASE place' # place
  BY <1>1, <1>3, RebuiltDeletes
<1> QED
  BY <1>2, <1>3

LEMMA RoutedStepDeletes ==
    ASSUME TypeOK, RequestsTyped, TokenPart, PagePart, DeletesInv,
           (\E p \in Places : GoTo(p)) \/ Reload \/ Logout
    PROVE  DeletesInv'
<1>0. token \in 0..MaxLogins /\ "login" \in Places /\ 0 \in 0..MaxLogins
  BY PagesAssumption DEF Places, TypeOK
<1>1. ASSUME NEW p \in Places, GoTo(p) PROVE DeletesInv'
  <2>1. Navigate(p, requests) /\ token' \in 0..MaxLogins /\ userOf' = userOf /\ rows' = rows
    BY <1>0, <1>1 DEF GoTo, session, backend
  <2> QED
    BY <2>1, RoutedDeletes
<1>2. CASE Reload
  BY <1>2, ReloadFacts, RebuiltDeletes
<1>3. CASE Logout
  <2>1. Navigate("login", requests) /\ token' = 0 /\ userOf' = userOf /\ rows' = rows
    BY <1>3 DEF Logout, EndSession, backend
  <2> QED
    BY <1>0, <2>1, RoutedDeletes
<1> QED
  BY <1>1, <1>2, <1>3

LEMMA RoutedAnswerDeletes ==
    ASSUME TypeOK, RequestsTyped, TokenPart, PagePart, DeletesInv, TokenPart',
           NEW r \in Requests, NavigatingAnswer(r)
    PROVE  DeletesInv'
<1>1. /\ userOf' = userOf /\ rows' = rows /\ token' \in 0..MaxLogins
      /\ place' = place => requests[r].heard # "page" \/ requests[r].kind = "ask"
  BY AnswerRoutes
<1>2. PICK p \in Places : Navigate(p, Done(r))
  BY AnswerRoutes
<1> QED
  BY <1>1, <1>2, RoutedDeletes

\* Requests that neither load nor delete, and what the reader does.
LEMMA AsideDeletes ==
    ASSUME TypeOK, RequestsTyped, TokenPart, PagePart, DeletesInv, NEW r \in Requests,
           \/ \E u \in Users : OnSignIn(r, u)
           \/ Ask(r) \/ \E e \in Entries : OpenDetail(r, e)
           \/ SignInFailed(r) \/ DetailArrived(r) \/ DetailFailed(r) \/ AskFailed(r) \/ Unheard(r)
    PROVE  DeletesInv'
<1>1. Plain
  BY PlainActions DEF PlainAction
<1>2. Settled
  BY <1>1 DEF Plain, Settled, TypeOK
<1>3. HeardBy(requests[r])
  BY DEF PagePart, PageInv
<1>4. Quiet(r)
  <2>1. CASE \/ \E u \in Users : OnSignIn(r, u)
             \/ Ask(r) \/ \E e \in Entries : OpenDetail(r, e)
    <3>1. MaySend(r) /\ \E kind \in {"login", "ask", "detail"}, arg \in Nat, answer \in SUBSET Users :
              SentAs(r, kind, arg, answer)
      <4>1. 0 \in Nat /\ \A e \in Entries : e \in Nat
        BY PagesAssumption
      <4>2. ASSUME NEW u \in Users, OnSignIn(r, u)
            PROVE  SentAs(r, "login", 0, {u}) /\ MaySend(r)
        BY <4>2, SentIs DEF OnSignIn
      <4>3. ASSUME Ask(r) PROVE SentAs(r, "ask", 0, {}) /\ MaySend(r)
        BY <4>3, SentIs DEF Ask
      <4>4. ASSUME NEW e \in Entries, OpenDetail(r, e) PROVE SentAs(r, "detail", e, {}) /\ MaySend(r)
        BY <4>4, SentIs DEF OpenDetail
      <4> QED
        BY <2>1, <4>1, <4>2, <4>3, <4>4
    <3>2. /\ \A q \in Requests : q # r => requests'[q] = requests[q]
          /\ requests'[r].kind \in {"login", "ask", "detail"} /\ requests[r].kind = "none"
      <4>1. PICK kind \in {"login", "ask", "detail"}, arg \in Nat, answer \in SUBSET Users :
              SentAs(r, kind, arg, answer)
        BY <3>1
      <4> QED
        BY <3>1, <4>1, SentFacts DEF MaySend
    <3>3. r \notin OfPage("load")' /\ r \notin OfPage("delete") /\ requests'[r].kind # "delete"
      BY <3>2 DEF OfPage, UnderWay
    <3>4. /\ rows' = rows /\ isLoading' = isLoading /\ pendingDelete' = pendingDelete
          /\ place = "history" => crossed' = crossed /\ items' = items /\ errorMessage' = errorMessage
      BY <2>1 DEF OnSignIn, Ask, OpenDetail, backend, page, history, spinners
    <3> QED
      BY <3>2, <3>3, <3>4 DEF Quiet
  <2>2. CASE SignInFailed(r) \/ DetailArrived(r) \/ DetailFailed(r) \/ AskFailed(r) \/ Unheard(r)
    <3>1. /\ requests' = Done(r)
          /\ requests[r].kind # "delete" \/ requests[r].heard # "page"
      BY <2>2 DEF SignInFailed, DetailArrived, DetailFailed, AskFailed, Unheard, Answered, Failed, Listening
    <3>2. /\ \A q \in Requests : q # r => requests'[q] = requests[q]
          /\ r \notin OfPage("load")' /\ r \notin OfPage("delete") /\ requests'[r].kind # "delete"
      BY <3>1, EndedFacts, IdleFacts DEF OfPage, UnderWay, TypeOK
    <3>3. /\ rows' = rows /\ isLoading' = isLoading /\ pendingDelete' = pendingDelete
          /\ place = "history" => crossed' = crossed /\ items' = items /\ errorMessage' = errorMessage
      BY <1>3, <2>2 DEF SignInFailed, DetailArrived, DetailFailed, AskFailed, Unheard, Failed, Listening,
                        Heard, HeardBy, backend, page, history, spinners
    <3> QED
      BY <3>2, <3>3 DEF Quiet
  <2> QED
    BY <2>1, <2>2
<1> QED
  BY <1>2, <1>4, QuietDeletes

LEMMA QuietAnswerDeletes ==
    ASSUME TypeOK, RequestsTyped, TokenPart, PagePart, DeletesInv, NEW r \in Requests,
           \/ AskDone(r) /\ ~Navigate("chat", Done(r))
           \/ TokenRefused(r) /\ token = 0
           \/ SignInRefused(r) /\ (Heard(r) \/ token = 0)
    PROVE  DeletesInv'
<1>0. /\ place # "login" => token # 0
      /\ HeardBy(requests[r]) /\ switched \in BOOLEAN
  BY DEF TokenPart, TokenInv, TypeOK, PagePart, PageInv
<1>1. /\ place' = place /\ switched' = switched /\ rows' = rows /\ userOf' = userOf /\ requests' = Done(r)
      /\ isLoading' = isLoading /\ crossed' = crossed /\ items' = items /\ pendingDelete' = pendingDelete
  BY DEF AskDone, TokenRefused, SignInRefused, session, backend, page, history, spinners
<1>2. /\ place = "login" \/ token' = token
      /\ place = "login" \/ errorMessage' = errorMessage
      /\ requests[r].heard = "page" => requests[r].kind # "delete"
  BY <1>0 DEF AskDone, TokenRefused, SignInRefused, Answered, Listening, Heard, HeardBy, session, backend, page
<1>3. Settled
  BY <1>0, <1>1, <1>2 DEF Settled
<1>4. /\ \A q \in Requests : q # r => requests'[q] = requests[q]
      /\ r \notin OfPage("load")' /\ r \notin OfPage("delete") /\ requests'[r].kind # "delete"
  BY <1>1, <1>2, EndedFacts, IdleFacts DEF OfPage, UnderWay, TypeOK
<1>5. Quiet(r)
  BY <1>1, <1>2, <1>4 DEF Quiet
<1> QED
  BY <1>3, <1>5, QuietDeletes

LEMMA ReaderDeletes ==
    ASSUME TypeOK, RequestsTyped, TokenPart, PagePart, DeletesInv, PageAction \/ OtherTab \/ UNCHANGED vars
    PROVE  DeletesInv'
<1>1. /\ place' = place /\ token' = token /\ switched' = switched /\ requests' = requests /\ rows' = rows
      /\ isLoading' = isLoading /\ crossed' = crossed /\ items' = items /\ errorMessage' = errorMessage
  BY DEF PageAction, OtherTab, Filter, GoToPage, ConfirmRemove, CancelRemove, CloseDetail,
         session, backend, page, history, spinners, vars
<1>2. \A t \in Issued : userOf'[t] = userOf[t]
  <2>1. ASSUME NEW u \in Users, Issued # Tokens, userOf' = [userOf EXCEPT ![NextToken] = u]
        PROVE  \A t \in Issued : userOf'[t] = userOf[t]
    BY <2>1, IssueToken
  <2>2. CASE OtherTab
    BY <2>1, <2>2 DEF OtherTab, backend
  <2>3. CASE PageAction \/ UNCHANGED vars
    BY <2>3, PageActions DEF Plain
  <2> QED
    BY <2>2, <2>3
<1>3. Settled
  BY <1>1, <1>2 DEF Settled, TypeOK
<1>4. place = "history" /\ isLoading => pendingDelete' \in {0, pendingDelete}
  BY DEF PageAction, OtherTab, Filter, GoToPage, ConfirmRemove, CancelRemove, CloseDetail, ListShown,
         page, history, vars
<1>5. Quiet(NoUser)
  BY <1>1, <1>4 DEF Quiet
<1> QED
  BY <1>3, <1>5, QuietDeletes

\* A load and a delete begin.
LEMMA BeginDeletes ==
    ASSUME TypeOK, RequestsTyped, TokenPart, PagePart, DeletesInv, NEW r \in Requests, Load(r) \/ Remove(r)
    PROVE  DeletesInv'
<1>1. /\ place' = place /\ token' = token /\ switched' = switched /\ userOf' = userOf /\ rows' = rows
      /\ currentUser' = currentUser /\ items' = items
  BY DEF Load, Remove, session, backend, currentUser
<1>2. Owned(currentUser)' = Owned(currentUser)
  BY <1>1 DEF Owned
<1>3. /\ 0 \in Nat /\ pendingDelete \in Nat
      /\ pendingDelete # 0 => place = "history"
  <2>1. pendingDelete \in Conversations \cup {0}
    BY DEF TypeOK
  <2> QED
    BY <2>1, PagesAssumption DEF PagePart, PageInv
<1>4. CASE Load(r)
  <2>1. SentAs(r, "load", 0, {}) /\ requests[r].kind = "none"
    BY <1>4, SentIs DEF Load, MaySend
  <2>2. /\ \A q \in Requests : q # r => requests'[q] = requests[q]
        /\ requests'[r].kind = "load" /\ requests'[r].stage = "sent"
    BY <1>3, <2>1, SentFacts
  <2>3. /\ isLoading' = TRUE /\ ~isLoading /\ pendingDelete' = 0
        /\ crossed' = Carrying(requests)
    BY <1>4 DEF Load
  <2>4. \A q \in UnderWay("delete")' : q \in UnderWay("delete") /\ requests'[q] = requests[q]
    BY <2>2 DEF UnderWay
  <2>5. \A q \in OfPage("load")' : requests'[q].stage = "sent"
    <3>1. OfPage("load") = {}
      BY <2>3 DEF PagePart, PageInv, HeardBy, OfPage, UnderWay
    <3> QED
      BY <2>2, <3>1 DEF OfPage, UnderWay
  <2>6. ~crossed' => \A q \in UnderWay("delete")' : requests'[q].stage # "sent"
    BY <2>3, <2>4 DEF Carrying, UnderWay
  <2> QED
    BY <1>1, <2>3, <2>4, <2>5, <2>6 DEF DeletesInv, ListShown
<1>5. CASE Remove(r)
  <2>1. SentAs(r, "delete", pendingDelete, {}) /\ requests[r].kind = "none"
    BY <1>5, <1>3, SentIs DEF Remove, MaySend
  <2>2. /\ \A q \in Requests : q # r => requests'[q] = requests[q]
        /\ requests'[r].kind = "delete" /\ requests'[r].stage = "sent" /\ requests'[r].heard = "page"
    BY <1>3, <2>1, SentFacts
  <2>3. /\ isLoading' = isLoading /\ errorMessage' = errorMessage /\ crossed' = crossed
        /\ pendingDelete' = 0 /\ place = "history" /\ pendingDelete # 0
    BY <1>3, <1>5 DEF Remove, spinners
  <2>4. ~isLoading
    BY <2>3 DEF DeletesInv
  <2>5. \A q \in UnderWay("delete")' : q = r \/ (q \in UnderWay("delete") /\ requests'[q] = requests[q])
    BY <2>2 DEF UnderWay
  <2>6. \A q \in OfPage("load")' : q \in OfPage("load") /\ requests'[q] = requests[q]
    BY <2>2 DEF OfPage, UnderWay
  <2>7. \A q \in OfPage("delete") : q \in OfPage("delete")' /\ requests'[q] = requests[q]
    BY <2>1, <2>2 DEF OfPage, UnderWay
  <2>8. \A q \in UnderWay("delete")' : requests'[q].stage = "ok" => requests'[q].arg \notin rows'
    BY <1>1, <2>2, <2>5 DEF DeletesInv
  <2>9. ASSUME ~crossed', ~switched'
        PROVE  /\ \A q \in UnderWay("delete")' :
                     requests'[q].stage = "sent" => requests'[q].heard = "page" /\ ~isLoading'
               /\ \A q \in OfPage("load")' : requests'[q].stage = "ok" => requests'[q].answer = Owned(currentUser)'
               /\ ListShown("history")' => items' \subseteq Conversations /\ Current(items)'
    <3>1. ListShown("history")' => items' \subseteq Conversations /\ Current(items)'
      BY <1>1, <1>2, <2>3, <2>7, <2>9 DEF DeletesInv, ListShown, Current
    <3>2. \A q \in OfPage("load")' : requests'[q].stage = "ok" => requests'[q].answer = Owned(currentUser)'
      BY <1>1, <1>2, <2>3, <2>6, <2>9 DEF DeletesInv
    <3>3. \A q \in UnderWay("delete")' :
              requests'[q].stage = "sent" => requests'[q].heard = "page" /\ ~isLoading'
      BY <1>1, <2>2, <2>3, <2>4, <2>5, <2>9 DEF DeletesInv
    <3> QED
      BY <3>1, <3>2, <3>3
  <2> QED
    BY <2>3, <2>8, <2>9 DEF DeletesInv
<1> QED
  BY <1>4, <1>5

\* The answers to a load and to a delete.
LEMMA AnswerDeletes ==
    ASSUME TypeOK, RequestsTyped, TokenPart, PagePart, DeletesInv, NEW r \in Requests,
           Loaded(r) \/ LoadFailed(r) \/ Removed(r) \/ RemoveFailed(r)
    PROVE  DeletesInv'
<1>1. /\ place' = place /\ token' = token /\ switched' = switched /\ userOf' = userOf /\ rows' = rows
      /\ currentUser' = currentUser /\ crossed' = crossed /\ pendingDelete' = pendingDelete
      /\ requests' = Done(r) /\ requests[r].heard = "page"
  BY DEF Loaded, LoadFailed, Removed, RemoveFailed, Answered, Failed, Listening,
         session, backend, history, currentUser
<1>2. Owned(currentUser)' = Owned(currentUser)
  BY <1>1 DEF Owned
<1>3. requests'[r] = Idle /\ \A q \in Requests : q # r => requests'[q] = requests[q]
  BY <1>1, EndedFacts DEF TypeOK
<1>4. /\ \A q \in UnderWay("delete")' : q \in UnderWay("delete") /\ requests'[q] = requests[q]
      /\ \A q \in OfPage("load")' : q \in OfPage("load") /\ requests'[q] = requests[q] /\ q # r
      /\ \A q \in OfPage("delete") : q # r => q \in OfPage("delete")' /\ requests'[q] = requests[q]
  BY <1>3, IdleFacts DEF OfPage, UnderWay
<1>5. \A q \in UnderWay("delete")' : requests'[q].stage = "ok" => requests'[q].arg \notin rows'
  BY <1>1, <1>4 DEF DeletesInv
<1>6. CASE Loaded(r) \/ LoadFailed(r)
  <2>1. /\ r \in OfPage("load") /\ isLoading' = FALSE
        /\ LoadFailed(r) => errorMessage' = TRUE
        /\ Loaded(r) => requests[r].stage = "ok" /\ items' = requests[r].answer
    BY <1>6 DEF Loaded, LoadFailed, LoadingAfterFailure, Answered, Failed, Listening, OfPage, UnderWay
  <2>2. isLoading /\ OfPage("load")' = {}
    <3>1. isLoading /\ \A q \in OfPage("load") : q = r
      BY <2>1 DEF PagePart, PageInv, HeardBy, OneLoad, OfPage, UnderWay
    <3> QED
      BY <1>4, <3>1
  <2>3. ASSUME place' = "history", ~crossed', ~switched'
        PROVE  /\ \A q \in UnderWay("delete")' :
                     requests'[q].stage = "sent" => requests'[q].heard = "page" /\ ~isLoading'
               /\ ListShown("history")' => items' \subseteq Conversations /\ Current(items)'
    <3>1. \A q \in UnderWay("delete")' : requests'[q].stage # "sent"
      BY <1>1, <1>4, <2>2, <2>3 DEF DeletesInv
    <3>2. Loaded(r) => items' = Owned(currentUser)'
      BY <1>1, <1>2, <2>1, <2>3 DEF DeletesInv
    <3>3. Owned(currentUser)' \subseteq Conversations
      BY <1>2 DEF Owned, TypeOK
    <3> QED
      BY <1>6, <2>1, <3>1, <3>2, <3>3 DEF ListShown, Current
  <2> QED
    BY <1>5, <2>1, <2>2, <2>3 DEF DeletesInv
<1>7. CASE Removed(r) \/ RemoveFailed(r)
  <2>1. /\ r \in OfPage("delete") /\ isLoading' = isLoading
        /\ RemoveFailed(r) => errorMessage' = TRUE /\ items' = items
        /\ Removed(r) => /\ requests[r].stage = "ok" /\ items' = items \ {requests[r].arg}
                         /\ errorMessage' = errorMessage
    BY <1>1, <1>7 DEF Removed, RemoveFailed, WithoutRemoved, Answered, Failed, Listening, OfPage, UnderWay,
                      history, spinners
  <2>2. ASSUME place' = "history", ~crossed', ~switched', ListShown("history")', Removed(r)
        PROVE  items' \subseteq Conversations /\ Current(items)'
    <3>1. requests[r].arg \notin Owned(currentUser)
      BY <2>1, <2>2 DEF DeletesInv, OfPage, Owned
    <3>2. items \subseteq Conversations /\ Current(items)
      BY <1>1, <2>1, <2>2 DEF DeletesInv, ListShown
    <3>3. ASSUME NEW c \in Conversations
          PROVE  \/ \E q \in OfPage("delete")' : requests'[q].arg = c
                 \/ c \in items' <=> c \in Owned(currentUser)'
      <4>1. CASE c = requests[r].arg
        BY <1>2, <2>1, <2>2, <3>1, <4>1
      <4>2. CASE c # requests[r].arg
        <5>1. \/ \E q \in OfPage("delete") : requests[q].arg = c
              \/ c \in items <=> c \in Owned(currentUser)
          BY <3>2 DEF Current
        <5> QED
          BY <1>2, <1>4, <2>1, <2>2, <4>2, <5>1
      <4> QED
        BY <4>1, <4>2
    <3> QED
      BY <2>1, <2>2, <3>2, <3>3 DEF Current
  <2>3. ASSUME place' = "history", ~crossed', ~switched'
        PROVE  /\ \A q \in UnderWay("delete")' :
                     requests'[q].stage = "sent" => requests'[q].heard = "page" /\ ~isLoading'
               /\ \A q \in OfPage("load")' : requests'[q].stage = "ok" => requests'[q].answer = Owned(currentUser)'
               /\ ListShown("history")' => items' \subseteq Conversations /\ Current(items)'
    <3>1. RemoveFailed(r) => ~ListShown("history")'
      BY <2>1 DEF ListShown
    <3> QED
      BY <1>1, <1>2, <1>4, <1>7, <2>1, <2>2, <2>3, <3>1 DEF DeletesInv
  <2>4. isLoading' /\ place' = "history" => pendingDelete' = 0
    BY <1>1, <2>1 DEF DeletesInv
  <2> QED
    BY <1>5, <2>3, <2>4 DEF DeletesInv
<1> QED
  BY <1>6, <1>7

\* The backend reads, or signs in, without a change to the conversations.
LEMMA ServeReadDeletes ==
    ASSUME TypeOK, RequestsTyped, TokenPart, PagePart, DeletesInv, NEW r \in Requests,
           ServeRead(r) \/ ServeLogin(r)
    PROVE  DeletesInv'
<1>1. /\ place' = place /\ token' = token /\ switched' = switched /\ rows' = rows
      /\ isLoading' = isLoading /\ crossed' = crossed /\ items' = items /\ errorMessage' = errorMessage
      /\ pendingDelete' = pendingDelete
  BY DEF ServeRead, ServeLogin, session, backend, page, history, spinners
<1>2. /\ \A t \in Issued : userOf'[t] = userOf[t]
      /\ ServeLogin(r) => NextToken \in Nat
  <2>1. CASE ServeLogin(r)
    <3>1. PICK u \in Users : userOf' = [userOf EXCEPT ![NextToken] = u]
      BY <2>1 DEF ServeLogin, RequestsTyped, Typed
    <3>2. NextToken \in Tokens /\ \A t \in Issued : userOf'[t] = userOf[t]
      BY <2>1, <3>1, IssueToken DEF ServeLogin
    <3> QED
      BY <3>2 DEF Tokens
  <2>2. CASE ~ServeLogin(r) /\ ServeRead(r)
    BY <2>2 DEF ServeRead, backend
  <2> QED
    BY <2>1, <2>2
<1>3. Settled
  BY <1>1, <1>2 DEF Settled, TypeOK
<1>4. PICK arg \in Nat, answer \in SUBSET (Users \cup Conversations \cup Entries) :
          /\ Respond(r, arg, answer)
          /\ requests[r].kind # "delete"
          /\ requests[r].kind = "load" => answer = ListFor(r)
  <2>1. ListFor(r) \subseteq Conversations \cup Entries /\ requests[r].arg \in Nat
    BY DEF ListFor, Owned, TypeOK, Request0
  <2>2. CASE ServeLogin(r)
    BY <1>2, <2>2 DEF ServeLogin
  <2>3. CASE ServeRead(r)
    BY <2>1, <2>3 DEF ServeRead
  <2> QED
    BY <2>2, <2>3
<1>5. /\ \A q \in Requests : q # r => requests'[q] = requests[q]
      /\ \/ Over(r)
         \/ /\ requests'[r].kind = requests[r].kind /\ requests'[r].answer = answer
            /\ requests'[r].heard = requests[r].heard
  BY <1>4, RespondFacts
<1>6. /\ requests'[r].kind # "delete" /\ r \notin OfPage("delete")
      /\ r \in OfPage("load")' => r \in OfPage("load") /\ requests'[r].answer = answer
  BY <1>4, <1>5, IdleFacts DEF Over, OfPage, UnderWay
<1>7. CASE r \notin OfPage("load")'
  <2>1. Quiet(r)
    BY <1>1, <1>5, <1>6, <1>7 DEF Quiet
  <2> QED
    BY <1>3, <2>1, QuietDeletes
<1>8. CASE r \in OfPage("load")'
  <2>1. /\ \A q \in UnderWay("delete")' : q \in UnderWay("delete") /\ requests'[q] = requests[q]
        /\ \A q \in OfPage("load")' : q = r \/ (q \in OfPage("load") /\ requests'[q] = requests[q])
        /\ \A q \in OfPage("delete") : q \in OfPage("delete")' /\ requests'[q] = requests[q]
    BY <1>5, <1>6 DEF OfPage, UnderWay
  <2>2. isLoading
    BY <1>6, <1>8 DEF PagePart, PageInv, HeardBy, OfPage, UnderWay
  <2>3. ASSUME place' = "history", ~crossed', ~switched'
        PROVE  /\ \A q \in UnderWay("delete")' :
                     requests'[q].stage = "sent" => requests'[q].heard = "page" /\ ~isLoading'
               /\ \A q \in OfPage("load")' : requests'[q].stage = "ok" => requests'[q].answer = Owned(currentUser)'
    <3>1. place = "history" /\ ~switched /\ token # 0 /\ currentUser' = currentUser
      BY <1>1, <1>3, <2>3, SameUser
    <3>2. Owned(currentUser)' = Owned(currentUser)
      BY <1>1, <3>1 DEF Owned
    <3>3. requests[r].token = token /\ requests[r].kind = "load"
      BY <1>6, <1>8, <3>1 DEF PagePart, PageInv, HeardBy, OfPage, UnderWay
    <3>4. answer = Owned(currentUser)
      BY <1>4, <3>1, <3>3 DEF ListFor, Sender, currentUser
    <3> QED
      BY <1>1, <1>6, <1>8, <2>1, <2>3, <3>1, <3>2, <3>4 DEF DeletesInv
  <2>4. \A q \in UnderWay("delete")' : requests'[q].stage = "ok" => requests'[q].arg \notin rows'
    BY <1>1, <2>1 DEF DeletesInv
  <2>5. (isLoading' /\ place' = "history" => pendingDelete' = 0) /\ ~ListShown("history")'
    BY <1>1, <2>2 DEF DeletesInv, ListShown
  <2> QED
    BY <2>3, <2>4, <2>5 DEF DeletesInv
<1> QED
  BY <1>7, <1>8

\* The backend deletes: the list still shows the conversation, and its request tells.
LEMMA ServeDeleteDeletes ==
    ASSUME TypeOK, RequestsTyped, TokenPart, PagePart, DeletesInv, NEW r \in Requests, ServeDelete(r)
    PROVE  DeletesInv'
<1> DEFINE gone == requests[r].arg
<1>1. /\ place' = place /\ token' = token /\ switched' = switched /\ rows' = rows \ {gone}
      /\ isLoading' = isLoading /\ crossed' = crossed /\ items' = items /\ errorMessage' = errorMessage
      /\ pendingDelete' = pendingDelete /\ currentUser' = currentUser
      /\ requests[r].kind = "delete" /\ requests[r].stage = "sent"
      /\ Respond(r, gone, {})
  BY DEF ServeDelete, session, page, history, spinners, currentUser
<1>2. gone \in Nat /\ {} \in SUBSET (Users \cup Conversations \cup Entries)
  BY DEF TypeOK, Request0
<1>3. /\ \A q \in Requests : q # r => requests'[q] = requests[q]
      /\ \/ Over(r) /\ requests[r].heard # "page"
         \/ /\ requests'[r].kind = "delete" /\ requests'[r].stage = "ok" /\ requests'[r].arg = gone
            /\ requests'[r].heard = requests[r].heard
  <2> HIDE DEF gone
  <2> QED
    BY <1>1, <1>2, RespondFacts
<1>4. /\ \A q \in UnderWay("delete")' :
             \/ q = r /\ requests'[q].stage = "ok" /\ requests'[q].arg = gone
             \/ q \in UnderWay("delete") /\ requests'[q] = requests[q]
      /\ \A q \in OfPage("load")' : q \in OfPage("load")
      /\ \A q \in OfPage("delete") : q \in OfPage("delete")' /\ requests'[q].arg = requests[q].arg
  BY <1>1, <1>3, IdleFacts DEF Over, OfPage, UnderWay
<1>5. \A q \in UnderWay("delete")' : requests'[q].stage = "ok" => requests'[q].arg \notin rows'
  BY <1>1, <1>4 DEF DeletesInv
<1>6. ASSUME place' = "history", ~crossed', ~switched'
      PROVE  /\ \A q \in UnderWay("delete")' :
                   requests'[q].stage = "sent" => requests'[q].heard = "page" /\ ~isLoading'
             /\ \A q \in OfPage("load")' : requests'[q].stage = "ok" => requests'[q].answer = Owned(currentUser)'
             /\ ListShown("history")' => items' \subseteq Conversations /\ Current(items)'
  <2>1. requests[r].heard = "page" /\ ~isLoading /\ r \in OfPage("delete")
    BY <1>1, <1>6 DEF DeletesInv, OfPage, UnderWay
  <2>2. OfPage("load")' = {}
    BY <1>4, <2>1 DEF PagePart, PageInv, HeardBy, OfPage, UnderWay
  <2>3. \A q \in UnderWay("delete")' :
            requests'[q].stage = "sent" => requests'[q].heard = "page" /\ ~isLoading'
    BY <1>1, <1>4, <1>6 DEF DeletesInv
  <2>4. ASSUME ListShown("history")' PROVE items' \subseteq Conversations /\ Current(items)'
    <3>1. items \subseteq Conversations /\ Current(items)
      BY <1>1, <1>6, <2>4 DEF DeletesInv, ListShown
    <3>2. ASSUME NEW c \in Conversations
          PROVE  \/ \E q \in OfPage("delete")' : requests'[q].arg = c
                 \/ c \in items' <=> c \in Owned(currentUser)'
      <4>1. CASE c = gone
        BY <1>4, <2>1, <4>1
      <4>2. CASE c # gone
        <5>1. c \in Owned(currentUser)' <=> c \in Owned(currentUser)
          BY <1>1, <4>2 DEF Owned
        <5>2. \/ \E q \in OfPage("delete") : requests[q].arg = c
              \/ c \in items <=> c \in Owned(currentUser)
          BY <3>1 DEF Current
        <5> QED
          BY <1>1, <1>4, <5>1, <5>2
      <4> QED
        BY <4>1, <4>2
    <3> QED
      BY <1>1, <3>1, <3>2 DEF Current
  <2> QED
    BY <2>2, <2>3, <2>4
<1> QED
  BY <1>1, <1>5, <1>6 DEF DeletesInv

LEMMA NextDeletes ==
    ASSUME TypeOK, RequestsTyped, TokenPart, PagePart, TokenPart', DeletesInv, [Next]_vars PROVE DeletesInv'
<1>1. CASE (\E p \in Places : GoTo(p)) \/ Reload \/ Logout
  BY <1>1, RoutedStepDeletes
<1>2. ASSUME NEW r \in Requests,
             SignedIn(r) \/ AskDone(r) \/ TokenRefused(r) \/ SignInRefused(r)
      PROVE  DeletesInv'
  BY <1>2, RoutedAnswerDeletes, QuietAnswerDeletes DEF NavigatingAnswer
<1>3. ASSUME NEW r \in Requests,
             \/ \E u \in Users : OnSignIn(r, u)
             \/ Ask(r) \/ \E e \in Entries : OpenDetail(r, e)
             \/ SignInFailed(r) \/ DetailArrived(r) \/ DetailFailed(r) \/ AskFailed(r) \/ Unheard(r)
      PROVE  DeletesInv'
  BY <1>3, AsideDeletes
<1>4. ASSUME NEW r \in Requests,
             Load(r) \/ Remove(r) \/ Loaded(r) \/ LoadFailed(r) \/ Removed(r) \/ RemoveFailed(r)
      PROVE  DeletesInv'
  BY <1>4, BeginDeletes, AnswerDeletes
<1>5. ASSUME NEW r \in Requests, Serve(r) PROVE DeletesInv'
  BY <1>5, ServeReadDeletes, ServeDeleteDeletes DEF Serve
<1>6. CASE PageAction \/ OtherTab \/ UNCHANGED vars
  BY <1>6, ReaderDeletes
<1> QED
  BY <1>1, <1>2, <1>3, <1>4, <1>5, <1>6 DEF Next, Answer, PageAction

-----------------------------------------------------------------------------
(* The theorems *)

LEMMA InitInv == Init => Inv
<1> SUFFICES ASSUME Init PROVE Inv
  OBVIOUS
<1>1. requests = [r \in Requests |-> Idle] /\ Idle \in Request0
  BY IdleFacts DEF Init
<1>2. \A r \in Requests : requests[r] = Idle
  BY <1>1
<1>3. TypeOK
  <2>1. 0 \in 0..MaxLogins /\ 1 \in Nat \ {0}
    BY PagesAssumption
  <2> QED
    BY <1>1, <2>1 DEF Init, TypeOK, Places
<1>4. RequestsTyped
  BY <1>2, IdleFacts DEF RequestsTyped, Typed
<1>5. TokenInv /\ RefusedIsOver
  <2>1. token = 0 /\ stored = 0 /\ refused = {} /\ place = "login"
    BY DEF Init
  <2>2. \A r \in Requests : ~LoginOk(r) /\ requests[r].token = 0
    BY <1>2, IdleFacts DEF LoginOk
  <2> QED
    BY <2>1, <2>2 DEF TokenInv, RefusedIsOver, Known
<1>6. OnlyOwnData
  BY DEF Init, OnlyOwnData
<1>7. /\ \A r \in Requests : HeardBy(requests[r])
      /\ OfPage("load") = {} /\ UnderWay("delete") = {}
  BY <1>2, IdleFacts DEF HeardBy, OfPage, UnderWay
<1>8. PageInv /\ OneLoad /\ SpinnerHasRequest
  BY <1>7 DEF Init, PageInv, OneLoad, SpinnerHasRequest
<1>9. DeletesInv
  BY <1>7 DEF Init, DeletesInv
<1> QED
  BY <1>3, <1>4, <1>5, <1>6, <1>8, <1>9 DEF Inv

LEMMA NextInv == Inv /\ [Next]_vars => Inv'
<1> SUFFICES ASSUME Inv, [Next]_vars PROVE Inv'
  OBVIOUS
<1>1. TypeOK /\ RequestsTyped /\ PageInv /\ TokenPart /\ PagePart /\ DeletesInv
  BY DEF Inv, TokenPart, PagePart
<1>2. TokenPart'
  BY <1>1, NextTokens
<1>3. TypeOK' /\ RequestsTyped'
  BY <1>1, <1>2, NextTypes
<1>4. PagePart'
  BY <1>1, <1>2, NextPage
<1>5. DeletesInv'
  BY <1>1, <1>2, NextDeletes
<1> QED
  BY <1>2, <1>3, <1>4, <1>5 DEF Inv, TokenPart, PagePart

LEMMA AlwaysInv == Spec => []Inv
<1> QED
  BY InitInv, NextInv, PTL DEF Spec

\* The last page of n items begins at one of them.
LEMMA LastPage ==
    ASSUME NEW n \in Nat \ {0}, NEW size \in Nat \ {0}
    PROVE  LET pages == (n + size - 1) \div size IN
           /\ pages \in Nat \ {0}
           /\ (pages - 1) * size + 1 <= n
<1> DEFINE m == n + size - 1
           pages == m \div size
<1>1. m \in Nat /\ pages \in Int /\ size * pages <= m /\ m < size * (pages + 1)
  BY SMT
<1>2. pages > 0
  <2>1. CASE pages <= 0
    <3>1. size * (pages + 1) <= size
      BY <1>1, <2>1, SMT
    <3> QED
      BY <1>1, <3>1
  <2> QED
    BY <1>1, <2>1
<1>3. (pages - 1) * size = size * pages - size
  BY <1>1, SMT
<1> QED
  BY <1>1, <1>2, <1>3, SMT

\* The page that the history shows is one that exists.
LEMMA PageExists == ASSUME TypeOK PROVE NeverStranded
<1> SUFFICES ASSUME filteredItems # {} PROVE rangeStart <= rangeEnd
  BY DEF NeverStranded

<1> DEFINE n == Cardinality(filteredItems)
           pages == (n + PAGE_SIZE - 1) \div PAGE_SIZE
           cur == currentPage
<1>1. n \in Nat \ {0}
  <2>1. filteredItems \subseteq Conversations /\ IsFiniteSet(Conversations)
    BY PagesAssumption DEF filteredItems, TypeOK
  <2>2. IsFiniteSet(filteredItems)
    BY <2>1, FS_Subset
  <2> QED
    BY <2>2, FS_CardinalityType, FS_EmptySet
<1>2. PAGE_SIZE \in Nat \ {0} /\ pageNo \in Nat \ {0}
  BY PagesAssumption DEF TypeOK
<1>3. pages \in Nat \ {0} /\ (pages - 1) * PAGE_SIZE + 1 <= n
  <2> HIDE DEF n
  <2> QED
    BY <1>1, <1>2, LastPage
<1>4. pageCount = pages
  BY <1>3 DEF pageCount
<1>5. cur \in Nat \ {0} /\ cur <= pages
  <2> HIDE DEF pages
  <2> QED
    BY <1>2, <1>3, <1>4 DEF currentPage
<1>6. /\ rangeStart = (cur - 1) * PAGE_SIZE + 1
      /\ rangeEnd = IF cur * PAGE_SIZE <= n THEN cur * PAGE_SIZE ELSE n
  BY DEF rangeStart, rangeEnd
<1> HIDE DEF cur, pages, n
<1>7. (cur - 1) * PAGE_SIZE <= (pages - 1) * PAGE_SIZE
  BY <1>2, <1>3, <1>5, SMT
<1>8. (cur - 1) * PAGE_SIZE = cur * PAGE_SIZE - PAGE_SIZE
  BY <1>2, <1>5, SMT
<1> QED
  BY <1>1, <1>2, <1>3, <1>5, <1>6, <1>7, <1>8, SMT

\* Every variable of the client has its type, for any number of users, conversations, requests
\* and sign-ins.
THEOREM TypeCorrect == Spec => []TypeOK
<1>1. Inv => TypeOK
  BY DEF Inv
<1> QED
  BY <1>1, AlwaysInv, PTL

\* Nobody sees a page without a session, the audit log without being an administrator, or the
\* conversations of another user: no late answer, other tab, reload or second sign-in shows them
\* (app.routes.ts:14-20, auth.guard.ts:7, admin.guard.ts:12).
THEOREM OnlyOwnDataShown == Spec => []OnlyOwnData
<1>1. Inv => OnlyOwnData
  BY DEF Inv
<1> QED
  BY <1>1, AlwaysInv, PTL

\* A token that the backend refused is neither used again nor found again in the browser's
\* storage, in whatever order the answers of its requests come (auth.interceptor.ts:8).
THEOREM RefusedStaysOver == Spec => []RefusedIsOver
<1>1. Inv => RefusedIsOver
  BY DEF Inv
<1> QED
  BY <1>1, AlwaysInv, PTL

\* While a spinner turns, a request of the page that is shown is under way, whose end stops it.
THEOREM SpinnersHaveRequests == Spec => []SpinnerHasRequest
<1>1. Inv => SpinnerHasRequest
  BY DEF Inv
<1> QED
  BY <1>1, AlwaysInv, PTL

\* The history page shows the conversations that exist once its requests are over, unless the
\* list was asked for before a delete was carried out, and never a page of them that does not
\* exist (history-page.component.ts:84, :193).
THEOREM ListsAreShown == Spec => []ListIsShown
<1>1. Inv => ListIsShown
  <2> SUFFICES ASSUME Inv PROVE ListIsShown
    OBVIOUS
  <2>1. NeverStranded
    BY PageExists DEF Inv
  <2>2. ASSUME ListShown("history"), OfPage("delete") = {}, ~crossed, ~switched
        PROVE  items = Owned(currentUser)
    <3>1. items \subseteq Conversations /\ \A c \in Conversations : c \in items <=> c \in Owned(currentUser)
      BY <2>2 DEF Inv, DeletesInv, ListShown, Current
    <3>2. Owned(currentUser) \subseteq Conversations
      BY DEF Inv, TypeOK, Owned
    <3> QED
      BY <3>1, <3>2
  <2> QED
    BY <2>1, <2>2 DEF ListIsShown, ListIsCurrent
<1> QED
  BY <1>1, AlwaysInv, PTL
=============================================================================
