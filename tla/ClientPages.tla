---------------------------- MODULE ClientPages ----------------------------
(***************************************************************************)
(* One tab of the Angular client: the session with its interceptor and     *)
(* guards (frontend/src/app/core), the login, history and audit pages      *)
(* (features/auth, features/history, features/audit), and the requests     *)
(* that outlive the page that sent them.  A request is answered to its     *)
(* page, to the application alone once the page is left (nothing           *)
(* unsubscribes), or to nobody after a reload.                             *)
(*                                                                         *)
(* The chat page itself is ChatPage; here it only asks questions, whose    *)
(* late answers navigate.  Sorting and the date headers leave no trace in  *)
(* what the properties say and are left out; every filter is one choice of *)
(* the conversations that match.                                           *)
(***************************************************************************)
EXTENDS Naturals, FiniteSets

CONSTANTS Users, Admins,    \* accounts, and those with the role ADMIN
          NoUser,
          Conversations,    \* numbered, so that 0 is none
          Owner,            \* the user of every conversation
          Matching,         \* the conversations that a search term selects
          Entries,          \* audit entries, numbered from 1
          PAGE_SIZE,
          Requests,         \* bound on the requests under way
          MaxLogins         \* bound on the tokens that are issued

ASSUME PagesAssumption ==
    /\ Admins \subseteq Users /\ NoUser \notin Users
    /\ Conversations \subseteq Nat \ {0} /\ IsFiniteSet(Conversations)
    /\ Matching \subseteq Conversations
    /\ Owner \in [Conversations -> Users]
    /\ Entries \subseteq Nat \ {0}
    /\ PAGE_SIZE \in Nat \ {0} /\ MaxLogins \in Nat

VARIABLES
    token,          \* AuthService's token, with its user: the number of a login; 0 is none
    stored,         \* localStorage, shared with other tabs
    userOf,         \* the user of every token issued
    place,          \* the page that the router shows
    returnUrl,      \* of the login page; "chat" elsewhere
    submitting, isLoading, isDetailLoading,
    errorMessage,   \* whether the page shows one
    items, pendingDelete, search, pageNo,    \* history page
    selectedEntry,  \* audit page; 0 is a closed drawer
    requests,
    rows,           \* the conversations that exist
    refused,        \* history: tokens of which the client was told that they are refused
    crossed,        \* history: the list was asked for while a delete was yet to be carried out
    switched        \* history: the user changed under a page that was not built anew

session == <<token, stored>>
history == <<items, pendingDelete, search, pageNo, crossed>>
spinners == <<submitting, isLoading, isDetailLoading>>
page == <<place, returnUrl, spinners, errorMessage, history, selectedEntry, switched>>
backend == <<userOf, rows>>
vars == <<session, page, requests, backend, refused>>

Places == {"login", "chat", "history", "audit"}
Tokens == 1..MaxLogins
Issued == {t \in Tokens : userOf[t] \in Users}

Idle == [kind |-> "none", stage |-> "none", arg |-> 0, token |-> 0, heard |-> "nobody",
         answer |-> {}]
Free(reqs, r) == r = CHOOSE q \in Requests : reqs[q].kind = "none"
MaySend(r) == requests[r].kind = "none" /\ Free(requests, r)

\* authInterceptor: the token goes out with the request, as it is at that moment.
Request(kind, arg) ==
    [kind |-> kind, stage |-> "sent", arg |-> arg, token |-> token, heard |-> "page",
     answer |-> {}]

UnderWay(kind) == {r \in Requests : requests[r].kind = kind}
OfPage(kind) == {r \in UnderWay(kind) : requests[r].heard = "page"}

currentUser == IF token = 0 THEN NoUser ELSE userOf[token]
Owned(u) == {c \in rows : Owner[c] = u}

Init ==
    /\ token = 0 /\ stored = 0
    /\ userOf = [t \in Tokens |-> NoUser]
    /\ place = "login" /\ returnUrl = "chat"
    /\ submitting = FALSE /\ isLoading = FALSE /\ isDetailLoading = FALSE
    /\ errorMessage = FALSE
    /\ items = {} /\ pendingDelete = 0 /\ search = Conversations /\ pageNo = 1
    /\ selectedEntry = 0
    /\ requests = [r \in Requests |-> Idle]
    /\ rows = Conversations
    /\ refused = {} /\ crossed = FALSE /\ switched = FALSE

-----------------------------------------------------------------------------
(* The router and its guards *)

\* authGuard runs on the way into the pages behind it, not between them; adminGuard runs on
\* the way to the audit page.
\* Fault: /audit has no guard of its own.
AuthGuardOnly(p, outside) == IF p # "login" /\ outside /\ token' = 0 THEN "login" ELSE p

Guarded(p, outside) ==
    IF p # "login" /\ outside /\ token' = 0 THEN "login"
    ELSE IF p = "audit" /\ currentUser' \notin Admins THEN "chat"
    ELSE p

\* What an answer may still change when its page is gone: the session, the place, or the
\* backend itself.
Matters(q) == q.stage = "sent" \/ q.kind \in {"login", "ask"}

\* The requests of the page that is left go on; a reload of the browser aborts all, but a
\* delete may have reached the backend.
Left(reqs) ==
    [r \in Requests |->
        IF reqs[r].heard # "page" THEN reqs[r]
        ELSE IF Matters(reqs[r]) THEN [reqs[r] EXCEPT !.heard = "app"] ELSE Idle]
Aborted ==
    [r \in Requests |->
        IF requests[r].kind = "delete" /\ requests[r].stage = "sent"
        THEN [requests[r] EXCEPT !.heard = "nobody"] ELSE Idle]

Carrying(reqs) == \E r \in Requests : reqs[r].kind = "delete" /\ reqs[r].stage = "sent"

\* A page is built: its signals have their first values, and ngOnInit loads its list.
Enter(p, reqs) ==
    /\ place' = p
    /\ submitting' = FALSE /\ isDetailLoading' = FALSE /\ errorMessage' = FALSE
    /\ items' = {} /\ pendingDelete' = 0 /\ search' = Conversations /\ pageNo' = 1
    /\ selectedEntry' = 0
    /\ switched' = FALSE
    /\ IF p \in {"history", "audit"}
       THEN /\ isLoading' = TRUE
            /\ crossed' = Carrying(reqs)
            /\ \E r \in Requests :
                /\ reqs[r].kind = "none" /\ Free(reqs, r)
                /\ requests' = [reqs EXCEPT ![r] = [Request("load", 0) EXCEPT !.token = token']]
       ELSE isLoading' = FALSE /\ crossed' = FALSE /\ requests' = reqs

\* Fault: the page the user is sent away from is always the one to come back to.
AlwaysBack(p, to) == IF to = "login" THEN p ELSE "chat"

\* authGuard records where the user wanted to go; the login page goes to the chat without it.
ReturnUrl(p, to) == IF to = "login" /\ p # "login" THEN p ELSE "chat"

\* Navigation to the page that is shown leaves its component as it is.
Navigate(p, reqs) ==
    LET to == Guarded(p, place = "login") IN
    /\ returnUrl' = ReturnUrl(p, to)
    /\ IF to # place THEN Enter(to, Left(reqs))
       ELSE /\ requests' = reqs
            /\ switched' = (switched \/ token' # token)
            /\ UNCHANGED <<place, spinners, errorMessage, history, selectedEntry>>

GoTo(p) ==
    /\ p # place
    /\ UNCHANGED <<session, backend, refused>>
    /\ Navigate(p, requests)

Reload ==
    /\ token' = stored
    /\ UNCHANGED <<stored, backend, refused>>
    /\ LET to == Guarded(place, TRUE) IN
       /\ returnUrl' = IF to # "login" THEN "chat" ELSE IF place = "login" THEN returnUrl ELSE place
       /\ Enter(to, Aborted)

-----------------------------------------------------------------------------
(* AuthService, the interceptor and the login page *)

\* Fault: the token goes from memory and stays in the browser's storage.
KeptInStorage == stored

StoredAfterLogout == 0

\* logout: from the sidebar, or by the interceptor.
EndSession(reqs) ==
    /\ token' = 0
    /\ stored' = StoredAfterLogout
    /\ UNCHANGED backend
    /\ Navigate("login", reqs)

Logout ==
    /\ place # "login"
    /\ EndSession(requests)
    /\ UNCHANGED refused

\* onSignIn, with the credentials of u or with wrong ones.
OnSignIn(r, u) ==
    /\ place = "login" /\ ~submitting /\ MaySend(r)
    /\ submitting' = TRUE /\ errorMessage' = FALSE
    /\ requests' = [requests EXCEPT ![r] = [Request("login", 0) EXCEPT !.answer = {u}]]
    /\ UNCHANGED <<session, backend, refused, place, returnUrl, isLoading, isDetailLoading,
                   history, selectedEntry, switched>>

Done(r) == [requests EXCEPT ![r] = Idle]

\* Pages that are gone take the answers of sign-ins and questions all the same.
Listening(r, kind) ==
    /\ requests[r].kind = kind
    /\ requests[r].heard = "page" \/ (requests[r].heard = "app" /\ kind \in {"login", "ask"})
Answered(r, kind) == Listening(r, kind) /\ requests[r].stage = "ok"

\* Any error but a 401, and a connection that breaks before the answer is there.
Failed(r, kind) == Listening(r, kind)

\* 401: the credentials are wrong, or the token is, which may expire at any time.
Refused(r) == requests[r].stage = "sent" /\ requests[r].heard # "nobody"

Heard(r) == requests[r].heard = "page"

\* AuthService.login takes the token and the login page navigates, left or not.
SignedIn(r) ==
    /\ Answered(r, "login")
    /\ token' = requests[r].arg /\ stored' = requests[r].arg
    /\ UNCHANGED <<backend, refused>>
    /\ IF Heard(r) THEN Navigate(returnUrl, Done(r))
       ELSE \E p \in Places \ {"login"} : Navigate(p, Done(r))

\* The error handler of the login page.
SignInFailed(r) ==
    /\ Failed(r, "login")
    /\ requests' = Done(r)
    /\ IF Heard(r) THEN submitting' = FALSE /\ errorMessage' = TRUE
       ELSE UNCHANGED <<submitting, errorMessage>>
    /\ UNCHANGED <<session, backend, refused, place, returnUrl, isLoading, isDetailLoading,
                   history, selectedEntry, switched>>

\* A 401 for a sign-in, wrong credentials included, ends a session that stands
\* (authInterceptor), and the login page shows the error.
SignInRefused(r) ==
    /\ requests[r].kind = "login" /\ Refused(r)
    /\ UNCHANGED refused
    /\ IF Heard(r)
       THEN /\ token' = 0
            /\ stored' = IF token # 0 THEN StoredAfterLogout ELSE stored
            /\ returnUrl' = IF token # 0 THEN "chat" ELSE returnUrl
            /\ submitting' = FALSE /\ errorMessage' = TRUE
            /\ requests' = Done(r)
            /\ UNCHANGED <<backend, place, isLoading, isDetailLoading, history, selectedEntry,
                           switched>>
       ELSE IF token # 0 THEN EndSession(Done(r))
       ELSE requests' = Done(r) /\ UNCHANGED <<session, backend, page>>

\* A 401 for any other request, that of an earlier session included; the page that sent it
\* is left with the session.
TokenRefused(r) ==
    /\ requests[r].kind # "login" /\ Refused(r)
    /\ refused' = refused \cup {requests[r].token}
    /\ IF token # 0 THEN EndSession(Done(r))
       ELSE requests' = Done(r) /\ UNCHANGED <<session, backend, page>>

Ask(r) ==
    /\ place = "chat" /\ MaySend(r) /\ UnderWay("ask") = {}
    /\ requests' = [requests EXCEPT ![r] = Request("ask", 0)]
    /\ UNCHANGED <<session, page, backend, refused>>

\* The answer puts its session into the URL, if it is not there yet: the URL of the chat page,
\* also after the page was left (syncSessionIdToUrl).
AskDone(r) ==
    /\ Answered(r, "ask")
    /\ UNCHANGED <<session, backend, refused>>
    /\ \/ Navigate("chat", Done(r))
       \/ requests' = Done(r) /\ UNCHANGED page

-----------------------------------------------------------------------------
(* The lists of the history and the audit page *)

\* Both Refresh buttons and "Try again"; the dialog and the drawer are modal.
Load(r) ==
    /\ place \in {"history", "audit"} /\ ~isLoading /\ MaySend(r)
    /\ pendingDelete = 0 /\ selectedEntry = 0
    /\ isLoading' = TRUE /\ errorMessage' = FALSE
    /\ crossed' = Carrying(requests)
    /\ requests' = [requests EXCEPT ![r] = Request("load", 0)]
    /\ UNCHANGED <<session, backend, refused, place, returnUrl, submitting, isDetailLoading,
                   items, pendingDelete, search, pageNo, selectedEntry, switched>>

Loaded(r) ==
    /\ Answered(r, "load")
    /\ requests' = Done(r)
    /\ items' = requests[r].answer /\ isLoading' = FALSE
    /\ UNCHANGED <<session, backend, refused, place, returnUrl, submitting, isDetailLoading,
                   errorMessage, pendingDelete, search, pageNo, crossed, selectedEntry, switched>>

\* Fault: the error is shown and the page goes on loading.
LoadingAfterError == isLoading

LoadingAfterFailure == FALSE

LoadFailed(r) ==
    /\ Failed(r, "load")
    /\ requests' = Done(r)
    /\ errorMessage' = TRUE /\ isLoading' = LoadingAfterFailure
    /\ UNCHANGED <<session, backend, refused, place, returnUrl, submitting, isDetailLoading,
                   history, selectedEntry, switched>>

\* What the template shows in place of the skeleton and the error.
ListShown(p) == place = p /\ ~isLoading /\ ~errorMessage

filteredItems == items \cap search
pageCount ==
    LET pages == (Cardinality(filteredItems) + PAGE_SIZE - 1) \div PAGE_SIZE
    IN  IF pages = 0 THEN 1 ELSE pages

\* Fault: the page number is what it was, whatever the list has become.
PageAsChosen == pageNo

currentPage == IF pageNo <= pageCount THEN pageNo ELSE pageCount

rangeStart == (currentPage - 1) * PAGE_SIZE + 1
rangeEnd ==
    IF currentPage * PAGE_SIZE <= Cardinality(filteredItems) THEN currentPage * PAGE_SIZE
    ELSE Cardinality(filteredItems)

\* onSearchTermChange, setRange, clearFilters; toggleSort selects what was selected.
Filter(s) ==
    /\ place = "history" /\ pendingDelete = 0
    /\ search' = s /\ pageNo' = 1
    /\ UNCHANGED <<session, backend, refused, requests, place, returnUrl, spinners, errorMessage,
                   items, pendingDelete, crossed, selectedEntry, switched>>

\* goToPage: the buttons of the pager.
GoToPage(n) ==
    /\ ListShown("history") /\ pendingDelete = 0 /\ n # pageNo /\ n \in 1..pageCount
    /\ pageNo' = n
    /\ UNCHANGED <<session, backend, refused, requests, place, returnUrl, spinners, errorMessage,
                   items, pendingDelete, search, crossed, selectedEntry, switched>>

\* confirmRemove and cancelRemove
ConfirmRemove(c) ==
    /\ ListShown("history") /\ pendingDelete = 0 /\ c \in filteredItems
    /\ pendingDelete' = c
    /\ UNCHANGED <<session, backend, refused, requests, place, returnUrl, spinners, errorMessage,
                   items, search, pageNo, crossed, selectedEntry, switched>>

CancelRemove ==
    /\ pendingDelete # 0
    /\ pendingDelete' = 0
    /\ UNCHANGED <<session, backend, refused, requests, place, returnUrl, spinners, errorMessage,
                   items, search, pageNo, crossed, selectedEntry, switched>>

Remove(r) ==
    /\ pendingDelete # 0 /\ MaySend(r)
    /\ pendingDelete' = 0
    /\ requests' = [requests EXCEPT ![r] = Request("delete", pendingDelete)]
    /\ UNCHANGED <<session, backend, refused, place, returnUrl, spinners, errorMessage, items,
                   search, pageNo, crossed, selectedEntry, switched>>

\* Fault: the list is left to the next load.
RemovedAtNextLoad(c) == items

WithoutRemoved(c) == items \ {c}

Removed(r) ==
    /\ Answered(r, "delete")
    /\ requests' = Done(r)
    /\ items' = WithoutRemoved(requests[r].arg)
    /\ UNCHANGED <<session, backend, refused, place, returnUrl, spinners, errorMessage,
                   pendingDelete, search, pageNo, crossed, selectedEntry, switched>>

RemoveFailed(r) ==
    /\ Failed(r, "delete")
    /\ requests' = Done(r)
    /\ errorMessage' = TRUE
    /\ UNCHANGED <<session, backend, refused, place, returnUrl, spinners, history, selectedEntry,
                   switched>>

-----------------------------------------------------------------------------
(* The drawer of the audit page *)

OpenDetail(r, e) ==
    /\ ListShown("audit") /\ selectedEntry = 0 /\ MaySend(r) /\ e \in items
    /\ selectedEntry' = e /\ isDetailLoading' = TRUE
    /\ requests' = [requests EXCEPT ![r] = Request("detail", e)]
    /\ UNCHANGED <<session, backend, refused, place, returnUrl, submitting, isLoading,
                   errorMessage, history, switched>>

CloseDetail ==
    /\ selectedEntry # 0
    /\ selectedEntry' = 0
    /\ UNCHANGED <<session, backend, refused, requests, place, returnUrl, spinners, errorMessage,
                   history, switched>>

\* The entry that arrives is shown, whichever is open by now.
DetailArrived(r) ==
    /\ Answered(r, "detail")
    /\ requests' = Done(r)
    /\ selectedEntry' = requests[r].arg /\ isDetailLoading' = FALSE
    /\ UNCHANGED <<session, backend, refused, place, returnUrl, submitting, isLoading,
                   errorMessage, history, switched>>

DetailFailed(r) ==
    /\ Failed(r, "detail")
    /\ requests' = Done(r)
    /\ isDetailLoading' = FALSE
    /\ UNCHANGED <<session, backend, refused, place, returnUrl, submitting, isLoading,
                   errorMessage, history, selectedEntry, switched>>

\* Any other answer without a page to take it, or a request that is lost.
Unheard(r) ==
    /\ requests[r].kind \in {"load", "delete", "detail"} /\ requests[r].heard # "page"
    /\ requests' = Done(r)
    /\ UNCHANGED <<session, page, backend, refused>>

AskFailed(r) ==
    /\ Failed(r, "ask")
    /\ requests' = Done(r)
    /\ UNCHANGED <<session, page, backend, refused>>

-----------------------------------------------------------------------------
(* The backend, and the other tabs of the browser *)

Respond(r, arg, answer) ==
    LET q == [requests[r] EXCEPT !.stage = "ok", !.arg = arg, !.answer = answer] IN
    requests' = [requests EXCEPT ![r] =
        IF q.heard = "page" \/ (q.heard = "app" /\ Matters(q)) THEN q ELSE Idle]

Sender(r) == userOf[requests[r].token]

\* The list of a page: the user's conversations, or the audit log, which is for administrators
\* alone.
ListFor(r) == IF place = "audit" THEN Entries ELSE Owned(Sender(r))

ServeRead(r) ==
    /\ requests[r].kind \in {"load", "detail", "ask"} /\ requests[r].stage = "sent"
    /\ requests[r].token # 0 /\ (place = "audit" => Sender(r) \in Admins)
    /\ Respond(r, requests[r].arg, IF requests[r].kind # "load" THEN {} ELSE ListFor(r))
    /\ UNCHANGED <<session, page, backend, refused>>

\* A conversation of another user, or one that is gone, is not found: a failure.
ServeDelete(r) ==
    /\ requests[r].kind = "delete" /\ requests[r].stage = "sent"
    /\ requests[r].token # 0 /\ requests[r].arg \in Owned(Sender(r))
    /\ rows' = rows \ {requests[r].arg}
    /\ Respond(r, requests[r].arg, {})
    /\ UNCHANGED <<session, page, userOf, refused>>

NextToken == CHOOSE t \in Tokens : t \notin Issued

ServeLogin(r) ==
    /\ requests[r].kind = "login" /\ requests[r].stage = "sent"
    /\ Issued # Tokens
    /\ \E u \in requests[r].answer : userOf' = [userOf EXCEPT ![NextToken] = u]
    /\ Respond(r, NextToken, {})
    /\ UNCHANGED <<session, page, rows, refused>>

\* Another tab signs out, or signs in.
OtherTab ==
    \/ /\ stored # 0
       /\ stored' = 0
       /\ UNCHANGED <<token, page, requests, backend, refused>>
    \/ /\ Issued # Tokens
       /\ stored' = NextToken
       /\ \E u \in Users : userOf' = [userOf EXCEPT ![NextToken] = u]
       /\ UNCHANGED <<token, page, requests, rows, refused>>

-----------------------------------------------------------------------------

Answer(r) ==
    \/ SignedIn(r) \/ SignInFailed(r) \/ SignInRefused(r) \/ TokenRefused(r)
    \/ Loaded(r) \/ LoadFailed(r) \/ Removed(r) \/ RemoveFailed(r)
    \/ DetailArrived(r) \/ DetailFailed(r) \/ AskDone(r) \/ AskFailed(r) \/ Unheard(r)

Serve(r) == ServeRead(r) \/ ServeDelete(r) \/ ServeLogin(r)

Next ==
    \/ \E p \in Places : GoTo(p)
    \/ Reload \/ Logout \/ OtherTab
    \/ \E r \in Requests, u \in Users : OnSignIn(r, u)
    \/ \E r \in Requests : Ask(r) \/ Load(r) \/ Remove(r) \/ Serve(r) \/ Answer(r)
    \/ \E s \in {Conversations, Matching} : Filter(s)
    \/ \E n \in 1..Cardinality(Conversations) : GoToPage(n)
    \/ \E c \in Conversations : ConfirmRemove(c)
    \/ CancelRemove \/ CloseDetail
    \/ \E r \in Requests, e \in Entries : OpenDetail(r, e)

Spec == Init /\ [][Next]_vars

-----------------------------------------------------------------------------
(* Properties *)

Request0 ==
    [kind : {"none", "login", "ask", "load", "delete", "detail"},
     stage : {"none", "sent", "ok"},
     arg : Nat, token : 0..MaxLogins, heard : {"page", "app", "nobody"},
     answer : SUBSET (Users \cup Conversations \cup Entries)]

TypeOK ==
    /\ {token, stored} \subseteq 0..MaxLogins
    /\ userOf \in [Tokens -> Users \cup {NoUser}]
    /\ {place, returnUrl} \subseteq Places /\ returnUrl # "login"
    /\ {submitting, isLoading, isDetailLoading, errorMessage, crossed, switched} \subseteq BOOLEAN
    /\ items \subseteq Conversations \cup Entries
    /\ pendingDelete \in Conversations \cup {0}
    /\ search \subseteq Conversations /\ pageNo \in Nat \ {0}
    /\ selectedEntry \in Entries \cup {0}
    /\ requests \in [Requests -> Request0]
    /\ rows \subseteq Conversations
    /\ refused \subseteq Tokens

\* Nobody sees a page without a session, the audit log without being an administrator, or
\* conversations of another user: neither late answers nor another tab, a reload or a second
\* sign-in bring them.  switched is a sign-in that ends after its page was left by Back.
OnlyOwnData ==
    /\ place # "login" => token # 0
    /\ ~switched =>
        /\ place = "audit" => currentUser \in Admins
        /\ place = "history" => \A c \in items : Owner[c] = currentUser

\* A token of which the client was told that it is refused is never used again, and no reload
\* brings it back (auth.interceptor.ts:8).
RefusedIsOver == token \notin refused /\ stored \notin refused

\* Once its requests are over and no error is shown, the history page shows the conversations
\* that exist, unless the list was asked for before a delete was carried out.
ListIsCurrent ==
    /\ ListShown("history") /\ OfPage("delete") = {} /\ ~crossed /\ ~switched
    => items = Owned(currentUser)

\* "Filtering down to fewer pages must never leave the view stranded on a page that no longer
\* exists" (history-page.component.ts:84): nor do a delete or a load.
NeverStranded ==
    place = "history" /\ filteredItems # {} => rangeStart <= rangeEnd

\* Together: what a user who has conversations sees of them is there and is current.
ListIsShown == ListIsCurrent /\ NeverStranded

\* No spinner turns for ever: while one turns, a request of the page is under way whose end,
\* whatever it is, stops it.
SpinnerHasRequest ==
    /\ isLoading => OfPage("load") # {}
    /\ isDetailLoading => OfPage("detail") # {}
    /\ submitting => OfPage("login") # {}
=============================================================================
