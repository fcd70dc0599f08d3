-------------------------------- MODULE Visit --------------------------------
(***************************************************************************)
(* A visit from the browser's side: the edge function in front of the      *)
(* origin, the queue server's Join, the waiting page and its status        *)
(* cookie, QueueGuard and the checkout page.  Cookies belong to a browser, *)
(* addresses to a tab, and the requests of a browser's tabs interleave.    *)
(*                                                                         *)
(* The queue and the scheduler are represented by the promise WaitingRoom, *)
(* which Admission implements; a poll is one step here (StatusDelivery has *)
(* its parts), and so is the guard (Redemption has its parts).             *)
(***************************************************************************)
EXTENDS Naturals, FiniteSets, Functions

CONSTANTS Event, Ticket, EventOf,
          NoEvent,     \* an address without eventId
          NoTicket,    \* no cookie, no token
          Browser, Tab,
          BrowserOf,   \* the browser of a tab
          Wanted,      \* the events whose address is opened in a tab
          CustomPage,  \* events for which a page may be in the S3 bucket
          MaxOpens,    \* bounds on the addresses opened in each tab
          MaxVisits,   \* ... and in all of them
          Mishaps,     \* the kinds of mishap that may happen
          MaxMishaps   \* bound on their number

MishapKind == {"forget_ticket",  \* q_ticket reaches QTicketCookieMaxAge
               "end_session",    \* q_session and its JWT reach 30 minutes
               "kvs_error",      \* the edge function cannot load the secrets
               "forget_hash",    \* ticket:{id} reaches TicketKeyTTL
               "redis_error",    \* a command of Join or the admission's PUBLISH fails
               "disconnect",     \* an answer of Join or QueueGuard, or a stream, breaks
               "call_error",     \* QueueGuard's validation call or SETNX fails
               "late_token"}     \* the admission JWT reaches its exp

ASSUME VisitAssumption ==
  /\ Ticket \subseteq Nat /\ IsFiniteSet(Ticket) /\ NoTicket \notin Ticket \union Browser
  /\ EventOf \in [Ticket -> Event] /\ NoEvent \notin Event
  /\ BrowserOf \in [Tab -> Browser]
  /\ Wanted \in [Tab -> SUBSET (Event \union {NoEvent})]
  /\ CustomPage \subseteq Event
  /\ MaxOpens \in [Tab -> Nat] /\ MaxVisits \in Nat /\ MaxMishaps \in Nat /\ Mishaps \subseteq MishapKind

VARIABLES waiting, called, admitted,  \* the waiting room
          known,    \* tickets whose hash has what createTicket put into it
          cookie,   \* q_ticket of a browser: the ticket it names
          session,  \* q_session of a browser: the ticket in its subject
          used,     \* tickets whose token is marked by SETNX
          left,     \* tickets for which the checkout page reported an exit
          tab,      \* where a tab is, and what its address or request carries
          owner,    \* history: the browser that Join created a ticket for
          handed,   \* history: the browsers whose waiting page got the token, and
                    \* put it into an address
          opens,    \* addresses opened in a tab so far
          mishaps   \* mishaps so far

roomVars == <<waiting, called, admitted>>
jarVars  == <<cookie, session>>
histVars == <<owner, handed>>
visitVars == <<roomVars, known, jarVars, used, left, tab, histVars, opens, mishaps>>

\* Scores are left out: a place is a number given by the order of creation.
Room == INSTANCE WaitingRoom WITH place <- [t \in Ticket |-> t]

Place == {"closed",     \* nothing is open
          "edge",       \* a request for the origin, before the edge function
          "origin",     \* ... and behind it
          "redirect",   \* the browser is sent to Join
          "join",       \* the request has reached Join, with the cookie it carries
          "resumed", "created",    \* Join's answer, without and with a cookie
          "page",       \* the waiting page, polling
          "upgraded",   \* ... which polls no more and has asked for the stream
          "stream",     \* ... whose stream is subscribed
          "silent",     \* ... whose stream will never have the token for it
          "custom",     \* ... without a ticket in its address: it does not poll
          "inside",     \* the checkout page
          "error_page", \* the 401 page with the link to Join
          "refused",    \* an error without a way on: 400, 403, 503, or no answer
          "nowhere"}    \* a path of the origin looked up on the waiting page's host

VisitInit ==
  /\ waiting = [e \in Event |-> {}] /\ called = {} /\ admitted = {} /\ known = {}
  /\ cookie = [b \in Browser |-> NoTicket] /\ session = [b \in Browser |-> NoTicket]
  /\ used = {} /\ left = {}
  /\ tab = [d \in Tab |-> [at |-> "closed", event |-> NoEvent, ticket |-> NoTicket,
                           session |-> NoTicket, relative |-> FALSE]]
  /\ owner = [t \in Ticket |-> NoTicket] /\ handed = [t \in Ticket |-> {}]
  /\ opens = [d \in Tab |-> 0] /\ mishaps = 0

Mishap(kind) == kind \in Mishaps /\ mishaps < MaxMishaps /\ mishaps' = mishaps + 1
------------------------------------------------------------------------------
(***************************************************************************)
(* The browser.                                                            *)
(***************************************************************************)
\* One more address is opened in the tab.
Opens(d) == /\ opens[d] < MaxOpens[d] /\ FoldFunction(+, 0, opens) < MaxVisits
            /\ opens' = [opens EXCEPT ![d] = @ + 1]

OnPage(d) == tab[d].at \in {"page", "upgraded", "stream", "silent"}

Settled(d) == OnPage(d) \/ tab[d].at \in {"closed", "custom", "inside", "error_page",
                                         "refused", "nowhere"}

\* The visitor opens an address of the origin for an event: the event's own, or one
\* with a token in it.  A waiting page leaves the token in the address bar, so the
\* address may be reloaded, found in the history, or passed on to another browser.
\* The request carries the session the browser has now.
Open(d, e, t) ==
  /\ Settled(d) /\ e \in Wanted[d] /\ Opens(d)
  /\ t # NoTicket => handed[t] # {} /\ EventOf[t] = e
  /\ tab' = [tab EXCEPT ![d] = [at |-> "edge", event |-> e, ticket |-> t,
                                session |-> session[BrowserOf[d]], relative |-> FALSE]]
  /\ UNCHANGED <<roomVars, known, jarVars, used, left, histVars, mishaps>>

\* The visitor opens the address of a waiting page, which has its ticket in it: a
\* link somebody passed on, or the own page again.  It starts with polls.
OpenLink(d, t) ==
  /\ \/ tab[d].at = "closed" /\ owner[t] # NoTicket
     \/ OnPage(d) /\ t = tab[d].ticket
  /\ Opens(d)
  /\ tab' = [tab EXCEPT ![d].at = "page", ![d].event = EventOf[t], ![d].ticket = t]
  /\ UNCHANGED <<roomVars, known, jarVars, used, left, histVars, mishaps>>

\* The browser follows the redirect to Join with the q_ticket it has now.
FollowRedirect(d) ==
  /\ tab[d].at = "redirect"
  /\ tab' = [tab EXCEPT ![d].at = "join", ![d].ticket = cookie[BrowserOf[d]]]
  /\ UNCHANGED <<roomVars, known, jarVars, used, left, histVars, opens, mishaps>>

\* The link of queueErrorPage: the target is the request's URL as the origin
\* sees it, a path without a host.
FollowLink(d) ==
  /\ tab[d].at = "error_page"
  /\ tab' = [tab EXCEPT ![d].at = "redirect", ![d].relative = TRUE]
  /\ UNCHANGED <<roomVars, known, jarVars, used, left, histVars, opens, mishaps>>

\* Cookies reach their Max-Age.
ForgetTicket(b) ==
  /\ cookie[b] # NoTicket /\ Mishap("forget_ticket")
  /\ cookie' = [cookie EXCEPT ![b] = NoTicket]
  /\ UNCHANGED <<roomVars, known, session, used, left, tab, histVars, opens>>

EndSession(b) ==
  /\ session[b] # NoTicket /\ Mishap("end_session")
  /\ session' = [session EXCEPT ![b] = NoTicket]
  /\ UNCHANGED <<roomVars, known, cookie, used, left, tab, histVars, opens>>

\* The ticket's hash reaches its TTL in the queue's Redis.
ForgetHash(t) ==
  /\ t \in known /\ Mishap("forget_hash")
  /\ known' = known \ {t}
  /\ UNCHANGED <<roomVars, jarVars, used, left, tab, histVars, opens>>
------------------------------------------------------------------------------
(***************************************************************************)
(* The edge function.                                                      *)
(***************************************************************************)

\* A mutant: the token is not put into the cookie.
LeftInQuery(d) == NoTicket

\* The q_admission cookie of the request that is passed on.
AdmissionCookie(d) == IF tab[d].session # NoTicket THEN NoTicket ELSE tab[d].ticket

\* A signed session passes, whatever its event; then q_admission stays in the
\* query, where the guard does not look.  Else a signed admission token becomes
\* a cookie of the request.  Else the browser is sent to Join, which needs an
\* eventId.  Without the secrets every request passes as it is.
Handler(d) ==
  /\ tab[d].at = "edge"
  /\ \/ /\ UNCHANGED mishaps
        /\ tab' = [tab EXCEPT
             ![d].at = CASE tab[d].session # NoTicket \/ tab[d].ticket # NoTicket -> "origin"
                         [] tab[d].event = NoEvent -> "refused"
                         [] OTHER -> "redirect",
             ![d].ticket = AdmissionCookie(d)]
     \/ /\ Mishap("kvs_error")
        /\ tab' = [tab EXCEPT ![d].at = "origin", ![d].ticket = NoTicket]
  /\ UNCHANGED <<roomVars, known, jarVars, used, left, histVars, opens>>
------------------------------------------------------------------------------
(***************************************************************************)
(* The queue server.                                                       *)
(***************************************************************************)

\* A mutant: the rank is looked up in the line the ticket was created for.
InAnyLine(e, t) == t # NoTicket /\ t \in waiting[EventOf[t]]

\* A mutant: the cookie is never looked at.
NeverResume(e, t) == FALSE

\* The ticket has a rank in the event's queue.
DoesTicketExist(e, t) == t # NoTicket /\ t \in waiting[e]

Fresh(e, t) == /\ EventOf[t] = e /\ owner[t] = NoTicket
               /\ \A u \in Ticket : EventOf[u] = e /\ owner[u] = NoTicket => t <= u

\* createTicket's ZADD and HSET.  An error of HSET is ignored: the ticket has a
\* place and no hash.  (So is one of EXPIRE: the hash is then kept for ever.)
CreateTicket(d, stored) ==
  \E t \in Ticket : /\ Fresh(tab[d].event, t)
                    /\ Room!Arrive(t)
                    /\ known' = IF stored THEN known \union {t} ELSE known
                    /\ owner' = [owner EXCEPT ![t] = BrowserOf[d]]
                    /\ tab' = [tab EXCEPT ![d].at = "created", ![d].ticket = t]

\* Join resumes the place the cookie names, or creates a ticket, also when ZRANK
\* returned an error; an error of ZADD is a 503, a missing eventId a 400.
Join(d) ==
  LET e == tab[d].event
      exists == DoesTicketExist(e, tab[d].ticket) IN
  /\ tab[d].at = "join"
  /\ \/ /\ e # NoEvent /\ exists
        /\ tab' = [tab EXCEPT ![d].at = "resumed"]
        /\ UNCHANGED <<roomVars, known, owner, mishaps>>
     \/ /\ e # NoEvent /\ ~exists
        /\ CreateTicket(d, TRUE)
        /\ UNCHANGED mishaps
     \/ e # NoEvent /\ exists /\ Mishap("redis_error") /\ CreateTicket(d, TRUE)
     \/ e # NoEvent /\ ~exists /\ Mishap("redis_error") /\ CreateTicket(d, FALSE)
     \/ /\ (e = NoEvent /\ UNCHANGED mishaps) \/ Mishap("redis_error")
        /\ tab' = [tab EXCEPT ![d].at = "refused"]
        /\ UNCHANGED <<roomVars, known, owner>>
  /\ UNCHANGED <<jarVars, used, left, handed, opens>>

\* q_ticket is set for a new ticket only.
JarAfter(d) == IF tab[d].at = "created"
               THEN [cookie EXCEPT ![BrowserOf[d]] = tab[d].ticket] ELSE cookie

\* The answer opens the waiting page, or the event's own page in the bucket, to
\* which neither ticket nor target is passed on.
JoinAnswer(d) ==
  /\ tab[d].at \in {"resumed", "created"}
  /\ \/ /\ cookie' = JarAfter(d)
        /\ \/ tab' = [tab EXCEPT ![d].at = "page"]
           \/ /\ tab[d].event \in CustomPage
              /\ tab' = [tab EXCEPT ![d].at = "custom", ![d].ticket = NoTicket]
        /\ UNCHANGED mishaps
     \/ /\ Mishap("disconnect")
        /\ tab' = [tab EXCEPT ![d].at = "refused"]
        /\ UNCHANGED cookie
  /\ UNCHANGED <<roomVars, known, session, used, left, histVars, opens>>
------------------------------------------------------------------------------
(***************************************************************************)
(* The waiting page and its status requests.                               *)
(***************************************************************************)

\* A mutant: the ticket in the address is enough.
AnyCookie(d) == tab[d].ticket \in known

\* The ticket's hash names its event and the hash of a secret, and q_ticket must
\* name the ticket in the address and hold that secret.
StatusAuthorized(d) == tab[d].ticket \in known /\ cookie[BrowserOf[d]] = tab[d].ticket

Goes(d, place) == /\ tab' = [tab EXCEPT ![d].at = place]
                  /\ UNCHANGED <<roomVars, known, jarVars, used, left, histVars, opens>>

\* A poll found the ticket in the line, below the threshold: the page polls no more.
Upgrade(d) ==
  /\ tab[d].at = "page" /\ StatusAuthorized(d) /\ Room!Waiting(tab[d].ticket)
  /\ Goes(d, "upgraded") /\ UNCHANGED mishaps

\* The stream hears of an admission to come.  It does not look for one that came
\* before, and the page does not reconnect after a 403 or a 404.
Subscribe(d) ==
  /\ tab[d].at = "upgraded"
  /\ Goes(d, IF StatusAuthorized(d) /\ tab[d].ticket \notin admitted
             THEN "stream" ELSE "silent")
  /\ UNCHANGED mishaps

\* A stream that breaks is opened again by the browser; the failed read of the hash
\* is a 404, and a failed PUBLISH is not repeated.
StreamFails(d) ==
  \/ tab[d].at = "stream" /\ Mishap("disconnect") /\ Goes(d, "upgraded")
  \/ /\ \/ tab[d].at = "upgraded"
        \/ tab[d].at = "stream" /\ tab[d].ticket \in admitted
     /\ Mishap("redis_error") /\ Goes(d, "silent")

\* An authorized poll finds the token, or the stream passes it on, and the page goes
\* to its target with it.
Admitted(d) ==
  /\ (tab[d].at = "page" /\ StatusAuthorized(d)) \/ tab[d].at = "stream"
  /\ tab[d].ticket \in admitted
  /\ tab' = [tab EXCEPT ![d].at = IF tab[d].relative THEN "nowhere" ELSE "edge",
                        ![d].session = session[BrowserOf[d]]]
  /\ handed' = [handed EXCEPT ![tab[d].ticket] =
                  IF tab[d].relative THEN @ ELSE @ \union {BrowserOf[d]}]
  /\ UNCHANGED <<roomVars, known, jarVars, used, left, owner, opens, mishaps>>
------------------------------------------------------------------------------
(***************************************************************************)
(* The origin.                                                             *)
(***************************************************************************)
Enter(d, t) == tab' = [tab EXCEPT ![d].at = "inside", ![d].ticket = t,
                                  ![d].session = NoTicket]

Deny(d, page) == tab' = [tab EXCEPT ![d].at = page, ![d].ticket = NoTicket,
                                    ![d].session = NoTicket]

\* A mutant: the fast path does not hand the claims to the handler.
NoClaims(d) == NoTicket

\* The claims of a valid session.
Claims(d) == tab[d].session

\* A mutant: SETNX's answer is not looked at.
NeverMarked(t) == TRUE

\* No mark is in the origin's Redis.  The mark is taken to outlive the token, all
\* but the moment that Redemption shows.
Unused(t) == t \notin used

\* The validation endpoint finds the ticket's event, and SETNX succeeds.
Redeemable(t) == t \in known /\ Unused(t)

\* A session passes.  A token is validated, marked and exchanged for a session;
\* one that is used, or cannot be validated, is a 403; when the answer is lost
\* the token is used and there is no session.  No token, an expired one
\* or an expired session, which the edge function lets through, is a 401.
QueueGuard(d) ==
  LET b == BrowserOf[d]
      t == tab[d].ticket IN
  /\ tab[d].at = "origin"
  /\ \/ /\ tab[d].session # NoTicket
        /\ Enter(d, Claims(d))
        /\ UNCHANGED <<session, used, mishaps>>
     \/ /\ tab[d].session = NoTicket /\ t # NoTicket /\ Redeemable(t)
        /\ used' = used \union {t}
        /\ session' = [session EXCEPT ![b] = t]
        /\ Enter(d, t)
        /\ UNCHANGED mishaps
     \/ /\ tab[d].session = NoTicket /\ t # NoTicket /\ Redeemable(t)
        /\ Mishap("disconnect")
        /\ used' = used \union {t}
        /\ Deny(d, "refused")
        /\ UNCHANGED session
     \/ /\ tab[d].session = NoTicket /\ t # NoTicket
        /\ (~Redeemable(t) /\ UNCHANGED mishaps) \/ Mishap("call_error")
        /\ Deny(d, "refused")
        /\ UNCHANGED <<session, used>>
     \/ /\ \/ tab[d].session = NoTicket /\ t = NoTicket /\ UNCHANGED mishaps
           \/ tab[d].session = NoTicket /\ t # NoTicket /\ Mishap("late_token")
           \/ tab[d].session # NoTicket /\ Mishap("end_session")
        /\ Deny(d, "error_page")
        /\ UNCHANGED <<session, used>>
  /\ UNCHANGED <<roomVars, known, cookie, left, histVars, opens>>

\* "Complete Purchase" reports an exit for the event of the session.
CompletePurchase(d) ==
  /\ tab[d].at = "inside"
  /\ left' = left \union {tab[d].ticket}
  /\ tab' = [tab EXCEPT ![d].at = "closed", ![d].ticket = NoTicket]
  /\ UNCHANGED <<roomVars, known, jarVars, used, histVars, opens, mishaps>>
------------------------------------------------------------------------------
\* The scheduler calls the front of a line and admits who was called.
Scheduler == /\ \/ \E e \in Event : \E S \in SUBSET waiting[e] : S # {} /\ Room!Call(e, S)
                \/ \E t \in Ticket : Room!Admit(t)
             /\ UNCHANGED <<known, jarVars, used, left, tab, histVars, opens, mishaps>>

Answer(d) == \/ Handler(d) \/ FollowRedirect(d) \/ Join(d) \/ JoinAnswer(d)
             \/ Subscribe(d) \/ Admitted(d) \/ QueueGuard(d)

Visitor(d) == \/ \E e \in Event \union {NoEvent}, t \in Ticket \union {NoTicket} : Open(d, e, t)
              \/ \E t \in Ticket : OpenLink(d, t)
              \/ FollowLink(d) \/ CompletePurchase(d)

VisitNext == \/ Scheduler
             \/ \E d \in Tab : Answer(d) \/ Visitor(d) \/ Upgrade(d) \/ StreamFails(d)
             \/ \E b \in Browser : ForgetTicket(b) \/ EndSession(b)
             \/ \E t \in Ticket : ForgetHash(t)

\* Requests are answered, an open waiting page keeps asking, by polls or by its
\* stream, and the scheduler keeps calling and admitting.  When a page changes to
\* the stream, if ever, is left open; visitors and cookies do as they like.
VisitSpec == /\ VisitInit /\ [][VisitNext]_visitVars
             /\ WF_visitVars(Scheduler)
             /\ \A d \in Tab : WF_visitVars(Answer(d) /\ UNCHANGED mishaps)
------------------------------------------------------------------------------
\* Every variable stays in its domain, and the pages that need a ticket have one.
VisitTypeOK ==
  /\ waiting \in [Event -> SUBSET Ticket] /\ called \subseteq Ticket
  /\ admitted \subseteq Ticket /\ used \subseteq Ticket /\ left \subseteq Ticket
  /\ known \subseteq Ticket /\ handed \in [Ticket -> SUBSET Browser]
  /\ cookie \in [Browser -> Ticket \union {NoTicket}]
  /\ session \in [Browser -> Ticket \union {NoTicket}]
  /\ owner \in [Ticket -> Browser \union {NoTicket}]
  /\ tab \in [Tab -> [at : Place, event : Event \union {NoEvent},
                      ticket : Ticket \union {NoTicket},
                      session : Ticket \union {NoTicket}, relative : BOOLEAN]]
  /\ \A d \in Tab : OnPage(d) \/ tab[d].at \in {"resumed", "created", "inside"} =>
                     tab[d].ticket # NoTicket

\* A waiting page hands the token to nobody but the browser whose ticket it is,
\* whatever links to waiting pages are passed on, whichever tab's Join has replaced
\* the cookie, and however the page asks (statusAuthorized, pollOnce, startSSE).
OwnToken == \A t \in Ticket : handed[t] \subseteq {owner[t]}

\* The admissions a browser makes use of: its session, the sessions its requests
\* carry, and the checkout pages that are open in it.
Holds(b) == ({session[b]} \union {tab[d].session : d \in {c \in Tab : BrowserOf[c] = b}}
             \union {tab[d].ticket : d \in {c \in Tab : BrowserOf[c] = b /\ tab[c].at = "inside"}})
            \ {NoTicket}

\* One admission lets one browser in, and nobody gets in without one: also when the
\* address with the token is reloaded, raced for by several tabs or passed on to
\* other browsers, whoever comes first (the edge function, QueueGuard, TOKEN-04).
\* The token's mark does not end here; when it does is Redemption's question.
OneGuest == \A b \in Browser :
  /\ Holds(b) \subseteq used \intersect admitted
  /\ \A c \in Browser \ {b} : Holds(b) \intersect Holds(c) = {}

\* A waiting page, and the address with the token it leads to, are for the event
\* the visitor asked for, although one cookie serves all events (Join,
\* doesTicketExist, targetWithEventID).
RightLine == \A d \in Tab :
  (OnPage(d) \/ tab[d].at \in {"resumed", "created", "edge"}) /\ tab[d].ticket # NoTicket =>
    EventOf[tab[d].ticket] = tab[d].event

\* The browser has this tab only, and the tab is used for one event.
Alone(d) == /\ \A c \in Tab : BrowserOf[c] = BrowserOf[d] => c = d
            /\ \E e \in Event : Wanted[d] = {e}

\* A visitor with one tab and one event stands in line once, however often the
\* address is opened again; each mishap adds at most one place (Join).
OnePlace == \A d \in Tab : Alone(d) =>
  Cardinality({t \in Ticket : owner[t] = BrowserOf[d] /\ Room!Waiting(t)}) <= 1 + mishaps

\* The page will not be told: its stream missed the admission or was refused, or
\* its ticket has no hash.
Stuck(d) == tab[d].at = "silent" \/ (OnPage(d) /\ tab[d].ticket \notin known)

\* The request has no session, and a token that somebody has used or that cannot be
\* validated any more.
Spent(d) == /\ tab[d].at \in {"edge", "origin"} /\ tab[d].session = NoTicket
            /\ tab[d].ticket # NoTicket /\ ~Redeemable(tab[d].ticket)

\* Join is asked for a place of an event with the common waiting page, and the target
\* has a host.
Sent(d) == tab[d].at = "redirect" /\ ~tab[d].relative /\ tab[d].event \notin CustomPage

\* Such a visitor, sent to Join, reaches the checkout page unless another mishap
\* comes in between: also one who opens the address again while being called, and
\* one who lost a token, a cookie, a session or an answer before and starts anew.
\* The only ones who are left standing are stuck on a page that is not told, or at an
\* address whose token is spent.  Excepted are events with a page of their own, and
\* the link of the error page, whose target has no host (Join, statusAuthorized,
\* QueueStatusSSE, handleAdmitted, the edge function, QueueGuard).  The scheduler is
\* taken to admit whom it calls: a batch lost by a stop is PendingIsTransient's case.
GetsIn == \A d \in Tab, n \in 0 .. MaxMishaps : Alone(d) =>
  (Sent(d) /\ mishaps = n
     ~> tab[d].at = "inside" \/ mishaps > n \/ Stuck(d) \/ Spent(d))

\* An admitted visitor is let through to the event: a page that goes to its target
\* with an unused token ends on the checkout page of that token's event.
LetThrough == \A d \in Tab, t \in Ticket :
  (tab[d].at = "edge" /\ tab[d].ticket = t /\ t \notin used) ~>
    \E c \in Tab : tab[c].at = "inside" /\ tab[c].ticket = t
==============================================================================
