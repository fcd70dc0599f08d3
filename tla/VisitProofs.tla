----------------------------- MODULE VisitProofs -----------------------------
(***************************************************************************)
(* The visit from the browser's side, proved for any number of browsers,   *)
(* tabs, events, tickets and mishaps.                                      *)
(***************************************************************************)
EXTENDS Visit, FiniteSetTheorems, TLAPS

\* What OwnToken and RightLine rest on: the lines are not mixed up, a cookie, an
\* answer with a cookie and a stream are for a ticket of their browser, the tokens in
\* addresses and requests are of admitted tickets, and behind the guard they are used.
Belongs ==
  /\ used \subseteq admitted
  /\ \A e \in Event : \A t \in waiting[e] : EventOf[t] = e
  /\ \A b \in Browser : /\ cookie[b] # NoTicket => owner[cookie[b]] = b
                        /\ session[b] # NoTicket => session[b] \in used
  /\ \A t \in Ticket : handed[t] # {} => t \in admitted
  /\ \A d \in Tab :
       /\ tab[d].session # NoTicket => tab[d].session \in used
       /\ tab[d].at \in {"edge", "origin"} /\ tab[d].ticket # NoTicket =>
            tab[d].ticket \in admitted
       /\ tab[d].at = "inside" => tab[d].ticket \in used
       /\ tab[d].at \in {"created", "stream"} => owner[tab[d].ticket] = BrowserOf[d]

VisitInv == VisitTypeOK /\ OwnToken /\ RightLine /\ Belongs

\* The tickets of a browser that stand in line.
Held(b) == {t \in Ticket : owner[t] = b /\ Room!Waiting(t)}

\* The tickets in line besides the one in the cookie, or besides the one in the
\* answer of Join that is under way, are paid for by mishaps.
Spare(d) ==
  LET b == BrowserOf[d] IN
  /\ tab[d].at # "created" => Cardinality(Held(b) \ {cookie[b]}) <= mishaps
  /\ tab[d].at \in {"join", "resumed", "created"} =>
       Cardinality(Held(b) \ {tab[d].ticket}) <= mishaps

OneEvent(d) ==
  \A e \in Event : Wanted[d] = {e} =>
    /\ \A t \in Ticket : owner[t] = BrowserOf[d] => EventOf[t] = e
    /\ tab[d].at \in {"edge", "origin", "redirect", "join", "resumed", "created",
                      "error_page"} => tab[d].event = e

PlaceInv == /\ mishaps \in Nat
            /\ \A d \in Tab : Alone(d) => OneEvent(d) /\ Spare(d)
------------------------------------------------------------------------------
\* The invariant, one tab at a time.
Address == [at : Place, event : Event \union {NoEvent}, ticket : Ticket \union {NoTicket},
            session : Ticket \union {NoTicket}, relative : BOOLEAN]

TabOK(d) ==
  /\ OnPage(d) \/ tab[d].at \in {"resumed", "created", "inside"} => tab[d].ticket # NoTicket
  /\ tab[d].at \in {"edge", "origin"} /\ tab[d].ticket # NoTicket => tab[d].ticket \in admitted
  /\ tab[d].at = "inside" => tab[d].ticket \in used
  /\ (OnPage(d) \/ tab[d].at \in {"resumed", "created", "edge"}) /\ tab[d].ticket # NoTicket =>
       EventOf[tab[d].ticket] = tab[d].event
  /\ tab[d].session # NoTicket => tab[d].session \in used
  /\ tab[d].at \in {"created", "stream"} => owner[tab[d].ticket] = BrowserOf[d]

JarOK ==
  /\ waiting \in [Event -> SUBSET Ticket] /\ called \subseteq Ticket
  /\ admitted \subseteq Ticket /\ used \subseteq admitted /\ left \subseteq Ticket
  /\ known \subseteq Ticket /\ handed \in [Ticket -> SUBSET Browser]
  /\ cookie \in [Browser -> Ticket \union {NoTicket}]
  /\ session \in [Browser -> Ticket \union {NoTicket}]
  /\ owner \in [Ticket -> Browser \union {NoTicket}]
  /\ \A b \in Browser : session[b] # NoTicket => session[b] \in used
  /\ \A e \in Event : \A t \in waiting[e] : EventOf[t] = e
  /\ \A b \in Browser : cookie[b] # NoTicket => owner[cookie[b]] = b
  /\ \A t \in Ticket : handed[t] \subseteq {owner[t]} /\ (handed[t] # {} => t \in admitted)

\* The two forms are the same.
LEMMA InvByTab == VisitInv <=> JarOK /\ tab \in [Tab -> Address] /\ \A d \in Tab : TabOK(d)
BY DEF VisitInv, VisitTypeOK, OwnToken, RightLine, Belongs, JarOK, TabOK, Address

\* Tickets keep their owner, tokens stay used and admissions stay.
Lasting == /\ \A t \in Ticket : owner[t] # NoTicket => owner'[t] = owner[t]
           /\ used \subseteq used' /\ admitted \subseteq admitted'

\* A tab whose address does not change stays right.
LEMMA TabKept ==
  ASSUME VisitInv, Lasting, NEW d \in Tab, tab'[d] = tab[d]
  PROVE  TabOK(d)'
<1>1. TabOK(d) /\ tab[d] \in Address /\ BrowserOf[d] \in Browser
  BY InvByTab, VisitAssumption
<1>2. /\ tab[d].ticket \in Ticket \union {NoTicket} /\ tab[d].session \in Ticket \union {NoTicket}
      /\ BrowserOf[d] # NoTicket
  BY <1>1, VisitAssumption DEF Address
<1>3. QED
  BY <1>1, <1>2 DEF TabOK, Lasting, OnPage

\* A step of one tab.
LEMMA TabStep ==
  ASSUME VisitInv, Lasting, JarOK', NEW d \in Tab, NEW a \in Address,
         tab' = [tab EXCEPT ![d] = a], TabOK(d)'
  PROVE  VisitInv'
<1>1. tab \in [Tab -> Address]
  BY InvByTab
<1>2. tab' \in [Tab -> Address] /\ \A c \in Tab \ {d} : tab'[c] = tab[c]
  BY <1>1
<1>3. \A c \in Tab : TabOK(c)'
  BY <1>2, TabKept
<1>4. JarOK' /\ tab' \in [Tab -> Address] /\ \A c \in Tab : TabOK(c)'
  BY <1>2, <1>3
<1>5. QED
  BY <1>4 DEF VisitInv, VisitTypeOK, OwnToken, RightLine, Belongs, JarOK, TabOK, Address

\* A step that opens or changes no address.
LEMMA JarStep ==
  ASSUME VisitInv, Lasting, JarOK', tab' = tab
  PROVE  VisitInv'
<1>1. JarOK' /\ tab' \in [Tab -> Address] /\ \A c \in Tab : TabOK(c)'
  BY TabKept, InvByTab
<1>2. QED
  BY <1>1 DEF VisitInv, VisitTypeOK, OwnToken, RightLine, Belongs, JarOK, TabOK, Address

\* What the visitor does: addresses are opened and links followed.
LEMMA BrowserStep ==
  ASSUME VisitInv, NEW d \in Tab,
         \/ \E e \in Event \union {NoEvent}, t \in Ticket \union {NoTicket} : Open(d, e, t)
         \/ \E t \in Ticket : OpenLink(d, t)
         \/ FollowRedirect(d) \/ FollowLink(d) \/ CompletePurchase(d)
  PROVE  VisitInv'
<1> USE DEF roomVars, jarVars, histVars, OnPage
<1>1. JarOK /\ tab \in [Tab -> Address] /\ TabOK(d) /\ BrowserOf[d] \in Browser
  BY InvByTab, VisitAssumption
<1>2. /\ tab[d] \in Address /\ tab[d].ticket \in Ticket \union {NoTicket}
      /\ session[BrowserOf[d]] \in Ticket \union {NoTicket}
      /\ cookie[BrowserOf[d]] \in Ticket \union {NoTicket}
  BY <1>1 DEF Address, JarOK
<1>3. ASSUME UNCHANGED <<roomVars, known, jarVars, used, left, histVars>>
      PROVE  Lasting /\ JarOK'
  BY <1>1, <1>3 DEF Lasting, JarOK
<1>4. ASSUME NEW e \in Event \union {NoEvent}, NEW t \in Ticket \union {NoTicket}, Open(d, e, t)
      PROVE  VisitInv'
  <2> DEFINE a == [at |-> "edge", event |-> e, ticket |-> t,
                   session |-> session[BrowserOf[d]], relative |-> FALSE]
  <2>1. a \in Address
    BY <1>2 DEF Address, Place
  <2>2. tab' = [tab EXCEPT ![d] = a] /\ UNCHANGED <<roomVars, known, jarVars, used, left, histVars>>
    BY <1>4 DEF Open, Opens
  <2>3. tab'[d] = a
    BY <1>1, <2>2
  <2>4. TabOK(d)'
    <3>1. t # NoTicket => t \in Ticket /\ t \in admitted /\ EventOf[t] = e
      BY <1>1, <1>4 DEF Open, JarOK
    <3>2. QED
      BY <1>1, <2>2, <2>3, <3>1 DEF TabOK, JarOK
  <2>5. QED
    BY <1>3, <2>1, <2>2, <2>4, TabStep
<1>5. ASSUME NEW t \in Ticket, OpenLink(d, t)
      PROVE  VisitInv'
  <2> DEFINE a == [tab[d] EXCEPT !.at = "page", !.event = EventOf[t], !.ticket = t]
  <2>1. a \in Address
    BY <1>2, VisitAssumption DEF Address, Place
  <2>2. tab' = [tab EXCEPT ![d] = a] /\ UNCHANGED <<roomVars, known, jarVars, used, left, histVars>>
    BY <1>1, <1>5 DEF OpenLink
  <2>3. /\ tab'[d].at = "page" /\ tab'[d].event = EventOf[t] /\ tab'[d].ticket = t
        /\ tab'[d].session = tab[d].session
    BY <1>1, <1>2, <2>2 DEF Address
  <2>4. TabOK(d)'
    BY <1>1, <2>2, <2>3, VisitAssumption DEF TabOK
  <2>5. QED
    BY <1>3, <2>1, <2>2, <2>4, TabStep
<1>6. ASSUME FollowRedirect(d)
      PROVE  VisitInv'
  <2> DEFINE a == [tab[d] EXCEPT !.at = "join", !.ticket = cookie[BrowserOf[d]]]
  <2>1. a \in Address
    BY <1>2 DEF Address, Place
  <2>2. tab' = [tab EXCEPT ![d] = a] /\ UNCHANGED <<roomVars, known, jarVars, used, left, histVars>>
    BY <1>1, <1>6 DEF FollowRedirect
  <2>3. tab'[d].at = "join" /\ tab'[d].session = tab[d].session
    BY <1>1, <1>2, <2>2 DEF Address
  <2>4. TabOK(d)'
    BY <1>1, <2>2, <2>3 DEF TabOK
  <2>5. QED
    BY <1>3, <2>1, <2>2, <2>4, TabStep
<1>7. ASSUME FollowLink(d)
      PROVE  VisitInv'
  <2> DEFINE a == [tab[d] EXCEPT !.at = "redirect", !.relative = TRUE]
  <2>1. a \in Address
    BY <1>2 DEF Address, Place
  <2>2. tab' = [tab EXCEPT ![d] = a] /\ UNCHANGED <<roomVars, known, jarVars, used, left, histVars>>
    BY <1>1, <1>7 DEF FollowLink
  <2>3. tab'[d].at = "redirect" /\ tab'[d].session = tab[d].session
    BY <1>1, <1>2, <2>2 DEF Address
  <2>4. TabOK(d)'
    BY <1>1, <2>2, <2>3 DEF TabOK
  <2>5. QED
    BY <1>3, <2>1, <2>2, <2>4, TabStep
<1>8. ASSUME CompletePurchase(d)
      PROVE  VisitInv'
  <2> DEFINE a == [tab[d] EXCEPT !.at = "closed", !.ticket = NoTicket]
  <2>1. a \in Address
    BY <1>2 DEF Address, Place
  <2>2. /\ tab' = [tab EXCEPT ![d] = a] /\ UNCHANGED <<roomVars, known, jarVars, used, histVars>>
        /\ left' = left \union {tab[d].ticket} /\ tab[d].at = "inside"
    BY <1>1, <1>8 DEF CompletePurchase
  <2>3. tab'[d].at = "closed" /\ tab'[d].session = tab[d].session
    BY <1>1, <1>2, <2>2 DEF Address
  <2>4. TabOK(d)'
    BY <1>1, <2>2, <2>3 DEF TabOK
  <2>5. Lasting /\ JarOK'
    BY <1>1, <1>2, <2>2 DEF Lasting, JarOK, TabOK
  <2>6. QED
    BY <2>1, <2>2, <2>4, <2>5, TabStep
<1>9. QED
  BY <1>4, <1>5, <1>6, <1>7, <1>8

\* The edge function passes a token on or drops it.
LEMMA HandlerStep ==
  ASSUME VisitInv, NEW d \in Tab, Handler(d)
  PROVE  VisitInv'
<1> USE DEF roomVars, jarVars, histVars, OnPage
<1>1. JarOK /\ tab \in [Tab -> Address] /\ TabOK(d) /\ tab[d] \in Address
  BY InvByTab
<1>2. PICK at \in {"origin", "refused", "redirect"}, t \in {NoTicket, tab[d].ticket} :
        tab' = [tab EXCEPT ![d].at = at, ![d].ticket = t]
  BY DEF Handler, AdmissionCookie
<1>3. /\ UNCHANGED <<roomVars, known, jarVars, used, left, histVars>> /\ tab[d].at = "edge"
  BY DEF Handler
<1> DEFINE a == [tab[d] EXCEPT !.at = at, !.ticket = t]
<1>4. a \in Address /\ tab' = [tab EXCEPT ![d] = a]
  BY <1>1, <1>2 DEF Address, Place
<1>5. tab'[d].at = at /\ tab'[d].ticket = t /\ tab'[d].session = tab[d].session
  BY <1>1, <1>2, <1>4 DEF Address
<1>6. TabOK(d)'
  BY <1>1, <1>2, <1>3, <1>5 DEF TabOK
<1>7. Lasting /\ JarOK'
  BY <1>1, <1>3 DEF Lasting, JarOK
<1>8. QED
  BY <1>4, <1>6, <1>7, TabStep

\* Join resumes a place of the right line or creates one for this browser.
LEMMA JoinStep ==
  ASSUME VisitInv, NEW d \in Tab, Join(d)
  PROVE  VisitInv'
<1> USE DEF roomVars, jarVars, histVars, OnPage
<1>1. /\ JarOK /\ tab \in [Tab -> Address] /\ TabOK(d) /\ tab[d] \in Address
      /\ BrowserOf[d] \in Browser /\ BrowserOf[d] # NoTicket /\ tab[d].at = "join"
      /\ UNCHANGED <<jarVars, used, left, handed>>
  BY InvByTab, VisitAssumption DEF Join
<1>2. CASE tab' = [tab EXCEPT ![d].at = "refused"] /\ UNCHANGED <<roomVars, known, owner>>
  <2> DEFINE a == [tab[d] EXCEPT !.at = "refused"]
  <2>1. a \in Address /\ tab' = [tab EXCEPT ![d] = a]
    BY <1>1, <1>2 DEF Address, Place
  <2>2. tab'[d].at = "refused" /\ tab'[d].session = tab[d].session
    BY <1>1, <1>2, <2>1 DEF Address
  <2>3. TabOK(d)'
    BY <1>1, <1>2, <2>2 DEF TabOK
  <2>4. Lasting /\ JarOK'
    BY <1>1, <1>2 DEF Lasting, JarOK
  <2>5. QED
    BY <2>1, <2>3, <2>4, TabStep
<1>3. CASE /\ tab[d].event # NoEvent /\ DoesTicketExist(tab[d].event, tab[d].ticket)
           /\ tab' = [tab EXCEPT ![d].at = "resumed"] /\ UNCHANGED <<roomVars, known, owner>>
  <2> DEFINE a == [tab[d] EXCEPT !.at = "resumed"]
  <2>1. a \in Address /\ tab' = [tab EXCEPT ![d] = a]
    BY <1>1, <1>3 DEF Address, Place
  <2>2. /\ tab'[d].at = "resumed" /\ tab'[d].session = tab[d].session
        /\ tab'[d].ticket = tab[d].ticket /\ tab'[d].event = tab[d].event
    BY <1>1, <1>3, <2>1 DEF Address
  <2>3. tab[d].ticket # NoTicket /\ EventOf[tab[d].ticket] = tab[d].event
    BY <1>1, <1>3 DEF DoesTicketExist, JarOK, Address
  <2>4. TabOK(d)'
    BY <1>1, <1>3, <2>2, <2>3 DEF TabOK
  <2>5. Lasting /\ JarOK'
    BY <1>1, <1>3 DEF Lasting, JarOK
  <2>6. QED
    BY <2>1, <2>4, <2>5, TabStep
<1>4. ASSUME NEW t \in Ticket, Fresh(tab[d].event, t), Room!Arrive(t),
             known' \in {known, known \union {t}},
             owner' = [owner EXCEPT ![t] = BrowserOf[d]],
             tab' = [tab EXCEPT ![d].at = "created", ![d].ticket = t]
      PROVE  VisitInv'
  <2> DEFINE a == [tab[d] EXCEPT !.at = "created", !.ticket = t]
  <2>1. a \in Address /\ tab' = [tab EXCEPT ![d] = a]
    BY <1>1, <1>4 DEF Address, Place
  <2>2. /\ tab'[d].at = "created" /\ tab'[d].session = tab[d].session
        /\ tab'[d].ticket = t /\ tab'[d].event = tab[d].event
    BY <1>1, <1>4, <2>1 DEF Address
  <2>3. /\ t # NoTicket /\ EventOf[t] = tab[d].event /\ owner[t] = NoTicket
        /\ EventOf[t] \in Event /\ owner'[t] = BrowserOf[d]
    BY <1>1, <1>4, VisitAssumption DEF Fresh, JarOK
  <2>4. /\ waiting' = [waiting EXCEPT ![EventOf[t]] = @ \union {t}]
        /\ called' = called /\ admitted' = admitted
    BY <1>4 DEF Room!Arrive
  <2>5. \A u \in Ticket \ {t} : owner'[u] = owner[u]
    BY <1>1, <1>4 DEF JarOK
  <2>6. Lasting
    BY <1>1, <2>3, <2>4, <2>5 DEF Lasting
  <2>7. JarOK'
    <3>1. waiting' \in [Event -> SUBSET Ticket] /\ owner' \in [Ticket -> Browser \union {NoTicket}]
      BY <1>1, <1>4, <2>4 DEF JarOK
    <3>2. \A e \in Event : \A u \in waiting'[e] : EventOf[u] = e
      BY <1>1, <2>3, <2>4 DEF JarOK
    <3>3. \A b \in Browser : cookie[b] # NoTicket => owner'[cookie[b]] = b
      <4> SUFFICES ASSUME NEW b \in Browser, cookie[b] # NoTicket
                   PROVE  owner'[cookie[b]] = b
        OBVIOUS
      <4>1. b # NoTicket /\ cookie[b] \in Ticket /\ owner[cookie[b]] = b
        BY <1>1, VisitAssumption DEF JarOK
      <4>2. QED
        BY <2>6, <4>1 DEF Lasting
    <3>4. \A u \in Ticket : handed[u] \subseteq {owner'[u]}
      <4>1. handed[t] = {}
        BY <1>1, <2>3, VisitAssumption DEF JarOK
      <4>2. QED
        BY <1>1, <2>5, <4>1 DEF JarOK
    <3>5. QED
      BY <1>1, <1>4, <2>4, <3>1, <3>2, <3>3, <3>4 DEF JarOK
  <2>8. TabOK(d)'
    BY <1>1, <2>2, <2>3 DEF TabOK
  <2>9. QED
    BY <2>1, <2>6, <2>7, <2>8, TabStep
<1>5. QED
  BY <1>2, <1>3, <1>4 DEF Join, CreateTicket

\* The answer of Join puts the browser's own ticket into its jar.
LEMMA JoinAnswerStep ==
  ASSUME VisitInv, NEW d \in Tab, JoinAnswer(d)
  PROVE  VisitInv'
<1> USE DEF roomVars, jarVars, histVars, OnPage
<1>1. /\ JarOK /\ tab \in [Tab -> Address] /\ TabOK(d) /\ tab[d] \in Address
      /\ BrowserOf[d] \in Browser /\ tab[d].ticket \in Ticket \union {NoTicket}
      /\ UNCHANGED <<roomVars, known, session, used, left, histVars>>
      /\ tab[d].at \in {"resumed", "created"}
  BY InvByTab, VisitAssumption DEF JoinAnswer, Address
<1>2. PICK at \in {"page", "custom", "refused"} :
        \/ at # "custom" /\ tab' = [tab EXCEPT ![d].at = at]
        \/ at = "custom" /\ tab' = [tab EXCEPT ![d].at = at, ![d].ticket = NoTicket]
  BY DEF JoinAnswer
<1> DEFINE a == [tab[d] EXCEPT !.at = at,
                               !.ticket = IF at = "custom" THEN NoTicket ELSE tab[d].ticket]
<1>3. a \in Address
  BY <1>1 DEF Address, Place
<1>4. tab' = [tab EXCEPT ![d] = a]
  BY <1>1, <1>2 DEF Address
<1>5. /\ tab'[d].at = at /\ tab'[d].session = tab[d].session /\ tab'[d].event = tab[d].event
      /\ at = "page" => tab'[d].ticket = tab[d].ticket
  BY <1>1, <1>4 DEF Address
<1>6. TabOK(d)'
  BY <1>1, <1>5 DEF TabOK
<1>7. cookie' = cookie \/ (/\ tab[d].at = "created"
                           /\ cookie' = [cookie EXCEPT ![BrowserOf[d]] = tab[d].ticket])
  BY DEF JoinAnswer, JarAfter
<1>8. JarOK'
  BY <1>1, <1>7 DEF JarOK, TabOK
<1>9. Lasting
  BY <1>1 DEF Lasting
<1>10. QED
  BY <1>3, <1>4, <1>6, <1>8, <1>9, TabStep

\* The page changes to its stream, and the stream is for a ticket of the browser.
LEMMA StreamStep ==
  ASSUME VisitInv, NEW d \in Tab, Upgrade(d) \/ Subscribe(d) \/ StreamFails(d)
  PROVE  VisitInv'
<1> USE DEF roomVars, jarVars, histVars, OnPage
<1>1. /\ JarOK /\ tab \in [Tab -> Address] /\ TabOK(d) /\ tab[d] \in Address
      /\ BrowserOf[d] \in Browser /\ OnPage(d)
  BY InvByTab, VisitAssumption DEF Upgrade, Subscribe, StreamFails
<1>2. PICK at \in {"upgraded", "stream", "silent"} :
        Goes(d, at) /\ (at = "stream" => StatusAuthorized(d))
  BY DEF Upgrade, Subscribe, StreamFails
<1> DEFINE a == [tab[d] EXCEPT !.at = at]
<1>3. a \in Address /\ tab' = [tab EXCEPT ![d] = a]
  BY <1>1, <1>2 DEF Goes, Address, Place
<1>4. /\ tab'[d].at = at /\ tab'[d].session = tab[d].session
      /\ tab'[d].event = tab[d].event /\ tab'[d].ticket = tab[d].ticket
      /\ UNCHANGED <<roomVars, known, jarVars, used, left, histVars>>
  BY <1>1, <1>2, <1>3 DEF Goes, Address
<1>5. at = "stream" => owner[tab[d].ticket] = BrowserOf[d]
  BY <1>1, <1>2 DEF StatusAuthorized, JarOK, TabOK
<1>6. TabOK(d)'
  BY <1>1, <1>4, <1>5 DEF TabOK
<1>7. Lasting /\ JarOK'
  BY <1>1, <1>4 DEF Lasting, JarOK
<1>8. QED
  BY <1>3, <1>6, <1>7, TabStep

\* A token is handed out only to the browser whose cookie names the ticket, or did
\* when the stream was opened.
LEMMA AdmittedStep ==
  ASSUME VisitInv, NEW d \in Tab, Admitted(d)
  PROVE  VisitInv'
<1> USE DEF roomVars, jarVars, histVars, OnPage
<1>1. /\ JarOK /\ tab \in [Tab -> Address] /\ TabOK(d) /\ tab[d] \in Address
      /\ BrowserOf[d] \in Browser /\ UNCHANGED <<roomVars, known, jarVars, used, left, owner>>
      /\ OnPage(d) /\ tab[d].ticket \in admitted /\ tab[d].ticket \in Ticket
      /\ (tab[d].at = "page" /\ StatusAuthorized(d)) \/ tab[d].at = "stream"
  BY InvByTab, VisitAssumption DEF Admitted, JarOK
<1>2. PICK at \in {"nowhere", "edge"} :
        tab' = [tab EXCEPT ![d].at = at, ![d].session = session[BrowserOf[d]]]
  BY DEF Admitted
<1> DEFINE a == [tab[d] EXCEPT !.at = at, !.session = session[BrowserOf[d]]]
<1>3. a \in Address
  BY <1>1 DEF Address, Place, JarOK
<1>4. tab' = [tab EXCEPT ![d] = a]
  BY <1>1, <1>2
<1>5. /\ tab'[d].at = at /\ tab'[d].session = session[BrowserOf[d]]
      /\ tab'[d].event = tab[d].event /\ tab'[d].ticket = tab[d].ticket
  BY <1>1, <1>4 DEF Address
<1>6. owner[tab[d].ticket] = BrowserOf[d] /\ tab[d].ticket # NoTicket
  BY <1>1 DEF StatusAuthorized, JarOK, TabOK
<1>7. TabOK(d)'
  BY <1>1, <1>5, <1>6 DEF TabOK, JarOK
<1>8. JarOK'
  <2>1. \/ handed' = handed
        \/ handed' = [handed EXCEPT ![tab[d].ticket] = @ \union {BrowserOf[d]}]
    <3>1. CASE tab[d].relative
      BY <1>1, <3>1 DEF Admitted, JarOK
    <3>2. CASE ~tab[d].relative
      BY <3>2 DEF Admitted
    <3>3. QED
      BY <3>1, <3>2
  <2>2. /\ handed' \in [Ticket -> SUBSET Browser]
        /\ \A t \in Ticket : handed'[t] \subseteq {owner[t]} /\ (handed'[t] # {} => t \in admitted)
    BY <1>1, <1>6, <2>1 DEF JarOK
  <2>3. QED
    BY <1>1, <2>2 DEF JarOK
<1>9. Lasting
  BY <1>1 DEF Lasting
<1>10. QED
  BY <1>3, <1>4, <1>7, <1>8, <1>9, TabStep

\* The guard lets a session in, or a token that it marks as used.
LEMMA GuardStep ==
  ASSUME VisitInv, NEW d \in Tab, QueueGuard(d)
  PROVE  VisitInv'
<1> USE DEF roomVars, jarVars, histVars, OnPage
<1>1. /\ JarOK /\ tab \in [Tab -> Address] /\ TabOK(d) /\ tab[d] \in Address
      /\ BrowserOf[d] \in Browser /\ UNCHANGED <<roomVars, known, cookie, left, histVars>>
      /\ tab[d].at = "origin" /\ tab[d].ticket \in Ticket \union {NoTicket}
      /\ tab[d].session \in Ticket \union {NoTicket}
  BY InvByTab, VisitAssumption DEF QueueGuard, Address
<1>2. used' = used \/ (tab[d].ticket # NoTicket /\ used' = used \union {tab[d].ticket})
  BY DEF QueueGuard
<1>3. \/ session' = session
      \/ /\ session' = [session EXCEPT ![BrowserOf[d]] = tab[d].ticket]
         /\ tab[d].ticket # NoTicket /\ used' = used \union {tab[d].ticket}
  BY DEF QueueGuard
<1>4. Lasting /\ used' \subseteq admitted
  BY <1>1, <1>2 DEF Lasting, TabOK, JarOK
<1>5. JarOK'
  <2>1. session' \in [Browser -> Ticket \union {NoTicket}]
    BY <1>1, <1>3 DEF JarOK
  <2>2. \A b \in Browser : session'[b] # NoTicket => session'[b] \in used'
    BY <1>1, <1>2, <1>3 DEF JarOK
  <2>3. QED
    BY <1>1, <1>4, <2>1, <2>2 DEF JarOK
<1>6. ASSUME NEW t \in Ticket, Enter(d, t), t \in used'
      PROVE  VisitInv'
  <2> DEFINE a == [tab[d] EXCEPT !.at = "inside", !.ticket = t, !.session = NoTicket]
  <2>1. a \in Address
    BY <1>1 DEF Address, Place
  <2>2. tab' = [tab EXCEPT ![d] = a]
    BY <1>1, <1>6 DEF Enter
  <2>3. tab'[d].at = "inside" /\ tab'[d].ticket = t /\ tab'[d].session = NoTicket
    BY <1>1, <2>2 DEF Address
  <2>4. TabOK(d)'
    BY <1>1, <1>4, <1>6, <2>3, VisitAssumption DEF TabOK
  <2>5. QED
    BY <1>4, <1>5, <2>1, <2>2, <2>4, TabStep
<1>7. ASSUME NEW page \in {"refused", "error_page"}, Deny(d, page)
      PROVE  VisitInv'
  <2> DEFINE a == [tab[d] EXCEPT !.at = page, !.ticket = NoTicket, !.session = NoTicket]
  <2>1. a \in Address
    BY <1>1 DEF Address, Place
  <2>2. tab' = [tab EXCEPT ![d] = a]
    BY <1>1, <1>7 DEF Deny
  <2>3. tab'[d].at = page /\ tab'[d].session = NoTicket
    BY <1>1, <2>2 DEF Address
  <2>4. TabOK(d)'
    BY <2>3 DEF TabOK
  <2>5. QED
    BY <1>4, <1>5, <2>1, <2>2, <2>4, TabStep
<1>8. CASE tab[d].session # NoTicket /\ Enter(d, Claims(d))
  <2>1. tab[d].session \in Ticket /\ tab[d].session \in used'
    BY <1>1, <1>2, <1>8 DEF TabOK
  <2>2. QED
    BY <1>6, <1>8, <2>1 DEF Claims
<1>9. CASE tab[d].ticket # NoTicket /\ used' = used \union {tab[d].ticket} /\ Enter(d, tab[d].ticket)
  <2>1. tab[d].ticket \in Ticket /\ tab[d].ticket \in used'
    BY <1>1, <1>9 DEF TabOK
  <2>2. QED
    BY <1>6, <1>9, <2>1
<1>10. QED
  BY <1>7, <1>8, <1>9 DEF QueueGuard

\* Every action keeps the invariant.
LEMMA VisitStep ==
  ASSUME VisitInv, [VisitNext]_visitVars
  PROVE  VisitInv'
<1> USE DEF roomVars, jarVars, histVars, OnPage
<1>1. JarOK
  BY InvByTab
<1>2. CASE UNCHANGED visitVars
  <2>1. Lasting /\ JarOK' /\ tab' = tab
    BY <1>1, <1>2 DEF visitVars, Lasting, JarOK
  <2>2. QED
    BY <2>1, JarStep
<1>3. CASE Scheduler
  <2>1. /\ UNCHANGED <<known, jarVars, used, left, tab, histVars>>
        /\ called' \subseteq Ticket /\ admitted' \subseteq Ticket /\ admitted \subseteq admitted'
        /\ waiting' \in [Event -> SUBSET Ticket]
        /\ \A e \in Event : waiting'[e] \subseteq waiting[e]
    <3>1. ASSUME NEW e \in Event, NEW S \in SUBSET waiting[e], Room!Call(e, S)
          PROVE  /\ called' \subseteq Ticket /\ admitted' = admitted
                 /\ waiting' \in [Event -> SUBSET Ticket]
                 /\ \A f \in Event : waiting'[f] \subseteq waiting[f]
      BY <1>1, <3>1 DEF Room!Call, JarOK
    <3>2. ASSUME NEW t \in Ticket, Room!Admit(t)
          PROVE  /\ called' \subseteq Ticket /\ admitted' \subseteq Ticket
                 /\ admitted \subseteq admitted' /\ waiting' = waiting
      BY <1>1, <3>2 DEF Room!Admit, JarOK
    <3>3. waiting \in [Event -> SUBSET Ticket] /\ admitted \subseteq Ticket
      BY <1>1 DEF JarOK
    <3>4. QED
      BY <1>3, <3>1, <3>2, <3>3 DEF Scheduler
  <2>2. Lasting /\ JarOK'
    BY <1>1, <2>1 DEF Lasting, JarOK
  <2>3. QED
    BY <2>1, <2>2, JarStep
<1>4. ASSUME NEW d \in Tab, Answer(d) \/ Visitor(d) \/ Upgrade(d) \/ StreamFails(d)
      PROVE  VisitInv'
  BY <1>4, BrowserStep, HandlerStep, JoinStep, JoinAnswerStep, StreamStep, AdmittedStep,
     GuardStep
     DEF Answer, Visitor
<1>5. ASSUME NEW b \in Browser, ForgetTicket(b) \/ EndSession(b)
      PROVE  VisitInv'
  <2>1. /\ UNCHANGED <<roomVars, known, used, left, tab, histVars>>
        /\ cookie' = cookie \/ cookie' = [cookie EXCEPT ![b] = NoTicket]
        /\ session' = session \/ session' = [session EXCEPT ![b] = NoTicket]
    BY <1>5 DEF ForgetTicket, EndSession
  <2>2. Lasting
    BY <1>1, <2>1 DEF Lasting
  <2>3. JarOK'
    BY <1>1, <2>1 DEF JarOK
  <2>4. QED
    BY <2>1, <2>2, <2>3, JarStep
<1>6. ASSUME NEW t \in Ticket, ForgetHash(t)
      PROVE  VisitInv'
  <2>1. Lasting /\ JarOK' /\ tab' = tab
    BY <1>1, <1>6 DEF ForgetHash, Lasting, JarOK
  <2>2. QED
    BY <2>1, JarStep
<1>7. QED
  BY <1>2, <1>3, <1>4, <1>5, <1>6 DEF VisitNext

\* The invariant holds of every visit.
LEMMA VisitInvCorrect == VisitSpec => []VisitInv
<1>1. VisitInit => VisitInv
  <2> SUFFICES ASSUME VisitInit PROVE VisitInv
    OBVIOUS
  <2>1. JarOK
    BY DEF VisitInit, JarOK
  <2>2. tab \in [Tab -> Address] /\ \A d \in Tab : TabOK(d)
    BY DEF VisitInit, Address, Place, TabOK, OnPage
  <2>3. QED
    BY <2>1, <2>2, InvByTab
<1>2. VisitInv /\ [VisitNext]_visitVars => VisitInv'
  BY VisitStep
<1>3. QED
  BY <1>1, <1>2, PTL DEF VisitSpec

\* Cookies, sessions, addresses and lines stay in their domains, and the answers
\* and pages that need a ticket have one (Join, QueueGuard, checkoutHandler).
THEOREM VisitTypeCorrect == VisitSpec => []VisitTypeOK
<1>1. VisitInv => VisitTypeOK
  BY DEF VisitInv
<1>2. QED
  BY <1>1, VisitInvCorrect, PTL

\* A waiting page hands the token to nobody but the browser whose ticket it is,
\* whatever links to waiting pages are passed on, however the tabs of a browser
\* interleave and however the page asks (statusAuthorized, QueueStatusSSE).
THEOREM OwnTokenCorrect == VisitSpec => []OwnToken
<1>1. VisitInv => OwnToken
  BY DEF VisitInv
<1>2. QED
  BY <1>1, VisitInvCorrect, PTL

\* A waiting page, and the address with the token it leads to, are for the event
\* the visitor asked for (Join, doesTicketExist, targetWithEventID).
THEOREM RightLineCorrect == VisitSpec => []RightLine
<1>1. VisitInv => RightLine
  BY DEF VisitInv
<1>2. QED
  BY <1>1, VisitInvCorrect, PTL
------------------------------------------------------------------------------
(***************************************************************************)
(* One guest for an admission, also when the address with the token is     *)
(* passed on.                                                              *)
(***************************************************************************)

\* What a tab makes use of.
Uses(d, x) == x # NoTicket /\ (x = tab[d].session \/ (tab[d].at = "inside" /\ x = tab[d].ticket))

\* No admission is made use of in two browsers.
Apart == \A b \in Browser, c \in Browser : b # c => Holds(b) \intersect Holds(c) = {}

\* What is held, one place at a time.
LEMMA HoldsBy ==
  ASSUME NEW b \in Browser, NEW x
  PROVE  x \in Holds(b) <=> \/ x # NoTicket /\ x = session[b]
                            \/ \E d \in Tab : BrowserOf[d] = b /\ Uses(d, x)
BY DEF Holds, Uses

\* Nobody holds what is not used.
LEMMA HeldIsUsed ==
  ASSUME VisitInv, NEW b \in Browser
  PROVE  Holds(b) \subseteq used \intersect admitted
<1>1. JarOK /\ \A d \in Tab : TabOK(d)
  BY InvByTab
<1>2. QED
  BY <1>1, HoldsBy DEF Uses, JarOK, TabOK

\* A step in which nobody comes to hold more keeps them apart.
LEMMA NothingNew ==
  ASSUME Apart,
         \A b \in Browser : session'[b] \in {session[b], NoTicket},
         \A d \in Tab : \A x : Uses(d, x)' => Uses(d, x) \/ x = session[BrowserOf[d]],
         \A d \in Tab : BrowserOf[d] \in Browser
  PROVE  Apart'
<1>1. ASSUME NEW b \in Browser, NEW x, x \in Holds(b)'
      PROVE  x \in Holds(b)
  <2>1. x # NoTicket
    BY <1>1 DEF Holds
  <2>2. \/ x = session'[b]
        \/ \E d \in Tab : BrowserOf[d] = b /\ Uses(d, x)'
    BY <1>1 DEF Holds, Uses
  <2>3. QED
    BY <2>1, <2>2, HoldsBy
<1>2. QED
  BY <1>1 DEF Apart

\* So does a step in which one browser comes to hold a token that was not used.
LEMMA OneNew ==
  ASSUME VisitInv, Apart, NEW d \in Tab, NEW t, t \notin used, BrowserOf[d] \in Browser,
         \A b \in Browser : \/ session'[b] = session[b]
                            \/ b = BrowserOf[d] /\ session'[b] = t,
         \A c \in Tab : \A x : Uses(c, x)' => Uses(c, x) \/ (c = d /\ x = t)
  PROVE  Apart'
<1>1. ASSUME NEW b \in Browser, NEW x, x \in Holds(b)'
      PROVE  x \in Holds(b) \/ (b = BrowserOf[d] /\ x = t)
  <2>1. x # NoTicket
    BY <1>1 DEF Holds
  <2>2. \/ x = session'[b]
        \/ \E c \in Tab : BrowserOf[c] = b /\ Uses(c, x)'
    BY <1>1 DEF Holds, Uses
  <2>3. QED
    BY <2>1, <2>2, HoldsBy
<1>2. \A b \in Browser : t \notin Holds(b)
  BY HeldIsUsed
<1>3. QED
  BY <1>1, <1>2 DEF Apart

\* Only the guard lets a token in, and only an unused one.
LEMMA ApartStep ==
  ASSUME VisitInv, Apart, [VisitNext]_visitVars
  PROVE  Apart'
<1> USE DEF roomVars, jarVars, histVars
<1>1. /\ JarOK /\ tab \in [Tab -> Address] /\ \A d \in Tab : BrowserOf[d] \in Browser
  BY InvByTab, VisitAssumption
<1>2. CASE tab' = tab /\ \A b \in Browser : session'[b] \in {session[b], NoTicket}
  <2>1. \A d \in Tab : \A x : Uses(d, x)' => Uses(d, x)
    BY <1>2 DEF Uses
  <2>2. QED
    BY <1>1, <1>2, <2>1, NothingNew
<1>3. ASSUME NEW d \in Tab, session' = session, \A c \in Tab \ {d} : tab'[c] = tab[c],
             tab'[d].at # "inside",
             tab'[d].session \in {tab[d].session, session[BrowserOf[d]], NoTicket}
      PROVE  Apart'
  <2>1. \A c \in Tab : \A x : Uses(c, x)' => Uses(c, x) \/ x = session[BrowserOf[c]]
    BY <1>3 DEF Uses
  <2>2. QED
    BY <1>1, <1>3, <2>1, NothingNew
<1>4. ASSUME NEW d \in Tab,
             \/ \E e \in Event \union {NoEvent}, t \in Ticket \union {NoTicket} : Open(d, e, t)
             \/ \E t \in Ticket : OpenLink(d, t)
             \/ Handler(d) \/ FollowRedirect(d) \/ FollowLink(d) \/ CompletePurchase(d)
             \/ Join(d) \/ JoinAnswer(d) \/ Upgrade(d) \/ Subscribe(d) \/ StreamFails(d)
             \/ Admitted(d)
      PROVE  Apart'
  <2>1. session' = session
    BY <1>4 DEF Open, OpenLink, Handler, FollowRedirect, FollowLink, CompletePurchase, Join,
       JoinAnswer, Upgrade, Subscribe, StreamFails, Goes, Admitted
  <2>2. \A c \in Tab \ {d} : tab'[c] = tab[c]
    BY <1>1, <1>4 DEF Open, OpenLink, Handler, FollowRedirect, FollowLink, CompletePurchase,
       Join, CreateTicket, JoinAnswer, Upgrade, Subscribe, StreamFails, Goes, Admitted
  <2>3. tab'[d].at # "inside" /\ tab'[d].session \in {tab[d].session, session[BrowserOf[d]]}
    <3>1. ASSUME NEW e \in Event \union {NoEvent}, NEW t \in Ticket \union {NoTicket}, Open(d, e, t)
          PROVE  tab'[d].at = "edge" /\ tab'[d].session = session[BrowserOf[d]]
      BY <1>1, <3>1 DEF Open
    <3>2. ASSUME NEW t \in Ticket, OpenLink(d, t)
          PROVE  tab'[d].at = "page" /\ tab'[d].session = tab[d].session
      BY <1>1, <3>2 DEF OpenLink, Address
    <3>3. CASE Handler(d) \/ FollowRedirect(d) \/ FollowLink(d) \/ CompletePurchase(d)
      BY <1>1, <3>3 DEF Handler, FollowRedirect, FollowLink, CompletePurchase, Address
    <3>4. CASE Join(d)
      BY <1>1, <3>4 DEF Join, CreateTicket, Address
    <3>5. CASE JoinAnswer(d)
      BY <1>1, <3>5 DEF JoinAnswer, Address
    <3>6. CASE Upgrade(d) \/ Subscribe(d) \/ StreamFails(d) \/ Admitted(d)
      BY <1>1, <3>6 DEF Upgrade, Subscribe, StreamFails, Goes, Admitted, Address
    <3>7. QED
      BY <1>4, <3>1, <3>2, <3>3, <3>4, <3>5, <3>6
  <2>4. QED
    BY <1>3, <2>1, <2>2, <2>3
<1>5. ASSUME NEW d \in Tab, QueueGuard(d)
      PROVE  Apart'
  <2>1. \A c \in Tab \ {d} : tab'[c] = tab[c]
    BY <1>1, <1>5 DEF QueueGuard, Enter, Deny
  <2>2. CASE session' = session /\ tab[d].session # NoTicket /\ Enter(d, Claims(d))
    <3>1. tab'[d].ticket = tab[d].session /\ tab'[d].session = NoTicket
      BY <1>1, <2>2 DEF Enter, Claims, Address
    <3>2. \A c \in Tab : \A x : Uses(c, x)' => Uses(c, x)
      BY <2>1, <3>1 DEF Uses
    <3>3. QED
      BY <1>1, <2>2, <3>2, NothingNew
  <2>3. CASE /\ session' = [session EXCEPT ![BrowserOf[d]] = tab[d].ticket]
             /\ Unused(tab[d].ticket) /\ Enter(d, tab[d].ticket)
    <3>1. tab'[d].ticket = tab[d].ticket /\ tab'[d].session = NoTicket
      BY <1>1, <2>3 DEF Enter, Address
    <3>2. \A c \in Tab : \A x : Uses(c, x)' => Uses(c, x) \/ (c = d /\ x = tab[d].ticket)
      BY <2>1, <3>1 DEF Uses
    <3>3. \A b \in Browser : \/ session'[b] = session[b]
                             \/ b = BrowserOf[d] /\ session'[b] = tab[d].ticket
      BY <1>1, <2>3 DEF JarOK
    <3>4. QED
      BY <1>1, <2>3, <3>2, <3>3, OneNew DEF Unused
  <2>4. ASSUME session' = session, NEW page \in {"refused", "error_page"}, Deny(d, page)
        PROVE  Apart'
    <3>1. tab'[d].at # "inside" /\ tab'[d].session = NoTicket
      BY <1>1, <2>4 DEF Deny, Address
    <3>2. QED
      BY <1>3, <2>1, <2>4, <3>1
  <2>5. QED
    BY <1>5, <2>2, <2>3, <2>4 DEF QueueGuard, Redeemable
<1>6. ASSUME NEW b \in Browser, EndSession(b)
      PROVE  tab' = tab /\ \A c \in Browser : session'[c] \in {session[c], NoTicket}
  BY <1>1, <1>6 DEF EndSession, JarOK
<1>7. QED
  BY <1>2, <1>4, <1>5, <1>6
  DEF VisitNext, visitVars, Scheduler, Answer, Visitor, ForgetTicket, ForgetHash

\* One admission lets one browser in, and nobody gets in without one: also when the
\* address with the token is reloaded, raced for or passed on to any number of other
\* browsers (the edge function, QueueGuard, TOKEN-04).
THEOREM OneGuestCorrect == VisitSpec => []OneGuest
<1>1. VisitInit => Apart
  BY DEF VisitInit, Apart, Holds
<1>2. VisitInv /\ Apart /\ [VisitNext]_visitVars => Apart'
  BY ApartStep
<1>3. VisitInv /\ Apart => OneGuest
  BY HeldIsUsed DEF OneGuest, Apart
<1>4. QED
  BY <1>1, <1>2, <1>3, VisitInvCorrect, PTL DEF VisitSpec

------------------------------------------------------------------------------
(***************************************************************************)
(* One place in line for a visitor with one tab and one event.             *)
(***************************************************************************)

\* Sets of tickets are finite, and one ticket more or less is one.
LEMMA HeldFinite ==
  ASSUME NEW S \in SUBSET Ticket, NEW R \in SUBSET S, NEW x
  PROVE  /\ Cardinality(S) \in Nat /\ Cardinality(R) \in Nat
         /\ Cardinality(R) <= Cardinality(S)
         /\ Cardinality(S \ {x}) \in Nat /\ Cardinality(S) <= Cardinality(S \ {x}) + 1
<1>1. IsFiniteSet(S)
  BY VisitAssumption, FS_Subset
<1>2. /\ Cardinality(S) \in Nat /\ Cardinality(R) \in Nat /\ Cardinality(R) <= Cardinality(S)
      /\ Cardinality(S \ {x}) \in Nat
  BY <1>1, FS_Subset, FS_CardinalityType
<1>3. CASE x \in S
  <2>1. Cardinality(S \ {x}) = Cardinality(S) - 1
    BY <1>1, <1>3, FS_RemoveElement
  <2>2. QED
    BY <1>2, <2>1
<1>4. CASE x \notin S
  <2>1. S \ {x} = S
    BY <1>4
  <2>2. QED
    BY <1>2, <2>1
<1>5. QED
  BY <1>3, <1>4

\* Mishaps are only ever counted up.
LEMMA MishapsGrow ==
  ASSUME mishaps \in Nat, [VisitNext]_visitVars
  PROVE  mishaps' \in Nat /\ mishaps <= mishaps'
<1>1. mishaps' = mishaps \/ mishaps' = mishaps + 1
  BY DEF VisitNext, visitVars, Scheduler, Answer, Visitor, Open, OpenLink, FollowRedirect,
         FollowLink, ForgetTicket, EndSession, ForgetHash, Handler, Join, JoinAnswer, Upgrade,
         Subscribe, StreamFails, Goes, Admitted, QueueGuard, CompletePurchase, Mishap
<1>2. QED
  BY <1>1

\* Steps after which the visitor holds no more places, the cookie is the same and
\* the tab is not at Join.
LEMMA SpareKept ==
  ASSUME NEW d \in Tab, Spare(d), mishaps \in Nat, mishaps' \in Nat, mishaps <= mishaps',
         Held(BrowserOf[d])' \subseteq Held(BrowserOf[d]),
         cookie'[BrowserOf[d]] = cookie[BrowserOf[d]],
         \/ tab'[d] = tab[d]
         \/ tab[d].at # "created" /\ tab'[d].at \notin {"join", "resumed", "created"}
  PROVE  Spare(d)'
<1> DEFINE b == BrowserOf[d]
<1>1. ASSUME NEW x
      PROVE  /\ Cardinality(Held(b)' \ {x}) \in Nat /\ Cardinality(Held(b) \ {x}) \in Nat
             /\ Cardinality(Held(b)' \ {x}) <= Cardinality(Held(b) \ {x})
  <2>1. Held(b) \ {x} \in SUBSET Ticket /\ Held(b)' \ {x} \in SUBSET (Held(b) \ {x})
    BY DEF Held
  <2>2. QED
    BY <2>1, HeldFinite
<1>2. ASSUME tab'[d].at # "created"
      PROVE  Cardinality(Held(b)' \ {cookie'[b]}) <= mishaps'
  <2>1. Cardinality(Held(b) \ {cookie[b]}) <= mishaps
    BY <1>2 DEF Spare
  <2>2. /\ Cardinality(Held(b)' \ {cookie[b]}) \in Nat /\ Cardinality(Held(b) \ {cookie[b]}) \in Nat
        /\ Cardinality(Held(b)' \ {cookie[b]}) <= Cardinality(Held(b) \ {cookie[b]})
    BY <1>1
  <2>3. Cardinality(Held(b)' \ {cookie[b]}) <= mishaps'
    BY <2>1, <2>2
  <2>4. QED
    BY <2>3
<1>3. ASSUME tab'[d].at \in {"join", "resumed", "created"}
      PROVE  Cardinality(Held(b)' \ {tab'[d].ticket}) <= mishaps'
  <2> DEFINE t == tab[d].ticket
  <2>1. tab'[d] = tab[d] /\ Cardinality(Held(b) \ {t}) <= mishaps
    BY <1>3 DEF Spare
  <2>2. /\ Cardinality(Held(b)' \ {t}) \in Nat /\ Cardinality(Held(b) \ {t}) \in Nat
        /\ Cardinality(Held(b)' \ {t}) <= Cardinality(Held(b) \ {t})
    BY <1>1
  <2>3. Cardinality(Held(b)' \ {t}) <= mishaps'
    BY <2>1, <2>2
  <2>4. QED
    BY <2>1, <2>3
<1>4. QED
  BY <1>2, <1>3 DEF Spare

\* The tab's own requests to Join.
LEMMA SpareJoin ==
  ASSUME VisitInv, NEW d \in Tab, NEW e \in Event, Wanted[d] = {e}, OneEvent(d), Spare(d),
         mishaps \in Nat, mishaps' \in Nat, mishaps <= mishaps',
         FollowRedirect(d) \/ Join(d) \/ JoinAnswer(d)
  PROVE  OneEvent(d)' /\ Spare(d)'
<1> USE DEF roomVars, jarVars, histVars, OnPage
<1> DEFINE b == BrowserOf[d]
<1>1. /\ JarOK /\ tab \in [Tab -> Address] /\ TabOK(d) /\ tab[d] \in Address
      /\ b \in Browser /\ b # NoTicket /\ e # NoEvent
      /\ \A t \in Ticket : owner[t] = b => EventOf[t] = e
      /\ Held(b) \in SUBSET Ticket
  BY InvByTab, VisitAssumption DEF OneEvent, Held
<1>2. ASSUME UNCHANGED <<roomVars, owner>>
      PROVE  Held(b)' = Held(b)
  BY <1>2 DEF Held, Room!Waiting
<1>3. ASSUME \A t \in Ticket : owner'[t] = b => EventOf[t] = e,
             tab'[d].at \in {"edge", "origin", "redirect", "join", "resumed", "created",
                             "error_page"} => tab'[d].event = e
      PROVE  OneEvent(d)'
  BY <1>3 DEF OneEvent
<1> DEFINE rest(x) == Cardinality(Held(b) \ {x})
           all == Cardinality(Held(b))
           old == cookie[b]
           mine == tab[d].ticket
<1>4. /\ all \in Nat /\ rest(old) \in Nat /\ rest(mine) \in Nat
      /\ all <= rest(mine) + 1 /\ rest(old) <= all
  <2>1. Held(b) \ {old} \in SUBSET Held(b)
    OBVIOUS
  <2>2. /\ all \in Nat /\ rest(old) \in Nat /\ rest(old) <= all
    BY <1>1, <2>1, HeldFinite
  <2>3. rest(mine) \in Nat /\ all <= rest(mine) + 1
    BY <1>1, <2>1, HeldFinite
  <2>4. QED
    BY <2>2, <2>3
<1>5. CASE FollowRedirect(d)
  <2>1. /\ UNCHANGED <<roomVars, jarVars, owner>> /\ tab[d].at = "redirect"
        /\ tab'[d].at = "join" /\ tab'[d].ticket = cookie[b] /\ tab'[d].event = tab[d].event
    BY <1>1, <1>5 DEF FollowRedirect, Address
  <2>2. Held(b)' = Held(b) /\ rest(old) <= mishaps /\ tab[d].event = e
    BY <1>2, <2>1 DEF Spare, OneEvent
  <2>3. rest(old) <= mishaps'
    BY <1>4, <2>2
  <2>4. Spare(d)'
    BY <2>1, <2>2, <2>3 DEF Spare
  <2>5. QED
    BY <1>1, <1>3, <2>1, <2>2, <2>4
<1>6. CASE Join(d) /\ UNCHANGED <<roomVars, known, owner>>
  <2>1. /\ UNCHANGED <<jarVars>> /\ tab[d].at = "join"
        /\ \E at \in {"resumed", "refused"} : tab' = [tab EXCEPT ![d].at = at]
    <3>1. ~CreateTicket(d, TRUE) /\ ~CreateTicket(d, FALSE)
      <4> SUFFICES ASSUME NEW t \in Ticket, Fresh(tab[d].event, t), 
                          owner' = [owner EXCEPT ![t] = BrowserOf[d]]
                   PROVE  FALSE
        BY DEF CreateTicket
      <4>1. owner[t] = NoTicket /\ owner'[t] = b
        BY <1>1 DEF Fresh, JarOK
      <4>2. QED
        BY <1>1, <1>6, <4>1
    <3>2. QED
      BY <1>6, <3>1 DEF Join
  <2>2. /\ tab'[d].at \in {"resumed", "refused"} /\ tab'[d].ticket = tab[d].ticket
        /\ tab'[d].event = tab[d].event
    BY <1>1, <2>1 DEF Address
  <2>3. /\ Held(b)' = Held(b) /\ rest(old) <= mishaps /\ rest(mine) <= mishaps
        /\ tab[d].event = e
    BY <1>2, <1>6, <2>1 DEF Spare, OneEvent
  <2>4. rest(old) <= mishaps' /\ rest(mine) <= mishaps'
    BY <1>4, <2>3
  <2>5. Spare(d)'
    BY <2>1, <2>2, <2>3, <2>4 DEF Spare
  <2>6. QED
    BY <1>1, <1>3, <1>6, <2>2, <2>3, <2>5
<1>7. ASSUME Join(d), NEW t \in Ticket, Fresh(tab[d].event, t), Room!Arrive(t),
             owner' = [owner EXCEPT ![t] = BrowserOf[d]],
             tab' = [tab EXCEPT ![d].at = "created", ![d].ticket = t],
             \/ ~DoesTicketExist(tab[d].event, tab[d].ticket)
             \/ mishaps' = mishaps + 1
      PROVE  OneEvent(d)' /\ Spare(d)'
  <2>1. tab'[d].at = "created" /\ tab'[d].ticket = t /\ tab'[d].event = tab[d].event
    BY <1>1, <1>7 DEF Address
  <2>2. /\ tab[d].at = "join" /\ tab[d].event = e /\ EventOf[t] = e
        /\ rest(mine) <= mishaps
    BY <1>7 DEF Join, OneEvent, Spare, Fresh
  <2>3. \A u \in Ticket \ {t} : owner'[u] = owner[u]
    BY <1>1, <1>7 DEF JarOK
  <2>4. OneEvent(d)'
    BY <1>1, <1>3, <2>1, <2>2, <2>3
  <2>5. Held(b)' \ {t} \subseteq Held(b)
    <3>1. waiting' = [waiting EXCEPT ![EventOf[t]] = @ \union {t}]
      BY <1>7 DEF Room!Arrive
    <3>2. \A u \in Ticket \ {t} : u \in waiting'[EventOf[u]] => u \in waiting[EventOf[u]]
      BY <1>1, <3>1, VisitAssumption DEF JarOK
    <3>3. QED
      BY <2>3, <3>2 DEF Held, Room!Waiting
  <2>6. all <= mishaps'
    <3>1. CASE ~DoesTicketExist(tab[d].event, tab[d].ticket)
      <4>1. tab[d].ticket \notin Held(b)
        BY <1>1, <2>2, <3>1, VisitAssumption DEF Held, Room!Waiting, DoesTicketExist
      <4>2. rest(mine) = all
        <5>1. Held(b) \ {mine} = Held(b)
          BY <4>1
        <5>2. QED
          BY <5>1
      <4>3. QED
        BY <1>4, <2>2, <4>2
    <3>2. CASE mishaps' = mishaps + 1
      BY <1>4, <2>2, <3>2
    <3>3. QED
      BY <1>7, <3>1, <3>2
  <2>7. Cardinality(Held(b)' \ {t}) <= all /\ Cardinality(Held(b)' \ {t}) \in Nat
    BY <1>1, <2>5, HeldFinite
  <2>8. Cardinality(Held(b)' \ {t}) <= mishaps'
    BY <1>4, <2>6, <2>7
  <2>9. Spare(d)'
    BY <2>1, <2>8 DEF Spare
  <2>10. QED
    BY <2>4, <2>9
<1>8. CASE JoinAnswer(d)
  <2>1. /\ UNCHANGED <<roomVars, owner>> /\ tab[d].at \in {"resumed", "created"}
        /\ \/ cookie' = JarAfter(d)
           \/ cookie' = cookie /\ mishaps' = mishaps + 1
    BY <1>8 DEF JoinAnswer, Mishap
  <2>2. tab'[d].at \in {"page", "custom", "refused"}
    BY <1>1, <1>8 DEF JoinAnswer, Address
  <2>3. Held(b)' = Held(b)
    BY <1>2, <2>1
  <2>4. /\ tab[d].at # "created" => rest(old) <= mishaps
        /\ rest(mine) <= mishaps
    BY <2>1 DEF Spare
  <2>5. Cardinality(Held(b) \ {cookie'[b]}) <= mishaps'
    <3>1. CASE tab[d].at # "created"
      <4>1. cookie'[b] = cookie[b]
        BY <2>1, <3>1 DEF JarAfter
      <4>2. QED
        BY <1>4, <2>4, <3>1, <4>1
    <3>2. CASE tab[d].at = "created" /\ cookie' = JarAfter(d)
      <4>1. cookie'[b] = tab[d].ticket
        BY <1>1, <3>2 DEF JarAfter, JarOK
      <4>2. QED
        BY <1>4, <2>4, <4>1
    <3>3. CASE cookie' = cookie /\ mishaps' = mishaps + 1
      <4>1. rest(old) <= mishaps'
        BY <1>4, <2>4, <3>3
      <4>2. QED
        BY <3>3, <4>1
    <3>4. QED
      BY <2>1, <3>1, <3>2, <3>3
  <2>6. Spare(d)'
    BY <2>2, <2>3, <2>5 DEF Spare
  <2>7. QED
    BY <1>1, <1>3, <2>1, <2>2, <2>6
<1>9. QED
  BY <1>5, <1>6, <1>7, <1>8 DEF Join, CreateTicket, Mishap

\* What another browser, or the scheduler, does not do to the visitor.
Undisturbed(d) ==
  LET b == BrowserOf[d] IN
  /\ tab'[d] = tab[d] /\ cookie'[b] = cookie[b]
  /\ Held(b)' \subseteq Held(b)
  /\ \A t \in Ticket : owner'[t] = b => owner[t] = b

\* A tab of another browser.
LEMMA OtherTab ==
  ASSUME VisitInv, NEW d \in Tab, NEW c \in Tab, BrowserOf[c] # BrowserOf[d],
         Answer(c) \/ Visitor(c) \/ Upgrade(c) \/ StreamFails(c)
  PROVE  Undisturbed(d)
<1> USE DEF roomVars, jarVars, histVars, OnPage
<1> DEFINE b == BrowserOf[d]
<1>1. JarOK /\ tab \in [Tab -> Address] /\ b \in Browser /\ BrowserOf[c] \in Browser /\ c # d
  BY InvByTab, VisitAssumption
<1>2. tab'[d] = tab[d]
  BY <1>1 DEF Answer, Visitor, Open, OpenLink, FollowRedirect, FollowLink, Handler, Join,
              JoinAnswer, Upgrade, Subscribe, StreamFails, Goes, Admitted, QueueGuard,
              CompletePurchase, CreateTicket, Enter, Deny
<1>3. cookie'[b] = cookie[b]
  BY <1>1 DEF Answer, Visitor, Open, OpenLink, FollowRedirect, FollowLink, Handler, Join,
              JoinAnswer, JarAfter, Upgrade, Subscribe, StreamFails, Goes, Admitted,
              QueueGuard, CompletePurchase, JarOK
<1>4. CASE UNCHANGED <<waiting, owner>>
  BY <1>2, <1>3, <1>4 DEF Undisturbed, Held, Room!Waiting
<1>5. CASE \E stored \in BOOLEAN : CreateTicket(c, stored)
  <2>1. PICK t \in Ticket : Room!Arrive(t) /\ owner' = [owner EXCEPT ![t] = BrowserOf[c]]
    BY <1>5 DEF CreateTicket
  <2>2. waiting' = [waiting EXCEPT ![EventOf[t]] = @ \union {t}]
    BY <2>1 DEF Room!Arrive
  <2>3. owner'[t] # b /\ \A u \in Ticket \ {t} : owner'[u] = owner[u]
    BY <1>1, <2>1 DEF JarOK
  <2>4. \A u \in Ticket \ {t} : u \in waiting'[EventOf[u]] => u \in waiting[EventOf[u]]
    BY <1>1, <2>2, VisitAssumption DEF JarOK
  <2>5. Held(b)' \subseteq Held(b)
    BY <2>3, <2>4 DEF Held, Room!Waiting
  <2>6. QED
    BY <1>2, <1>3, <2>3, <2>5 DEF Undisturbed
<1>6. QED
  BY <1>4, <1>5 DEF Answer, Visitor, Open, OpenLink, FollowRedirect, FollowLink, Handler,
                    Join, JoinAnswer, Upgrade, Subscribe, StreamFails, Goes, Admitted,
                    QueueGuard, CompletePurchase

\* The scheduler only takes tickets out of the lines.
LEMMA SchedulerKeeps ==
  ASSUME VisitInv, NEW d \in Tab, Scheduler
  PROVE  Undisturbed(d)
<1> USE DEF jarVars, histVars
<1>1. JarOK /\ UNCHANGED <<tab, cookie, owner>>
  BY InvByTab DEF Scheduler
<1>2. ASSUME NEW u \in Ticket, u \in waiting'[EventOf[u]]
      PROVE  u \in waiting[EventOf[u]]
  <2>1. CASE waiting' = waiting
    BY <1>2, <2>1
  <2>2. ASSUME NEW e \in Event, NEW S, waiting' = [waiting EXCEPT ![e] = @ \ S]
        PROVE  u \in waiting[EventOf[u]]
    BY <1>1, <1>2, <2>2, VisitAssumption DEF JarOK
  <2>3. QED
    BY <2>1, <2>2 DEF Scheduler, Room!Call, Room!Admit
<1>3. QED
  BY <1>1, <1>2 DEF Undisturbed, Held, Room!Waiting

\* A visitor who is left alone keeps the invariant.
LEMMA UndisturbedKeeps ==
  ASSUME NEW d \in Tab, OneEvent(d), Spare(d), Undisturbed(d),
         mishaps \in Nat, mishaps' \in Nat, mishaps <= mishaps'
  PROVE  OneEvent(d)' /\ Spare(d)'
<1>1. Spare(d)'
  BY SpareKept DEF Undisturbed
<1>2. OneEvent(d)'
  BY DEF OneEvent, Undisturbed
<1>3. QED
  BY <1>1, <1>2

\* A cookie that is forgotten makes its ticket a spare one, and is a mishap.
LEMMA ForgetKeeps ==
  ASSUME VisitInv, NEW d \in Tab, OneEvent(d), Spare(d), mishaps \in Nat,
         ForgetTicket(BrowserOf[d])
  PROVE  OneEvent(d)' /\ Spare(d)'
<1> USE DEF roomVars, histVars
<1> DEFINE b == BrowserOf[d]
           rest(x) == Cardinality(Held(b) \ {x})
           all == Cardinality(Held(b))
<1>1. JarOK /\ b \in Browser
  BY InvByTab, VisitAssumption
<1>2. /\ cookie'[b] = NoTicket /\ mishaps' = mishaps + 1
      /\ UNCHANGED <<waiting, tab, owner>>
  BY <1>1 DEF ForgetTicket, Mishap, JarOK
<1>3. Held(b)' = Held(b) /\ Held(b) \in SUBSET Ticket /\ Held(b) \ {NoTicket} = Held(b)
  BY <1>2, VisitAssumption DEF Held, Room!Waiting
<1>4. /\ all \in Nat /\ rest(cookie[b]) \in Nat /\ all <= rest(cookie[b]) + 1
      /\ rest(tab[d].ticket) \in Nat
  BY <1>3, HeldFinite
<1>5. ASSUME tab[d].at # "created"
      PROVE  all <= mishaps'
  <2>1. rest(cookie[b]) <= mishaps
    BY <1>5 DEF Spare
  <2>2. QED
    BY <1>2, <1>4, <2>1
<1>6. ASSUME tab[d].at \in {"join", "resumed", "created"}
      PROVE  Cardinality(Held(b)' \ {tab'[d].ticket}) <= mishaps'
  <2>1. rest(tab[d].ticket) <= mishaps
    BY <1>6 DEF Spare
  <2>2. rest(tab[d].ticket) <= mishaps'
    BY <1>2, <1>4, <2>1
  <2>3. QED
    BY <1>2, <1>3, <2>2
<1>7. Spare(d)'
  <2>1. Held(b)' \ {cookie'[b]} = Held(b)
    BY <1>2, <1>3
  <2>2. QED
    BY <1>2, <1>5, <1>6, <2>1 DEF Spare
<1>8. QED
  BY <1>2, <1>7 DEF OneEvent

\* The steps of the visitor's own tab besides the way through Join.
LEMMA OwnStep ==
  ASSUME VisitInv, NEW d \in Tab, NEW e \in Event, Wanted[d] = {e}, OneEvent(d), Spare(d),
         mishaps \in Nat, mishaps' \in Nat, mishaps <= mishaps',
         \/ Handler(d) \/ Upgrade(d) \/ Subscribe(d) \/ StreamFails(d) \/ Admitted(d)
         \/ QueueGuard(d) \/ Visitor(d)
  PROVE  OneEvent(d)' /\ Spare(d)'
<1> USE DEF roomVars, jarVars, histVars, OnPage
<1> DEFINE b == BrowserOf[d]
<1>1. /\ JarOK /\ tab \in [Tab -> Address] /\ TabOK(d) /\ tab[d] \in Address
      /\ b \in Browser /\ b # NoTicket /\ e # NoEvent
      /\ \A t \in Ticket : owner[t] = b => EventOf[t] = e
  BY InvByTab, VisitAssumption DEF OneEvent
<1>2. UNCHANGED <<waiting, owner, cookie>>
  BY DEF Handler, Upgrade, Subscribe, StreamFails, Goes, Admitted, QueueGuard, Visitor, Open,
         OpenLink, FollowLink, CompletePurchase
<1>3. Held(b)' \subseteq Held(b) /\ cookie'[b] = cookie[b]
  BY <1>2 DEF Held, Room!Waiting
<1>4. tab[d].at # "created" /\ tab'[d].at \notin {"join", "resumed", "created"}
  <2>1. CASE Handler(d)
    BY <1>1, <2>1 DEF Handler, Address
  <2>2. CASE Admitted(d)
    BY <1>1, <2>2 DEF Admitted, Address
  <2>3. CASE QueueGuard(d)
    BY <1>1, <2>3 DEF QueueGuard, Enter, Deny, Address
  <2>4. CASE \E f \in Event \union {NoEvent}, t \in Ticket \union {NoTicket} : Open(d, f, t)
    <3>1. tab'[d].at = "edge" /\ Settled(d)
      BY <1>1, <2>4 DEF Open
    <3>2. QED
      BY <3>1 DEF Settled
  <2>5. CASE \E t \in Ticket : OpenLink(d, t)
    <3>1. tab'[d].at = "page" /\ (tab[d].at = "closed" \/ OnPage(d))
      BY <1>1, <2>5 DEF OpenLink, Address
    <3>2. QED
      BY <3>1
  <2>6. CASE FollowLink(d) \/ CompletePurchase(d)
    BY <1>1, <2>6 DEF FollowLink, CompletePurchase, Address
  <2>7. CASE Upgrade(d) \/ Subscribe(d) \/ StreamFails(d)
    BY <1>1, <2>7 DEF Upgrade, Subscribe, StreamFails, Goes, Address
  <2>8. QED
    BY <2>1, <2>2, <2>3, <2>4, <2>5, <2>6, <2>7 DEF Visitor
<1>5. Spare(d)'
  BY <1>3, <1>4, SpareKept
<1>6. tab'[d].at \in {"edge", "origin", "redirect", "error_page"} => tab'[d].event = e
  <2>1. CASE Handler(d)
    BY <1>1, <2>1 DEF Handler, OneEvent, Address
  <2>2. CASE Admitted(d)
    <3>1. /\ (OnPage(d) /\ tab[d].ticket = cookie[b]) \/ tab[d].at = "stream"
          /\ tab'[d].event = tab[d].event
      BY <1>1, <2>2 DEF Admitted, StatusAuthorized, Address
    <3>2. /\ tab[d].ticket \in Ticket /\ EventOf[tab[d].ticket] = tab[d].event
          /\ owner[tab[d].ticket] = b
      BY <1>1, <3>1 DEF TabOK, JarOK, Address
    <3>3. QED
      BY <1>1, <3>1, <3>2
  <2>3. CASE QueueGuard(d)
    BY <1>1, <2>3 DEF QueueGuard, OneEvent, Address, Enter, Deny
  <2>4. ASSUME NEW f \in Event \union {NoEvent}, NEW t \in Ticket \union {NoTicket}, Open(d, f, t)
        PROVE  tab'[d].event = e
    <3>1. f \in Wanted[d] /\ tab'[d].event = f
      BY <1>1, <2>4 DEF Open
    <3>2. QED
      BY <3>1
  <2>5. CASE \E t \in Ticket : OpenLink(d, t)
    <3>1. tab'[d].at = "page"
      BY <1>1, <2>5 DEF OpenLink, Address
    <3>2. QED
      BY <3>1
  <2>6. CASE FollowLink(d) \/ CompletePurchase(d)
    BY <1>1, <2>6 DEF FollowLink, CompletePurchase, OneEvent, Address
  <2>7. CASE Upgrade(d) \/ Subscribe(d) \/ StreamFails(d)
    BY <1>1, <2>7 DEF Upgrade, Subscribe, StreamFails, Goes, Address
  <2>8. QED
    BY <2>1, <2>2, <2>3, <2>4, <2>5, <2>6, <2>7 DEF Visitor
<1>7. OneEvent(d)'
  BY <1>1, <1>2, <1>4, <1>6 DEF OneEvent
<1>8. QED
  BY <1>5, <1>7

\* Every step keeps the invariant.
LEMMA PlaceStep ==
  ASSUME VisitInv, PlaceInv, [VisitNext]_visitVars
  PROVE  PlaceInv'
<1> USE DEF roomVars, jarVars, histVars, OnPage
<1>1. mishaps \in Nat /\ mishaps' \in Nat /\ mishaps <= mishaps'
  BY MishapsGrow DEF PlaceInv
<1>2. ASSUME NEW d \in Tab, Alone(d)
      PROVE  OneEvent(d)' /\ Spare(d)'
  <2>1. OneEvent(d) /\ Spare(d)
    BY <1>2 DEF PlaceInv
  <2>2. PICK e \in Event : Wanted[d] = {e}
    BY <1>2 DEF Alone
  <2>3. CASE Undisturbed(d)
    BY <1>1, <2>1, <2>3, UndisturbedKeeps
  <2>4. CASE Scheduler
    BY <2>3, <2>4, SchedulerKeeps
  <2>5. ASSUME NEW c \in Tab, c # d,
               Answer(c) \/ Visitor(c) \/ Upgrade(c) \/ StreamFails(c)
        PROVE  OneEvent(d)' /\ Spare(d)'
    BY <1>2, <2>3, <2>5, OtherTab DEF Alone
  <2>6. CASE Answer(d) \/ Visitor(d) \/ Upgrade(d) \/ StreamFails(d)
    BY <1>1, <2>1, <2>2, <2>6, SpareJoin, OwnStep DEF Answer
  <2>7. ASSUME NEW b \in Browser, b # BrowserOf[d], ForgetTicket(b)
        PROVE  OneEvent(d)' /\ Spare(d)'
    <3>1. UNCHANGED <<waiting, tab, owner>> /\ cookie'[BrowserOf[d]] = cookie[BrowserOf[d]]
      BY <2>7, InvByTab, VisitAssumption DEF ForgetTicket, JarOK
    <3>2. QED
      BY <2>3, <3>1 DEF Undisturbed, Held, Room!Waiting
  <2>8. CASE ForgetTicket(BrowserOf[d])
    BY <1>1, <2>1, <2>8, ForgetKeeps
  <2>9. CASE UNCHANGED <<waiting, tab, owner, cookie>>
    BY <2>3, <2>9 DEF Undisturbed, Held, Room!Waiting
  <2>10. QED
    BY <2>4, <2>5, <2>6, <2>7, <2>8, <2>9 DEF VisitNext, EndSession, ForgetHash, visitVars
<1>3. ASSUME NEW d \in Tab, Alone(d)'
      PROVE  Alone(d)
  BY <1>3 DEF Alone
<1>4. QED
  BY <1>1, <1>2, <1>3 DEF PlaceInv

\* A visitor with one tab and one event stands in line once, and each mishap adds at
\* most one place: Join resumes the place in the cookie as long as it is in line.
THEOREM OnePlaceCorrect == VisitSpec => []OnePlace
<1>1. VisitInit => PlaceInv
  <2> SUFFICES ASSUME VisitInit, NEW d \in Tab
               PROVE  OneEvent(d) /\ Spare(d)
    BY DEF PlaceInv, VisitInit
  <2>1. mishaps = 0 /\ tab[d].at = "closed" /\ \A t \in Ticket : owner[t] = NoTicket
    BY DEF VisitInit
  <2>2. BrowserOf[d] # NoTicket
    BY VisitAssumption
  <2>3. Held(BrowserOf[d]) = {}
    BY <2>1, <2>2 DEF Held
  <2>4. Cardinality(Held(BrowserOf[d]) \ {cookie[BrowserOf[d]]}) = 0
    BY <2>3, FS_EmptySet
  <2>5. QED
    BY <2>1, <2>2, <2>4 DEF OneEvent, Spare
<1>2. VisitInv /\ PlaceInv /\ [VisitNext]_visitVars => PlaceInv'
  BY PlaceStep
<1>3. PlaceInv => OnePlace
  <2> SUFFICES ASSUME PlaceInv, NEW d \in Tab, Alone(d)
               PROVE  Cardinality(Held(BrowserOf[d])) <= 1 + mishaps
    BY DEF OnePlace, Held
  <2> DEFINE b == BrowserOf[d]
  <2>1. Spare(d) /\ mishaps \in Nat
    BY DEF PlaceInv
  <2>2. PICK x : Cardinality(Held(b) \ {x}) <= mishaps
    BY <2>1 DEF Spare
  <2>3. Held(b) \in SUBSET Ticket
    BY DEF Held
  <2>4. /\ Cardinality(Held(b)) \in Nat /\ Cardinality(Held(b) \ {x}) \in Nat
        /\ Cardinality(Held(b)) <= Cardinality(Held(b) \ {x}) + 1
    BY <2>3, HeldFinite
  <2>5. QED
    BY <2>1, <2>2, <2>4
<1>4. QED
  BY <1>1, <1>2, <1>3, VisitInvCorrect, PTL DEF VisitSpec
==============================================================================
