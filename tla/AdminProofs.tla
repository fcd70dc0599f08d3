----------------------------- MODULE AdminProofs -----------------------------
(***************************************************************************)
(* The operator's dashboard, proved for any number of events, overlapping  *)
(* fetches and updates, switches and failures.                             *)
(***************************************************************************)
EXTENDS AdminPage, TLAPS

Call == [event : Event \union {NoEvent}, at : Step \union {"idle"}, rate : Nat,
         capacity : Nat, heard : BOOLEAN]

\* A request is not under way, or is about an event the page offers.
CallOK(r) == r = Idle \/ (r.event \in options /\ r.at \in Step)

\* Until the list of events has arrived the page does nothing, and it sends no update
\* before it has an event.
Waits == /\ ~loaded => /\ current = NoEvent /\ options = {} /\ stats = Blank
                       /\ \A q \in Fetch : fetch[q] = Idle
         /\ current = NoEvent => \A p \in Put : put[p] = Idle

AdminInv ==
  /\ config \in [Event -> Settings] /\ wanted \in [Event -> Settings]
  /\ options \subseteq Event /\ current \in options \union {NoEvent}
  /\ stats \in [event : options \union {NoEvent}, rate : Nat, capacity : Nat]
  /\ {stale, enabled, loaded} \subseteq BOOLEAN
  /\ enabled => current # NoEvent
  /\ fetch \in [Fetch -> Call] /\ put \in [Put -> Call]
  /\ \A q \in Fetch : CallOK(fetch[q])
  /\ \A p \in Put : CallOK(put[p])
  /\ excused \subseteq Event
  /\ Waits

\* What the settings of its event will be when the rest of an update is carried out.
Outcome(p) ==
  LET u   == put[p]
      now == config[u.event]
  IN  [rate |-> IF u.at = "rate" THEN u.rate ELSE now.rate,
       capacity |-> IF u.at \in {"rate", "capacity"} /\ u.capacity > 0
                    THEN u.capacity ELSE now.capacity]

\* An event that is not excused has one update under way at most, which the page
\* listens to, which will bring about what the operator wants, and during which the
\* button is disabled.
Orderly(e) ==
  /\ \A p \in Put : put[p].event = e =>
       /\ put[p].heard /\ ~enabled
       /\ \A q \in Put : put[q].event = e => q = p
       /\ wanted[e] = Outcome(p)
  /\ UnderWay(e) = {} => config[e] = wanted[e]

OrderInv == \A e \in Event \ excused : Orderly(e)
------------------------------------------------------------------------------
\* A request that is under way has an event and is one the page has sent.
LEMMA Called ==
  ASSUME AdminInv
  PROVE  /\ Idle \in Call
         /\ \A r \in Call : CallOK(r) /\ (r.at # "idle" \/ r.heard \/ r.event # NoEvent) =>
              r.event \in options /\ r.event \in Event /\ r.at \in Step
BY AdminAssumption DEF Idle, Call, CallOK, Step, AdminInv

\* A fetch goes on, ends or begins; figures may be shown.
LEMMA FetchKept ==
  ASSUME AdminInv, loaded, NEW q \in Fetch, NEW c \in Call, CallOK(c),
         fetch' = [fetch EXCEPT ![q] = c],
         stats' \in [event : options \union {NoEvent}, rate : Nat, capacity : Nat],
         stale' \in BOOLEAN,
         UNCHANGED <<config, options, current, enabled, loaded, put, wanted, excused>>
  PROVE  AdminInv'
<1>1. fetch' \in [Fetch -> Call] /\ \A i \in Fetch : CallOK(fetch'[i])
  BY DEF AdminInv
<1>2. QED
  BY <1>1 DEF AdminInv, CallOK, Waits

\* An update goes on, ends or begins; settings and the button may change.
LEMMA PutKept ==
  ASSUME AdminInv, current # NoEvent, NEW p \in Put, NEW c \in Call, CallOK(c),
         put' = [put EXCEPT ![p] = c],
         config' \in [Event -> Settings], wanted' \in [Event -> Settings],
         enabled' \in BOOLEAN, excused' \subseteq Event,
         UNCHANGED <<options, current, stats, stale, loaded, fetch>>
  PROVE  AdminInv'
<1>1. put' \in [Put -> Call] /\ \A i \in Put : CallOK(put'[i])
  BY DEF AdminInv
<1>2. QED
  BY <1>1 DEF AdminInv, CallOK, Waits

\* A page that has a current event, or a request under way, has loaded the events.
LEMMA HasLoaded ==
  ASSUME AdminInv
  PROVE  /\ current # NoEvent => loaded
         /\ \A q \in Fetch : fetch[q].at # "idle" => loaded
         /\ \A p \in Put : put[p].at # "idle" \/ put[p].heard => current # NoEvent
<1>1. current # NoEvent => loaded
  BY DEF AdminInv, Waits
<1>2. QED
  BY <1>1 DEF AdminInv, Waits, Idle

\* loadEvents.
LEMMA LoadStep ==
  ASSUME AdminInv, Load
  PROVE  AdminInv'
<1>1. PICK ids : ids \in Seq(Event) /\ LoadEvents(ids)
  <2>1. CASE LoadFails
    <3>1. LoadEvents(<<>>) /\ <<>> \in Seq(Event)
      BY <2>1 DEF LoadFails
    <3>2. QED
      BY <3>1
  <2>2. ASSUME NEW ids \in Listing, LoadEvents(ids)
        PROVE  ids \in Seq(Event) /\ LoadEvents(ids)
    BY <2>2, AdminAssumption
  <2>3. QED
    BY <2>1, <2>2 DEF Load
<1>2. ids \in Seq(Event) /\ ~loaded
  BY <1>1 DEF LoadEvents
<1>3. options' \subseteq Event
  BY <1>1, <1>2 DEF LoadEvents, Offered
<1>4. /\ current = NoEvent /\ stats = Blank /\ loaded' = TRUE
      /\ \A q \in Fetch : fetch[q] = Idle
      /\ \A p \in Put : put[p] = Idle
  BY <1>1, <1>2 DEF AdminInv, Waits, LoadEvents
<1>5. CASE ids = <<>>
  <2>1. UNCHANGED <<config, current, enabled, fetch, stats, stale, put, wanted, excused>>
    BY <1>1, <1>5 DEF LoadEvents
  <2>2. stats' \in [event : options' \union {NoEvent}, rate : Nat, capacity : Nat]
    BY <1>4, <2>1 DEF Blank
  <2>3. QED
    BY <1>3, <1>4, <2>1, <2>2 DEF AdminInv, CallOK, Waits
<1>6. CASE ids # <<>>
  <2>1. PICK q \in Fetch : StartPolling(q, ids[1])
    BY <1>1, <1>6 DEF LoadEvents
  <2>2. ids[1] \in options' /\ ids[1] \in Event
    BY <1>1, <1>2, <1>6 DEF LoadEvents, Offered
  <2>3. /\ UNCHANGED <<config, stats, stale, put, wanted, excused>>
        /\ current' = ids[1] /\ enabled' = TRUE
        /\ fetch' = [fetch EXCEPT ![q] = Sent(ids[1], 0, 0)]
    BY <1>1, <2>1 DEF LoadEvents, StartPolling, FetchConfig
  <2>4. stats' \in [event : options' \union {NoEvent}, rate : Nat, capacity : Nat]
    BY <1>4, <2>3 DEF Blank
  <2>5. Sent(ids[1], 0, 0) \in Call /\ Sent(ids[1], 0, 0).event \in options'
        /\ Sent(ids[1], 0, 0).at \in Step
    BY <2>2 DEF Sent, Call, Step
  <2>6. fetch' \in [Fetch -> Call] /\ \A i \in Fetch : CallOK(fetch[i])'
    BY <1>4, <2>3, <2>5 DEF AdminInv, CallOK
  <2>7. \A p \in Put : CallOK(put[p])'
    BY <1>4, <2>3 DEF CallOK
  <2>8. ids[1] # NoEvent
    BY <2>2, AdminAssumption
  <2>9. QED
    BY <1>3, <1>4, <2>2, <2>3, <2>4, <2>6, <2>7, <2>8 DEF AdminInv, Waits
<1>7. QED
  BY <1>5, <1>6

\* The operator selects an event or submits an update.
LEMMA OperatorStep ==
  ASSUME AdminInv, Operator
  PROVE  AdminInv'
<1>1. ASSUME NEW q \in Fetch, NEW e \in Event, Select(q, e)
      PROVE  AdminInv'
  <2>1. /\ e \in options /\ e # NoEvent /\ current' = e /\ enabled' = TRUE
        /\ fetch' = [fetch EXCEPT ![q] = Sent(e, 0, 0)]
        /\ excused' \subseteq Event
        /\ UNCHANGED <<config, options, stats, stale, loaded, put, wanted>>
    BY <1>1, AdminAssumption DEF Select, StartPolling, FetchConfig, AdminInv
  <2>2. loaded
    BY <2>1 DEF AdminInv, Waits
  <2>3. Sent(e, 0, 0) \in Call /\ CallOK(Sent(e, 0, 0))
    BY <2>1 DEF Sent, Call, Step, CallOK
  <2>4. fetch' \in [Fetch -> Call] /\ \A i \in Fetch : CallOK(fetch'[i])
    BY <2>1, <2>3 DEF AdminInv
  <2>5. QED
    BY <2>1, <2>2, <2>4 DEF AdminInv, CallOK, Waits
<1>2. ASSUME NEW p \in Put, NEW u \in Update, Submit(p, u)
      PROVE  AdminInv'
  <2>1. /\ current # NoEvent /\ current \in options /\ current \in Event
        /\ enabled' = FALSE
        /\ put' = [put EXCEPT ![p] = Sent(current, u.rate, u.capacity)]
        /\ wanted' = [wanted EXCEPT ![current] = Updated(@, u)]
        /\ UNCHANGED <<config, options, current, stats, stale, loaded, fetch, excused>>
    BY <1>2 DEF Submit, ButtonOnSubmit, AdminInv
  <2>2. u.rate \in Nat /\ u.capacity \in Nat /\ u \in Settings
    BY AdminAssumption DEF Settings
  <2>3. wanted[current] \in Settings
    BY <2>1 DEF AdminInv
  <2>4. Updated(wanted[current], u) \in Settings
    BY <2>2, <2>3 DEF Updated, Settings
  <2>5. wanted' \in [Event -> Settings]
    BY <2>1, <2>4 DEF AdminInv
  <2>6. Sent(current, u.rate, u.capacity) \in Call /\ CallOK(Sent(current, u.rate, u.capacity))
    BY <2>1, <2>2 DEF Sent, Call, Step, CallOK
  <2>7. config' \in [Event -> Settings] /\ excused' \subseteq Event /\ enabled' \in BOOLEAN
    BY <2>1 DEF AdminInv
  <2>8. QED
    BY <2>1, <2>5, <2>6, <2>7, PutKept
<1>3. QED
  BY <1>1, <1>2 DEF Operator

\* Fetches.
LEMMA FetchStep ==
  ASSUME AdminInv, NEW q \in Fetch, Poll(q) \/ ServeFetch(q) \/ FetchFails(q)
  PROVE  AdminInv'
<1> USE DEF pageVars
<1> DEFINE c == fetch[q]
<1>1. /\ c \in Call /\ CallOK(c) /\ Idle \in Call /\ CallOK(Idle)
      /\ stats \in [event : options \union {NoEvent}, rate : Nat, capacity : Nat]
      /\ stale \in BOOLEAN
      /\ (c.at # "idle" => c.event \in options /\ c.event \in Event)
  BY Called DEF AdminInv, CallOK
<1>2. CASE Poll(q)
  <2>1. /\ current \in options /\ loaded
        /\ Sent(current, 0, 0) \in Call /\ CallOK(Sent(current, 0, 0))
    <3>1. current # NoEvent /\ current \in options /\ options \subseteq Event
      BY <1>2 DEF Poll, PollTimer, AdminInv
    <3>2. QED
      BY <3>1, HasLoaded DEF Sent, Call, Step, CallOK
  <2>2. QED
    BY <1>1, <1>2, <2>1, FetchKept DEF Poll, FetchConfig
<1>3. CASE ReadRate(q)
  <2>1. PICK v \in {config[c.event].rate, 0} :
          /\ fetch' = [fetch EXCEPT ![q].at = "capacity",
                         ![q].rate = IF v = 0 THEN DefaultAdmitRate ELSE v]
          /\ UNCHANGED <<config, pageVars, put, wanted, excused>>
    BY <1>3 DEF ReadRate
  <2> DEFINE d == [c EXCEPT !.at = "capacity", !.rate = IF v = 0 THEN DefaultAdmitRate ELSE v]
  <2>2. c.at = "rate" /\ loaded /\ config[c.event].rate \in Nat
    BY <1>1, <1>3, HasLoaded DEF ReadRate, AdminInv, Settings
  <2>3. d \in Call /\ CallOK(d)
    BY <1>1, <2>1, <2>2, AdminAssumption DEF Call, CallOK, Step
  <2>4. fetch' = [fetch EXCEPT ![q] = d]
    <3>1. fetch \in [Fetch -> Call]
      BY DEF AdminInv
    <3>2. QED
      BY <2>1, <3>1 DEF Call
  <2>5. QED
    BY <1>1, <2>1, <2>2, <2>3, <2>4, FetchKept
<1>4. CASE ReadCapacity(q)
  <2>1. PICK v \in {config[c.event].capacity, 0} :
          /\ fetch' = [fetch EXCEPT ![q].at = "answer", ![q].capacity = v]
          /\ UNCHANGED <<config, pageVars, put, wanted, excused>>
    BY <1>4 DEF ReadCapacity
  <2> DEFINE d == [c EXCEPT !.at = "answer", !.capacity = v]
  <2>2. c.at = "capacity" /\ loaded /\ config[c.event].capacity \in Nat
    BY <1>1, <1>4, HasLoaded DEF ReadCapacity, AdminInv, Settings
  <2>3. d \in Call /\ CallOK(d)
    <3>1. v \in Nat /\ c.event \in options
      BY <1>1, <2>1, <2>2
    <3>2. d \in Call
      BY <1>1, <3>1 DEF Call, Step
    <3>3. d.event = c.event /\ d.at \in Step
      BY <1>1 DEF Call, Step
    <3>4. QED
      BY <3>1, <3>2, <3>3 DEF CallOK
  <2>4. fetch' = [fetch EXCEPT ![q] = d]
    <3>1. fetch \in [Fetch -> Call]
      BY DEF AdminInv
    <3>2. QED
      BY <2>1, <3>1 DEF Call
  <2>5. QED
    BY <1>1, <2>1, <2>2, <2>3, <2>4, FetchKept
<1>5. CASE Answer(q)
  <2>1. /\ c.at = "answer" /\ loaded
        /\ stats' = Figures(c.event, c.rate, c.capacity) /\ stale' = FALSE
        /\ fetch' = [fetch EXCEPT ![q] = Idle]
        /\ UNCHANGED <<config, options, current, enabled, loaded, put, wanted, excused>>
    BY <1>5, HasLoaded DEF Answer
  <2>2. stats' \in [event : options \union {NoEvent}, rate : Nat, capacity : Nat]
    BY <1>1, <2>1 DEF Figures, Call
  <2>3. QED
    BY <1>1, <2>1, <2>2, FetchKept
<1>6. CASE FetchFails(q)
  <2>1. loaded /\ stale' \in BOOLEAN
    BY <1>6, HasLoaded DEF FetchFails
  <2>2. QED
    BY <1>1, <1>6, <2>1, FetchKept DEF FetchFails
<1>7. QED
  BY <1>2, <1>3, <1>4, <1>5, <1>6 DEF ServeFetch

\* The SETs of an update, and the answer.
LEMMA UpdateStep ==
  ASSUME AdminInv, NEW p \in Put, ServePut(p) \/ PutFails(p)
  PROVE  AdminInv'
<1> USE DEF pageVars
<1> DEFINE u == put[p]
<1>1. /\ u \in Call /\ CallOK(u) /\ Idle \in Call /\ CallOK(Idle)
      /\ config \in [Event -> Settings] /\ wanted \in [Event -> Settings]
      /\ put \in [Put -> Call] /\ excused \subseteq Event /\ enabled \in BOOLEAN
      /\ u.rate \in Nat /\ u.capacity \in Nat /\ u.heard \in BOOLEAN
  BY Called DEF AdminInv, CallOK, Call
<1>2. current # NoEvent /\ u.event \in options /\ u.event \in Event
  <2>1. u.at # "idle" \/ u.heard
    BY DEF ServePut, SetRate, SetCapacity, Saved, PutFails
  <2>2. QED
    BY <1>1, <2>1, HasLoaded, Called
<1>3. config[u.event] \in Settings
  BY <1>1, <1>2
<1>4. CASE SetRate(p)
  <2>1. PICK done \in BOOLEAN :
          /\ Command(p, done)
          /\ config' = [config EXCEPT ![u.event].rate = IF done THEN u.rate ELSE @]
          /\ put' = [put EXCEPT ![p].at = "capacity"]
          /\ UNCHANGED <<pageVars, fetch, wanted>>
    BY <1>4 DEF SetRate
  <2> DEFINE d == [u EXCEPT !.at = "capacity"]
             new == [config[u.event] EXCEPT !.rate = IF done THEN u.rate ELSE @]
  <2>2. d \in Call /\ d.event = u.event /\ d.at \in Step
    BY <1>1 DEF Call, Step
  <2>3. put' = [put EXCEPT ![p] = d]
    BY <1>1, <2>1
  <2>4. new \in Settings
    BY <1>1, <1>3 DEF Settings
  <2>5. config' = [config EXCEPT ![u.event] = new]
    BY <1>1, <1>2, <2>1
  <2>6. config' \in [Event -> Settings]
    BY <1>1, <2>4, <2>5
  <2>7. excused' \subseteq Event
    BY <1>1, <1>2, <2>1 DEF Command
  <2>8. QED
    BY <1>1, <1>2, <2>1, <2>2, <2>3, <2>6, <2>7, PutKept DEF CallOK
<1>5. CASE SetCapacity(p)
  <2>1. PICK done \in BOOLEAN :
          /\ Command(p, done)
          /\ config' = [config EXCEPT ![u.event].capacity =
                          IF done /\ u.capacity > 0 THEN u.capacity ELSE @]
          /\ put' = [put EXCEPT ![p].at = "answer"]
          /\ UNCHANGED <<pageVars, fetch, wanted>>
    BY <1>5 DEF SetCapacity
  <2> DEFINE d == [u EXCEPT !.at = "answer"]
             new == [config[u.event] EXCEPT
                       !.capacity = IF done /\ u.capacity > 0 THEN u.capacity ELSE @]
  <2>2. d \in Call /\ d.event = u.event /\ d.at \in Step
    BY <1>1 DEF Call, Step
  <2>3. put' = [put EXCEPT ![p] = d]
    BY <1>1, <2>1
  <2>4. new \in Settings
    BY <1>1, <1>3 DEF Settings
  <2>5. config' = [config EXCEPT ![u.event] = new]
    BY <1>1, <1>2, <2>1
  <2>6. config' \in [Event -> Settings]
    BY <1>1, <2>4, <2>5
  <2>7. excused' \subseteq Event
    BY <1>1, <1>2, <2>1 DEF Command
  <2>8. QED
    BY <1>1, <1>2, <2>1, <2>2, <2>3, <2>6, <2>7, PutKept DEF CallOK
<1>6. CASE Saved(p)
  <2>1. enabled' \in BOOLEAN /\ excused' \subseteq Event
    BY <1>1, <1>6 DEF Saved, Uncovered
  <2>2. QED
    BY <1>1, <1>2, <1>6, <2>1, PutKept DEF Saved
<1>7. CASE PutFails(p)
  <2>1. enabled' \in BOOLEAN /\ excused' \subseteq Event
    BY <1>1, <1>2, <1>7 DEF PutFails, Uncovered
  <2>2. UNCHANGED <<config, wanted, options, current, stats, stale, loaded, fetch>>
    BY <1>7 DEF PutFails
  <2>3. CASE put' = [put EXCEPT ![p] = Idle]
    BY <1>1, <1>2, <2>1, <2>2, <2>3, PutKept
  <2>4. CASE put' = [put EXCEPT ![p].heard = FALSE]
    <3> DEFINE d == [u EXCEPT !.heard = FALSE]
    <3>1. u # Idle
      BY <1>7 DEF PutFails, Idle
    <3>2. d \in Call /\ d.event = u.event /\ d.at \in Step
      BY <1>1, <3>1 DEF Call, Step, CallOK
    <3>3. put' = [put EXCEPT ![p] = d]
      BY <1>1, <2>4
    <3>4. QED
      BY <1>1, <1>2, <2>1, <2>2, <3>2, <3>3, PutKept DEF CallOK
  <2>5. QED
    BY <1>7, <2>3, <2>4 DEF PutFails
<1>8. QED
  BY <1>4, <1>5, <1>6, <1>7 DEF ServePut

\* Every step.
LEMMA AdminStep == AdminInv /\ [AdminNext]_adminVars => AdminInv'
<1> SUFFICES ASSUME AdminInv, [AdminNext]_adminVars
             PROVE  AdminInv'
  OBVIOUS
<1>1. CASE UNCHANGED adminVars
  BY <1>1 DEF adminVars, pageVars, AdminInv, CallOK, Waits
<1>2. QED
  BY <1>1, LoadStep, OperatorStep, FetchStep, UpdateStep DEF AdminNext

\* The invariant holds in every reachable state.
LEMMA AdminInvCorrect == AdminSpec => []AdminInv
<1>1. AdminInit => AdminInv
  <2>1. Idle \in Call /\ Unset \in Settings
    BY DEF Idle, Call, Unset, Settings
  <2> SUFFICES ASSUME AdminInit
               PROVE  AdminInv
    OBVIOUS
  <2>2. config \in [Event -> Settings] /\ wanted \in [Event -> Settings]
    BY <2>1 DEF AdminInit
  <2>3. fetch \in [Fetch -> Call] /\ put \in [Put -> Call]
    BY <2>1 DEF AdminInit
  <2>4. stats \in [event : options \union {NoEvent}, rate : Nat, capacity : Nat]
    BY DEF AdminInit, Blank
  <2>5. QED
    BY <2>2, <2>3, <2>4 DEF AdminInit, AdminInv, CallOK, Waits
<1>2. QED
  BY <1>1, AdminStep, PTL DEF AdminSpec

\* Requests, figures and settings stay in their domains, every request is about an
\* event the page offers, and without an event the button is disabled.
THEOREM AdminTypeCorrect == AdminSpec => []AdminTypeOK
<1>1. AdminInv => AdminTypeOK
  <2> SUFFICES ASSUME AdminInv
               PROVE  AdminTypeOK
    OBVIOUS
  <2>1. \A r \in {fetch[q] : q \in Fetch} \union {put[p] : p \in Put} :
          r = Idle \/ (r.event \in options /\ r.at \in Step)
    BY DEF AdminInv, CallOK
  <2>2. QED
    BY <2>1 DEF AdminInv, AdminTypeOK
<1>2. QED
  BY <1>1, AdminInvCorrect, PTL
------------------------------------------------------------------------------
(***************************************************************************)
(* The order of updates.                                                   *)
(***************************************************************************)

\* A step in another event's update, or one that begins or ends.
LEMMA OtherOrderly ==
  ASSUME AdminInv, NEW e \in Event, Orderly(e), NEW p \in Put, put[p].event # e,
         NEW c, c.event # e, put' = [put EXCEPT ![p] = c],
         config'[e] = config[e], wanted'[e] = wanted[e],
         \/ enabled' = enabled \/ ~enabled' \/ UnderWay(e) = {}
  PROVE  Orderly(e)'
<1>1. put \in [Put -> Call]
  BY DEF AdminInv
<1>2. /\ \A q \in Put : put'[q].event = e <=> put[q].event = e
      /\ \A q \in Put : put[q].event = e => put'[q] = put[q]
  BY <1>1
<1>3. UnderWay(e)' = UnderWay(e)
  BY <1>2 DEF UnderWay
<1>4. \A q \in Put : put[q].event = e => Outcome(q)' = Outcome(q)
  BY <1>2 DEF Outcome
<1>5. \A q \in Put : put[q].event = e => ~enabled'
  BY DEF Orderly, UnderWay
<1>6. QED
  BY <1>2, <1>3, <1>4, <1>5 DEF Orderly

\* A step that has nothing to do with updates.
LEMMA OrderlyKept ==
  ASSUME NEW e \in Event, Orderly(e), UNCHANGED <<config, wanted, put>>,
         enabled' = enabled \/ UnderWay(e) = {}
  PROVE  Orderly(e)'
<1>1. UnderWay(e)' = UnderWay(e) /\ \A q \in Put : Outcome(q)' = Outcome(q)
  BY DEF UnderWay, Outcome
<1>2. \A q \in Put : put[q].event = e => ~enabled'
  BY DEF Orderly, UnderWay
<1>3. QED
  BY <1>1, <1>2 DEF Orderly

\* An update of the event goes on, nothing else: it is the only one, and the settings
\* come closer to what is wanted.
LEMMA SameOutcome ==
  ASSUME AdminInv, NEW p \in Put, NEW e \in Event, put[p].event = e, Orderly(e),
         NEW c, put' = [put EXCEPT ![p] = c], c.event = e, c.heard = put[p].heard,
         Outcome(p)' = Outcome(p), wanted' = wanted, enabled' = enabled
  PROVE  Orderly(e)'
<1>1. put \in [Put -> Call]
  BY DEF AdminInv
<1>2. put'[p] = c /\ \A q \in Put : put'[q].event = e <=> put[q].event = e
  BY <1>1
<1>3. UnderWay(e)' # {}
  BY <1>2 DEF UnderWay
<1>4. /\ put[p].heard /\ ~enabled /\ wanted[e] = Outcome(p)
      /\ \A q \in Put : put[q].event = e => q = p
  BY DEF Orderly
<1>5. \A q \in Put : put'[q].event = e => q = p
  BY <1>2, <1>4
<1>6. QED
  BY <1>2, <1>3, <1>4, <1>5 DEF Orderly

\* The operator's steps: an event that is selected enables the button, and an update
\* is sent only when the button is enabled.
LEMMA OperatorOrderly ==
  ASSUME AdminInv, OrderInv, Operator, NEW e \in Event \ excused'
  PROVE  Orderly(e)'
<1>1. ASSUME NEW q \in Fetch, NEW f \in Event, Select(q, f)
      PROVE  Orderly(e)'
  <2>1. e \notin excused /\ UnderWay(e) = {}
    BY <1>1 DEF Select
  <2>2. QED
    BY <1>1, <2>1, OrderlyKept DEF Select, OrderInv
<1>2. ASSUME NEW p \in Put, NEW u \in Update, Submit(p, u)
      PROVE  Orderly(e)'
  <2> DEFINE c == Sent(current, u.rate, u.capacity)
  <2>1. /\ current # NoEvent /\ enabled /\ enabled' = FALSE /\ put[p] = Idle
        /\ put' = [put EXCEPT ![p] = c]
        /\ wanted' = [wanted EXCEPT ![current] = Updated(@, u)]
        /\ UNCHANGED <<config, excused>>
    BY <1>2 DEF Submit, Free, ButtonOnSubmit
  <2>2. /\ put \in [Put -> Call] /\ wanted \in [Event -> Settings]
        /\ config \in [Event -> Settings] /\ current \in Event
        /\ put[p].event # e
        /\ c.event = current /\ c.rate = u.rate /\ c.capacity = u.capacity
        /\ c.at = "rate" /\ c.heard
    BY <2>1, AdminAssumption DEF AdminInv, Idle, Sent
  <2>3. Orderly(e)
    BY <2>1 DEF OrderInv
  <2>4. CASE e # current
    <3>1. wanted'[e] = wanted[e] /\ config'[e] = config[e]
      BY <2>1, <2>2, <2>4
    <3>2. QED
      BY <2>1, <2>2, <2>3, <2>4, <3>1, OtherOrderly
  <2>5. CASE e = current
    <3>1. UnderWay(e) = {} /\ config[e] = wanted[e]
      BY <2>1, <2>3 DEF Orderly, UnderWay
    <3>2. put'[p] = c /\ \A q \in Put : put'[q].event = e => q = p
      BY <2>1, <2>2, <3>1 DEF UnderWay
    <3>3. UnderWay(e)' # {}
      BY <2>2, <2>5, <3>2 DEF UnderWay
    <3>4. Outcome(p)' = [rate |-> u.rate,
                         capacity |-> IF u.capacity > 0 THEN u.capacity ELSE config[e].capacity]
      BY <2>1, <2>2, <2>5, <3>2 DEF Outcome
    <3>5. u \in Settings /\ wanted[e] \in Settings
      BY <2>2, AdminAssumption DEF Settings
    <3>6. wanted'[e] = Updated(wanted[e], u)
      BY <2>1, <2>2, <2>5
    <3>7. wanted'[e] = Outcome(p)'
      BY <3>1, <3>4, <3>5, <3>6 DEF Updated, Settings
    <3>8. QED
      BY <2>1, <2>2, <3>2, <3>3, <3>7 DEF Orderly
  <2>6. QED
    BY <2>4, <2>5
<1>3. QED
  BY <1>1, <1>2 DEF Operator

\* The steps of an update.
LEMMA UpdateOrderly ==
  ASSUME AdminInv, OrderInv, NEW p \in Put, ServePut(p) \/ PutFails(p),
         NEW e \in Event \ excused'
  PROVE  Orderly(e)'
<1> USE DEF pageVars
<1> DEFINE u == put[p]
<1>1. /\ put \in [Put -> Call] /\ config \in [Event -> Settings] /\ u \in Call
      /\ u.rate \in Nat /\ u.capacity \in Nat /\ u.event \in Event
  <2>1. put \in [Put -> Call] /\ config \in [Event -> Settings] /\ u \in Call /\ CallOK(u)
    BY DEF AdminInv
  <2>2. u.at # "idle" \/ u.heard
    BY DEF ServePut, SetRate, SetCapacity, Saved, PutFails
  <2>3. u.event \in Event
    BY <2>1, <2>2, Called
  <2>4. QED
    BY <2>1, <2>3 DEF Call
<1>2. e \notin excused
  BY DEF ServePut, SetRate, SetCapacity, Command, Saved, PutFails
<1>3. Orderly(e)
  BY <1>2 DEF OrderInv
<1>4. u.event = e => u.heard
  BY <1>3 DEF Orderly
<1>5. ASSUME NEW done \in BOOLEAN, Command(p, done), u.event = e
      PROVE  done
  BY <1>4, <1>5 DEF Command
<1>6. config[u.event] \in Settings
  BY <1>1
<1>7. CASE SetRate(p)
  <2>1. PICK done \in BOOLEAN :
          /\ Command(p, done) /\ u.at = "rate"
          /\ config' = [config EXCEPT ![u.event].rate = IF done THEN u.rate ELSE @]
          /\ put' = [put EXCEPT ![p].at = "capacity"]
          /\ UNCHANGED <<pageVars, wanted>>
    BY <1>7 DEF SetRate
  <2> DEFINE d == [u EXCEPT !.at = "capacity"]
  <2>2. put' = [put EXCEPT ![p] = d] /\ d.event = u.event /\ d.heard = u.heard
    BY <1>1, <2>1 DEF Call
  <2>3. CASE u.event # e
    <3>1. config'[e] = config[e]
      BY <1>1, <2>1, <2>3
    <3>2. QED
      BY <1>3, <2>1, <2>2, <2>3, <3>1, OtherOrderly
  <2>4. CASE u.event = e
    <3>1. done
      BY <1>5, <2>1, <2>4
    <3>2. /\ put'[p].at = "capacity" /\ put'[p].event = e
          /\ put'[p].capacity = u.capacity
      BY <1>1, <2>2, <2>4 DEF Call
    <3>3. config'[e].rate = u.rate /\ config'[e].capacity = config[e].capacity
      BY <1>1, <1>6, <2>1, <2>4, <3>1 DEF Settings
    <3>4. Outcome(p)' = [rate |-> u.rate,
                         capacity |-> IF u.capacity > 0 THEN u.capacity
                                                        ELSE config[e].capacity]
      BY <3>2, <3>3 DEF Outcome
    <3>5. Outcome(p) = Outcome(p)'
      BY <2>1, <2>4, <3>4 DEF Outcome
    <3>6. QED
      BY <1>3, <2>1, <2>2, <2>4, <3>5, SameOutcome
  <2>5. QED
    BY <2>3, <2>4
<1>8. CASE SetCapacity(p)
  <2>1. PICK done \in BOOLEAN :
          /\ Command(p, done) /\ u.at = "capacity"
          /\ config' = [config EXCEPT ![u.event].capacity =
                          IF done /\ u.capacity > 0 THEN u.capacity ELSE @]
          /\ put' = [put EXCEPT ![p].at = "answer"]
          /\ UNCHANGED <<pageVars, wanted>>
    BY <1>8 DEF SetCapacity
  <2> DEFINE d == [u EXCEPT !.at = "answer"]
  <2>2. put' = [put EXCEPT ![p] = d] /\ d.event = u.event /\ d.heard = u.heard
    BY <1>1, <2>1 DEF Call
  <2>3. CASE u.event # e
    <3>1. config'[e] = config[e]
      BY <1>1, <2>1, <2>3
    <3>2. QED
      BY <1>3, <2>1, <2>2, <2>3, <3>1, OtherOrderly
  <2>4. CASE u.event = e
    <3>1. done
      BY <1>5, <2>1, <2>4
    <3>2. put'[p].at = "answer" /\ put'[p].event = e
      BY <1>1, <2>2, <2>4 DEF Call
    <3>3. /\ config'[e].rate = config[e].rate
          /\ config'[e].capacity = IF u.capacity > 0 THEN u.capacity ELSE config[e].capacity
      BY <1>1, <1>6, <2>1, <2>4, <3>1 DEF Settings
    <3>4. Outcome(p)' = [rate |-> config[e].rate,
                         capacity |-> IF u.capacity > 0 THEN u.capacity
                                                        ELSE config[e].capacity]
      BY <3>2, <3>3 DEF Outcome
    <3>5. Outcome(p) = Outcome(p)'
      BY <2>1, <2>4, <3>4 DEF Outcome
    <3>6. QED
      BY <1>3, <2>1, <2>2, <2>4, <3>5, SameOutcome
  <2>5. QED
    BY <2>3, <2>4
<1>9. NoEvent # e /\ Idle.event = NoEvent
  BY AdminAssumption DEF Idle
<1>10. CASE Saved(p)
  <2>1. /\ u.at = "answer" /\ put' = [put EXCEPT ![p] = Idle]
        /\ enabled' = (enabled \/ u.heard) /\ UNCHANGED <<config, wanted>>
        /\ u.heard => e \notin Uncovered(p)
    BY <1>10 DEF Saved
  <2>2. CASE u.event # e
    <3>1. enabled' = enabled \/ UnderWay(e) = {}
      <4>1. CASE u.heard
        BY <2>1, <2>2, <4>1 DEF Uncovered
      <4>2. CASE ~u.heard
        BY <1>1, <2>1, <4>2 DEF AdminInv, Call
      <4>3. QED
        BY <4>1, <4>2
    <3>2. QED
      BY <1>3, <1>9, <2>1, <2>2, <3>1, OtherOrderly
  <2>3. CASE u.event = e
    <3>1. /\ wanted[e] = Outcome(p) /\ config[e] \in Settings
          /\ \A q \in Put : put[q].event = e => q = p
      BY <1>1, <1>3, <2>3 DEF Orderly
    <3>2. Outcome(p) = [rate |-> config[e].rate, capacity |-> config[e].capacity]
      BY <2>1, <2>3 DEF Outcome
    <3>3. config[e] = wanted[e]
      BY <3>1, <3>2 DEF Settings
    <3>4. \A q \in Put : put'[q].event # e
      BY <1>1, <1>9, <2>1, <3>1
    <3>5. QED
      BY <2>1, <3>3, <3>4 DEF Orderly
  <2>4. QED
    BY <2>2, <2>3
<1>11. CASE PutFails(p)
  <2>1. /\ u.event # e /\ UnderWay(e) = {} /\ UNCHANGED <<config, wanted>>
        /\ put' \in {[put EXCEPT ![p] = Idle], [put EXCEPT ![p].heard = FALSE]}
    BY <1>11 DEF PutFails, Uncovered
  <2>2. CASE put' = [put EXCEPT ![p] = Idle]
    BY <1>3, <1>9, <2>1, <2>2, OtherOrderly
  <2>3. CASE put' = [put EXCEPT ![p].heard = FALSE]
    <3> DEFINE d == [u EXCEPT !.heard = FALSE]
    <3>1. put' = [put EXCEPT ![p] = d] /\ d.event # e
      BY <1>1, <2>1, <2>3 DEF Call
    <3>2. QED
      BY <1>3, <2>1, <3>1, OtherOrderly
  <2>4. QED
    BY <2>1, <2>2, <2>3
<1>12. QED
  BY <1>7, <1>8, <1>10, <1>11 DEF ServePut

\* Every step keeps the updates in order.
LEMMA OrderStep == AdminInv /\ OrderInv /\ [AdminNext]_adminVars => OrderInv'
<1> SUFFICES ASSUME AdminInv, OrderInv, [AdminNext]_adminVars, NEW e \in Event \ excused'
             PROVE  Orderly(e)'
  BY DEF OrderInv
<1> USE DEF pageVars
<1>1. ASSUME UNCHANGED <<config, wanted, put, excused>>,
             enabled' = enabled \/ UnderWay(e) = {}
      PROVE  Orderly(e)'
  BY <1>1, OrderlyKept DEF OrderInv
<1>2. CASE UNCHANGED adminVars
  BY <1>1, <1>2 DEF adminVars
<1>3. CASE Load
  <2>1. UNCHANGED <<config, wanted, put, excused>> /\ ~loaded
    BY <1>3 DEF Load, LoadFails, LoadEvents
  <2>2. UnderWay(e) = {}
    BY <2>1, AdminAssumption DEF AdminInv, Waits, UnderWay, Idle
  <2>3. QED
    BY <1>1, <2>1, <2>2
<1>4. ASSUME NEW q \in Fetch, Poll(q) \/ ServeFetch(q) \/ FetchFails(q)
      PROVE  Orderly(e)'
  BY <1>1, <1>4 DEF Poll, ServeFetch, ReadRate, ReadCapacity, Answer, FetchFails
<1>5. QED
  BY <1>2, <1>3, <1>4, OperatorOrderly, UpdateOrderly DEF AdminNext

\* Updates of an event take effect in the order in which the operator sent them,
\* unless a command failed, a connection broke, an event was selected meanwhile or the
\* answer to an update of another event came in between.
THEOREM LastUpdateWinsCorrect == AdminSpec => []LastUpdateWins
<1>1. AdminInit => OrderInv
  <2> SUFFICES ASSUME AdminInit, NEW e \in Event
               PROVE  Orderly(e)
    BY DEF OrderInv
  <2>1. \A p \in Put : put[p].event # e
    BY AdminAssumption DEF AdminInit, Idle
  <2>2. QED
    BY <2>1 DEF AdminInit, Orderly
<1>2. AdminInv /\ OrderInv /\ [AdminNext]_adminVars => OrderInv'
  BY OrderStep
<1>3. OrderInv => LastUpdateWins
  BY DEF OrderInv, Orderly, LastUpdateWins
<1>4. QED
  BY <1>1, <1>2, <1>3, AdminInvCorrect, PTL DEF AdminSpec
==============================================================================
