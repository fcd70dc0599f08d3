------------------------------ MODULE AdminPage ------------------------------
(***************************************************************************)
(* The operator's dashboard and the queue server's GetEvents, GetConfig    *)
(* and UpdateRate, which it calls.  The page fetches an event's settings   *)
(* every two seconds without waiting for the fetch before, the operator    *)
(* switches events and submits updates in between, and answers arrive in   *)
(* any order.                                                              *)
(*                                                                         *)
(* Of the figures only the rate and the capacity are kept: depth and       *)
(* active users are read and shown in the same way.                        *)
(***************************************************************************)
EXTENDS Naturals, Sequences

CONSTANTS Event, NoEvent,
          Listing,           \* what GetEvents may return: ids in SCAN's order
          Fetch,             \* fetchConfig calls that may be under way at once
          Put,               \* updates that may be under way at once
          DefaultAdmitRate,  \* SchedulerConfig.DefaultAdmitRate
          Update,            \* what the operator types; capacity 0: left empty
          MaxSelects, MaxSubmits, MaxFailures  \* bounds

ASSUME AdminAssumption ==
  /\ NoEvent \notin Event /\ Listing \subseteq Seq(Event)
  /\ Fetch \subseteq Nat /\ Put \subseteq Nat
  /\ DefaultAdmitRate \in Nat
  /\ Update \subseteq [rate : Nat \ {0}, capacity : Nat]
  /\ MaxSelects \in Nat /\ MaxSubmits \in Nat /\ MaxFailures \in Nat

VARIABLES
  config,    \* rate:{event} and capacity:{event}, 0 when the key is absent
  \* the page
  options,   \* the events in event-select
  current,   \* currentEventId
  stats,     \* lastStats, which is also what the page shows
  stale,     \* ... with the suffix "(stale)"
  enabled,   \* update-btn is not disabled
  loaded,    \* loadEvents has ended
  \* requests under way
  fetch,     \* GET /queue/config: the event, how far GetConfig is, what it read
  put,       \* PUT /queue/rate: the event, the body, how far UpdateRate is
  \* history and counters
  wanted,    \* the settings the operator asked for last
  excused,   \* events whose updates something else than the page disturbed
  selects, submits, failures

pageVars == <<options, current, stats, stale, enabled, loaded>>
adminVars == <<config, pageVars, fetch, put, wanted, excused, selects, submits,
               failures>>

Settings == [rate : Nat, capacity : Nat]
Unset    == [rate |-> 0, capacity |-> 0]

\* lastStats before the first answer: every figure is a dash.
Blank == [event |-> NoEvent, rate |-> 0, capacity |-> 0]

Step == {"rate", "capacity", "answer"}

\* A request that is not under way.
Idle == [event |-> NoEvent, at |-> "idle", rate |-> 0, capacity |-> 0,
         heard |-> FALSE]

\* A new one, whose answer the page waits for.
Sent(e, r, c) == [event |-> e, at |-> "rate", rate |-> r, capacity |-> c,
                  heard |-> TRUE]

AdminInit ==
  /\ config = [e \in Event |-> Unset] /\ wanted = config
  /\ options = {} /\ current = NoEvent /\ stats = Blank
  /\ stale = FALSE /\ enabled = FALSE /\ loaded = FALSE
  /\ fetch = [q \in Fetch |-> Idle] /\ put = [p \in Put |-> Idle]
  /\ excused = {}
  /\ selects = 0 /\ submits = 0 /\ failures = 0

Failure == failures < MaxFailures /\ failures' = failures + 1
------------------------------------------------------------------------------
\* Requests are numbered; a new one takes the first number that is free.
Free(requests, q) == /\ requests[q] = Idle
                     /\ \A i \in DOMAIN requests : i < q => requests[i] # Idle

\* fetchConfig sends a request for the event that is current at this moment.
FetchConfig(q, e) ==
  /\ Free(fetch, q)
  /\ fetch' = [fetch EXCEPT ![q] = Sent(e, 0, 0)]

\* Updates the server is working on for an event.
UnderWay(e) == {p \in Put : put[p].event = e}

\* startPolling: the timer is set again, the button enabled whatever is under
\* way, the figures stay until the first answer.
StartPolling(q, e) ==
  /\ current' = e
  /\ enabled' = TRUE
  /\ FetchConfig(q, e)

\* A mutant: the placeholder replaces the first option.
OfferedInstead(ids) == {ids[i] : i \in DOMAIN ids \ {1}}

\* The options of event-select, besides the placeholder.
Offered(ids) == {ids[i] : i \in DOMAIN ids}

\* loadEvents, with the ids GetEvents found in Redis.  It is not repeated.
LoadEvents(ids) ==
  /\ ~loaded /\ loaded' = TRUE
  /\ options' = Offered(ids)
  /\ IF ids = <<>> THEN UNCHANGED <<current, enabled, fetch>>
                   ELSE \E q \in Fetch : StartPolling(q, ids[1])
  /\ UNCHANGED <<config, stats, stale, put, wanted, excused, selects, submits>>

\* The request of loadEvents fails: the page stays blank.
LoadFails == Failure /\ LoadEvents(<<>>)

\* The change handler of event-select.  The placeholder in between makes it
\* possible to select the same event again.
Select(q, e) ==
  /\ e \in options
  /\ selects < MaxSelects /\ selects' = selects + 1
  /\ StartPolling(q, e)
  /\ excused' = excused \union {f \in Event : UnderWay(f) # {}}
  /\ UNCHANGED <<config, options, stats, stale, loaded, put, wanted, submits,
                 failures>>

\* A mutant: startPolling fetches once and sets no timer.
NoTimer == FALSE

\* pollTimer is set by startPolling and never stopped.
PollTimer == current # NoEvent

Poll(q) ==
  /\ PollTimer
  /\ FetchConfig(q, current)
  /\ UNCHANGED <<config, pageVars, put, wanted, excused, selects, submits, failures>>
------------------------------------------------------------------------------
\* A GET of v: its error, like an absent key, reads as 0.
Read(v, found) == \/ found = v /\ UNCHANGED failures
                  \/ found = 0 /\ v # 0 /\ Failure

\* GetConfig's GET of the rate, where 0 stands for the default.
ReadRate(q) ==
  /\ fetch[q].at = "rate"
  /\ \E found \in {config[fetch[q].event].rate, 0} :
       /\ Read(config[fetch[q].event].rate, found)
       /\ fetch' = [fetch EXCEPT ![q].at = "capacity",
                      ![q].rate = IF found = 0 THEN DefaultAdmitRate ELSE found]
  /\ UNCHANGED <<config, pageVars, put, wanted, excused, selects, submits>>

\* GetConfig's GET of the capacity.
ReadCapacity(q) ==
  /\ fetch[q].at = "capacity"
  /\ \E found \in {config[fetch[q].event].capacity, 0} :
       /\ Read(config[fetch[q].event].capacity, found)
       /\ fetch' = [fetch EXCEPT ![q].at = "answer", ![q].capacity = found]
  /\ UNCHANGED <<config, pageVars, put, wanted, excused, selects, submits>>

Figures(e, r, c) == [event |-> e, rate |-> r, capacity |-> c]

\* The answer arrives: it is shown, whichever event it is about.
Answer(q) ==
  /\ fetch[q].at = "answer"
  /\ stats' = Figures(fetch[q].event, fetch[q].rate, fetch[q].capacity)
  /\ stale' = FALSE
  /\ fetch' = [fetch EXCEPT ![q] = Idle]
  /\ UNCHANGED <<config, options, current, enabled, loaded, put, wanted, excused,
                 selects, submits, failures>>

\* The request fails: the last figures are marked, whichever event they are of.
FetchFails(q) ==
  /\ fetch[q].at # "idle"
  /\ Failure
  /\ stale' = (stats # Blank)
  /\ fetch' = [fetch EXCEPT ![q] = Idle]
  /\ UNCHANGED <<config, options, current, stats, enabled, loaded, put, wanted,
                 excused, selects, submits>>
------------------------------------------------------------------------------
\* A mutant: the button can be pressed again while an update is under way.
LeftEnabled == TRUE

\* update-btn after the form is submitted.
ButtonOnSubmit == FALSE

\* The settings after an update: a rate is always given, a capacity may not be.
Updated(old, u) == IF u.capacity > 0 THEN u ELSE [old EXCEPT !.rate = u.rate]

\* The submit handler of update-form, for the event current at this moment.
Submit(p, u) ==
  /\ current # NoEvent /\ enabled
  /\ submits < MaxSubmits /\ submits' = submits + 1
  /\ Free(put, p)
  /\ enabled' = ButtonOnSubmit
  /\ put' = [put EXCEPT ![p] = Sent(current, u.rate, u.capacity)]
  /\ wanted' = [wanted EXCEPT ![current] = Updated(@, u)]
  /\ UNCHANGED <<config, options, current, stats, stale, loaded, fetch, excused,
                 selects, failures>>

\* A SET of UpdateRate takes effect or fails; the error is ignored.  It may fail
\* because the page has gone, which cancels the request's context.
Command(p, done) ==
  \/ (done \/ ~put[p].heard) /\ UNCHANGED <<failures, excused>>
  \/ ~done /\ Failure /\ excused' = excused \union {put[p].event}

SetRate(p) == \E done \in BOOLEAN :
  /\ put[p].at = "rate"
  /\ Command(p, done)
  /\ config' = [config EXCEPT ![put[p].event].rate = IF done THEN put[p].rate ELSE @]
  /\ put' = [put EXCEPT ![p].at = "capacity"]
  /\ UNCHANGED <<pageVars, fetch, wanted, selects, submits>>

\* The second SET is left out when no capacity was given.
SetCapacity(p) == \E done \in BOOLEAN :
  /\ put[p].at = "capacity"
  /\ done \/ put[p].capacity > 0
  /\ Command(p, done)
  /\ config' = [config EXCEPT ![put[p].event].capacity =
                  IF done /\ put[p].capacity > 0 THEN put[p].capacity ELSE @]
  /\ put' = [put EXCEPT ![p].at = "answer"]
  /\ UNCHANGED <<pageVars, fetch, wanted, selects, submits>>

\* Updates of other events that are under way when the page hears of one: there
\* is one button, and it is enabled although it was disabled for them.
Uncovered(p) == {e \in Event \ {put[p].event} : UnderWay(e) # {}}

\* The page hears "Saved" and enables the button, if it still listens.
Saved(p) ==
  /\ put[p].at = "answer"
  /\ enabled' = (enabled \/ put[p].heard)
  /\ excused' = excused \union IF put[p].heard THEN Uncovered(p) ELSE {}
  /\ put' = [put EXCEPT ![p] = Idle]
  /\ UNCHANGED <<config, options, current, stats, stale, loaded, fetch, wanted,
                 selects, submits, failures>>

\* The page hears "Update failed" and enables the button.  The request may never
\* have arrived, or the server goes on with it.
PutFails(p) ==
  /\ put[p].heard
  /\ Failure
  /\ enabled' = TRUE
  /\ excused' = excused \union {put[p].event} \union Uncovered(p)
  /\ put' \in {[put EXCEPT ![p] = Idle], [put EXCEPT ![p].heard = FALSE]}
  /\ UNCHANGED <<config, options, current, stats, stale, loaded, fetch, wanted,
                 selects, submits>>
------------------------------------------------------------------------------
\* The server and the network carry a request on.
ServeFetch(q) == ReadRate(q) \/ ReadCapacity(q) \/ Answer(q)
ServePut(p)   == SetRate(p) \/ SetCapacity(p) \/ Saved(p)

Operator == \/ \E q \in Fetch, e \in Event : Select(q, e)
            \/ \E p \in Put, u \in Update : Submit(p, u)

Load == LoadFails \/ \E ids \in Listing : UNCHANGED failures /\ LoadEvents(ids)

AdminNext == \/ Load \/ Operator
             \/ \E q \in Fetch : Poll(q) \/ ServeFetch(q) \/ FetchFails(q)
             \/ \E p \in Put : ServePut(p) \/ PutFails(p)

(***************************************************************************)
(* Fairness.  The timer keeps firing and every request is answered or      *)
(* fails in the end.  Nothing is assumed of the operator.                  *)
(***************************************************************************)
AdminSpec == /\ AdminInit /\ [][AdminNext]_adminVars
             /\ WF_adminVars(\E q \in Fetch : Poll(q))
             /\ \A q \in Fetch : WF_adminVars(ServeFetch(q))
             /\ \A p \in Put : WF_adminVars(ServePut(p))
------------------------------------------------------------------------------
\* Requests, figures and settings stay in their domains; no request is under way
\* for an event the page does not offer, and the button of a page without an
\* event stays disabled (loadEvents, startPolling).
AdminTypeOK ==
  /\ config \in [Event -> Settings] /\ wanted \in [Event -> Settings]
  /\ options \subseteq Event /\ current \in options \union {NoEvent}
  /\ stats.event \in options \union {NoEvent} /\ stats.rate \in Nat
  /\ stats.capacity \in Nat
  /\ {stale, enabled, loaded} \subseteq BOOLEAN
  /\ enabled => current # NoEvent
  /\ \A r \in {fetch[q] : q \in Fetch} \union {put[p] : p \in Put} :
       r = Idle \/ (r.event \in options /\ r.at \in Step)
  /\ excused \subseteq Event

\* Updates of an event take effect in the order in which the operator sent them:
\* once none is under way, Redis holds the last one, unless a command failed, a
\* connection broke, the operator selected an event meanwhile or the answer to an
\* update of another event came in between (the disabled button; UpdateRate's two
\* SETs).
LastUpdateWins ==
  \A e \in Event \ excused : UnderWay(e) = {} => config[e] = wanted[e]

\* The page shows what GetConfig would report of the selected event now.
UpToDate ==
  /\ current # NoEvent /\ ~stale
  /\ LET now == config[current]
     IN  stats = Figures(current, IF now.rate = 0 THEN DefaultAdmitRate ELSE now.rate,
                         now.capacity)

\* The page catches up: whatever answers come late, out of order, about another
\* event or not at all, in the end it shows the settings of the selected event,
\* unmarked, and keeps showing them (startPolling, fetchConfig).
CatchesUp == [](current # NoEvent => <>[]UpToDate)
==============================================================================
