--------------------------- MODULE StatusDelivery ---------------------------
(***************************************************************************)
(* How an admission reaches the visitor: the waiting page (queue.js), the  *)
(* status handlers QueueStatusPoll and QueueStatusSSE, and the Redis       *)
(* pub/sub channel ticket:updates:{ticket}, composed with Admission.       *)
(*                                                                         *)
(* The page polls every 5s, also while an earlier poll is unanswered.      *)
(* When an answer says that the rank is below SSEThreshold it stops the    *)
(* timer for good and opens an event stream; polls that are on the way     *)
(* then may still be answered.  The positions that are displayed are left  *)
(* out; so are heartbeats.                                                 *)
(***************************************************************************)
EXTENDS Admission

CONSTANTS SSEThreshold,
          Viewer,   \* the tickets whose page is open
          Request   \* polls of a page that may be on the way at a time

ASSUME DeliveryAssumption == SSEThreshold \in Nat /\ Viewer \subseteq Ticket

VARIABLES page,    \* the visitor's page: polling, streaming, or gone to the target
          poll,    \* each call of pollOnce and its handler: next step, or the answer
          stream,  \* QueueStatusSSE and the page's es, "none" if null
          pushed,  \* an admitted message waits in the stream's pubsub channel
          opened,  \* history: EventSources the page has opened
          moved    \* history: times the page has set location.href

clientVars == <<page, poll, stream, pushed, opened, moved>>
allVars == <<vars, clientVars>>

Answer == {"position", "upgrade", "pending", "admitted", "failed"}

DeliveryInit ==
  /\ Init
  /\ page = [t \in Ticket |-> "off"]
  /\ poll = [t \in Ticket |-> [q \in Request |-> "none"]]
  /\ stream = [t \in Ticket |-> "none"] /\ pushed = [t \in Ticket |-> FALSE]
  /\ opened = [t \in Ticket |-> 0] /\ moved = [t \in Ticket |-> 0]

\* A read by a status handler; the rest of Admission's state stays as it is.
Read(r) ==
  /\ r \in {"ok", "failed"} /\ Redis(FALSE, r)
  /\ UNCHANGED <<redisVars, jpc, pc, localVars, cancelled, histVars>>
------------------------------------------------------------------------------
\* Join's redirect opens the page, which starts to poll.
OpenPage(t) ==
  /\ t \in Viewer /\ jpc[t] = "joined" /\ page[t] = "off"
  /\ page' = [page EXCEPT ![t] = "poll"]
  /\ UNCHANGED <<vars, poll, stream, pushed, opened, moved>>

Progress(t, q, step) ==
  /\ poll' = [poll EXCEPT ![t][q] = step]
  /\ UNCHANGED <<page, stream, pushed, opened, moved>>

\* The timer calls pollOnce, whether or not earlier calls have returned.
StartPoll(t, q) ==
  /\ page[t] = "poll" /\ poll[t][q] = "none"
  /\ Progress(t, q, "auth")
  /\ UNCHANGED vars

\* EventIDFromTicket (404) and statusAuthorized (403) read fields of the hash
\* that createTicket wrote.
Authorized(t, r) == r = "ok" /\ "meta" \in hash[t]

PollAuth(t, q, r) ==
  /\ poll[t][q] = "auth" /\ Read(r)
  /\ Progress(t, q, IF Authorized(t, r) THEN "token" ELSE "failed")

\* A mutant: the token is not looked for once the rank is gone.
TokenWhileRanked(t, r) ==
  r = "ok" /\ "token" \in hash[t] /\ t \in queue[EventOf[t]]

\* A mutant: a ticket without a rank counts as admitted.
TokenIfPopped(t, r) == r = "ok" /\ t \notin queue[EventOf[t]]

\* HGET admission_token finds the token.
TokenFound(t, r) == r = "ok" /\ "token" \in hash[t]

PollToken(t, q, r) ==
  /\ poll[t][q] = "token" /\ Read(r)
  /\ Progress(t, q, IF TokenFound(t, r) THEN "admitted" ELSE "rank")

\* GetPosition: no rank, or an error, is answered by "pending".
PollRank(t, q, r) ==
  LET position == GetPosition(score, queue[EventOf[t]], t) IN
  /\ poll[t][q] = "rank" /\ Read(r)
  /\ Progress(t, q, CASE r = "failed" \/ position < 0 -> "pending"
                      [] position < SSEThreshold /\ r = "ok" -> "upgrade"
                      [] OTHER -> "position")

\* A mutant: the subscription outlives its stream.
KeepMessage(t) == pushed

\* pubsub.Close(), deferred by QueueStatusSSE.
Unsubscribe(t) == [pushed EXCEPT ![t] = FALSE]

\* handleAdmitted: the first call stops the timer, closes the stream, if there is
\* one, and goes to the target; while the page is navigating it does nothing.
HandleAdmitted(t) ==
  IF page[t] = "gone" THEN UNCHANGED <<page, stream, pushed, moved>>
  ELSE /\ page' = [page EXCEPT ![t] = "gone"]
       /\ stream' = [stream EXCEPT ![t] = IF @ = "none" THEN @ ELSE "ended"]
       /\ pushed' = Unsubscribe(t)
       /\ moved' = [moved EXCEPT ![t] = @ + 1]

\* A mutant: any answer that says so opens a stream.
AnyUpgrade(t) == TRUE

\* !es
NoStreamYet(t) == stream[t] = "none"

\* pollOnce receives the answer, however late: it navigates, changes to the
\* stream, or waits for the next call of the timer.
PollAnswer(t, q) ==
  /\ poll[t][q] \in Answer
  /\ poll' = [poll EXCEPT ![t][q] = "none"]
  /\ CASE poll[t][q] = "admitted" -> HandleAdmitted(t) /\ UNCHANGED opened
       [] poll[t][q] = "upgrade" /\ NoStreamYet(t) ->
            /\ page' = [page EXCEPT ![t] = IF @ = "gone" THEN @ ELSE "sse"]
            /\ stream' = [stream EXCEPT ![t] = "connecting"]
            /\ opened' = [opened EXCEPT ![t] = @ + 1]
            /\ UNCHANGED <<pushed, moved>>
       [] OTHER -> UNCHANGED <<page, stream, pushed, opened, moved>>
  /\ UNCHANGED vars

\* The poll's connection breaks; pollOnce catches the error.
PollLost(t, q) ==
  /\ poll[t][q] # "none"
  /\ Fault("disconnect")
  /\ Progress(t, q, "none")
  /\ UNCHANGED <<redisVars, jpc, pc, localVars, cancelled, histVars>>
------------------------------------------------------------------------------
\* QueueStatusSSE's checks.  An EventSource that is answered with an error status
\* does not reconnect.
StreamAuth(t, r) ==
  /\ stream[t] = "connecting" /\ Read(r)
  /\ stream' = [stream EXCEPT ![t] = IF Authorized(t, r) THEN "authorized" ELSE "closed"]
  /\ UNCHANGED <<page, poll, pushed, opened, moved>>

\* Redis executes the SUBSCRIBE.  The initial rank read that follows only
\* displays a position: it never looks at admission_token.
Subscribe(t) ==
  /\ stream[t] = "authorized"
  /\ stream' = [stream EXCEPT ![t] = "listening"]
  /\ UNCHANGED <<vars, page, poll, pushed, opened, moved>>

\* The loop takes the admitted message, sends the token and ends; the page
\* navigates.  A stream that a late answer opened while the page was already
\* navigating connects again.
StreamAdmitted(t) ==
  /\ stream[t] = "listening" /\ pushed[t]
  /\ IF page[t] = "gone"
     THEN /\ stream' = [stream EXCEPT ![t] = "connecting"]
          /\ pushed' = Unsubscribe(t)
          /\ UNCHANGED <<page, moved>>
     ELSE HandleAdmitted(t)
  /\ UNCHANGED <<vars, poll, opened>>

\* The stream breaks: its subscription and what it has not sent are gone, and
\* the EventSource connects again.
StreamLost(t) ==
  /\ stream[t] \in {"authorized", "listening"}
  /\ Fault("disconnect")
  /\ stream' = [stream EXCEPT ![t] = "connecting"]
  /\ pushed' = Unsubscribe(t)
  /\ UNCHANGED <<redisVars, jpc, pc, localVars, cancelled, histVars, page, poll,
                 opened, moved>>
------------------------------------------------------------------------------
Published(t) == \E s \in Scheduler, r \in Reply :
                  Applied(r) /\ PublishAdmitted(s, t, r)

\* PUBLISH reaches the streams that are subscribed at that moment, no other.
Deliver == pushed' = [t \in Ticket |-> \/ pushed[t]
                                       \/ stream[t] = "listening" /\ Published(t)]

AdmissionStep == Next /\ Deliver /\ UNCHANGED <<page, poll, stream, opened, moved>>

PollStep(t, q) == \E r \in {"ok", "failed"} :
  \/ StartPoll(t, q) \/ PollAuth(t, q, r) \/ PollToken(t, q, r) \/ PollRank(t, q, r)
  \/ PollAnswer(t, q)

StreamStep(t) == \E r \in {"ok", "failed"} :
  StreamAuth(t, r) \/ Subscribe(t) \/ StreamAdmitted(t)

DeliveryNext == \/ AdmissionStep
                \/ \E t \in Viewer : \/ OpenPage(t) \/ StreamStep(t) \/ StreamLost(t)
                                     \/ \E q \in Request : PollStep(t, q) \/ PollLost(t, q)

\* The page stays open, its timer runs and its requests are answered; the
\* scheduler is as fair as in Admission.
DeliverySpec ==
  /\ DeliveryInit /\ [][DeliveryNext]_allVars
  /\ \A s \in Scheduler : /\ WF_allVars(Work(s) /\ AdmissionStep)
                          /\ WF_allVars(Restart(s) /\ AdmissionStep)
  /\ \A e \in Event : WF_allVars(ExpireLock(e) /\ AdmissionStep)
  /\ \A t \in Viewer : /\ WF_allVars(StreamStep(t))
                       /\ \A q \in Request : WF_allVars(PollStep(t, q))
------------------------------------------------------------------------------
\* Every variable stays in its domain, the page has an EventSource exactly when it
\* needs one, and a message waits only for a subscribed stream.
DeliveryTypeOK ==
  /\ page \in [Ticket -> {"off", "poll", "sse", "gone"}]
  /\ poll \in [Ticket -> [Request -> {"none", "auth", "token", "rank"} \union Answer]]
  /\ stream \in [Ticket -> {"none", "connecting", "authorized", "listening", "closed",
                            "ended"}]
  /\ pushed \in [Ticket -> BOOLEAN]
  /\ \A t \in Ticket : /\ page[t] \in {"off", "poll"} => stream[t] = "none"
                       /\ page[t] = "sse" => stream[t] \notin {"none", "ended"}
                       /\ pushed[t] => stream[t] = "listening"

\* However polls overlap and however late they are answered, the page opens one
\* EventSource and goes to its target once (pollOnce's !es, handleAdmitted's
\* navigating; UI-05).
OnceEach == \A t \in Ticket : opened[t] <= 1 /\ moved[t] <= 1

\* The page is open and the ticket's hash is complete: createTicket's HSET did
\* not fail and the scheduler has added the token.
Entitled(t) == page[t] # "off" /\ {"meta", "token"} \subseteq hash[t]

\* A visitor whose page is open and whose token is stored goes to the target in
\* the end (QueueStatusPoll, QueueStatusSSE, handleAdmitted).
Delivered ==
  \A t \in Ticket : Entitled(t) ~> page[t] = "gone"

\* The stream cannot deliver any more: it is closed for good, or the scheduler is
\* done with the ticket and no message waits in the stream's channel.
Missed(t) == /\ page[t] = "sse"
             /\ stream[t] = "closed" \/ (Processed(t) /\ ~pushed[t])

\* The only visitors who are left standing are the ones whose stream missed the
\* one message: a poll finds the token whenever it comes, and a message that
\* finds a subscribed stream is sent on.
DeliveredUnlessMissed ==
  \A t \in Ticket : Entitled(t) ~> (page[t] = "gone" \/ Missed(t))

\* A visitor leaves the waiting page only after being popped and given a token,
\* however stale the answers are that the page acts on.
NoBypass == \A t \in Ticket :
              page[t] = "gone" => tokens[t] > 0 /\ t \notin queue[EventOf[t]]
==============================================================================
