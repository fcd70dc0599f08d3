------------------------------ MODULE Admission ------------------------------
(***************************************************************************)
(* The admission path: the queue server's createTicket, QueueExit and      *)
(* UpdateRate handlers, and the scheduler instances that pop tickets from  *)
(* the queues and admit them under a per-event leader lock.                *)
(*                                                                         *)
(* All shared state is in Redis and every Redis command is one step, so    *)
(* the steps of all handlers and of all scheduler instances interleave     *)
(* freely.  What can go wrong is chosen by Faults and counted by faults.   *)
(***************************************************************************)
EXTENDS SortedSet

CONSTANTS Event,             \* event ids
          Ticket,            \* ticket ids, one per createTicket call
          Scheduler,         \* scheduler processes
          NoScheduler,       \* marks a free lock
          EventOf,           \* the event each ticket is created for
          Score,             \* join times, in milliseconds
          DefaultAdmitRate,  \* SchedulerConfig.DefaultAdmitRate
          Rates, Capacities, \* the values an administrator sets
          Faults,            \* the kinds of fault that may happen
          MaxFaults,         \* bound on the number of faults
          MaxExits           \* bound on the exits reported for one visitor

FaultKind == {"redis_error",  \* a command fails, before or after it took effect
              "redis_retry",  \* go-redis repeats a command that took effect
              "aws_error", "sign_error",
              "crash", "sigterm",
              "disconnect",   \* a visitor's connection to the queue server breaks
              "slow_tick",    \* a tick outlives the 10s TTL of its lock
              "long_wait"}    \* a ticket outlives the 2h TTL of its hash

ASSUME ConstantsAssumption ==
    /\ Ticket \subseteq Nat /\ IsFiniteSet(Ticket)
    /\ EventOf \in [Ticket -> Event]
    /\ NoScheduler \notin Scheduler
    /\ Score \subseteq Nat
    /\ DefaultAdmitRate \in Nat
    /\ Rates \subseteq Nat \ {0}
    /\ Capacities \subseteq Nat \ {0}
    /\ Faults \subseteq FaultKind
    /\ MaxFaults \in Nat /\ MaxExits \in Nat

\* Rates are 64-bit integers: there is a largest one.
ASSUME RatesBounded ==
    \E m \in Rates \union {DefaultAdmitRate} :
      \A v \in Rates \union {DefaultAdmitRate} : v <= m

VARIABLES
  \* Redis
  queue,      \* queue:{event}, the members of the sorted set
  score,      \* ... and their scores
  hash,       \* ticket:{id}: which fields it has, "ttl" if an expiry is set
  active,     \* active:{event}
  rate,       \* rate:{event}, 0 when the key is absent
  capacity,   \* capacity:{event}, 0 when the key is absent
  lock,       \* scheduler:lock:{event}: who set it (the code stores "1")
  \* createTicket
  jpc,        \* how far the creation of a ticket has come
  \* scheduler processes
  pc,         \* the next command of the scheduler
  ev,         \* tick's eventID
  todo,       \* tickAllEvents: the ids that are left
  lim,        \* tick's rate, then n
  seen,       \* tick's active
  batch,      \* admitBatch's members that are left
  cancelled,  \* ctx is cancelled
  \* history, read by the properties only
  tokens,     \* admission JWTs signed for a ticket
  effects,    \* what admitBatch has done for a ticket
  exits,      \* exits reported for a ticket
  ceiling,    \* the largest capacity an event ever had, 0 for unlimited
  faults      \* faults so far

redisVars == <<queue, score, hash, active, rate, capacity, lock>>
localVars == <<ev, todo, lim, seen, batch>>
histVars  == <<tokens, effects, exits, ceiling>>
vars == <<queue, score, hash, active, rate, capacity, lock, jpc, pc, ev, todo,
          lim, seen, batch, cancelled, tokens, effects, exits, ceiling, faults>>

Batched   == {"issue", "store", "audit", "emit", "count", "publish"}
TickSteps == {"rate", "active", "capacity", "pop", "tick", "release"} \union Batched
Effect    == {"stored", "audited", "emitted", "counted", "published"}

InTick(s, e) == pc[s] \in TickSteps /\ ev[s] = e

Init ==
  /\ queue = [e \in Event |-> {}] /\ score = [t \in Ticket |-> 0]
  /\ hash = [t \in Ticket |-> {}]
  /\ active = [e \in Event |-> 0]
  /\ rate = [e \in Event |-> 0]
  /\ capacity \in [Event -> Capacities \union {0}] /\ ceiling = capacity
  /\ lock = [e \in Event |-> NoScheduler]
  /\ jpc = [t \in Ticket |-> "none"]
  /\ pc = [s \in Scheduler |-> "idle"]
  /\ \E e \in Event : ev = [s \in Scheduler |-> e]
  /\ todo = [s \in Scheduler |-> {}]
  /\ lim = [s \in Scheduler |-> 0] /\ seen = [s \in Scheduler |-> 0]
  /\ batch = [s \in Scheduler |-> {}]
  /\ cancelled = [s \in Scheduler |-> FALSE]
  /\ tokens = [t \in Ticket |-> 0] /\ exits = [t \in Ticket |-> 0]
  /\ effects = [t \in Ticket |-> {}]
  /\ faults = 0
------------------------------------------------------------------------------
(***************************************************************************)
(* How a call ends.  "failed": it had no effect and returned an error;     *)
(* "lost": it took effect and returned an error; "retried": it took effect *)
(* and the client, which lost the answer, sends it again.                  *)
(***************************************************************************)
Reply == {"ok", "failed", "lost", "retried"}

Applied(r) == r # "failed"

Fault(kind) == kind \in Faults /\ faults < MaxFaults /\ faults' = faults + 1

\* A Redis command sent with a context that is cancelled or not.
Redis(dead, r) ==
  \/ r = "ok" /\ ~dead /\ UNCHANGED faults
  \/ r = "failed" /\ dead /\ UNCHANGED faults
  \/ r \in {"failed", "lost"} /\ ~dead /\ Fault("redis_error")
  \/ r = "retried" /\ ~dead /\ Fault("redis_retry")

\* A call of an AWS service: its error is only logged.
Aws(dead, r) ==
  \/ r = "ok" /\ ~dead /\ UNCHANGED faults
  \/ r = "failed" /\ dead /\ UNCHANGED faults
  \/ r \in {"failed", "lost"} /\ ~dead /\ Fault("aws_error")
------------------------------------------------------------------------------
(***************************************************************************)
(* The queue server.                                                       *)
(***************************************************************************)

\* createTicket's ZADD.  The score is the clock of one of several servers,
\* read before the command is sent, so scores need not grow with arrival.
ZAdd(t, ms, r) ==
  /\ \/ jpc[t] = "none"
     \/ jpc[t] = "retrying" /\ ms = score[t]
  /\ Redis(FALSE, r)
  /\ score' = [score EXCEPT ![t] = IF Applied(r) THEN ms ELSE @]
  /\ queue' = [queue EXCEPT ![EventOf[t]] = IF Applied(r) THEN @ \union {t} ELSE @]
  /\ jpc' = [jpc EXCEPT ![t] = CASE r = "ok" -> "added"
                                 [] r = "retried" -> "retrying"
                                 [] r = "lost" \/ @ = "retrying" -> "orphan"
                                 [] OTHER -> "refused"]
  /\ UNCHANGED <<hash, active, rate, capacity, lock, pc, localVars, cancelled,
                 histVars>>

\* createTicket's HSET of eventId, joinTime and the secret's hash; error ignored.
HSetMeta(t, r) ==
  /\ jpc[t] = "added"
  /\ Redis(FALSE, r)
  /\ hash' = [hash EXCEPT ![t] = IF Applied(r) THEN @ \union {"meta"} ELSE @]
  /\ jpc' = [jpc EXCEPT ![t] = IF r = "retried" THEN @ ELSE "hashed"]
  /\ UNCHANGED <<queue, score, active, rate, capacity, lock, pc, localVars,
                 cancelled, histVars>>

\* createTicket's EXPIRE, which does nothing for a key that is not there.
Expire(t, r) ==
  /\ jpc[t] = "hashed"
  /\ Redis(FALSE, r)
  /\ hash' = [hash EXCEPT ![t] = IF Applied(r) /\ @ # {} THEN @ \union {"ttl"} ELSE @]
  /\ jpc' = [jpc EXCEPT ![t] = IF r = "retried" THEN @ ELSE "joined"]
  /\ UNCHANGED <<queue, score, active, rate, capacity, lock, pc, localVars,
                 cancelled, histVars>>

\* The visitor holds a token: it was stored for the poll or pushed to the stream.
Admitted(t) == effects[t] \intersect {"stored", "published"} # {}

\* QueueExit's DECR, called by the origin for an admitted visitor.  Nothing
\* ties the call to a visitor, so it may be repeated.
QueueExit(t, r) ==
  /\ Admitted(t)
  /\ exits[t] < MaxExits
  /\ Redis(FALSE, r)
  /\ active' = [active EXCEPT ![EventOf[t]] = IF Applied(r) THEN @ - 1 ELSE @]
  /\ exits' = [exits EXCEPT ![t] = IF r = "retried" THEN @ ELSE @ + 1]
  /\ UNCHANGED <<queue, score, hash, rate, capacity, lock, jpc, pc, localVars,
                 cancelled, tokens, effects, ceiling>>

\* UpdateRate's two SETs, which are separate commands with ignored errors.
SetRate(e, v) ==
  /\ rate' = [rate EXCEPT ![e] = v]
  /\ UNCHANGED <<queue, score, hash, active, capacity, lock, jpc, pc, localVars,
                 cancelled, histVars, faults>>

Larger(a, b) == IF a < b THEN b ELSE a

SetCapacity(e, v) ==
  /\ capacity' = [capacity EXCEPT ![e] = v]
  /\ ceiling' = [ceiling EXCEPT ![e] = IF @ = 0 THEN 0 ELSE Larger(@, v)]
  /\ UNCHANGED <<queue, score, hash, active, rate, lock, jpc, pc, localVars,
                 cancelled, tokens, effects, exits, faults>>

\* Redis drops the hash of a ticket whose TTL has passed.
ExpireHash(t) ==
  /\ "long_wait" \in Faults
  /\ jpc[t] = "joined" /\ "ttl" \in hash[t]
  /\ hash' = [hash EXCEPT ![t] = {}]
  /\ UNCHANGED <<queue, score, active, rate, capacity, lock, jpc, pc, localVars,
                 cancelled, histVars, faults>>
------------------------------------------------------------------------------
(***************************************************************************)
(* The scheduler.                                                          *)
(***************************************************************************)

\* tickAllEvents: SCAN finds the events that have a queue.
Scan(s) ==
  /\ pc[s] = "idle" /\ todo[s] = {} /\ ~cancelled[s]
  /\ todo' = [todo EXCEPT ![s] = {e \in Event : queue[e] # {}}]
  /\ UNCHANGED <<redisVars, jpc, pc, ev, lim, seen, batch, cancelled, histVars,
                 faults>>

\* A mutant: SET in place of SETNX.
LockAlwaysFree(e) == TRUE

\* SETNX sets the key only if it is absent.
LockFree(e) == lock[e] = NoScheduler

\* tick's AcquireLock: SETNX.  On an error or a taken lock the tick is over.
AcquireLock(s, e, r) ==
  /\ pc[s] = "idle" /\ e \in todo[s]
  /\ Redis(cancelled[s], r)
  /\ lock' = [lock EXCEPT ![e] = IF LockFree(e) /\ Applied(r) THEN s ELSE @]
  /\ IF LockFree(e) /\ r = "ok"
     THEN /\ pc' = [pc EXCEPT ![s] = "rate"]
          /\ ev' = [ev EXCEPT ![s] = e]
          /\ UNCHANGED todo
     ELSE /\ todo' = [todo EXCEPT ![s] = IF r = "retried" THEN @ ELSE @ \ {e}]
          /\ UNCHANGED <<pc, ev>>
  /\ UNCHANGED <<queue, score, hash, active, rate, capacity, jpc, lim, seen,
                 batch, cancelled, histVars>>

Goto(s, step) == pc' = [pc EXCEPT ![s] = step]

\* GET rate: an error, like an absent key, gives the default; rate 0 ends the tick.
GetRate(s, r) ==
  /\ pc[s] = "rate"
  /\ r \in {"ok", "failed"} /\ Redis(cancelled[s], r)
  /\ LET found == IF r = "ok" /\ rate[ev[s]] # 0 THEN rate[ev[s]]
                                                  ELSE DefaultAdmitRate IN
     /\ lim' = [lim EXCEPT ![s] = found]
     /\ Goto(s, IF found = 0 THEN "release" ELSE "active")
  /\ UNCHANGED <<redisVars, jpc, ev, todo, seen, batch, cancelled, histVars>>

\* GET active: an error, like an absent key, reads as 0.
GetActive(s, r) ==
  /\ pc[s] = "active"
  /\ r \in {"ok", "failed"} /\ Redis(cancelled[s], r)
  /\ seen' = [seen EXCEPT ![s] = IF r = "ok" THEN active[ev[s]] ELSE 0]
  /\ Goto(s, "capacity")
  /\ UNCHANGED <<redisVars, jpc, ev, todo, lim, batch, cancelled, histVars>>

\* A mutant: the headroom forgets who is inside.
QuotaIgnoringActive(perTick, cap, act) ==
  IF cap > 0 /\ cap < perTick THEN cap ELSE perTick

\* How many tickets the tick pops: min(rate, headroom), all of rate when the
\* capacity is 0.
Quota(perTick, cap, act) ==
  IF cap > 0 /\ cap - act < perTick THEN cap - act ELSE perTick

\* A mutant: the test for headroom misses that it may be negative.
NoneLeft(n) == n = 0

\* headroom <= 0 ends the tick.
NoHeadroom(n) == n <= 0

\* GET capacity: an error, like an absent key, reads as 0, "unlimited".
GetCapacity(s, r) ==
  /\ pc[s] = "capacity"
  /\ r \in {"ok", "failed"} /\ Redis(cancelled[s], r)
  /\ LET n == Quota(lim[s], IF r = "ok" THEN capacity[ev[s]] ELSE 0, seen[s]) IN
       IF NoHeadroom(n)
       THEN Goto(s, "release") /\ UNCHANGED lim
       ELSE Goto(s, "pop") /\ lim' = [lim EXCEPT ![s] = n]
  /\ UNCHANGED <<redisVars, jpc, ev, todo, seen, batch, cancelled, histVars>>

\* A mutant: the members are read (ZRANGE) but not removed.
AfterRange(q, members, r) == q

\* A mutant: the members are read and the whole key is deleted.
AfterDel(q, members, r) == IF Applied(r) THEN {} ELSE q

\* What ZPOPMIN leaves in the queue.
AfterPop(q, members, r) == IF Applied(r) THEN q \ members ELSE q

\* admitBatch's ZPOPMIN.  When its answer is lost, so are the popped tickets.
ZPopMin(s, r) ==
  /\ pc[s] = "pop"
  /\ Redis(cancelled[s], r)
  /\ LET members == PopMin(score, queue[ev[s]], lim[s]) IN
     /\ queue' = [queue EXCEPT ![ev[s]] = AfterPop(@, members, r)]
     /\ batch' = [batch EXCEPT ![s] = IF r = "ok" THEN members ELSE {}]
     /\ Goto(s, CASE r = "retried" -> "pop"
                  [] r = "ok" /\ members # {} -> "issue"
                  [] OTHER -> "release")
  /\ UNCHANGED <<score, hash, active, rate, capacity, lock, jpc, ev, todo, lim,
                 seen, cancelled, histVars>>

\* The ticket the loop over members is at.
Current(s, t) == IsFirst(score, batch[s], t)

\* A mutant: the loop is left after its first member.
LeaveLoop(s, t) ==
  /\ batch' = [batch EXCEPT ![s] = {}]
  /\ Goto(s, "tick")

\* The end of the loop's body: the next member, or the tick message.
NextMember(s, t) ==
  /\ batch' = [batch EXCEPT ![s] = @ \ {t}]
  /\ Goto(s, IF batch[s] = {t} THEN "tick" ELSE "issue")

\* issueToken signs the admission JWT; on an error the ticket is skipped.
IssueToken(s, t) ==
  /\ pc[s] = "issue" /\ Current(s, t)
  /\ \/ /\ tokens' = [tokens EXCEPT ![t] = @ + 1]
        /\ Goto(s, "store")
        /\ UNCHANGED <<batch, faults>>
     \/ /\ Fault("sign_error")
        /\ NextMember(s, t)
        /\ UNCHANGED tokens
  /\ UNCHANGED <<redisVars, jpc, ev, todo, lim, seen, cancelled, effects, exits,
                 ceiling>>

Done(t, what, r) ==
  effects' = [effects EXCEPT ![t] = IF Applied(r) THEN @ \union {what} ELSE @]

\* A mutant: the audit follows whether or not the token was stored.
AuditAlways(r) == IF r = "retried" THEN "store" ELSE "audit"

\* The step after HSET admission_token.
AfterStore(r) == CASE r = "ok" -> "audit"
                   [] r = "retried" -> "store"
                   [] OTHER -> "count"

\* HSET admission_token.  The audit and the event follow only its success.
HSetToken(s, t, r) ==
  /\ pc[s] = "store" /\ Current(s, t)
  /\ Redis(cancelled[s], r)
  /\ hash' = [hash EXCEPT ![t] = IF Applied(r) THEN @ \union {"token"} ELSE @]
  /\ Done(t, "stored", r)
  /\ Goto(s, AfterStore(r))
  /\ UNCHANGED <<queue, score, active, rate, capacity, lock, jpc, localVars,
                 cancelled, tokens, exits, ceiling>>

\* DynamoWriter.Write and SQSEmitter.Emit: errors are logged.
DynamoWrite(s, t, r) ==
  /\ pc[s] = "audit" /\ Current(s, t)
  /\ Aws(cancelled[s], r)
  /\ Done(t, "audited", r)
  /\ Goto(s, "emit")
  /\ UNCHANGED <<redisVars, jpc, localVars, cancelled, tokens, exits, ceiling>>

SqsEmit(s, t, r) ==
  /\ pc[s] = "emit" /\ Current(s, t)
  /\ Aws(cancelled[s], r)
  /\ Done(t, "emitted", r)
  /\ Goto(s, "count")
  /\ UNCHANGED <<redisVars, jpc, localVars, cancelled, tokens, exits, ceiling>>

\* INCR active, also when the token could not be stored; error ignored.
Incr(s, t, r) ==
  /\ pc[s] = "count" /\ Current(s, t)
  /\ Redis(cancelled[s], r)
  /\ active' = [active EXCEPT ![ev[s]] = IF Applied(r) THEN @ + 1 ELSE @]
  /\ Done(t, "counted", r)
  /\ Goto(s, IF r = "retried" THEN "count" ELSE "publish")
  /\ UNCHANGED <<queue, score, hash, rate, capacity, lock, jpc, localVars,
                 cancelled, tokens, exits, ceiling>>

\* PUBLISH ticket:updates:{ticket} ends the loop's body; errors are logged.
PublishAdmitted(s, t, r) ==
  /\ pc[s] = "publish" /\ Current(s, t)
  /\ Redis(cancelled[s], r)
  /\ Done(t, "published", r)
  /\ IF r = "retried" THEN UNCHANGED <<batch, pc>> ELSE NextMember(s, t)
  /\ UNCHANGED <<redisVars, jpc, ev, todo, lim, seen, cancelled, tokens, exits,
                 ceiling>>

\* PUBLISH queue:tick:{event} after the batch; error ignored.
PublishTick(s, r) ==
  /\ pc[s] = "tick"
  /\ Redis(cancelled[s], r)
  /\ Goto(s, IF r = "retried" THEN "tick" ELSE "release")
  /\ UNCHANGED <<redisVars, jpc, localVars, cancelled, histVars>>

\* The deferred ReleaseLock: DEL, whoever set the key.  tick returns.
ReleaseLock(s, r) ==
  /\ pc[s] = "release"
  /\ Redis(cancelled[s], r)
  /\ lock' = [lock EXCEPT ![ev[s]] = IF Applied(r) THEN NoScheduler ELSE @]
  /\ IF r = "retried"
     THEN UNCHANGED <<pc, todo, lim, seen>>
     ELSE /\ Goto(s, "idle")
          /\ todo' = [todo EXCEPT ![s] = @ \ {ev[s]}]
          /\ lim' = [lim EXCEPT ![s] = 0] /\ seen' = [seen EXCEPT ![s] = 0]
  /\ UNCHANGED <<queue, score, hash, active, rate, capacity, jpc, ev, batch,
                 cancelled, histVars>>

\* A mutant: the lock is set without a TTL.
ExpireNever(e) == FALSE /\ UNCHANGED vars

\* SchedulerLockTTL passes.  While its holder is in the tick this needs a tick
\* of more than 10 seconds.
ExpireLock(e) ==
  /\ lock[e] # NoScheduler
  /\ "slow_tick" \in Faults \/ ~InTick(lock[e], e)
  /\ lock' = [lock EXCEPT ![e] = NoScheduler]
  /\ UNCHANGED <<queue, score, hash, active, rate, capacity, jpc, pc, localVars,
                 cancelled, histVars, faults>>

Down(s) ==
  /\ Goto(s, "down")
  /\ todo' = [todo EXCEPT ![s] = {}] /\ batch' = [batch EXCEPT ![s] = {}]
  /\ lim' = [lim EXCEPT ![s] = 0] /\ seen' = [seen EXCEPT ![s] = 0]
  /\ cancelled' = [cancelled EXCEPT ![s] = FALSE]
  /\ UNCHANGED <<redisVars, jpc, ev, histVars>>

\* The process is killed: what it holds in memory is gone.
Crash(s) == pc[s] # "down" /\ Fault("crash") /\ Down(s)

\* SIGTERM cancels ctx: every later call of the process fails.
Sigterm(s) ==
  /\ pc[s] # "down" /\ ~cancelled[s]
  /\ Fault("sigterm")
  /\ cancelled' = [cancelled EXCEPT ![s] = TRUE]
  /\ UNCHANGED <<redisVars, jpc, pc, localVars, histVars>>

\* Start sees ctx.Done between two rounds of ticks.
Stop(s) ==
  /\ pc[s] = "idle" /\ todo[s] = {} /\ cancelled[s]
  /\ Down(s)
  /\ UNCHANGED faults

\* ECS starts the process again.
Restart(s) ==
  /\ pc[s] = "down"
  /\ Goto(s, "idle")
  /\ UNCHANGED <<redisVars, jpc, localVars, cancelled, histVars, faults>>
------------------------------------------------------------------------------
Member(s) == \E t \in Ticket, r \in Reply :
  \/ IssueToken(s, t) \/ HSetToken(s, t, r) \/ DynamoWrite(s, t, r)
  \/ SqsEmit(s, t, r) \/ Incr(s, t, r) \/ PublishAdmitted(s, t, r)

Tick(s) == \E r \in Reply :
  \/ \E e \in Event : AcquireLock(s, e, r)
  \/ GetRate(s, r) \/ GetActive(s, r) \/ GetCapacity(s, r) \/ ZPopMin(s, r)
  \/ PublishTick(s, r) \/ ReleaseLock(s, r)

Work(s) == Scan(s) \/ Tick(s) \/ Member(s) \/ Stop(s)

Server == \E t \in Ticket, r \in Reply :
  \/ \E ms \in Score : ZAdd(t, ms, r)
  \/ HSetMeta(t, r) \/ Expire(t, r) \/ QueueExit(t, r)

Admin == \E e \in Event : \/ \E v \in Rates : SetRate(e, v)
                          \/ \E v \in Capacities : SetCapacity(e, v)

Environment == \/ \E t \in Ticket : ExpireHash(t)
               \/ \E e \in Event : ExpireLock(e)
               \/ \E s \in Scheduler : Crash(s) \/ Sigterm(s) \/ Restart(s)

Next == Server \/ Admin \/ Environment \/ \E s \in Scheduler : Work(s)

Spec == Init /\ [][Next]_vars

(***************************************************************************)
(* Fairness.  A scheduler process keeps taking its next step (a Go loop    *)
(* driven by a ticker), a stopped one is started again by ECS, and Redis   *)
(* expires keys.  Nothing is assumed of visitors or administrators.        *)
(***************************************************************************)
SchedulerFairness == /\ \A s \in Scheduler : WF_vars(Work(s)) /\ WF_vars(Restart(s))
                     /\ \A e \in Event : WF_vars(ExpireLock(e))

FairSpec == Spec /\ SchedulerFairness

\* ... and every admitted visitor reports an exit in the end, at least once.
VisitorsLeaveSpec ==
  FairSpec /\ \A t \in Ticket : WF_vars(exits[t] = 0 /\ \E r \in Reply : QueueExit(t, r))
------------------------------------------------------------------------------
\* Every variable stays in its domain: what Redis and the processes can hold.
TypeOK ==
  /\ queue \in [Event -> SUBSET Ticket] /\ score \in [Ticket -> Nat]
  /\ hash \in [Ticket -> SUBSET {"meta", "token", "ttl"}]
  /\ active \in [Event -> Int]
  /\ rate \in [Event -> Nat] /\ capacity \in [Event -> Nat]
  /\ ceiling \in [Event -> Nat]
  /\ lock \in [Event -> Scheduler \union {NoScheduler}]
  /\ jpc \in [Ticket -> {"none", "retrying", "added", "hashed", "joined",
                         "orphan", "refused"}]
  /\ pc \in [Scheduler -> {"idle", "down"} \union TickSteps]
  /\ ev \in [Scheduler -> Event] /\ todo \in [Scheduler -> SUBSET Event]
  /\ lim \in [Scheduler -> Nat] /\ seen \in [Scheduler -> Int]
  /\ batch \in [Scheduler -> SUBSET Ticket]
  /\ cancelled \in [Scheduler -> BOOLEAN]
  /\ tokens \in [Ticket -> Nat] /\ exits \in [Ticket -> Nat]
  /\ effects \in [Ticket -> SUBSET Effect]
  /\ faults \in Nat

\* The leader lock works: two instances are never in the tick of one event at
\* the same time (AcquireLock, ReleaseLock; QUEUE-07).
OneHolder == \A e \in Event, s1, s2 \in Scheduler :
               InTick(s1, e) /\ InTick(s2, e) => s1 = s2

\* However ticks of several instances, failures and restarts interleave, a
\* ticket is never signed two admission JWTs (admitBatch's issueToken).
AtMostOneToken == \A t \in Ticket : tokens[t] <= 1

\* Visitors of an event that hold a token and have not left.
Inside(e) == {t \in Ticket : EventOf[t] = e /\ Admitted(t) /\ exits[t] = 0}

\* The most a tick admits.
MaxRate == CHOOSE m \in Rates \union {DefaultAdmitRate} :
             \A v \in Rates \union {DefaultAdmitRate} : v <= m

\* min(rate, headroom) works, although active is read long before the INCRs and
\* exits and capacity changes arrive in between: without a fault the visitors inside
\* never outnumber the largest capacity the event had, and an unread counter or
\* capacity, an uncounted visitor or a lost command opens the door for one batch,
\* not for good (tick, admitBatch, QueueExit).
OverrunBounded ==
  \A e \in Event : ceiling[e] > 0 =>
    Cardinality(Inside(e)) <= ceiling[e] + faults * MaxRate

\* The counter itself never exceeds the largest capacity, also when crashes and
\* repeated exits have detached it from the number of visitors inside.
ActiveWithinCapacity == \A e \in Event : ceiling[e] > 0 => active[e] <= ceiling[e]

\* The ticket got into the sorted set.
Arrived(t) == jpc[t] \notin {"none", "refused"}

\* The ticket was popped and no instance is working on it any more.
Processed(t) == /\ Arrived(t)
                /\ t \notin queue[EventOf[t]]
                /\ \A s \in Scheduler : t \notin batch[s]

\* Popped tickets that no instance works on any more, although their token is not
\* stored, their slot not counted or their message not published.
Lost == {t \in Ticket : /\ Processed(t)
                        /\ ~({"stored", "counted", "published"} \subseteq effects[t])}

\* The pop loses nobody without a fault, also when two instances pop at the same
\* time, and with each fault at most one batch (admitBatch).
LossBounded == Cardinality(Lost) <= faults * MaxRate

\* The audit row and the admission event are written only for a ticket whose
\* token was stored, and nothing is done for a ticket without a token.
AuditTrailSound ==
  \A t \in Ticket :
    /\ effects[t] \intersect {"audited", "emitted"} # {} => "stored" \in effects[t]
    /\ effects[t] # {} => tokens[t] > 0

\* Between batches, active is the number of admitted visitors less the exits
\* reported, but for one visitor per fault: an INCR or DECR that fails, a crash or
\* a stop in the middle of a batch detaches it by one and not by the whole batch
\* (admitBatch's INCR against QueueExit's DECR).
DriftBounded ==
  \A e \in Event :
    (\A s \in Scheduler : InTick(s, e) => pc[s] \notin Batched) =>
      active[e] - (Cardinality({t \in Ticket : EventOf[t] = e /\ Admitted(t)})
                   - Cardinality({t \in Ticket : EventOf[t] = e /\ exits[t] > 0}))
        \in -faults .. faults

\* The admission path implements the waiting room: visitors are called from the
\* front of the line and admitted at most once (ZADD, ZPOPMIN, issueToken).
Room == INSTANCE WaitingRoom
          WITH waiting <- queue, place <- score,
               called <- {t \in Ticket : /\ Arrived(t) /\ tokens[t] = 0
                                         /\ t \notin queue[EventOf[t]]},
               admitted <- {t \in Ticket : tokens[t] > 0}

RoomSpec == Room!Spec

\* Everybody in line is called in the end, whatever instances crash, stop, fail
\* and leave locks behind (Start, tickAllEvents, tick).
EveryoneCalled == \A t \in Ticket : t \in queue[EventOf[t]] ~> t \notin queue[EventOf[t]]

\* "Popped but the token is not yet written" is a transient window: a popped
\* ticket has its admission_token in the end.
PendingIsTransient ==
  \A t \in Ticket : (Arrived(t) /\ t \notin queue[EventOf[t]]) ~> "token" \in hash[t]
==============================================================================
