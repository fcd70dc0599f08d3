--------------------------- MODULE AdmissionProofs ---------------------------
(***************************************************************************)
(* Type correctness, the leader lock and the single token, proved for any  *)
(* number of events, tickets and scheduler instances.                      *)
(***************************************************************************)
EXTENDS Admission, TLAPS

\* A fault is counted, or nothing happens to the count.
LEMMA FaultsType ==
  ASSUME faults \in Nat, NEW d, NEW r, Redis(d, r) \/ Aws(d, r)
  PROVE  faults' \in Nat
BY DEF Redis, Aws, Fault

------------------------------------------------------------------------------
\* Every action keeps every variable in its domain.
LEMMA TypeStep == TypeOK /\ [Next]_vars => TypeOK'
<1> SUFFICES ASSUME TypeOK, [Next]_vars
             PROVE  TypeOK'
  OBVIOUS
<1> USE ConstantsAssumption DEF TypeOK, TickSteps, Batched, Effect, redisVars, localVars, histVars,
        Goto, Done
<1>1. CASE UNCHANGED vars
  BY <1>1 DEF vars
<1>2. ASSUME NEW t \in Ticket, NEW ms \in Score, NEW r \in Reply, ZAdd(t, ms, r)
      PROVE  TypeOK'
  BY <1>2, FaultsType DEF ZAdd
<1>3. ASSUME NEW t \in Ticket, NEW r \in Reply, HSetMeta(t, r)
      PROVE  TypeOK'
  BY <1>3, FaultsType DEF HSetMeta
<1>4. ASSUME NEW t \in Ticket, NEW r \in Reply, Expire(t, r)
      PROVE  TypeOK'
  BY <1>4, FaultsType DEF Expire
<1>5. ASSUME NEW t \in Ticket, NEW r \in Reply, QueueExit(t, r)
      PROVE  TypeOK'
  <2>1. active' \in [Event -> Int]
    <3>1. active' = [active EXCEPT ![EventOf[t]] = IF Applied(r) THEN @ - 1 ELSE @]
      BY <1>5 DEF QueueExit
    <3>2. QED
      BY <3>1
  <2>2. exits' \in [Ticket -> Nat]
    <3>1. exits' = [exits EXCEPT ![t] = IF r = "retried" THEN @ ELSE @ + 1]
      BY <1>5 DEF QueueExit
    <3>2. QED
      BY <3>1
  <2>3. faults' \in Nat
    BY <1>5, FaultsType DEF QueueExit
  <2>4. QED
    BY <1>5, <2>1, <2>2, <2>3 DEF QueueExit
<1>6. ASSUME NEW e \in Event, NEW v \in Rates, SetRate(e, v)
      PROVE  TypeOK'
  BY <1>6 DEF SetRate
<1>7. ASSUME NEW e \in Event, NEW v \in Capacities, SetCapacity(e, v)
      PROVE  TypeOK'
  BY <1>7 DEF SetCapacity, Larger
<1>8. ASSUME NEW t \in Ticket, ExpireHash(t)
      PROVE  TypeOK'
  BY <1>8 DEF ExpireHash
<1>9. ASSUME NEW e \in Event, ExpireLock(e)
      PROVE  TypeOK'
  BY <1>9 DEF ExpireLock
<1>10. ASSUME NEW s \in Scheduler, Crash(s) \/ Sigterm(s) \/ Restart(s) \/ Stop(s)
       PROVE  TypeOK'
  <2>1. CASE Crash(s)
    BY <2>1 DEF Crash, Down, Fault
  <2>2. CASE Sigterm(s)
    BY <2>2 DEF Sigterm, Fault
  <2>3. CASE Restart(s)
    BY <2>3 DEF Restart
  <2>4. CASE Stop(s)
    BY <2>4 DEF Stop, Down
  <2>5. QED
    BY <1>10, <2>1, <2>2, <2>3, <2>4
<1>11. ASSUME NEW s \in Scheduler, Scan(s)
       PROVE  TypeOK'
  BY <1>11 DEF Scan
<1>12. ASSUME NEW s \in Scheduler, NEW e \in Event, NEW r \in Reply, AcquireLock(s, e, r)
       PROVE  TypeOK'
  <2>1. lock' \in [Event -> Scheduler \union {NoScheduler}] /\ faults' \in Nat
    BY <1>12, FaultsType DEF AcquireLock
  <2>2. CASE LockFree(e) /\ r = "ok"
    BY <1>12, <2>1, <2>2 DEF AcquireLock
  <2>3. CASE ~(LockFree(e) /\ r = "ok")
    BY <1>12, <2>1, <2>3 DEF AcquireLock
  <2>4. QED
    BY <2>2, <2>3
<1>13. ASSUME NEW s \in Scheduler, NEW r \in Reply, GetRate(s, r)
       PROVE  TypeOK'
  BY <1>13, FaultsType DEF GetRate
<1>14. ASSUME NEW s \in Scheduler, NEW r \in Reply, GetActive(s, r)
       PROVE  TypeOK'
  BY <1>14, FaultsType DEF GetActive
<1>15. ASSUME NEW s \in Scheduler, NEW r \in Reply, GetCapacity(s, r)
       PROVE  TypeOK'
  BY <1>15, FaultsType DEF GetCapacity, Quota, NoHeadroom
<1>16. ASSUME NEW s \in Scheduler, NEW r \in Reply, ZPopMin(s, r)
       PROVE  TypeOK'
  BY <1>16, FaultsType DEF ZPopMin, PopMin, AfterPop
<1>17. ASSUME NEW s \in Scheduler, NEW r \in Reply, PublishTick(s, r)
       PROVE  TypeOK'
  BY <1>17, FaultsType DEF PublishTick
<1>23. ASSUME NEW s \in Scheduler, NEW r \in Reply, ReleaseLock(s, r)
       PROVE  TypeOK'
  <2>1. lock' \in [Event -> Scheduler \union {NoScheduler}] /\ faults' \in Nat
    BY <1>23, FaultsType DEF ReleaseLock
  <2>2. CASE r = "retried"
    BY <1>23, <2>1, <2>2 DEF ReleaseLock
  <2>3. CASE r # "retried"
    <3>1. /\ todo' \in [Scheduler -> SUBSET Event]
          /\ lim' \in [Scheduler -> Nat] /\ seen' \in [Scheduler -> Int]
      BY <1>23, <2>3 DEF ReleaseLock
    <3>2. pc' \in [Scheduler -> {"idle", "down"} \union TickSteps]
      BY <1>23, <2>3 DEF ReleaseLock
    <3>3. QED
      BY <1>23, <2>1, <3>1, <3>2 DEF ReleaseLock
  <2>4. QED
    BY <2>2, <2>3
<1>18. ASSUME NEW s \in Scheduler, NEW t \in Ticket, IssueToken(s, t)
       PROVE  TypeOK'
  <2>1. CASE tokens' = tokens /\ Fault("sign_error") /\ NextMember(s, t)
    BY <1>18, <2>1 DEF IssueToken, NextMember, Fault
  <2>2. CASE tokens' = [tokens EXCEPT ![t] = @ + 1] /\ Goto(s, "store") /\ UNCHANGED <<batch, faults>>
    BY <1>18, <2>2 DEF IssueToken
  <2>3. QED
    BY <1>18, <2>1, <2>2 DEF IssueToken
<1>19. ASSUME NEW s \in Scheduler, NEW t \in Ticket, NEW r \in Reply, HSetToken(s, t, r)
       PROVE  TypeOK'
  BY <1>19, FaultsType DEF HSetToken, AfterStore
<1>20. ASSUME NEW s \in Scheduler, NEW t \in Ticket, NEW r \in Reply,
              DynamoWrite(s, t, r) \/ SqsEmit(s, t, r)
       PROVE  TypeOK'
  <2>1. effects' \in [Ticket -> SUBSET Effect] /\ faults' \in Nat
    BY <1>20, FaultsType DEF DynamoWrite, SqsEmit
  <2>2. QED
    BY <1>20, <2>1 DEF DynamoWrite, SqsEmit
<1>21. ASSUME NEW s \in Scheduler, NEW t \in Ticket, NEW r \in Reply, Incr(s, t, r)
       PROVE  TypeOK'
  BY <1>21, FaultsType DEF Incr
<1>22. ASSUME NEW s \in Scheduler, NEW t \in Ticket, NEW r \in Reply, PublishAdmitted(s, t, r)
       PROVE  TypeOK'
  <2>1. effects' \in [Ticket -> SUBSET Effect] /\ faults' \in Nat
    BY <1>22, FaultsType DEF PublishAdmitted
  <2>2. CASE r = "retried"
    BY <1>22, <2>1, <2>2 DEF PublishAdmitted
  <2>3. CASE r # "retried"
    <3>1. NextMember(s, t)
      BY <1>22, <2>3 DEF PublishAdmitted
    <3>2. /\ batch' \in [Scheduler -> SUBSET Ticket]
          /\ pc' \in [Scheduler -> {"idle", "down"} \union TickSteps]
      BY <3>1 DEF NextMember
    <3>3. QED
      BY <1>22, <2>1, <3>2 DEF PublishAdmitted
  <2>4. QED
    BY <2>2, <2>3
<1> HIDE DEF TypeOK
<1>24. Server => TypeOK'
  BY <1>2, <1>3, <1>4, <1>5 DEF Server
<1>25. Admin => TypeOK'
  BY <1>6, <1>7 DEF Admin
<1>26. Environment => TypeOK'
  BY <1>8, <1>9, <1>10 DEF Environment
<1>27. ASSUME NEW s \in Scheduler, Tick(s)
       PROVE  TypeOK'
  BY <1>27, <1>12, <1>13, <1>14, <1>15, <1>16, <1>17, <1>23 DEF Tick
<1>28. ASSUME NEW s \in Scheduler, Member(s)
       PROVE  TypeOK'
  BY <1>28, <1>18, <1>19, <1>20, <1>21, <1>22 DEF Member
<1>29. ASSUME NEW s \in Scheduler, Work(s)
       PROVE  TypeOK'
  BY <1>29, <1>10, <1>11, <1>27, <1>28 DEF Work
<1>30. QED
  BY <1>1, <1>24, <1>25, <1>26, <1>29 DEF Next

\* The initial state is in the domains.
LEMMA InitType == Init => TypeOK
<1> SUFFICES ASSUME Init PROVE TypeOK
  OBVIOUS
<1>1. capacity \in [Event -> Nat] /\ ceiling \in [Event -> Nat]
  <2>1. Capacities \union {0} \subseteq Nat
    BY ConstantsAssumption
  <2>2. capacity \in [Event -> Capacities \union {0}] /\ ceiling = capacity
    BY DEF Init
  <2>3. QED
    BY <2>1, <2>2
<1>2. ev \in [Scheduler -> Event] /\ cancelled \in [Scheduler -> BOOLEAN]
  BY DEF Init
<1>3. QED
  BY <1>1, <1>2 DEF Init, TypeOK

\* Type correctness of the admission path, whatever faults may happen.
THEOREM TypeCorrect == Spec => []TypeOK
BY InitType, TypeStep, PTL DEF Spec
------------------------------------------------------------------------------
\* Without go-redis's retries every command is answered, if with an error.
LEMMA Answered ==
  ASSUME "redis_retry" \notin Faults, NEW d, NEW r, Redis(d, r)
  PROVE  r # "retried"
BY DEF Redis, Fault

\* The invariant behind OneHolder: who is in the tick of an event has its lock.
LockInv == \A s \in Scheduler, e \in Event : InTick(s, e) => lock[e] = s

\* A step that leaves the locks alone and puts nobody into a tick.
LEMMA LockFrame ==
  ASSUME TypeOK, LockInv, lock' = lock, ev' = ev,
         \A s \in Scheduler : pc'[s] \in TickSteps => pc[s] \in TickSteps
  PROVE  LockInv'
BY DEF LockInv, InTick

\* The lock protects the tick: each action keeps LockInv as long as no tick
\* outlives the lock's TTL and no DEL is sent twice.
LEMMA LockStep ==
  ASSUME "redis_retry" \notin Faults, "slow_tick" \notin Faults,
         TypeOK, LockInv, [Next]_vars
  PROVE  LockInv'
<1> USE DEF redisVars, localVars, histVars
<1>1. CASE UNCHANGED vars
  BY <1>1, LockFrame DEF vars
<1>2. CASE Server
  BY <1>2, LockFrame DEF Server, ZAdd, HSetMeta, Expire, QueueExit
<1>3. CASE Admin
  BY <1>3, LockFrame DEF Admin, SetRate, SetCapacity
<1>4. ASSUME NEW t \in Ticket, ExpireHash(t)
      PROVE  LockInv'
  BY <1>4, LockFrame DEF ExpireHash
<1>5. ASSUME NEW e \in Event, ExpireLock(e)
      PROVE  LockInv'
  <2>1. ~InTick(lock[e], e) /\ lock' = [lock EXCEPT ![e] = NoScheduler]
        /\ UNCHANGED <<pc, ev>>
    BY <1>5 DEF ExpireLock
  <2>2. QED
    BY <2>1 DEF LockInv, InTick, TypeOK
<1>6. ASSUME NEW s \in Scheduler, Crash(s) \/ Sigterm(s) \/ Restart(s) \/ Stop(s) \/ Scan(s)
      PROVE  LockInv'
  <2>1. /\ lock' = lock /\ ev' = ev
        /\ pc' = pc \/ pc' = [pc EXCEPT ![s] = "down"] \/ pc' = [pc EXCEPT ![s] = "idle"]
    BY <1>6 DEF Crash, Sigterm, Restart, Stop, Scan, Down, Goto
  <2>2. \A q \in Scheduler : pc'[q] \in TickSteps => pc[q] \in TickSteps
    BY <2>1 DEF TypeOK, TickSteps, Batched
  <2>3. QED
    BY <2>1, <2>2, LockFrame
<1>7. ASSUME NEW s \in Scheduler, NEW e \in Event, NEW r \in Reply, AcquireLock(s, e, r)
      PROVE  LockInv'
  <2>1. CASE LockFree(e)
    <3>1. \A q \in Scheduler : ~InTick(q, e)
      BY <2>1, ConstantsAssumption DEF LockFree, LockInv
    <3>2. pc[s] = "idle"
      BY <1>7 DEF AcquireLock
    <3>3. CASE r = "ok"
      <4>1. /\ lock' = [lock EXCEPT ![e] = s]
            /\ pc' = [pc EXCEPT ![s] = "rate"] /\ ev' = [ev EXCEPT ![s] = e]
        BY <1>7, <2>1, <3>3 DEF AcquireLock, Applied
      <4>2. QED
        BY <3>1, <4>1 DEF LockInv, InTick, TypeOK
    <3>4. CASE r # "ok"
      <4>1. /\ lock' = lock \/ lock' = [lock EXCEPT ![e] = s]
            /\ pc' = pc /\ ev' = ev
        BY <1>7, <2>1, <3>4 DEF AcquireLock, TypeOK
      <4>2. QED
        BY <3>1, <4>1 DEF LockInv, InTick, TypeOK
    <3>5. QED
      BY <3>3, <3>4
  <2>2. CASE ~LockFree(e)
    <3>1. lock' = lock /\ pc' = pc /\ ev' = ev
      BY <1>7, <2>2 DEF AcquireLock, TypeOK
    <3>2. QED
      BY <3>1, LockFrame
  <2>3. QED
    BY <2>1, <2>2
<1>8. ASSUME NEW s \in Scheduler, NEW r \in Reply, ReleaseLock(s, r)
      PROVE  LockInv'
  <2>1. r # "retried"
    BY <1>8, Answered DEF ReleaseLock
  <2>2. InTick(s, ev[s]) /\ ev[s] \in Event
    BY <1>8 DEF ReleaseLock, InTick, TickSteps, TypeOK
  <2>3. \A q \in Scheduler : InTick(q, ev[s]) => q = s
    BY <2>2 DEF LockInv
  <2>4. /\ lock' = lock \/ lock' = [lock EXCEPT ![ev[s]] = NoScheduler]
        /\ pc' = [pc EXCEPT ![s] = "idle"] /\ ev' = ev
    BY <1>8, <2>1 DEF ReleaseLock, Goto, TypeOK
  <2>5. "idle" \notin TickSteps
    BY DEF TickSteps, Batched
  <2>6. QED
    BY <2>3, <2>4, <2>5 DEF LockInv, InTick, TypeOK
<1>9. ASSUME NEW s \in Scheduler, NEW r \in Reply,
             GetRate(s, r) \/ GetActive(s, r) \/ GetCapacity(s, r) \/ ZPopMin(s, r) \/ PublishTick(s, r)
      PROVE  LockInv'
  <2>1. lock' = lock /\ ev' = ev /\ pc[s] \in TickSteps
    BY <1>9 DEF GetRate, GetActive, GetCapacity, ZPopMin, PublishTick, TickSteps
  <2>2. \A q \in Scheduler \ {s} : pc'[q] = pc[q]
    BY <1>9 DEF GetRate, GetActive, GetCapacity, ZPopMin, PublishTick, Goto, TypeOK
  <2>3. QED
    BY <2>1, <2>2, LockFrame
<1>10. ASSUME NEW s \in Scheduler, Member(s)
       PROVE  LockInv'
  <2>1. lock' = lock /\ ev' = ev /\ pc[s] \in TickSteps
    BY <1>10 DEF Member, IssueToken, HSetToken, DynamoWrite, SqsEmit, Incr,
                PublishAdmitted, TickSteps, Batched
  <2>2. \A q \in Scheduler \ {s} : pc'[q] = pc[q]
    BY <1>10 DEF Member, IssueToken, HSetToken, DynamoWrite, SqsEmit, Incr,
                PublishAdmitted, NextMember, Goto, TypeOK
  <2>3. QED
    BY <2>1, <2>2, LockFrame
<1>11. CASE Environment
  BY <1>4, <1>5, <1>6, <1>11 DEF Environment
<1>12. ASSUME NEW s \in Scheduler, Work(s)
       PROVE  LockInv'
  BY <1>6, <1>7, <1>8, <1>9, <1>10, <1>12 DEF Work, Tick
<1>13. QED
  BY <1>1, <1>2, <1>3, <1>11, <1>12 DEF Next

\* The leader lock works (AcquireLock, ReleaseLock): two instances are never in
\* the tick of one event, if no tick outlives the lock's TTL and no DEL is
\* repeated; crashes, signals and lost answers do not matter.
THEOREM OneHolderCorrect ==
  ASSUME "redis_retry" \notin Faults, "slow_tick" \notin Faults
  PROVE  Spec => []OneHolder
<1>1. Init => LockInv
  BY DEF Init, LockInv, InTick, TickSteps, Batched
<1>2. TypeOK /\ LockInv /\ [Next]_vars => LockInv'
  BY LockStep
<1>3. LockInv => OneHolder
  BY DEF LockInv, OneHolder
<1>4. QED
  BY <1>1, <1>2, <1>3, TypeCorrect, PTL DEF Spec
------------------------------------------------------------------------------
(***************************************************************************)
(* The single token.  A ticket is in the custody of its queue, then of one *)
(* batch, then of nobody; it is signed a token only as the current member  *)
(* of a batch, and is not the current member again.                        *)
(***************************************************************************)
QueueCustody == \A e \in Event : \A t \in queue[e] :
                  EventOf[t] = e /\ Arrived(t) /\ tokens[t] = 0

BatchCustody == \A s \in Scheduler : \A t \in batch[s] :
                  /\ pc[s] \in Batched
                  /\ Arrived(t) /\ t \notin queue[EventOf[t]]
                  /\ tokens[t] > 0 => pc[s] # "issue" /\ Current(s, t)

OneBatch == \A s1, s2 \in Scheduler : s1 # s2 => batch[s1] \intersect batch[s2] = {}

OneToken == \A t \in Ticket : /\ tokens[t] <= 1
                              /\ Arrived(t) \/ tokens[t] = 0
                              /\ jpc[t] # "retrying"

Custody == QueueCustody /\ BatchCustody /\ OneBatch /\ OneToken

\* A step that moves no ticket and signs nothing.
LEMMA CustodyFrame ==
  ASSUME TypeOK, Custody,
         queue' = queue, score' = score, batch' = batch, tokens' = tokens,
         \A t \in Ticket : (Arrived(t)' <=> Arrived(t)) /\ jpc'[t] # "retrying",
         \A s \in Scheduler : batch[s] # {} =>
           pc'[s] \in Batched /\ (pc'[s] = "issue" => pc[s] = "issue")
  PROVE  Custody'
<1>1. QueueCustody'
  BY DEF Custody, QueueCustody, TypeOK
<1>2. BatchCustody'
  BY DEF Custody, BatchCustody, TypeOK, Current
<1>3. OneBatch' /\ OneToken'
  BY DEF Custody, OneBatch, OneToken
<1>4. QED
  BY <1>1, <1>2, <1>3 DEF Custody

\* A queue or a batch has one first member (ZPOPMIN's order is total).
LEMMA OneFirst ==
  ASSUME NEW sc \in [Ticket -> Nat], NEW q \in SUBSET Ticket, NEW t, NEW u,
         IsFirst(sc, q, t), IsFirst(sc, q, u)
  PROVE  t = u
BY ConstantsAssumption DEF IsFirst, Before

\* admitBatch goes on to the next member: what it leaves behind has no token yet.
LEMMA CustodyNext ==
  ASSUME TypeOK, Custody, NEW s \in Scheduler, NEW t \in Ticket,
         pc[s] \in Batched, Current(s, t), NextMember(s, t),
         queue' = queue, score' = score, tokens' = tokens, jpc' = jpc,
         pc[s] # "issue" \/ tokens[t] = 0
  PROVE  Custody'
<1>1. /\ batch' = [batch EXCEPT ![s] = @ \ {t}]
      /\ pc' = [pc EXCEPT ![s] = IF batch[s] = {t} THEN "tick" ELSE "issue"]
  BY DEF NextMember, Goto
<1>2. \A u \in batch[s] \ {t} : tokens[u] = 0
  <2> SUFFICES ASSUME NEW u \in batch[s] \ {t}, tokens[u] # 0
               PROVE  FALSE
    OBVIOUS
  <2>1. u \in Ticket /\ tokens[u] > 0
    BY DEF TypeOK
  <2>2. Current(s, u)
    BY <2>1 DEF Custody, BatchCustody
  <2>3. QED
    BY <2>2, OneFirst DEF Current, TypeOK
<1>3. QueueCustody'
  BY DEF Custody, QueueCustody, Arrived
<1>4. BatchCustody'
  <2> SUFFICES ASSUME NEW q \in Scheduler, NEW u \in batch'[q]
               PROVE  /\ pc'[q] \in Batched
                      /\ Arrived(u)' /\ u \notin queue'[EventOf[u]]
                      /\ tokens'[u] > 0 => pc'[q] # "issue" /\ Current(q, u)'
    BY DEF BatchCustody
  <2>1. CASE q = s
    <3>1. u \in batch[s] \ {t} /\ pc'[s] = "issue"
      BY <1>1, <2>1 DEF TypeOK
    <3>2. QED
      BY <1>2, <2>1, <3>1 DEF Custody, BatchCustody, Batched, Arrived
  <2>2. CASE q # s
    <3>1. batch'[q] = batch[q] /\ pc'[q] = pc[q]
      BY <1>1, <2>2 DEF TypeOK
    <3>2. QED
      BY <3>1 DEF Custody, BatchCustody, Arrived, Current
  <2>3. QED
    BY <2>1, <2>2
<1>5. OneBatch' /\ OneToken'
  BY <1>1 DEF Custody, OneBatch, OneToken, Arrived, TypeOK
<1>6. QED
  BY <1>3, <1>4, <1>5 DEF Custody

\* A new ticket enters its queue: nobody else has it.
LEMMA CustodyZAdd ==
  ASSUME "redis_retry" \notin Faults, TypeOK, Custody,
         NEW t \in Ticket, NEW ms \in Score, NEW r \in Reply, ZAdd(t, ms, r)
  PROVE  Custody'
<1>1. r # "retried" /\ jpc[t] = "none"
  BY Answered DEF ZAdd, Custody, OneToken
<1>2. /\ tokens[t] = 0 /\ ~Arrived(t)
      /\ \A s \in Scheduler : t \notin batch[s]
  BY <1>1 DEF Custody, OneToken, BatchCustody, Arrived
<1>3. /\ jpc' = [jpc EXCEPT ![t] = CASE r = "ok" -> "added"
                                  [] r = "lost" -> "orphan"
                                  [] OTHER -> "refused"]
      /\ batch' = batch /\ pc' = pc /\ tokens' = tokens
  BY <1>1 DEF ZAdd, localVars, histVars, TypeOK
<1>4. /\ \A u \in Ticket \ {t} : score'[u] = score[u] /\ jpc'[u] = jpc[u]
      /\ \A e \in Event : queue'[e] = queue[e] \/ (/\ e = EventOf[t] /\ Applied(r)
                                                /\ queue'[e] = queue[e] \union {t})
  BY <1>3 DEF ZAdd, TypeOK
<1>5. /\ Applied(r) => Arrived(t)'
      /\ jpc'[t] # "retrying"
  BY <1>1, <1>3 DEF Arrived, Applied, Reply, TypeOK
<1>6. QueueCustody'
  BY <1>2, <1>3, <1>4, <1>5 DEF Custody, QueueCustody, Arrived, TypeOK
<1>7. BatchCustody'
  <2> SUFFICES ASSUME NEW s \in Scheduler, NEW u \in batch[s]
               PROVE  /\ pc[s] \in Batched
                      /\ Arrived(u)' /\ u \notin queue'[EventOf[u]]
                      /\ tokens[u] > 0 => pc[s] # "issue" /\ Current(s, u)'
    BY <1>3 DEF BatchCustody
  <2>1. u \in Ticket \ {t} /\ EventOf[u] \in Event
    BY <1>2, ConstantsAssumption DEF TypeOK
  <2>2. u \notin queue'[EventOf[u]] /\ Arrived(u)'
    BY <1>4, <2>1 DEF Custody, BatchCustody, Arrived
  <2>3. Current(s, u) => Current(s, u)'
    <3>1. \A w \in batch[s] : score'[w] = score[w]
      BY <1>2, <1>4 DEF TypeOK
    <3>2. QED
      BY <1>3, <3>1 DEF Current, IsFirst, Before
  <2>4. QED
    BY <2>2, <2>3 DEF Custody, BatchCustody
<1>8. OneBatch' /\ OneToken'
  BY <1>2, <1>3, <1>4, <1>5 DEF Custody, OneBatch, OneToken, Arrived
<1>9. QED
  BY <1>6, <1>7, <1>8 DEF Custody

\* ZPOPMIN moves tickets from the queue to one batch, or, when its answer is
\* lost, to nobody.
LEMMA CustodyPop ==
  ASSUME "redis_retry" \notin Faults, TypeOK, Custody,
         NEW s \in Scheduler, NEW r \in Reply, ZPopMin(s, r)
  PROVE  Custody'
<1> DEFINE members == PopMin(score, queue[ev[s]], lim[s])
<1>1. r # "retried"
  BY Answered DEF ZPopMin
<1>2. /\ queue' = [queue EXCEPT ![ev[s]] = AfterPop(@, members, r)]
      /\ batch' = [batch EXCEPT ![s] = IF r = "ok" THEN members ELSE {}]
      /\ pc' = [pc EXCEPT ![s] = IF r = "ok" /\ members # {} THEN "issue" ELSE "release"]
      /\ score' = score /\ tokens' = tokens /\ jpc' = jpc
  BY <1>1 DEF ZPopMin, Goto, histVars
<1>3. ev[s] \in Event /\ members \subseteq queue[ev[s]] /\ queue[ev[s]] \subseteq Ticket
  BY DEF PopMin, TypeOK
<1>4. /\ \A e \in Event : queue'[e] \subseteq queue[e]
      /\ r = "ok" => queue'[ev[s]] = queue[ev[s]] \ members
  BY <1>2, <1>3 DEF AfterPop, Applied, TypeOK
<1>5. QueueCustody'
  BY <1>2, <1>4 DEF Custody, QueueCustody, Arrived
<1>6. \A u \in members : /\ EventOf[u] = ev[s] /\ Arrived(u) /\ tokens[u] = 0
                         /\ \A q \in Scheduler : u \notin batch[q]
  BY <1>3 DEF Custody, QueueCustody, BatchCustody
<1>7. BatchCustody'
  <2> SUFFICES ASSUME NEW q \in Scheduler, NEW u \in batch'[q]
               PROVE  /\ pc'[q] \in Batched
                      /\ Arrived(u) /\ u \notin queue'[EventOf[u]]
                      /\ tokens[u] > 0 => pc'[q] # "issue" /\ Current(q, u)'
    BY <1>2 DEF BatchCustody, Arrived
  <2>1. CASE q = s
    <3>1. r = "ok" /\ u \in members /\ pc'[s] = "issue"
      BY <1>2, <2>1 DEF TypeOK
    <3>2. QED
      BY <1>4, <1>6, <2>1, <3>1 DEF Batched
  <2>2. CASE q # s
    <3>1. batch'[q] = batch[q] /\ pc'[q] = pc[q] /\ u \in Ticket
      BY <1>2, <2>2 DEF TypeOK
    <3>2. EventOf[u] \in Event
      BY <3>1, ConstantsAssumption
    <3>3. QED
      BY <1>2, <1>4, <3>1, <3>2 DEF Custody, BatchCustody, Current
  <2>3. QED
    BY <2>1, <2>2
<1>8. OneBatch'
  BY <1>2, <1>6 DEF Custody, OneBatch, TypeOK
<1>9. OneToken'
  BY <1>2 DEF Custody, OneToken, Arrived
<1>10. QED
  BY <1>5, <1>7, <1>8, <1>9 DEF Custody

\* issueToken signs for the current member, or skips it.
LEMMA CustodyIssue ==
  ASSUME TypeOK, Custody, NEW s \in Scheduler, NEW t \in Ticket, IssueToken(s, t)
  PROVE  Custody'
<1>1. /\ pc[s] = "issue" /\ Current(s, t) /\ t \in batch[s]
      /\ queue' = queue /\ score' = score /\ jpc' = jpc
  BY DEF IssueToken, redisVars, Current, IsFirst
<1>2. tokens[t] = 0
  BY <1>1 DEF Custody, BatchCustody, TypeOK
<1>3. CASE NextMember(s, t) /\ tokens' = tokens
  BY <1>1, <1>2, <1>3, CustodyNext DEF Batched
<1>4. CASE tokens' = [tokens EXCEPT ![t] = @ + 1] /\ Goto(s, "store") /\ batch' = batch
  <2>1. /\ tokens'[t] = 1 /\ \A u \in Ticket \ {t} : tokens'[u] = tokens[u]
        /\ pc' = [pc EXCEPT ![s] = "store"]
    BY <1>2, <1>4 DEF Goto, TypeOK
  <2>2. Arrived(t) /\ t \notin queue[EventOf[t]] /\ \A q \in Scheduler \ {s} : t \notin batch[q]
    BY <1>1 DEF Custody, BatchCustody, OneBatch
  <2>3. QueueCustody'
    BY <1>1, <2>1, <2>2 DEF Custody, QueueCustody, Arrived, TypeOK
  <2>4. BatchCustody'
    <3> SUFFICES ASSUME NEW q \in Scheduler, NEW u \in batch[q]
                 PROVE  /\ pc'[q] \in Batched
                        /\ Arrived(u) /\ u \notin queue[EventOf[u]]
                        /\ tokens'[u] > 0 => pc'[q] # "issue" /\ Current(q, u)
      BY <1>1, <1>4 DEF BatchCustody, Arrived, Current
    <3>1. CASE q = s
      BY <1>1, <2>1, <3>1 DEF Custody, BatchCustody, Batched, TypeOK
    <3>2. CASE q # s
      BY <2>1, <2>2, <3>2 DEF Custody, BatchCustody, TypeOK
    <3>3. QED
      BY <3>1, <3>2
  <2>5. OneBatch' /\ OneToken'
    BY <1>1, <1>4, <2>1, <2>2 DEF Custody, OneBatch, OneToken, Arrived
  <2>6. QED
    BY <2>3, <2>4, <2>5 DEF Custody
<1>5. QED
  BY <1>3, <1>4 DEF IssueToken

\* A process goes down: what it held is in nobody's custody.
LEMMA CustodyDown ==
  ASSUME TypeOK, Custody, NEW s \in Scheduler, Down(s)
  PROVE  Custody'
<1>1. /\ batch' = [batch EXCEPT ![s] = {}] /\ pc' = [pc EXCEPT ![s] = "down"]
      /\ queue' = queue /\ score' = score /\ tokens' = tokens /\ jpc' = jpc
  BY DEF Down, Goto, redisVars, histVars
<1>2. \A q \in Scheduler : \A u \in batch'[q] : q # s /\ batch'[q] = batch[q] /\ pc'[q] = pc[q]
  BY <1>1 DEF TypeOK
<1>3. BatchCustody'
  BY <1>1, <1>2 DEF Custody, BatchCustody, Arrived, Current
<1>4. QueueCustody' /\ OneBatch' /\ OneToken'
  BY <1>1 DEF Custody, QueueCustody, OneBatch, OneToken, Arrived, TypeOK
<1>5. QED
  BY <1>3, <1>4 DEF Custody

\* Every action keeps the custody, unless a command is sent twice.
LEMMA CustodyStep ==
  ASSUME "redis_retry" \notin Faults, TypeOK, Custody, [Next]_vars
  PROVE  Custody'
<1>a. /\ \A s \in Scheduler : pc[s] \notin Batched => batch[s] = {}
      /\ \A t \in Ticket : jpc[t] # "retrying"
  BY DEF Custody, BatchCustody, OneToken
<1>1. CASE UNCHANGED vars
  BY <1>1, <1>a, CustodyFrame DEF vars, Arrived, Custody, BatchCustody
<1>2. ASSUME NEW t \in Ticket, NEW r \in Reply, HSetMeta(t, r) \/ Expire(t, r) \/ QueueExit(t, r)
      PROVE  Custody'
  <2>1. /\ queue' = queue /\ score' = score /\ batch' = batch /\ tokens' = tokens /\ pc' = pc
        /\ jpc' = jpc \/ /\ jpc[t] \in {"added", "hashed"}
                         /\ \/ jpc' = [jpc EXCEPT ![t] = "hashed"]
                            \/ jpc' = [jpc EXCEPT ![t] = "joined"]
    BY <1>2 DEF HSetMeta, Expire, QueueExit, localVars, histVars, TypeOK
  <2>2. \A u \in Ticket : (Arrived(u)' <=> Arrived(u)) /\ jpc'[u] # "retrying"
    BY <1>a, <2>1 DEF Arrived, TypeOK
  <2>3. QED
    BY <2>1, <2>2, CustodyFrame DEF Custody, BatchCustody
<1>3. CASE \/ Admin
           \/ \E t \in Ticket : ExpireHash(t)
           \/ \E e \in Event : ExpireLock(e)
  <2>1. UNCHANGED <<queue, score, batch, tokens, pc, jpc>>
    BY <1>3 DEF Admin, SetRate, SetCapacity, ExpireHash, ExpireLock, localVars, histVars
  <2>2. QED
    BY <1>a, <2>1, CustodyFrame DEF Custody, BatchCustody, Arrived
<1>4. ASSUME NEW s \in Scheduler,
             \/ Sigterm(s) \/ Restart(s) \/ Scan(s)
             \/ \E e \in Event, r \in Reply : AcquireLock(s, e, r)
             \/ \E r \in Reply : \/ GetRate(s, r) \/ GetActive(s, r) \/ GetCapacity(s, r)
                                 \/ PublishTick(s, r) \/ ReleaseLock(s, r)
      PROVE  Custody'
  <2>1. /\ UNCHANGED <<queue, score, batch, tokens, jpc>>
        /\ pc' = pc \/ pc[s] \notin Batched
    BY <1>4 DEF Sigterm, Restart, Scan, AcquireLock, GetRate, GetActive, GetCapacity,
                PublishTick, ReleaseLock, redisVars, localVars, histVars, Batched
  <2>2. \A q \in Scheduler \ {s} : pc'[q] = pc[q]
    BY <1>4 DEF Sigterm, Restart, Scan, AcquireLock, GetRate, GetActive, GetCapacity,
                PublishTick, ReleaseLock, Goto, TypeOK
  <2>3. QED
    BY <1>a, <2>1, <2>2, CustodyFrame DEF Custody, BatchCustody, Arrived
<1>5. ASSUME NEW s \in Scheduler, NEW t \in Ticket, NEW r \in Reply,
             HSetToken(s, t, r) \/ DynamoWrite(s, t, r) \/ SqsEmit(s, t, r) \/ Incr(s, t, r)
      PROVE  Custody'
  <2>1. /\ UNCHANGED <<queue, score, batch, tokens, jpc>>
        /\ \E step \in Batched \ {"issue"} : pc' = [pc EXCEPT ![s] = step]
    BY <1>5 DEF HSetToken, DynamoWrite, SqsEmit, Incr, AfterStore, Goto, redisVars,
                localVars, histVars, Batched
  <2>2. QED
    BY <1>a, <2>1, CustodyFrame DEF Custody, BatchCustody, Arrived, TypeOK
<1>6. ASSUME NEW s \in Scheduler, NEW t \in Ticket, NEW r \in Reply, PublishAdmitted(s, t, r)
      PROVE  Custody'
  <2>1. /\ r # "retried" /\ pc[s] = "publish" /\ Current(s, t)
        /\ UNCHANGED <<queue, score, tokens, jpc>>
    BY <1>6, Answered DEF PublishAdmitted, redisVars
  <2>2. NextMember(s, t)
    BY <1>6, <2>1 DEF PublishAdmitted
  <2>3. QED
    BY <2>1, <2>2, CustodyNext DEF Batched
<1>7. ASSUME NEW s \in Scheduler, Crash(s) \/ Stop(s)
      PROVE  Custody'
  BY <1>7, CustodyDown DEF Crash, Stop
<1>8. CASE Server
  BY <1>2, <1>8, CustodyZAdd DEF Server
<1>9. CASE Environment
  BY <1>3, <1>4, <1>7, <1>9 DEF Environment
<1>10. ASSUME NEW s \in Scheduler, Work(s)
       PROVE  Custody'
  <2>1. CASE Tick(s)
    BY <1>4, <2>1, CustodyPop DEF Tick
  <2>2. CASE Member(s)
    BY <1>5, <1>6, <2>2, CustodyIssue DEF Member
  <2>3. QED
    BY <1>4, <1>7, <1>10, <2>1, <2>2 DEF Work
<1>11. QED
  BY <1>1, <1>3, <1>8, <1>9, <1>10 DEF Next

\* Every ticket is in one custody at a time.
LEMMA CustodyCorrect ==
  ASSUME "redis_retry" \notin Faults
  PROVE  Spec => []Custody
<1>1. Init => Custody
  <2> SUFFICES ASSUME Init PROVE Custody
    OBVIOUS
  <2>1. \A t \in Ticket : tokens[t] = 0 /\ jpc[t] = "none"
    BY DEF Init
  <2>2. OneToken
    BY <2>1 DEF OneToken
  <2>3. QueueCustody /\ BatchCustody /\ OneBatch
    BY DEF Init, QueueCustody, BatchCustody, OneBatch
  <2>4. QED
    BY <2>2, <2>3 DEF Custody
<1>2. TypeOK /\ Custody /\ [Next]_vars => Custody'
  BY CustodyStep
<1>3. QED
  BY <1>1, <1>2, TypeCorrect, PTL DEF Spec

\* No ticket is ever signed two admission tokens (admitBatch), even by instances
\* that tick the same event at the same time, crash, stop and lose answers, as
\* long as no command is sent twice.
THEOREM AtMostOneTokenCorrect ==
  ASSUME "redis_retry" \notin Faults
  PROVE  Spec => []AtMostOneToken
<1>1. Custody => AtMostOneToken
  BY DEF Custody, OneToken, AtMostOneToken
<1>2. QED
  BY <1>1, CustodyCorrect, PTL
------------------------------------------------------------------------------
(***************************************************************************)
(* The audit trail, also when commands are repeated.  A ticket in a queue  *)
(* or in a batch has arrived, so that nothing changes its place any more   *)
(* and the current member of a batch stays the current one.                *)
(***************************************************************************)
InHand == /\ \A e \in Event : \A t \in queue[e] : EventOf[t] = e /\ Arrived(t)
          /\ \A s \in Scheduler : \A t \in batch[s] : pc[s] \in Batched /\ Arrived(t)

\* A ticket that has arrived keeps its place, whatever createTicket repeats.
LEMMA PlaceKept ==
  ASSUME TypeOK, [Next]_vars, NEW t \in Ticket, Arrived(t)
  PROVE  Arrived(t)' /\ score'[t] = score[t]
<1> USE DEF redisVars, localVars, histVars
<1>1. CASE UNCHANGED vars
  BY <1>1 DEF vars, Arrived
<1>2. ASSUME NEW u \in Ticket, NEW ms \in Score, NEW r \in Reply, ZAdd(u, ms, r)
      PROVE  Arrived(t)' /\ score'[t] = score[t]
  <2>1. CASE u = t
    <3>1. jpc[t] = "retrying" /\ ms = score[t]
      BY <1>2, <2>1 DEF ZAdd, Arrived
    <3>2. jpc'[t] \in {"added", "retrying", "orphan"} /\ score'[t] = score[t]
      BY <1>2, <2>1, <3>1 DEF ZAdd, TypeOK
    <3>3. QED
      BY <3>2 DEF Arrived
  <2>2. CASE u # t
    BY <1>2, <2>2 DEF ZAdd, Arrived, TypeOK
  <2>3. QED
    BY <2>1, <2>2
<1>3. ASSUME NEW u \in Ticket, NEW r \in Reply, HSetMeta(u, r) \/ Expire(u, r) \/ QueueExit(u, r)
      PROVE  Arrived(t)' /\ score'[t] = score[t]
  BY <1>3 DEF HSetMeta, Expire, QueueExit, Arrived, TypeOK
<1>4. CASE Admin \/ Environment
  BY <1>4 DEF Admin, Environment, SetRate, SetCapacity, ExpireHash, ExpireLock, Crash,
              Sigterm, Restart, Down, Arrived
<1>5. ASSUME NEW s \in Scheduler, Work(s)
      PROVE  Arrived(t)' /\ score'[t] = score[t]
  BY <1>5 DEF Work, Tick, Member, Stop, Down, Scan, AcquireLock, GetRate, GetActive,
              GetCapacity, ZPopMin, PublishTick, ReleaseLock, IssueToken, HSetToken,
              DynamoWrite, SqsEmit, Incr, PublishAdmitted, Arrived
<1>6. CASE Server
  BY <1>2, <1>3, <1>6 DEF Server
<1>7. QED
  BY <1>1, <1>4, <1>5, <1>6 DEF Next

\* What is in a queue or in a batch afterwards was there before, was popped, or
\* has just been added.
LEMMA InHandStep ==
  ASSUME TypeOK, InHand, [Next]_vars
  PROVE  InHand'
<1> USE DEF redisVars, localVars, histVars
<1>a. \A t \in Ticket : Arrived(t) => Arrived(t)'
  BY PlaceKept
<1>b. ASSUME \A e \in Event : queue'[e] \subseteq queue[e],
             \A s \in Scheduler : /\ batch'[s] \subseteq batch[s]
                                  /\ batch'[s] = {} \/ pc'[s] \in Batched
      PROVE  InHand'
  <2>1. \A e \in Event : \A t \in queue'[e] : EventOf[t] = e /\ Arrived(t)'
    BY <1>a, <1>b DEF InHand, TypeOK
  <2>2. ASSUME NEW s \in Scheduler, NEW t \in batch'[s]
        PROVE  pc'[s] \in Batched /\ Arrived(t)'
    <3>1. t \in batch[s] /\ t \in Ticket /\ pc'[s] \in Batched
      BY <1>b DEF TypeOK
    <3>2. QED
      BY <1>a, <3>1 DEF InHand
  <2>3. QED
    BY <2>1, <2>2 DEF InHand
<1>c. \A s \in Scheduler : batch[s] = {} \/ pc[s] \in Batched
  BY DEF InHand
<1>1. CASE UNCHANGED vars
  <2>1. UNCHANGED <<queue, batch, pc>>
    BY <1>1 DEF vars
  <2>2. QED
    BY <1>b, <1>c, <2>1
<1>2. ASSUME NEW t \in Ticket, NEW ms \in Score, NEW r \in Reply, ZAdd(t, ms, r)
      PROVE  InHand'
  <2>1. /\ \A e \in Event : queue'[e] = queue[e] \/ (/\ e = EventOf[t] /\ Applied(r)
                                                     /\ queue'[e] = queue[e] \union {t})
        /\ batch' = batch /\ pc' = pc
    BY <1>2 DEF ZAdd, TypeOK
  <2>2. Applied(r) => Arrived(t)'
    BY <1>2 DEF ZAdd, Arrived, Applied, Reply, TypeOK
  <2>3. QED
    BY <1>a, <2>1, <2>2 DEF InHand, TypeOK
<1>3. ASSUME NEW t \in Ticket, NEW r \in Reply, HSetMeta(t, r) \/ Expire(t, r) \/ QueueExit(t, r)
      PROVE  InHand'
  BY <1>3, <1>b DEF HSetMeta, Expire, QueueExit, InHand
<1>4. CASE \/ Admin
           \/ \E t \in Ticket : ExpireHash(t)
           \/ \E e \in Event : ExpireLock(e)
  BY <1>4, <1>b DEF Admin, SetRate, SetCapacity, ExpireHash, ExpireLock, InHand
<1>5. ASSUME NEW s \in Scheduler,
             \/ Sigterm(s) \/ Restart(s) \/ Scan(s)
             \/ \E e \in Event, r \in Reply : AcquireLock(s, e, r)
             \/ \E r \in Reply : \/ GetRate(s, r) \/ GetActive(s, r) \/ GetCapacity(s, r)
                                 \/ PublishTick(s, r) \/ ReleaseLock(s, r)
      PROVE  InHand'
  <2>1. UNCHANGED <<queue, batch>> /\ (pc' = pc \/ pc[s] \notin Batched)
    BY <1>5 DEF Sigterm, Restart, Scan, AcquireLock, GetRate, GetActive, GetCapacity,
                PublishTick, ReleaseLock, Batched
  <2>2. \A q \in Scheduler \ {s} : pc'[q] = pc[q]
    BY <1>5 DEF Sigterm, Restart, Scan, AcquireLock, GetRate, GetActive, GetCapacity,
                PublishTick, ReleaseLock, Goto, TypeOK
  <2>3. QED
    BY <1>b, <2>1, <2>2 DEF InHand
<1>6. ASSUME NEW s \in Scheduler, NEW r \in Reply, ZPopMin(s, r)
      PROVE  InHand'
  <2> DEFINE members == PopMin(score, queue[ev[s]], lim[s])
  <2>1. /\ queue' = [queue EXCEPT ![ev[s]] = AfterPop(@, members, r)]
        /\ batch' = [batch EXCEPT ![s] = IF r = "ok" THEN members ELSE {}]
        /\ r = "ok" /\ members # {} => pc' = [pc EXCEPT ![s] = "issue"]
        /\ \A q \in Scheduler \ {s} : pc'[q] = pc[q]
    BY <1>6 DEF ZPopMin, Goto, TypeOK
  <2>2. ev[s] \in Event /\ members \subseteq queue[ev[s]]
    BY DEF PopMin, TypeOK
  <2>3. \A e \in Event : queue'[e] \subseteq queue[e]
    BY <2>1, <2>2 DEF AfterPop, TypeOK
  <2>4. \A q \in Scheduler : \A u \in batch'[q] :
          \/ batch'[q] = batch[q] /\ pc'[q] = pc[q]
          \/ u \in queue[ev[s]] /\ pc'[q] = "issue"
    <3> SUFFICES ASSUME NEW q \in Scheduler, NEW u \in batch'[q]
                 PROVE  \/ batch'[q] = batch[q] /\ pc'[q] = pc[q]
                        \/ u \in queue[ev[s]] /\ pc'[q] = "issue"
      OBVIOUS
    <3>1. CASE q = s
      BY <2>1, <2>2, <3>1 DEF TypeOK
    <3>2. CASE q # s
      BY <2>1, <3>2 DEF TypeOK
    <3>3. QED
      BY <3>1, <3>2
  <2>5. QED
    BY <1>a, <2>2, <2>3, <2>4 DEF InHand, Batched, TypeOK
<1>7. ASSUME NEW s \in Scheduler, NEW t \in Ticket, NextMember(s, t), pc[s] \in Batched,
             queue' = queue
      PROVE  InHand'
  <2>1. /\ batch' = [batch EXCEPT ![s] = @ \ {t}]
        /\ pc' = [pc EXCEPT ![s] = IF batch[s] = {t} THEN "tick" ELSE "issue"]
    BY <1>7 DEF NextMember, Goto
  <2>2. \A q \in Scheduler : /\ batch'[q] \subseteq batch[q]
                             /\ batch'[q] = {} \/ pc'[q] \in Batched
    BY <2>1 DEF InHand, Batched, TypeOK
  <2>3. QED
    BY <1>7, <1>b, <2>2
<1>8. ASSUME NEW s \in Scheduler, UNCHANGED <<queue, batch>>,
             pc' = pc \/ \E step \in Batched : pc' = [pc EXCEPT ![s] = step]
      PROVE  InHand'
  BY <1>8, <1>b DEF InHand, TypeOK
<1>9. ASSUME NEW s \in Scheduler, Crash(s) \/ Stop(s)
      PROVE  InHand'
  <2>1. /\ batch' = [batch EXCEPT ![s] = {}] /\ pc' = [pc EXCEPT ![s] = "down"]
        /\ queue' = queue
    BY <1>9 DEF Crash, Stop, Down, Goto
  <2>2. QED
    BY <1>b, <2>1 DEF InHand, TypeOK
<1>10. CASE Server
  BY <1>2, <1>3, <1>10 DEF Server
<1>11. CASE Environment
  BY <1>4, <1>5, <1>9, <1>11 DEF Environment
<1>12. ASSUME NEW s \in Scheduler, Work(s)
       PROVE  InHand'
  <2>1. CASE Tick(s)
    BY <1>5, <1>6, <2>1 DEF Tick
  <2>2. ASSUME NEW t \in Ticket, NEW r \in Reply,
               HSetToken(s, t, r) \/ DynamoWrite(s, t, r) \/ SqsEmit(s, t, r) \/ Incr(s, t, r)
        PROVE  InHand'
    <3>1. UNCHANGED <<queue, batch>>
      BY <2>2 DEF HSetToken, DynamoWrite, SqsEmit, Incr
    <3>2. \E step \in Batched : pc' = [pc EXCEPT ![s] = step]
      BY <2>2 DEF HSetToken, DynamoWrite, SqsEmit, Incr, AfterStore, Goto, Batched
    <3>3. QED
      BY <1>8, <3>1, <3>2
  <2>3. ASSUME NEW t \in Ticket, NEW r \in Reply, IssueToken(s, t) \/ PublishAdmitted(s, t, r)
        PROVE  InHand'
    <3>1. pc[s] \in Batched /\ queue' = queue
      BY <2>3 DEF IssueToken, PublishAdmitted, Batched
    <3>2. \/ NextMember(s, t)
          \/ batch' = batch /\ (pc' = pc \/ pc' = [pc EXCEPT ![s] = "store"])
      BY <2>3 DEF IssueToken, PublishAdmitted, Goto
    <3>3. QED
      BY <1>7, <1>8, <3>1, <3>2 DEF Batched
  <2>5. CASE Member(s)
    BY <2>2, <2>3, <2>5 DEF Member
  <2>6. QED
    BY <1>5, <1>9, <1>12, <2>1, <2>5 DEF Work
<1>13. QED
  BY <1>1, <1>4, <1>10, <1>11, <1>12 DEF Next

\* Tickets in a queue or in a batch have arrived, whatever faults happen.
LEMMA InHandCorrect == Spec => []InHand
<1>1. Init => InHand
  BY DEF Init, InHand
<1>2. TypeOK /\ InHand /\ [Next]_vars => InHand'
  BY InHandStep
<1>3. QED
  BY <1>1, <1>2, TypeCorrect, PTL DEF Spec

\* Past issueToken the current member has its token; before the audit and the
\* event, the token is stored.
Signed == \A s \in Scheduler, t \in Ticket : Current(s, t) =>
            /\ pc[s] \in Batched \ {"issue"} => tokens[t] > 0
            /\ pc[s] \in {"audit", "emit"} => "stored" \in effects[t]

\* The current member of a batch stays the current one, whoever joins.
LEMMA CurrentKept ==
  ASSUME TypeOK, InHand, [Next]_vars, NEW s \in Scheduler, batch'[s] = batch[s],
         NEW t \in Ticket
  PROVE  Current(s, t)' <=> Current(s, t)
<1>1. \A u \in batch[s] : u \in Ticket /\ score'[u] = score[u]
  BY PlaceKept DEF InHand, TypeOK
<1>2. QED
  BY <1>1 DEF Current, IsFirst, Before

\* A step that signs and does nothing, and takes no member past issueToken.
LEMMA SignedFrame ==
  ASSUME TypeOK, InHand, AuditTrailSound, Signed, [Next]_vars,
         tokens' = tokens, effects' = effects,
         \A s \in Scheduler : \/ batch'[s] = batch[s] /\ pc'[s] = pc[s]
                              \/ pc'[s] \notin Batched \ {"issue"}
  PROVE  AuditTrailSound' /\ Signed'
<1>1. AuditTrailSound'
  BY DEF AuditTrailSound
<1>2. ASSUME NEW s \in Scheduler, NEW t \in Ticket, Current(s, t)'
      PROVE  /\ pc'[s] \in Batched \ {"issue"} => tokens'[t] > 0
             /\ pc'[s] \in {"audit", "emit"} => "stored" \in effects'[t]
  <2>1. CASE pc'[s] \notin Batched \ {"issue"}
    BY <2>1 DEF Batched
  <2>2. CASE batch'[s] = batch[s] /\ pc'[s] = pc[s]
    <3>1. Current(s, t)
      BY <1>2, <2>2, CurrentKept
    <3>2. QED
      BY <2>2, <3>1 DEF Signed
  <2>3. QED
    BY <2>1, <2>2
<1>3. QED
  BY <1>1, <1>2 DEF Signed

\* One more thing is done for the current member, or not, and its process goes on
\* to the next command or the next member.
LEMMA SignedDone ==
  ASSUME TypeOK, InHand, AuditTrailSound, Signed, [Next]_vars,
         NEW s \in Scheduler, NEW t \in Ticket, Current(s, t),
         pc[s] \in Batched \ {"issue"}, tokens' = tokens,
         NEW what \in Effect, NEW r, Done(t, what, r),
         what \in {"audited", "emitted"} => pc[s] \in {"audit", "emit"},
         \A q \in Scheduler \ {s} : batch'[q] = batch[q] /\ pc'[q] = pc[q],
         batch'[s] = batch[s] \/ pc'[s] \notin Batched \ {"issue"},
         pc'[s] \in {"audit", "emit"} => "stored" \in effects'[t]
  PROVE  AuditTrailSound' /\ Signed'
<1>1. /\ effects[t] \subseteq effects'[t] /\ effects'[t] \subseteq effects[t] \union {what}
      /\ \A u \in Ticket \ {t} : effects'[u] = effects[u]
  BY DEF Done, TypeOK
<1>2. tokens[t] > 0 /\ (pc[s] \in {"audit", "emit"} => "stored" \in effects[t])
  BY DEF Signed
<1>3. AuditTrailSound'
  <2> SUFFICES ASSUME NEW u \in Ticket
               PROVE  /\ effects'[u] \intersect {"audited", "emitted"} # {} => "stored" \in effects'[u]
                      /\ effects'[u] # {} => tokens'[u] > 0
    BY DEF AuditTrailSound
  <2>1. CASE u # t
    BY <1>1, <2>1 DEF AuditTrailSound
  <2>2. CASE u = t
    <3>1. effects'[t] \intersect {"audited", "emitted"} # {} => "stored" \in effects[t]
      BY <1>1, <1>2 DEF AuditTrailSound
    <3>2. QED
      BY <1>1, <1>2, <2>2, <3>1
  <2>3. QED
    BY <2>1, <2>2
<1>4. ASSUME NEW q \in Scheduler, NEW u \in Ticket, Current(q, u)'
      PROVE  /\ pc'[q] \in Batched \ {"issue"} => tokens'[u] > 0
             /\ pc'[q] \in {"audit", "emit"} => "stored" \in effects'[u]
  <2>1. CASE q # s
    <3>1. Current(q, u) /\ pc'[q] = pc[q]
      BY <1>4, <2>1, CurrentKept
    <3>2. effects[u] \subseteq effects'[u]
      BY <1>1
    <3>3. QED
      BY <3>1, <3>2 DEF Signed
  <2>2. CASE q = s /\ pc'[s] \in Batched \ {"issue"}
    <3>1. Current(s, u)
      BY <1>4, <2>2, CurrentKept
    <3>2. u = t
      BY <3>1, OneFirst DEF Current, TypeOK
    <3>3. QED
      BY <1>2, <2>2, <3>2
  <2>3. CASE q = s /\ pc'[s] \notin Batched \ {"issue"}
    BY <2>3 DEF Batched
  <2>4. QED
    BY <2>1, <2>2, <2>3
<1>5. QED
  BY <1>3, <1>4 DEF Signed

\* Every action keeps the trail sound, also a command that is repeated.
LEMMA AuditStep ==
  ASSUME TypeOK, InHand, AuditTrailSound, Signed, [Next]_vars
  PROVE  AuditTrailSound' /\ Signed'
<1> USE DEF redisVars, localVars, histVars
<1>1. CASE UNCHANGED vars
  BY <1>1, SignedFrame DEF vars
<1>2. CASE Server
  BY <1>2, SignedFrame DEF Server, ZAdd, HSetMeta, Expire, QueueExit
<1>3. CASE Admin
  BY <1>3, SignedFrame DEF Admin, SetRate, SetCapacity
<1>4. CASE (\E t \in Ticket : ExpireHash(t)) \/ (\E e \in Event : ExpireLock(e))
  BY <1>4, SignedFrame DEF ExpireHash, ExpireLock
<1>5. ASSUME NEW s \in Scheduler,
             \/ Crash(s) \/ Stop(s) \/ Sigterm(s) \/ Restart(s) \/ Scan(s)
             \/ \E e \in Event, r \in Reply : AcquireLock(s, e, r)
             \/ \E r \in Reply : \/ GetRate(s, r) \/ GetActive(s, r) \/ GetCapacity(s, r)
                                 \/ ZPopMin(s, r) \/ PublishTick(s, r) \/ ReleaseLock(s, r)
      PROVE  AuditTrailSound' /\ Signed'
  <2>1. tokens' = tokens /\ effects' = effects
    BY <1>5 DEF Crash, Stop, Down, Sigterm, Restart, Scan, AcquireLock, GetRate,
                GetActive, GetCapacity, ZPopMin, PublishTick, ReleaseLock
  <2>2. \A q \in Scheduler \ {s} : batch'[q] = batch[q] /\ pc'[q] = pc[q]
    BY <1>5 DEF Crash, Stop, Down, Sigterm, Restart, Scan, AcquireLock, GetRate,
                GetActive, GetCapacity, ZPopMin, PublishTick, ReleaseLock, Goto, TypeOK
  <2>3. (batch' = batch /\ pc' = pc) \/ pc'[s] \notin Batched \ {"issue"}
    BY <1>5 DEF Crash, Stop, Down, Sigterm, Restart, Scan, AcquireLock, GetRate,
                GetActive, GetCapacity, ZPopMin, PublishTick, ReleaseLock, Goto, TypeOK,
                Batched
  <2>4. QED
    BY <2>1, <2>2, <2>3, SignedFrame
<1>6. ASSUME NEW s \in Scheduler, NEW t \in Ticket, IssueToken(s, t)
      PROVE  AuditTrailSound' /\ Signed'
  <2>1. /\ pc[s] = "issue" /\ Current(s, t) /\ effects' = effects
    BY <1>6 DEF IssueToken
  <2>2. CASE NextMember(s, t) /\ tokens' = tokens
    <3>1. \A q \in Scheduler : \/ batch'[q] = batch[q] /\ pc'[q] = pc[q]
                               \/ pc'[q] \notin Batched \ {"issue"}
      BY <2>2 DEF NextMember, Goto, Batched, TypeOK
    <3>2. QED
      BY <2>1, <2>2, <3>1, SignedFrame
  <2>3. CASE tokens' = [tokens EXCEPT ![t] = @ + 1] /\ Goto(s, "store") /\ batch' = batch
    <3>1. /\ tokens'[t] > 0 /\ \A u \in Ticket \ {t} : tokens'[u] = tokens[u]
          /\ pc'[s] = "store" /\ \A q \in Scheduler \ {s} : pc'[q] = pc[q]
      BY <2>3 DEF Goto, TypeOK
    <3>2. AuditTrailSound'
      BY <2>1, <3>1 DEF AuditTrailSound
    <3>3. ASSUME NEW q \in Scheduler, NEW u \in Ticket, Current(q, u)'
          PROVE  /\ pc'[q] \in Batched \ {"issue"} => tokens'[u] > 0
                 /\ pc'[q] \in {"audit", "emit"} => "stored" \in effects'[u]
      <4>1. Current(q, u)
        BY <2>3, <3>3, CurrentKept
      <4>2. CASE q = s
        <5>1. u = t
          BY <2>1, <4>1, <4>2, OneFirst DEF Current, TypeOK
        <5>2. QED
          BY <3>1, <4>2, <5>1
      <4>3. CASE q # s
        BY <2>1, <3>1, <4>1, <4>3 DEF Signed
      <4>4. QED
        BY <4>2, <4>3
    <3>4. QED
      BY <3>2, <3>3 DEF Signed
  <2>4. QED
    BY <1>6, <2>2, <2>3 DEF IssueToken
<1>7. ASSUME NEW s \in Scheduler, NEW t \in Ticket, NEW r \in Reply, HSetToken(s, t, r)
      PROVE  AuditTrailSound' /\ Signed'
  <2>1. /\ pc[s] = "store" /\ Current(s, t) /\ tokens' = tokens /\ batch' = batch
        /\ Done(t, "stored", r) /\ pc' = [pc EXCEPT ![s] = AfterStore(r)]
    BY <1>7 DEF HSetToken, Goto
  <2>2. pc'[s] \in {"audit", "emit"} => "stored" \in effects'[t]
    BY <2>1 DEF AfterStore, Done, Applied, TypeOK
  <2>3. QED
    BY <2>1, <2>2, SignedDone DEF Batched, Effect, TypeOK
<1>8. ASSUME NEW s \in Scheduler, NEW t \in Ticket, NEW r \in Reply, DynamoWrite(s, t, r)
      PROVE  AuditTrailSound' /\ Signed'
  <2>1. /\ pc[s] = "audit" /\ Current(s, t) /\ tokens' = tokens /\ batch' = batch
        /\ Done(t, "audited", r) /\ pc' = [pc EXCEPT ![s] = "emit"]
    BY <1>8 DEF DynamoWrite, Goto
  <2>2. "stored" \in effects'[t]
    BY <2>1 DEF Signed, Done, TypeOK
  <2>3. QED
    BY <2>1, <2>2, SignedDone DEF Batched, Effect, TypeOK
<1>9. ASSUME NEW s \in Scheduler, NEW t \in Ticket, NEW r \in Reply, SqsEmit(s, t, r)
      PROVE  AuditTrailSound' /\ Signed'
  <2>1. /\ pc[s] = "emit" /\ Current(s, t) /\ tokens' = tokens /\ batch' = batch
        /\ Done(t, "emitted", r) /\ pc' = [pc EXCEPT ![s] = "count"]
    BY <1>9 DEF SqsEmit, Goto
  <2>2. QED
    BY <2>1, SignedDone DEF Batched, Effect, TypeOK
<1>10. ASSUME NEW s \in Scheduler, NEW t \in Ticket, NEW r \in Reply, Incr(s, t, r)
       PROVE  AuditTrailSound' /\ Signed'
  <2>1. /\ pc[s] = "count" /\ Current(s, t) /\ tokens' = tokens /\ batch' = batch
        /\ Done(t, "counted", r)
        /\ pc' = [pc EXCEPT ![s] = IF r = "retried" THEN "count" ELSE "publish"]
    BY <1>10 DEF Incr, Goto
  <2>2. QED
    BY <2>1, SignedDone DEF Batched, Effect, TypeOK
<1>11. ASSUME NEW s \in Scheduler, NEW t \in Ticket, NEW r \in Reply, PublishAdmitted(s, t, r)
       PROVE  AuditTrailSound' /\ Signed'
  <2>1. /\ pc[s] = "publish" /\ Current(s, t) /\ tokens' = tokens
        /\ Done(t, "published", r)
        /\ (batch' = batch /\ pc' = pc) \/ NextMember(s, t)
    BY <1>11 DEF PublishAdmitted
  <2>2. /\ \A q \in Scheduler \ {s} : batch'[q] = batch[q] /\ pc'[q] = pc[q]
        /\ (batch'[s] = batch[s] /\ pc'[s] = "publish") \/ pc'[s] \in {"tick", "issue"}
    BY <2>1 DEF NextMember, Goto, TypeOK
  <2>3. QED
    BY <2>1, <2>2, SignedDone DEF Batched, Effect
<1>12. CASE Environment
  BY <1>4, <1>5, <1>12 DEF Environment
<1>13. ASSUME NEW s \in Scheduler, Work(s)
       PROVE  AuditTrailSound' /\ Signed'
  <2>1. CASE Tick(s)
    BY <1>5, <2>1 DEF Tick
  <2>2. CASE Member(s)
    BY <1>6, <1>7, <1>8, <1>9, <1>10, <1>11, <2>2 DEF Member
  <2>3. QED
    BY <1>5, <1>13, <2>1, <2>2 DEF Work
<1>14. QED
  BY <1>1, <1>2, <1>3, <1>12, <1>13 DEF Next

\* The audit row and the admission event follow only a stored token, and nothing
\* is done for a ticket without one (admitBatch), whatever fails, crashes, is
\* repeated or outlives its lock.
THEOREM AuditTrailCorrect == Spec => []AuditTrailSound
<1>1. Init => AuditTrailSound /\ Signed
  BY DEF Init, AuditTrailSound, Signed, Current, IsFirst
<1>2. TypeOK /\ InHand /\ AuditTrailSound /\ Signed /\ [Next]_vars
        => AuditTrailSound' /\ Signed'
  BY AuditStep
<1>3. QED
  BY <1>1, <1>2, TypeCorrect, InHandCorrect, PTL DEF Spec
==============================================================================
