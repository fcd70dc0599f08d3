---------------------------- MODULE CapacityProofs ----------------------------
(***************************************************************************)
(* The capacity of an event, proved for any number of events, tickets,     *)
(* scheduler instances, rates and capacities: the counter never exceeds    *)
(* the largest capacity, it counts the visitors inside, and they never     *)
(* outnumber the capacity.                                                 *)
(***************************************************************************)
EXTENDS AdmissionProofs, FiniteSetTheorems

\* Two members of a sorted set have different ranks.
LEMMA RankInjective ==
  ASSUME NEW sc \in [Ticket -> Nat], NEW q \in SUBSET Ticket,
         NEW t \in q, NEW u \in q, t # u
  PROVE  Rank(sc, q, t) # Rank(sc, q, u)
<1>1. ASSUME NEW a \in q, NEW b \in q, Before(sc, a, b)
      PROVE  Rank(sc, q, a) # Rank(sc, q, b)
  <2> DEFINE A == {w \in q : Before(sc, w, a)}
             B == {w \in q : Before(sc, w, b)}
  <2>1. \A w \in q : w \in Nat /\ sc[w] \in Nat
    BY ConstantsAssumption
  <2>2. A \subseteq B /\ a \in B /\ a \notin A
    BY <1>1, <2>1 DEF Before
  <2>3. IsFiniteSet(B)
    BY ConstantsAssumption, FS_Subset
  <2>4. Cardinality(A) # Cardinality(B)
    BY <2>2, <2>3, FS_Subset
  <2>5. QED
    BY <2>4 DEF Rank
<1>2. Before(sc, t, u) \/ Before(sc, u, t)
  BY ConstantsAssumption DEF Before
<1>3. QED
  BY <1>1, <1>2

\* ZPOPMIN returns at most as many members as it is asked for.
LEMMA PopMinBound ==
  ASSUME NEW sc \in [Ticket -> Nat], NEW q \in SUBSET Ticket, NEW n \in Nat
  PROVE  /\ IsFiniteSet(PopMin(sc, q, n))
         /\ Cardinality(PopMin(sc, q, n)) <= n
<1> DEFINE P == PopMin(sc, q, n)
           f == [t \in P |-> Rank(sc, q, t)]
<1>1. P \subseteq q /\ q \subseteq Ticket /\ IsFiniteSet(q) /\ IsFiniteSet(P)
  BY ConstantsAssumption, FS_Subset DEF PopMin
<1>2. \A t \in P : Rank(sc, q, t) \in 0 .. n - 1
  <2> SUFFICES ASSUME NEW t \in P
               PROVE  Rank(sc, q, t) \in 0 .. n - 1
    OBVIOUS
  <2>1. Rank(sc, q, t) \in Nat
    <3>1. IsFiniteSet({u \in q : Before(sc, u, t)})
      BY <1>1, FS_Subset
    <3>2. QED
      BY <3>1, FS_CardinalityType DEF Rank
  <2>2. Rank(sc, q, t) < n
    BY DEF PopMin
  <2>3. QED
    BY <2>1, <2>2
<1>3. f \in [P -> 0 .. n - 1]
  BY <1>2
<1>4. IsFiniteSet(0 .. n - 1) /\ Cardinality(0 .. n - 1) = n
  BY FS_Interval
<1>5. ASSUME Cardinality(P) > n
      PROVE  FALSE
  <2>1. PICK x \in P, y \in P : x # y /\ f[x] = f[y]
    <3> HIDE DEF f, P
    <3>1. Cardinality(0 .. n - 1) < Cardinality(P)
      BY <1>1, <1>4, <1>5, FS_CardinalityType
    <3>2. QED
      BY <1>1, <1>3, <1>4, <3>1, FS_PigeonHole
  <2>2. Rank(sc, q, x) = Rank(sc, q, y)
    BY <2>1
  <2>3. QED
    BY <1>1, <2>1, <2>2, RankInjective
<1>6. QED
  BY <1>1, <1>5, FS_CardinalityType
------------------------------------------------------------------------------
(***************************************************************************)
(* The counter.  From GET active to the last INCR of the batch, the        *)
(* instance that holds the lock keeps the slots it may still take: what it *)
(* read, then its quota, then the members it has not counted.              *)
(***************************************************************************)

\* The members of the batch for which INCR is still to come.
Owed(s) == Cardinality(batch[s]) - (IF pc[s] = "publish" THEN 1 ELSE 0)

CeilingSound == \A e \in Event : ceiling[e] > 0 =>
                  0 < capacity[e] /\ capacity[e] <= ceiling[e]

Headroom(s) ==
  ceiling[ev[s]] > 0 =>
    /\ pc[s] = "capacity" /\ ~cancelled[s] => active[ev[s]] <= seen[s]
    /\ pc[s] = "pop" /\ ~cancelled[s] => active[ev[s]] + lim[s] <= ceiling[ev[s]]
    /\ pc[s] \in Batched => active[ev[s]] + Owed(s) <= ceiling[ev[s]]

WithinHeadroom == /\ CeilingSound /\ ActiveWithinCapacity
                  /\ \A s \in Scheduler : Headroom(s)

\* A batch is finite.
LEMMA BatchFinite ==
  ASSUME TypeOK, NEW s \in Scheduler
  PROVE  IsFiniteSet(batch[s]) /\ Cardinality(batch[s]) \in Nat
<1>1. batch[s] \subseteq Ticket /\ IsFiniteSet(Ticket)
  BY ConstantsAssumption DEF TypeOK
<1>2. QED
  BY <1>1, FS_Subset, FS_CardinalityType

\* Without errors and retries a command succeeds unless ctx is cancelled.
LEMMA NoRedisFault ==
  ASSUME "redis_error" \notin Faults, "redis_retry" \notin Faults, NEW d, NEW r, Redis(d, r)
  PROVE  (r = "ok" /\ ~d) \/ (r = "failed" /\ d)
BY DEF Redis, Fault

\* An instance that stands still keeps its headroom while the counter does not
\* grow and the ceiling does not fall.
LEMMA HeadroomKept ==
  ASSUME TypeOK, TypeOK', NEW s \in Scheduler, Headroom(s),
         pc'[s] = pc[s], ev'[s] = ev[s], lim'[s] = lim[s], seen'[s] = seen[s],
         batch'[s] = batch[s], cancelled[s] => cancelled'[s],
         pc[s] \in TickSteps => active'[ev[s]] <= active[ev[s]],
         \A e \in Event : ceiling'[e] > 0 => ceiling[e] > 0 /\ ceiling[e] <= ceiling'[e]
  PROVE  Headroom(s)'
<1>1. Owed(s)' = Owed(s) /\ Owed(s) \in Int
  BY BatchFinite DEF Owed
<1>2. /\ ev[s] \in Event /\ seen[s] \in Int /\ lim[s] \in Nat /\ active[ev[s]] \in Int
      /\ active'[ev[s]] \in Int /\ ceiling[ev[s]] \in Nat /\ ceiling'[ev[s]] \in Nat
  BY DEF TypeOK
<1>3. Batched \subseteq TickSteps /\ "capacity" \in TickSteps /\ "pop" \in TickSteps
  BY DEF TickSteps
<1>4. QED
  BY <1>1, <1>2, <1>3 DEF Headroom

\* A step of one instance, or of none, after which the counters are no larger.
LEMMA HeadroomFrame ==
  ASSUME TypeOK, TypeOK', WithinHeadroom,
         \A s \in Scheduler :
           \/ Headroom(s)'
           \/ /\ pc'[s] = pc[s] /\ ev'[s] = ev[s] /\ lim'[s] = lim[s] /\ seen'[s] = seen[s]
              /\ batch'[s] = batch[s] /\ (cancelled[s] => cancelled'[s]),
         \A e \in Event : active'[e] <= active[e],
         capacity' = capacity, ceiling' = ceiling
  PROVE  WithinHeadroom'
<1>1. CeilingSound'
  BY DEF WithinHeadroom, CeilingSound
<1>2. ActiveWithinCapacity'
  BY DEF WithinHeadroom, ActiveWithinCapacity, TypeOK
<1>3. ASSUME NEW s \in Scheduler
      PROVE  Headroom(s)'
  <2>1. CASE Headroom(s)'
    BY <2>1
  <2>2. CASE ~Headroom(s)'
    <3>1. \A e \in Event : ceiling'[e] > 0 => ceiling[e] > 0 /\ ceiling[e] <= ceiling'[e]
      BY DEF TypeOK
    <3>2. Headroom(s) /\ ev[s] \in Event
      BY DEF WithinHeadroom, TypeOK
    <3>3. QED
      BY <2>2, <3>1, <3>2, HeadroomKept
  <2>3. QED
    BY <2>1, <2>2
<1>4. QED
  BY <1>1, <1>2, <1>3 DEF WithinHeadroom

\* GET active, GET capacity, ZPOPMIN: the quota respects what was read.
LEMMA HeadroomTick ==
  ASSUME "redis_error" \notin Faults, "redis_retry" \notin Faults,
         TypeOK, TypeOK', WithinHeadroom, NEW s \in Scheduler, NEW r \in Reply,
         GetActive(s, r) \/ GetCapacity(s, r) \/ ZPopMin(s, r)
  PROVE  WithinHeadroom'
<1> USE DEF redisVars, localVars, histVars
<1>1. /\ capacity' = capacity /\ ceiling' = ceiling /\ active' = active /\ ev' = ev
      /\ cancelled' = cancelled /\ (r = "ok" \/ cancelled[s])
  BY NoRedisFault DEF GetActive, GetCapacity, ZPopMin
<1>2. \A q \in Scheduler \ {s} : /\ pc'[q] = pc[q] /\ lim'[q] = lim[q] /\ seen'[q] = seen[q]
                                 /\ batch'[q] = batch[q]
  BY DEF GetActive, GetCapacity, ZPopMin, Goto, TypeOK
<1>3. /\ ev[s] \in Event /\ seen[s] \in Int /\ lim[s] \in Nat /\ active[ev[s]] \in Int
      /\ ceiling[ev[s]] \in Nat /\ capacity[ev[s]] \in Nat /\ ev'[s] = ev[s]
  BY <1>1 DEF TypeOK
<1>4. ceiling[ev[s]] > 0 => /\ 0 < capacity[ev[s]] /\ capacity[ev[s]] <= ceiling[ev[s]]
                            /\ active[ev[s]] <= ceiling[ev[s]]
  BY <1>3 DEF WithinHeadroom, CeilingSound, ActiveWithinCapacity
<1>5. Headroom(s)'
  <2>1. CASE GetActive(s, r)
    <3>1. pc'[s] = "capacity" /\ (r = "ok" => seen'[s] = active[ev[s]])
      BY <2>1 DEF GetActive, Goto, TypeOK
    <3>2. QED
      BY <1>1, <1>3, <3>1 DEF Headroom, Batched
  <2>2. CASE GetCapacity(s, r)
    <3>1. CASE cancelled[s]
      <4>1. pc'[s] \in {"release", "pop"}
        BY <2>2 DEF GetCapacity, Goto, TypeOK
      <4>2. QED
        BY <1>1, <3>1, <4>1 DEF Headroom, Batched
    <3>2. CASE ~cancelled[s]
      <4> DEFINE n == Quota(lim[s], capacity[ev[s]], seen[s])
      <4>1. pc[s] = "capacity" /\ r = "ok"
        BY <1>1, <2>2, <3>2 DEF GetCapacity
      <4>2. \/ pc'[s] = "release"
            \/ pc'[s] = "pop" /\ lim'[s] = n
        BY <2>2, <4>1 DEF GetCapacity, Goto, TypeOK
      <4>3. ceiling[ev[s]] > 0 => n <= capacity[ev[s]] - seen[s]
        BY <1>3, <1>4 DEF Quota
      <4>4. ceiling[ev[s]] > 0 => active[ev[s]] <= seen[s]
        BY <3>2, <4>1 DEF WithinHeadroom, Headroom
      <4>5. n \in Int
        BY <1>3 DEF Quota
      <4>6. ceiling[ev[s]] > 0 => active[ev[s]] + n <= ceiling[ev[s]]
        BY <1>3, <1>4, <4>3, <4>4, <4>5
      <4>7. QED
        BY <1>1, <1>3, <4>2, <4>6 DEF Headroom, Batched
    <3>3. QED
      BY <3>1, <3>2
  <2>3. CASE ZPopMin(s, r)
    <3> DEFINE members == PopMin(score, queue[ev[s]], lim[s])
    <3>1. CASE r = "ok"
      <4>1. /\ pc[s] = "pop" /\ ~cancelled[s] /\ batch'[s] = members
            /\ pc'[s] \in {"issue", "release"}
        BY <2>3, <3>1, NoRedisFault DEF ZPopMin, Goto, TypeOK
      <4>2. IsFiniteSet(members) /\ Cardinality(members) <= lim[s]
        <5>1. score \in [Ticket -> Nat] /\ queue[ev[s]] \in SUBSET Ticket
          BY <1>3 DEF TypeOK
        <5>2. QED
          BY <1>3, <5>1, PopMinBound
      <4>3. ceiling[ev[s]] > 0 => active[ev[s]] + lim[s] <= ceiling[ev[s]]
        BY <4>1 DEF WithinHeadroom, Headroom
      <4>4. Owed(s)' = Cardinality(members) /\ Cardinality(members) \in Nat
        BY <4>1, <4>2, FS_CardinalityType DEF Owed
      <4>5. QED
        BY <1>1, <1>3, <4>1, <4>2, <4>3, <4>4 DEF Headroom
    <3>2. CASE r # "ok"
      <4>1. r = "failed" /\ pc'[s] = "release"
        BY <2>3, <3>2, NoRedisFault DEF ZPopMin, Goto, TypeOK
      <4>2. QED
        BY <4>1 DEF Headroom, Batched
    <3>3. QED
      BY <3>1, <3>2
  <2>4. QED
    BY <2>1, <2>2, <2>3
<1>6. \A e \in Event : active'[e] <= active[e]
  BY <1>1 DEF TypeOK
<1>7. QED
  BY <1>1, <1>2, <1>5, <1>6, HeadroomFrame

\* The members of the batch are counted one by one, or skipped.
LEMMA HeadroomMember ==
  ASSUME "redis_error" \notin Faults, "redis_retry" \notin Faults,
         TypeOK, TypeOK', LockInv, WithinHeadroom,
         NEW s \in Scheduler, NEW t \in Ticket, NEW r \in Reply,
         \/ IssueToken(s, t) \/ HSetToken(s, t, r) \/ DynamoWrite(s, t, r)
         \/ SqsEmit(s, t, r) \/ Incr(s, t, r) \/ PublishAdmitted(s, t, r)
  PROVE  WithinHeadroom'
<1> USE DEF redisVars, localVars, histVars
<1>1. /\ capacity' = capacity /\ ceiling' = ceiling /\ ev' = ev /\ lim' = lim
      /\ seen' = seen /\ cancelled' = cancelled /\ pc[s] \in Batched /\ t \in batch[s]
  BY DEF IssueToken, HSetToken, DynamoWrite, SqsEmit, Incr, PublishAdmitted, Batched,
         Current, IsFirst
<1>2. \A q \in Scheduler \ {s} : pc'[q] = pc[q] /\ batch'[q] = batch[q]
  BY DEF IssueToken, HSetToken, DynamoWrite, SqsEmit, Incr, PublishAdmitted, NextMember,
         Goto, TypeOK
<1>3. /\ ev[s] \in Event /\ active[ev[s]] \in Int /\ ceiling[ev[s]] \in Nat /\ ev'[s] = ev[s]
      /\ Cardinality(batch[s]) \in Nat /\ IsFiniteSet(batch[s])
  BY <1>1, BatchFinite DEF TypeOK
<1>4. ceiling[ev[s]] > 0 => active[ev[s]] + Owed(s) <= ceiling[ev[s]]
  BY <1>1 DEF WithinHeadroom, Headroom
<1>5. Cardinality(batch[s]) >= 1
  BY <1>1, <1>3, FS_EmptySet
<1>6. CASE Incr(s, t, r)
  <2>1. /\ pc[s] = "count" /\ batch' = batch /\ pc' = [pc EXCEPT ![s] = "publish"]
        /\ active' = active \/ active' = [active EXCEPT ![ev[s]] = @ + 1]
    BY <1>6, NoRedisFault DEF Incr, Goto, TypeOK
  <2>2. Owed(s) = Cardinality(batch[s]) /\ Owed(s)' = Cardinality(batch[s]) - 1
    <3>1. pc'[s] = "publish" /\ batch'[s] = batch[s]
      BY <2>1 DEF TypeOK
    <3>2. QED
      BY <1>3, <2>1, <3>1 DEF Owed
  <2>3. /\ active'[ev[s]] <= active[ev[s]] + 1
        /\ \A e \in Event \ {ev[s]} : active'[e] = active[e]
    BY <1>3, <2>1 DEF TypeOK
  <2>4. active'[ev[s]] \in Int
    BY <1>3 DEF TypeOK
  <2>5. Headroom(s)'
    BY <1>1, <1>3, <1>4, <2>1, <2>2, <2>3, <2>4 DEF Headroom, TypeOK
  <2>6. ASSUME NEW q \in Scheduler \ {s}
        PROVE  Headroom(q)'
    <3>1. pc[q] \in TickSteps => ev[q] # ev[s]
      BY <1>1, <1>3, <2>6 DEF LockInv, InTick, TickSteps
    <3>2. ev[q] \in Event /\ active[ev[q]] \in Int
      BY DEF TypeOK
    <3>3. pc[q] \in TickSteps => active'[ev[q]] <= active[ev[q]]
      BY <2>3, <3>1, <3>2
    <3>4. \A e \in Event : ceiling'[e] > 0 => ceiling[e] > 0 /\ ceiling[e] <= ceiling'[e]
      BY <1>1 DEF TypeOK
    <3>5. QED
      BY <1>1, <1>2, <3>3, <3>4, HeadroomKept DEF WithinHeadroom
  <2>7. ActiveWithinCapacity'
    <3> SUFFICES ASSUME NEW e \in Event, ceiling[e] > 0
                 PROVE  active'[e] <= ceiling[e]
      BY <1>1 DEF ActiveWithinCapacity
    <3>1. CASE e = ev[s]
      BY <1>3, <1>4, <1>5, <2>2, <2>3, <2>4, <3>1
    <3>2. CASE e # ev[s]
      BY <2>3, <3>2 DEF WithinHeadroom, ActiveWithinCapacity
    <3>3. QED
      BY <3>1, <3>2
  <2>8. CeilingSound'
    BY <1>1 DEF WithinHeadroom, CeilingSound
  <2>9. QED
    BY <2>5, <2>6, <2>7, <2>8 DEF WithinHeadroom
<1>7. CASE ~Incr(s, t, r)
  <2>1. active' = active
    BY <1>7 DEF IssueToken, HSetToken, DynamoWrite, SqsEmit, PublishAdmitted
  <2>2. \/ batch' = batch /\ pc[s] # "publish" /\ pc'[s] \in Batched \ {"publish"}
        \/ batch'[s] = batch[s] \ {t} /\ pc'[s] \in {"tick", "issue"}
    <3>1. CASE NextMember(s, t)
      BY <3>1 DEF NextMember, Goto, TypeOK
    <3>2. CASE ~NextMember(s, t)
      <4>1. \/ IssueToken(s, t) /\ ~NextMember(s, t)
            \/ HSetToken(s, t, r) \/ DynamoWrite(s, t, r) \/ SqsEmit(s, t, r)
        BY <1>7, <3>2, NoRedisFault DEF PublishAdmitted
      <4>2. QED
        BY <4>1 DEF IssueToken, HSetToken, DynamoWrite, SqsEmit, AfterStore, Goto, Batched, TypeOK
    <3>3. QED
      BY <3>1, <3>2
  <2>3. Cardinality(batch[s] \ {t}) = Cardinality(batch[s]) - 1
    BY <1>1, <1>3, FS_RemoveElement
  <2>4. /\ pc'[s] # "publish" /\ Owed(s)' \in Int /\ Owed(s) \in Int
        /\ Owed(s)' <= Owed(s)
    <3>1. pc'[s] # "publish" /\ (batch'[s] = batch[s] \/ batch'[s] = batch[s] \ {t})
      BY <2>2 DEF Batched
    <3>2. /\ Cardinality(batch'[s]) \in Nat
          /\ \/ pc[s] # "publish" /\ Cardinality(batch'[s]) = Cardinality(batch[s])
             \/ Cardinality(batch'[s]) = Cardinality(batch[s]) - 1
      <4>1. CASE batch'[s] = batch[s] \ {t}
        BY <1>3, <1>5, <2>3, <4>1
      <4>2. CASE batch'[s] = batch[s] /\ pc[s] # "publish"
        BY <1>3, <4>2
      <4>3. QED
        BY <2>2, <4>1, <4>2
    <3>3. Owed(s)' = Cardinality(batch'[s])
      BY <3>1, <3>2 DEF Owed
    <3>4. QED
      BY <1>3, <3>1, <3>2, <3>3 DEF Owed
  <2>6. Headroom(s)'
    BY <1>1, <1>3, <1>4, <2>1, <2>2, <2>4 DEF Headroom, Batched
  <2>7. \A e \in Event : active'[e] <= active[e]
    BY <2>1 DEF TypeOK
  <2>8. QED
    BY <1>1, <1>2, <2>6, <2>7, HeadroomFrame
<1>8. QED
  BY <1>6, <1>7

\* Every action keeps within the headroom, as long as reads succeed and the lock
\* excludes other instances.
LEMMA HeadroomStep ==
  ASSUME "redis_error" \notin Faults, "redis_retry" \notin Faults,
         TypeOK, TypeOK', LockInv, WithinHeadroom, [Next]_vars
  PROVE  WithinHeadroom'
<1> USE DEF redisVars, localVars, histVars
<1>a. \A e \in Event : active[e] \in Int /\ active[e] <= active[e]
  BY DEF TypeOK
<1>1. CASE UNCHANGED vars
  BY <1>1, <1>a, HeadroomFrame DEF vars
<1>2. ASSUME NEW t \in Ticket, NEW r \in Reply,
             \/ \E ms \in Score : ZAdd(t, ms, r)
             \/ HSetMeta(t, r) \/ Expire(t, r) \/ ExpireHash(t)
      PROVE  WithinHeadroom'
  BY <1>2, <1>a, HeadroomFrame DEF ZAdd, HSetMeta, Expire, ExpireHash
<1>3. ASSUME NEW t \in Ticket, NEW r \in Reply, QueueExit(t, r)
      PROVE  WithinHeadroom'
  <2>1. UNCHANGED <<pc, ev, lim, seen, batch, cancelled, capacity, ceiling>>
    BY <1>3 DEF QueueExit
  <2>2. active' = [active EXCEPT ![EventOf[t]] = IF Applied(r) THEN @ - 1 ELSE @]
    BY <1>3 DEF QueueExit
  <2>3. \A e \in Event : active'[e] <= active[e]
    BY <2>2 DEF TypeOK
  <2>4. QED
    BY <2>1, <2>3, HeadroomFrame
<1>4. ASSUME NEW e \in Event, NEW v \in Rates, SetRate(e, v)
      PROVE  WithinHeadroom'
  BY <1>4, <1>a, HeadroomFrame DEF SetRate
<1>5. ASSUME NEW e \in Event, NEW v \in Capacities, SetCapacity(e, v)
      PROVE  WithinHeadroom'
  <2>1. /\ UNCHANGED <<pc, ev, lim, seen, batch, cancelled, active>> /\ v \in Nat \ {0}
        /\ capacity' = [capacity EXCEPT ![e] = v]
        /\ ceiling' = [ceiling EXCEPT ![e] = IF @ = 0 THEN 0 ELSE Larger(@, v)]
    BY <1>5, ConstantsAssumption DEF SetCapacity
  <2>2. \A d \in Event : ceiling'[d] > 0 => ceiling[d] > 0 /\ ceiling[d] <= ceiling'[d]
    BY <2>1 DEF Larger, TypeOK
  <2>3. CeilingSound'
    BY <2>1 DEF WithinHeadroom, CeilingSound, Larger, TypeOK
  <2>4. ActiveWithinCapacity'
    BY <2>1, <2>2 DEF WithinHeadroom, ActiveWithinCapacity, TypeOK
  <2>5. ASSUME NEW s \in Scheduler
        PROVE  Headroom(s)'
    <3>1. ev[s] \in Event
      BY DEF TypeOK
    <3>2. QED
      BY <1>a, <2>1, <2>2, <3>1, HeadroomKept DEF WithinHeadroom
  <2>6. QED
    BY <2>3, <2>4, <2>5 DEF WithinHeadroom
<1>6. ASSUME NEW e \in Event, ExpireLock(e)
      PROVE  WithinHeadroom'
  BY <1>6, <1>a, HeadroomFrame DEF ExpireLock
<1>7. ASSUME NEW s \in Scheduler,
             \/ Crash(s) \/ Stop(s) \/ Sigterm(s) \/ Restart(s) \/ Scan(s)
             \/ \E e \in Event, r \in Reply : AcquireLock(s, e, r)
             \/ \E r \in Reply : GetRate(s, r) \/ PublishTick(s, r) \/ ReleaseLock(s, r)
      PROVE  WithinHeadroom'
  <2>1. UNCHANGED <<capacity, ceiling, active>>
    BY <1>7 DEF Crash, Stop, Down, Sigterm, Restart, Scan, AcquireLock, GetRate,
                PublishTick, ReleaseLock
  <2>2. \A q \in Scheduler \ {s} :
           /\ pc'[q] = pc[q] /\ ev'[q] = ev[q] /\ lim'[q] = lim[q] /\ seen'[q] = seen[q]
           /\ batch'[q] = batch[q] /\ cancelled'[q] = cancelled[q]
    BY <1>7 DEF Crash, Stop, Down, Sigterm, Restart, Scan, AcquireLock, GetRate,
                PublishTick, ReleaseLock, Goto, TypeOK
  <2>3. \/ UNCHANGED <<pc, ev, lim, seen, batch>> /\ (cancelled[s] => cancelled'[s])
        \/ pc'[s] \in {"idle", "down", "rate", "active", "tick", "release"}
    BY <1>7 DEF Crash, Stop, Down, Sigterm, Restart, Scan, AcquireLock, GetRate,
                PublishTick, ReleaseLock, Goto, TypeOK
  <2>4. pc'[s] \in {"idle", "down", "rate", "active", "tick", "release"} => Headroom(s)'
    BY DEF Headroom, Batched
  <2>5. QED
    BY <1>a, <2>1, <2>2, <2>3, <2>4, HeadroomFrame
<1>8. CASE Server
  BY <1>2, <1>3, <1>8 DEF Server
<1>9. CASE Admin
  BY <1>4, <1>5, <1>9 DEF Admin
<1>10. CASE Environment
  <2>1. ASSUME NEW t \in Ticket, ExpireHash(t)
        PROVE  WithinHeadroom'
    BY <2>1, <1>a, HeadroomFrame DEF ExpireHash
  <2>2. QED
    BY <1>6, <1>7, <1>10, <2>1 DEF Environment
<1>11. ASSUME NEW s \in Scheduler, Work(s)
       PROVE  WithinHeadroom'
  <2>1. CASE Tick(s)
    BY <1>7, <2>1, HeadroomTick DEF Tick
  <2>2. CASE Member(s)
    BY <2>2, HeadroomMember DEF Member
  <2>3. QED
    BY <1>7, <1>11, <2>1, <2>2 DEF Work
<1>12. QED
  BY <1>1, <1>8, <1>9, <1>10, <1>11 DEF Next

\* The instance with the lock never takes more slots than there are.
LEMMA WithinHeadroomCorrect ==
  ASSUME "redis_error" \notin Faults, "redis_retry" \notin Faults, "slow_tick" \notin Faults
  PROVE  Spec => []WithinHeadroom
<1>1. Init => WithinHeadroom /\ LockInv
  <2> SUFFICES ASSUME Init PROVE WithinHeadroom /\ LockInv
    OBVIOUS
  <2>1. \A e \in Event : active[e] = 0 /\ capacity[e] \in Nat /\ ceiling[e] = capacity[e]
    <3>1. Capacities \union {0} \subseteq Nat
      BY ConstantsAssumption
    <3>2. /\ capacity \in [Event -> Capacities \union {0}] /\ ceiling = capacity
          /\ active = [e \in Event |-> 0]
      BY DEF Init
    <3>3. QED
      BY <3>1, <3>2
  <2>2. \A s \in Scheduler : pc[s] = "idle"
    BY DEF Init
  <2>3. CeilingSound /\ ActiveWithinCapacity
    BY <2>1 DEF CeilingSound, ActiveWithinCapacity
  <2>4. \A s \in Scheduler : Headroom(s)
    BY <2>2 DEF Headroom, Batched
  <2>5. LockInv
    BY <2>2 DEF LockInv, InTick, TickSteps, Batched
  <2>6. QED
    BY <2>3, <2>4, <2>5 DEF WithinHeadroom
<1>2. TypeOK /\ TypeOK' /\ LockInv /\ WithinHeadroom /\ [Next]_vars
        => WithinHeadroom' /\ LockInv'
  BY HeadroomStep, LockStep
<1>3. QED
  BY <1>1, <1>2, TypeCorrect, PTL DEF Spec

\* The counter active:{event} never exceeds the largest capacity the event had
\* (tick, admitBatch's INCR), although it is read long before it is written and
\* exits, capacity changes, crashes and signals come in between; what it needs
\* is that reads succeed and no tick outlives its lock.
THEOREM ActiveWithinCapacityCorrect ==
  ASSUME "redis_error" \notin Faults, "redis_retry" \notin Faults, "slow_tick" \notin Faults
  PROVE  Spec => []ActiveWithinCapacity
<1>1. WithinHeadroom => ActiveWithinCapacity
  BY DEF WithinHeadroom
<1>2. QED
  BY <1>1, WithinHeadroomCorrect, PTL
------------------------------------------------------------------------------
(***************************************************************************)
(* The visitors.  When no command fails and no process stops, every        *)
(* visitor is stored, counted and told in this order, so that the counter  *)
(* lags behind the visitors by at most the one in work.                    *)
(***************************************************************************)

\* No command fails or is repeated, no process stops and a visitor reports at
\* most one exit; audits, events and signatures may fail.
Calm == /\ Faults \intersect {"redis_error", "redis_retry", "slow_tick", "crash", "sigterm"} = {}
        /\ MaxExits <= 1

Running == \A s \in Scheduler : ~cancelled[s]

OwnEvent == \A s \in Scheduler : \A t \in batch[s] : EventOf[t] = ev[s]

\* Between the HSET of the token and the INCR.
Uncounted == {"audit", "emit", "count"}

Progress ==
  /\ \A s \in Scheduler, t \in Ticket : Current(s, t) =>
       /\ pc[s] = "store" => effects[t] = {}
       /\ pc[s] \in Uncounted => /\ "stored" \in effects[t]
                                 /\ effects[t] \intersect {"counted", "published"} = {}
       /\ pc[s] = "publish" => {"stored", "counted"} \subseteq effects[t]
  /\ \A t \in Ticket : \/ effects[t] = {} \/ {"stored", "counted"} \subseteq effects[t]
                       \/ \E s \in Scheduler : Current(s, t) /\ pc[s] \in Uncounted

Counted(e) == {t \in Ticket : EventOf[t] = e /\ "counted" \in effects[t]}
Gone(e) == {t \in Ticket : EventOf[t] = e /\ exits[t] > 0}
Entrants(e) == {t \in Ticket : EventOf[t] = e /\ Admitted(t)}

Tally == /\ \A e \in Event : active[e] = Cardinality(Counted(e)) - Cardinality(Gone(e))
         /\ \A t \in Ticket : exits[t] > 0 => Admitted(t)

\* Without SIGTERM no context is cancelled.
LEMMA RunningStep ==
  ASSUME Calm, TypeOK, Running, [Next]_vars
  PROVE  Running'
<1> USE DEF redisVars, localVars, histVars
<1>1. CASE UNCHANGED vars \/ Server \/ Admin
  BY <1>1 DEF vars, Server, Admin, ZAdd, HSetMeta, Expire, QueueExit, SetRate, SetCapacity,
              Running
<1>2. CASE Environment
  BY <1>2 DEF Environment, ExpireHash, ExpireLock, Crash, Sigterm, Restart, Fault, Calm,
              Running
<1>3. ASSUME NEW s \in Scheduler, Work(s)
      PROVE  Running'
  <2>1. ~Stop(s)
    BY DEF Stop, Running
  <2>2. cancelled' = cancelled
    BY <1>3, <2>1 DEF Work, Tick, Member, Scan, AcquireLock, GetRate, GetActive,
                GetCapacity, ZPopMin, PublishTick, ReleaseLock, IssueToken, HSetToken,
                DynamoWrite, SqsEmit, Incr, PublishAdmitted
  <2>3. QED
    BY <2>2 DEF Running
<1>4. QED
  BY <1>1, <1>2, <1>3 DEF Next

\* A batch holds tickets of the event that is ticked.
LEMMA OwnEventStep ==
  ASSUME TypeOK, InHand, OwnEvent, [Next]_vars
  PROVE  OwnEvent'
<1> USE DEF redisVars, localVars, histVars
<1>1. CASE UNCHANGED vars \/ Server \/ Admin
  BY <1>1 DEF vars, Server, Admin, ZAdd, HSetMeta, Expire, QueueExit, SetRate, SetCapacity,
              OwnEvent
<1>2. CASE Environment
  <2>1. ev' = ev /\ \A s \in Scheduler : batch'[s] \subseteq batch[s]
    BY <1>2 DEF Environment, ExpireHash, ExpireLock, Crash, Down, Sigterm, Restart, TypeOK
  <2>2. QED
    BY <2>1 DEF OwnEvent
<1>3. ASSUME NEW s \in Scheduler, NEW e \in Event, NEW r \in Reply, AcquireLock(s, e, r)
      PROVE  OwnEvent'
  <2>1. /\ batch' = batch /\ \A q \in Scheduler \ {s} : ev'[q] = ev[q]
        /\ pc[s] = "idle"
    BY <1>3 DEF AcquireLock, TypeOK
  <2>2. batch[s] = {}
    BY <2>1 DEF InHand, Batched
  <2>3. QED
    BY <2>1, <2>2 DEF OwnEvent
<1>4. ASSUME NEW s \in Scheduler, NEW r \in Reply, ZPopMin(s, r)
      PROVE  OwnEvent'
  <2>1. /\ ev' = ev /\ \A q \in Scheduler \ {s} : batch'[q] = batch[q]
        /\ batch'[s] \subseteq queue[ev[s]] /\ ev[s] \in Event
    BY <1>4 DEF ZPopMin, PopMin, TypeOK
  <2>2. QED
    BY <2>1 DEF OwnEvent, InHand
<1>5. ASSUME NEW s \in Scheduler,
             \/ Stop(s) \/ Scan(s) \/ Member(s)
             \/ \E r \in Reply : \/ GetRate(s, r) \/ GetActive(s, r) \/ GetCapacity(s, r)
                                 \/ PublishTick(s, r) \/ ReleaseLock(s, r)
      PROVE  OwnEvent'
  <2>1. ev' = ev /\ \A q \in Scheduler : batch'[q] \subseteq batch[q]
    BY <1>5 DEF Member, Stop, Down, Scan, GetRate, GetActive, GetCapacity, PublishTick,
                ReleaseLock, IssueToken, HSetToken, DynamoWrite, SqsEmit, Incr,
                PublishAdmitted, NextMember, TypeOK
  <2>2. QED
    BY <2>1 DEF OwnEvent
<1>6. QED
  BY <1>1, <1>2, <1>3, <1>4, <1>5 DEF Next, Work, Tick

\* A step that does nothing for a ticket and takes no member past a command.
LEMMA ProgressFrame ==
  ASSUME TypeOK, InHand, Progress, [Next]_vars, effects' = effects,
         \A s \in Scheduler : \/ batch'[s] = batch[s] /\ pc'[s] = pc[s]
                              \/ /\ pc[s] \notin Uncounted
                                 /\ pc'[s] \notin Uncounted \union {"store", "publish"}
  PROVE  Progress'
<1>1. ASSUME NEW s \in Scheduler, NEW t \in Ticket, Current(s, t)'
      PROVE  /\ pc'[s] = "store" => effects'[t] = {}
             /\ pc'[s] \in Uncounted => /\ "stored" \in effects'[t]
                                        /\ effects'[t] \intersect {"counted", "published"} = {}
             /\ pc'[s] = "publish" => {"stored", "counted"} \subseteq effects'[t]
  <2>1. CASE batch'[s] = batch[s] /\ pc'[s] = pc[s]
    <3>1. Current(s, t)
      BY <1>1, <2>1, CurrentKept
    <3>2. QED
      BY <2>1, <3>1 DEF Progress
  <2>2. CASE pc'[s] \notin Uncounted \union {"store", "publish"}
    BY <2>2
  <2>3. QED
    BY <2>1, <2>2
<1>2. ASSUME NEW t \in Ticket, NEW s \in Scheduler, Current(s, t), pc[s] \in Uncounted
      PROVE  Current(s, t)' /\ pc'[s] \in Uncounted
  BY <1>2, CurrentKept
<1>3. QED
  BY <1>1, <1>2 DEF Progress

\* The body of admitBatch's loop: what the command of s does for its member t.
LEMMA ProgressDone ==
  ASSUME TypeOK, InHand, Custody, Progress, [Next]_vars,
         NEW s \in Scheduler, NEW t \in Ticket, Current(s, t),
         NEW what \in Effect, NEW r, Done(t, what, r),
         pc[s] \in Batched \ {"issue"},
         \A q \in Scheduler \ {s} : batch'[q] = batch[q] /\ pc'[q] = pc[q],
         \/ /\ batch'[s] = batch[s] /\ pc'[s] \in Uncounted
            /\ "stored" \in effects'[t] /\ effects'[t] \intersect {"counted", "published"} = {}
         \/ /\ batch'[s] = batch[s] /\ pc'[s] = "publish"
            /\ {"stored", "counted"} \subseteq effects'[t]
         \/ /\ pc'[s] \in {"issue", "tick"}
            /\ {"stored", "counted"} \subseteq effects'[t]
  PROVE  Progress'
<1>1. \A u \in Ticket \ {t} : effects'[u] = effects[u]
  BY DEF Done, TypeOK
<1>2. ASSUME NEW q \in Scheduler, NEW u \in Ticket, Current(q, u)'
      PROVE  /\ pc'[q] = "store" => effects'[u] = {}
             /\ pc'[q] \in Uncounted => /\ "stored" \in effects'[u]
                                        /\ effects'[u] \intersect {"counted", "published"} = {}
             /\ pc'[q] = "publish" => {"stored", "counted"} \subseteq effects'[u]
  <2>1. CASE q = s /\ batch'[s] = batch[s]
    <3>1. u = t
      BY <1>2, <2>1, CurrentKept, OneFirst DEF Current, TypeOK
    <3>2. QED
      BY <2>1, <3>1 DEF Uncounted
  <2>2. CASE q = s /\ pc'[s] \in {"issue", "tick"}
    BY <2>2 DEF Uncounted
  <2>3. CASE q # s
    <3>1. Current(q, u) /\ pc'[q] = pc[q] /\ u \in batch[q] /\ t \in batch[s]
      BY <1>2, <2>3, CurrentKept DEF Current, IsFirst
    <3>2. u # t
      BY <2>3, <3>1 DEF Custody, OneBatch
    <3>3. QED
      BY <1>1, <3>1, <3>2 DEF Progress
  <2>4. QED
    BY <2>1, <2>2, <2>3
<1>3. ASSUME NEW u \in Ticket
      PROVE  \/ effects'[u] = {} \/ {"stored", "counted"} \subseteq effects'[u]
             \/ \E q \in Scheduler : Current(q, u)' /\ pc'[q] \in Uncounted
  <2>1. CASE u = t
    <3>1. batch'[s] = batch[s] => Current(s, t)'
      BY CurrentKept
    <3>2. QED
      BY <2>1, <3>1
  <2>2. CASE u # t
    <3>1. ASSUME NEW q \in Scheduler, Current(q, u), pc[q] \in Uncounted
          PROVE  Current(q, u)' /\ pc'[q] \in Uncounted
      <4>1. q # s
        BY <2>2, <3>1, OneFirst DEF Current, TypeOK
      <4>2. QED
        BY <3>1, <4>1, CurrentKept
    <3>2. QED
      BY <1>1, <2>2, <3>1 DEF Progress
  <2>3. QED
    BY <2>1, <2>2
<1>4. QED
  BY <1>2, <1>3 DEF Progress

\* Sets of tickets are finite.
LEMMA TicketsFinite ==
  ASSUME NEW S \in SUBSET Ticket
  PROVE  IsFiniteSet(S) /\ Cardinality(S) \in Nat
BY ConstantsAssumption, FS_Subset, FS_CardinalityType

\* A step that counts nobody and lets nobody go.
LEMMA TallyFrame ==
  ASSUME Tally, active' = active, exits' = exits,
         \A t \in Ticket : /\ "counted" \in effects'[t] <=> "counted" \in effects[t]
                           /\ effects[t] \subseteq effects'[t]
  PROVE  Tally'
<1>1. \A e \in Event : Counted(e)' = Counted(e) /\ Gone(e)' = Gone(e)
  BY DEF Counted, Gone
<1>2. \A t \in Ticket : Admitted(t) => Admitted(t)'
  BY DEF Admitted
<1>3. QED
  BY <1>1, <1>2 DEF Tally

\* INCR counts one more ticket of the event.
LEMMA TallyIncr ==
  ASSUME TypeOK, Tally, NEW t \in Ticket, "counted" \notin effects[t],
         effects' = [effects EXCEPT ![t] = @ \union {"counted"}], exits' = exits,
         active' = [active EXCEPT ![EventOf[t]] = @ + 1]
  PROVE  Tally'
<1>1. EventOf[t] \in Event
  BY ConstantsAssumption
<1>2. /\ effects'[t] = effects[t] \union {"counted"}
      /\ \A u \in Ticket \ {t} : effects'[u] = effects[u]
  BY DEF TypeOK
<1>3. \A e \in Event : Gone(e)' = Gone(e)
  BY DEF Gone
<1>4. Counted(EventOf[t])' = Counted(EventOf[t]) \union {t} /\ t \notin Counted(EventOf[t])
  BY <1>2 DEF Counted
<1>5. \A e \in Event \ {EventOf[t]} : Counted(e)' = Counted(e)
  BY <1>2 DEF Counted
<1>6. Cardinality(Counted(EventOf[t])') = Cardinality(Counted(EventOf[t])) + 1
  BY <1>4, TicketsFinite, FS_AddElement DEF Counted
<1>7. \A e \in Event : Cardinality(Counted(e)) \in Nat /\ Cardinality(Gone(e)) \in Nat
  BY TicketsFinite DEF Counted, Gone
<1>8. \A e \in Event : active'[e] = Cardinality(Counted(e)') - Cardinality(Gone(e)')
  <2> SUFFICES ASSUME NEW e \in Event
               PROVE  active'[e] = Cardinality(Counted(e)') - Cardinality(Gone(e)')
    OBVIOUS
  <2>1. active[e] = Cardinality(Counted(e)) - Cardinality(Gone(e))
    BY DEF Tally
  <2>2. CASE e = EventOf[t]
    <3>1. active'[e] = active[e] + 1
      BY <2>2 DEF TypeOK
    <3>2. QED
      BY <1>3, <1>6, <1>7, <2>1, <2>2, <3>1
  <2>3. CASE e # EventOf[t]
    BY <1>3, <1>5, <2>1, <2>3 DEF TypeOK
  <2>4. QED
    BY <2>2, <2>3
<1>9. \A u \in Ticket : exits'[u] > 0 => Admitted(u)'
  BY <1>2 DEF Tally, Admitted
<1>10. QED
  BY <1>8, <1>9 DEF Tally

\* QueueExit's DECR: the first exit of an admitted visitor.
LEMMA TallyExit ==
  ASSUME TypeOK, Tally, NEW t \in Ticket, Admitted(t), exits[t] = 0,
         exits' = [exits EXCEPT ![t] = @ + 1], effects' = effects,
         active' = [active EXCEPT ![EventOf[t]] = @ - 1]
  PROVE  Tally'
<1>1. EventOf[t] \in Event
  BY ConstantsAssumption
<1>2. exits'[t] = 1 /\ \A u \in Ticket \ {t} : exits'[u] = exits[u]
  BY DEF TypeOK
<1>3. \A e \in Event : Counted(e)' = Counted(e)
  BY DEF Counted
<1>4. Gone(EventOf[t])' = Gone(EventOf[t]) \union {t} /\ t \notin Gone(EventOf[t])
  BY <1>2 DEF Gone
<1>5. \A e \in Event \ {EventOf[t]} : Gone(e)' = Gone(e)
  BY <1>2 DEF Gone
<1>6. Cardinality(Gone(EventOf[t])') = Cardinality(Gone(EventOf[t])) + 1
  BY <1>4, TicketsFinite, FS_AddElement DEF Gone
<1>7. \A e \in Event : Cardinality(Counted(e)) \in Nat /\ Cardinality(Gone(e)) \in Nat
  BY TicketsFinite DEF Counted, Gone
<1>8. \A e \in Event : active'[e] = Cardinality(Counted(e)') - Cardinality(Gone(e)')
  <2> SUFFICES ASSUME NEW e \in Event
               PROVE  active'[e] = Cardinality(Counted(e)') - Cardinality(Gone(e)')
    OBVIOUS
  <2>1. active[e] = Cardinality(Counted(e)) - Cardinality(Gone(e))
    BY DEF Tally
  <2>2. CASE e = EventOf[t]
    <3>1. active'[e] = active[e] - 1
      BY <2>2 DEF TypeOK
    <3>2. QED
      BY <1>3, <1>6, <1>7, <2>1, <2>2, <3>1
  <2>3. CASE e # EventOf[t]
    BY <1>3, <1>5, <2>1, <2>3 DEF TypeOK
  <2>4. QED
    BY <2>2, <2>3
<1>9. \A u \in Ticket : exits'[u] > 0 => Admitted(u)'
  BY <1>2 DEF Tally, Admitted
<1>10. QED
  BY <1>8, <1>9 DEF Tally

\* On a calm day every Redis command succeeds.
LEMMA CalmRedis ==
  ASSUME Calm, NEW d, ~d, NEW r, Redis(d, r)
  PROVE  r = "ok"
BY NoRedisFault DEF Calm

\* Every action keeps the members in order and the counter exact.
LEMMA TallyStep ==
  ASSUME Calm, TypeOK, InHand, Custody, AuditTrailSound, Running, OwnEvent, Progress, Tally,
         [Next]_vars
  PROVE  Progress' /\ Tally'
<1> USE DEF redisVars, localVars, histVars
<1>1. ASSUME effects' = effects, exits' = exits, active' = active
      PROVE  Tally'
  BY <1>1, TallyFrame
<1>2. CASE UNCHANGED vars
  BY <1>1, <1>2, ProgressFrame DEF vars
<1>3. ASSUME NEW t \in Ticket, NEW r \in Reply,
             (\E ms \in Score : ZAdd(t, ms, r)) \/ HSetMeta(t, r) \/ Expire(t, r)
      PROVE  Progress' /\ Tally'
  BY <1>1, <1>3, ProgressFrame DEF ZAdd, HSetMeta, Expire
<1>4. ASSUME NEW t \in Ticket, NEW r \in Reply, QueueExit(t, r)
      PROVE  Progress' /\ Tally'
  <2>1. r = "ok"
    BY <1>4, CalmRedis DEF QueueExit
  <2>2. /\ Admitted(t) /\ exits[t] = 0 /\ effects' = effects /\ batch' = batch /\ pc' = pc
        /\ exits' = [exits EXCEPT ![t] = @ + 1]
        /\ active' = [active EXCEPT ![EventOf[t]] = @ - 1]
    <3>1. exits[t] = 0
      BY <1>4, ConstantsAssumption DEF QueueExit, Calm, TypeOK
    <3>2. QED
      BY <1>4, <2>1, <3>1 DEF QueueExit, Applied
  <2>3. QED
    BY <2>2, ProgressFrame, TallyExit
<1>5. CASE Admin
  BY <1>1, <1>5, ProgressFrame DEF Admin, SetRate, SetCapacity
<1>6. CASE Environment
  <2>1. /\ effects' = effects /\ exits' = exits /\ active' = active
        /\ \A s \in Scheduler : \/ batch'[s] = batch[s] /\ pc'[s] = pc[s]
                                \/ pc[s] = "down" /\ pc'[s] = "idle"
    BY <1>6 DEF Environment, ExpireHash, ExpireLock, Crash, Sigterm, Restart, Fault, Calm,
                Goto, TypeOK
  <2>2. QED
    BY <1>1, <2>1, ProgressFrame DEF Uncounted
<1>7. ASSUME NEW s \in Scheduler,
             \/ Stop(s) \/ Scan(s)
             \/ \E e \in Event, r \in Reply : AcquireLock(s, e, r)
             \/ \E r \in Reply : \/ GetRate(s, r) \/ GetActive(s, r) \/ GetCapacity(s, r)
                                 \/ ZPopMin(s, r) \/ PublishTick(s, r) \/ ReleaseLock(s, r)
      PROVE  Progress' /\ Tally'
  <2>1. effects' = effects /\ exits' = exits /\ active' = active
    BY <1>7 DEF Stop, Down, Scan, AcquireLock, GetRate, GetActive, GetCapacity, ZPopMin,
                PublishTick, ReleaseLock
  <2>2. \A q \in Scheduler \ {s} : batch'[q] = batch[q] /\ pc'[q] = pc[q]
    BY <1>7 DEF Stop, Down, Scan, AcquireLock, GetRate, GetActive, GetCapacity, ZPopMin,
                PublishTick, ReleaseLock, Goto, TypeOK
  <2>3. \/ batch' = batch /\ pc' = pc
        \/ pc[s] \notin Uncounted /\ pc'[s] \notin Uncounted \union {"store", "publish"}
    BY <1>7 DEF Stop, Down, Scan, AcquireLock, GetRate, GetActive, GetCapacity, ZPopMin,
                PublishTick, ReleaseLock, Goto, TypeOK, Uncounted
  <2>4. QED
    BY <1>1, <2>1, <2>2, <2>3, ProgressFrame
<1>8. ASSUME NEW s \in Scheduler, NEW t \in Ticket, IssueToken(s, t)
      PROVE  Progress' /\ Tally'
  <2>1. /\ pc[s] = "issue" /\ Current(s, t) /\ t \in batch[s]
        /\ effects' = effects /\ exits' = exits /\ active' = active
    BY <1>8 DEF IssueToken, Current, IsFirst
  <2>2. CASE NextMember(s, t)
    <3>1. \A q \in Scheduler : \/ batch'[q] = batch[q] /\ pc'[q] = pc[q]
                               \/ q = s /\ pc'[s] \in {"tick", "issue"}
      BY <2>2 DEF NextMember, Goto, TypeOK
    <3>2. QED
      BY <1>1, <2>1, <3>1, ProgressFrame DEF Uncounted
  <2>3. CASE Goto(s, "store") /\ batch' = batch
    <3>1. pc'[s] = "store" /\ \A q \in Scheduler \ {s} : pc'[q] = pc[q]
      BY <2>3 DEF Goto, TypeOK
    <3>2. effects[t] = {}
      <4>1. tokens[t] = 0
        BY <2>1 DEF Custody, BatchCustody, TypeOK
      <4>2. QED
        BY <4>1 DEF AuditTrailSound
    <3>3. ASSUME NEW q \in Scheduler, NEW u \in Ticket, Current(q, u)'
          PROVE  /\ pc'[q] = "store" => effects'[u] = {}
                 /\ pc'[q] \in Uncounted => /\ "stored" \in effects'[u]
                                            /\ effects'[u] \intersect {"counted", "published"} = {}
                 /\ pc'[q] = "publish" => {"stored", "counted"} \subseteq effects'[u]
      <4>1. Current(q, u)
        BY <2>3, <3>3, CurrentKept
      <4>2. CASE q = s
        <5>1. u = t
          BY <2>1, <4>1, <4>2, OneFirst DEF Current, TypeOK
        <5>2. QED
          BY <2>1, <3>1, <3>2, <4>2, <5>1 DEF Uncounted
      <4>3. CASE q # s
        BY <2>1, <3>1, <4>1, <4>3 DEF Progress
      <4>4. QED
        BY <4>2, <4>3
    <3>4. ASSUME NEW u \in Ticket, NEW q \in Scheduler, Current(q, u), pc[q] \in Uncounted
          PROVE  Current(q, u)' /\ pc'[q] \in Uncounted
      <4>1. q # s
        BY <2>1, <3>4 DEF Uncounted
      <4>2. QED
        BY <2>3, <3>1, <3>4, <4>1, CurrentKept
    <3>5. Progress'
      BY <2>1, <3>3, <3>4 DEF Progress
    <3>6. QED
      BY <1>1, <2>1, <3>5
  <2>4. QED
    BY <1>8, <2>2, <2>3 DEF IssueToken
<1>9. ASSUME NEW s \in Scheduler, NEW t \in Ticket, NEW r \in Reply,
             HSetToken(s, t, r) \/ DynamoWrite(s, t, r) \/ SqsEmit(s, t, r)
      PROVE  Progress' /\ Tally'
  <2>1. PICK what \in {"stored", "audited", "emitted"} :
          /\ Done(t, what, r) /\ Current(s, t) /\ batch' = batch
          /\ exits' = exits /\ active' = active
          /\ \/ what = "stored" /\ pc[s] = "store" /\ HSetToken(s, t, r)
             \/ what # "stored" /\ pc[s] \in {"audit", "emit"}
          /\ \E step \in Uncounted : pc' = [pc EXCEPT ![s] = step]
    <3>1. CASE HSetToken(s, t, r)
      <4>1. \E step \in Uncounted : pc' = [pc EXCEPT ![s] = step]
        <5>1. r = "ok"
          BY <3>1, CalmRedis DEF HSetToken, Running
        <5>2. QED
          BY <3>1, <5>1 DEF HSetToken, AfterStore, Goto, Uncounted
      <4>2. QED
        BY <3>1, <4>1 DEF HSetToken
    <3>2. CASE DynamoWrite(s, t, r)
      BY <3>2 DEF DynamoWrite, Goto, Uncounted
    <3>3. CASE SqsEmit(s, t, r)
      BY <3>3 DEF SqsEmit, Goto, Uncounted
    <3>4. QED
      BY <1>9, <3>1, <3>2, <3>3
  <2>2. /\ \A u \in Ticket : effects[u] \subseteq effects'[u]
        /\ \A u \in Ticket : "counted" \in effects'[u] <=> "counted" \in effects[u]
        /\ effects'[t] \subseteq effects[t] \union {what}
    BY <2>1 DEF Done, TypeOK
  <2>3. "stored" \in effects'[t] /\ effects'[t] \intersect {"counted", "published"} = {}
    <3>1. CASE what = "stored" /\ pc[s] = "store" /\ HSetToken(s, t, r)
      <4>1. r = "ok" /\ effects[t] = {}
        BY <2>1, <3>1, CalmRedis DEF HSetToken, Running, Progress
      <4>2. effects'[t] = {"stored"}
        BY <2>1, <3>1, <4>1 DEF Done, Applied, TypeOK
      <4>3. QED
        BY <4>2
    <3>2. CASE what # "stored" /\ pc[s] \in {"audit", "emit"}
      BY <2>1, <2>2, <3>2 DEF Progress, Uncounted
    <3>3. QED
      BY <2>1, <3>1, <3>2
  <2>4. /\ pc'[s] \in Uncounted /\ \A q \in Scheduler \ {s} : pc'[q] = pc[q]
        /\ pc[s] \in Batched \ {"issue"} /\ what \in Effect
    BY <2>1 DEF TypeOK, Batched, Effect
  <2>5. Progress'
    BY <2>1, <2>3, <2>4, ProgressDone
  <2>6. Tally'
    BY <2>1, <2>2, TallyFrame
  <2>7. QED
    BY <2>5, <2>6
<1>10. ASSUME NEW s \in Scheduler, NEW t \in Ticket, NEW r \in Reply, Incr(s, t, r)
       PROVE  Progress' /\ Tally'
  <2>1. r = "ok"
    BY <1>10, CalmRedis DEF Incr, Running
  <2>2. /\ pc[s] = "count" /\ Current(s, t) /\ t \in batch[s] /\ batch' = batch /\ exits' = exits
        /\ active' = [active EXCEPT ![ev[s]] = @ + 1]
        /\ Done(t, "counted", r) /\ pc' = [pc EXCEPT ![s] = "publish"]
    BY <1>10, <2>1 DEF Incr, Goto, Applied, Current, IsFirst
  <2>3. effects' = [effects EXCEPT ![t] = @ \union {"counted"}]
    BY <2>1, <2>2 DEF Done, Applied
  <2>4. "stored" \in effects[t] /\ "counted" \notin effects[t] /\ EventOf[t] = ev[s]
    BY <2>2 DEF Progress, Uncounted, OwnEvent
  <2>5. {"stored", "counted"} \subseteq effects'[t]
    BY <2>3, <2>4 DEF TypeOK
  <2>6. pc'[s] = "publish" /\ \A q \in Scheduler \ {s} : pc'[q] = pc[q]
    BY <2>2 DEF TypeOK
  <2>7. Progress'
    BY <2>2, <2>5, <2>6, ProgressDone DEF Batched, Effect
  <2>8. QED
    BY <2>2, <2>3, <2>4, <2>7, TallyIncr
<1>11. ASSUME NEW s \in Scheduler, NEW t \in Ticket, NEW r \in Reply, PublishAdmitted(s, t, r)
       PROVE  Progress' /\ Tally'
  <2>1. r = "ok"
    BY <1>11, CalmRedis DEF PublishAdmitted, Running
  <2>2. /\ pc[s] = "publish" /\ Current(s, t) /\ exits' = exits /\ active' = active
        /\ Done(t, "published", r) /\ NextMember(s, t)
    BY <1>11, <2>1 DEF PublishAdmitted
  <2>3. /\ \A u \in Ticket : effects[u] \subseteq effects'[u]
        /\ \A u \in Ticket : "counted" \in effects'[u] <=> "counted" \in effects[u]
    BY <2>2 DEF Done, TypeOK
  <2>4. {"stored", "counted"} \subseteq effects'[t]
    BY <2>2, <2>3 DEF Progress
  <2>5. /\ pc'[s] \in {"issue", "tick"}
        /\ \A q \in Scheduler \ {s} : batch'[q] = batch[q] /\ pc'[q] = pc[q]
    BY <2>2 DEF NextMember, Goto, TypeOK
  <2>6. Progress'
    BY <2>2, <2>4, <2>5, ProgressDone DEF Batched, Effect
  <2>7. QED
    BY <2>2, <2>3, <2>6, TallyFrame
<1>12. CASE Server
  BY <1>3, <1>4, <1>12 DEF Server
<1>13. ASSUME NEW s \in Scheduler, Work(s)
       PROVE  Progress' /\ Tally'
  <2>1. CASE Tick(s)
    BY <1>7, <2>1 DEF Tick
  <2>2. CASE Member(s)
    BY <1>8, <1>9, <1>10, <1>11, <2>2 DEF Member
  <2>3. QED
    BY <1>7, <1>13, <2>1, <2>2 DEF Work
<1>14. QED
  BY <1>2, <1>5, <1>6, <1>12, <1>13 DEF Next

\* The counter is exact at every moment, for the visitors that are counted.
LEMMA TallyCorrect ==
  ASSUME Calm
  PROVE  Spec => [](OwnEvent /\ Progress /\ Tally)
<1>1. Init => Running /\ OwnEvent /\ Progress /\ Tally
  <2> SUFFICES ASSUME Init PROVE Running /\ OwnEvent /\ Progress /\ Tally
    OBVIOUS
  <2>1. Running
    BY DEF Init, Running
  <2>2. OwnEvent
    BY DEF Init, OwnEvent
  <2>3. \A t \in Ticket : effects[t] = {} /\ exits[t] = 0
    BY DEF Init
  <2>4. Progress
    BY <2>3 DEF Init, Progress, Current, IsFirst
  <2>5. \A e \in Event : active[e] = 0 /\ Counted(e) = {} /\ Gone(e) = {}
    BY <2>3 DEF Init, Counted, Gone
  <2>6. Tally
    BY <2>3, <2>5, FS_EmptySet DEF Tally
  <2>7. QED
    BY <2>1, <2>2, <2>4, <2>6
<1>2. /\ TypeOK /\ InHand /\ Custody /\ AuditTrailSound
      /\ Running /\ OwnEvent /\ Progress /\ Tally /\ [Next]_vars
      => Running' /\ OwnEvent' /\ Progress' /\ Tally'
  BY RunningStep, OwnEventStep, TallyStep
<1>3. "redis_retry" \notin Faults
  BY DEF Calm
<1>4. Spec => []Custody
  BY <1>3, CustodyCorrect
<1>5. QED
  BY <1>1, <1>2, <1>4, TypeCorrect, InHandCorrect, AuditTrailCorrect, PTL DEF Spec

\* A visitor holds a token once it is counted, or one command earlier.
LEMMA EntrantsCounted ==
  ASSUME TypeOK, Progress, NEW e \in Event
  PROVE  /\ Counted(e) \subseteq Entrants(e)
         /\ \A t \in Entrants(e) \ Counted(e) :
              \E s \in Scheduler : Current(s, t) /\ pc[s] \in Uncounted
<1>1. ASSUME NEW t \in Counted(e)
      PROVE  t \in Entrants(e)
  <2>1. t \in Ticket /\ EventOf[t] = e /\ "counted" \in effects[t]
    BY DEF Counted
  <2>2. {"stored", "counted"} \subseteq effects[t]
    BY <2>1 DEF Progress
  <2>3. QED
    BY <2>1, <2>2 DEF Entrants, Admitted
<1>2. ASSUME NEW t \in Entrants(e) \ Counted(e)
      PROVE  \E s \in Scheduler : Current(s, t) /\ pc[s] \in Uncounted
  <2>1. t \in Ticket /\ effects[t] # {} /\ "counted" \notin effects[t]
    BY DEF Entrants, Counted, Admitted
  <2>2. QED
    BY <2>1 DEF Progress
<1>3. QED
  BY <1>1, <1>2

\* Between batches, active is the number of admitted visitors less the exits.
ActiveIsExact ==
  \A e \in Event :
    (\A s \in Scheduler : InTick(s, e) => pc[s] \notin Batched) =>
      active[e] = Cardinality(Entrants(e)) - Cardinality(Gone(e))

\* Between batches the counter active:{event} is exactly the number of admitted
\* visitors less the exits reported (admitBatch's INCR, QueueExit's DECR), on a
\* day on which no command fails, no process stops and nobody exits twice.
THEOREM ActiveIsExactCorrect ==
  ASSUME Calm
  PROVE  Spec => []ActiveIsExact
<1>1. TypeOK /\ OwnEvent /\ Progress /\ Tally => ActiveIsExact
  <2> SUFFICES ASSUME TypeOK, OwnEvent, Progress, Tally, NEW e \in Event,
                      \A s \in Scheduler : InTick(s, e) => pc[s] \notin Batched
               PROVE  active[e] = Cardinality(Entrants(e)) - Cardinality(Gone(e))
    BY DEF ActiveIsExact
  <2>1. Entrants(e) = Counted(e)
    <3> SUFFICES ASSUME NEW t \in Entrants(e), t \notin Counted(e)
                 PROVE  FALSE
      BY EntrantsCounted
    <3>1. PICK s \in Scheduler : Current(s, t) /\ pc[s] \in Uncounted
      BY EntrantsCounted
    <3>2. ev[s] = e
      BY <3>1 DEF Current, IsFirst, OwnEvent, Entrants
    <3>3. QED
      BY <3>1, <3>2 DEF InTick, TickSteps, Batched, Uncounted
  <2>2. QED
    BY <2>1 DEF Tally
<1>2. QED
  BY <1>1, TypeCorrect, TallyCorrect, PTL

\* The visitors inside never outnumber the largest capacity the event had.
CrowdWithinCapacity ==
  \A e \in Event : ceiling[e] > 0 => Cardinality(Inside(e)) <= ceiling[e]

\* The visitors inside never outnumber the largest capacity the event had
\* (tick's headroom, admitBatch, QueueExit): the one visitor who may be inside
\* and not counted yet is among the slots its batch keeps.
THEOREM CrowdWithinCapacityCorrect ==
  ASSUME Calm
  PROVE  Spec => []CrowdWithinCapacity
<1>1. TypeOK /\ LockInv /\ WithinHeadroom /\ OwnEvent /\ Progress /\ Tally
        => CrowdWithinCapacity
  <2> SUFFICES ASSUME TypeOK, LockInv, WithinHeadroom, OwnEvent, Progress, Tally,
                      NEW e \in Event, ceiling[e] > 0
               PROVE  Cardinality(Inside(e)) <= ceiling[e]
    BY DEF CrowdWithinCapacity
  <2>1. Gone(e) \subseteq Entrants(e) /\ Inside(e) = Entrants(e) \ Gone(e)
    BY DEF Gone, Entrants, Inside, Tally, TypeOK
  <2>2. /\ IsFiniteSet(Entrants(e)) /\ Cardinality(Entrants(e)) \in Nat
        /\ IsFiniteSet(Counted(e)) /\ Cardinality(Counted(e)) \in Nat
        /\ Cardinality(Gone(e)) \in Nat
    BY TicketsFinite DEF Entrants, Gone, Counted
  <2>3. Cardinality(Inside(e)) = Cardinality(Entrants(e)) - Cardinality(Gone(e))
    <3>1. Entrants(e) \intersect Gone(e) = Gone(e)
      BY <2>1
    <3>2. QED
      BY <2>1, <2>2, <3>1, FS_Difference
  <2>4. active[e] = Cardinality(Counted(e)) - Cardinality(Gone(e))
    BY DEF Tally
  <2>5. active[e] <= ceiling[e] /\ active[e] \in Int /\ ceiling[e] \in Nat
    BY DEF WithinHeadroom, ActiveWithinCapacity, TypeOK
  <2>6. CASE Entrants(e) = Counted(e)
    BY <2>2, <2>3, <2>4, <2>5, <2>6
  <2>7. CASE Entrants(e) # Counted(e)
    <3>1. PICK t \in Entrants(e) \ Counted(e) : TRUE
      BY <2>7, EntrantsCounted
    <3>2. PICK s \in Scheduler : Current(s, t) /\ pc[s] \in Uncounted
      BY <3>1, EntrantsCounted
    <3>3. t \in batch[s] /\ t \in Ticket /\ ev[s] = e /\ InTick(s, e)
      BY <3>1, <3>2 DEF Current, IsFirst, OwnEvent, Entrants, InTick, TickSteps, Batched, Uncounted
    <3>4. ASSUME NEW u \in Entrants(e) \ Counted(e)
          PROVE  u = t
      <4>1. PICK q \in Scheduler : Current(q, u) /\ pc[q] \in Uncounted
        BY EntrantsCounted
      <4>2. ev[q] = e /\ InTick(q, e)
        BY <3>4, <4>1 DEF Current, IsFirst, OwnEvent, Entrants, InTick, TickSteps, Batched, Uncounted
      <4>3. q = s
        BY <3>3, <4>2 DEF LockInv
      <4>4. QED
        BY <3>2, <4>1, <4>3, OneFirst DEF Current, TypeOK
    <3>5. Entrants(e) = Counted(e) \union {t} /\ t \notin Counted(e)
      BY <3>1, <3>4, EntrantsCounted
    <3>6. Cardinality(Entrants(e)) = Cardinality(Counted(e)) + 1
      BY <2>2, <3>5, FS_AddElement
    <3>7. active[e] + Owed(s) <= ceiling[e]
      BY <3>2, <3>3 DEF WithinHeadroom, Headroom, Uncounted, Batched
    <3>8. Owed(s) = Cardinality(batch[s]) /\ Cardinality(batch[s]) \in Nat
      BY <3>2, BatchFinite DEF Owed, Uncounted
    <3>9. Cardinality(batch[s]) >= 1
      BY <3>3, <3>8, BatchFinite, FS_EmptySet
    <3>10. QED
      BY <2>2, <2>3, <2>4, <2>5, <3>6, <3>7, <3>8, <3>9
  <2>8. QED
    BY <2>6, <2>7
<1>2. /\ "redis_error" \notin Faults /\ "redis_retry" \notin Faults /\ "slow_tick" \notin Faults
  BY DEF Calm
<1>3. Spec => []WithinHeadroom
  BY <1>2, WithinHeadroomCorrect
<1>4. Init => LockInv
  BY DEF Init, LockInv, InTick, TickSteps, Batched
<1>5. TypeOK /\ LockInv /\ [Next]_vars => LockInv'
  BY <1>2, LockStep
<1>6. QED
  BY <1>1, <1>3, <1>4, <1>5, TypeCorrect, TallyCorrect, PTL DEF Spec
==============================================================================
