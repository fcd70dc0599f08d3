------------------------------ MODULE LossProofs ------------------------------
(***************************************************************************)
(* What a fault can cost, for any number of events, tickets, scheduler     *)
(* instances and faults: at most one batch of popped tickets is lost, and  *)
(* at most one batch of visitors is let in beyond the capacity.            *)
(***************************************************************************)
EXTENDS CapacityProofs

\* The largest rate is a rate.
LEMMA MaxRateBound ==
  /\ MaxRate \in Nat /\ DefaultAdmitRate <= MaxRate
  /\ \A v \in Rates : v <= MaxRate
<1>1. /\ MaxRate \in Rates \union {DefaultAdmitRate}
      /\ \A v \in Rates \union {DefaultAdmitRate} : v <= MaxRate
  BY RatesBounded DEF MaxRate
<1>2. QED
  BY <1>1, ConstantsAssumption

\* A tick asks for at most MaxRate tickets and holds no more.
SmallBatches == /\ \A e \in Event : rate[e] \in Rates \union {0}
                /\ \A s \in Scheduler : /\ lim[s] <= MaxRate
                                        /\ Cardinality(batch[s]) <= MaxRate

\* A step that sets no rate and fills no batch.
LEMMA SmallFrame ==
  ASSUME TypeOK, SmallBatches, rate' = rate,
         \A s \in Scheduler : /\ lim'[s] = lim[s] \/ lim'[s] = 0
                              /\ batch'[s] \subseteq batch[s]
  PROVE  SmallBatches'
<1>1. ASSUME NEW s \in Scheduler
      PROVE  lim'[s] <= MaxRate /\ Cardinality(batch'[s]) <= MaxRate
  <2>1. lim'[s] <= MaxRate
    BY MaxRateBound DEF SmallBatches
  <2>2. /\ Cardinality(batch'[s]) <= Cardinality(batch[s])
        /\ Cardinality(batch[s]) \in Nat /\ Cardinality(batch'[s]) \in Nat
    BY BatchFinite, FS_Subset, FS_CardinalityType
  <2>3. Cardinality(batch[s]) <= MaxRate
    BY DEF SmallBatches
  <2>4. QED
    BY <2>1, <2>2, <2>3, MaxRateBound
<1>2. QED
  BY <1>1 DEF SmallBatches

\* GET rate, the quota and ZPOPMIN respect the largest rate.
LEMMA SmallStep ==
  ASSUME TypeOK, SmallBatches, [Next]_vars
  PROVE  SmallBatches'
<1> USE DEF redisVars, localVars, histVars
<1>1. CASE UNCHANGED vars
  BY <1>1, SmallFrame DEF vars
<1>2. CASE Server
  BY <1>2, SmallFrame DEF Server, ZAdd, HSetMeta, Expire, QueueExit
<1>3. ASSUME NEW e \in Event, NEW v \in Rates, SetRate(e, v)
      PROVE  SmallBatches'
  BY <1>3 DEF SetRate, SmallBatches, TypeOK
<1>4. ASSUME NEW e \in Event, NEW v \in Capacities, SetCapacity(e, v)
      PROVE  SmallBatches'
  BY <1>4, SmallFrame DEF SetCapacity
<1>5. CASE Environment
  <2>1. rate' = rate /\ \A s \in Scheduler : /\ lim'[s] = lim[s] \/ lim'[s] = 0
                                             /\ batch'[s] \subseteq batch[s]
    BY <1>5 DEF Environment, ExpireHash, ExpireLock, Crash, Down, Sigterm, Restart, TypeOK
  <2>2. QED
    BY <2>1, SmallFrame
<1>6. ASSUME NEW s \in Scheduler, NEW r \in Reply, GetRate(s, r)
      PROVE  SmallBatches'
  <2>1. /\ rate' = rate /\ batch' = batch
        /\ lim' = [lim EXCEPT ![s] = IF r = "ok" /\ rate[ev[s]] # 0 THEN rate[ev[s]]
                                                                  ELSE DefaultAdmitRate]
        /\ ev[s] \in Event
    BY <1>6 DEF GetRate, TypeOK
  <2>2. lim'[s] <= MaxRate
    BY <2>1, MaxRateBound DEF SmallBatches, TypeOK
  <2>3. QED
    BY <2>1, <2>2 DEF SmallBatches, TypeOK
<1>7. ASSUME NEW s \in Scheduler, NEW r \in Reply, GetCapacity(s, r)
      PROVE  SmallBatches'
  <2>1. PICK c \in Nat :
          /\ rate' = rate /\ batch' = batch
          /\ lim' = lim \/ lim' = [lim EXCEPT ![s] = Quota(lim[s], c, seen[s])]
    BY <1>7 DEF GetCapacity, TypeOK
  <2>2. Quota(lim[s], c, seen[s]) <= lim[s] /\ Quota(lim[s], c, seen[s]) \in Int
    BY DEF Quota, TypeOK
  <2>3. \A q \in Scheduler : lim'[q] <= MaxRate
    BY <2>1, <2>2, MaxRateBound DEF SmallBatches, TypeOK
  <2>4. QED
    BY <2>1, <2>3 DEF SmallBatches
<1>8. ASSUME NEW s \in Scheduler, NEW r \in Reply, ZPopMin(s, r)
      PROVE  SmallBatches'
  <2> DEFINE members == PopMin(score, queue[ev[s]], lim[s])
  <2>1. /\ rate' = rate /\ lim' = lim
        /\ \A q \in Scheduler \ {s} : batch'[q] = batch[q]
        /\ batch'[s] = members \/ batch'[s] = {}
    BY <1>8 DEF ZPopMin, TypeOK
  <2>2. /\ score \in [Ticket -> Nat] /\ queue[ev[s]] \in SUBSET Ticket
        /\ lim[s] \in Nat /\ lim[s] <= MaxRate
    BY DEF TypeOK, SmallBatches
  <2>3. Cardinality(members) <= MaxRate
    BY <2>2, PopMinBound, FS_CardinalityType, MaxRateBound
  <2>4. Cardinality(batch'[s]) <= MaxRate
    BY <2>1, <2>3, FS_EmptySet, MaxRateBound
  <2>5. QED
    BY <2>1, <2>4 DEF SmallBatches
<1>9. ASSUME NEW s \in Scheduler,
             \/ Stop(s) \/ Scan(s) \/ Member(s)
             \/ \E e \in Event, r \in Reply : AcquireLock(s, e, r)
             \/ \E r \in Reply : GetActive(s, r) \/ PublishTick(s, r) \/ ReleaseLock(s, r)
      PROVE  SmallBatches'
  <2>1. rate' = rate
    BY <1>9 DEF Stop, Down, Scan, Member, AcquireLock, GetActive, PublishTick, ReleaseLock,
                IssueToken, HSetToken, DynamoWrite, SqsEmit, Incr, PublishAdmitted
  <2>2. \A q \in Scheduler : lim'[q] = lim[q] \/ lim'[q] = 0
    BY <1>9 DEF Stop, Down, Scan, Member, AcquireLock, GetActive, PublishTick, ReleaseLock,
                IssueToken, HSetToken, DynamoWrite, SqsEmit, Incr, PublishAdmitted, TypeOK
  <2>3. \A q \in Scheduler : batch'[q] \subseteq batch[q]
    BY <1>9 DEF Stop, Down, Scan, Member, AcquireLock, GetActive, PublishTick, ReleaseLock,
                IssueToken, HSetToken, DynamoWrite, SqsEmit, Incr, PublishAdmitted,
                NextMember, TypeOK
  <2>4. QED
    BY <2>1, <2>2, <2>3, SmallFrame
<1>10. CASE Admin
  BY <1>3, <1>4, <1>10 DEF Admin
<1>11. ASSUME NEW s \in Scheduler, Work(s)
       PROVE  SmallBatches'
  BY <1>6, <1>7, <1>8, <1>9, <1>11 DEF Work, Tick
<1>12. QED
  BY <1>1, <1>2, <1>5, <1>10, <1>11 DEF Next
------------------------------------------------------------------------------
(***************************************************************************)
(* The tickets that are lost or will be: popped, not finished, and held    *)
(* only by instances that have already failed to do their part.  The set   *)
(* grows only with a fault, and then by at most one batch.                 *)
(***************************************************************************)
Finished(t) == {"stored", "counted", "published"} \subseteq effects[t]

\* The instance is stopping, or a command it has passed had no effect for t.
AtRisk(s, t) ==
  \/ cancelled[s]
  \/ Current(s, t) /\ \/ pc[s] \in Uncounted \union {"publish"} /\ "stored" \notin effects[t]
                      \/ pc[s] = "publish" /\ "counted" \notin effects[t]

Owing(t) == /\ Arrived(t) /\ t \notin queue[EventOf[t]] /\ ~Finished(t)
            /\ \A s \in Scheduler : t \in batch[s] => AtRisk(s, t)

Debt == {t \in Ticket : Owing(t)}

DebtBounded == Cardinality(Debt) <= faults * MaxRate

\* Nobody who waits on an untouched instance comes into debt.
LEMMA RiskKept ==
  ASSUME TypeOK, InHand, [Next]_vars, NEW s \in Scheduler, NEW t \in Ticket,
         batch'[s] = batch[s], pc'[s] = pc[s], cancelled'[s] = cancelled[s],
         effects[t] \subseteq effects'[t], AtRisk(s, t)'
  PROVE  AtRisk(s, t)
<1>1. Current(s, t)' <=> Current(s, t)
  BY CurrentKept
<1>2. QED
  BY <1>1 DEF AtRisk

\* A step that does nothing for anybody and pops nothing: a new ticket is in its
\* queue, and idle instances hold no tickets.
LEMMA DebtFrame ==
  ASSUME TypeOK, InHand, [Next]_vars, effects' = effects,
         \A t \in Ticket : Arrived(t)' => Arrived(t) \/ t \in queue'[EventOf[t]],
         \A e \in Event : queue[e] \subseteq queue'[e],
         \A s \in Scheduler : \/ batch[s] = {}
                              \/ /\ batch'[s] = batch[s] /\ pc'[s] = pc[s]
                                 /\ cancelled'[s] = cancelled[s]
  PROVE  Debt' \subseteq Debt
<1> SUFFICES ASSUME NEW t \in Ticket, Owing(t)'
             PROVE  Owing(t)
  BY DEF Debt
<1>1. EventOf[t] \in Event
  BY ConstantsAssumption
<1>2. Arrived(t) /\ t \notin queue[EventOf[t]] /\ ~Finished(t)
  BY <1>1 DEF Owing, Finished
<1>3. ASSUME NEW s \in Scheduler, t \in batch[s]
      PROVE  AtRisk(s, t)
  <2>1. batch'[s] = batch[s] /\ pc'[s] = pc[s] /\ cancelled'[s] = cancelled[s]
    BY <1>3
  <2>2. AtRisk(s, t)'
    BY <1>3, <2>1 DEF Owing
  <2>3. QED
    BY <2>1, <2>2, RiskKept
<1>4. QED
  BY <1>2, <1>3 DEF Owing

\* A command of admitBatch's loop can bring only the current member into debt.
LEMMA DebtMember ==
  ASSUME TypeOK, InHand, [Next]_vars, NEW s \in Scheduler, NEW t \in Ticket, Current(s, t),
         queue' = queue, jpc' = jpc, cancelled' = cancelled,
         \A u \in Ticket \ {t} : effects'[u] = effects[u],
         \A q \in Scheduler \ {s} : batch'[q] = batch[q] /\ pc'[q] = pc[q],
         \/ batch'[s] = batch[s]
         \/ batch'[s] = batch[s] \ {t} /\ pc'[s] \in {"tick", "issue"}
  PROVE  Debt' \subseteq Debt \union {t}
<1> SUFFICES ASSUME NEW u \in Ticket \ {t}, Owing(u)'
             PROVE  Owing(u)
  BY DEF Debt
<1>1. Arrived(u) /\ u \notin queue[EventOf[u]] /\ ~Finished(u)
  BY DEF Owing, Finished, Arrived
<1>2. ASSUME NEW q \in Scheduler, u \in batch[q]
      PROVE  AtRisk(q, u)
  <2>1. AtRisk(q, u)'
    BY <1>2 DEF Owing
  <2>2. CASE q # s
    BY <2>1, <2>2, RiskKept
  <2>3. CASE q = s
    <3>1. CASE cancelled[s]
      BY <2>3, <3>1 DEF AtRisk
    <3>2. CASE ~cancelled[s]
      <4>1. Current(s, u)' /\ pc'[s] \in Uncounted \union {"publish"}
        BY <2>1, <2>3, <3>2 DEF AtRisk
      <4>2. batch'[s] = batch[s]
        BY <4>1 DEF Uncounted
      <4>3. Current(s, u)
        BY <4>1, <4>2, CurrentKept
      <4>4. QED
        BY <4>3, OneFirst DEF Current, TypeOK
    <3>3. QED
      BY <3>1, <3>2
  <2>4. QED
    BY <2>2, <2>3
<1>3. QED
  BY <1>1, <1>2 DEF Owing

\* One fault more.
LEMMA Multiples ==
  ASSUME NEW n \in Nat, NEW m \in Nat
  PROVE  n * m \in Nat /\ (n + 1) * m = n * m + m
OBVIOUS

\* What the members of a set add to the debt.
LEMMA DebtGrows ==
  ASSUME TypeOK, TypeOK', SmallBatches, DebtBounded, NEW S \in SUBSET Ticket,
         Cardinality(S) <= MaxRate, Debt' \subseteq Debt \union S, faults' = faults + 1
  PROVE  DebtBounded'
<1>1. Debt \in SUBSET Ticket /\ Debt' \in SUBSET Ticket
  BY DEF Debt
<1>2. /\ IsFiniteSet(Debt) /\ Cardinality(Debt) \in Nat /\ Cardinality(Debt') \in Nat
      /\ IsFiniteSet(S) /\ Cardinality(S) \in Nat
  BY <1>1, TicketsFinite
<1>3. /\ IsFiniteSet(Debt \union S) /\ Cardinality(Debt \union S) \in Nat
      /\ Cardinality(Debt \intersect S) \in Nat
      /\ Cardinality(Debt \union S) = Cardinality(Debt) + Cardinality(S) - Cardinality(Debt \intersect S)
  BY <1>2, FS_Union, FS_Intersection, FS_CardinalityType
<1>4. Cardinality(Debt') <= Cardinality(Debt \union S)
  BY <1>3, FS_Subset
<1>5. Cardinality(Debt') <= faults * MaxRate + MaxRate
  <2>1. faults * MaxRate \in Nat
    BY MaxRateBound DEF TypeOK
  <2>2. QED
    BY <1>2, <1>3, <1>4, <2>1, MaxRateBound DEF DebtBounded
<1>6. (faults + 1) * MaxRate = faults * MaxRate + MaxRate
  BY MaxRateBound DEF TypeOK
<1>7. QED
  BY <1>5, <1>6 DEF DebtBounded

\* A step that brings nobody into debt.
LEMMA DebtStays ==
  ASSUME TypeOK, TypeOK', DebtBounded, Debt' \subseteq Debt, faults' = faults \/ faults' = faults + 1
  PROVE  DebtBounded'
<1>1. Debt \in SUBSET Ticket /\ Debt' \in SUBSET Ticket
  BY DEF Debt
<1>2. /\ Cardinality(Debt') <= Cardinality(Debt)
      /\ Cardinality(Debt) \in Nat /\ Cardinality(Debt') \in Nat
  BY <1>1, TicketsFinite, FS_Subset
<1>3. faults \in Nat /\ MaxRate \in Nat
  BY MaxRateBound DEF TypeOK
<1>4. /\ faults * MaxRate \in Nat /\ faults' * MaxRate \in Nat
      /\ faults * MaxRate <= faults' * MaxRate
  <2>1. CASE faults' = faults
    BY <1>3, <2>1, Multiples
  <2>2. CASE faults' = faults + 1
    BY <1>3, <2>2, Multiples
  <2>3. QED
    BY <2>1, <2>2
<1>5. QED
  BY <1>2, <1>4 DEF DebtBounded

\* A command does what it should, or its context is cancelled, or a fault counts.
LEMMA Counting ==
  ASSUME NEW d, NEW r, Redis(d, r) \/ Aws(d, r)
  PROVE  \/ faults' = faults /\ (r = "ok" \/ d)
         \/ faults' = faults + 1
BY DEF Redis, Aws, Fault

\* ZPOPMIN hands its members to one instance; with a fault they are lost.
LEMMA DebtPop ==
  ASSUME TypeOK, TypeOK', InHand, SmallBatches, DebtBounded, [Next]_vars,
         NEW s \in Scheduler, NEW r \in Reply, ZPopMin(s, r)
  PROVE  DebtBounded'
<1> DEFINE members == PopMin(score, queue[ev[s]], lim[s])
<1>1. /\ queue' = [queue EXCEPT ![ev[s]] = AfterPop(@, members, r)]
      /\ batch' = [batch EXCEPT ![s] = IF r = "ok" THEN members ELSE {}]
      /\ \A q \in Scheduler \ {s} : pc'[q] = pc[q]
      /\ effects' = effects /\ jpc' = jpc /\ cancelled' = cancelled
      /\ pc'[s] \in {"issue", "pop", "release"} /\ pc[s] = "pop"
      /\ Redis(cancelled[s], r)
  BY DEF ZPopMin, Goto, histVars, TypeOK
<1>2. batch[s] = {} /\ \A q \in Scheduler \ {s} : batch'[q] = batch[q]
  BY <1>1 DEF InHand, Batched, TypeOK
<1>3. members \in SUBSET Ticket /\ Cardinality(members) <= MaxRate
  <2>1. /\ score \in [Ticket -> Nat] /\ queue[ev[s]] \in SUBSET Ticket
        /\ lim[s] \in Nat /\ lim[s] <= MaxRate
    BY DEF TypeOK, SmallBatches
  <2>2. members \in SUBSET Ticket
    BY <2>1 DEF PopMin
  <2>3. Cardinality(members) <= lim[s] /\ Cardinality(members) \in Nat
    BY <2>1, <2>2, PopMinBound, TicketsFinite
  <2>4. QED
    BY <2>1, <2>2, <2>3, MaxRateBound
<1>4. ASSUME NEW t \in Ticket, Owing(t)', t \notin members \/ r = "failed"
      PROVE  Owing(t)
  <2>1. EventOf[t] \in Event /\ ev[s] \in Event
    BY ConstantsAssumption DEF TypeOK
  <2>2. t \notin queue[EventOf[t]]
    BY <1>1, <1>4, <2>1 DEF AfterPop, Applied, Owing, TypeOK
  <2>3. Arrived(t) /\ ~Finished(t)
    BY <1>1, <1>4 DEF Owing, Arrived, Finished
  <2>4. ASSUME NEW q \in Scheduler, t \in batch[q]
        PROVE  AtRisk(q, t)
    <3>1. q # s
      BY <1>2, <2>4
    <3>2. AtRisk(q, t)'
      BY <1>2, <1>4, <2>4, <3>1 DEF Owing
    <3>3. QED
      BY <1>1, <1>2, <3>1, <3>2, RiskKept
  <2>5. QED
    BY <2>2, <2>3, <2>4 DEF Owing
<1>5. CASE faults' = faults + 1
  <2>1. Debt' \subseteq Debt \union members
    BY <1>4 DEF Debt
  <2>2. QED
    BY <1>3, <1>5, <2>1, DebtGrows
<1>6. CASE faults' # faults + 1
  <2>1. faults' = faults /\ ((r = "ok" /\ ~cancelled[s]) \/ r = "failed")
    BY <1>1, <1>6 DEF Redis, Fault
  <2>2. ASSUME NEW t \in members, r = "ok", ~cancelled[s]
        PROVE  ~Owing(t)'
    <3>1. t \in batch'[s]
      BY <1>1, <2>2 DEF TypeOK
    <3>2. ~AtRisk(s, t)'
      BY <1>1, <2>2 DEF AtRisk, Uncounted
    <3>3. QED
      BY <3>1, <3>2 DEF Owing
  <2>3. Debt' \subseteq Debt
    BY <1>4, <2>1, <2>2 DEF Debt
  <2>4. QED
    BY <2>1, <2>3, DebtStays
<1>7. QED
  BY <1>5, <1>6

\* A process that is killed or told to stop brings its batch into debt.
LEMMA DebtStop ==
  ASSUME TypeOK, TypeOK', InHand, SmallBatches, DebtBounded, [Next]_vars,
         NEW s \in Scheduler, Crash(s) \/ Sigterm(s) \/ Stop(s)
  PROVE  DebtBounded'
<1>1. /\ queue' = queue /\ effects' = effects /\ jpc' = jpc
      /\ \A q \in Scheduler \ {s} : /\ batch'[q] = batch[q] /\ pc'[q] = pc[q]
                                    /\ cancelled'[q] = cancelled[q]
  BY DEF Crash, Sigterm, Stop, Down, Goto, redisVars, localVars, histVars, TypeOK
<1>2. ASSUME NEW t \in Ticket \ batch[s], Owing(t)'
      PROVE  Owing(t)
  <2>1. Arrived(t) /\ t \notin queue[EventOf[t]] /\ ~Finished(t)
    BY <1>1, <1>2 DEF Owing, Arrived, Finished
  <2>2. ASSUME NEW q \in Scheduler, t \in batch[q]
        PROVE  AtRisk(q, t)
    <3>1. q # s /\ AtRisk(q, t)'
      BY <1>1, <1>2, <2>2 DEF Owing
    <3>2. QED
      BY <1>1, <3>1, RiskKept
  <2>3. QED
    BY <2>1, <2>2 DEF Owing
<1>3. CASE Crash(s) \/ Sigterm(s)
  <2>1. faults' = faults + 1
    BY <1>3 DEF Crash, Sigterm, Fault
  <2>2. batch[s] \in SUBSET Ticket /\ Cardinality(batch[s]) <= MaxRate
    BY DEF TypeOK, SmallBatches
  <2>3. Debt' \subseteq Debt \union batch[s]
    BY <1>2 DEF Debt
  <2>4. QED
    BY <2>1, <2>2, <2>3, DebtGrows
<1>4. CASE Stop(s)
  <2>1. faults' = faults /\ batch[s] = {}
    BY <1>4 DEF Stop, InHand, Batched
  <2>2. Debt' \subseteq Debt
    BY <1>2, <2>1 DEF Debt
  <2>3. QED
    BY <2>1, <2>2, DebtStays
<1>5. QED
  BY <1>3, <1>4

\* The loop of admitBatch: a member comes into debt only with a fault.
LEMMA DebtLoop ==
  ASSUME TypeOK, TypeOK', InHand, SmallBatches, DebtBounded, [Next]_vars,
         NEW s \in Scheduler, NEW t \in Ticket, NEW r \in Reply,
         \/ IssueToken(s, t) \/ HSetToken(s, t, r) \/ DynamoWrite(s, t, r)
         \/ SqsEmit(s, t, r) \/ Incr(s, t, r) \/ PublishAdmitted(s, t, r)
  PROVE  DebtBounded'
<1> USE DEF redisVars, localVars, histVars
<1>1. /\ Current(s, t) /\ t \in batch[s]
      /\ queue' = queue /\ jpc' = jpc /\ cancelled' = cancelled
  BY DEF IssueToken, HSetToken, DynamoWrite, SqsEmit, Incr, PublishAdmitted, Current, IsFirst
<1>2. /\ \A u \in Ticket \ {t} : effects'[u] = effects[u]
      /\ effects[t] \subseteq effects'[t]
  BY DEF IssueToken, HSetToken, DynamoWrite, SqsEmit, Incr, PublishAdmitted, Done, TypeOK
<1>3. /\ \A q \in Scheduler \ {s} : batch'[q] = batch[q] /\ pc'[q] = pc[q]
      /\ \/ batch'[s] = batch[s]
         \/ batch'[s] = batch[s] \ {t} /\ pc'[s] \in {"tick", "issue"}
  BY DEF IssueToken, HSetToken, DynamoWrite, SqsEmit, Incr, PublishAdmitted, NextMember,
         Goto, TypeOK
<1>4. Debt' \subseteq Debt \union {t}
  BY <1>1, <1>2, <1>3, DebtMember
<1>5. CASE faults' = faults + 1
  <2>1. Cardinality({t}) <= MaxRate
    <3>1. Cardinality(batch[s]) <= MaxRate /\ Cardinality(batch[s]) \in Nat
      BY BatchFinite DEF SmallBatches
    <3>2. Cardinality(batch[s]) # 0
      BY <1>1, BatchFinite, FS_EmptySet
    <3>3. QED
      BY <3>1, <3>2, FS_Singleton, MaxRateBound
  <2>2. QED
    BY <1>4, <1>5, <2>1, DebtGrows
<1>6. CASE faults' # faults + 1
  <2>1. faults' = faults
    BY <1>6, Counting DEF IssueToken, Fault, HSetToken, DynamoWrite, SqsEmit, Incr, PublishAdmitted
  <2>2. ASSUME Owing(t)', ~AtRisk(s, t)
        PROVE  FALSE
    <3>1. ~cancelled[s] /\ ~cancelled'[s]
      BY <1>1, <2>2 DEF AtRisk
    <3>2. batch'[s] = batch[s] => AtRisk(s, t)' /\ Current(s, t)'
      BY <1>1, <2>2, CurrentKept DEF Owing
    <3>3. /\ pc[s] \in Uncounted \union {"publish"} => "stored" \in effects[t]
          /\ pc[s] = "publish" => "counted" \in effects[t]
      BY <1>1, <2>2 DEF AtRisk
    <3>4. CASE IssueToken(s, t)
      <4>1. batch' = batch /\ pc'[s] = "store"
        BY <1>6, <3>4 DEF IssueToken, Fault, Goto, TypeOK
      <4>2. QED
        BY <3>1, <3>2, <4>1 DEF AtRisk, Uncounted
    <3>5. CASE HSetToken(s, t, r)
      <4>1. r = "ok"
        BY <1>6, <3>1, <3>5, Counting DEF HSetToken
      <4>2. batch' = batch /\ pc'[s] = "audit" /\ "stored" \in effects'[t]
        BY <3>5, <4>1 DEF HSetToken, AfterStore, Goto, Done, Applied, TypeOK
      <4>3. QED
        BY <3>1, <3>2, <4>2 DEF AtRisk
    <3>6. CASE DynamoWrite(s, t, r) \/ SqsEmit(s, t, r)
      <4>1. batch' = batch /\ pc'[s] \in {"emit", "count"} /\ pc[s] \in Uncounted
        BY <3>6 DEF DynamoWrite, SqsEmit, Goto, Uncounted, TypeOK
      <4>2. QED
        BY <1>2, <3>1, <3>2, <3>3, <4>1 DEF AtRisk
    <3>7. CASE Incr(s, t, r)
      <4>1. r = "ok"
        BY <1>6, <3>1, <3>7, Counting DEF Incr
      <4>2. batch' = batch /\ "counted" \in effects'[t] /\ pc[s] \in Uncounted
        BY <3>7, <4>1 DEF Incr, Goto, Done, Applied, TypeOK, Uncounted
      <4>3. QED
        BY <1>2, <3>1, <3>2, <3>3, <4>2 DEF AtRisk
    <3>8. CASE PublishAdmitted(s, t, r)
      <4>1. r = "ok"
        BY <1>6, <3>1, <3>8, Counting DEF PublishAdmitted
      <4>2. "published" \in effects'[t] /\ pc[s] = "publish"
        BY <3>8, <4>1 DEF PublishAdmitted, Done, Applied, TypeOK
      <4>3. QED
        BY <1>2, <2>2, <3>3, <4>2 DEF Owing, Finished
    <3>9. QED
      BY <3>4, <3>5, <3>6, <3>7, <3>8
  <2>3. Owing(t)' => Owing(t)
    <3> SUFFICES ASSUME Owing(t)'
                 PROVE  Owing(t)
      OBVIOUS
    <3>1. Arrived(t) /\ t \notin queue[EventOf[t]] /\ ~Finished(t)
      BY <1>1, <1>2 DEF Owing, Arrived, Finished
    <3>2. ASSUME NEW q \in Scheduler, t \in batch[q]
          PROVE  AtRisk(q, t)
      <4>1. CASE q = s
        BY <2>2, <4>1
      <4>2. CASE q # s
        <5>1. AtRisk(q, t)'
          BY <1>3, <3>2, <4>2 DEF Owing
        <5>2. QED
          BY <1>1, <1>2, <1>3, <4>2, <5>1, RiskKept
      <4>3. QED
        BY <4>1, <4>2
    <3>3. QED
      BY <3>1, <3>2 DEF Owing
  <2>4. Debt' \subseteq Debt
    BY <1>4, <2>3 DEF Debt
  <2>5. QED
    BY <2>1, <2>4, DebtStays
<1>7. QED
  BY <1>5, <1>6

\* Every action keeps the debt within one batch for each fault.
LEMMA DebtStep ==
  ASSUME TypeOK, TypeOK', InHand, SmallBatches, DebtBounded, [Next]_vars
  PROVE  DebtBounded'
<1> USE DEF redisVars, localVars, histVars
<1>a. ASSUME effects' = effects, batch' = batch, pc' = pc, cancelled' = cancelled,
             \A t \in Ticket : Arrived(t)' => Arrived(t) \/ t \in queue'[EventOf[t]],
             \A e \in Event : queue[e] \subseteq queue'[e],
             faults' = faults \/ faults' = faults + 1
      PROVE  DebtBounded'
  BY <1>a, DebtFrame, DebtStays
<1>1. CASE UNCHANGED vars
  BY <1>1, <1>a DEF vars, Arrived
<1>2. ASSUME NEW t \in Ticket, NEW ms \in Score, NEW r \in Reply, ZAdd(t, ms, r)
      PROVE  DebtBounded'
  <2>1. EventOf[t] \in Event
    BY ConstantsAssumption
  <2>2. \A e \in Event : queue[e] \subseteq queue'[e]
    BY <1>2 DEF ZAdd, TypeOK
  <2>3. \A u \in Ticket \ {t} : Arrived(u)' => Arrived(u)
    BY <1>2 DEF ZAdd, Arrived, TypeOK
  <2>4. Arrived(t)' => Arrived(t) \/ t \in queue'[EventOf[t]]
    <3>1. CASE Applied(r)
      BY <1>2, <2>1, <3>1 DEF ZAdd, TypeOK
    <3>2. CASE ~Applied(r) /\ ~Arrived(t)
      <4>1. r = "failed" /\ jpc[t] = "none"
        BY <1>2, <3>2 DEF ZAdd, Applied, Arrived
      <4>2. jpc'[t] = "refused"
        BY <1>2, <4>1 DEF ZAdd, TypeOK
      <4>3. QED
        BY <4>2 DEF Arrived
    <3>3. QED
      BY <3>1, <3>2
  <2>5. QED
    BY <1>2, <1>a, <2>2, <2>3, <2>4, Counting DEF ZAdd
<1>3. ASSUME NEW t \in Ticket, NEW r \in Reply, HSetMeta(t, r) \/ Expire(t, r) \/ QueueExit(t, r)
      PROVE  DebtBounded'
  <2>1. \A u \in Ticket : Arrived(u)' => Arrived(u)
    BY <1>3 DEF HSetMeta, Expire, QueueExit, Arrived, TypeOK
  <2>2. QED
    BY <1>3, <1>a, <2>1, Counting DEF HSetMeta, Expire, QueueExit
<1>4. CASE \/ Admin
           \/ \E t \in Ticket : ExpireHash(t)
           \/ \E e \in Event : ExpireLock(e)
  BY <1>4, <1>a DEF Admin, SetRate, SetCapacity, ExpireHash, ExpireLock, Arrived
<1>5. ASSUME NEW s \in Scheduler,
             \/ Restart(s) \/ Scan(s)
             \/ \E e \in Event, r \in Reply : AcquireLock(s, e, r)
             \/ \E r \in Reply : \/ GetRate(s, r) \/ GetActive(s, r) \/ GetCapacity(s, r)
                                 \/ PublishTick(s, r) \/ ReleaseLock(s, r)
      PROVE  DebtBounded'
  <2>1. UNCHANGED <<queue, batch, effects, jpc, cancelled>> /\ (pc' = pc \/ pc[s] \notin Batched)
    BY <1>5 DEF Restart, Scan, AcquireLock, GetRate, GetActive, GetCapacity, PublishTick,
                ReleaseLock, Batched
  <2>2. \A q \in Scheduler \ {s} : pc'[q] = pc[q]
    BY <1>5 DEF Restart, Scan, AcquireLock, GetRate, GetActive, GetCapacity, PublishTick,
                ReleaseLock, Goto, TypeOK
  <2>3. faults' = faults \/ faults' = faults + 1
    BY <1>5, Counting DEF Restart, Scan, AcquireLock, GetRate, GetActive, GetCapacity,
                PublishTick, ReleaseLock
  <2>4. pc' = pc \/ batch[s] = {}
    BY <2>1 DEF InHand
  <2>5. Debt' \subseteq Debt
    BY <2>1, <2>2, <2>4, DebtFrame DEF Arrived
  <2>6. QED
    BY <2>3, <2>5, DebtStays
<1>6. CASE Server
  BY <1>2, <1>3, <1>6 DEF Server
<1>7. CASE Environment
  BY <1>4, <1>5, <1>7, DebtStop DEF Environment
<1>8. ASSUME NEW s \in Scheduler, Work(s)
      PROVE  DebtBounded'
  <2>1. CASE Tick(s)
    BY <1>5, <2>1, DebtPop DEF Tick
  <2>2. CASE Member(s)
    BY <2>2, DebtLoop DEF Member
  <2>3. QED
    BY <1>5, <1>8, <2>1, <2>2, DebtStop DEF Work
<1>9. QED
  BY <1>1, <1>4, <1>6, <1>7, <1>8 DEF Next

\* ZPOPMIN loses nobody without a fault, also when instances pop at the same
\* time, and each fault (a lost or repeated answer, a crash, a SIGTERM, a failed
\* signature or HSET) loses at most the tickets of one tick (admitBatch).
THEOREM LossBoundedCorrect == Spec => []LossBounded
<1>1. Init => SmallBatches /\ DebtBounded
  <2> SUFFICES ASSUME Init PROVE SmallBatches /\ DebtBounded
    OBVIOUS
  <2>1. SmallBatches
    BY MaxRateBound, FS_EmptySet DEF Init, SmallBatches
  <2>2. Debt = {}
    BY DEF Init, Debt, Owing, Arrived
  <2>3. DebtBounded
    BY <2>2, MaxRateBound, FS_EmptySet DEF Init, DebtBounded
  <2>4. QED
    BY <2>1, <2>3
<1>2. TypeOK /\ TypeOK' /\ InHand /\ SmallBatches /\ DebtBounded /\ [Next]_vars
        => SmallBatches' /\ DebtBounded'
  BY SmallStep, DebtStep
<1>3. TypeOK /\ DebtBounded => LossBounded
  <2> SUFFICES ASSUME TypeOK, DebtBounded PROVE LossBounded
    OBVIOUS
  <2>1. Lost \subseteq Debt /\ Debt \in SUBSET Ticket
    BY DEF Lost, Processed, Debt, Owing, Finished
  <2>2. Cardinality(Lost) <= Cardinality(Debt)
    BY <2>1, TicketsFinite, FS_Subset
  <2>3. Cardinality(Lost) \in Nat /\ Cardinality(Debt) \in Nat /\ faults * MaxRate \in Nat
    BY <2>1, TicketsFinite, MaxRateBound, Multiples DEF TypeOK
  <2>4. QED
    BY <2>2, <2>3 DEF DebtBounded, LossBounded
<1>4. QED
  BY <1>1, <1>2, <1>3, TypeCorrect, InHandCorrect, PTL DEF Spec
------------------------------------------------------------------------------
(***************************************************************************)
(* The overrun of a capacity.  A stray visitor is inside, or about to be,  *)
(* and INCR was not and will not be done for it.  What the faults allow    *)
(* and the strays have not used up is the slack of the headroom.           *)
(***************************************************************************)
Pending(t) == \E s \in Scheduler : ~cancelled[s] /\ Current(s, t) /\ pc[s] \in Uncounted
Leaving(t) == \E s \in Scheduler : ~cancelled[s] /\ Current(s, t) /\ pc[s] = "publish"

IsStray(t) == /\ "counted" \notin effects[t] /\ ~Pending(t)
              /\ Admitted(t) \/ Leaving(t)

Stray(e) == {t \in Ticket : EventOf[t] = e /\ IsStray(t)}

Slack(e) == faults * MaxRate - Cardinality(Stray(e))

\* The counter may be too high, but never too low for those who were counted.
TallyLow == /\ \A e \in Event : active[e] >= Cardinality(Counted(e)) - Cardinality(Gone(e))
            /\ \A t \in Ticket : exits[t] > 0 => Admitted(t)

Headway(s) ==
  \A e \in Event : ev[s] = e /\ ceiling[e] > 0 =>
    /\ pc[s] = "capacity" /\ ~cancelled[s] =>
         \/ active[e] <= seen[s]
         \/ active[e] + lim[s] <= ceiling[e] + Slack(e)
    /\ pc[s] = "pop" /\ ~cancelled[s] => active[e] + lim[s] <= ceiling[e] + Slack(e)
    /\ pc[s] \in Batched => active[e] + Owed(s) <= ceiling[e] + Slack(e)

WithinSlack == /\ CeilingSound
               /\ \A e \in Event : Slack(e) >= 0
               /\ \A e \in Event : ceiling[e] > 0 => active[e] <= ceiling[e] + Slack(e)
               /\ \A s \in Scheduler : Headway(s)

\* Who is neither in the hands of a changed instance nor touched by the step
\* does not stray.
LEMMA StrayFrame ==
  ASSUME TypeOK, InHand, [Next]_vars, effects' = effects, NEW X,
         \A s \in Scheduler :
           \/ batch'[s] = batch[s] /\ pc'[s] = pc[s] /\ cancelled'[s] = cancelled[s]
           \/ batch[s] \subseteq X /\ (pc'[s] # "publish" \/ cancelled'[s])
  PROVE  \A t \in Ticket \ X : IsStray(t)' => IsStray(t)
<1> SUFFICES ASSUME NEW t \in Ticket \ X, IsStray(t)'
             PROVE  IsStray(t)
  OBVIOUS
<1>1. "counted" \notin effects[t] /\ (Admitted(t)' <=> Admitted(t))
  BY DEF IsStray, Admitted
<1>2. ASSUME NEW s \in Scheduler, ~cancelled[s], Current(s, t), pc[s] \in Uncounted
      PROVE  FALSE
  <2>1. batch'[s] = batch[s] /\ pc'[s] = pc[s] /\ cancelled'[s] = cancelled[s]
    BY <1>2 DEF Current, IsFirst
  <2>2. Current(s, t)'
    BY <1>2, <2>1, CurrentKept
  <2>3. QED
    BY <1>2, <2>1, <2>2 DEF IsStray, Pending
<1>3. ASSUME NEW s \in Scheduler, ~cancelled'[s], Current(s, t)', pc'[s] = "publish"
      PROVE  Leaving(t)
  <2>1. batch'[s] = batch[s] /\ pc'[s] = pc[s] /\ cancelled'[s] = cancelled[s]
    BY <1>3
  <2>2. Current(s, t)
    BY <1>3, <2>1, CurrentKept
  <2>3. QED
    BY <1>3, <2>1, <2>2 DEF Leaving
<1>4. ~Pending(t)
  BY <1>2 DEF Pending
<1>5. Leaving(t)' => Leaving(t)
  BY <1>3 DEF Leaving
<1>6. QED
  BY <1>1, <1>4, <1>5 DEF IsStray

\* A command of admitBatch's loop can make only the current member stray.
LEMMA StrayMember ==
  ASSUME TypeOK, InHand, [Next]_vars, NEW s \in Scheduler, NEW t \in Ticket, Current(s, t),
         cancelled' = cancelled,
         \A u \in Ticket \ {t} : effects'[u] = effects[u],
         \A q \in Scheduler \ {s} : batch'[q] = batch[q] /\ pc'[q] = pc[q],
         \/ batch'[s] = batch[s]
         \/ batch'[s] = batch[s] \ {t} /\ pc'[s] \in {"tick", "issue"}
  PROVE  \A u \in Ticket \ {t} : IsStray(u)' => IsStray(u)
<1> SUFFICES ASSUME NEW u \in Ticket \ {t}, IsStray(u)'
             PROVE  IsStray(u)
  OBVIOUS
<1>1. "counted" \notin effects[u] /\ (Admitted(u)' <=> Admitted(u))
  BY DEF IsStray, Admitted
<1>2. ASSUME NEW q \in Scheduler, ~cancelled[q], Current(q, u), pc[q] \in Uncounted
      PROVE  FALSE
  <2>1. q # s
    BY <1>2, OneFirst DEF Current, TypeOK
  <2>2. Current(q, u)' /\ pc'[q] = pc[q]
    BY <1>2, <2>1, CurrentKept
  <2>3. QED
    BY <1>2, <2>2 DEF IsStray, Pending
<1>3. ASSUME NEW q \in Scheduler, ~cancelled[q], Current(q, u)', pc'[q] = "publish"
      PROVE  Leaving(u)
  <2>1. batch'[q] = batch[q]
    BY <1>3
  <2>2. Current(q, u)
    BY <1>3, <2>1, CurrentKept
  <2>3. q # s
    BY <2>2, OneFirst DEF Current, TypeOK
  <2>4. QED
    BY <1>3, <2>2, <2>3 DEF Leaving
<1>4. ~Pending(u)
  BY <1>2 DEF Pending
<1>5. Leaving(u)' => Leaving(u)
  BY <1>3 DEF Leaving
<1>6. QED
  BY <1>1, <1>4, <1>5 DEF IsStray

\* The strays are finite and the slack is a number.
LEMMA SlackType ==
  ASSUME TypeOK, NEW e \in Event
  PROVE  /\ Stray(e) \in SUBSET Ticket /\ IsFiniteSet(Stray(e)) /\ Cardinality(Stray(e)) \in Nat
         /\ Slack(e) \in Int /\ faults * MaxRate \in Nat
<1>1. Stray(e) \in SUBSET Ticket
  BY DEF Stray
<1>2. faults * MaxRate \in Nat
  BY MaxRateBound, Multiples DEF TypeOK
<1>3. QED
  BY <1>1, <1>2, TicketsFinite DEF Slack

\* A step after which nobody new strays: a fault leaves its whole batch to the slack.
LEMMA SlackKept ==
  ASSUME TypeOK, TypeOK', \A t \in Ticket : IsStray(t)' => IsStray(t), NEW e \in Event
  PROVE  /\ Slack(e) \in Int /\ Slack(e)' \in Int
         /\ faults' = faults => Slack(e)' >= Slack(e)
         /\ faults' = faults + 1 => Slack(e)' >= Slack(e) + MaxRate
<1>1. Stray(e)' \subseteq Stray(e)
  BY DEF Stray
<1>2. Cardinality(Stray(e)') <= Cardinality(Stray(e)) /\ Cardinality(Stray(e)') \in Nat
  BY <1>1, SlackType, FS_Subset, FS_CardinalityType
<1>3. Slack(e)' = faults' * MaxRate - Cardinality(Stray(e)')
  BY DEF Slack
<1>4. Cardinality(Stray(e)) \in Nat /\ Slack(e) \in Int /\ faults * MaxRate \in Nat
  BY SlackType
<1>5. Slack(e)' \in Int
  <2>1. faults' * MaxRate \in Nat
    BY MaxRateBound, Multiples DEF TypeOK
  <2>2. QED
    BY <1>2, <1>3, <2>1
<1>6. ASSUME faults' = faults + 1
      PROVE  Slack(e)' >= Slack(e) + MaxRate
  <2>1. faults' * MaxRate = faults * MaxRate + MaxRate
    BY <1>6, MaxRateBound, Multiples DEF TypeOK
  <2>2. QED
    BY <1>2, <1>3, <1>4, <2>1, MaxRateBound DEF Slack
<1>7. ASSUME faults' = faults
      PROVE  Slack(e)' >= Slack(e)
  BY <1>2, <1>3, <1>4, <1>7 DEF Slack
<1>8. QED
  BY <1>4, <1>5, <1>6, <1>7

\* A fault after which at most the members of one batch stray.
LEMMA SlackFault ==
  ASSUME TypeOK, TypeOK', NEW X \in SUBSET Ticket, Cardinality(X) <= MaxRate,
         \A t \in Ticket \ X : IsStray(t)' => IsStray(t), faults' = faults + 1,
         NEW e \in Event
  PROVE  Slack(e) \in Int /\ Slack(e)' \in Int /\ Slack(e)' >= Slack(e)
<1>1. Stray(e)' \subseteq Stray(e) \union X
  BY DEF Stray
<1>2. /\ IsFiniteSet(Stray(e)) /\ Cardinality(Stray(e)) \in Nat
      /\ IsFiniteSet(X) /\ Cardinality(X) \in Nat
  BY SlackType, TicketsFinite
<1>3. /\ IsFiniteSet(Stray(e) \union X) /\ Cardinality(Stray(e) \union X) \in Nat
      /\ Cardinality(Stray(e) \intersect X) \in Nat
      /\ Cardinality(Stray(e) \union X)
           = Cardinality(Stray(e)) + Cardinality(X) - Cardinality(Stray(e) \intersect X)
  BY <1>2, FS_Union, FS_Intersection, FS_CardinalityType
<1>4. /\ Cardinality(Stray(e)') <= Cardinality(Stray(e) \union X)
      /\ Cardinality(Stray(e)') \in Nat
  BY <1>1, <1>3, FS_Subset, FS_CardinalityType
<1>5. /\ faults' * MaxRate = faults * MaxRate + MaxRate
      /\ faults * MaxRate \in Nat
  BY MaxRateBound, Multiples DEF TypeOK
<1>6. Slack(e)' = faults' * MaxRate - Cardinality(Stray(e)')
  BY DEF Slack
<1>7. QED
  BY <1>2, <1>3, <1>4, <1>5, <1>6, MaxRateBound DEF Slack

\* Without a fault a command of the loop makes nobody stray: the member is waiting
\* for INCR, counted by it, or was stray before.
LEMMA StrayLoop ==
  ASSUME TypeOK, InHand, [Next]_vars,
         NEW s \in Scheduler, NEW t \in Ticket, NEW r \in Reply,
         \/ IssueToken(s, t) \/ HSetToken(s, t, r) \/ DynamoWrite(s, t, r)
         \/ SqsEmit(s, t, r) \/ Incr(s, t, r) \/ PublishAdmitted(s, t, r)
  PROVE  /\ \A u \in Ticket \ {t} : IsStray(u)' => IsStray(u)
         /\ faults' = faults /\ IsStray(t)' => IsStray(t)
         /\ faults' = faults \/ faults' = faults + 1
<1> USE DEF redisVars, localVars, histVars
<1>1. Current(s, t) /\ t \in batch[s] /\ cancelled' = cancelled
  BY DEF IssueToken, HSetToken, DynamoWrite, SqsEmit, Incr, PublishAdmitted, Current, IsFirst
<1>2. \A u \in Ticket \ {t} : effects'[u] = effects[u]
  BY DEF IssueToken, HSetToken, DynamoWrite, SqsEmit, Incr, PublishAdmitted, Done, TypeOK
<1>3. /\ \A q \in Scheduler \ {s} : batch'[q] = batch[q] /\ pc'[q] = pc[q]
      /\ \/ batch'[s] = batch[s]
         \/ batch'[s] = batch[s] \ {t} /\ pc'[s] \in {"tick", "issue"}
  BY DEF IssueToken, HSetToken, DynamoWrite, SqsEmit, Incr, PublishAdmitted, NextMember,
         Goto, TypeOK
<1>4. \A u \in Ticket \ {t} : IsStray(u)' => IsStray(u)
  BY <1>1, <1>2, <1>3, StrayMember
<1>5. faults' = faults \/ faults' = faults + 1
  BY Counting DEF IssueToken, HSetToken, DynamoWrite, SqsEmit, Incr, PublishAdmitted, Fault
<1>6. ASSUME faults' = faults, IsStray(t)'
      PROVE  IsStray(t)
  <2>1. ASSUME NEW q \in Scheduler \ {s}
        PROVE  (Current(q, t)' <=> Current(q, t)) /\ pc'[q] = pc[q] /\ cancelled'[q] = cancelled[q]
    BY <1>1, <1>3, CurrentKept
  <2>2. effects[t] \subseteq effects'[t]
    BY DEF IssueToken, HSetToken, DynamoWrite, SqsEmit, Incr, PublishAdmitted, Done, TypeOK
  <2>3. "counted" \notin effects[t]
    BY <1>6, <2>2 DEF IsStray
  <2>4. \A q \in Scheduler \ {s} : ~(~cancelled[q] /\ Current(q, t) /\ pc[q] \in Uncounted)
    BY <1>6, <2>1 DEF IsStray, Pending
  <2>5. ASSUME cancelled[s] \/ pc[s] = "issue", effects' = effects,
               cancelled[s] \/ pc'[s] # "publish"
        PROVE  IsStray(t)
    <3>1. ~Pending(t)
      BY <2>4, <2>5 DEF Pending, Uncounted
    <3>2. Admitted(t)' => Admitted(t)
      BY <2>5 DEF Admitted
    <3>3. Leaving(t)' => Leaving(t)
      BY <1>1, <2>1, <2>5 DEF Leaving
    <3>4. QED
      BY <1>6, <2>3, <3>1, <3>2, <3>3 DEF IsStray
  <2>6. ASSUME ~cancelled[s], pc'[s] \in Uncounted, batch'[s] = batch[s]
        PROVE  FALSE
    <3>1. Current(s, t)'
      BY <1>1, <2>6, CurrentKept
    <3>2. Pending(t)'
      BY <1>1, <2>6, <3>1 DEF Pending
    <3>3. QED
      BY <1>6, <3>2 DEF IsStray
  <2>7. CASE IssueToken(s, t)
    <3>1. ~Fault("sign_error")
      BY <1>6 DEF Fault, TypeOK
    <3>2. pc[s] = "issue" /\ effects' = effects /\ pc'[s] = "store"
      BY <2>7, <3>1 DEF IssueToken, Goto, TypeOK
    <3>3. QED
      BY <2>5, <3>2
  <2>8. ASSUME Redis(cancelled[s], r) \/ Aws(cancelled[s], r)
        PROVE  (r = "ok" /\ ~cancelled[s]) \/ (r = "failed" /\ cancelled[s])
    BY <1>6, <2>8 DEF Redis, Aws, Fault, TypeOK
  <2>9. ASSUME r = "failed", NEW what, Done(t, what, r)
        PROVE  effects' = effects
    BY <2>9 DEF Done, Applied, TypeOK
  <2>10. CASE HSetToken(s, t, r)
    <3>1. r = "ok" => pc'[s] = "audit" /\ batch'[s] = batch[s]
      BY <2>10 DEF HSetToken, AfterStore, Goto, TypeOK
    <3>2. Redis(cancelled[s], r) /\ Done(t, "stored", r)
      BY <2>10 DEF HSetToken
    <3>3. QED
      BY <2>5, <2>6, <2>8, <2>9, <3>1, <3>2 DEF Uncounted
  <2>11. CASE DynamoWrite(s, t, r) \/ SqsEmit(s, t, r)
    <3>1. pc'[s] \in {"emit", "count"} /\ batch'[s] = batch[s]
      BY <2>11 DEF DynamoWrite, SqsEmit, Goto, TypeOK
    <3>2. Aws(cancelled[s], r) /\ \E what \in Effect : Done(t, what, r)
      BY <2>11 DEF DynamoWrite, SqsEmit, Effect
    <3>3. QED
      BY <2>5, <2>6, <2>8, <2>9, <3>1, <3>2 DEF Uncounted
  <2>12. CASE Incr(s, t, r)
    <3>1. Redis(cancelled[s], r) /\ Done(t, "counted", r)
      BY <2>12 DEF Incr
    <3>2. r # "ok"
      <4>1. r = "ok" => "counted" \in effects'[t]
        BY <3>1 DEF Done, Applied, TypeOK
      <4>2. QED
        BY <1>6, <4>1 DEF IsStray
    <3>3. QED
      BY <2>5, <2>8, <2>9, <3>1, <3>2
  <2>13. CASE PublishAdmitted(s, t, r)
    <3>1. Redis(cancelled[s], r) /\ Done(t, "published", r) /\ pc[s] = "publish"
      BY <2>13 DEF PublishAdmitted
    <3>2. CASE ~cancelled[s]
      <4>1. Leaving(t)
        BY <1>1, <3>1, <3>2 DEF Leaving
      <4>2. ~Pending(t)
        BY <2>4, <3>1 DEF Pending, Uncounted
      <4>3. QED
        BY <2>3, <4>1, <4>2 DEF IsStray
    <3>3. QED
      BY <2>5, <2>8, <2>9, <3>1, <3>2
  <2>14. QED
    BY <2>7, <2>10, <2>11, <2>12, <2>13
<1>7. QED
  BY <1>4, <1>5, <1>6

\* Whatever happens, an event loses no slack: who strays was covered by a fault.
LEMMA SlackStep ==
  ASSUME TypeOK, TypeOK', InHand, SmallBatches, [Next]_vars
  PROVE  \A e \in Event : Slack(e) \in Int /\ Slack(e)' \in Int /\ Slack(e)' >= Slack(e)
<1> USE DEF redisVars, localVars, histVars
<1>a. ASSUME \A t \in Ticket : IsStray(t)' => IsStray(t),
             faults' = faults \/ faults' = faults + 1
      PROVE  \A e \in Event : Slack(e) \in Int /\ Slack(e)' \in Int /\ Slack(e)' >= Slack(e)
  BY <1>a, SlackKept, MaxRateBound
<1>b. ASSUME effects' = effects, faults' = faults \/ faults' = faults + 1,
             \A s \in Scheduler :
               \/ batch'[s] = batch[s] /\ pc'[s] = pc[s] /\ cancelled'[s] = cancelled[s]
               \/ batch[s] = {} /\ pc'[s] # "publish"
      PROVE  \A e \in Event : Slack(e) \in Int /\ Slack(e)' \in Int /\ Slack(e)' >= Slack(e)
  <2>1. \A t \in Ticket \ {} : IsStray(t)' => IsStray(t)
    <3>1. \A s \in Scheduler :
            \/ batch'[s] = batch[s] /\ pc'[s] = pc[s] /\ cancelled'[s] = cancelled[s]
            \/ batch[s] \subseteq {} /\ (pc'[s] # "publish" \/ cancelled'[s])
      BY <1>b
    <3>2. QED
      BY <1>b, <3>1, StrayFrame
  <2>2. QED
    BY <1>a, <1>b, <2>1
<1>1. CASE UNCHANGED vars
  BY <1>1, <1>b DEF vars
<1>2. CASE Server
  BY <1>2, <1>b, Counting DEF Server, ZAdd, HSetMeta, Expire, QueueExit
<1>3. CASE \/ Admin
           \/ \E t \in Ticket : ExpireHash(t)
           \/ \E e \in Event : ExpireLock(e)
  BY <1>3, <1>b DEF Admin, SetRate, SetCapacity, ExpireHash, ExpireLock
<1>4. ASSUME NEW s \in Scheduler,
             \/ Restart(s) \/ Scan(s) \/ Stop(s)
             \/ \E e \in Event, r \in Reply : AcquireLock(s, e, r)
             \/ \E r \in Reply : \/ GetRate(s, r) \/ GetActive(s, r) \/ GetCapacity(s, r)
                                 \/ ZPopMin(s, r) \/ PublishTick(s, r) \/ ReleaseLock(s, r)
      PROVE  \A e \in Event : Slack(e) \in Int /\ Slack(e)' \in Int /\ Slack(e)' >= Slack(e)
  <2>1. effects' = effects
    BY <1>4 DEF Restart, Scan, Stop, Down, AcquireLock, GetRate, GetActive, GetCapacity,
                ZPopMin, PublishTick, ReleaseLock
  <2>2. \A q \in Scheduler \ {s} :
          batch'[q] = batch[q] /\ pc'[q] = pc[q] /\ cancelled'[q] = cancelled[q]
    BY <1>4 DEF Restart, Scan, Stop, Down, AcquireLock, GetRate, GetActive, GetCapacity,
                ZPopMin, PublishTick, ReleaseLock, Goto, TypeOK
  <2>3. pc[s] \notin Batched /\ pc'[s] # "publish"
    BY <1>4 DEF Restart, Scan, Stop, Down, AcquireLock, GetRate, GetActive, GetCapacity,
                ZPopMin, PublishTick, ReleaseLock, Goto, TypeOK, Batched
  <2>4. batch[s] = {}
    BY <2>3 DEF InHand
  <2>5. faults' = faults \/ faults' = faults + 1
    BY <1>4, Counting DEF Restart, Scan, Stop, Down, AcquireLock, GetRate, GetActive,
                GetCapacity, ZPopMin, PublishTick, ReleaseLock
  <2>6. QED
    BY <1>b, <2>1, <2>2, <2>3, <2>4, <2>5
<1>5. ASSUME NEW s \in Scheduler, Crash(s) \/ Sigterm(s)
      PROVE  \A e \in Event : Slack(e) \in Int /\ Slack(e)' \in Int /\ Slack(e)' >= Slack(e)
  <2>1. /\ effects' = effects /\ faults' = faults + 1
        /\ pc'[s] # "publish" \/ cancelled'[s]
    BY <1>5 DEF Crash, Sigterm, Down, Goto, Fault, TypeOK
  <2>2. \A q \in Scheduler \ {s} :
          batch'[q] = batch[q] /\ pc'[q] = pc[q] /\ cancelled'[q] = cancelled[q]
    BY <1>5 DEF Crash, Sigterm, Down, Goto, TypeOK
  <2>3. batch[s] \in SUBSET Ticket /\ Cardinality(batch[s]) <= MaxRate
    BY DEF TypeOK, SmallBatches
  <2>4. \A q \in Scheduler :
           \/ batch'[q] = batch[q] /\ pc'[q] = pc[q] /\ cancelled'[q] = cancelled[q]
           \/ batch[q] \subseteq batch[s] /\ (pc'[q] # "publish" \/ cancelled'[q])
    BY <2>1, <2>2
  <2>5. \A t \in Ticket \ batch[s] : IsStray(t)' => IsStray(t)
    BY <2>1, <2>4, StrayFrame
  <2>6. QED
    BY <2>1, <2>3, <2>5, SlackFault
<1>6. ASSUME NEW s \in Scheduler, NEW t \in Ticket, NEW r \in Reply,
             \/ IssueToken(s, t) \/ HSetToken(s, t, r) \/ DynamoWrite(s, t, r)
             \/ SqsEmit(s, t, r) \/ Incr(s, t, r) \/ PublishAdmitted(s, t, r)
      PROVE  \A e \in Event : Slack(e) \in Int /\ Slack(e)' \in Int /\ Slack(e)' >= Slack(e)
  <2>1. /\ \A u \in Ticket \ {t} : IsStray(u)' => IsStray(u)
        /\ faults' = faults /\ IsStray(t)' => IsStray(t)
        /\ faults' = faults \/ faults' = faults + 1
    BY <1>6, StrayLoop
  <2>2. CASE faults' = faults
    BY <1>a, <2>1, <2>2
  <2>3. CASE faults' = faults + 1
    <3>1. t \in batch[s]
      BY <1>6 DEF IssueToken, HSetToken, DynamoWrite, SqsEmit, Incr, PublishAdmitted, Current,
                  IsFirst
    <3>2. /\ Cardinality(batch[s]) <= MaxRate /\ Cardinality(batch[s]) \in Nat
          /\ Cardinality(batch[s]) # 0
      BY <3>1, BatchFinite, FS_EmptySet DEF SmallBatches
    <3>3. Cardinality({t}) <= MaxRate
      <4>1. Cardinality({t}) = 1
        BY FS_Singleton
      <4>2. MaxRate >= 1
        BY <3>2, MaxRateBound
      <4>3. QED
        BY <4>1, <4>2
    <3>4. {t} \in SUBSET Ticket
      OBVIOUS
    <3>5. QED
      BY <2>1, <2>3, <3>3, <3>4, SlackFault
  <2>4. QED
    BY <2>1, <2>2, <2>3
<1>7. CASE Environment
  BY <1>3, <1>4, <1>5, <1>7 DEF Environment
<1>8. ASSUME NEW s \in Scheduler, Work(s)
      PROVE  \A e \in Event : Slack(e) \in Int /\ Slack(e)' \in Int /\ Slack(e)' >= Slack(e)
  <2>1. CASE Tick(s)
    BY <1>4, <2>1 DEF Tick
  <2>2. CASE Member(s)
    BY <1>6, <2>2 DEF Member
  <2>3. QED
    BY <1>4, <1>8, <2>1, <2>2 DEF Work
<1>9. QED
  BY <1>1, <1>2, <1>3, <1>7, <1>8 DEF Next

\* An instance that stands still keeps its headway while the counter does not
\* grow and neither the ceiling nor the slack falls.
LEMMA HeadwayKept ==
  ASSUME TypeOK, TypeOK', NEW s \in Scheduler, Headway(s),
         pc'[s] = pc[s], ev'[s] = ev[s], lim'[s] = lim[s], seen'[s] = seen[s],
         batch'[s] = batch[s], cancelled[s] => cancelled'[s],
         pc[s] \in TickSteps => active'[ev[s]] <= active[ev[s]],
         \A e \in Event : ceiling'[e] > 0 => ceiling[e] > 0 /\ ceiling[e] <= ceiling'[e],
         \A e \in Event : Slack(e) \in Int /\ Slack(e)' \in Int /\ Slack(e)' >= Slack(e)
  PROVE  Headway(s)'
<1>1. Owed(s)' = Owed(s) /\ Owed(s) \in Int
  BY BatchFinite DEF Owed
<1>2. Batched \subseteq TickSteps /\ "capacity" \in TickSteps /\ "pop" \in TickSteps
  BY DEF TickSteps
<1> SUFFICES ASSUME NEW e \in Event, ev[s] = e, ceiling'[e] > 0
             PROVE  /\ pc'[s] = "capacity" /\ ~cancelled'[s] =>
                         \/ active'[e] <= seen'[s]
                         \/ active'[e] + lim'[s] <= ceiling'[e] + Slack(e)'
                    /\ pc'[s] = "pop" /\ ~cancelled'[s] =>
                         active'[e] + lim'[s] <= ceiling'[e] + Slack(e)'
                    /\ pc'[s] \in Batched => active'[e] + Owed(s)' <= ceiling'[e] + Slack(e)'
  BY DEF Headway
<1>3. /\ seen[s] \in Int /\ lim[s] \in Nat /\ active[e] \in Int
      /\ active'[e] \in Int /\ ceiling[e] \in Nat /\ ceiling'[e] \in Nat
  BY DEF TypeOK
<1>4. /\ pc[s] = "capacity" /\ ~cancelled[s] =>
           \/ active[e] <= seen[s]
           \/ active[e] + lim[s] <= ceiling[e] + Slack(e)
      /\ pc[s] = "pop" /\ ~cancelled[s] => active[e] + lim[s] <= ceiling[e] + Slack(e)
      /\ pc[s] \in Batched => active[e] + Owed(s) <= ceiling[e] + Slack(e)
  BY DEF Headway
<1>5. ceiling[e] + Slack(e) <= ceiling'[e] + Slack(e)'
  BY <1>3
<1>6. QED
  BY <1>1, <1>2, <1>3, <1>4, <1>5

\* A step after which the counters are no larger.
LEMMA HeadwayFrame ==
  ASSUME TypeOK, TypeOK', WithinSlack,
         \A e \in Event : Slack(e) \in Int /\ Slack(e)' \in Int /\ Slack(e)' >= Slack(e),
         \A s \in Scheduler :
           \/ Headway(s)'
           \/ /\ pc'[s] = pc[s] /\ ev'[s] = ev[s] /\ lim'[s] = lim[s] /\ seen'[s] = seen[s]
              /\ batch'[s] = batch[s] /\ (cancelled[s] => cancelled'[s]),
         \A e \in Event : active'[e] <= active[e],
         capacity' = capacity, ceiling' = ceiling
  PROVE  WithinSlack'
<1>1. CeilingSound'
  BY DEF WithinSlack, CeilingSound
<1>2. \A e \in Event : Slack(e)' >= 0
  BY DEF WithinSlack
<1>3. \A e \in Event : ceiling'[e] > 0 => active'[e] <= ceiling'[e] + Slack(e)'
  <2> SUFFICES ASSUME NEW e \in Event, ceiling[e] > 0
               PROVE  active'[e] <= ceiling[e] + Slack(e)'
    OBVIOUS
  <2>1. active[e] <= ceiling[e] + Slack(e)
    BY DEF WithinSlack
  <2>2. active[e] \in Int /\ active'[e] \in Int /\ ceiling[e] \in Nat
    BY DEF TypeOK
  <2>3. QED
    BY <2>1, <2>2
<1>4. ASSUME NEW s \in Scheduler
      PROVE  Headway(s)'
  <2>1. CASE Headway(s)'
    BY <2>1
  <2>2. CASE ~Headway(s)'
    <3>1. \A e \in Event : ceiling'[e] > 0 => ceiling[e] > 0 /\ ceiling[e] <= ceiling'[e]
      BY DEF TypeOK
    <3>2. Headway(s) /\ ev[s] \in Event
      BY DEF WithinSlack, TypeOK
    <3>3. QED
      BY <2>2, <3>1, <3>2, HeadwayKept
  <2>3. QED
    BY <2>1, <2>2
<1>5. QED
  BY <1>1, <1>2, <1>3, <1>4 DEF WithinSlack

\* GET active, GET capacity, ZPOPMIN: the quota respects what was read, and a
\* read that fails lets at most one batch more in.
LEMMA HeadwayTick ==
  ASSUME "redis_retry" \notin Faults,
         TypeOK, TypeOK', InHand, SmallBatches, WithinSlack, [Next]_vars,
         NEW s \in Scheduler, NEW r \in Reply,
         GetActive(s, r) \/ GetCapacity(s, r) \/ ZPopMin(s, r)
  PROVE  WithinSlack'
<1> USE DEF redisVars, localVars, histVars
<1>1. /\ capacity' = capacity /\ ceiling' = ceiling /\ active' = active /\ ev' = ev
      /\ cancelled' = cancelled /\ effects' = effects /\ Redis(cancelled[s], r)
  BY DEF GetActive, GetCapacity, ZPopMin
<1>2. \A q \in Scheduler \ {s} : /\ pc'[q] = pc[q] /\ lim'[q] = lim[q] /\ seen'[q] = seen[q]
                                 /\ batch'[q] = batch[q]
  BY DEF GetActive, GetCapacity, ZPopMin, Goto, TypeOK
<1>3. r # "retried" /\ (r = "ok" \/ cancelled[s] \/ faults' = faults + 1)
  BY <1>1, Answered DEF Redis, Fault
<1>4. PICK e \in Event : e = ev[s]
  BY DEF TypeOK
<1>5. /\ seen[s] \in Int /\ lim[s] \in Nat /\ lim[s] <= MaxRate /\ active[e] \in Int
      /\ ceiling[e] \in Nat /\ capacity[e] \in Nat /\ ev'[s] = e
  BY <1>1, <1>4 DEF TypeOK, SmallBatches
<1>6. /\ \A d \in Event : Slack(d) \in Int /\ Slack(d)' \in Int /\ Slack(d)' >= Slack(d)
      /\ Slack(e) >= 0
  BY SlackStep DEF WithinSlack
<1>7. ceiling[e] > 0 => /\ 0 < capacity[e] /\ capacity[e] <= ceiling[e]
                        /\ active[e] <= ceiling[e] + Slack(e)
  BY DEF WithinSlack, CeilingSound
<1>8. ASSUME faults' = faults + 1
      PROVE  ceiling[e] > 0 => active[e] + lim[s] <= ceiling[e] + Slack(e)'
  <2>1. batch[s] = {} /\ pc'[s] # "publish"
    <3>1. pc[s] \notin Batched
      BY DEF GetActive, GetCapacity, ZPopMin, Batched
    <3>2. pc'[s] # "publish"
      BY DEF GetActive, GetCapacity, ZPopMin, Goto, TypeOK
    <3>3. QED
      BY <3>1, <3>2 DEF InHand
  <2>2. \A q \in Scheduler :
          \/ batch'[q] = batch[q] /\ pc'[q] = pc[q] /\ cancelled'[q] = cancelled[q]
          \/ batch[q] \subseteq {} /\ (pc'[q] # "publish" \/ cancelled'[q])
    BY <1>1, <1>2, <2>1
  <2>3. \A t \in Ticket \ {} : IsStray(t)' => IsStray(t)
    BY <1>1, <2>2, StrayFrame
  <2>4. Slack(e)' >= Slack(e) + MaxRate
    BY <1>8, <2>3, SlackKept
  <2>5. QED
    BY <1>5, <1>6, <1>7, <2>4, MaxRateBound
<1>9. Headway(s)'
  <2> SUFFICES ASSUME ceiling[e] > 0
               PROVE  /\ pc'[s] = "capacity" /\ ~cancelled[s] =>
                           \/ active[e] <= seen'[s]
                           \/ active[e] + lim'[s] <= ceiling[e] + Slack(e)'
                      /\ pc'[s] = "pop" /\ ~cancelled[s] =>
                           active[e] + lim'[s] <= ceiling[e] + Slack(e)'
                      /\ pc'[s] \in Batched => active[e] + Owed(s)' <= ceiling[e] + Slack(e)'
    BY <1>1, <1>5 DEF Headway
  <2>1. CASE GetActive(s, r)
    <3>1. pc'[s] = "capacity" /\ (r = "ok" => seen'[s] = active[e]) /\ lim'[s] = lim[s]
      BY <1>4, <2>1 DEF GetActive, Goto, TypeOK
    <3>2. QED
      BY <1>3, <1>5, <1>8, <3>1 DEF Batched
  <2>2. CASE GetCapacity(s, r)
    <3>1. CASE cancelled[s]
      <4>1. pc'[s] \in {"release", "pop"}
        BY <2>2 DEF GetCapacity, Goto, TypeOK
      <4>2. QED
        BY <3>1, <4>1 DEF Batched
    <3>2. CASE ~cancelled[s]
      <4>1. PICK c \in Nat, n \in Int :
              /\ n = Quota(lim[s], c, seen[s])
              /\ r = "ok" => c = capacity[e]
              /\ \/ pc'[s] = "release"
                 \/ pc'[s] = "pop" /\ lim'[s] = n
        <5> DEFINE c == IF r = "ok" THEN capacity[e] ELSE 0
        <5>1. c \in Nat /\ Quota(lim[s], c, seen[s]) \in Int
          BY <1>5 DEF Quota
        <5>2. \/ pc'[s] = "release"
              \/ pc'[s] = "pop" /\ lim'[s] = Quota(lim[s], c, seen[s])
          BY <1>4, <2>2 DEF GetCapacity, Goto, TypeOK
        <5>3. QED
          BY <5>1, <5>2
      <4>2. n <= lim[s] /\ (r = "ok" => n <= capacity[e] - seen[s])
        BY <1>5, <1>7, <4>1 DEF Quota
      <4>3. \/ active[e] <= seen[s]
            \/ active[e] + lim[s] <= ceiling[e] + Slack(e)
        BY <1>4, <2>2, <3>2 DEF WithinSlack, Headway, GetCapacity
      <4>4. active[e] + n <= ceiling[e] + Slack(e)'
        <5>1. CASE r = "ok" /\ active[e] <= seen[s]
          BY <1>5, <1>6, <1>7, <4>1, <4>2, <5>1
        <5>2. CASE active[e] + lim[s] <= ceiling[e] + Slack(e)
          BY <1>5, <1>6, <4>1, <4>2, <5>2
        <5>3. CASE r # "ok"
          <6>1. active[e] + lim[s] <= ceiling[e] + Slack(e)'
            BY <1>3, <1>8, <3>2, <5>3
          <6>2. QED
            BY <1>5, <1>6, <4>1, <4>2, <6>1
        <5>4. QED
          BY <4>3, <5>1, <5>2, <5>3
      <4>5. QED
        BY <4>1, <4>4 DEF Batched
    <3>3. QED
      BY <3>1, <3>2
  <2>3. CASE ZPopMin(s, r)
    <3> DEFINE members == PopMin(score, queue[ev[s]], lim[s])
    <3>1. CASE r = "ok"
      <4>1. /\ pc[s] = "pop" /\ batch'[s] = members
            /\ pc'[s] \in {"issue", "release"}
        BY <2>3, <3>1 DEF ZPopMin, Goto, TypeOK
      <4>2. ~cancelled[s]
        BY <1>1, <3>1 DEF Redis
      <4>3. IsFiniteSet(members) /\ Cardinality(members) <= lim[s]
        <5>1. score \in [Ticket -> Nat] /\ queue[ev[s]] \in SUBSET Ticket
          BY <1>4 DEF TypeOK
        <5>2. QED
          BY <1>5, <5>1, PopMinBound
      <4>4. active[e] + lim[s] <= ceiling[e] + Slack(e)
        BY <1>4, <4>1, <4>2 DEF WithinSlack, Headway
      <4>5. Owed(s)' = Cardinality(members) /\ Cardinality(members) \in Nat
        BY <4>1, <4>3, FS_CardinalityType DEF Owed
      <4>6. active[e] + Owed(s)' <= ceiling[e] + Slack(e)'
        BY <1>5, <1>6, <4>3, <4>4, <4>5
      <4>7. QED
        BY <4>1, <4>6
    <3>2. CASE r # "ok"
      <4>1. pc'[s] = "release"
        BY <1>3, <2>3, <3>2 DEF ZPopMin, Goto, TypeOK
      <4>2. QED
        BY <4>1 DEF Batched
    <3>3. QED
      BY <3>1, <3>2
  <2>4. QED
    BY <2>1, <2>2, <2>3
<1>10. \A d \in Event : active'[d] <= active[d]
  BY <1>1 DEF TypeOK
<1>11. QED
  BY <1>1, <1>2, <1>6, <1>9, <1>10, HeadwayFrame

\* The members of the batch are counted one by one, or skipped.
LEMMA HeadwayMember ==
  ASSUME "redis_retry" \notin Faults,
         TypeOK, TypeOK', InHand, SmallBatches, LockInv, WithinSlack, [Next]_vars,
         NEW s \in Scheduler, NEW t \in Ticket, NEW r \in Reply,
         \/ IssueToken(s, t) \/ HSetToken(s, t, r) \/ DynamoWrite(s, t, r)
         \/ SqsEmit(s, t, r) \/ Incr(s, t, r) \/ PublishAdmitted(s, t, r)
  PROVE  WithinSlack'
<1> USE DEF redisVars, localVars, histVars
<1>1. /\ capacity' = capacity /\ ceiling' = ceiling /\ ev' = ev /\ lim' = lim
      /\ seen' = seen /\ cancelled' = cancelled /\ pc[s] \in Batched /\ t \in batch[s]
  BY DEF IssueToken, HSetToken, DynamoWrite, SqsEmit, Incr, PublishAdmitted, Batched,
         Current, IsFirst
<1>2. \A q \in Scheduler \ {s} : pc'[q] = pc[q] /\ batch'[q] = batch[q]
  BY DEF IssueToken, HSetToken, DynamoWrite, SqsEmit, Incr, PublishAdmitted, NextMember,
         Goto, TypeOK
<1>3. PICK e \in Event : e = ev[s]
  BY DEF TypeOK
<1>4. /\ active[e] \in Int /\ active'[e] \in Int /\ ceiling[e] \in Nat /\ ev'[s] = e
      /\ Cardinality(batch[s]) \in Nat /\ IsFiniteSet(batch[s])
  BY <1>1, <1>3, BatchFinite DEF TypeOK
<1>5. ceiling[e] > 0 => active[e] + Owed(s) <= ceiling[e] + Slack(e)
  BY <1>1, <1>3 DEF WithinSlack, Headway
<1>6. Cardinality(batch[s]) >= 1
  BY <1>1, <1>4, FS_EmptySet
<1>7. \A d \in Event : Slack(d) \in Int /\ Slack(d)' \in Int /\ Slack(d)' >= Slack(d)
  BY SlackStep
<1>8. CASE Incr(s, t, r)
  <2>1. /\ pc[s] = "count" /\ batch' = batch /\ pc' = [pc EXCEPT ![s] = "publish"]
        /\ active' = active \/ active' = [active EXCEPT ![e] = @ + 1]
    BY <1>3, <1>8, Answered DEF Incr, Goto, TypeOK
  <2>2. Owed(s) = Cardinality(batch[s]) /\ Owed(s)' = Cardinality(batch[s]) - 1
    <3>1. pc'[s] = "publish" /\ batch'[s] = batch[s]
      BY <2>1 DEF TypeOK
    <3>2. QED
      BY <1>4, <2>1, <3>1 DEF Owed
  <2>3. active'[e] <= active[e] + 1 /\ \A d \in Event \ {e} : active'[d] = active[d]
    BY <2>1 DEF TypeOK
  <2>4. Headway(s)'
    <3>1. ceiling[e] > 0 => active'[e] + Owed(s)' <= ceiling[e] + Slack(e)'
      BY <1>4, <1>5, <1>7, <2>2, <2>3
    <3>2. pc'[s] = "publish"
      BY <2>1 DEF TypeOK
    <3>3. QED
      BY <1>1, <1>4, <3>1, <3>2 DEF Headway
  <2>5. ASSUME NEW q \in Scheduler \ {s}
        PROVE  Headway(q)'
    <3>1. pc[q] \in TickSteps => ev[q] # e
      BY <1>1, <1>3, <2>5 DEF LockInv, InTick, TickSteps
    <3>2. ev[q] \in Event /\ active[ev[q]] \in Int
      BY DEF TypeOK
    <3>3. pc[q] \in TickSteps => active'[ev[q]] <= active[ev[q]]
      BY <2>3, <3>1, <3>2
    <3>4. \A d \in Event : ceiling'[d] > 0 => ceiling[d] > 0 /\ ceiling[d] <= ceiling'[d]
      BY <1>1 DEF TypeOK
    <3>5. /\ pc'[q] = pc[q] /\ ev'[q] = ev[q] /\ lim'[q] = lim[q] /\ seen'[q] = seen[q]
          /\ batch'[q] = batch[q] /\ (cancelled[q] => cancelled'[q]) /\ Headway(q)
      BY <1>1, <1>2 DEF WithinSlack
    <3>6. QED
      BY <1>7, <3>3, <3>4, <3>5, HeadwayKept
  <2>6. \A d \in Event : ceiling'[d] > 0 => active'[d] <= ceiling'[d] + Slack(d)'
    <3> SUFFICES ASSUME NEW d \in Event, ceiling[d] > 0
                 PROVE  active'[d] <= ceiling[d] + Slack(d)'
      BY <1>1
    <3>1. CASE d = e
      BY <1>4, <1>5, <1>6, <1>7, <2>2, <2>3, <3>1
    <3>2. CASE d # e
      <4>1. active'[d] = active[d] /\ active[d] \in Int /\ ceiling[d] \in Nat
        BY <2>3, <3>2 DEF TypeOK
      <4>2. active[d] <= ceiling[d] + Slack(d)
        BY DEF WithinSlack
      <4>3. QED
        BY <1>7, <4>1, <4>2
    <3>3. QED
      BY <3>1, <3>2
  <2>7. CeilingSound' /\ \A d \in Event : Slack(d)' >= 0
    BY <1>1, <1>7 DEF WithinSlack, CeilingSound
  <2>8. QED
    BY <2>4, <2>5, <2>6, <2>7 DEF WithinSlack
<1>9. CASE ~Incr(s, t, r)
  <2>1. active' = active
    BY <1>9 DEF IssueToken, HSetToken, DynamoWrite, SqsEmit, PublishAdmitted
  <2>2. \/ batch' = batch /\ pc[s] # "publish" /\ pc'[s] \in Batched \ {"publish"}
        \/ batch'[s] = batch[s] \ {t} /\ pc'[s] \in {"tick", "issue"}
    <3>1. CASE NextMember(s, t)
      BY <3>1 DEF NextMember, Goto, TypeOK
    <3>2. CASE ~NextMember(s, t)
      <4>1. \/ IssueToken(s, t) /\ ~NextMember(s, t)
            \/ HSetToken(s, t, r) \/ DynamoWrite(s, t, r) \/ SqsEmit(s, t, r)
        BY <1>9, <3>2, Answered DEF PublishAdmitted
      <4>2. QED
        BY <4>1 DEF IssueToken, HSetToken, DynamoWrite, SqsEmit, AfterStore, Goto, Batched, TypeOK
    <3>3. QED
      BY <3>1, <3>2
  <2>3. Cardinality(batch[s] \ {t}) = Cardinality(batch[s]) - 1
    BY <1>1, <1>4, FS_RemoveElement
  <2>4. pc'[s] # "publish" /\ Owed(s)' \in Int /\ Owed(s) \in Int /\ Owed(s)' <= Owed(s)
    <3>1. pc'[s] # "publish" /\ (batch'[s] = batch[s] \/ batch'[s] = batch[s] \ {t})
      BY <2>2 DEF Batched
    <3>2. /\ Cardinality(batch'[s]) \in Nat
          /\ \/ pc[s] # "publish" /\ Cardinality(batch'[s]) = Cardinality(batch[s])
             \/ Cardinality(batch'[s]) = Cardinality(batch[s]) - 1
      <4>1. CASE batch'[s] = batch[s] \ {t}
        BY <1>4, <1>6, <2>3, <4>1
      <4>2. CASE batch'[s] = batch[s] /\ pc[s] # "publish"
        BY <1>4, <4>2
      <4>3. QED
        BY <2>2, <4>1, <4>2
    <3>3. Owed(s)' = Cardinality(batch'[s])
      BY <3>1, <3>2 DEF Owed
    <3>4. QED
      BY <1>4, <3>1, <3>2, <3>3 DEF Owed
  <2>5. Headway(s)'
    <3>1. ceiling[e] > 0 => active'[e] + Owed(s)' <= ceiling[e] + Slack(e)'
      BY <1>4, <1>5, <1>7, <2>1, <2>4
    <3>2. pc'[s] \notin {"capacity", "pop"}
      BY <2>2 DEF Batched
    <3>3. QED
      BY <1>1, <1>4, <3>1, <3>2 DEF Headway
  <2>6. \A d \in Event : active'[d] <= active[d]
    BY <2>1 DEF TypeOK
  <2>7. QED
    BY <1>1, <1>2, <1>7, <2>5, <2>6, HeadwayFrame
<1>10. QED
  BY <1>8, <1>9

\* Every action keeps within the capacity and the slack of the faults so far.
LEMMA HeadwayStep ==
  ASSUME "redis_retry" \notin Faults,
         TypeOK, TypeOK', InHand, SmallBatches, LockInv, WithinSlack, [Next]_vars
  PROVE  WithinSlack'
<1> USE DEF redisVars, localVars, histVars
<1>a. \A e \in Event : active[e] \in Int /\ active[e] <= active[e]
  BY DEF TypeOK
<1>b. \A e \in Event : Slack(e) \in Int /\ Slack(e)' \in Int /\ Slack(e)' >= Slack(e)
  BY SlackStep
<1>c. ASSUME UNCHANGED <<pc, ev, lim, seen, batch, cancelled, capacity, ceiling>>,
             \A e \in Event : active'[e] <= active[e]
      PROVE  WithinSlack'
  BY <1>b, <1>c, HeadwayFrame
<1>1. CASE UNCHANGED vars
  BY <1>1, <1>a, <1>c DEF vars
<1>2. ASSUME NEW t \in Ticket, NEW r \in Reply,
             \/ \E ms \in Score : ZAdd(t, ms, r)
             \/ HSetMeta(t, r) \/ Expire(t, r) \/ ExpireHash(t)
      PROVE  WithinSlack'
  BY <1>2, <1>a, <1>c DEF ZAdd, HSetMeta, Expire, ExpireHash
<1>3. ASSUME NEW t \in Ticket, NEW r \in Reply, QueueExit(t, r)
      PROVE  WithinSlack'
  <2>1. UNCHANGED <<pc, ev, lim, seen, batch, cancelled, capacity, ceiling>>
    BY <1>3 DEF QueueExit
  <2>2. active' = [active EXCEPT ![EventOf[t]] = IF Applied(r) THEN @ - 1 ELSE @]
    BY <1>3 DEF QueueExit
  <2>3. \A e \in Event : active'[e] <= active[e]
    BY <2>2 DEF TypeOK
  <2>4. QED
    BY <1>c, <2>1, <2>3
<1>4. ASSUME NEW e \in Event, NEW v \in Rates, SetRate(e, v)
      PROVE  WithinSlack'
  BY <1>4, <1>a, <1>c DEF SetRate
<1>5. ASSUME NEW e \in Event, NEW v \in Capacities, SetCapacity(e, v)
      PROVE  WithinSlack'
  <2>1. /\ UNCHANGED <<pc, ev, lim, seen, batch, cancelled, active>> /\ v \in Nat \ {0}
        /\ capacity' = [capacity EXCEPT ![e] = v]
        /\ ceiling' = [ceiling EXCEPT ![e] = IF @ = 0 THEN 0 ELSE Larger(@, v)]
    BY <1>5, ConstantsAssumption DEF SetCapacity
  <2>2. \A d \in Event : ceiling'[d] > 0 => ceiling[d] > 0 /\ ceiling[d] <= ceiling'[d]
    BY <2>1 DEF Larger, TypeOK
  <2>3. CeilingSound'
    BY <2>1 DEF WithinSlack, CeilingSound, Larger, TypeOK
  <2>4. \A d \in Event : ceiling'[d] > 0 => active'[d] <= ceiling'[d] + Slack(d)'
    <3> SUFFICES ASSUME NEW d \in Event, ceiling'[d] > 0
                 PROVE  active[d] <= ceiling'[d] + Slack(d)'
      BY <2>1
    <3>1. ceiling[d] \in Nat /\ ceiling'[d] \in Nat
      BY DEF TypeOK
    <3>2. active[d] <= ceiling[d] + Slack(d)
      BY <2>2 DEF WithinSlack
    <3>3. QED
      BY <1>a, <1>b, <2>2, <3>1, <3>2
  <2>5. ASSUME NEW s \in Scheduler
        PROVE  Headway(s)'
    <3>1. ev[s] \in Event /\ Headway(s)
      BY DEF TypeOK, WithinSlack
    <3>2. QED
      BY <1>a, <1>b, <2>1, <2>2, <3>1, HeadwayKept
  <2>6. \A d \in Event : Slack(d)' >= 0
    BY <1>b DEF WithinSlack
  <2>7. QED
    BY <2>3, <2>4, <2>5, <2>6 DEF WithinSlack
<1>6. ASSUME NEW e \in Event, ExpireLock(e)
      PROVE  WithinSlack'
  BY <1>6, <1>a, <1>c DEF ExpireLock
<1>7. ASSUME NEW s \in Scheduler,
             \/ Crash(s) \/ Stop(s) \/ Sigterm(s) \/ Restart(s) \/ Scan(s)
             \/ \E e \in Event, r \in Reply : AcquireLock(s, e, r)
             \/ \E r \in Reply : GetRate(s, r) \/ PublishTick(s, r) \/ ReleaseLock(s, r)
      PROVE  WithinSlack'
  <2>1. UNCHANGED <<capacity, ceiling, active>>
    BY <1>7 DEF Crash, Stop, Down, Sigterm, Restart, Scan, AcquireLock, GetRate,
                PublishTick, ReleaseLock
  <2>2. \A q \in Scheduler \ {s} :
           /\ pc'[q] = pc[q] /\ ev'[q] = ev[q] /\ lim'[q] = lim[q] /\ seen'[q] = seen[q]
           /\ batch'[q] = batch[q] /\ cancelled'[q] = cancelled[q]
    BY <1>7 DEF Crash, Stop, Down, Sigterm, Restart, Scan, AcquireLock, GetRate,
                PublishTick, ReleaseLock, Goto, TypeOK
  <2>3. \/ UNCHANGED <<pc, ev, lim, seen, batch>> /\ (cancelled[s] => cancelled'[s])
        \/ pc'[s] \in {"idle", "down", "rate", "active", "tick", "release"}
    BY <1>7 DEF Crash, Stop, Down, Sigterm, Restart, Scan, AcquireLock, GetRate,
                PublishTick, ReleaseLock, Goto, TypeOK
  <2>4. pc'[s] \in {"idle", "down", "rate", "active", "tick", "release"} => Headway(s)'
    BY DEF Headway, Batched
  <2>5. QED
    BY <1>a, <1>b, <2>1, <2>2, <2>3, <2>4, HeadwayFrame
<1>8. CASE Server
  BY <1>2, <1>3, <1>8 DEF Server
<1>9. CASE Admin
  BY <1>4, <1>5, <1>9 DEF Admin
<1>10. CASE Environment
  <2>1. ASSUME NEW t \in Ticket, ExpireHash(t)
        PROVE  WithinSlack'
    BY <2>1, <1>a, <1>c DEF ExpireHash
  <2>2. QED
    BY <1>6, <1>7, <1>10, <2>1 DEF Environment
<1>11. ASSUME NEW s \in Scheduler, Work(s)
       PROVE  WithinSlack'
  <2>1. CASE Tick(s)
    BY <1>7, <2>1, HeadwayTick DEF Tick
  <2>2. CASE Member(s)
    BY <2>2, HeadwayMember DEF Member
  <2>3. QED
    BY <1>7, <1>11, <2>1, <2>2 DEF Work
<1>12. QED
  BY <1>1, <1>8, <1>9, <1>10, <1>11 DEF Next

\* One element more.
LEMMA AddOne ==
  ASSUME NEW S, IsFiniteSet(S), NEW x
  PROVE  /\ IsFiniteSet(S \union {x}) /\ Cardinality(S \union {x}) \in Nat
         /\ Cardinality(S \union {x}) <= Cardinality(S) + 1
<1>1. IsFiniteSet(S \union {x}) /\ Cardinality(S) \in Nat
  BY FS_AddElement, FS_CardinalityType
<1>2. CASE x \in S
  <2>1. S \union {x} = S
    BY <1>2
  <2>2. QED
    BY <1>1, <2>1
<1>3. CASE x \notin S
  <2>1. Cardinality(S \union {x}) = Cardinality(S) + 1
    BY <1>3, FS_AddElement
  <2>2. QED
    BY <1>1, <2>1
<1>4. QED
  BY <1>2, <1>3

\* INCR counts a visitor of the event at most once, and only the first exit of a
\* visitor lowers the counter.
LEMMA TallyLowStep ==
  ASSUME "redis_retry" \notin Faults, MaxExits <= 1,
         TypeOK, TypeOK', OwnEvent, TallyLow, [Next]_vars
  PROVE  TallyLow'
<1> USE DEF redisVars, localVars, histVars
<1>a. \A e \in Event : /\ Cardinality(Counted(e)) \in Nat /\ Cardinality(Gone(e)) \in Nat
                       /\ IsFiniteSet(Counted(e)) /\ IsFiniteSet(Gone(e))
                       /\ active[e] \in Int /\ active'[e] \in Int
  BY TicketsFinite DEF Counted, Gone, TypeOK
<1>b. ASSUME active' = active, exits' = exits,
             \A t \in Ticket : /\ "counted" \in effects'[t] => "counted" \in effects[t]
                               /\ effects[t] \subseteq effects'[t]
      PROVE  TallyLow'
  <2>1. \A e \in Event : Counted(e)' = Counted(e) /\ Gone(e)' = Gone(e)
    BY <1>b DEF Counted, Gone
  <2>2. \A t \in Ticket : Admitted(t) => Admitted(t)'
    BY <1>b DEF Admitted
  <2>3. QED
    BY <1>b, <2>1, <2>2 DEF TallyLow
<1>1. CASE UNCHANGED vars
  BY <1>1, <1>b DEF vars
<1>2. ASSUME NEW t \in Ticket, NEW r \in Reply,
             (\E ms \in Score : ZAdd(t, ms, r)) \/ HSetMeta(t, r) \/ Expire(t, r)
      PROVE  TallyLow'
  BY <1>2, <1>b DEF ZAdd, HSetMeta, Expire
<1>3. ASSUME NEW t \in Ticket, NEW r \in Reply, QueueExit(t, r)
      PROVE  TallyLow'
  <2> DEFINE d == EventOf[t]
  <2>1. d \in Event /\ r # "retried" /\ Admitted(t) /\ effects' = effects
    BY <1>3, Answered, ConstantsAssumption DEF QueueExit
  <2>2. exits[t] = 0 /\ exits' = [exits EXCEPT ![t] = @ + 1]
    BY <1>3, <2>1, ConstantsAssumption DEF QueueExit, TypeOK
  <2>3. exits'[t] = 1 /\ \A u \in Ticket \ {t} : exits'[u] = exits[u]
    BY <2>2 DEF TypeOK
  <2>4. /\ active'[d] = active[d] \/ active'[d] = active[d] - 1
        /\ \A e \in Event \ {d} : active'[e] = active[e]
    BY <1>3, <2>1 DEF QueueExit, TypeOK
  <2>5. \A e \in Event : Counted(e)' = Counted(e)
    BY <2>1 DEF Counted
  <2>6. /\ Gone(d)' = Gone(d) \union {t} /\ t \notin Gone(d)
        /\ \A e \in Event \ {d} : Gone(e)' = Gone(e)
    BY <2>2, <2>3 DEF Gone
  <2>7. Cardinality(Gone(d)') = Cardinality(Gone(d)) + 1
    BY <1>a, <2>1, <2>6, FS_AddElement
  <2>8. ASSUME NEW e \in Event
        PROVE  active'[e] >= Cardinality(Counted(e)') - Cardinality(Gone(e)')
    <3>1. active[e] >= Cardinality(Counted(e)) - Cardinality(Gone(e))
      BY DEF TallyLow
    <3>2. CASE e = d
      <4>1. active'[e] >= active[e] - 1
        BY <1>a, <2>4, <3>2
      <4>2. QED
        BY <1>a, <2>5, <2>7, <3>1, <3>2, <4>1
    <3>3. CASE e # d
      BY <1>a, <2>4, <2>5, <2>6, <3>1, <3>3
    <3>4. QED
      BY <3>2, <3>3
  <2>9. \A u \in Ticket : exits'[u] > 0 => Admitted(u)'
    BY <2>1, <2>3 DEF TallyLow, Admitted
  <2>10. QED
    BY <2>8, <2>9 DEF TallyLow
<1>4. CASE Admin \/ Environment
  BY <1>4, <1>b DEF Admin, SetRate, SetCapacity, Environment, ExpireHash, ExpireLock, Crash,
                    Down, Sigterm, Restart
<1>5. ASSUME NEW s \in Scheduler, Stop(s) \/ Scan(s) \/ Tick(s)
      PROVE  TallyLow'
  BY <1>5, <1>b DEF Stop, Down, Scan, Tick, AcquireLock, GetRate, GetActive, GetCapacity,
                    ZPopMin, PublishTick, ReleaseLock
<1>6. ASSUME NEW s \in Scheduler, NEW t \in Ticket, NEW r \in Reply,
             \/ IssueToken(s, t) \/ HSetToken(s, t, r) \/ DynamoWrite(s, t, r)
             \/ SqsEmit(s, t, r) \/ PublishAdmitted(s, t, r)
      PROVE  TallyLow'
  <2>1. active' = active /\ exits' = exits
    BY <1>6 DEF IssueToken, HSetToken, DynamoWrite, SqsEmit, PublishAdmitted
  <2>2. \/ effects' = effects
        \/ \E what \in {"stored", "audited", "emitted", "published"} : Done(t, what, r)
    BY <1>6 DEF IssueToken, HSetToken, DynamoWrite, SqsEmit, PublishAdmitted
  <2>3. \A u \in Ticket : /\ "counted" \in effects'[u] => "counted" \in effects[u]
                          /\ effects[u] \subseteq effects'[u]
    <3>1. ASSUME NEW what \in {"stored", "audited", "emitted", "published"}, Done(t, what, r)
          PROVE  \A u \in Ticket : effects'[u] = effects[u] \/ effects'[u] = effects[u] \union {what}
      BY <3>1 DEF Done, TypeOK
    <3>2. QED
      BY <2>2, <3>1
  <2>4. QED
    BY <1>b, <2>1, <2>3
<1>7. ASSUME NEW s \in Scheduler, NEW t \in Ticket, NEW r \in Reply, Incr(s, t, r)
      PROVE  TallyLow'
  <2> DEFINE d == EventOf[t]
  <2>1. exits' = exits /\ d \in Event /\ ev[s] = d
    BY <1>7, ConstantsAssumption DEF Incr, Current, IsFirst, OwnEvent
  <2>2. CASE Applied(r)
    <3>1. active'[d] = active[d] + 1 /\ \A e \in Event \ {d} : active'[e] = active[e]
      BY <1>7, <2>1, <2>2 DEF Incr, TypeOK
    <3>2. effects'[t] = effects[t] \union {"counted"} /\ \A u \in Ticket \ {t} : effects'[u] = effects[u]
      BY <1>7, <2>2 DEF Incr, Done, TypeOK
    <3>3. \A e \in Event : Gone(e)' = Gone(e)
      BY <2>1 DEF Gone
    <3>4. /\ Counted(d)' = Counted(d) \union {t}
          /\ \A e \in Event \ {d} : Counted(e)' = Counted(e)
      BY <3>2 DEF Counted
    <3>5. Cardinality(Counted(d)') <= Cardinality(Counted(d)) + 1 /\ Cardinality(Counted(d)') \in Nat
      BY <1>a, <2>1, <3>4, AddOne
    <3>6. ASSUME NEW e \in Event
          PROVE  active'[e] >= Cardinality(Counted(e)') - Cardinality(Gone(e)')
      <4>1. active[e] >= Cardinality(Counted(e)) - Cardinality(Gone(e))
        BY DEF TallyLow
      <4>2. CASE e = d
        BY <1>a, <3>1, <3>3, <3>5, <4>1, <4>2
      <4>3. CASE e # d
        BY <1>a, <3>1, <3>3, <3>4, <4>1, <4>3
      <4>4. QED
        BY <4>2, <4>3
    <3>7. \A u \in Ticket : exits'[u] > 0 => Admitted(u)'
      BY <2>1, <3>2 DEF TallyLow, Admitted
    <3>8. QED
      BY <3>6, <3>7 DEF TallyLow
  <2>3. CASE ~Applied(r)
    <3>1. active' = active /\ effects' = effects
      BY <1>7, <2>3 DEF Incr, Done, TypeOK
    <3>2. QED
      BY <1>b, <2>1, <3>1
  <2>4. QED
    BY <2>2, <2>3
<1>8. CASE Server
  BY <1>2, <1>3, <1>8 DEF Server
<1>9. ASSUME NEW s \in Scheduler, Work(s)
      PROVE  TallyLow'
  <2>1. CASE Member(s)
    BY <1>6, <1>7, <2>1 DEF Member
  <2>2. QED
    BY <1>5, <1>9, <2>1 DEF Work
<1>10. QED
  BY <1>1, <1>4, <1>8, <1>9 DEF Next

\* Each fault adds at most the visitors of one tick to the crowd (the ignored
\* errors of tick's GETs, of INCR and of DECR; crashes and signals): those it lets
\* in uncounted are strays, and what it may let in beyond the capacity is slack.
\* It needs that no command is sent twice, no tick outlives its lock and nobody
\* exits twice.
THEOREM OverrunBoundedCorrect ==
  ASSUME "redis_retry" \notin Faults, "slow_tick" \notin Faults, MaxExits <= 1
  PROVE  Spec => []OverrunBounded
<1>1. Init => SmallBatches /\ LockInv /\ OwnEvent /\ TallyLow /\ WithinSlack
  <2> SUFFICES ASSUME Init PROVE SmallBatches /\ LockInv /\ OwnEvent /\ TallyLow /\ WithinSlack
    OBVIOUS
  <2>1. SmallBatches
    BY MaxRateBound, FS_EmptySet DEF Init, SmallBatches
  <2>2. LockInv /\ OwnEvent
    BY DEF Init, LockInv, InTick, TickSteps, Batched, OwnEvent
  <2>3. \A t \in Ticket : effects[t] = {} /\ exits[t] = 0
    BY DEF Init
  <2>4. \A e \in Event : active[e] = 0 /\ Counted(e) = {} /\ Gone(e) = {}
    BY <2>3 DEF Init, Counted, Gone
  <2>5. TallyLow
    BY <2>3, <2>4, FS_EmptySet DEF TallyLow
  <2>6. ASSUME NEW e \in Event
        PROVE  Slack(e) = 0
    <3>1. Stray(e) = {}
      BY <2>3 DEF Init, Stray, IsStray, Admitted, Leaving, Current, IsFirst
    <3>2. faults * MaxRate = 0
      BY MaxRateBound DEF Init
    <3>3. QED
      BY <3>1, <3>2, FS_EmptySet DEF Slack
  <2>7. \A e \in Event : capacity[e] \in Nat /\ ceiling[e] = capacity[e]
    <3>1. Capacities \union {0} \subseteq Nat
      BY ConstantsAssumption
    <3>2. capacity \in [Event -> Capacities \union {0}] /\ ceiling = capacity
      BY DEF Init
    <3>3. QED
      BY <3>1, <3>2
  <2>8. CeilingSound
    BY <2>7 DEF CeilingSound
  <2>9. \A s \in Scheduler : Headway(s)
    BY DEF Init, Headway, Batched
  <2>10. QED
    BY <2>1, <2>2, <2>4, <2>5, <2>6, <2>7, <2>8, <2>9 DEF WithinSlack
<1>2. /\ TypeOK /\ TypeOK' /\ InHand
      /\ SmallBatches /\ LockInv /\ OwnEvent /\ TallyLow /\ WithinSlack /\ [Next]_vars
      => SmallBatches' /\ LockInv' /\ OwnEvent' /\ TallyLow' /\ WithinSlack'
  BY SmallStep, LockStep, OwnEventStep, TallyLowStep, HeadwayStep
<1>3. TypeOK /\ LockInv /\ OwnEvent /\ TallyLow /\ WithinSlack => OverrunBounded
  <2> SUFFICES ASSUME TypeOK, LockInv, OwnEvent, TallyLow, WithinSlack,
                      NEW e \in Event, ceiling[e] > 0
               PROVE  Cardinality(Inside(e)) <= ceiling[e] + faults * MaxRate
    BY DEF OverrunBounded
  <2> DEFINE Waiting == {t \in Ticket : EventOf[t] = e /\ Pending(t)}
             Known == Counted(e) \union Stray(e)
  <2>1. Gone(e) \subseteq Entrants(e) /\ Inside(e) = Entrants(e) \ Gone(e)
    BY DEF Gone, Entrants, Inside, TallyLow, TypeOK
  <2>2. Entrants(e) \subseteq Known \union Waiting
    BY DEF Entrants, Counted, Stray, IsStray
  <2>3. /\ IsFiniteSet(Entrants(e)) /\ Cardinality(Entrants(e)) \in Nat
        /\ IsFiniteSet(Counted(e)) /\ Cardinality(Counted(e)) \in Nat
        /\ IsFiniteSet(Stray(e)) /\ Cardinality(Stray(e)) \in Nat
        /\ Cardinality(Gone(e)) \in Nat
    BY TicketsFinite DEF Entrants, Gone, Counted, Stray
  <2>4. /\ IsFiniteSet(Known) /\ Cardinality(Known) \in Nat
        /\ Cardinality(Known) <= Cardinality(Counted(e)) + Cardinality(Stray(e))
    <3>1. /\ IsFiniteSet(Known) /\ Cardinality(Known) \in Nat
          /\ Cardinality(Counted(e) \intersect Stray(e)) \in Nat
          /\ Cardinality(Known) = Cardinality(Counted(e)) + Cardinality(Stray(e))
                                  - Cardinality(Counted(e) \intersect Stray(e))
      BY <2>3, FS_Union, FS_Intersection, FS_CardinalityType
    <3>2. QED
      BY <2>3, <3>1
  <2>5. Cardinality(Inside(e)) = Cardinality(Entrants(e)) - Cardinality(Gone(e))
    <3>1. Entrants(e) \intersect Gone(e) = Gone(e)
      BY <2>1
    <3>2. QED
      BY <2>1, <2>3, <3>1, FS_Difference
  <2>6. active[e] >= Cardinality(Counted(e)) - Cardinality(Gone(e))
    BY DEF TallyLow
  <2>7. /\ active[e] <= ceiling[e] + Slack(e) /\ active[e] \in Int /\ ceiling[e] \in Nat
        /\ faults * MaxRate \in Nat /\ Slack(e) = faults * MaxRate - Cardinality(Stray(e))
    BY SlackType DEF WithinSlack, TypeOK, Slack
  <2>8. CASE Waiting = {}
    <3>1. Cardinality(Entrants(e)) <= Cardinality(Known)
      BY <2>2, <2>4, <2>8, FS_Subset
    <3>2. QED
      BY <2>3, <2>4, <2>5, <2>6, <2>7, <3>1
  <2>9. CASE Waiting # {}
    <3>1. PICK t \in Waiting : TRUE
      BY <2>9
    <3>2. PICK s \in Scheduler : Current(s, t) /\ pc[s] \in Uncounted
      BY <3>1 DEF Pending
    <3>3. t \in batch[s] /\ ev[s] = e /\ InTick(s, e)
      BY <3>1, <3>2 DEF Current, IsFirst, OwnEvent, InTick, TickSteps, Batched, Uncounted
    <3>4. ASSUME NEW u \in Waiting
          PROVE  u = t
      <4>1. PICK q \in Scheduler : Current(q, u) /\ pc[q] \in Uncounted
        BY DEF Pending
      <4>2. ev[q] = e /\ InTick(q, e)
        BY <3>4, <4>1 DEF Current, IsFirst, OwnEvent, InTick, TickSteps, Batched, Uncounted
      <4>3. q = s
        BY <3>3, <4>2 DEF LockInv
      <4>4. QED
        BY <3>2, <4>1, <4>3, OneFirst DEF Current, TypeOK
    <3>5. Entrants(e) \subseteq Known \union {t}
      BY <2>2, <3>4
    <3>6. /\ IsFiniteSet(Known \union {t}) /\ Cardinality(Known \union {t}) \in Nat
          /\ Cardinality(Known \union {t}) <= Cardinality(Known) + 1
      BY <2>4, AddOne
    <3>7. Cardinality(Entrants(e)) <= Cardinality(Known \union {t})
      BY <3>5, <3>6, FS_Subset
    <3>8. active[e] + Owed(s) <= ceiling[e] + Slack(e)
      BY <3>2, <3>3 DEF WithinSlack, Headway, Uncounted, Batched
    <3>9. Owed(s) = Cardinality(batch[s]) /\ Cardinality(batch[s]) \in Nat
      BY <3>2, BatchFinite DEF Owed, Uncounted
    <3>10. Cardinality(batch[s]) >= 1
      BY <3>3, <3>9, BatchFinite, FS_EmptySet
    <3> HIDE DEF Known
    <3>11. QED
      BY <2>3, <2>4, <2>5, <2>6, <2>7, <3>6, <3>7, <3>8, <3>9, <3>10
  <2>10. QED
    BY <2>8, <2>9
<1>4. QED
  BY <1>1, <1>2, <1>3, TypeCorrect, InHandCorrect, PTL DEF Spec
==============================================================================
