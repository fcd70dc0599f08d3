----------------------------- MODULE RoomProofs -----------------------------
(***************************************************************************)
(* The admission path implements the waiting room: called from the front   *)
(* and admitted at most once, for any number of events, tickets and        *)
(* scheduler instances.                                                    *)
(***************************************************************************)
EXTENDS AdmissionProofs, FiniteSetTheorems

\* ZPOPMIN takes from the front: whoever is ordered before a popped member is
\* popped with it.
LEMMA PopMinFront ==
  ASSUME NEW sc \in [Ticket -> Nat], NEW q \in SUBSET Ticket, NEW n \in Nat
  PROVE  FrontClosed(sc, q, PopMin(sc, q, n))
<1> SUFFICES ASSUME NEW t \in PopMin(sc, q, n), NEW u \in q, Before(sc, u, t)
             PROVE  Rank(sc, q, u) < n
  BY DEF FrontClosed, PopMin
<1> DEFINE A == {w \in q : Before(sc, w, u)}
           B == {w \in q : Before(sc, w, t)}
<1>1. A \subseteq B
  <2>1. t \in Ticket /\ u \in Ticket
    BY DEF PopMin
  <2>2. \A w \in Ticket : w \in Nat /\ sc[w] \in Nat
    BY ConstantsAssumption
  <2>3. ASSUME NEW w \in q, Before(sc, w, u)
        PROVE  Before(sc, w, t)
    <3>1. w \in Ticket
      OBVIOUS
    <3>2. QED
      BY <2>1, <2>2, <2>3, <3>1 DEF Before
  <2>4. QED
    BY <2>3
<1>2. IsFiniteSet(B)
  BY ConstantsAssumption, FS_Subset
<1>3. /\ Cardinality(A) <= Cardinality(B)
      /\ Cardinality(A) \in Nat /\ Cardinality(B) \in Nat
  BY <1>1, <1>2, FS_Subset, FS_CardinalityType
<1>4. Cardinality(B) < n
  BY DEF PopMin, Rank
<1>5. QED
  BY <1>3, <1>4 DEF Rank

\* The visitors the waiting room calls called and admitted.
Called == {t \in Ticket : Arrived(t) /\ tokens[t] = 0 /\ t \notin queue[EventOf[t]]}
Entered == {t \in Ticket : tokens[t] > 0}

\* A step that the waiting room does not see.
LEMMA RoomFrame ==
  ASSUME queue' = queue, score' = score, tokens' = tokens,
         \A t \in Ticket : Arrived(t)' <=> Arrived(t)
  PROVE  UNCHANGED Room!roomVars
BY DEF Room!roomVars

\* Every step of the admission path is a step of the waiting room, or none.
LEMMA RoomStep ==
  ASSUME "redis_retry" \notin Faults, TypeOK, Custody, [Next]_vars
  PROVE  [Room!Next]_(Room!roomVars)
<1>1. CASE UNCHANGED vars
  BY <1>1, RoomFrame DEF vars, Arrived
<1>2. ASSUME NEW t \in Ticket, NEW ms \in Score, NEW r \in Reply, ZAdd(t, ms, r)
      PROVE  [Room!Next]_(Room!roomVars)
  <2>1. r # "retried" /\ jpc[t] = "none"
    BY <1>2, Answered DEF ZAdd, Custody, OneToken
  <2>2. /\ tokens[t] = 0 /\ ~Arrived(t) /\ t \notin queue[EventOf[t]] /\ EventOf[t] \in Event
    BY <2>1, ConstantsAssumption DEF Custody, OneToken, QueueCustody, Arrived
  <2>3. tokens' = tokens /\ \A u \in Ticket \ {t} : Arrived(u)' <=> Arrived(u)
    BY <1>2 DEF ZAdd, histVars, Arrived, TypeOK
  <2>4. CASE r = "failed"
    <3>1. queue' = queue /\ score' = score
      BY <1>2, <2>4 DEF ZAdd, Applied, TypeOK
    <3>2. ~Arrived(t)'
      BY <1>2, <2>1, <2>4 DEF ZAdd, Arrived, TypeOK
    <3>3. QED
      BY <2>2, <2>3, <3>1, <3>2, RoomFrame
  <2>5. CASE r # "failed"
    <3>1. /\ queue' = [queue EXCEPT ![EventOf[t]] = @ \union {t}]
          /\ score' = [score EXCEPT ![t] = ms]
      BY <1>2, <2>5 DEF ZAdd, Applied
    <3>2. score' \in [Ticket -> Nat] /\ \A u \in Ticket \ {t} : score'[u] = score[u]
      BY <3>1, ConstantsAssumption DEF TypeOK
    <3>3. Called' = Called
      <4>1. t \notin Called
        BY <2>2 DEF Called
      <4>2. t \notin Called'
        BY <3>1, <2>2 DEF Called, TypeOK
      <4>3. \A u \in Ticket \ {t} : u \in queue'[EventOf[u]] <=> u \in queue[EventOf[u]]
        BY <3>1, ConstantsAssumption DEF TypeOK
      <4>4. \A u \in Ticket \ {t} : u \in Called' <=> u \in Called
        BY <2>3, <4>3 DEF Called
      <4>5. QED
        BY <4>1, <4>2, <4>4 DEF Called
    <3>4. Room!Arrive(t)
      BY <2>2, <2>3, <3>1, <3>2, <3>3 DEF Room!Arrive, Room!Waiting, Called
    <3>5. QED
      BY <3>4 DEF Room!Next
  <2>6. QED
    BY <2>4, <2>5
<1>3. ASSUME NEW s \in Scheduler, NEW r \in Reply, ZPopMin(s, r)
      PROVE  [Room!Next]_(Room!roomVars)
  <2>a. PICK e \in Event : e = ev[s]
    BY DEF TypeOK
  <2>b. PICK members \in SUBSET Ticket : members = PopMin(score, queue[e], lim[s])
    BY <2>a DEF PopMin, TypeOK
  <2>1. /\ queue' = [queue EXCEPT ![e] = AfterPop(@, members, r)]
        /\ score' = score /\ tokens' = tokens /\ jpc' = jpc
    BY <1>3, <2>a, <2>b DEF ZPopMin, histVars
  <2>2. members \subseteq queue[e] /\ queue[e] \subseteq Ticket
    BY <2>b DEF PopMin, TypeOK
  <2>3. CASE r = "failed"
    <3>1. queue' = queue
      BY <2>1, <2>3 DEF AfterPop, Applied, TypeOK
    <3>2. QED
      BY <2>1, <3>1, RoomFrame DEF Arrived
  <2>4. CASE r # "failed"
    <3>1. queue' = [queue EXCEPT ![e] = @ \ members]
      BY <2>1, <2>4 DEF AfterPop, Applied
    <3>2. FrontClosed(score, queue[e], members)
      BY PopMinFront, <2>b, <2>2 DEF TypeOK
    <3>3. \A u \in members : u \in Ticket /\ EventOf[u] = e /\ Arrived(u) /\ tokens[u] = 0
      BY <2>2 DEF Custody, QueueCustody
    <3>4. \A u \in Ticket : u \notin queue'[EventOf[u]] <=> u \notin queue[EventOf[u]] \/ u \in members
      <4> SUFFICES ASSUME NEW u \in Ticket
                   PROVE  u \notin queue'[EventOf[u]] <=> u \notin queue[EventOf[u]] \/ u \in members
        OBVIOUS
      <4>1. EventOf[u] \in Event
        BY ConstantsAssumption
      <4>2. CASE EventOf[u] = e
        <5>1. queue'[EventOf[u]] = queue[EventOf[u]] \ members
          BY <3>1, <4>1, <4>2 DEF TypeOK
        <5>2. QED
          BY <5>1
      <4>3. CASE EventOf[u] # e
        <5>1. queue'[EventOf[u]] = queue[EventOf[u]] /\ u \notin members
          BY <3>1, <3>3, <4>1, <4>3 DEF TypeOK
        <5>2. QED
          BY <5>1
      <4>4. QED
        BY <4>2, <4>3
    <3>5. Called' = Called \union members
      <4>1. \A u \in Ticket : u \in Called' <=> u \in Called \/ u \in members
        BY <2>1, <3>3, <3>4 DEF Called, Arrived
      <4>2. Called \subseteq Ticket /\ Called' \subseteq Ticket /\ members \subseteq Ticket
        BY <3>3 DEF Called
      <4>3. QED
        BY <4>1, <4>2
    <3>6. Room!Call(e, members)
      BY <2>1, <2>2, <3>1, <3>2, <3>5
         DEF Room!Call, Room!FrontClosed, FrontClosed, Room!Before, Before, Called
    <3>7. QED
      BY <3>6 DEF Room!Next
  <2>5. QED
    BY <2>3, <2>4
<1>4. ASSUME NEW s \in Scheduler, NEW t \in Ticket, IssueToken(s, t)
      PROVE  [Room!Next]_(Room!roomVars)
  <2>1. /\ pc[s] = "issue" /\ t \in batch[s]
        /\ queue' = queue /\ score' = score /\ jpc' = jpc
    BY <1>4 DEF IssueToken, redisVars, Current, IsFirst
  <2>2. tokens[t] = 0 /\ Arrived(t) /\ t \notin queue[EventOf[t]]
    BY <2>1 DEF Custody, BatchCustody, TypeOK
  <2>3. CASE tokens' = tokens
    BY <2>1, <2>3, RoomFrame DEF Arrived
  <2>4. CASE tokens' = [tokens EXCEPT ![t] = @ + 1]
    <3>1. tokens'[t] = 1 /\ \A u \in Ticket \ {t} : tokens'[u] = tokens[u]
      BY <2>2, <2>4 DEF TypeOK
    <3>2. t \in Called /\ Called' = Called \ {t} /\ Entered' = Entered \union {t}
      BY <2>1, <2>2, <3>1 DEF Called, Entered, Arrived
    <3>3. Room!Admit(t)
      BY <2>1, <3>2 DEF Room!Admit, Called, Entered
    <3>4. QED
      BY <3>3 DEF Room!Next
  <2>5. QED
    BY <1>4, <2>3, <2>4 DEF IssueToken
<1>5. ASSUME NEW t \in Ticket, NEW r \in Reply, HSetMeta(t, r) \/ Expire(t, r) \/ QueueExit(t, r)
      PROVE  UNCHANGED Room!roomVars
  <2>1. /\ queue' = queue /\ score' = score /\ tokens' = tokens
        /\ jpc' = jpc \/ /\ jpc[t] \in {"added", "hashed"}
                         /\ \/ jpc' = [jpc EXCEPT ![t] = "hashed"]
                            \/ jpc' = [jpc EXCEPT ![t] = "joined"]
    BY <1>5 DEF HSetMeta, Expire, QueueExit, histVars, TypeOK
  <2>2. \A u \in Ticket : Arrived(u)' <=> Arrived(u)
    BY <2>1 DEF Arrived, TypeOK
  <2>3. QED
    BY <2>1, <2>2, RoomFrame
<1>6. CASE Admin \/ Environment
  <2>1. UNCHANGED <<queue, score, tokens, jpc>>
    BY <1>6 DEF Admin, Environment, SetRate, SetCapacity, ExpireHash, ExpireLock, Crash,
                Sigterm, Restart, Down, redisVars, histVars
  <2>2. QED
    BY <2>1, RoomFrame DEF Arrived
<1>7. ASSUME NEW s \in Scheduler, Work(s),
             \A r \in Reply : ~ZPopMin(s, r),
             \A t \in Ticket : ~IssueToken(s, t)
      PROVE  UNCHANGED Room!roomVars
  <2>1. UNCHANGED <<queue, score, tokens, jpc>>
    BY <1>7 DEF Work, Tick, Member, Scan, Stop, Down, AcquireLock, GetRate, GetActive,
                GetCapacity, PublishTick, ReleaseLock, HSetToken, DynamoWrite, SqsEmit,
                Incr, PublishAdmitted, redisVars, histVars
  <2>2. QED
    BY <2>1, RoomFrame DEF Arrived
<1>8. CASE Server
  BY <1>2, <1>5, <1>8 DEF Server
<1>9. CASE \E s \in Scheduler : Work(s)
  BY <1>3, <1>4, <1>7, <1>9
<1>10. QED
  BY <1>1, <1>6, <1>8, <1>9 DEF Next

\* The admission path implements the waiting room (createTicket's ZADD, admitBatch's
\* ZPOPMIN and issueToken): visitors are called from the front of the line and
\* admitted at most once, as long as no command is sent twice.
THEOREM Implements ==
  ASSUME "redis_retry" \notin Faults
  PROVE  Spec => RoomSpec
<1>1. Init => Room!Init
  <2> SUFFICES ASSUME Init PROVE Room!Init
    OBVIOUS
  <2>1. /\ queue = [e \in Event |-> {}] /\ score = [t \in Ticket |-> 0]
        /\ \A t \in Ticket : ~Arrived(t)
    BY DEF Init, Arrived
  <2>2. \A t \in Ticket : tokens[t] = 0
    BY DEF Init
  <2>3. \A t \in Ticket : ~(tokens[t] > 0)
    BY <2>2
  <2>4. QED
    BY <2>1, <2>3 DEF Room!Init
<1>2. TypeOK /\ Custody /\ [Next]_vars => [Room!Next]_(Room!roomVars)
  BY RoomStep
<1>3. QED
  BY <1>1, <1>2, TypeCorrect, CustodyCorrect, PTL DEF Spec, RoomSpec, Room!Spec
==============================================================================
