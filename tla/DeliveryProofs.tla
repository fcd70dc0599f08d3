---------------------------- MODULE DeliveryProofs ----------------------------
(***************************************************************************)
(* How an admission reaches the visitor, proved for any number of tickets, *)
(* schedulers, events, pages and polls on the way.                         *)
(***************************************************************************)
EXTENDS StatusDelivery, AdmissionProofs

\* The EventSources opened and the navigations, as the page's own state tells them:
\* es is never null again, and navigating is never reset.
Counts == /\ opened = [t \in Ticket |-> IF stream[t] = "none" THEN 0 ELSE 1]
          /\ moved = [t \in Ticket |-> IF page[t] = "gone" THEN 1 ELSE 0]

PageInv == DeliveryTypeOK /\ Counts

\* Whatever can still make a page navigate, however stale, stands for a token.
Backed == \A t \in Ticket :
  (\/ "token" \in hash[t] \/ pushed[t] \/ page[t] = "gone"
   \/ \E q \in Request : poll[t][q] = "admitted") => tokens[t] > 0

\* The invariants of Admission that this rests on.
QueueInv == TypeOK /\ InHand /\ AuditTrailSound /\ Signed
------------------------------------------------------------------------------
(***************************************************************************)
(* The page.                                                               *)
(***************************************************************************)

\* A message that arrives in a stream's channel.
LEMMA PageDeliver ==
  ASSUME PageInv, Deliver, UNCHANGED <<page, poll, stream, opened, moved>>
  PROVE  PageInv'
<1>1. pushed' \in [Ticket -> BOOLEAN]
  BY DEF Deliver, PageInv, DeliveryTypeOK
<1>2. \A t \in Ticket : pushed'[t] => stream'[t] = "listening"
  BY DEF Deliver, PageInv, DeliveryTypeOK
<1>3. QED
  BY <1>1, <1>2 DEF PageInv, DeliveryTypeOK, Counts

\* A poll goes on, the rest of the page does not change.
LEMMA PageProgress ==
  ASSUME PageInv, NEW t \in Ticket, NEW q \in Request,
         NEW step \in {"none", "auth", "token", "rank"} \union Answer, Progress(t, q, step)
  PROVE  PageInv'
<1>1. poll' \in [Ticket -> [Request -> {"none", "auth", "token", "rank"} \union Answer]]
  BY DEF PageInv, DeliveryTypeOK, Progress
<1>2. QED
  BY <1>1 DEF PageInv, DeliveryTypeOK, Counts, Progress

\* handleAdmitted.
LEMMA PageAdmitted ==
  ASSUME PageInv, NEW t \in Ticket, HandleAdmitted(t), UNCHANGED opened,
         poll' \in [Ticket -> [Request -> {"none", "auth", "token", "rank"} \union Answer]]
  PROVE  PageInv'
<1>1. CASE page[t] = "gone"
  BY <1>1 DEF PageInv, DeliveryTypeOK, Counts, HandleAdmitted
<1>2. CASE page[t] # "gone"
  <2>1. /\ page' = [page EXCEPT ![t] = "gone"]
        /\ stream' = [stream EXCEPT ![t] = IF @ = "none" THEN @ ELSE "ended"]
        /\ pushed' = [pushed EXCEPT ![t] = FALSE]
        /\ moved' = [moved EXCEPT ![t] = @ + 1]
    BY <1>2 DEF HandleAdmitted, Unsubscribe
  <2>2. DeliveryTypeOK'
    BY <2>1 DEF PageInv, DeliveryTypeOK
  <2>3. moved' = [u \in Ticket |-> IF page'[u] = "gone" THEN 1 ELSE 0]
    <3>1. moved[t] = 0 /\ moved \in [Ticket -> Nat] /\ page \in [Ticket -> {"off", "poll", "sse", "gone"}]
      BY <1>2 DEF PageInv, DeliveryTypeOK, Counts
    <3>2. moved' \in [Ticket -> Nat] /\ moved'[t] = 1 /\ page'[t] = "gone"
      BY <2>1, <3>1
    <3>3. \A u \in Ticket \ {t} : moved'[u] = moved[u] /\ page'[u] = page[u]
      BY <2>1, <3>1
    <3>4. \A u \in Ticket : moved[u] = IF page[u] = "gone" THEN 1 ELSE 0
      BY DEF PageInv, Counts
    <3>5. QED
      BY <3>2, <3>3, <3>4
  <2>4. \A u \in Ticket : stream'[u] = "none" <=> stream[u] = "none"
    BY <2>1 DEF PageInv, DeliveryTypeOK
  <2>5. QED
    BY <2>2, <2>3, <2>4 DEF PageInv, Counts
<1>3. QED
  BY <1>1, <1>2

\* The stream goes on, and stays open for a page that waits for it.
LEMMA PageStream ==
  ASSUME PageInv, NEW t \in Ticket, stream[t] \notin {"none", "ended"},
         NEW to \in {"connecting", "authorized", "listening", "closed"},
         stream' = [stream EXCEPT ![t] = to],
         \/ pushed' = pushed /\ stream[t] # "listening"
         \/ pushed' = Unsubscribe(t),
         UNCHANGED <<page, poll, opened, moved>>
  PROVE  PageInv'
<1>1. pushed' \in [Ticket -> BOOLEAN] /\ pushed'[t] = FALSE
  BY DEF PageInv, DeliveryTypeOK, Unsubscribe
<1>2. \A u \in Ticket \ {t} : pushed'[u] = pushed[u] /\ stream'[u] = stream[u]
  BY DEF PageInv, DeliveryTypeOK, Unsubscribe
<1>3. stream'[t] = to /\ to \notin {"none", "ended"}
  BY DEF PageInv, DeliveryTypeOK
<1>4. DeliveryTypeOK'
  BY <1>1, <1>2, <1>3 DEF PageInv, DeliveryTypeOK
<1>5. \A u \in Ticket : stream'[u] = "none" <=> stream[u] = "none"
  BY <1>2, <1>3
<1>6. QED
  BY <1>4, <1>5 DEF PageInv, Counts

\* pollOnce receives an answer.
LEMMA PageAnswer ==
  ASSUME PageInv, NEW t \in Ticket, NEW q \in Request, PollAnswer(t, q)
  PROVE  PageInv'
<1>1. poll' \in [Ticket -> [Request -> {"none", "auth", "token", "rank"} \union Answer]]
  BY DEF PageInv, DeliveryTypeOK, PollAnswer
<1>2. CASE poll[t][q] = "admitted"
  <2>1. HandleAdmitted(t) /\ UNCHANGED opened
    BY <1>2 DEF PollAnswer
  <2>2. QED
    BY <1>1, <2>1, PageAdmitted
<1>3. CASE poll[t][q] = "upgrade" /\ stream[t] = "none"
  <2>1. /\ page' = [page EXCEPT ![t] = IF @ = "gone" THEN @ ELSE "sse"]
        /\ stream' = [stream EXCEPT ![t] = "connecting"]
        /\ opened' = [opened EXCEPT ![t] = @ + 1]
        /\ UNCHANGED <<pushed, moved>>
    BY <1>3 DEF PollAnswer, NoStreamYet
  <2>2. DeliveryTypeOK'
    BY <1>1, <1>3, <2>1 DEF PageInv, DeliveryTypeOK
  <2>3. opened' = [u \in Ticket |-> IF stream'[u] = "none" THEN 0 ELSE 1]
    BY <1>3, <2>1 DEF PageInv, DeliveryTypeOK, Counts
  <2>4. \A u \in Ticket : page'[u] = "gone" <=> page[u] = "gone"
    BY <2>1 DEF PageInv, DeliveryTypeOK
  <2>5. QED
    BY <2>1, <2>2, <2>3, <2>4 DEF PageInv, Counts
<1>4. CASE poll[t][q] # "admitted" /\ ~(poll[t][q] = "upgrade" /\ stream[t] = "none")
  <2>1. UNCHANGED <<page, stream, pushed, opened, moved>>
    BY <1>4 DEF PollAnswer, NoStreamYet
  <2>2. QED
    BY <1>1, <2>1 DEF PageInv, DeliveryTypeOK, Counts
<1>5. QED
  BY <1>2, <1>3, <1>4

\* Every step keeps the page in order.
LEMMA PageStep == PageInv /\ [DeliveryNext]_allVars => PageInv'
<1> SUFFICES ASSUME PageInv, [DeliveryNext]_allVars
             PROVE  PageInv'
  OBVIOUS
<1>1. CASE UNCHANGED allVars
  BY <1>1 DEF allVars, clientVars, PageInv, DeliveryTypeOK, Counts
<1>2. CASE AdmissionStep
  BY <1>2, PageDeliver DEF AdmissionStep
<1>3. ASSUME NEW t \in Viewer, OpenPage(t) \/ StreamStep(t) \/ StreamLost(t)
      PROVE  PageInv'
  <2>1. t \in Ticket
    BY DeliveryAssumption
  <2>2. CASE OpenPage(t)
    <3>1. /\ page' = [page EXCEPT ![t] = "poll"] /\ page[t] = "off"
          /\ UNCHANGED <<poll, stream, pushed, opened, moved>>
      BY <2>2 DEF OpenPage
    <3>2. DeliveryTypeOK'
      BY <2>1, <3>1 DEF PageInv, DeliveryTypeOK
    <3>3. \A u \in Ticket : page'[u] = "gone" <=> page[u] = "gone"
      BY <2>1, <3>1 DEF PageInv, DeliveryTypeOK
    <3>4. QED
      BY <3>1, <3>2, <3>3 DEF PageInv, Counts
  <2>3. ASSUME NEW r, StreamAuth(t, r)
        PROVE  PageInv'
    <3>1. CASE Authorized(t, r)
      BY <2>1, <2>3, <3>1, PageStream DEF StreamAuth
    <3>2. CASE ~Authorized(t, r)
      BY <2>1, <2>3, <3>2, PageStream DEF StreamAuth
    <3>3. QED
      BY <3>1, <3>2
  <2>4. CASE Subscribe(t)
    BY <2>1, <2>4, PageStream DEF Subscribe
  <2>5. CASE StreamAdmitted(t)
    <3>1. CASE page[t] = "gone"
      BY <2>1, <2>5, <3>1, PageStream DEF StreamAdmitted
    <3>2. CASE page[t] # "gone"
      BY <2>1, <2>5, <3>2, PageAdmitted DEF StreamAdmitted, PageInv, DeliveryTypeOK
    <3>3. QED
      BY <3>1, <3>2
  <2>6. CASE StreamLost(t)
    BY <2>1, <2>6, PageStream DEF StreamLost
  <2>7. QED
    BY <1>3, <2>2, <2>3, <2>4, <2>5, <2>6 DEF StreamStep
<1>4. ASSUME NEW t \in Viewer, NEW q \in Request, PollStep(t, q) \/ PollLost(t, q)
      PROVE  PageInv'
  <2>1. t \in Ticket
    BY DeliveryAssumption
  <2>2. CASE PollAnswer(t, q)
    BY <2>1, <2>2, PageAnswer
  <2>3. CASE PollLost(t, q) \/ StartPoll(t, q)
    BY <2>1, <2>3, PageProgress DEF PollLost, StartPoll
  <2>4. ASSUME NEW r, PollAuth(t, q, r) \/ PollToken(t, q, r) \/ PollRank(t, q, r)
        PROVE  PageInv'
    <3>1. PICK step \in {"token", "failed", "admitted", "rank", "pending", "upgrade", "position"} :
            Progress(t, q, step)
      BY <2>4 DEF PollAuth, PollToken, PollRank
    <3>2. step \in {"none", "auth", "token", "rank"} \union Answer
      BY DEF Answer
    <3>3. QED
      BY <2>1, <3>1, <3>2, PageProgress
  <2>5. QED
    BY <1>4, <2>2, <2>3, <2>4 DEF PollStep
<1>5. QED
  BY <1>1, <1>2, <1>3, <1>4 DEF DeliveryNext

\* The page is in order in every reachable state.
LEMMA PageInvCorrect == DeliverySpec => []PageInv
<1>1. DeliveryInit => PageInv
  BY DEF DeliveryInit, PageInv, DeliveryTypeOK, Counts
<1>2. QED
  BY <1>1, PageStep, PTL DEF DeliverySpec

\* Every variable of the page and of the handlers stays in its domain, the page has
\* an EventSource exactly when it needs one, and a message waits only for a
\* subscribed stream.
THEOREM DeliveryTypeCorrect == DeliverySpec => []DeliveryTypeOK
<1>1. PageInv => DeliveryTypeOK
  BY DEF PageInv
<1>2. QED
  BY <1>1, PageInvCorrect, PTL

\* The page opens one EventSource and navigates once, however many polls overlap and
\* however late they are answered, with any faults (pollOnce, handleAdmitted).
THEOREM OnceEachCorrect == DeliverySpec => []OnceEach
<1>1. PageInv => OnceEach
  BY DEF PageInv, Counts, OnceEach
<1>2. QED
  BY <1>1, PageInvCorrect, PTL
------------------------------------------------------------------------------
(***************************************************************************)
(* Nobody gets past the queue.                                             *)
(***************************************************************************)
Client(t) == \/ OpenPage(t) \/ StreamStep(t) \/ StreamLost(t)
             \/ \E q \in Request : PollStep(t, q) \/ PollLost(t, q)

OnlyRead == /\ UNCHANGED <<redisVars, jpc, pc, localVars, cancelled, histVars>>
            /\ faults' \in Nat

\* Pages, polls and streams only read Admission's state; a command or a connection
\* that fails is counted.
LEMMA ClientReads ==
  ASSUME faults \in Nat, NEW t, Client(t)
  PROVE  OnlyRead
<1> USE DEF redisVars, localVars, histVars
<1>1. ASSUME NEW r, Read(r)
      PROVE  OnlyRead
  BY <1>1, FaultsType DEF Read, OnlyRead
<1>2. CASE UNCHANGED vars
  BY <1>2 DEF vars, OnlyRead
<1>3. CASE StreamLost(t) \/ \E q \in Request : PollLost(t, q)
  BY <1>3 DEF StreamLost, PollLost, Fault, OnlyRead
<1>4. CASE OpenPage(t)
  BY <1>2, <1>4 DEF OpenPage
<1>5. CASE StreamStep(t)
  BY <1>1, <1>2, <1>5 DEF StreamStep, StreamAuth, Subscribe, StreamAdmitted
<1>6. CASE \E q \in Request : PollStep(t, q)
  BY <1>1, <1>2, <1>6 DEF PollStep, StartPoll, PollAuth, PollToken, PollRank, PollAnswer
<1>7. QED
  BY <1>3, <1>4, <1>5, <1>6 DEF Client

\* The invariants of Admission hold in the composition.
LEMMA QueueInvStep ==
  ASSUME QueueInv, [DeliveryNext]_allVars
  PROVE  QueueInv'
<1> USE DEF redisVars, localVars, histVars
<1>1. CASE [Next]_vars
  BY <1>1, TypeStep, InHandStep, AuditStep DEF QueueInv
<1>2. CASE OnlyRead
  <2>1. TypeOK'
    BY <1>2 DEF QueueInv, OnlyRead, TypeOK
  <2>2. InHand'
    BY <1>2 DEF QueueInv, OnlyRead, InHand, Arrived
  <2>3. AuditTrailSound'
    BY <1>2 DEF QueueInv, OnlyRead, AuditTrailSound
  <2>4. Signed'
    BY <1>2 DEF QueueInv, OnlyRead, Signed, Current
  <2>5. QED
    BY <2>1, <2>2, <2>3, <2>4 DEF QueueInv
<1>3. faults \in Nat
  BY DEF QueueInv, TypeOK
<1>4. QED
  BY <1>1, <1>2, <1>3, ClientReads DEF DeliveryNext, AdmissionStep, allVars, Client

\* ... and so does the custody of tickets.
LEMMA CustodyKept ==
  ASSUME "redis_retry" \notin Faults, TypeOK, Custody, [DeliveryNext]_allVars
  PROVE  Custody'
<1> USE DEF redisVars, localVars, histVars
<1>1. CASE [Next]_vars
  BY <1>1, CustodyStep
<1>2. CASE OnlyRead
  BY <1>2 DEF OnlyRead, Custody, QueueCustody, BatchCustody, OneBatch, OneToken, Arrived,
              Current
<1>3. faults \in Nat
  BY DEF TypeOK
<1>4. QED
  BY <1>1, <1>2, <1>3, ClientReads DEF DeliveryNext, AdmissionStep, allVars, Client

\* A token that was signed stays signed.
LEMMA TokensLast ==
  ASSUME TypeOK, [Next]_vars, NEW t \in Ticket, tokens[t] > 0
  PROVE  tokens'[t] > 0
<1> USE DEF redisVars, localVars, histVars
<1>1. ASSUME NEW s \in Scheduler, NEW u \in Ticket, IssueToken(s, u)
      PROVE  tokens'[t] > 0
  <2>1. tokens' = tokens \/ tokens' = [tokens EXCEPT ![u] = @ + 1]
    BY <1>1 DEF IssueToken
  <2>2. QED
    BY <2>1 DEF TypeOK
<1>2. CASE tokens' = tokens
  BY <1>2
<1>3. CASE Server \/ Admin
  BY <1>2, <1>3 DEF Server, ZAdd, HSetMeta, Expire, QueueExit, Admin, SetRate, SetCapacity
<1>4. CASE Environment
  BY <1>2, <1>4 DEF Environment, ExpireHash, ExpireLock, Crash, Down, Sigterm, Restart
<1>5. ASSUME NEW s \in Scheduler, Scan(s) \/ Tick(s) \/ Stop(s)
      PROVE  tokens' = tokens
  BY <1>5 DEF Scan, Tick, AcquireLock, GetRate, GetActive, GetCapacity, ZPopMin,
              PublishTick, ReleaseLock, Stop, Down
<1>6. ASSUME NEW s \in Scheduler, Member(s)
      PROVE  tokens'[t] > 0
  BY <1>1, <1>2, <1>6 DEF Member, HSetToken, DynamoWrite, SqsEmit, Incr, PublishAdmitted
<1>7. QED
  BY <1>2, <1>3, <1>4, <1>5, <1>6 DEF Next, vars, Work

\* The hash of a ticket gets a token only after one was signed.
LEMMA StoredSigned ==
  ASSUME QueueInv, [Next]_vars, NEW t \in Ticket, "token" \in hash'[t]
  PROVE  "token" \in hash[t] \/ tokens[t] > 0
<1> USE DEF redisVars, localVars, histVars
<1>1. ASSUME NEW s \in Scheduler, NEW u \in Ticket, NEW r, HSetToken(s, u, r)
      PROVE  "token" \in hash[t] \/ tokens[t] > 0
  <2>1. tokens[u] > 0
    BY <1>1 DEF HSetToken, QueueInv, Signed, Batched
  <2>2. hash' = [hash EXCEPT ![u] = IF Applied(r) THEN @ \union {"token"} ELSE @]
    BY <1>1 DEF HSetToken
  <2>3. QED
    BY <2>1, <2>2 DEF QueueInv, TypeOK
<1>2. CASE hash' = hash
  BY <1>2
<1>3. ASSUME NEW u \in Ticket,
             ExpireHash(u) \/ \E r \in Reply : HSetMeta(u, r) \/ Expire(u, r)
      PROVE  "token" \in hash[t]
  <2>1. hash'[u] \subseteq hash[u] \union {"meta", "ttl"}
    <3>1. hash \in [Ticket -> SUBSET {"meta", "token", "ttl"}]
      BY DEF QueueInv, TypeOK
    <3>2. CASE ExpireHash(u)
      BY <3>1, <3>2 DEF ExpireHash
    <3>3. ASSUME NEW r, HSetMeta(u, r)
          PROVE  hash'[u] \subseteq hash[u] \union {"meta", "ttl"}
      BY <3>1, <3>3 DEF HSetMeta
    <3>4. ASSUME NEW r, Expire(u, r)
          PROVE  hash'[u] \subseteq hash[u] \union {"meta", "ttl"}
      BY <3>1, <3>4 DEF Expire
    <3>5. QED
      BY <1>3, <3>2, <3>3, <3>4
  <2>2. \A w \in Ticket \ {u} : hash'[w] = hash[w]
    BY <1>3 DEF ExpireHash, HSetMeta, Expire, QueueInv, TypeOK
  <2>3. QED
    BY <2>1, <2>2
<1>4. CASE Server \/ Admin
  BY <1>2, <1>3, <1>4 DEF Server, ZAdd, QueueExit, Admin, SetRate, SetCapacity
<1>5. CASE Environment
  BY <1>2, <1>3, <1>5 DEF Environment, ExpireLock, Crash, Down, Sigterm, Restart
<1>6. ASSUME NEW s \in Scheduler, Scan(s) \/ Tick(s) \/ Stop(s)
      PROVE  hash' = hash
  BY <1>6 DEF Scan, Tick, AcquireLock, GetRate, GetActive, GetCapacity, ZPopMin,
              PublishTick, ReleaseLock, Stop, Down
<1>7. ASSUME NEW s \in Scheduler, Member(s)
      PROVE  "token" \in hash[t] \/ tokens[t] > 0
  BY <1>1, <1>2, <1>7 DEF Member, IssueToken, DynamoWrite, SqsEmit, Incr, PublishAdmitted
<1>8. QED
  BY <1>2, <1>4, <1>5, <1>6, <1>7 DEF Next, vars, Work

\* What makes a page navigate is backed by a token after the queue's steps.
LEMMA BackedByQueue ==
  ASSUME PageInv, QueueInv, Backed, AdmissionStep
  PROVE  Backed'
<1> SUFFICES ASSUME NEW t \in Ticket,
                    \/ "token" \in hash'[t] \/ pushed'[t] \/ page'[t] = "gone"
                    \/ \E q \in Request : poll'[t][q] = "admitted"
             PROVE  tokens'[t] > 0
  BY DEF Backed
<1>1. Next /\ Deliver /\ UNCHANGED <<page, poll>> /\ TypeOK
  BY DEF AdmissionStep, QueueInv
<1>2. SUFFICES tokens[t] > 0
  BY <1>1, TokensLast
<1>3. CASE "token" \in hash'[t]
  BY <1>1, <1>3, StoredSigned DEF Backed
<1>4. CASE pushed'[t]
  <2>1. pushed[t] \/ Published(t)
    BY <1>1, <1>4 DEF Deliver
  <2>2. ASSUME NEW s \in Scheduler, NEW r, PublishAdmitted(s, t, r)
        PROVE  tokens[t] > 0
    BY <2>2 DEF PublishAdmitted, QueueInv, Signed, Batched
  <2>3. QED
    BY <2>1, <2>2 DEF Published, Backed
<1>5. CASE page'[t] = "gone" \/ \E q \in Request : poll'[t][q] = "admitted"
  BY <1>1, <1>5 DEF Backed
<1>6. QED
  BY <1>3, <1>4, <1>5

\* ... and after the steps of a page: a poll finds the token in the hash, and the page
\* acts on an answer or a message only.
LEMMA BackedByClient ==
  ASSUME PageInv, QueueInv, Backed, NEW t \in Ticket, Client(t)
  PROVE  Backed'
<1>1. hash' = hash /\ tokens' = tokens
  BY ClientReads DEF OnlyRead, redisVars, histVars, QueueInv, TypeOK
<1>2. /\ page \in [Ticket -> {"off", "poll", "sse", "gone"}] /\ pushed \in [Ticket -> BOOLEAN]
      /\ poll \in [Ticket -> [Request -> {"none", "auth", "token", "rank"} \union Answer]]
  BY DEF PageInv, DeliveryTypeOK
<1>3. ASSUME \A u \in Ticket : pushed'[u] => pushed[u],
             \A u \in Ticket : page'[u] = "gone" => page[u] = "gone" \/ tokens[u] > 0,
             \A u \in Ticket, q \in Request :
               poll'[u][q] = "admitted" => poll[u][q] = "admitted" \/ tokens[u] > 0
      PROVE  Backed'
  BY <1>1, <1>3 DEF Backed
<1>4. ASSUME HandleAdmitted(t), tokens[t] > 0
      PROVE  /\ \A u \in Ticket : pushed'[u] => pushed[u]
             /\ \A u \in Ticket : page'[u] = "gone" => page[u] = "gone" \/ tokens[u] > 0
  BY <1>2, <1>4 DEF HandleAdmitted, Unsubscribe
<1>5. \A u \in Ticket : [pushed EXCEPT ![t] = FALSE][u] => pushed[u]
  BY <1>2
<1>6. CASE OpenPage(t)
  BY <1>2, <1>3, <1>6 DEF OpenPage
<1>7. CASE StreamLost(t)
  BY <1>3, <1>5, <1>7 DEF StreamLost, Unsubscribe
<1>8. CASE StreamStep(t)
  <2>1. CASE StreamAdmitted(t) /\ page[t] # "gone"
    BY <1>3, <1>4, <2>1 DEF StreamAdmitted, Backed
  <2>2. CASE StreamAdmitted(t) /\ page[t] = "gone"
    BY <1>3, <1>5, <2>2 DEF StreamAdmitted, Unsubscribe
  <2>3. QED
    BY <1>3, <1>8, <2>1, <2>2 DEF StreamStep, StreamAuth, Subscribe
<1>9. ASSUME NEW q \in Request, NEW step, Progress(t, q, step),
             step = "admitted" => tokens[t] > 0
      PROVE  Backed'
  <2>1. \A u \in Ticket, p \in Request :
          poll'[u][p] = "admitted" => poll[u][p] = "admitted" \/ tokens[u] > 0
    BY <1>2, <1>9 DEF Progress
  <2>2. QED
    BY <1>3, <1>9, <2>1 DEF Progress
<1>10. ASSUME NEW q \in Request, NEW r, PollToken(t, q, r)
       PROVE  Backed'
  <2>1. CASE TokenFound(t, r)
    BY <1>9, <1>10, <2>1 DEF PollToken, TokenFound, Backed
  <2>2. CASE ~TokenFound(t, r)
    BY <1>9, <1>10, <2>2 DEF PollToken
  <2>3. QED
    BY <2>1, <2>2
<1>11. ASSUME NEW q \in Request, NEW r,
              \/ PollAuth(t, q, r) \/ PollRank(t, q, r) \/ StartPoll(t, q) \/ PollLost(t, q)
       PROVE  Backed'
  <2>1. \E step \in {"none", "auth", "token", "failed", "pending", "upgrade", "position"} :
          Progress(t, q, step)
    BY <1>11 DEF PollAuth, PollRank, StartPoll, PollLost
  <2>2. QED
    BY <1>9, <2>1
<1>12. ASSUME NEW q \in Request, PollAnswer(t, q)
       PROVE  Backed'
  <2>1. \A u \in Ticket, p \in Request : poll'[u][p] = "admitted" => poll[u][p] = "admitted"
    BY <1>2, <1>12 DEF PollAnswer
  <2>2. CASE poll[t][q] = "admitted"
    <3>1. HandleAdmitted(t) /\ tokens[t] > 0
      BY <1>12, <2>2 DEF PollAnswer, Backed
    <3>2. QED
      BY <1>3, <1>4, <2>1, <3>1
  <2>3. CASE poll[t][q] # "admitted"
    <3>1. pushed' = pushed /\ \A u \in Ticket : page'[u] = "gone" => page[u] = "gone"
      BY <1>2, <1>12, <2>3 DEF PollAnswer
    <3>2. QED
      BY <1>3, <2>1, <3>1
  <2>4. QED
    BY <2>2, <2>3
<1>13. QED
  BY <1>6, <1>7, <1>8, <1>10, <1>11, <1>12 DEF Client, PollStep

\* A visitor leaves the waiting page only after being popped and given a token,
\* however stale the answer or the message is that the page acts on.  (go-redis
\* repeating a ZADD can put an admitted ticket back into the queue, hence the
\* assumption.)
THEOREM NoBypassCorrect ==
  ASSUME "redis_retry" \notin Faults
  PROVE  DeliverySpec => []NoBypass
<1> DEFINE Inv == PageInv /\ QueueInv /\ Custody /\ Backed
<1>1. DeliveryInit => Inv
  <2> SUFFICES ASSUME DeliveryInit
               PROVE  Inv
    OBVIOUS
  <2>1. Init
    BY DEF DeliveryInit
  <2>2. PageInv
    BY DEF DeliveryInit, PageInv, DeliveryTypeOK, Counts
  <2>3. TypeOK
    BY <2>1, InitType
  <2>4. /\ InHand /\ AuditTrailSound /\ Signed
        /\ Custody
    <3>1. /\ \A e \in Event : queue[e] = {}
          /\ \A s \in Scheduler : batch[s] = {}
          /\ \A u \in Ticket : tokens[u] = 0 /\ effects[u] = {} /\ jpc[u] = "none"
      BY <2>1 DEF Init
    <3>2. InHand /\ AuditTrailSound /\ Signed
      BY <3>1 DEF InHand, AuditTrailSound, Signed, Current, IsFirst
    <3>3. Custody
      BY <3>1 DEF Custody, QueueCustody, BatchCustody, OneBatch, OneToken
    <3>4. QED
      BY <3>2, <3>3
  <2>5. Backed
    BY <2>1 DEF DeliveryInit, Init, Backed
  <2>6. QED
    BY <2>2, <2>3, <2>4, <2>5 DEF QueueInv
<1>2. Inv /\ [DeliveryNext]_allVars => Inv'
  <2> SUFFICES ASSUME Inv, [DeliveryNext]_allVars
               PROVE  Inv'
    OBVIOUS
  <2>1. PageInv' /\ QueueInv'
    BY PageStep, QueueInvStep
  <2>2. Custody'
    BY CustodyKept DEF QueueInv
  <2>3. ASSUME UNCHANGED allVars
        PROVE  Backed'
    BY <2>3 DEF Backed, allVars, vars, clientVars
  <2>4. ASSUME AdmissionStep
        PROVE  Backed'
    BY <2>4, BackedByQueue
  <2>5. ASSUME NEW t \in Viewer, Client(t)
        PROVE  Backed'
    BY <2>5, BackedByClient, DeliveryAssumption
  <2>6. Backed'
    BY <2>3, <2>4, <2>5 DEF DeliveryNext, Client
  <2>7. QED
    BY <2>1, <2>2, <2>6
<1>3. Inv => NoBypass
  <2> SUFFICES ASSUME Inv, NEW t \in Ticket, page[t] = "gone"
               PROVE  tokens[t] > 0 /\ t \notin queue[EventOf[t]]
    BY DEF NoBypass
  <2>1. tokens[t] > 0
    BY DEF Backed
  <2>2. QED
    BY <2>1, ConstantsAssumption DEF Custody, QueueCustody
<1>4. QED
  BY <1>1, <1>2, <1>3, PTL DEF DeliverySpec
==============================================================================
