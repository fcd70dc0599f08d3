# Verification of the virtual queue

TLA+ modules for the virtual waiting room in this repository: visitors of an
event get a ticket, wait in a Redis sorted set, are admitted in batches by a
scheduler, receive a signed token through polling or an event stream, and
exchange it at the origin for a session.  The modules model the code under
`internal/`, `pkg/middleware/`, `cmd/`, `web/` and the CloudFront edge function.  TLC
checks them on small instances; TLAPS proves the safety properties that hold, all but
one, for every instance.

## 1. Inventory

| Component | State it keeps | Operations | Talks to |
|---|---|---|---|
| Scheduler (`internal/scheduler`, `cmd/scheduler`) | in memory: the events of the round, the tick's rate, active and n, the popped batch, the context | SCAN, lock, three GETs, ZPOPMIN, per ticket: sign, HSET, DynamoDB, SQS, INCR, PUBLISH; PUBLISH tick; unlock | queue Redis, AWS |
| Queue server: join (`handler_join.go`) | none | ZADD, HSET, EXPIRE, cookie, redirect | queue Redis, browser |
| Queue server: status (`handler_status.go`) | one pub/sub subscription per stream | poll: HGETs, ZRANK; stream: SUBSCRIBE, ZRANK, forward messages | queue Redis, page |
| Queue server: exit, admin (`handler_exit.go`, `handler_admin.go`, `handler_events.go`) | none | DECR; SET rate, SET capacity; reads | queue Redis |
| Queue server: validation (`handler_validate.go`) | none | check a token and its ticket's event | queue Redis, guard |
| Waiting page (`web/queue/queue.js`) | timer, EventSource, "navigating" | poll, change to the stream, navigate | status handlers |
| Queue guard (`pkg/middleware/queue_guard.go`) | none; marks in the origin's Redis | session check, token check, validation call, SETNX, new session | origin Redis, validation |
| Tokens (`internal/token`) | none | sign and check admission and session JWTs | |
| Queue Redis | queue, ticket hashes, active, rate, capacity, locks | | |
| Edge function (`stub_origin_guard.js`) | none | check the session, turn `q_admission` into a cookie, redirect to join | browser, origin |
| Stub origin (`cmd/stuborigin`) | none | checkout page, report of the exit | guard, exit handler |
| Admin page (`web/admin/admin.js`) | selected event, timer, last figures, button | load events, select, poll, update | admin handlers |
| Infrastructure, logging | | | not modelled, see section 7 |

Nothing is transactional: every handler is a sequence of single Redis commands
whose errors are mostly ignored, and several scheduler instances and server
processes run at the same time.  The hard behaviours are therefore

* interleavings of commands of two schedulers, and of schedulers with handlers;
* the leader lock, whose TTL may end before the tick does, and whose DEL does not
  look who set it;
* a process that dies, or is told to stop, between ZPOPMIN and what follows it;
* commands that fail, whose answer is lost, or that the client library repeats;
* a push channel without memory (PUBLISH) beside a poll that has one;
* lifetimes that start at different times (token, used mark, session, hash, cookie);
* cookies that belong to a browser while tickets, events and addresses belong to a
  tab;
* pages whose timers send a request while earlier ones are unanswered.

What makes each part correct: the scheduler calls from the front, admits once,
loses nobody, respects the capacity and gets to everybody; the status path
delivers every stored token and admits nobody early; the guard turns a token into
one session; a visitor keeps one place per event, is the only one to be told of the
admission and, unless the page is not told, gets in and can start again after a mishap;
one admission lets one browser in; the dashboard shows, and changes, the
event that is selected.  `PROJECT.json` lists the hazards with the line where each one bites.

## 2. Plan

1. `SortedSet`, `WaitingRoom`, `Admission`: the admission path (done).
2. `StatusDelivery`: composition with the status handlers and the page, with
   overlapping polls (done).
3. `Redemption`: the guard, step by step (done).
4. `Visit`: join, cookies, tabs, edge function, guard and checkout around the
   promise `WaitingRoom` (done).
5. `AdminPage`: the dashboard and the admin handlers (done).
6. Proofs of the admission path: types, lock, single token, refinement, redemption
   (done); audit trail, capacity, losses and overrun under faults (done).
7. Proofs of the parts around it: `Visit`, `StatusDelivery`, `AdminPage` (done).
   The refinement and every invariant that a run finds to hold is a theorem, but
   for `DriftBounded`.
8. Next proofs: `DriftBounded`; that `DeliverySpec` keeps what is proved of `Spec` (its steps are
   steps of `Admission` or only count a fault), hence the theorems of `AdmissionProofs`
   beside a page; the part of `NoBypass` that survives a repeated ZADD; action
   properties of the queue (nobody is put back, no token is taken away).

## 3. Modules

### SortedSet, WaitingRoom
`SortedSet` defines ZRANK, ZPOPMIN and `store.GetPosition` on a set of members
with scores; ties are broken by member, as Redis does.  `WaitingRoom` is the
abstract specification: visitors `Arrive` with a place, groups are `Call`ed from
the front of a line, a called visitor is `Admit`ted once.  It allows a called
visitor to be lost, because the code does (see `pending_forever`).

### Admission
The variables `queue ... lock` are the keys of the queue Redis (`store/keys.go`),
one function from events or tickets each; `hash` keeps which fields a ticket's
hash has.  `jpc` is where `createTicket` is for each ticket; `pc ... cancelled`
are the scheduler processes' program counters and local variables; the rest is
history that no guard of an action reads, except that an exit needs an admission
and is bounded.

| Code | Actions |
|---|---|
| `createTicket` | `ZAdd`, `HSetMeta`, `Expire` |
| `QueueExit`, `UpdateRate` | `QueueExit`, `SetRate`, `SetCapacity` |
| `tickAllEvents`, `GetAllEventIDs` | `Scan` (a failed SCAN is a stuttering step) |
| `tick` | `AcquireLock`, `GetRate`, `GetActive`, `GetCapacity`, `ReleaseLock` |
| `admitBatch` | `ZPopMin`, then per ticket `IssueToken`, `HSetToken`, `DynamoWrite`, `SqsEmit`, `Incr`, `PublishAdmitted`, then `PublishTick` |
| `main`, `Start` | `Sigterm`, `Stop`, `Crash`, `Restart` |
| Redis TTLs | `ExpireLock`, `ExpireHash` |

How a call ends is a parameter: `ok`, `failed` (no effect, error), `lost` (effect,
error) or `retried` (effect, and go-redis sends it again; `NewQueueRedis` keeps the
default of three retries).  Once the context is cancelled every call fails.  The
kinds of fault a run allows are the constant `Faults`, their number `MaxFaults`.
The kinds `slow_tick` and `long_wait` only enable behaviour (a lock that expires
during its tick, a hash that reaches its TTL); they are not counted.  Order of events within a round: SCAN returns keys in any order, so
`AcquireLock` picks any event that is left.  `seen` and `lim` are reset when a tick
ends; the code's locals die there.

### StatusDelivery (extends Admission)
`page`, `poll`, `stream`, `pushed`: the browser page, its poll requests in the
handler, its event stream and the messages waiting in its subscription; `opened` and
`moved` count what the page did.  A page has several polls under way (`Request`), and
an answer is applied whenever it arrives, also when the page streams or is leaving.
Only the tickets in `Viewer` have a page.  `Deliver`
gives a published message to exactly the streams that listen at that moment;
`Subscribe` is the moment Redis executes the SUBSCRIBE, which go-redis does not
wait for.  The read of the rank after it only displays a position, so it is part
of the same step.  An EventSource that is answered with an error status stays
closed; one whose connection breaks connects again.  The q_ticket cookie is
assumed to be the ticket's own, so authorization depends on the hash.

### Redemption
A clock, the issue times of tokens, the mark `token:{jti}` with its expiry, each
browser's session, and requests in `QueueGuard`: `FastPath`, `Verify`,
`ValidateAdmission` (the call and the endpoint), `SetNX`, `Respond`.  Time passes
between the steps, at most `MaxDelay` from the check of the token to SETNX and from
SETNX to the response: the call alone may take two seconds.  A mark lives as long as a
token, but starts later.  A request carries the token in its address, so a reload
carries it again (the edge function puts it into the cookie the guard reads).

In `Visit` the guard is one step, and marks do not end: whether the mark is there when
it matters is the question of this module.

### Visit (uses WaitingRoom)
The way of a visitor through all parts, from the browser's side.  A browser has the
cookies `q_ticket` (`cookie`) and `q_session` (`session`); a tab has the place where
it is and what its address or its request carries: the event, the ticket whose token
or place it is about, the session cookie that was sent.  The queue and the scheduler
are the actions of `WaitingRoom`, which `Admission` is shown to implement, so nothing
is assumed of them that the code does not keep; the scheduler may call any number
from the front and admit in any order.  Scores are left out: places are given in the
order of creation.

| Code | Actions |
|---|---|
| edge function `handler` | `Handler`, `FollowRedirect` |
| `Join`, `doesTicketExist`, `createTicket`, `targetWithEventID` | `Join`, `CreateTicket` with or without the hash, `JoinAnswer` (the event stays in the address) |
| `statusAuthorized`, `pollOnce`, `handleAdmitted` | `Upgrade`, `Admitted` |
| `startSSE`, `QueueStatusSSE` | `Subscribe`, `StreamFails`, `Admitted` |
| `QueueGuard`, `queueErrorPage` | `QueueGuard`, `FollowLink` |
| checkout page | `CompletePurchase` |
| lifetimes of cookies and of the ticket's hash | `ForgetTicket`, `EndSession`, `ForgetHash` |

The visitor opens addresses.  `Open` is the address of an event, or one with
`q_admission` in it: the page leaves the token in the address bar, so once it was handed
to one browser (`handed`) any tab may open it, again and again.  `OpenLink` opens the
address of a waiting page in any browser, or reloads the own one, which then polls
again.  A page that asked for the stream polls no more; if the admission came before the
SUBSCRIBE, it is `silent`, as in the run `stream_missed`.

Mishaps (`MishapKind`) are expired cookies, sessions, hashes and tokens, a key store the
edge function cannot read, failed commands of `Join` (ZADD, ZRANK, HSET) and of the
admission (PUBLISH), a failed validation call or SETNX, lost answers of `Join` and of the
guard, and broken streams.

### AdminPage
`options`, `current`, `stats`, `stale`, `enabled` are the page's selector,
`currentEventId`, `lastStats`, the "(stale)" mark and the button; `fetch` and `put`
are the requests under way, with the step their handler has reached and, for `put`,
whether the page still listens.  `wanted` and `excused` are history: what the operator
asked for last, and the events whose updates something disturbed.  `Uncovered` is one
such disturbance: there is one button for all events, so the answer to an update of
one event enables it while an update of another is under way.  A request to an
endpoint that answers 403 because the admin token is missing is one that fails.

## 4. Runs

| Run | Instance | Shows |
|---|---|---|
| `admission_lock` | 2 schedulers, 2 tickets, scores {0,1}, one fault of any kind but retries and slow ticks | `TypeOK`, `OneHolder`, `AtMostOneToken`, `DriftBounded`: a fault detaches the counter by one visitor at most; refinement `RoomSpec` |
| `admission_capacity` | 1 scheduler, 3 tickets, rate 1, capacities 1 and 2 changing, one fault of any kind but retries and slow ticks | `OverrunBounded`, `LossBounded`: a fault lets at most one batch too many inside, or loses one |
| `admission_slow` | 2 schedulers, 2 tickets, rate 1 or 2, locks expire in the tick, one repeated, failed or lost command, expired hashes | `LossBounded`, `AuditTrailSound` although the lock does not exclude |
| `admission_served` | capacity 1, two faults (crash, stop, failed signature), repeated exits | `EveryoneCalled` if visitors leave, `ActiveWithinCapacity` |
| `delivery` | 2 tickets, threshold 1; the second one's page has two polls under way; one fault | `DeliveryTypeOK`, `OnceEach`, `NoBypass`, `DeliveredUnlessMissed` |
| `redemption` | 1 token, 3 requests, 2 browsers, all failures, requests that take time in the guard | `RedemptionTypeOK`, `OnceWhileValid`, `MarkOutlivesToken` |
| `visit` | 2 browsers, 3 tabs, 2 events, 6 tickets, 3 addresses opened, one mishap of any kind | `VisitTypeOK`, `OwnToken`, `OneGuest`, `RightLine`, `OnePlace`, `GetsIn` |
| `admin_page` | 2 events, 2 fetches and 2 updates under way, 1 switch, 1 failure | `AdminTypeOK`, `LastUpdateWins`, `CatchesUp` |

Four runs end in a violation and document where the code does less than a document
or a comment of the repository says (quoted in `PROJECT.json`, "findings"):

* `pending_forever`: SIGTERM after ZPOPMIN; the "transient window" of
  `handler_status.go` never ends, because no other instance can find the ticket.
* `stream_missed`: a ticket admitted between the poll that says "upgrade" and the
  SUBSCRIBE; the stream has no memory and never looks at the stored token.
* `redeemed_twice`: a token is redeemed as soon as it is signed, and again by a request
  that was verified just before the token expired and reaches SETNX just after the
  mark has.  Token and mark have the same lifetime (`config.go`, lines 16 and 20), so
  the mark does not outlast the requests that are in the guard when the token ends.
* `second_event`: a session of one event hides the admission to another.  The edge
  function and the guard's fast path look at the session only, so the checkout page
  is that of the first event and the second token is never redeemed.

**Limits that a changed cfg shows.**  `OneHolder` needs that no tick outlives the
lock's TTL (`slow_tick`); `AtMostOneToken` and `RoomSpec` need that go-redis does not
repeat a ZADD after its ticket was popped (`redis_retry`); `OverrunBounded` needs at
most one exit per visitor (`MaxExits` 1), because each further one lowers the counter
again; `EveryoneCalled` needs visitors who leave: with `SPECIFICATION FairSpec` in
`admission_served.cfg` a visitor who never reports an exit keeps the only slot for
ever, because the sweep that DESIGN.md describes does not exist.  Adding the fault,
raising the bound or changing the specification in the run's cfg gives the
counterexample.

**Limits that the properties are stated around.**
* A ticket whose HSET in `createTicket` failed, or whose hash has reached its TTL, is
  answered 404 for ever, although `Join` resumes it as long as it has a rank.  The
  delivery properties ask for a complete hash (`Entitled`), `GetsIn` ends there
  (`Stuck`).
* A page that changed to the stream may never be told (`stream_missed`); `GetsIn` ends
  there too (`Stuck`).  It says that this and the next case are all that stops a
  visitor.
* The address with the token works for whoever opens it first, in any browser.
  `OwnToken` says that pages give it to the right browser, `OneGuest` that the browser
  that comes first is the only one; the visitor whose token was used by somebody else,
  or in an answer that was lost, gets a 403 (`Spent`) and has to open the event's
  address again, which leads through the queue a second time (`GetsIn`).
* A visitor called by an instance that stops is never admitted (`pending_forever`);
  in `Visit` the fair scheduler admits everybody it calls, and `LossBounded` says how
  many are lost otherwise.
* For an event with a page of its own `GetsIn` says nothing: that page has no ticket.
* The error page of the guard links to Join with a target that has no host, so that
  wait does not end at the origin (`GetsIn` excepts it, `tab[d].relative`).
* With two tabs one `q_ticket` cookie serves both, and the older page is answered
  403; `OnePlace` and `GetsIn` are about browsers with one tab and one event
  (`Alone`), `OwnToken`, `OneGuest` and `RightLine` about all.
* `startPolling` enables the update button while an update is under way, so does the
  answer to an update of another event (`admin.js`, lines 114 and 119), errors of
  the SETs are ignored, and a broken connection does not stop the handler:
  `LastUpdateWins` excuses events whose updates met one of these (`excused`).
* Ranks can grow, because scores are clocks of several servers (`ZAdd`); no property
  says otherwise.

**Bounds.**  Two tickets are needed for an order and for a loop with a next member,
three for a capacity of one or two to be exceeded; two schedulers for every conflict about a lock or a pop.  One
fault per behaviour (`MaxFaults`) reaches every single failure at every step;
combinations of two are explored in `admission_served` only (the proofs have no such
bound).  The admission runs have one event: events share nothing but the order in which
a scheduler visits them, and the theorems hold for any number of events.
`OverrunBounded` needs three tickets of one event, because capacity one and one fault
allow two.  `LossBounded` is checked twice: with batches of one, three tickets and
crashes and stops, where losing two would be too many, and with batches of two and two
instances whose locks do not exclude.
Scores {0,1} contain every order of two tickets, ties included.  `MaxExits` 2 is one
repetition; in `delivery` it is 0, visitors stay inside, because an exit changes only
`active` and no capacity is set there.  In `Redemption` a lifetime of 3 units and a clock up to 8 let a token
be issued, used, expire and its mark expire; a `MaxDelay` of one unit lets each of these
happen while a request is in the guard; three requests are two tabs of one
browser and a second browser.  In `visit` one browser has a tab for each of two
events and an address without an event, the other one tab in which a second address may
be opened; three addresses are opened in all (`MaxOpens`, `MaxVisits`): enough for two
browsers and for one to come back, for an address with a token to be reloaded, and to be
raced for by another browser.  Six tickets are as many as `Join` can ask for, so creation never
blocks.  One mishap and a second opening are what it takes to be hit by each mishap
at each step and to start again.  Behaviours end when all addresses are opened and
answered, hence no deadlock check.  In `admin_page` one switch after the initial
selection makes answers for two events late, two updates can be in each other's way,
and a page without events stops.  The answer that enables the button for an update of
another event matters from the third update on, which together with two overlapping
fetches is too large for `CatchesUp`: with `MaxSubmits = 3`, `Fetch = {1}` TLC covers
it for `LastUpdateWins` (286,000 states), and the theorem has no bound.

**Fairness.**  `SchedulerFairness`: a scheduler process takes its next step (Go loop
driven by a ticker), ECS restarts a stopped task, Redis expires keys.  Nothing is
assumed of visitors and administrators, except in `VisitorsLeaveSpec`, which
`admission_served` uses: every admitted visitor reports an exit in the end, once.
`DeliverySpec` adds that an open page's timer and its requests make progress.
`VisitSpec`: the scheduler keeps calling and admitting (what `EveryoneCalled` shows, if
nobody is lost), requests are answered and an open waiting page keeps asking, by polls or
by its stream; mishaps are never forced, nor is the change to the stream, which depends
on a rank.  `AdminSpec`: the dashboard's timer fires and its requests are
carried on.  All fairness is weak.

**Capacity under faults.**  `GET active` and `GET capacity` ignore errors
and then read "nobody inside" and "unlimited", and a process that dies between
HSET and INCR leaves a visitor uncounted.  With these faults the crowd does exceed
the capacity: `OverrunBounded` says by how much, one batch per fault, `DriftBounded` how
far the counter can be from the crowd, and `ActiveWithinCapacity` bounds the counter
under crashes, stops and repeated exits.  Without any of these faults the bounds are
exact, which are the theorems `CrowdWithinCapacityCorrect` and `ActiveIsExactCorrect`
(under `Calm`, where only signing and AWS errors are left); no run checks them again.

## 5. Proofs

The theorems hold for any sets of events, tickets, schedulers, browsers, tabs and
requests and any number of faults; the tickets are finitely many.  The assumptions on
the constants are `ConstantsAssumption`, `RatesBounded` (an operator's rates have a
largest one), `RedemptionAssumption`, `VisitAssumption`, `DeliveryAssumption` and
`AdminAssumption`; TLC evaluates each on the runs.  A theorem that needs more, for
example that go-redis repeats no command, says so in its ASSUME, and the limits above
say what happens otherwise.

**Admission**

* `AdmissionProofs!TypeCorrect`: `TypeOK`, whatever faults happen.
* `AdmissionProofs!OneHolderCorrect`: `OneHolder`, if `slow_tick` and `redis_retry`
  are not among the faults.  `OneHolder` is not inductive: it does not say who may
  release a lock.  The invariant is `LockInv`: whoever is in the tick of an event is
  the one who set its lock.  A repeated DEL or an expiry inside a tick breaks it.
* `AdmissionProofs!AtMostOneTokenCorrect`: `AtMostOneToken` without `redis_retry`,
  *with* slow ticks: the lock is not needed.  The invariant `Custody` says that a
  ticket is in its queue, or in the batch of one scheduler, or in neither, and that
  a ticket of a batch has a token only while the loop is at it and past the signing.
* `AdmissionProofs!AuditTrailCorrect`: `AuditTrailSound` with *every* fault.  `InHand`
  says that whoever is in a queue or a batch has arrived, so that the member the loop
  is at stays the same one whoever joins; `Signed` that behind the signing it has a
  token, and before the audit row and the event a stored one.
* `CapacityProofs!ActiveWithinCapacityCorrect`: `ActiveWithinCapacity` without
  `redis_error`, `redis_retry` and `slow_tick`; crashes, stops and repeated exits are
  in.  The invariant `WithinHeadroom` carries the argument from GET active to INCR: what
  is left of a batch plus the counter stays below the ceiling, since the lock
  (`LockInv`) keeps others from adding and exits only lower the counter.
  `PopMinBound` (ZPOPMIN n returns at most n members) rests on the ranks of distinct
  members being distinct.
* `CapacityProofs!ActiveIsExactCorrect`, `CrowdWithinCapacityCorrect`: without a Redis
  fault, a stop or a slow tick and with one exit each (`Calm`).  `Progress` orders what
  has been done for a ticket, `Tally` equates the counter with the counted visitors
  less the exits; at most one visitor per event, the one the loop is at, is inside and
  not counted, and its batch still keeps a slot.
* `LossProofs!LossBoundedCorrect`: `LossBounded` with every fault and no lock.  `Debt`
  contains the lost tickets and those that will be: popped, unfinished and held only by
  instances that are stopping or have passed a command that did not take effect.  Only
  a fault makes it grow, and by at most a batch (`SmallBatches`).
* `LossProofs!OverrunBoundedCorrect`: `OverrunBounded` without `redis_retry` and
  `slow_tick`, with one exit each.  A `Stray` visitor is inside, or about to be, and is
  not going to be counted.  `Slack` is what the faults so far allow, one batch each, less
  the strays: `WithinSlack` is the argument of `WithinHeadroom` with a ceiling raised by
  it, and `TallyLow` says that the counter misses nobody else.
* `RoomProofs!Implements`: `Spec => RoomSpec` without `redis_retry`.  The
  refinement maps `queue` to the line, popped tickets without a token to `called`,
  signed ones to `admitted`.  `PopMinFront` is the step that matters: whoever is
  ordered before a popped member is popped too (subsets of a finite set have no
  larger cardinality).

**Delivery**

* `DeliveryProofs!DeliveryTypeCorrect`, `OnceEachCorrect`: with every fault and any
  number of polls.  `Counts` says that the EventSource was opened once unless there is
  none and that the page moved once if it is gone, so each handler's test of the page's
  state is enough, in whatever order the answers come.
* `DeliveryProofs!NoBypassCorrect`: `NoBypass` without `redis_retry`.  An answer or a
  message may be old when the page acts on it, so `Backed` says of every one that is
  under way that its ticket has been signed; that this cannot be undone comes from
  `Custody` and `Signed`, which the pages, because they only read (`ClientReads`),
  leave alone.

**Redemption**

* `RedemptionProofs!RedemptionTypeCorrect`: `RedemptionTypeOK`.
* `RedemptionProofs!MarkOutlivesTokenCorrect`: if `JwtTTL <= UsedTTL`, which the
  code satisfies with equality.
* `RedemptionProofs!OnceWhileValidCorrect`: `OnceWhileValid`, if the mark lives at least
  as long as the token and as the longest stay of a request in the guard, which is so in the
  code (30 minutes each, against seconds).  While a token is valid its mark is there, so a
  second redemption happens only after its `exp`, and the mark of that one outlives every request
  that was verified before.  Marks that live `MaxDelay` longer than tokens would exclude
  the second one too; the code leaves no such margin, and `redeemed_twice` shows it.

**Visit**

* `VisitProofs!VisitTypeCorrect`, `OwnTokenCorrect`, `RightLineCorrect`: for any
  number of tabs, links and mishaps.  The invariant carries `Belongs`: the ticket in a
  cookie or in the answer of `Join` is the browser's own, a session in use is that of a
  redeemed ticket, and a line holds tickets of its event only.
* `VisitProofs!OneGuestCorrect`: `OneGuest`, with addresses opened by anybody.  What two
  browsers hold is disjoint (`Apart`): only the guard adds an admission to what a browser
  holds, and only one whose token is not used, while everything that is held has been used.
* `VisitProofs!OnePlaceCorrect`: `OnePlace`.  The bound alone is not inductive, because
  a lost cookie costs a place only later.  `Spare` counts the tickets of a browser
  beside the one in its cookie; each of them was paid for by a mishap.

**Admin page**

* `AdminProofs!AdminTypeCorrect`: `AdminTypeOK`; beside the types it needs that a
  request under way is about an offered event (`AdminInv`).
* `AdminProofs!LastUpdateWinsCorrect`: `LastUpdateWins`.  `Orderly` says of an event that
  is not excused that at most one update is under way, that the button is disabled
  meanwhile, and that what Redis holds with the rest of this
  update done (`Outcome`) is what the operator wants.  The induction step failed at
  first where the answer to an update of another event enables the button: that step
  had escaped the run, because it shows only at the third update, and is now
  among the excuses (`Uncovered`).

**Only model-checked**: the liveness properties `EveryoneCalled`,
`DeliveredUnlessMissed`, `GetsIn` and `CatchesUp`, because fairness and ENABLED are out
of the prover's reach; `DriftBounded`, whose proof is still to be done; and the four runs
that end in a violation.

## 6. Mutants

Every property of a passing run has a mutant, defined next to the definition it
replaces: an answer of SETNX that is not looked at, a mark that is too short, ZRANGE, DEL
or ZPOPMAX instead of ZPOPMIN, a headroom that ignores `active`, a loop left early, a lock
without a TTL, a token looked for only while the ticket has a rank, a second event
stream, a rank looked up in the wrong line, a cookie that is not compared, a token left
in the query, a button left enabled, a timer that is not set.
TLC finds the property violated in each.

## 7. Not modelled

* Positions and the `constrained` flag that are displayed, the depth, active users and
  drain estimate of `GetConfig`, the upload URL: reads without effect on the state.
* The pages an operator uploads for an event: their contents are not part of the
  repository.  `Visit` has them as a place without a ticket.
* The headers of CORS and the admin token's comparison: a request that is refused is
  one that fails.  `admin.js` sends no token, so with `INTERNAL_API_TOKEN` set the
  dashboard stays blank.
* The exit report of the checkout page is addressed to `localhost:8080`
  (`cmd/stuborigin/main.go`, line 103); the models have it arrive.
* Cryptography: signatures and secrets are assumed to work.
* Terraform, scripts, logging, configuration parsing: no behaviour of their own;
  their effects (restart of a task, lifetimes, defaults) are actions and constants.
