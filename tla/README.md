# Realtime notifications: a TLA+ verification project

The system under `src/` accepts notifications over HTTP, stores each in
Postgres, puts a job for it on a BullMQ queue in Redis, and delivers it by
websocket or email from workers, with retries, a dead-letter queue, an admin
endpoint that re-drives dead letters, idempotency keys, a per-recipient rate
limit, a fanout endpoint, a cleanup of demo users and an orderly shutdown. It
runs as several identical replicas; everything they share is in Postgres or in
Redis. This directory holds models of that system, the runs that check them
with TLC and the theorems proved about them with TLAPS.

Paths below are relative to `src/` of the repository unless they start with a
module's name.

## 1. Inventory

| Component (source) | State | Operations | What makes it correct |
|---|---|---|---|
| Notification queues (`src/queue/notifications.ts`) | two BullMQ queues in Redis: job data, retry counters, locks | `enqueueNotification`; everything else is BullMQ: hand out, retry with exponential backoff, fail, stalled check | a job ends completed or failed after at most 5 attempts; two workers share a job only after a lost lock |
| Notification creation (`src/services/notifications.service.ts`, `src/services/idempotency.ts`, `POST /notifications`) | rows of `Notification` with a unique `idempotencyKey`; Redis keys `idem:notification:*` | reserve, look up, insert + enqueue + update in one transaction, release on failure | one row per key; a row is never without its job; a retry is not blocked by a ghost key; all replays name one row |
| Fanout (`src/services/fanout.service.ts`) | two lists in the answer | one creation per recipient under a derived key | a 200 says the truth about every recipient; a retried fanout creates no second row |
| Websocket worker (`src/workers/websocket.worker.ts`) | the await a run is at | find row, ask presence on all replicas, emit, mark SENT | SENT only after an emit; nothing sent for a rolled-back row; no send after SENT; an online recipient gets it |
| Email worker (`src/workers/email.worker.ts`) | the same | find row, check payload, find user, send mail, mark SENT | the same |
| Failure handler and dead-letter queue (`src/workers/failure-handler.ts`, `src/queue/deadletter.ts`) | `'failed'` listeners nobody awaits; entries in a third queue | progress note, or DEAD_LETTER and then the entry | dead-lettered iff BullMQ will never run the job again; a DEAD_LETTER row has an entry that leads back to it |
| Admin endpoints (`src/routes/admin.ts`) | none of its own | list; retry = fetch entry, enqueue, reset row, remove entry | a re-drive loses nothing, also when it fails half-way or runs twice; only DEAD_LETTER rows go back to QUEUED |
| Demo cleanup (`src/workers/cleanup.worker.ts`, `src/queue/cleanup.ts`) | a job scheduler in Redis | register the schedule on every boot; delete demo users past their TTL, cascade to rows | one schedule; no live session is deleted, and in the end every demo user is; runs and handlers cope with rows vanishing under them |
| Rate limiter (`src/middleware/ratelimit.ts`) | hash `tokens`, `last_refill` per recipient, with an expiry | one Lua script | at most the burst plus the refill in any interval; `Retry-After`, in whole seconds, is enough and less than a second too long |
| Socket rooms and registry (`src/ws/server.ts`, `src/ws/registry.ts`) | two maps per process; rooms of Socket.io | handshake, connection, disconnect | the maps mirror the rooms; nobody is in a room without a valid token of its user at the handshake; no key is left behind |
| Graceful shutdown (`src/lib/shutdown.ts`, its targets in `src/server.ts` and `src/workers/index.ts`) | a flag, a timer, signal listeners | close http, workers, queues, Prisma, Redis in order | each closed once; queues, Prisma and the main Redis connection outlive the work that needs them; the drain ends without the timer unless a close hangs |
| Authentication and demo tokens (`src/routes/auth.ts`, `src/middleware/auth.ts`, the handshake in `src/ws/server.ts`) | rows of `User`; tokens in the hands of clients | mint a dev or a demo token; the `preHandler`s of the routes; verify a handshake | no token, no route and no room; no budget of the rate limiter for strangers; demo callers get past neither fanout nor admin |
| History (`GET /notifications` in `src/routes/notifications.ts`) | none; the client keeps a cursor | one page | a walk repeats nothing, misses nothing and ends, while rows come, change and go |
| Error handler, wiring, browser pages | – | – | not modelled, see section 8 |

How they interact: a request inserts the row and adds the job *inside* the
transaction, so the job is visible before the row. Workers of all replicas
take jobs from Redis; each run awaits Postgres, Redis and the recipient's
sockets on other replicas, and any other actor moves at each await. BullMQ
settles the job and then fires `'failed'`, whose listener runs detached from
the run that caused it. The admin endpoint and the cleanup change rows that
runs and listeners have already read. Shutdown closes under all of them.

Hard here: visibility before commit; partial failure between two stores (row in
Postgres, job and reservation in Redis) with no common transaction; replies
lost after their effect; redelivery after a crash or a lost lock, with the
former holder still running (a zombie); presence that is stale when used; two
opinions on what a final failure is (BullMQ's and the failure handler's);
retries of retries by admins and clients; clocks of different processes; the
order of closes; a cursor into a result that changes between two pages; the age
of a row against the life of a token that was signed later. `PROJECT.json` lists each at its line under `hazards` with the
properties meant to catch it.

## 2. Modules

```
JobQueue  <-EXTENDS-  Delivery  <-  DeliveryProperties  <-  MCDelivery
                                        |      ^-- DeliveryProofs <- LifecycleProofs
                                        +-INSTANCE-> Lifecycle   (abstract)
Idempotency  <-INSTANCE-  Fanout  <-  MCFanout
     ^-- IdempotencyProofs <-INSTANCE- FanoutProofs (EXTENDS Fanout)
RateLimiter  <-  MCRateLimiter;  <-  RateLimiterProofs
Registry  <-EXTENDS-  Sessions  <-  SessionsProofs   (Sessions implements Registry)
History      <-  HistoryProofs
Shutdown     <-  ShutdownProofs
```

- **JobQueue** – BullMQ as this code uses it: a job with a retry budget, a lock,
  and the states waiting, active, delayed, completed, failed. The library is
  not part of the repository; its operators are marked external and describe
  the locked version 5.76.4. The websocket and the email queue are one set of
  jobs: no property depends on which of two identically configured queues a
  job is in, and a worker slot takes jobs of either.
- **Delivery** – the pipeline from the creating transaction to SENT, DEAD_LETTER
  and back. One action per stretch of code between two awaits. Worker `w`'s
  `pc[w]` is the await its `handleJob` is at; `handlers` is the set of
  `'failed'` listeners under way with the stage each is at; `adminPc[a]` the
  await of one retry request. Composes the queue, both workers, the failure
  handler, the dead-letter queue, the admin endpoint and the cleanup.
- **DeliveryProperties** – its invariants, action and liveness properties,
  fairness and the refinement mapping.
- **Lifecycle** – the abstract specification: what a client may believe about one
  notification (none, QUEUED, SENT only after a push, DEAD_LETTER, deleted),
  with no queue, worker or table in sight. It has three strengths: `LiveSpec`, in which
  QUEUED always ends SENT or DEAD_LETTER; `FaultySpec`, which adds `Misjudge` (a SENT row
  becomes DEAD_LETTER, which happens when the reply of the SENT update is lost); and
  `DisturbedSpec`, which lets a pushed notification be pushed again (`PushAgain`) and a
  row that is there be judged anew (`Rejudge`), as zombies and re-drives do.
- **Idempotency** – concurrent calls of `createNotification`: reservation,
  lookup, transaction with the unique index as second layer, release.
  Parameterised by the set of calls and their keys.
- **Fanout** – `POST /notifications/fanout`: instantiates Idempotency with one call
  per fanout and recipient, keys derived as pairs, beside plain posts that may
  use the same keys, each for a user of its own (`PostUser`).
- **RateLimiter** – the Lua script as one atomic action, called with timestamps
  read up to `MaxDelay` ticks earlier, and the whole seconds of `Retry-After` that
  `checkRateLimit` makes of its answer (`retryAfterSeconds`; `Second` is the ticks of one).
- **Registry** – handshake, rooms and the two maps of one process. Whether a
  handshake succeeds, and as whom, is left open: it is the abstract specification
  that Sessions implements.
- **Sessions** – extends Registry by what decides that: users, demo tokens that
  expire, dev tokens that do not, the handshake that verifies them, the hooks in
  front of the routes (`preHandler`, `gate`), and the cleanup of demo users with
  its job scheduler over boots of several replicas. Every step of a socket in
  Registry is a step here; the rest leaves the sockets alone, so a socket
  outlives its token and its user as it does in the code. The history variable `proven`
  keeps what the handshake's token was worth when it was presented, apart from
  `jwtVerify`, the check the code makes of it: `RoomsAreAuthenticated` compares the two.
- **History** – one client's walk over `GET /notifications`, page by page, against
  the creations, status changes and the cascade that other actors commit between
  two pages. Pages are sets: their inner order is layout, what matters is which
  rows are on them and which is the last. Rows of one millisecond are returned
  in any order, as `ORDER BY "createdAt"` leaves it open.
- **Shutdown** – `installGracefulShutdown` and `closeAllInOrder` with the five
  targets, against requests, runs and `'failed'` listeners under way. A websocket run is
  there with each of its awaits: it asks for the io (`getIo`), for presence
  (`fetchSockets`), and writes its row; an email run only writes.
- **DeliveryProofs, LifecycleProofs, IdempotencyProofs, FanoutProofs, RateLimiterProofs,
  SessionsProofs, HistoryProofs, ShutdownProofs** – theorems (section 6).
- **MC\*** – the values of the constants that a `.cfg` cannot write, and symmetry.

An operator commented `\* mutant` is not part of a model: it is a plausible bug
(a dropped check, an off-by-one, a swapped order) of the definition after it.
`PROJECT.json` pairs each with the property that must fail when it is put in.

### Correspondence worth knowing

- A row of Delivery is what others can see: `"absent"` before the commit and
  after a cascade. The PENDING status exists only inside the transaction, hence
  in no visible row.
- `request` stops at `"committed"` or `"rolledBack"`; a rollback after
  `EnqueueJob` leaves the job in the queue, as the code does.
- A run that throws settles its job only if it still holds the lock
  (`Throw`). Without it BullMQ emits `error`, not `failed`, so no listener runs.
- A redis error while BullMQ itself moves a job has the effect of a lost lock:
  the job stays active until the stalled check, which `Crash`/`RecoverStalled`
  and `LoseLock` cover.
- The failure handler computes `isFinalAttempt` from `attemptsMade` and the error
  class; the queue decides on its own. They are two operators here too.
- Lost replies: the job is added and the insert rolled back (`EnqueueJob`), the
  mail is accepted and the attempt fails (`SendMail`), SENT is committed and the
  attempt fails (`MarkSent`), a commit succeeds and the call reports an error
  (`Idempotency!loseCommitReply`).
- `kind = "malformed"` is an email request whose payload fails
  `emailPayloadSchema`; the route does not check it, the worker does.

- `Sessions!gate` is a route's list of hooks: the reply of the first that replies,
  and whether the rate limiter was asked on the way. `request.user` is set only by
  a hook that verified the token before, which is what makes the order matter.
- Dev tokens (`granted`) have no expiry, so nothing is promised of them after the
  user is deleted; `OnlyDeadSessionsDeleted` speaks of demo tokens.
- In `History!create` a row appears with any `createdAt`, also one older than rows
  already read: the column dates from the insert inside a transaction that commits
  later, and replicas disagree about the time. Such a row may never be seen by a
  walk under way; `NothingMissed` promises those that were there when it began.
- A recipient skipped as "already enqueued" need not have anything: a POST for another user
  under `${base}:${userId}` takes the key, and the fanout skips the recipient as a
  replay (`Fanout!TakenByPost`).
- With a cursor whose row has left the result (its status changed under a status
  filter) Prisma's answer is not specified; `afterCursor` allows any rows that are
  not newer than the cursor's.

## 3. Runs

All finish in well under five minutes with two TLC workers.

| Run | Faults and bounds | Checks | Shows |
|---|---|---|---|
| `delivery_faults` | every fault; 1 notification, 2 workers, 1 admin, 2 jobs, 2 attempts | `TypeOK`, `SentWasEmitted`, `OnlyCommittedSent`, `DlqJobIsDead` | nothing is SENT unsent or sent uncommitted, and every dead letter is dead, under crashes, zombies, lost replies and re-drives together |
| `delivery_custody` | lost locks and database errors; 2 admins, 3 jobs, demo cleanup | `Accounted`, `DeadLetterRetryable` | no accepted notification is lost while processes live and Redis answers, also when two admins retry one entry |
| `delivery_lifecycle` | lost SMTP replies; 2 notifications of one demo user, 1 worker, fairness | `ImplementsLifecycle`, `OnlineDelivered` | the pipeline implements Lifecycle, every QUEUED row settles, and who stays online is served |
| `delivery_replay` | crashes, errors, lost replies; all three kinds, 3 attempts | `NoSendAfterSent`, `SurvivesFaults` | a replay of a job whose row is SENT sends nothing; of Lifecycle's safety the faults cost only the verdict on a SENT row |
| `fanout` | every failure; two fanouts with one base key (a retry, or a concurrent duplicate), a post for a third user with a derived key, a recipient that does not exist | `OneRowPerKey`, `RowHasJob`, `AnswersAgree`, `NoGhostKey`, `OneInserter`, `FanoutIsHonest`, deadlock | the two layers of idempotency, the release, and the fanout's answer: who was counted how, and why anybody was skipped |
| `rate_limiter` | 2 requests in flight, burst 2 in a window of 6 ticks, seconds of 2 ticks, time to 15 | `AdmissionBound`, `RetryAfterSuffices` | the admission bound up to the credit of rewound timestamps; `Retry-After` is enough and less than a second too long |
| `sessions` | a demo user and an admin, 2 sockets, 2 replicas that boot at any time, ticks that fail; tokens of 1 hour, users of 3, signing delayed by up to 1 | `MapsAgree`, `RegistryMirrorsRooms`, `RoomsAreAuthenticated`, `OnlyDeadSessionsDeleted`, `OneSchedule`, `GatesHold`, `DemoUsersGo` | maps and rooms agree in every order of events; the gates; the cleanup deletes dead sessions, and in the end every demo user with its notifications |
| `history` | 3 rows in up to 3 milliseconds, pages of 1 or of 2, with and without a status filter, a cascade | `PagesAdvance`, `NothingMissed`, `CursorLeadsOn`, `WalkEnds` | a walk is sound but for rows of one millisecond and cursors that left their filter |
| `shutdown` | 3 triggers, 2 workers, 1 request, any subset of closes hanging | `ClosedOnce`, `ConnectionsOutliveWork`, `DrainEnds` | one sequence of closes; queues, Prisma and the main Redis connection outlive work; without a hanging close the drain ends by itself |

Three runs are expected to end in a violation; each is a finding (section 7):
`redrive_overwrites_sent`, `emit_to_empty_room`, `shutdown_cuts_off_handler`.

### Bounds, and why they are enough

- *Jobs.* `MaxJobs` counts the jobs ever added: the original and one re-drive
  (2), or the original and two concurrent re-drives (3). Rows interact only by
  sharing an owner, so one notification suffices except in `delivery_lifecycle`,
  where a cascade takes two rows at once.
- *Attempts.* The code has 5. Two attempts have a first, a last and a retry in
  between; `delivery_replay` has 3 so that a middle attempt exists. In
  `delivery_custody` a single attempt makes the first failure final, the
  harshest case for custody. The theorems hold for every number.
- *Workers.* Two give the lock holder and the zombie.
- `sends` stops counting at 2; the properties only ask whether it is 0 or changes.
  A change from 2 to 2 is not seen, so `NoSendAfterSent` is checked up to the
  second send.
- *Rate limiter.* `Window = 6`, `Capacity = 2` make a refill of a fractional number of
  tokens per tick; with a `Second` of two ticks waits of one to three ticks are told as
  one or two seconds, some rounded up; the expiry of twice the window and a delay of
  half a window fall within `MaxClock`. The assumption `MaxDelay <= Window` says a
  request is not in flight for a whole window (a minute); the expiry then
  covers the refill.
- *Fanout.* Two fanouts under one base key are a duplicate or a retry of each other; of the two
  recipients one does not exist and the other shares its key with the post.
- *Shutdown.* Two workers give a run under way beside a listener under way; one request and
  three triggers give every order of a request's end and the closes, and a second and a
  third trigger.
- *Sessions.* Tokens of one hour, signed up to one hour late, and users of three are
  the tightest that `SignDelay + TokenLife < UserLife` allows; the code has 1 and 24. Two replicas give the boot that replaces a tick the other has taken;
  two sockets give a user's last and last but one. The safety properties but for
  `GatesHold` are proved for every number.
- *History.* Three rows with pages of one and two have a first, a middle and a
  last page, a row exactly at the limit and one beyond it; three milliseconds
  give all distinct, two tied and all tied rows. Two of the five statuses
  suffice, as a filter matches or does not; `channel` never changes.
- *Symmetry.* Workers and admins are interchangeable and only runs without
  temporal properties use this.

`CHECK_DEADLOCK FALSE` is set where the system really stops: all notifications
settled and all job ids used, the clock at its bound, all history pages read, the
process exited. `fanout` checks deadlock, with `Finished` for the orderly end, and
so does `sessions`, where there is always a boot or an hour to come.

## 4. Time

RateLimiter has a clock and Sessions counts hours; the other models have neither.
Two facts about durations matter to Delivery and are guards named for them. A transaction is open for at most 5 s (Prisma's
default timeout; the code sets none), the retries come after 1, 2, 4 and 8 s,
and a stalled job is handed out after a 30 s lock. So the *last* attempt, and a
run after a stall, find the transaction that created the job closed:
`BackoffOutlastsTransaction` and the guards on `request` in `RecoverStalled` and
`LoseLock`. Earlier attempts may run before the commit; without the backoff they
use up the budget, which is what the mutant `noBackoff` shows.

Sessions has an action for the top of an hour and counts, per demo user, the tops
its row has seen (`age`) and those its token may still see (`left`). A token
of `n` hours signed between two tops dies after the n-th and before the next but one:
`left = n + 1`, and `expire` for the time after the n-th. A row that has seen `n`
tops is more than `n - 1` and less than `n + 1` hours old; so `createdAt < now - 24 h` is
true of a row with `age > UserLife`, may be true at `age = UserLife` when a cleanup runs late in
its hour (`expiredUsers` leaves that open), and is never true before. Both counters
stop at their bound, so the state space is finite without a last hour. A
request of `POST /auth/demo-token` signs at most `SignDelay` tops after its insert:
in the code the two are a few instructions apart, and a process suspended in between
for most of a day is what the assumption `SignDelay + TokenLife < UserLife` rules out.
The cutoff and the delete of one cleanup are a single step.

## 5. Fairness

`FairSpec` of DeliveryProperties: each worker's event loop runs (weak fairness
of `HandleJob(w)`), BullMQ hands out waiting jobs, the failure listeners proceed,
and delayed or stalled jobs are promoted. All of it is weak fairness, of
actions that stay enabled until taken: it is what running processes and a running
Redis do. Nothing is assumed of commits, failures, user sessions, cleanups
or admins; in particular `OnlineDelivered` assumes the user stays online, not that
an attempt eventually succeeds.

`FairSessions`: time passes (`hour`); a request that inserted a demo user signs or
dies; a tick that is due is taken and a cleanup that is running ends well, both
under *strong* fairness, as a boot can replace the one (`upsertJobScheduler`) and an
error of the database end the other, again and again but not for ever. Nothing is assumed of boots:
`DemoUsersGo` speaks of users that exist when the cleanup is scheduled.

`FairSpec` of History: the client asks for the next page until there is none. Nothing is
assumed of creations or status changes, which may go on in between as long as rows are left.

`FairSpec` of Shutdown: requests and the awaits of runs end, one way or the other (presence by the
adapter's timeout; a call of Postgres or SMTP that never answers is, to the close that waits for
it, one of the closes that hang), a close that is not among those resolves
once what it waits for is over, and the loop goes on to `process.exit`. Errors of
closes may happen and need not; nothing is assumed of signals or of the 30 s timer,
which may end the process at any time. That a hanging close ends with the timer is
not a property: it would say only that a timer fires.

## 6. Proofs

For every value of the constants that satisfies the assumptions:

- **DeliveryProofs** proves inductive invariants one on top of the other. `Structure` says what the
  queue, the runs and the dead letters are made of: ids beyond `lastId` are
  unused and have no note, a locked job is active, a run is on a used job, an
  attempt counter reaches the budget only in a failed job, and no listener is
  on an unused job. `Rows` relates rows to requests and sends: a visible row
  belongs to a committed request; a run past `findUnique` is of a committed
  request, because it saw the row; a run about to mark SENT has sent; a SENT row
  has been sent. `SentWasEmitted` alone is not inductive: `MarkSent` sets SENT in
  a step that does not send, so what the run at `"mark"` did before must be
  part of the invariant. Theorems: `TypeCorrect`, `SentRowsWereEmitted`,
  `NothingUncommittedSent`, under every fault. `DeadLetters` adds that a listener's
  finality verdict is its job's
  state (`FinalAgrees`), a job has at most one final listener (`FinalOnce`), and
  entries, and what admins re-drive, are failed jobs (`EntriesFailed`). Theorem
  `DeadLettersAreDead`, under every fault. Then `Custody`, which gives every
  accepted notification a keeper, and each DEAD_LETTER row one that lasts until
  its re-drive has a job of its own: an admin that removes an entry has enqueued
  before (`Redriven`). Theorems `AcceptedNeverLost` and `DeadLettersRetryable`,
  under the assumption `Reliable`: no process dies and Redis answers. The
  assumption is needed: a process that dies between BullMQ's move to failed and
  the end of the listener leaves a failed job that nobody dead-letters, and so
  does a failed `moveToDLQ`, whose error is swallowed.
- **LifecycleProofs**, first part, assumes `Undisturbed` (no run goes on without its lock, no admin
  re-drives) and adds `Exclusive`: a notification has one job, the job of an open
  transaction does not exist yet, and every run holds its job's lock, so two runs
  never work for one notification (`RunsApart`). On it rests `Once`: a row that was
  SENT is not QUEUED again, a row is DEAD_LETTER only when its job has failed for
  good, and a run about to send works for a notification that was not SENT.
  `NoSendAfterSent` needs all three: a retry finds the row SENT and stops, and the
  row can be neither QUEUED (no re-drive) nor DEAD_LETTER (its job would be dead)
  under that retry. Theorem `SentIsSentOnce`, with crashes and every lost reply.
- **LifecycleProofs**, second part: the refinement, in three strengths. One lemma, `VisibleSteps`,
  holds under every fault and serves all three: only commits, sends, `MarkSent`, handlers, the
  cascade and an admin's reset are visible to Lifecycle. What each visible step maps to depends
  on the faults:
    - `PipelineImplementsLifecycle` assumes `Calm` (`Undisturbed`, no crash, no
      database error): the run that marked the row SENT completes (`AfterSent`), so no listener
      ever dead-letters it, and every step is a step of Lifecycle or a stutter.
    - `FaultyPipelineImplementsLifecycle` assumes `Undisturbed` alone. When the SENT update of
      the last attempt is committed and its reply lost, or a process dies right after it too
      often, the row becomes DEAD_LETTER; so `AfterSent` is lost and `Misjudge` is needed (without
      it TLC finds `delivery_replay` violated). By `Once` nothing else is.
    - `DisturbedPipelineImplementsLifecycle` assumes nothing: zombies and concurrent re-drives push
      again and judge again, but a notification is pushed only after its commit, SENT
      only after a push, and a row the cascade deleted does not come back. It rests on `Rows` only.
- **LifecycleProofs**, third part: what two of the findings of section 7 are *not* due to.
  `OnlyAdminsRequeue`: without admins `RedriveOnlyDeadLetters` holds under every fault.
  `OnlyDisconnectsEmptyRooms`: in a behaviour in which nobody's last socket leaves
  (`[][online \subseteq online']_vars`), `EmitReachesSomebody` holds under every fault, by
  `RoomSeen`: a run about to emit has seen its own recipient online, and no run about to mail is a
  websocket notification's.
- **IdempotencyProofs** keeps apart what Postgres guarantees and what Redis adds. `Index`:
  of the calls with one key at most one has an open insert or a row, jobs come
  before rows, and answers name rows; it holds whatever Redis forgets and gives
  `UniqueRows`, `RowsHaveJobs`, `ReplaysAgree`. `FastPath`: a key Redis has not
  failed is reserved while a call is past its reservation; it gives
  `GhostKeysReleased` and `OneInsert`, whose statements exempt the failed keys.
- **FanoutProofs** shows that fanouts and posts together only make the steps of
  callers of `createNotification` (lemma `FanoutCreates`: the composition implies the
  specification of Idempotency with the calls `<<fanout, recipient>>`), so all five
  theorems hold of them (`FanoutsUniqueRows`, `FanoutsHaveJobs`, `FanoutsAgree`,
  `FanoutsLeaveNoGhost`, `FanoutsInsertOnce`). Its own theorems are `FanoutTypes` and `HonestFanouts`: what
  a fanout has counted so far is true and every recipient is left, awaited or counted once.
  For the reasons of a skip the invariant is that the call that held the key stays
  responsible for it (`ResponsibleStays`): it has the row, is on its way to it, or its own
  caller was told of the failure. Only a key hit by Redis or by a dead process (`tainted`)
  has nobody.
- **RateLimiterProofs**: `AdmissionsBounded`, for every capacity and window, by a potential:
  what was admitted since counting began plus what is in the bucket is at most
  a full bucket plus the refill up to the newest stored timestamp plus the credit
  of rewound ones. The step that could break it is the expiry of the key, which
  refills the bucket at once; it does not, because the key lives for two
  windows (`Ttl >= 2 * Window`) and no request is under way for more than one
  (`MaxDelay <= Window`): both are assumptions on the constants, the first true of
  the script's PEXPIRE. `RetryAfterIsEnough`: rounding up twice, to the script's milliseconds and
  to the header's seconds, is never too short and less than one second too long.
- **SessionsProofs**: first the registry, for any number of users and sockets and any
  outcome of a handshake (`RegistryInvariant`: an open socket, and no other, is registered and in a
  room, both under the user of its token). Then the refinement `SessionsImplementRegistry`: every step of
  Sessions is a step of Registry or leaves its variables alone, so both properties
  of the registry hold with real tokens (`SessionsMapsAgree`, `SessionsRegistryIsMirror`).
  `SessionsRoomsAuthenticated` needs more than the registry: that a socket past its handshake
  claims the user its valid token named (`Authentic`), which is where `jwtVerify` matters. `CleanupSparesSessions` needs `TokensDieFirst`: that a
  deleted user has no live token is not inductive, as nothing in it says how old a
  user with a live token can be; the invariant bounds the sum of the row's age and the
  token's remaining life by `SignDelay + TokenLife + 1`, and a row past the cutoff is older than that allows.
  `OneCleanupToCome`: the one scheduler id has its job either armed or due. `EveryGateHolds`: a route
  has one or two hooks in front; the reply of one hook follows from the credentials and the
  hooks before it (`GateOfOneHook`, `GateOfTwoHooks`), and then each route is a case.
- **HistoryProofs**: `HistoryInvariant`, for any set of rows, also an infinite one, any page size and filter.
  None of the three properties is inductive alone. `PagesAdvance` needs that the cursor is the
  oldest item of its page (`CursorEndsPage`), since the next page is compared with the cursor
  only. `NothingMissed` speaks of finished walks; under way, what is still owed is older
  than the cursor, shares a millisecond with the end of a page, or was sent
  (`OwedIsOlder`), and a last page serves all of it because one row more than the page was asked
  for. `CursorLeadsOn` rests on that extra row too: it is still there when the next request
  comes, unless the user was deleted (`ExtraRow`). Lemma `NewestRows` says what `take: limit + 1` of a
  sorted result is, `ServedPage` what is left after the slice. Theorems `PagesNeverRepeat`,
  `PagesCoverHistory`, `NoEmptyLastPage`, `HistoryTypeCorrect`.
- **ShutdownProofs**: `ShutdownTypes`, `TargetsClosedOnce` and `WorkKeepsConnections`, by `Orderly`: one trigger
  gets past the flag, it has called exactly the closes it has come to, and what a
  finished close waited for is over, unless that close threw. `WorkKeepsConnections` speaks of
  the queues, Prisma and the main Redis connection; the io and its clients are not
  among the connections a run keeps (section 7).

Every safety property that a passing run checks is proved, under the assumptions named above.
Only model-checked: liveness, that is the `Settles` half of `ImplementsLifecycle`,
`OnlineDelivered`, `DrainEnds`, `DemoUsersGo` and `WalkEnds` (fairness and ENABLED are beyond
the prover), and the absence of deadlock in `fanout` and `sessions` (it is ENABLED of `Next`).
`sends` stops at 2 in the theorems too, but `Once` says
more than `NoSendAfterSent`: no run past its check works for a SENT notification. No
module uses RECURSIVE.

## 7. Findings

Each is a run that ends in a counterexample to what a comment of the code says.

1. `redrive_overwrites_sent` – the retry endpoint enqueues before it resets the
   row, with no condition on its status. A run faster than that update has its
   SENT overwritten with QUEUED, for good.
2. `emit_to_empty_room` – the presence answer is used after the sockets may have
   left; an emit to an empty room does not fail, and the row becomes SENT.
3. `shutdown_cuts_off_handler` – `worker.close()` does not wait for the async
   `'failed'` listener: an orderly exit with code 0 can cut it off.

Met while modelling, without a run of their own:

- `ratelimit.ts:38` keeps a negative `elapsed` from taking tokens away, but line 40
  stores `now` even when it is older than `last_refill`: a script that arrives late, or
  from a process whose clock is behind, sets it back, and the next one is credited
  the time again. `AdmissionBound` says exactly how much more than the comment's
  "tokens accumulate at capacity / windowMs per ms since last_refill" that admits.
- `notifications.ts:29-32` says "id alone gives a stable sort that matches ORDER BY createdAt
  DESC", but the query sorts by `createdAt` alone: rows of one millisecond (a fanout makes
  them) have no order, and at a page boundary one of them may be skipped or sent twice. `PagesAdvance`
  and `NothingMissed` exempt exactly those, and `WalkEnds` assumes there are none: with them
  the cursor may go back and forth between two rows, and TLC finds a walk without an end.
- The same route under a status filter: the row of the cursor may change its status between two pages, and
  the rest of the walk is then anybody's guess (`strayed` in `NothingMissed`).
- The token of a socket is verified once, at the handshake. A socket stays in its room after
  its token expired and its user was deleted. `queue/cleanup.ts:12-13` calls sessions of
  deleted users "long dead": of tokens that is true (`OnlyDeadSessionsDeleted`), of sockets
  it is not. No job is left to emit to such a room once the rows are gone.
- `routes/auth.ts:11` says of a role other than `admin` that it "is ignored"; the schema
  `z.enum(['admin'])` answers it with 400.
- `notifications.service.ts:85-86` says that the worker treats the job of a
  rolled-back row as a permanent failure; in fact it throws an ordinary error
  and the job is dead-lettered only after all its retries (which also is what
  lets an attempt that precedes the commit succeed later). The model follows
  the code: `FindNotification` throws.
- Two admins that retry one entry at once enqueue two jobs and may send twice
  before the row is SENT. Nothing promises otherwise; custody holds.
- A replay of a key whose reservation Redis lost hits the unique index and is
  answered with a 500, though the README promises the existing row with a 200
  (`README.md:160`). `OneRowPerKey` holds; `answer = "error"` in the model.
- `server.ts:28-29` has the workers drained "so any in-flight delivery attempt gets to write its
  DB row before its Redis client closes underneath it". The target before them, `http`, closes
  the io and the Redis clients of its adapter (`ws/server.ts:127-141`): a websocket run under
  way then finds no io or gets no answer from other replicas and loses the attempt, with no
  close failed. The queue retries it on another replica, unless it was the last one.
  `ConnectionsOutliveWork` leaves the io out for this reason; `DrainEnds` shows such a run does
  not hold up the drain.
- The signal listeners are installed with `once`. The same signal a second time
  is not ignored, as the log line in `shutdown.ts` suggests, but kills
  the process (`Shutdown!killed`), with 130 for SIGINT and 143 for SIGTERM.

## 8. Not modelled, and what the models leave out

- The error handler (a pure mapping of errors to replies, without state), the wiring of
  the application (plugins, headers, environment variables, the Prisma singleton)
  and the browser pages (static): none has behaviour over time.
- `GET /me`, `GET /admin/queue/stats` and the list of the dead-letter queue only read, behind gates that
  Sessions models.
- The boot. Shutdown starts where `installGracefulShutdown` has run; before that, while
  `scheduleCleanup` is awaited, requests and workers already run and any signal kills the process,
  which for the others is the `Crash` of Delivery.
- What a graceful shutdown is to the other replicas: the end of its runs and listeners,
  hence a `Crash` of Delivery at some of the points where that may happen anyway.
  The pipeline's properties under crashes therefore hold with shutdowns.
- In History the rows of one user and one channel; in Sessions the bucket of
  `POST /auth/demo-token`, which is one of RateLimiter's.
- Payload contents, wording, logs, and the columns `lastError` and `deliveredAt`,
  which nothing reads back. `attempts` is kept in `rowAttempts` although only
  its type is checked.
- In Delivery any demo user may be past its TTL at any time; whom the cleanup chooses, and
  when it runs, is in Sessions.
- The rounding of the rate limiter's floats: tokens are counted exactly in units
  of 1/Window. The reload after NOSCRIPT runs the same script, and the failed
  call had no effect.
- Processes share one clock in RateLimiter: a late script stands for a clock that is behind,
  a clock that runs ahead is left out. A request without a bucket key (`ratelimit.ts:156-157`)
  does not reach the bucket; its body is refused by the route.
- Presence is one set over all replicas; the asking of each replica and the
  emit are two steps and anything may happen between them.
- The 30 s timer is never cleared in the model: in the code it is `unref`ed and cleared
  only right before the process exits anyway.
- Inside Idempotency a transaction's update to QUEUED and its commit are one
  step: nobody can see it between.

## 9. Plan

Done: queue, pipeline, abstract lifecycle, idempotency, fanout, rate limiter,
registry, sessions with tokens, gates and cleanup, history, shutdown; proofs of all their
safety properties; the refinement of Lifecycle under no faults, faults, and everything.

Next, in this order:

1. *Refinement*: an abstract specification of `createNotification` (a key has a row, a reservation or
   nothing) that Idempotency, and through `FanoutCreates` the fanout, is proved to implement.
2. *Proofs*: what of `AcceptedNeverLost` survives a crash, stated per failed job without a listener.
3. *Model*: the boot in Shutdown, with the signals that arrive before it is over.
