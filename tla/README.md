# A TLA+ development of gin-starter-kit

The repository is a REST API starter pack in Go: a Gin HTTP server with users
behind JWT authentication, an optional Redis cache, and a background queue with
interchangeable drivers that an API server and a separate worker container
share, with a mailer behind it. This directory holds TLA+ modules of the parts of it that are
hard to test, the TLC configurations that check them on small instances, and proofs
about them that TLAPS checks.

Contents: [inventory](#inventory), [modules](#modules), [runs](#runs),
[fairness](#fairness), [proofs](#proofs), [findings](#what-the-violation-runs-show),
[not modelled](#not-modelled), [plan](#plan).

## Inventory

| Component | State | Operations | What makes it correct |
|---|---|---|---|
| Database queue driver, `pkg/queue/driver_database.go` | rows of `jobs`; per worker a copy of the claimed row | Dispatch, claim (SELECT, Save), execute, delete / retry / fail, Start, Stop | no job is executed by two workers at once, none is lost, settled rows stay settled, every job ends, extra executions only after lost ones |
| Memory queue driver, `driver_memory.go` | channel, `running`, `quit`, mutex, delayed goroutines | Dispatch, DispatchDelayed, worker loop with drain, Stop | accepted jobs are executed once; a clean Stop leaves nothing behind; Stop returns |
| Redis queue driver, `driver_redis.go` | a Redis list; per process goroutines with delayed messages | LPUSH, BRPOP, retry as a new delayed message, Stop | a live job is in exactly one place; accepted jobs are executed |
| Sync driver, queue factory | none; the map of driver builders | execute in the caller; choose a driver, fall back to memory | the configured driver or memory, never none |
| Legacy worker pool, `pkg/worker` | channel, `running`, mutex | Start, Dispatch, Stop | as the memory driver, and no job is accepted, and no caller panics, once stopped |
| Mailer, `pkg/mail` | an SMTP session | Send, SendTemplate | a mail reported as sent was taken by the server; a repeated mail has a reason |
| Process life cycle, `cmd/api`, `cmd/worker` | what is open: database, Redis, queue, listener | LoadConfig to listen, SIGTERM to the end of main | nothing is closed that is in use; a clean exit loses nothing; processes come up and go down |
| User usecase, `internal/usecase`, over `internal/repository/gorm` and `pkg/redis` | table `users`, cache keys `user:<id>` | Register, Login, GetByID, GetAll, Update, Delete | emails are unique, the cache does not stay stale, a request changes what it was sent with and nothing else |
| Listing and pagination, `FindAll`, `pkg/response` | none; a client holds pages | clamp, count, page, page count | a page has as many items as its metadata say; reading all pages misses nobody |
| Seeder, `cmd/seed`, `database/seeder` | table `users` | look up and create the administrator, then fake users | may be run repeatedly and at the same time; its count is true |
| IP rate limiter | a token bucket per address, a cleanup goroutine | Allow, cleanup | no more than burst + rate * time requests admitted |
| Router and middlewares, JWT service, health handlers | the chain of a request; issued tokens | down the chain, abort, panic, back up | one complete answer per request, logged as given; protected handlers only for users who logged in |
| Logger, configuration, migration command, API documentation | none worth a state machine | | |

How they interact. `cmd/api` builds one queue driver, registers the job
handlers, starts the driver's workers *and* serves HTTP; `cmd/worker` runs only
the workers. Both use the same table or list, so workers of different processes
compete for jobs. `Register` dispatches the welcome mail. A request is a sequence of
separate database and Redis calls that interleave with those of other requests.
SIGTERM makes `main` shut the HTTP server down, call `Stop` with a timeout, close the
connections and return, which ends whatever still runs; the containers restart
(`restart: unless-stopped`).

A request passes the global middlewares in the order of `router.go`,
a rate limiter with shared buckets among them, then AuthMiddleware on protected routes.

What is hard: the claim transaction against other claims, deletes and retries;
outcomes written by id without looking whose reservation the row is; crashes
between claim and outcome; channels closed while others send or drain; Redis
messages that exist in one goroutine only; check-then-insert on emails; and reads that
fill the cache after a write has emptied it; buckets that are used outside of the
mutex they were found under; pages that are read while the table changes; the
order in which things are closed under those who use them; mails that are taken and reported as
failed. PROJECT.json lists each hazard with
its line and the properties aimed at it.

## Modules

`JobLifecycle` is the promise of a queue driver, without tables, channels or
clocks: a job is unborn, waiting, running, lost, done or dead; it runs once at a
time, is retried only while tries are left, is redelivered only when lost, and
leaves done and dead never.

`DatabaseQueue` is the database driver in the processes that run it.

| Model | Code |
|---|---|
| `jobs`, `nextId` | the table `jobs` and its autoincrement key; `NoRow` is an absent row |
| `pc[w]`, `claim[w]` | the place of a goroutine in `workerLoop`/`processNextJob`, and its variable `job` |
| `proc[p]` | a process: down, up, or in `Stop` |
| `now` | `time.Now()`, one clock for all |
| `successes`, `abandoned`, `disruptions` | history, and the bound on failures |
| `Dispatch` | `DispatchDelayed` |
| `LoopTop`, `PollTimeout`, `QuitWhileWaiting` | the two selects of `workerLoop` |
| `SelectJob`, `NoJob`, `SaveClaim`, `ClaimError` | the claim transaction: SELECT and changes to the copy; no row; Save and COMMIT; rollback |
| `HandlerSucceeds`, `HandlerFails` | `ExecuteJob` |
| `DeleteJob`, `RetryJob`, `FailJob`, `SettleLost` | the three outcomes, and their ignored errors |
| `Boot`, `StopBegin`, `StopDone`, `StopTimeout`, `Crash` | `Start`, `Stop`, the end of `main`, a kill or a panicking handler |
| `Tick` | time; it stops when no row waits for it, which keeps the model finite |

Two constants choose what is assumed of the surroundings. `IsolatedClaims` is
TRUE for SQLite: one connection per process (`SetMaxOpenConns(1)`), and of two
processes that overlap only one can commit, the other rolls back as in `ClaimError`. It is FALSE for
PostgreSQL and MySQL, where the plain SELECT of one claim does not wait for another. `TimelyWorkers` is
TRUE when a claim is settled within the ten minutes after which it is stale,
which holds for handlers that respect their 60 s context; FALSE lets them overrun.

`MemoryQueue` is the memory driver in one process: the channel as a sequence, `job[j]` for where each
job is, the mutex as the interval between `StopQuit` and `StopClose`, the outer and
the draining select as two labels. The priority of `select` is
left open, as in Go. A panic in a goroutine nobody recovers ends the process.

`RedisQueue` is the Redis driver: the list, the messages each process holds in
timer goroutines, the message each worker holds while its handler runs. A message
carries the limit of the process that built it, so `MaxAttempts` is a function of the process. `fate` and
`executions` are history. The Redis server does not lose data in the model, but replies may be lost, and
go-redis, whose default retries `redis.go` keeps, then repeats the command. A repeated LPUSH makes a copy of the message
(`PushedAgain`), which the model counts as a job of its own, because nothing in the system can tell; a repeated BRPOP
pops the next message, and the first one is gone (`PopError`).

`VolatileQueue` is what users of that driver may rely on, which is less than `JobLifecycle`: it does not say how often a
job is retried, and after the first disturbance (a shutdown, a crash, a Redis error) any job on its way may be lost for good. What it does
promise is one execution at a time, outcomes that stay, neither loss nor copies (`Repeat`) before a disturbance, and that no job is given up
unless a process allows a single attempt (`OneAttempt`). `RedisQueue` implements it with `Phase(j)`, where list and
timers are both "waiting". The last promise is the other side of the finding of `redis_attempts`: with a limit above one a
job that keeps failing is retried for ever.

`UserService` is the user usecase with its repository and cache: each request is
handled once, by the calls its handler makes, one step per call. `users` and `cache` map ids to
a record of email and name (the password and the times are left out: nothing depends on
them). `pc[r]` is the next call, or "done" after the response, whatever its status code. The unique index on
`users.email` is part of the table. Database errors, cancelled contexts and crashes
are `Cut`; errors that the code swallows are disjuncts of the step that swallows them. `suspect`
is history: it remembers which keys a race or a lost invalidation may have made stale.

`UserDirectory` is what a client of the usecase may rely on, without caches, checks and calls: a table that
changes one user at a time, by `Register`, `Update` of the fields that were given, and `Delete`, and never has one email
twice. What it cannot promise is in it as well: `gorm.Save` writes the row as it was loaded, so an update that was
overtaken by a write of the same user (its id is `contested`) overwrites, or inserts again, what it finds (`Overwrite`).
`UserService` implements it with `contested` as the ids of the requests whose loaded row is not what the table would
give them now (`Overtaken`). No variable remembers who wrote what: whether an update is overtaken is seen from the row.

`WorkerPool` extends `MemoryQueue`: the pool differs from the driver in
`Dispatch`, which looks at `running` under the mutex, in having no delayed jobs, and in an owner that
may call `Start` again after a `Stop` that returned.

`RateLimiter` is the limiter alone. A bucket is what golang.org/x/time/rate makes of it: `level[b]`
at time `filled[b]`, refilled when it is looked at. Tokens are measured by the time
their refill takes, so all numbers are natural. `clients` is the map,
`held[r]` the variable `limiter` of a request between `getLimiter` and `Allow`, where no mutex protects
it. `Cleanup` is one turn of the ticker. `since` and `spent` are an observer who opens a window at
any time and counts what each address spends in it.

`RequestChain` puts requests through that limiter and the other middlewares. `phase[r]`
and `at[r]` say which way a request goes through `ChainOf(route)` and where it is: down with `c.Next()`, up after `Abort` or a
response, or up as a panic, which only Recovery stops. Routes that behave alike are one route. `config` is what
CORS and the limiter were built with. A token is a record of user and expiry, valid if it was
issued and has not expired; `lastLogin` is history. Handlers do what matters to
tokens and answer; what they do to tables is the business of `UserService`.

`UserSeeder` is `cmd/seed`: each statement of `Seed` is an action, `candidate[s]` the row about to be created, `created[s]` the
variable `createdCount`, and `added[s]` what has really been inserted. A statement may
fail, and an insert may fail after it took effect. Registrations and deletions happen beside it.
`UserListing` extends it with a client that reads `GET /users` page after page, with
`CountUsers` and `FindUsers` as the two statements of `FindAll`, and `UsedSize`, `Offset`, `TotalPages` and `Slice` as its arithmetic.
`trouble` records what happened to the table during the walk, for the properties to say under
which circumstances they hold.

`Mailer` is one call of `SendTemplate` per goroutine: the template, which may fail with either mailer, the conversation
until the text, its end (where the server takes the message, whether or not it is heard to say so), QUIT, and a server
that falls silent, which `Send` has no timeout for. It may be heard of again (`Wake`), later than the reservation of the job.

`ServerLife` composes the processes with the mailer and the queue:

| Model | Code |
|---|---|
| `driver`, `InitQueue` | `factory.go`: the driver or its fallback |
| `stage[p]`, `open[p]` | where `main` of `cmd/api` or `cmd/worker` is, and what it has opened and not closed |
| `Boot` (`Launch` ... `Listen`) | `main` down to `signal.Notify`, each failure an `os.Exit(1)` and a restart of the container |
| `Shutdown` (`Drained` ... `Exit`), `Terminate` | `main` after the signal |
| `request[r]`, `Arrive`, `Insert`, `Dispatch`, `Dispatched` | `Register`, with the sync driver up to the end of its mail |
| `phase`, `tries` | the row of each job, its place in memory, or its end |
| `claim[p]`, `held[p]`, `work[p]` | the row a worker has selected and not saved, the attempts in its copy, the job it executes |
| `Select`, `SaveClaim`, `ClaimError` | the claim of the database driver, in the two steps in which it can be overtaken; a look at `quit` and the SELECT after it are one step |
| `isolated` | whether claims are serialised (SQLite) or not (PostgreSQL, which `docker-compose.yml` runs) |
| `Receive` | the worker of the memory driver, which goes on draining until `main` returns, also after a `Stop` that timed out |
| `Settle` | the outcome, written by id, whoever has claimed the row by then |
| `GoStale` | ten minutes after the last claim of a row that nobody settled: its workers are gone, or hang and keep the job |
| `Vanish` | the end of a process, however it comes; jobs in memory go with it |
| `overdue`, `overrun`, `repeats` | history: shutdowns that hit a timeout; jobs whose reservation expired under a worker that hangs; mails that were taken and did not count |

The Redis driver is not composed: it keeps the weaker promise of `VolatileQueue`. A process has one worker here,
so two workers that race for a row are those of the two processes. `ServerLife` repeats the claim of `DatabaseQueue` and does
not borrow `JobLifecycle`: that refinement holds only with claims that are serialised and settled in time, and a mail server
that hangs breaks the second condition. The rows' clock, their order and failed writes of a claim stay with `DatabaseQueue`.

`MCDatabaseQueue`, `MCWeakQueue`, `MCInProcess`, `MCRedisQueue`, `MCUserService`,
`MCRequestChain`, `MCUserListing` and `MCServerLife` give the constants their values. Some have a variable
`scenario`, `mode` or `kind`, chosen at the beginning: a run then covers several instances that are
small each in its own way. `Within` keeps a step inside the bounds of its scenario.
Definitions marked `[mutant of X]` are faulty variants
of X; replacing X by one of them makes a property fail, which shows that the
property depends on that piece of the code. PROJECT.json says which goes with which.

## Runs

| Run | Instance | Shows |
|---|---|---|
| `db_serial` | 2 workers in 2 processes, 2 attempts; 2 jobs and 1 disruption, or 1 job, immediate or delayed, and 3; fair | exclusive execution (part of `ReservationInv`), attempts and effects paid for by abandoned executions and failure of exhausted jobs only (implied by `AccountingInv`), permanence of failed and deleted rows, refinement of `JobLifecycle`, every job settles |
| `db_weak` | overlapping claims with 2 disruptions, or handlers that outlive their reservation with 1; fair | no job is lost and every job settles even then |
| `in_process` | the memory driver and the pool: 2 workers, 4 jobs (2 delayed in the driver), channel of 2, fair | single execution, clean Stop drains, buffered jobs are executed, Stop returns, callers of the pool do not panic unless it was restarted, refinement of `JobLifecycle` with a single try (`ImplementsSingleTry`) |
| `redis_jobs` | 2 workers in 2 processes, 2 jobs or a job and its copy, 2 attempts in the API and 1 in the worker, 1 shutdown, 2 faults, fair | one place for a live job, attempts forgotten (with `TypeOK`, parts of `QueueInv`), refinement of `VolatileQueue`; accepted jobs are executed or lost to a stated cause |
| `user_cache` | 3 requests of any kind, 2 ids, 2 emails, 1 name, 1 fault, fair | unique emails, explained staleness (with `TypeOK`, parts of `CacheInv`), refinement of `UserDirectory`; the cache becomes right and stays right |
| `requests_served` | `racing`: 2 requests, 1 address, 2 buckets, clock to 4, window opened anywhere; `mixed`: one goroutine, every route, origin and configuration, 2 users, 2 tokens | rate bound, one answer that nothing replaces, complete answers, log and answer agree, no wildcard with credentials, login before protected handlers, every request answered |
| `seed_and_list` | `seeding`: 2 seeders, 3 emails, 2 fake users each, 1 database error; `reading`: pages of 1, 2, 3 (clamped) and -1 rows of up to 3 users beside a seeder, registrations or deletions | no duplicates, an administrator, true counts, pages that match their totals, walks that miss and repeat nobody, seeders end |
| `server_life` | API and worker, 3 drivers, 2 mailers, 2 tries; `one`: 1 registration, 2 disruptions; `two`: 2 registrations, 1 disruption; fair | shutdown in order, clean exits lose nothing, done means delivered, two workers with one job only where claims overlap or a worker hung, processes come up and go down, queued mails are settled |

The violation runs are listed [below](#what-the-violation-runs-show).

Bounds. Two workers in two processes are the least that race, and every race of the claim is
between two of them. Two jobs make the order of the SELECT matter. Two
attempts give one retry and one failure. `StaleAfter` = 2 ticks puts a tick
before, at and after the boundary. One to three disruptions cover a failure of the recovery from a
failure. A channel of two with four jobs fills, and a delayed job can fire
before, during and after Stop. Two messages let a Redis
worker hold one while the other waits. The worker container's limit of one attempt in `redis_jobs` lets jobs be given up;
that nothing is given up under higher limits is left to the theorem `VolatileRefinement`, which holds for all of them. Three requests are a reader, a writer and a
third that reads or writes what they leave. Timeouts, polls and handler durations are
not counted: any of them may end at any time, only staleness and availability use the clock.

In `requests_served` an interval of 3 with a burst of 2 and a stall of 1 is the tightest the
assumption allows; by time 4 an entry can be removed and made anew inside a window, and a request can find its
bucket one tick before the cleanup looks at it. The theorem about the rate covers the rest.
Steps of the two racing requests outside of the limiter commute, so `Within` lets one request make
them at a time. One goroutine in the mixed scenario serves many requests one after
another, which is how a token of one is used by the next.
In `seed_and_list` three emails are the administrator and two others: two rows fill
a page of one and leave a page of two full, three leave one incomplete; with times up to 2 all rows can be of
different times. In `server_life` two disruptions are a crash during a shutdown, an outage during a boot,
or a server that falls silent before a signal; two registrations let a worker hold one
job while another waits. Overlapping claims are checked with one registration, because the race is for one row. With them, with
the log mailer and with two registrations a single disruption comes, after both processes have opened their queue, and
the tables exist (`Simple`): the many ways to boot are covered by the rest.

The runs `user_cache` and `server_life` allow deadlock: a system that has answered its
requests and whose keys have expired, or that is up and has used up its disruptions, has nothing left to do. All others
check it.

## Fairness

`DatabaseQueue!Fairness`: weak fairness of each worker's ordinary steps (Go
schedules runnable goroutines; handlers return because they get a context of 60 s),
of `Boot` (containers restart), of `StopDone` and of the clock. None for `Dispatch`,
`StopBegin`, `StopTimeout`, `Crash`, `ClaimError` or `SettleLost`: nobody has to send jobs and
nothing has to fail. Disruptions are bounded, which is the usual "eventually
no more failures"; without it a row could be lost again for ever.

`MemoryQueue!Fairness` and `RedisQueue!Fairness` are the same for their workers,
for Stop and (Redis) for timers, one condition per delayed job because each has its own
goroutine: a message that is retried for ever cannot hold up another's timer. Dispatch is not fair and a panic is not required.
`UserService!Fairness`: a request that was begun goes on, and Redis expires
keys. `FlushLost` is one of the continuations, so fairness never forces an invalidation to succeed.

`RequestChain!ChainFairness`: the goroutine of a request goes on. `UserSeeder!Fairness`: a
seeder that runs gets its statements answered; that somebody runs it is not required.
`ServerLife!Fairness`: containers restart, outages end, goroutines of workers and requests run, the steps of
`Shutdown` are taken (its timeouts among them, which are timers), rows whose workers are gone or hang go stale, and a mail server that has not
fallen silent answers. Nobody has to register; signals, crashes, outages and silence are
not fair and bounded in number. `Wake` is not fair either: a server that
fell silent may stay so, and `QueuedIsSettled` names the case that silent servers hold every worker.

`Launch` is fair because of `restart: unless-stopped`; a container that somebody has stopped by hand stays down, and
then nothing is promised.

The specifications of the MC modules restate these conditions for steps inside their bounds, which restrict
only what is not fair. `MCRequestChain` uses strong fairness, because `Within` makes one request wait
for the other before a step outside of the limiter, which the program does not.

## Proofs

Eight modules hold theorems: `DatabaseQueueProofs`, `InProcessProofs` (the memory driver and
the pool), `RedisQueueProofs`, `UserServiceProofs`, `RateLimiterProofs`, `RequestChainProofs`,
`UserListingProofs` (the seeders and the listing) and `ServerLifeProofs`. They hold for all sets of workers,
processes, requests, jobs, users and addresses and for every bound. What they assume are the named
`ASSUME`s of the modules and, where stated, `IsolatedClaims` and `TimelyWorkers`. Every invariant, action
property and refinement of the passing runs is one of these theorems.

| Theorem | Argument |
|---|---|
| `DatabaseQueueProofs` | |
| `TypeCorrect` | `TypeOK`, with what a row that nobody has claimed looks like, is inductive |
| `NothingLost` | `DeletionEarned /\ NoJobLost` with `TypeOK`: only `DeleteJob` removes a row, after a success was counted |
| `Exclusion` (both assumptions) | `ReservationInv` is inductive |
| `SettledForGood` (both) | what writes a row either owns the reservation (`processing`) or read an eligible row |
| `Accounting` (both) | `AccountingInv` over `ReservationInv` |
| `Refinement` (both) | each action is a step of `JobLifecycle` or a stutter, given the two invariants |
| `InProcessProofs` | |
| `DriverInvariant`, `PoolInvariant` | `TypeOK /\ DriverInv` is inductive for either driver |
| `TypeCorrect`, `CleanStop`, `PoolCleanStop` | consequences of it |
| `PoolPanics` | `Dispatch` sends only while `running`, and `running` is true of a closed channel only after a second `Start` |
| `Refinement`, `PoolRefinement` | each action is a step of `JobLifecycle` or a stutter |
| `EitherPanics`, `EitherRefinement` | the same of `MCInProcess`, where a system has either the driver or the pool: `EitherInv` is inductive |
| `RedisQueueProofs` | |
| `TypeCorrect`, `SingleCopy` | `OneCopy` is inductive with `TypeOK`, one job at a time |
| `QueueInvariant` | `AttemptsForgotten` and `StopsAreTold` are inductive with `TypeOK` |
| `VolatileRefinement` | each action is a step of `VolatileQueue` or a stutter, given `QueueInv` |
| `UserServiceProofs` | |
| `TypeCorrect`, `UniqueEmails` | inductive; the check before the insert plays no part, the index does |
| `StaleOnlyIfExplained` | `CacheInv` is inductive |
| `DirectoryRefinement` | each action is a step of `UserDirectory` or a stutter, given `CacheInv` |
| `RateLimiterProofs` | |
| `TypeCorrect`, `RateLimited` | `RateInv` is inductive and implies `RateBound` |
| `RequestChainProofs` | |
| `ChainRateLimited` | every step of the chain is a step of the limiter or leaves it alone |
| `ChainTypeCorrect`, `AnswersAreComplete` | `OnItsWay` with the place in the chain is inductive for each request |
| `OneAnswer` | once a request has an answer it goes up and keeps it, by the parts of `OnItsWay` |
| `LoginFirst` | `TokensFromLogins` is inductive, and only `Authenticate` leads to a protected handler |
| `UserListingProofs` | |
| `SeederTypeCorrect`, `SeedingIsSafe`, `CountIsHonest` | consequences of the inductive `SeedInv` |
| `ListingIsSeeding`, `ReadersDisturbNobody` | a client that reads is a stutter of `UserSeeder`, the rest are its steps |
| `ListingTypeCorrect`, `PagesMatchTotals`, `WalksAreFaithful` | consequences of the inductive `WalkInv` |
| `ServerLifeProofs` | |
| `TypeCorrect` | inductive |
| `ShutdownIsGraceful`, `CleanExit`, `OneWorkerAtATime` | `LifeInv` is inductive |
| `DoneIsDelivered` | `MailInv` is inductive over `LifeInv` |

Why the strengthening.

- Exclusive execution alone is not inductive: a claim in
  progress (`selected`) will write its row whatever is there by then. `ReservationInv`
  says that a single claim is in progress and what it read is still there
  (`OpenClaimIsCurrent`), that what a worker holds is the row as it saved it
  (`HolderOwnsReservation`), and that nobody keeps a copy beyond the staleness bound
  (`ClaimsAreFresh`). Hence a held row is not eligible, no claim can take it, and the
  holder is the only one to write it. `AccountingInv` then says for each status how many
  attempts and successes a job can have; its case for rows left in processing
  is what makes a redelivery cost an abandoned execution.
- `DriverInv` has three parts. `StageInv` ties the flags and channels to the place of `Stop`, `TaskInv`
  a running job to one worker that has not returned. The crux is `DrainInv`: once Stop has begun a worker
  returns only from an empty channel, and from then on the mutex, and later the closed
  channel, keep it empty. That needs a worker, hence the assumption `Workers # {}`.
- The refinement of `VolatileQueue` needs all of `QueueInv`: `OneCopy`, for a popped message to be that of a waiting job and an
  exit to lose no job that is elsewhere; `StopsAreTold`, for a timer to be cancelled only after a disturbance; and
  `AttemptsForgotten`, by which a job that is given up had a message with one attempt and that limit.
- `CacheInv` says that a stale
  key is about to be flushed or suspect, that what a reader is about to
  cache is current or suspect, and that an id not handed out yet is unknown to the cache and to those who
  are about to write (`FreshIdsUnknown`). The last part is what the refinement needs of it: a registration
  cannot take an id that an overtaken update will write. For the rest it suffices that a step of one
  request touches no other row: `Contested` changes at the id that was written, or shrinks by the id of
  a request that ended.
- `RateInv` says that the bucket a request has found is still the one of the map when it is used
  (`HeldIsCurrent`), that addresses do not share buckets
  (`BucketsApart`), and that what an address has spent in the open window and what its bucket has
  left are within a burst and the refill (`Budget`). It rests on `LimiterAssumption`: an idle bucket is full, `MaxStall` later
  than it was looked up, before its entry is three minutes old. A configuration with a burst of more
  than 180 s worth of requests breaks it, and then the cleanup hands out a new burst early.
- `OnItsWay` says what a request has collected by the time it is at a place: headers on the
  way down, an answer on the way up, the log line above `Logger`, and that a panic has left
  `Logger` and `CORS` behind. `TokensFromLogins` says that a token expires no later than the last login of
  its user allows.
- `SeedInv` adds to the properties that a seeder about to insert has a try left, and that the row it is
  about to create first is the administrator's.
- `WalkInv` speaks of a row by its rank, the number of rows that are newer (`PlaceIsRank`: in any ordering the database
  may return, the row of rank `k` stands at place `k + 1`, unless two rows have one time). While nobody is
  deleted, ranks only grow (`RankGrows`), so a row that has not been shown keeps a rank at or beyond the offset of the next
  page (`UnseenAhead`), and while the table is left alone one that has been shown keeps a rank before it
  (`SeenBehind`). `TotalCounted` and `UnseenCounted` say that the count a page came with covers the rows still to be
  shown; at the last page the offset has passed all of them (`LastPage`). No induction over sequences is
  needed. `ListingAssumption` says for it that `Emails` is finite: they are columns of 150 characters.
- `LifeInv` says what is open at each stage of `main` (`OpenAsStaged`), that work happens only where
  what it needs is open (`WorkWhileServed`), who can have jobs with which driver (`DriverKeepsJobs`), and, for `OneWorkerPerJob`,
that a serialised claim is the only one and of a row that is there to be claimed, and that a job whose reservation did not
expire under its worker is running, with that worker alone (`ClaimsAgree`). `MailInv` says of
  every mail that was taken that it was repeated, is still under way, or ended its job.

Without `IsolatedClaims` or `TimelyWorkers` the theorems that assume them are false, as described
[below](#what-the-violation-runs-show). `NothingLost` is what remains.

Only model-checked: all liveness (`EveryJobSettles`, `BufferedIsExecuted`, `AcceptedIsExecuted`, `StopReturns`,
`CacheConverges`, `EveryRequestAnswered`, `SeedersEnd`, `ComesUp`, `ShutdownEnds`, `QueuedIsSettled`),
because fairness and ENABLED are out of the prover's reach. `2^a \in Nat` for attempts up to the maximum is the assumption
`PowersAssumption`, which TLC evaluates: the provers have no theory of powers.

## What the violation runs show

| Run | What happens |
|---|---|
| `db_double_claim` | two workers read the same pending row before either saves: both execute it |
| `memory_panic` | Stop closes the channel, the next Dispatch sends on it |
| `redis_attempts` | each retry starts at zero attempts: the job never dies |
| `user_stale` | a read finds no key, reads the row; an update saves and invalidates; the read caches the old row |

PROJECT.json quotes for each the line that says otherwise. The models contain
further behaviour at odds with a comment or a document; no run is spent on it.

- `db_double_claim` has two sequels. The `Save` of the slower claim inserts a row again
  that the faster worker has deleted. And outcomes are written by id alone, so with
  `TimelyWorkers` FALSE a worker that lost its reservation puts a failed row back to pending. In either case
  `SettledIsFinal` fails. Both happen in the deployment of `docker-compose.yml`, which runs PostgreSQL and whose
  mail handler may hang: `OneWorkerPerJob` of `ServerLife` names them as the only ways to two workers with one job, and
  `DoneMeansDelivered` counts the mails they repeat.
- A stale row is claimed whatever its attempts are, so crashes lead to more executions than
  `QUEUE_MAX_ATTEMPTS`; `AttemptsAccounted` is the bound that does hold.
- The delay of the first retry is `1 << 1` times 2 s, that is 4 s, where the comment
  of `driver_database.go:205` begins with 2 s.
- An LPUSH that go-redis repeats because its reply was lost makes a job that is executed twice (`PushedAgain`).
- A graceful `Stop` of a process with the Redis driver drops its delayed jobs and retries
  (`TimerCancelled`).
- An update that overlaps a delete saves the row it loaded and so inserts the user again; one that overlaps
  another update puts back the field that one has changed. `UserDirectory!Overwrite` is both.
- Of two overlapping registrations with one email, the one the unique index rejects
  is answered with 500, not with the documented 409. One whose welcome mail could not be
  dispatched is answered with 201.
- `total_pages` is computed from the `page_size` that was asked for, the page from the one the usecase
  clamped it to: with `page_size` above 100 a client that reads up to `total_pages` ends early.
  `WalkIsFaithful` is therefore about sizes that are honoured.
- Of two seeders that start together, one may fail on the administrator although it exists by then.
- `Send` reports an error when the reply to the text or QUIT fails, although the mail was taken; the
  retry sends it again. It has a context and does not look at it, so a silent mail server
  keeps a worker for longer than its 60 s, and `Stop` waits for it until its timeout.
- A token stays valid after its user was deleted, until it expires.
- A pool that is started again after `Stop` runs on closed channels: `Dispatch` panics, and so does a second `Stop`.

## Not modelled

The logger, configuration and the migration command have no state of the program's own worth a module;
the API documentation is generated. Handlers of jobs other than the mail are nondeterministic outcomes.
Within the modelled components the following is left out:

- binding and validation of requests, `isValidRequestID` and the contents of headers: data;
- signatures of tokens and hashes of passwords, which libraries check: a token is valid if it was issued, a
  password matches or does not;
- DSNs, pool limits other than the single connection of SQLite, health figures;
- `RegisterDriver` of the queue and the database: nothing calls it after `init`, so the map
  that the fallbacks of `factory.go:111` read without the mutex has no concurrent writer;
- a disabled Redis client, which makes every cache call a no-op and the Redis driver poll once a second, and
  undecodable messages, which the driver never writes;
- the Redis driver inside of `ServerLife`: it keeps the promise of `VolatileQueue` only;
- the widths of integers, which matter only in the backoff after some sixty attempts, where the default is three.

## Plan

Done: `JobLifecycle`, `DatabaseQueue`, `MemoryQueue`, `WorkerPool`, `VolatileQueue`, `RedisQueue`, `UserDirectory`,
`UserService`, `RateLimiter`, `RequestChain`, `UserSeeder`, `UserListing`, `Mailer`, `ServerLife`, and the eight modules of
proofs. The order was: the queue that the documentation recommends for production first, then its siblings,
then the requests, then what composes them.

What remains: `Backoff64`, the shift and the conversion of the backoff to seconds with their widths.
