# A TLA+ model of wallet-service

wallet-service is a Go HTTP service that keeps balances in integer paise in
PostgreSQL and lets users pay each other. A transfer is idempotent under a key
that the client chooses, and its sender can claim it back for a while, exactly
once. This directory models the request path statement by statement, and round
it accounts and tokens, the middleware chain, the log ring and the life of an
instance from its configuration to its end; it checks them with TLC and proves
their safety properties with TLAPS.

## 1. Inventory

| Component | State | Operations | Model |
|---|---|---|---|
| transfer service (`internal/service/transfer.go`) | none of its own; local variables of a request | `Execute`, `ClaimBack`, `GetByID`, `resolveExistingKey`, `resolveUnappliedClaim`, `replayClaim` | `TransferService` |
| wallet service (`internal/service/wallet.go`, `internal/repository/wallets.go`) | none | `GetOrCreate` (three statements), `GetBalance` | `WalletService` |
| repository (`internal/repository/{store,tx,transfers}.go`) and schema (`migrations/`) | tables `wallets`, `transfers`; open transactions with their row locks and uncommitted rows | `WithTx`, `WalletExists`, `InsertWallet`, `LockWallet`, `SumActiveHolds`, `InsertTransfer`, `MarkReversed`, `UpdateWalletBalance`, lookups | `Store` |
| handlers (`internal/handlers/{transfer,wallet,respond}.go`) | the reply | which operation a route runs, domain error to reply | `WalletSystem`, `Store` (partly) |
| request deadline (`withTimeout`), lost connections, death of the server | requests answered 503 whose transaction is still open | `Abandon`, `Reap`, `ReapCommit`, `ReapInsert` | `WalletSystem` |
| connection pool (`internal/db/db.go`) | connections in use | taken by each statement or transaction | `PoolFree` in `Store` |
| authentication (`internal/service/auth.go`, `internal/repository/users.go`, `internal/handlers/auth.go`) | table `users`; tokens held by clients | `Signup`, `Login`, `VerifyToken`, `authenticate` | `Auth` |
| router and middleware (`internal/api`) | request context, the status of a `statusRecorder` | `recovery`, `requestID`, `metrics`, `withTimeout`, the mux, `authenticate` | `Api` (partly: one protected route) |
| log ring (`internal/obs/log.go`) | the last lines, two mutexes | `Write`, `push`, `Snapshot`, `ServeHTTP` | `Ring`, `LogRing` |
| metrics (`internal/obs/metrics.go`) | counters | HTTP requests by route and status, authentication failures; transfers and claims applied | `Api`, `TransferService` (partly) |
| server lifecycle (`cmd/server/main.go`) | process state, requests in flight | start, select, signal, `Shutdown`, `pool.Close` | `Server` |
| migrations (`internal/db/db.go`, `migrations/`) | version, dirty mark, advisory lock, schema | `Migrate` | `Server` |
| health probes (`internal/handlers/health.go`) | none | `Healthz`; `Readyz` (asked by nothing in the repository) | `Server` (`Healthz`) |
| configuration (`internal/config`) | environment of an instance | `Load` | `Server` |

**How they interact.** A handler calls a service; a service runs a closure
inside `WithTx`, or single statements on the pool; every statement goes to
PostgreSQL at READ COMMITTED. Requests share nothing in the Go process but the
pool: they meet in the two tables, on row locks and on uncommitted rows. Every
request first goes through
`recovery(requestID(metrics(withTimeout(mux))))`, and on a protected route
through `authenticate`, which puts the user id of a token into the context; all
requests of a process write to one logger, one ring and one set of counters.
Instances share nothing but the database, where they meet in the migrations.

**What is hard.** Requests interleave between any two statements. `now()` is
the time at which a *transaction* began, so a statement that had to wait for a
lock works with an old time. A request may be cut off at any statement, and a
COMMIT that was under way may take effect after the client got a 503 and has
retried. Wallet rows are created by transfers and by `POST /accounts` at the
same time. `Execute` takes rows in two ascending passes (inserts, then locks),
which is not one ascending order. Credits are unchecked int64 additions. A
signup has no idempotency key, and its INSERT may commit after the client was
told 503. A handler may panic before or after its answer, and each layer of the
chain sees less of that than the next. A migration is several statements, and a
process may die between any two or leave one running in the database. A
shutdown races with its own start, with the failure of the listener and with
handlers that outlive it.

**What makes it correct.** Every committed balance is explained by the
transfers; retries and claims take effect once and agree in their replies; a
sender can claim money that is there; nobody deadlocks; every request ends. A
username has one owner, who alone can act under it; what a client was told stays
true; logs and counters agree with what the clients were told; no instance
serves on half a schema or a bad configuration; a signalled process ends, and
cuts no transaction when it does. The hazards are listed with their lines in `PROJECT.json`.

## 2. Modules

- `Money`: sums of amounts. A sum counts coins (the cardinality of a set of
  pairs), so that facts about SQL's `SUM` follow from cardinality theorems
  without recursion. An ASSUME of `MCWalletSystem` compares it with a fold.
- `Store`: constants (`Windows`: the `CLAIM_WINDOW` of each instance, `Window`: the
  shortest), the tables (`wallets`, `transfers`), the database clock,
  one record per request (`pc`, `req`, `tx`, `resp`, `gone`) and the statements
  of `tx.go`. A transaction's uncommitted inserts are `tx[r].created`, its row
  locks `tx[r].locked`, the time fixed at BEGIN `tx[r].now`, and the loop and
  the balances of the Go closure `todo`, `bal`, `held`. The new balances are a
  function of the call and the balances read, so they are not stored.
- `TransferService`, `WalletService`: one action per database statement.
- `WalletSystem`: composes both with arrival, time and failures; states the
  properties.
- `Ledger`: what the service promises, in three atomic steps: open a wallet,
  move money that is there under a fresh key, reverse a completed move.
  `WalletSystem` instantiates it with `transfers <- LedgerRows`.
- `WalletInvariants`: the inductive invariant `IInv`, what the theorems on
  claims and on 503s take for granted (`SeedsFit`, `ClaimsOnTime`, `SumsOnTime`), and
  `NeverUnavailable`, which a theorem derives from them.
- `Auth`: accounts and tokens. `Api` extends it with the chain of handlers, the status
  recorder, the counters and the ring. One protected route (`GET /accounts/me`) stands
  for the wrapper `authenticate`; that `router.go` wraps the others is not covered.
- `Ring`: the pure part of the log ring, used by `LogRing` (writers and readers
  with their mutexes) and by `Api`.
- `Server`: several instances, one database, the platform that starts, probes,
  signals and kills them.
- `MCWalletSystem`, `MCAuth`, `MCApi`, `MCLogRing`, `MCServer`: calls,
  payloads and environments for the runs. `PatientSpec` of `MCAuth` restricts
  `Auth` to a client that waits for an answer before it tries again.
- `MoneyProofs` (sums), `LedgerProofs`, `WalletSystemProofs` (`IInv`),
  `MoneyFlowProofs` (coverage of the holds, refinement), `RequestProofs` (what
  requests were told, deadlock, claims in time, why a 503 is told, progress,
  counters), `ApiProofs` (accounts, and the chain round them),
  `LogRingProofs`, `ServerProofs`: theorems and proofs.

| Code | Action |
|---|---|
| `Execute`: validation / recipient lookup | `Arrive` / `Lookup` |
| `WithTx`: BEGIN, error or early return, COMMIT | `Begin`, `Rollback` inside the failing action, `Commit` |
| loop of `WalletExists` and `InsertWallet` | `CheckWallet`, `InsertWallet` (waits while another transaction has an uncommitted row) |
| loop of `LockWallet` | `LockWallet` (waits for the row lock, then reads the committed balance) |
| `SumActiveHolds`, `InsertTransfer` | `SumHolds`, `InsertTransfer` |
| funds check and two UPDATEs | `Settle` |
| `resolveExistingKey`, after the rollback | `resolveExistingKey` |
| `ClaimBack`: first read; locks; `MarkReversed`; two UPDATEs | `LoadTransfer`; `LockWallet`; `MarkReversed`; `Reverse` |
| `resolveUnappliedClaim`, `replayClaim` | the same names |
| `GetByID` | `ReadTransfer` |
| `GetOrCreateWallet` | `AccountExists`, `AccountAcquire`, `AccountInsert`, `AccountRead` |
| `GetWalletBalances` | `GetBalance` |
| `Signup`: validation; `CreateUser`; result and token | `Arrive`; `CreateUser`; `Created` |
| `Login`: `GetUserByUsername`; bcrypt and token | `GetUserByUsername`; `ComparePassword` |
| `authenticate`, `VerifyToken`; a protected handler | `Authenticate`; `Handle` |
| the deadline, a lost connection; a panic; an INSERT nobody waits for | `Abandon`; `Panic`; `LateInsert` |
| into the chain: to the handlers of `Auth`; to `GET /logs` or no route | `Dispatch`; `Serve` |
| a step of a handler with `authFail`, `writeDomainError`; `statusRecorder.WriteHeader`; rest of `metrics`; `recovery` | `Handler`; `Through`, `Record`; `Finish`; `Recover` |
| slog to stdout; `Ring.Write`: lock, one push, unlock; `Snapshot`; `ServeHTTP` | `Log`; `Lock`, `Push`, `Unlock`; `Snapshot`; `ServeHTTP` |
| `config.Load` | `Load` |
| `db.Migrate`: lock, version, dirty mark, script, clear, any error | `LockMigrations`, `ReadVersion`, `Migration`, `MigrateFails`; `Reap` for a session left behind |
| `run`: pool (or the error of `db.Connect`), handler, goroutine; the select; `Shutdown`; `pool.Close` | `Start`, `Listen`; `ListenFailed`, `Shutdown`; `Drained`, `DrainTimeout`; `ClosePool` |

Abstractions. The two UPDATEs write rows that the transaction has locked, so
nothing can come between them and they are one action with the funds check
before them. A rollback is part of the action that fails: until it is executed
the locks are held, as before the failing statement. User ids are numbers, whose
order stands for the order of the id strings. Usernames resolve to users
(`Null` for an unknown one); `hashBody` is injective. Transfer ids are the names
of the requests that insert them. A counter goes up with the reply it belongs
to, so `TransfersApplied` and `ClaimsApplied` count replies; a scrape sees what
they have grown by since the last start. Logging, the other domain counters and
the wording of replies are left out of the transfer path: nothing reads them back.

In `Auth` the id of a user is the request that inserted it; a hash is its salt
and the password, and can only be compared; a token is its subject and expiry,
and one that no client was given has no valid signature (`Forged` stands for
it). The clock counts whole ticks of the token's lifetime. A body that does not
decode is answered like an invalid field. In `Api` a protected route is one
handler that ends; what it does is `WalletSystem`. A log line is its request,
event and status. `LogRing` writes any byte string, although slog writes only
single lines. The rule of net/http that only the first status of an answer reaches
the client is in `WriteHeader`; the recorder takes every one. `Recover` writes its 500
whatever was written before, as the code does. In `Server` golang-migrate and pgxpool are
modelled from their use; a script is one implicit transaction, and fails on a schema it
was not written for; the timer of `Shutdown` may fire whenever it waits. An URL of the
scheme `pgx5://` is the one fault (`url_pgx5`) that golang-migrate accepts and pgxpool
does not, so it stops an instance at `db.Connect`.

A `CLAIM_WINDOW` is not stored with a transfer, so instances of a rolling deploy, or
the same one before and after a restart, may differ. A request uses the window of
its instance in one statement, so that statement picks it from `Windows`.

`late` is a history variable: the transfers whose reversal committed when the
shortest window had already closed, because the claim had begun inside it or was
served by an instance with a longer one. It is written at COMMIT and read by no action.

## 3. Runs

| Run | Specification and bounds | Question |
|---|---|---|
| `transfers` | `Spec`, 2 users, 3 requests, 2 connections, Seed 2, MaxInt64 3 | Do the books balance, do retries agree, is a wallet created once, does "insufficient funds" mean an unused key, do balances stay in range when a credit would pass the top of int64, is the ledger implemented, can requests and the pool come to a standstill, does anybody go round in circles, and why is a request told 503 by a step of its own, with failures at every statement? |
| `claims` | `Spec`, 2 users, 3 requests, Windows 1 and 2, clock 0..1 | Does `IInv` hold; is a reversal applied once and reported alike; is what can be claimed covered; do the locks serialize; is history final, field by field; how far can the counters be from the ledger; why is a request told 503 by a step of its own? |
| `ring` | `QuietSpec`, 3 users, 4 requests | Can transactions wait in a circle? |
| `progress` | `FairSpec`, 1 connection, no symmetry | Is every request answered? |
| `accounts` | `Auth!FairSpec`, 3 requests, 1 name, 2 passwords, TTL 1, clock 0..2 | Has a name one owner; was every identity earned with the password, in time; do the answers of a signup stay true; is an account reachable for ever; is every request answered if the database never is heard of again? |
| `chain` | `ApiSpec`, 3 requests, ring of 3 lines, 1 panic | Do the recorder, the log, the counters and the clients agree on every status? |
| `logs` | `LogRing!Spec`, 2 writers, 1 reader, 3 records, ring of 2 lines | Does the ring hold the newest lines; does `GET /logs` serve whole records; do stdout and the ring agree? |
| `lifecycle` | `Server!FairSpec`, 2 instances, 3 starts, 2 migrations, 1 request, 5 environments | Is the version table true; does anybody serve on half a schema or a bad configuration; does a graceful end cut a transaction; does a signal always end the process? |
| `claim_unfunded` | `QuietSpec`, 3 requests | Violation: "The reversal can never fail for lack of funds". |
| `signup_retry` | `PatientSpec`, 2 requests | Violation: "temporarily unable to process the request; safe to retry". |
| `route_label` | `ApiSpec`, 1 request | Violation: "HTTP requests by route, method and status code". |
| `outage` | `Server!FairSpec`, 1 instance, 1 start, 1 migration, 1 request | Violation: "`/readyz` (which pings the DB) takes the instance out of rotation during an outage". |

Why the bounds are enough. Every conflict in the code is between two
transactions on a wallet row, plus a third request that observes or overtakes;
three requests give a duplicate together with a retry, or a transfer, its claim
and a spend. Four are needed for a ring of three users; two transfers, a claim
and a spend are beyond `claims`, and covered by the proof of `HoldsCoverage`.
A window of 1 with clocks 0 and 1 has transactions that began before, and
statements that execute after, an expiry; a larger clock only repeats that. The
window of 2 stays open: an instance that still honours what another one has
released. Seeds of 1 and 2 against amounts of 1 to 3 make
exact spends and overdrafts possible. `MaxInt64` is the width of int64 and
BIGINT: in `transfers` it is one above the seed, so that some credits fit and some
do not; elsewhere it is out of reach. Requests are
interchangeable (a call mentions request ids only through the set
`Requests`), so they are a symmetry set in the runs that check no liveness.
Every run checks deadlock; a state where all requests have ended stutters (`Idle`).

In `accounts` three requests are a signup, a rival or a retry, and a login or a
call that sees what came of them; a token that expires needs one tick, and
another one to use it too late. In `chain` a ring of three lines overflows with
the two lines each that failing requests write. In `logs` a record has up to three
lines, one more than the ring. In `lifecycle` two instances race for the lock, one dies
and is started again; two scripts are the least with a state between them. Its
one request may be working or in a transaction when the process ends; requests
of an instance do not affect each other there, except that all must be done.

Fairness. `FairSpec` assumes weak fairness of `Step(r)`, the next statement of a
request that can execute (the server runs its goroutines and PostgreSQL its
backends), and of `Reap(r)`, since PostgreSQL ends a transaction whose client
is gone: pgx closes the connection when the deadline cancels a query, and the
rollback follows. Nothing is assumed of clients, of the clock or of failures, and
the deadline is not needed for progress: `EveryRequestEnds` says that the waits
end by themselves.

`Auth` assumes the opposite: the server computes (`Compute`) and its timers fire
(`Abandon`, the deadline of `withTimeout`), and the database owes nothing at all.
`Server` assumes that an instance takes its own steps (its timers among them),
that a statement ends with its deadline at the latest (`Return`), and that the
platform goes on probing. Handlers may never end, the database may stay down, and
nobody is obliged to start, signal or kill an instance.

What the violations show. `claim_unfunded` comes from `now()` being fixed at BEGIN.
A claim begins in time, then waits for the recipient's wallet behind a spend whose
own transaction began after the expiry and which therefore did not count the hold.
When the claim gets its locks, `MarkReversed` still matches by the claim's old
`now()`. Either the money is gone and the UPDATE fails on the CHECK (the client
gets a 503, and a retry a 409), or it is taken from money that another, still
claimable transfer holds, which breaks "balance >= sum of active holds, at all
times" (`transfer.go:119`). An instance with a longer window does the same without any
waiting. `HoldsCoveredButLate` is what does hold: balance plus late reversals covers
the holds that are active under the shortest window. It is checked and proved.

`signup_retry`: the INSERT commits, the answer is lost, the client is told that a
retry is safe, and the retry is told that the name is taken. The account is not
lost: a login works (`AccountsStayReachable`).

`route_label`: `metrics` reads `r.Pattern` of the request it passed on, but
`withTimeout` gives the mux a copy, so every request is counted under the route
"unmatched".

`outage`: the platform and the container are told to probe `/healthz` (`render.yaml:9`,
and `main.go:96` from `Dockerfile:21`), which answers as long as the process serves; nothing
asks `/readyz`. An instance whose database is down for good stays in rotation, and
answers 503 to what it is sent.

Three smaller divergences are visible in the models and have no run of their own. The
line that `recovery` logs carries no request id and does not reach the ring
(`Recover`; `middleware.go:26` says "every log line"). And a login with a wrong
password is not counted in `auth_failures_total` (`Report`; `metrics.go:68` says
"missing/invalid credentials"). Last, `transfers_applied_total`, whose help text
is "Transfers that moved money" (`metrics.go:40`), does not count a transfer whose
COMMIT took effect after its client was told 503: its retries are replays.
`CountersExplained` says that it misses nothing else.

Two further observations. The comment at `tx.go:53` says that a concurrent
duplicate waits at the INSERT of its transfer; `LocksSerialize` shows that it
never does, because it has already waited for the sender's wallet. And the
comment at `transfer.go:52` calls the acquisition order ascending, which holds
within each of the two passes; `NoDeadlock` shows that the two passes together
do not deadlock either.

## 4. Proofs

For all users, requests, keys, calls, seeds, windows, pool sizes and int64
widths that satisfy `StoreAssumption` (finitely many users and requests, ids
that are ordered, a seed in range, positive windows with a shortest):

| Theorem | Statement |
|---|---|
| `Invariance` | `Spec => []IInv` |
| `TypeCorrect` | `Spec => []TypeOK` |
| `Serialization` | `Spec => []LocksSerialize` |
| `HoldsCoverage` | `Spec => []HoldsCoveredButLate` |
| `Refinement` | `Spec => LedgerSpec` |
| `Bookkeeping` | `Spec => []BalancesReconcile` |
| `MoneyConserved` | `Spec => []L!Conserved` |
| `RetryAgreement`, `ClaimAgreement`, `CreationOnce` | `Spec => []RetriesAgree`, `[]ClaimsAgree`, `[]CreatedOnce` |
| `RejectionsUnused`, `HistoryFinal` | `Spec => RejectionMeansUnused`, `HistoryIsFinal` |
| `DeadlockFree`, `StandstillFree` | `Spec => []NoDeadlock`, `[]NoStandstill` |
| `ForwardOnly` | `Spec => OnlyForward` |
| `CountersTrue` | `Spec => []CountersExplained` |
| `ClaimsFunded` | `Spec /\ []ClaimsOnTime => []ClaimAlwaysFunded` |
| `UnavailabilityExplained` | `Spec => UnavailableExplained` |
| `LeftAlone` | `SeedsFit` implies `QuietSpec /\ []ClaimsOnTime /\ []SumsOnTime => []NeverUnavailable` |
| `LedgerTyped`, `LedgerKeys`, `Reconciliation`, `Conservation` | `LedgerAssumption` implies `Ledger!Spec => []LedgerTypeOK`, `[]KeysUnique`, `[]Reconciled`, `[]Conserved` |
| `AuthInvariance`, `AuthTyped` | `Auth!Spec => []AuthInv`, `[]TypeOK` |
| `OwnersUnique`, `IdentitiesEarned`, `SignupTruth` | `[]OneOwner`, `[]IdentityEarned`, `[]SignupAnswersTrue` |
| `AccountsReachable` | `Auth!Spec => AccountsStayReachable` |
| `ApiInvariance`, `ApiTyped` | `ApiSpec => []ApiInv`, `[]ApiTypeOK` |
| `LogsTruth`, `CountersTruth` | `ApiSpec => []LogTellsStatus`, `[]CountedOnce` |
| `SegmentsAreLines` | `Segments(p) = LinesOf(p)` for every byte string |
| `LogRingInvariance`, `LogRingTyped` | `LogRing!Spec => []LogRingInv`, `[]TypeOK` |
| `RingTruth`, `ServedTruth`, `StdoutFollowed` | `[]RingHoldsNewest`, `[]ServedWhole`, `[]RingFollowsStdout` |
| `ServerInvariance`, `ServerTyped` | `Server!Spec => []ServerInv`, `[]TypeOK` |
| `SchemaTruth`, `OnlyMigratedServe`, `OnlyConfiguredServe` | `[]SchemaMatchesVersion`, `[]ServesOnlyMigrated`, `[]MisconfiguredNeverServes` |
| `GracefulEnd` | `Server!Spec => GracefulExit` |

`Auth` and `Api` are treated for all requests, names, passwords, lifetimes
(`AuthAssumption`: the markers for nothing, for a bad name, a bad password and a
forged token are none of the real ones; the lifetime is positive), capacities of
the ring and numbers of panics (`ApiAssumption`: a public call is `GET /logs` with
a limit or a path without a route). `LogRing` is treated for all writers, readers,
byte strings, limits and capacities (`LogRingAssumption`). `Server` is treated for all instances, numbers
of migrations and of starts, and environments (`ServerAssumption`).

The inductive invariant. Neither the type of the balances nor the coverage of
the holds is inductive: a commit writes values computed from reads that happened
several statements earlier. `IInv` says what a request knows at each statement:
`OpAt`, `TransferAt` and `ClaimAt` (its call fits its place), `LoopsAt` (which
rows it has created and locked so far), `Exclusive` (a row has one locker, a
new row one creator), `FreshAt` (a balance read under a lock is still the
committed one), and `DecidedAt` (the key is still unused, the hold sum covers what
is still held, the claimed transfer is still completed, the new balances pass the
CHECK). A step of one request keeps what another one knows because it writes
only rows it has locked (`CommitOthers`); neither time nor a shorter window
adds an active hold (`HoldsShrink`).

Coverage of the holds then follows commit by commit: a transfer leaves its
sender at least the hold sum it read, which bounds the present one; it adds the
same amount to the recipient's balance and holds; a claim in time takes its
amount out of both, and a late one is added to `late`.

What requests were told. `ReplyInv` adds to `IInv` that every successful reply of a
transfer names a row of the table, with that row's sender, key and amount, that
a reply to a claim names a row that is reversed (`RepliesTrue`), and that "created"
belongs to the request whose name is the id. Two replies about one key then
agree because the key has one row, and a row never changes but by its one
reversal. That a rejection means an unused key follows from what `DecidedAt`
says of the moment at which it is decided.

Deadlock. `OrderInv` says that each pass visits the ids in ascending order. Who
waits, therefore waits for one that has come further (`WaitsForFurther`): in a later
pass, or in the same pass at a greater id. Of finitely many requests of one pass
one waits for the greatest id (`GreatestRank`), and for nobody else among them.

Progress. With no transaction open the pool is free; with some open, one of them
waits for nobody (`DeadlockFree`), and it has its connection: `NoStandstill`, for a
pool of any size. `Left` bounds the statements a request has still to execute;
a round of a loop takes an id out of it (`TodoSize`), and a key that is taken or a
claim that came too late leads to one more statement, never back (`ForwardOnly`).
Together they are the safety part of `EveryRequestEnds`: what it needs besides is
that what can be executed is executed, the fairness of `FairSpec`.

Claims in time. If a claim that has passed its window is inside the shortest one until
it commits (`ClaimsOnTime`), no reversal is ever late, so `HoldsCoveredButLate` loses its
correction. A user with no late reversal has what is held of him (`HeldIsThere`), so the
recipient has what the claim takes (`OneHold`, `ClaimFunded`). That the comment "can never fail for lack of funds" needs
exactly this is what `claim_unfunded` shows.

Why a 503 is told. A request tells itself 503, with nothing going wrong outside, at seven
places in the model: a wallet that is not there when it is locked, a hold sum or an
available balance outside int64, the UPDATEs of a transfer and of a claim failing on the
CHECK, a key or a wallet gone when it is read again. `UnavailableExplained` says
that three reasons account for all of them: a credit that does not fit into int64
(`CreditTooLarge`), a window that closed between what the statement still honours and
now (`WindowClosed`), and an earlier late reversal that took money which was held
(`HoldsUndercut`). `ExplainedStep` goes through the places. `FollowUp` (what one statement
on the pool has learned is still so at the next) and `IInv` exclude the missing rows;
the debit of a claim and the hold sums are covered by the balance unless the second or
third reason applies.

`LeftAlone` is a corollary: `MoneyConserved` with `SeedsFit` bounds the sum of two balances
(`TwoBalancesFit`), which excludes the first reason, `ClaimsOnTime` the second for claims and
the third, `SumsOnTime` the second for hold sums. `SumsOnTime` is not a convenience. TLC
found that without it a transfer that began before five payments went back and forth, and
waited until their window had closed, sums the holds of one and the same money several
times; the sum passes int64, the client gets a 503. (In a smaller sum the same stale view
rejects a payment that the balance would bear.)

The counters. `FateInv` follows each commit to the one who asked for it: the request
a row is named after was told "applied" or 503, and so was some claim of each
reversed row. With the uniqueness in `ReplyInv` the replies that the counters count
are as many as the rows, but for the 503s (`CountersTrue`).

Refinement: `TableSteps` says that only `OpenWallet` and commits change the
tables; the commit of a transfer is `Move` (its key unused by `DecidedAt`, its
money there because no sum wrapped around, `CommitBalances`), that of a claim is
`ReverseMove`. The books are proved once, of `Ledger`, and carried over.

`AuthInv` ties everything to the request it came from: a row to the signup that
inserted it, which is waiting for the result or was told 201, 500 or 503
(`RowAt`); a late INSERT to a signup that was told 500 or 503 and has no row
(`LateAt`); a token to a row whose name and password its request has sent
(`ReplyAt`). Without `RowAt` a 409 could belong to a request that has a row.
A step of one request keeps what the others know since rows are only added and
the answers with tokens never change (`Frame`, `ProvedStays`). That an account
stays reachable is a property of steps: the row that a login with the right
password will find is there for ever (`AccountsStay`).

`ApiInv` is `AuthInv`, which the chain inherits because each of its steps is one of
`Auth` or a stutter (`ChainStep`), and four parts of its own. `ChainInv` relates
the place of a request in the chain to the one in its handler. `RecordedInv` says that while
`metrics` waits for the handler the recorder has the status the client was told, as soon as
there is one; a second one comes only after that, from `recovery`, which has no recorder. `LogInv` says that
every line of the ring tells the status its request was answered with, that the
line "request" of a request is its last, and that a line is missing only from a ring
that is full (`PushFacts`: what a push keeps). `CountInv` counts the requests that
have passed `metrics`, per status, and those turned away. `CountedOnce` sums with `Total` of
`Money`, so the lemmas of `MoneyProofs` serve here too.

`LogRingInv` nests the mutexes: stdout is a record ahead of the ring only while a
writer has slog's mutex and not yet the ring's (`MutexInv`). While the ring's is
held, what was pushed and what is left to push are together all the lines
(`LinesInv`), and a push onto the newest lines gives the newest of one line more
(`PushKeepsNewest`). Lines are what the loop of `Write` cuts, and also the longest
runs without a newline: the loop invariant `ScanAt` enumerates the runs behind the
start in ascending order, and the k-th run of such an enumeration is the one with
k - 1 runs before it (`Ranked`). Induction and recursive functions come from
`SetInduction` and `Recursion`, which speak of sets and functions, not operators.

`ServerInv` says what the holder of the advisory lock knows before each statement
(`Phase`), and that a session left behind knows the same (`OrphanOK`). It follows
that a script always meets the schema it was written for, that a fully migrated
schema has no statement outstanding (`NobodyServes`), so nobody serves while one
is executed, and that the four places where a bad environment stops an instance (`Load`,
`Migrate`, `Connect`, `ListenAndServe`) together cover all faults (`ConfigAt`). `ShutInv` adds for the end of `run`
that once `Shutdown` has been called nothing is accepted, so that the requests in
flight only become fewer (`InFlightShrinks`), and that `Drained` has seen none left.

Only model-checked. `EveryRequestEnds`, `EveryRequestAnswered` and `SignalledExits` need
fairness, which is out of the prover's reach. Only proved: the books of the abstract
ledger and that the service conserves money (`Conservation`, `MoneyConserved`), since the runs
check the stronger `BalancesReconcile`. The two properties proved under a condition,
`ClaimAlwaysFunded` and `NeverUnavailable`, are false without it: `claim_unfunded` shows how for
the first, and each reason of `UnavailableExplained` is one for the second; `transfers`
contains credits past int64 and `claims` windows that close.

## 5. Not modelled, and the plan

Not modelled, and why:

- JSON decoding, status lines, `Index`: formatting. `Readyz`: nothing in the repository asks it.
- The latency histogram and the counters of rejections, replays and lost races: no
  decision reads them.
- `GetUserByID`, `DBTimeout`: no code uses them. Down migrations: never run.
- Indexes, PostgreSQL's own deadlock detector, replication. A crash of PostgreSQL
  is a `Reap` of every open transaction.

The plan is carried out. What it leaves to TLC are the three liveness properties.
