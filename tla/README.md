# MassaCorp API: TLA+ models, model checking and proofs

MassaCorp is a multi-tenant back office: a FastAPI application (`app/`) over
PostgreSQL (SQLAlchemy 2 sessions) and Redis, a React frontend (`frontend/`), an
ETL (`etl/`) and a set of scripts (`scripts/`, `db/`). This directory models the
parts whose correctness depends on the order in which things happen, checks the
models with TLC and proves the main results with TLAPS.

Paths below are relative to the repository. `PROJECT.json` maps every definition
to the lines it models.

## 1. Inventory

### How a request runs

Every endpoint receives its database session from `get_db`
(`app/core/dependencies.py:68`): one transaction per request, committed when the
handler returns and rolled back on *any* exception, `HTTPException` included. The
isolation level is PostgreSQL's default, READ COMMITTED: each SQL statement sees
what is committed when it starts. No query of the application uses
`SELECT ... FOR UPDATE` or a version column. The ORM adds four effects that the
models keep:

* the identity map answers a second query for a row with the object already
  loaded, with its old attribute values, as long as the handler still refers to it;
* a changed attribute is written by `UPDATE ... WHERE id = :id` at the next flush,
  whatever the row holds by then (`session.py:21`: `autoflush=False`), and an
  attribute set to the value it was loaded with is not written;
* an `UPDATE` of a row that is gone fails (StaleDataError);
* an error in a flush ends the whole transaction, caught or not.

Handlers run in a thread pool and in several server processes, so two requests
interleave statement by statement. A row written and not committed is locked; a
second writer waits for the commit. The scripts use psycopg2 or the same ORM, one
or several transactions each; a COMMIT of a transaction in which a statement was
refused silently rolls it back.

The schema is that of the SQLAlchemy models with the triggers, indexes and server
defaults of the alembic chain.

### Components

| component | state | operations | what makes it correct |
|---|---|---|---|
| sessions and refresh tokens (`services/auth.py`, `token.py`, `session.py` and their repositories) | `sessions`, `refresh_tokens`, `revoked_tokens` | login, refresh (rotation), logout, logout everywhere, terminate, password change | a closed session stays closed; a rotation is never split; nothing is granted to dead credentials; handlers do not deadlock |
| request authentication (`core/dependencies.py`) | none | `get_db`, `get_current_user` | the check made first still protects the work made after it |
| passwords (`core/security.py`, `services/auth.py`) | one hash in the user's row | verify, migrate a hash, second step, change, reset | the password in force is the last one set |
| login lockout and CAPTCHA (`services/session.py`) | `login_attempts` | count failures, record an attempt | an account is locked after 5 failures in 30 minutes |
| second factor (`services/mfa.py`) | `mfa_secrets`, `mfa_recovery_codes`, a Redis counter | setup, enable, disable, verify, recover, regenerate | a code dies with its use or its batch; the lockout counts every failure |
| password reset (`services/password_reset.py`) | `password_reset_tokens` | request, validate, reset | a token works once and closes the sessions |
| OAuth (`services/oauth.py`) | Redis states, `oauth_accounts` | initiate, callback, link, unlink | a state is used once; a user keeps a way to sign in |
| users and GDPR (`services/user.py`, `gdpr.py`) | `users` | register, administer, delete, anonymize | an address is of one user; who was anonymized is out |
| API keys, RBAC (`services/api_key.py`, `rbac.py`) | keys, usages, roles, assignments | create, validate, revoke, assign | a revoked key opens nothing; a role means what was asked |
| rate limiting (`middleware/rate_limit.py`) | Redis sorted sets, or lists in memory | admit or refuse | no more than the limit in any window |
| supply orders (`endpoints/epicerie.py`) | orders and lines | life cycle, edits of lines | the status moves along its life cycle; totals equal the lines |
| restaurant stock (`services/restaurant/stock.py`, `consumption.py`) | quantities, movements | entry, exit, inventory, transfer, consumption | quantity and movements agree; nothing goes below zero |
| restaurant menu and charges (`services/restaurant/*.py`) | ingredients, dishes, recipes, links, charges | create, change, archive | a recipe is what was asked; an archived ingredient stays so |
| finance (`services/finance/*.py`) | accounts, transactions, invoices, payments, codes | create, cancel, pay, categorize | the balance equals the transactions; codes are of one row |
| supplier imports (`services/metro.py`, `eurociel.py`, `taiyat.py`) | invoices, aggregates, product dimension | import, recompute, synchronize | re-import is idempotent |
| file readers and loaders (`etl/`, `scripts/`) | files, warehouse rows | read, upload, load, migrate | every invoice once, with its lines; a rerun repairs |
| product links, seed, backup (`scripts/`) | links, samples, recipes | link, seed, migrate | reruns add nothing; prices are of linked products |
| periodic cleanup (`tasks/cleanup.py`) | deletes old rows | four deletes | nothing still needed is deleted |
| browser session (`frontend/src/api/client.ts`) | tokens in the store | refresh on 401, log out | concurrent 401s do not log the user out |
| brute force delays, shutdown, tenants, e-mail, metrics, configuration, classification, analytics, UI | | | not modelled, see section 6 |

The hard behaviours are: check-then-act across statements (rotation, lockout,
recovery codes, order status, invoice balance, unique codes), read-modify-write
through the ORM (stock, balances, totals), writes undone by an exception meant to
report them (lockout, replay detection), a rollback in the middle of a handler
(`revoked_token.py:66`), rows deleted under a running request, several
transactions in one script that may die between them, and state kept outside the
transaction (Redis, the browser). `PROJECT.json` lists each at its line under
`hazards`, with the properties that would catch it going wrong.

## 2. Plan

All the modules of the plan are written and checked, and every safety property that
does not rest on a fold over a sequence is proved (section 5). What is left:

* runs of their own for the overlaps that are known to break a documented rule
  (section 4, notes); until then the properties say under which history they hold,
  and `hazards` says which overlap no property covers.

## 3. Modules

In the modules of the API a worker `r` is a request slot and its record's `pc` is
the SQL statement it is about to run (`Requests` has what they share). An action is
one statement together with the Python code up to the next one. What a request
writes stays in its record until its commit action, a failure is the rollback of
`get_db`, and a crash (the process dies, the client goes away) is the same rollback
between any two statements. Where a property holds only while requests of one kind
do not overlap, a history variable (`alone`, `quiet`, `inTurn`, `calm`, `single`, ...)
records whether they have, *while requests of the other kinds interleave freely*.

The definitions whose comment begins with "Mutant of" are plausible bugs in that
definition. They belong to no behaviour of the specification; with the mutant in
place of the original TLC reports the property that guards against it.

### Sessions: AuthSession, SessionPromise, SessionsInTurn

A read looks at the committed tables (`ses`, `tok`, `sesRows`, `tokRows`,
`blackRows`, `pw`, `active`). A write is kept in the worker's record (`wTok`, `wSes`,
`wBlk`), which is also the set of rows it has locked, until `Commit`. `Begin*` are the
arrival of a request with the credentials a client can hold: any refresh token ever
issued and not expired, any access token (`ses[s].access` is the latest expiry of an
access token that names session `s`, `bareUntil[u]` that of one that names none).
Time is coarse (`Tick`; a request may outlive any number of ticks, which only adds
behaviours); a bulk `UPDATE` that waits for a row lock is taken when the lock is
released, in one step. A password is a version number. The content of a deleted row
stays in `tok` because the client's JWT still carries it.

`SessionPromise` is what the rest of the API relies on: a session is opened once,
closed for good, and what is granted in its name is granted to a request admitted
while it was open. `AuthSession` implements it through `Status`, `Holds` and `Granted`.

`SessionsInTurn` restricts `AuthSession`, in one of two ways requests may come, to one
under way at a time, and states the rules that hold only then.

### The ways in

* `LoginLockout`: `login_attempts` within one window; a failed login inserts its row
  and then answers by an exception, on which the row is rolled back.
* `PasswordReset`: tokens, counted over the last hour; an `UPDATE` waits for the rows
  another transaction has written, and two that wait for each other deadlock.
* `OAuthSignIn`: states and pending registrations in Redis, read and deleted by two
  commands that no rollback undoes; links, and whoever unlinks keeps another way in.
* `RateLimit`: each process decides at start whether it counts in Redis or in its own
  memory; in Redis refused requests count, in memory they do not, and a process that
  shares has nothing to fall back on when Redis fails.
* `BrowserSession`: the interceptors over the token store. A refresh has on the server the
  two halves that `AuthSession` has in detail: the token is read, then marked used and
  the next one given without another test, so two refreshes of one token that overlap
  both succeed. Answers may be lost or come after another's; the page may be left in
  the middle of a refresh, and the store outlives it. One page is modelled: several
  at once, each with its own copy of the store, are not.
* `Mfa`: the secret (`configured`, `enabled`, `lastWin`), the recovery codes (`rows`,
  `spent`) and the Redis counter of failures (`fails`, `failsUntil`). The counter is
  outside the transaction: a failure stays counted when the request is rolled back.
  A recovery code is looked for, then its row read again to be marked; what that second
  read answers is ignored, so a code deleted in between is accepted unmarked.
  Time is counted in windows of 30 seconds, and a TOTP code is the window it belongs
  to; `InTolerance` is pyotp's tolerance of one window on each side.
* `Credentials`: the hash in one user's row, under logins that migrate it from bcrypt
  to Argon2id, second steps, changes and resets. A request writes what it computed
  from the row it loaded. An `mfa_session` token is not consumed by its use.

### Users, keys, roles: Accounts, ApiKeys, Roles

Nothing in the database keeps an address unique; `audit_log` refuses every `UPDATE`,
also the one by which its foreign key would forget a deleted user. The uses of one API
key are counted one after the other because `validate_key` flushes `last_used_at` and
so holds the row; a key that the cleanup deletes before that flush is used on, but its
use cannot be logged. A role belongs to a tenant or to all (`Global`), and the UNIQUE
constraint says nothing of roles without tenant.

### Orders and restaurant: SupplyOrder, RestaurantStock, Restaurant (RestaurantMenu, RestaurantCharges)

`SupplyOrder`: `LoadOrder` reads the order and applies the status test of the endpoint
(`From`; `update_order_line` has none). For an edit of lines follow `ReadLine`,
`FlushLine` (the row is locked from here on), `Refresh`, `Recalculate` and
`CommitLine`; a reception flushes the lines it names, whichever they are.
`CommitStatus` writes the new status whatever the row holds by then; `CommitDelete`
waits for the locks that foreign keys and `ON DELETE CASCADE` need. A line is its
amount in cents.

`RestaurantStock`: a request is the list `todo` of moves it makes, in the order of the
code. For each move `ReadStock` loads the row, or answers from the identity map;
`InsertStock` creates a missing row and fails on the unique key when somebody else
committed it first; `WriteMove` computes the new quantity in Python (`Moved`), refuses
what the service refuses, and locks the row. `Deadlock` is PostgreSQL's choice of a
victim. The exceptions that `consumption.py` catches and ignores are followed as the
database session sees them. `book` is the last inventory plus `signed_quantity` of
the movements since, `served` and `taken` the sales on record and their movements.

`RestaurantMenu`: ingredients, recipes (a set of ingredients), links; an `UPDATE`, the
last statement before a commit, is taken with it. `RestaurantCharges`: the validity of
fixed charges and their projection to the year. `Restaurant` puts the two side by side:
they share no table.

### Finance: FinanceLedger, FinanceInvoices, FinanceRegister

`FinanceLedger`: a transaction is inserted, then the balance of its account is loaded,
changed in Python and written; a cancellation reverts it. `FinanceInvoices`: a payment
loads the invoice, then its payments, compares, inserts itself, sums in SQL and writes
the status when it differs from the one loaded. `FinanceRegister`: codes that are looked
for before the row is written (only entities have a unique index), members and their
default.

### Purchases and scripts

* `SupplierImports`: invoices of one supplier, the aggregates recomputed from their
  lines, EAN changes and the synchronisation with `dim_produit`. METRO keeps an
  invoice it has; TAIYAT and EUROCIEL delete it and import it again.
* `InvoiceFiles`, `InvoiceUpload`: what the extractors make of a PDF (EUROCIEL page by
  page, TAIYAT cut at first pages), and the script that posts EUROCIEL's invoices in
  batches, goes on after a refused one and dies when the connection does. A refused
  batch may have been stored, for the endpoint recalculates after its commit. An answer
  200 has stored all of it: the values the script writes convert, and an invoice that
  cannot be inserted fails in a flush, after which the session refuses the commit.
* `MetroJsonImport`: the loader of METRO's JSON, which commits an invoice
  before its lines.
* `ProductLinks`: the links made through the API and by three scripts, and the prices
  taken along them, while every recalculation gives the products new numbers.
* `RestaurantSeed`, `BackupMigration` (together in `Migrations`), `EurocielCatalogue`: the
  scripts that fill the restaurant, migrate the former program's data, and import a
  catalogue.

### Proof modules, MC modules

Each `MC` module instantiates components for TLC. Components that share no row that
several write are checked side by side in one module: a variable `part` chooses the one
a behaviour steps through, and the others stand still. The `_proofs` modules hold the
theorems, for any constants that the ASSUMEs of the components allow.

## 4. Runs

| run | instance | question |
|---|---|---|
| `tokens` | 2 requests, 1 session; 3 tokens and 3 ticks, or 2 tokens, 5 ticks and the cleanup; login, refresh, logout | rotations and a logout interleave while tokens expire or are deleted: `TokensConsistent`, `RevocationIsFinal`, `LogoutLeavesNothing` |
| `sessions` | 2 users and 2 requests over 2 sessions; or one request at a time of every kind, crashes, 6 ticks | who is closed and who is not, and the refinement: `NoLateGrant`, `ClosesAllOfOwn`, `ImplementsPromise`, `RotationInTurn`, `OldPasswordSessionsClosedInTurn` |
| `liveness` | 2 requests that overlap, or one at a time over 6 ticks; no symmetry, strong fairness | `RequestsEnd` |
| `signin` | 2 requests at each of the ways in | `ResetsConsistent`, `OAuthConsistent`, `RateConsistent`, `BrowserConsistent`, `NeverStranded`, `GuessesBounded`, `FactorConsistent`, `FactorSteps` |
| `access` | 2 requests, 2 users, 2 keys, 2 roles, 3 passwords | `AccountsConsistent`, `CredentialsConsistent`, `KeysConsistent`, `RolesConsistent` |
| `shop` | 2 requests; 1 order and 2 lines; 2 ingredients and 1 dish; 2 links; 1 charge | `OrderConsistent`, `NoOrphanLine`, `TerminalIsFinal`, `StockConsistent`, `NeverBelowZero`, `RestaurantConsistent`, `ArchivedStays` |
| `finance` | 2 requests; 2 accounts of 2 tenants, 2 transactions; 1 invoice; 2 rows of a kind; 2 products; scripts run up to 4 times | `BalanceKept`, `LedgerConsistent`, `InvoicesConsistent`, `KeptInvoices`, `RegisterConsistent`, `ImportsConsistent`, `PdfsReadWhole`, `UploadConsistent`, `JsonConsistent`, `LinksConsistent`, `MigrationsConsistent` |
| `finding_replay` | 2 requests; login, refresh | `ReplayRevokesAll` is violated |
| `finding_lockout` | as `signin` | `LockedAfterFailures` is violated |
| `finding_erasure` | as `access` | `ErasureNeverRefused` is violated |
| `finding_ean` | as `finance` | `ManualEanKept` is violated |
| `finding_prices` | as `finance` | `PriceOfLinked` is violated |

### Bounds and why they are enough

* Two requests: the hazards are pairs (a check and what invalidates it, two writers of
  a row). What depends on the number of requests is proved for any number.
* Bounds named `Max...` are on rows ever inserted, versions, runs and ticks; a request
  that finds no room fails. Three tokens are a token, its successor and the successor
  of that one, or two successors of one token; two sessions are the one that is closed
  and the one that must not be.
* The lifetimes are 1 < 2 < 3 < 4 ticks for access token, refresh token, session and
  retention, the order of 15 minutes, 7 days, 30 days and 90 days.
* `signin`: the captcha is asked after one failure and the lock falls after two, with
  two IPs for one address; two resets an hour on a clock of two ticks, and four tokens,
  one more than the overlap of two requests may ask for; four refresh tokens; three
  identities, two of one provider and two of one address; a rate of two in a window of
  two ticks, five requests, four ticks; one wrong code locks and one window unlocks;
  two recovery codes are a batch and its replacement. Second-factor requests overlap
  within two groups of operations (setup, enable, disable; login, regenerate, disable,
  recover) and while the clock has not reached its end.
* `shop`: a line enters worth 3 and is edited to 4, so that with `MaxTotal` = 7 one
  edited line fits next to a new one and two edited lines overflow the column; two
  ingredients are what two requests need to deadlock; the day changes between requests
  on charges; the second line of an order is added while no other request on lines is
  under way.
* `finance`: an account that overflows after one transaction in a direction, beside
  another that receives money; two articles of METRO and two of another supplier, one
  pair of which has more than one article recalculated at a time; an invoice
  of 2 paid by 1, 2 or -1; two codes that differ in capitals; files with an invoice
  that is unreadable before, within or at the flush of its lines; scans with a page
  without number and an empty invoice; links: once two requests overlapped none
  begins; the backup has a shared code, an orphan and a product METRO does not sell.
* `access`: a user is created by an administrator while no other request runs, except
  in the part on registrations.

Deadlock is not checked: clients may stop asking and the bounded clocks stop. Workers,
users and addresses are symmetric in the safety runs; the liveness run uses no symmetry.

### Fairness

`FairSpec` of `AuthSession` (and `LiveSpec` of `MCLiveness`, the same fairness): strong
fairness of each worker's `Step`, because the server runs every request it accepted and
PostgreSQL queues the waiters of a row lock, so a request whose lock is released again
and again gets its turn. Nothing is assumed of clients, administrators, the cleanup or
the clock. The other modules claim no liveness: `RestaurantStock` and `PasswordReset`
really deadlock, and the database breaks it.

### Findings

* **Replay detection revokes nothing** (`finding_replay`): the exception it raises rolls
  its writes back (`auth.py:698`).
* **No failure is ever counted** (`finding_lockout`): the 401 of a failed login rolls
  back the row of `login_attempts`, so neither the lockout nor the captcha triggers.
* **A user who has logged in cannot be erased** (`finding_erasure`): the foreign key of
  `audit_log` asks for an `UPDATE` that the immutability trigger refuses.
* **A recalculation drops the EAN a user gave** (`finding_ean`): it takes EANs from a
  column of the lines that no code writes.
* **Prices of products never linked** (`finding_prices`): a link holds a number of
  `dim_produit`, and the synchronisation reads it as a number of the aggregates.

Met while modelling, kept as notes without a run:

* Overlapping requests break rules that hold in turn: two rotations of one refresh
  token both succeed (`token.py:393`); a login that checked the old hash opens a session
  after the password change closed the others; two recovery codes' uses, a recovery
  code deleted while it is used (`mfa.py:709`), two edits of
  lines (totals), two movements of one ingredient (a movement without its quantity),
  two payments, two registrations of one address or code.
* A TOTP code is accepted again in the next window: the test compares the current
  window (`mfa.py:457`), not that of the code.
* A refresh whose token row the cleanup deletes between two reads is answered with
  tokens that name no session (`auth.py:703`). A logout with an empty body, which is
  what `frontend/src/api/auth.ts:16` sends, closes nothing.
* A login that migrates a hash writes over a password changed meanwhile; an
  `mfa_session` token obtained with a former password still opens a session.
* The GDPR endpoints do not compare tenants; anonymization keeps names, phone and OAuth
  links. Assigning an expired role again without a date leaves it expired.
* `signed_quantity` counts an inventory correction downwards as positive.
* A charge paid once is counted every month in projections; a PATCH cannot clear an
  end, and may move a start past its end.
* A replaced invoice whose date cannot be read is lost. A rerun of METRO's JSON after a
  success doubles quantities. Pages A, B, A of EUROCIEL give two invoices of one number
  of which the API keeps the second; a line without weight or VAT code is read with its
  columns shifted (`Columns`; lines with the code are not, `ReadAsPrinted`); a missing
  page makes a piece of TAIYAT take the next invoice's page.
* The seed and the first linking script add a second primary link on a rerun. Three
  scripts catch a refused INSERT and then count rows that their COMMIT does not keep.
* The branch on EMAIL_VERIFICATION_REQUIRED (`auth.py:156`) uses undefined names.

## 5. Proofs

The assumptions are the ASSUMEs of the components' modules, which TLC evaluates on
their runs. Everything below holds for every number of requests, rows, ticks and users
they allow. A safety invariant is seldom inductive as it stands; each item names the
inductive invariant and says what it adds. Each was model-checked first.

### AuthSession_proofs, SessionPromise_proofs

* `TypeCorrect`, from `TypeInv`: `TypeOK`, that the identifiers in use were handed out
  (`Allocated`), which fields of a request are set at which statement (`Control`), and
  that a request about to write a password holds the row (`PasswordLock`).
* `RevocationFinal` (`RevocationIsFinal`): from `TypeInv` and `NextMonotone`, that no
  action clears `revokedAt` or `used` or moves an expiry.
* `LateRequestsRefused` (`NoLateGrant`): a request that arrived late still presents dead
  credentials at every statement before the check that refuses it (`LateInv`).
* `TokensStayConsistent` (`TokensConsistent`), `LogoutIsComplete`
  (`LogoutLeavesNothing`), `ClosesAllAndOwn` (`ClosesAllOfOwn`): from `SafeInv`, which
  adds to `TypeInv` what a request under way has written and found out (`WorkInv`) and
  that tokens form chains (`Chained`).
* `PromiseKept` (`ImplementsPromise`): `AuthSession` implements `SessionPromise` under
  `status <- Status`, `holds <- Holds`, `granted <- Granted`. The initial states
  map to initial states, and each action to one of the abstract specification or to a
  stutter: a login's commit opens its session, the check of the credentials admits, the
  commit of a rotation grants, a commit that revokes closes, the cleanup purges, and the
  rest leaves the three mapped values alone (`QuietPromise`, `LoginPromise`,
  `RefreshPromise`, `CommitPromise`, `EnvironmentPromise`).

* `RotatesOnceInTurn` (`RotationInTurn`) and `PasswordEndsSessionsInTurn`
  (`OldPasswordSessionsClosedInTurn`), of `TurnSpec`, from `TurnInv`: what the only
  request under way has read still holds (`LoneWork`). A refresh finds its token unused
  and without a successor until it stores one, and no other token of the session is
  usable; a change of password has listed every session its user has open. The cleanup
  and the clock run between its statements, so a token whose row goes meanwhile is
  rotated unmarked, and not again because a deleted row does not return.

### SignIn_proofs

* `BrowserStaysSignedIn` (`BrowserConsistent`) and `BrowserNeverStranded`
  (`NeverStranded`), from `BrowserInv`: two refreshes may post one token, but each answer
  brings one of its own that nobody can post before it is in the store (`GivenTokens`),
  and at most one post is in turn (`InTurnPosts`).
* `IdentitiesStayConsistent` (`OAuthConsistent`), from `OAuthInv`: a state is passed
  once while callbacks do not race for it (`StatesOnce`), an identity is linked once
  (`LinksOnce`), what each request found is still so (`OAuthWork`), and whoever
  unlinks has found another way in that nobody else is about to remove (`Another`).
* `ResetsStayConsistent` (`ResetsConsistent`), from `ResetInv`. The bound on recent
  tokens is not inductive because a request that has counted will insert; the
  invariant bounds the two together (`AskedInBound`).
* `LimiterStaysConsistent` (`RateConsistent`), from `RateInv`. Nothing is counted, let
  through or about to be for a key that was not asked for it (`RateCounted`), and each
  memory is within the limit (`RateMemory`). `RateWindow`: what a window let through is
  at most what the memories and Redis hold of it, Redis up to the limit; or a later
  request has dropped some of its stamps, and what can still be let through is one for
  each process whose request of that window is under way (`Late`). Sums over processes
  and stamps are those of `Sums`, hence `Workers` is assumed finite.

### Mfa_proofs

* `TypeCorrect`. `LockoutHolds` (`GuessesBounded`): `LockoutInv` bounds
  the counter together with the requests past the lockout test (`Guessing`), since each
  of those will still count its failure.
* `FactorStaysConsistent` (`FactorConsistent`) and `FactorStepsHold` (`FactorSteps`):
  the statement a request is at tells its operation (`OwnPc`), what a request
  without company read stays true (`OneAtATime`, `FactorWork`), and a recovery past its
  first read presents a code that was alive when it arrived, and has its row to mark
  unless the row was gone (`RecoveryWork`).

### Access_proofs

* `KeysWork` (`KeysConsistent`): at most one request is between the flush of
  `last_used_at` and the end of its transaction for each key on record (`KeysInv`);
  a key that was deleted does not come back, and a use of it logs nothing.
* `RolesMeanWhatWasAsked` (`RolesConsistent`): what requests found out, and the history
  of overlaps (`RolesInv`).
* `UsersStayConsistent` (`AccountsConsistent`): `UsersInv` has for each request what it
  relies on (`UserWork`) and for each pair what keeps one from spoiling the other
  (`Beside`).
* `PasswordsStayConsistent` (`CredentialsConsistent`): `PasswordInv` says that in turn
  the hash is of the last password set, and of each request what it loaded.

### Shop_proofs

* `OrderTypeCorrect` and `StockTypeCorrect`, each inductive as it stands.
* `LinesKeepTheirOrder` (`NoOrphanLine`): inductive because `CommitDelete` waits for the
  requests that hold the order through a foreign key.
* `TerminalFinal` (`TerminalIsFinal`): `StatusInv` says that, as long as requests on a
  status do not overlap, the one past its status test still relies on what it read
  (`Relies`), although edits of lines commit in between.
* `StockNeverBelowZero` (`NeverBelowZero`): only a request for a dish served holds moves
  that may go below zero (`NoSale`), and until one has committed every quantity on
  record, and every one that another request holds, is at least 0 (`Positive`). It does
  not assume that requests are alone.
* `TotalsStayThoseOfLines` (`OrderConsistent`): `LineInv` says what a request that edits
  lines holds while no other does, and that a reception or a deletion in between leaves
  the sum of the lines alone.
* `StockIsWhatMovementsSay` (`StockConsistent`): `AccountInv` says for each sale under
  way how much of each ingredient it has taken and has still to take (`SalesWork`), and
  for a request that is alone that the quantity it loaded is the one on record
  (`AccountWork`, `OneAlone`).
* `RestaurantStaysConsistent` (`RestaurantConsistent`), from two invariants. `MenuInv`:
  until two requests have overlapped, the one under way is the only one (`OneRequest`)
  and what it loaded is on record (`MenuReads`). `ChargesInv`: an update that is about
  to write has loaded the start on record, unless the start was moved (`ChargeWork`).
  The projection of a year is bounded charge by charge, then summed (`SumOfMonths`).
* `ArchivedForGood` (`ArchivedStays`): rows are numbered in turn, so that nothing new
  takes the place of an archived ingredient, and an update writes only the columns it
  was asked for, whatever overlaps.
* `MigrationsStayConsistent` (`MigrationsConsistent`), from two invariants. `SeedInv`:
  until two scripts have overlapped, the names a script read are those on record, the
  seed has one id for each ingredient unless a request has renamed one (`OneIdEach`), and
  what a migration emptied stays so while the ids it keeps are of rows that are there
  (`ScriptReads`). `BackupInv`: what a run has gone through is among its codes, so what it
  inserts is the first product of its code (`GoesThrough`), and no two runs insert one
  code (`ApartFrom`). Samples and files are assumed finite.

### Finance_proofs

The components share no state; each theorem is of the component's own specification.

* `BalancesFollowCommits` (`BalanceKept`) and `LedgerStaysConsistent`
  (`LedgerConsistent`), from `LedgerInv`: a request on a quiet account is alone on it
  (`Alone`), so the balance it loaded is the one it changes and the transaction it
  cancels is confirmed until it commits (`LedgerReads`); and what was committed on an
  account is the sum over its transactions (`BookIsSum`), quiet or not.
* `InvoicesStayConsistent` (`InvoicesConsistent`), from `InvoiceInv`: what a request
  loaded still holds while the invoice is apart, and a status about to become `PAYEE` is
  covered by the payments whatever overlaps, because the total only grows until a
  payment of 0 or less is on record (`InvoiceReads`).
* `RegisterStaysConsistent` (`RegisterConsistent`), from `RegisterInv`: a code that was
  not found is still not there at the commit, and where codes come in capitals it is
  looked for as it is written.
* `JsonStaysConsistent` (`JsonConsistent`), from `JsonInv`: invoices of the file that are
  neither to come nor reported are complete, and a line is there at most once for each
  run. The units of packs are a lemma about `\div` (`RoundsToMultiple`).
* `PurchasesStayConsistent` (`ImportsConsistent`) and `InvoicesOnceKept`
  (`KeptInvoices`), from `ImportInv`: what a request under way relies on (`ImportWork`);
  what two cannot both have done (`ImportsApart`): insert the same invoice number, in turn
  both recalculate, and where invoices are kept both be past the INSERT with something
  inserted, since a product bought stays bought; that a row without a category is one
  some request will sort (`SortedInTime`) and a count that is not up to date one some
  request will replace (`CountedInTime`). `InvoiceNos` is assumed finite and not empty.
* `LinksStayConsistent` (`LinksConsistent`), from `LinksInv`: the numbers of aggregates
  only grow, so the number a row or a user's choice has is its article's until the
  article gets another, and then nobody's (`NamesOwn`); and what a script adds differs
  from the rows it read and from what it added (`AddsNew`) as long as nothing overlaps.
  A first number is given to each article of a set by a bijection (`NumberedBijects`).
  `Goods` is assumed finite, and an article found once by a search.

### Sums

`SumFunctionOnSet` of the community modules, over finite sets: `SumNat`, `SumAdd`,
`SumChange`, `SumSame`, `SumZero`, `SumMonotone`, `SumBounds`, `SumOfSupport`,
`SumOfSubset`, `SumOfEqual` and `SumOneMore`. Its definition folds by
a `CHOOSE` of a recursive function over the subsets, whose existence (`SumsExist`) and
uniqueness (`SumsAgree`) are proved by induction over the cardinality, as a set of
subsets without a least counterexample (`SubsetInduction`), since an induction theorem
with an operator parameter cannot be used. These are the sums of the totals, the
movements, the ledger, the aggregates and the windows of the limiter.

### Model-checked only

* Liveness (`RequestsEnd`), which needs ENABLED, and the findings.
* What the file readers and the upload compute (`PdfsReadWhole`, `UploadConsistent`):
  folds over a sequence, which need induction over data.
* Every other invariant and action property of the passing runs is a theorem.

## 6. Not modelled

* Tenants: every query of the repositories has the tenant's filter; each model is of one
  tenant, except where rows of two meet (`Accounts` of the ledger, `Roles`, `ApiKeys`).
  Row-level security contexts, which `get_db` does not set, are not modelled; scripts
  are assumed to run under a role it does not block.
* No endpoint or caller: `bruteforce.py`, `detect_*` and `enforce_*` of `session.py`,
  categories, statements, `update_account` of finance, `etl/normalization.py`,
  `core/password_policy.py`; `run_pipeline.py` imports names that do not exist. API-key
  validation, limits and RBAC changes have no endpoint either but are modelled, for they
  keep state of their own.
* Pure output or input: e-mail, alerts, metrics, logs, exports, statistics, lists. The
  audit log is modelled only where it refuses. Product classification is a table of
  keywords; settings and secrets are read once.
* Of modelled parts: the explicit list of ids of `DELETE /sessions`, `verify_user`, the
  cleanup of old reset links and attempts, the MFA counter in memory, received
  quantities of orders, quantities in recipes.
* Merged steps: in `SupplierImports` the flushed INSERTs of a synchronisation are taken
  with its commit, a file names an invoice once, and there is one supplier and one
  tenant; in `RestaurantMenu` and `RestaurantCharges` an UPDATE is taken with the commit
  that follows; `ProductLinks` takes each request that makes or deletes a link as one
  step, which `RestaurantMenu` has in detail.
