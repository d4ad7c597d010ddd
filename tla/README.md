# A TLA+ model of the anime request server

The server (`src/`, Go with PostgreSQL) keeps a board of anime requests: users
ask for a series, moderators edit the request, and each request is sent to one
or more *server destinations*. Every HTTP request runs in a goroutine of its
own; all state is in PostgreSQL, except the login limiter's table, which is in
memory behind a mutex. There is no lock in the application around the database
calls: a handler reads, decides and writes in separate statements, and what
keeps the data right under concurrency is partly the handler's checks and
partly the constraints the migrations install. That division of labour is what
this project models.

Run everything from this directory:

    tlc -workers 2 -config board_names.cfg MCRequestBoard.tla   # and board_links, board_batch,
                                                                # board_serial, board_removal_race
    tlc -workers 2 -config limiter.cfg MCLoginLimiter.tla
    tlc -workers 2 -config accounts.cfg MCAccounts.tla
    tlc -workers 2 -config notes.cfg MCNotes.tla
    tlc -workers 2 -config listing.cfg MCListing.tla
    tlc -workers 2 -config totp.cfg MCTotp.tla
    tlc -workers 2 -config server.cfg MCServer.tla
    tlc -workers 2 -config migrations.cfg MCMigrations.tla
    tlapm BoardProofs.tla      # and Limiter-, Accounts-, Notes-, Listing-, Totp-, Server-, MigrationsProofs


## 1. Inventory

| Component | State | Operations | Hard behaviour |
|---|---|---|---|
| Request board (`repository/requests.go`, `handler/api/requests.go`, `handler/web/handler.go`) | `anime_requests`, `request_server_destinations` | create (API, form), batch add (API, form), update (API), edit (form), delete, add and remove a destination | check and write in separate statements; transactions that wait on each other's index entries; errors in the middle; cascades |
| Server destinations (`repository/admin.go`, `handler/api/admin.go`) | `server_destinations` | create, delete | deletion under transactions that link the destination |
| Notes (`repository/requests.go`, `handler/`, migration 009) | `request_notes`, `users.notes_blocked` | add, delete, list, block a user | notes on a request that is being deleted; the flag read once per call; edit forms that lie open |
| Listing (`repository/requests.go`) | none | filter, count, page | page arithmetic on 64 bits; ties in the order; rows that come and go between two pages; a page that breaks off |
| Login limiter (`ratelimit/login_limiter.go`) | table address -> attempts, ban, notified | record a failure, is banned, mark notified, record success, cleanup | several critical sections per login; the cleanup goroutine; boundary of the window |
| Login, logout, sessions (`handler/api/auth.go`, `handler/web/handler.go`, `middleware/auth.go`) | `sessions` | login, logout, authenticate a call, expire | the user is read once per call; disabling under a login in progress |
| Accounts and invite codes (`repository/users.go`, `repository/admin.go`, `handler/api/admin.go`) | `users`, `invite_codes` | create a user, change role, disable, issue, redeem and delete a code | single use of a code; concurrent demotions of admins; a stop between two statements |
| TOTP (`auth/totp.go`) | the user's secret | validate a code | window arithmetic on unsigned counters |
| Passwords and tokens (`auth/auth.go`) | none | bcrypt, crypto/rand | none of its own |
| Client address (`middleware/iplog.go`, `ratelimit.GetClientIP`) | none | choose the header to trust | precedence of headers |
| Command line (`cmd/anime-request-server/main.go`) | the process, its listener and its connection pool | init, serve, create-user, generate-invite, shutdown | two commands at once; signals during start and shutdown; calls that outlast the grace period; calls that wait for a connection |
| Migrations (`database/migrate.go`, `database/migrations/`) | `schema_migrations`, the shape of the tables | up, down, force | a stop between a migration and its record; two at once; duplicates in the way of an index; a program newer than its schema |
| Configuration, templates, static files | none | read once, render | none |

**Interactions.** The router authenticates a call (session -> user) and hands
the handler a snapshot of the user. Handlers call repositories; repositories
issue statements on a connection pool. Components share only tables: deleting a
request cascades to its links and notes; deleting a destination cascades to its
links; disabling a user only sets a flag, and its sessions stay, to be refused
by the middleware for as long as the flag is set. The login handlers call the
limiter before and after they touch the database. One background goroutine
cleans the limiter's table, another deletes expired sessions.

**What makes each correct.**

* Request board: folded names unique, folded alternate names unique, no name of
  one request an alternate name of another; links always join rows that exist;
  a request keeps at least one destination; a refused or failed call leaves
  nothing; an answered batch has covered its titles; every call ends.
* Destinations: unique names; a deleted one takes its links along.
* Limiter: an address is banned exactly after the configured number of failures
  in the window; the table does not grow for ever; a ban ends.
* Sessions and accounts: usernames unique; a session belongs to a user; a code
  makes one account; somebody can always administer.
* Notes: a note belongs to a request that exists; it goes only with its request
  or by a moderator who names both; who is blocked does not post.
* Listing: every row is on exactly one page, as long as nothing changes; an
  answer is a whole page.
* TOTP: a clock that is one period off is tolerated, two are not, and a missing
  or broken secret lets nobody in.
* Commands: `init` leaves an existing admin alone and otherwise makes one;
  `serve` refuses to start without one, answers what has come in before it
  stops, and stops.
* Migrations: version and schema fit; what the board shows does not change.


## 2. Modules

| Module | Content |
|---|---|
| `RequestBoard` | The state, one action per routed call (`Submit...`) and one per SQL statement, `Spec` and `FairSpec`. Also the mutated operators that show each property can fail. |
| `Catalogue` | The abstract specification: a catalogue of entries changed by one atomic act at a time, with no handlers and no transactions. |
| `BoardProperties` | Type invariant, safety invariants, action properties, liveness, and the refinement mapping `Board` onto `Catalogue`. |
| `MCRequestBoard` | Instances for TLC: titles, case folding, and a set of calls for each question. |
| `BoardProofs` | Theorems about `RequestBoard`, checked by TLAPS. |
| `LoginLimiter` | The attempt table, the two login handlers around it, cleanup, restart and time. |
| `LimiterProperties` | Its properties, with a history of the recorded failures, and the invariant that explains them. |
| `MCLoginLimiter` | Instances for TLC. |
| `LimiterProofs` | Theorems about `LoginLimiter`. |
| `Accounts` | Users, sessions and invite codes, with the handlers and commands that write them. |
| `AccountsProperties` | Its properties, with a history of who was made with which code. |
| `MCAccounts` | Instances for TLC. |
| `AccountsProofs` | Theorems about `Accounts`. |
| `Notes` | Notes, the handlers that read and write them, and the `notes_blocked` flag with its edit forms. |
| `NoteLog` | The abstract specification: a log under every request. |
| `NotesProperties`, `MCNotes`, `NotesProofs` | Properties with a history of blocks and choices, and the mapping `Log`; instances; theorems. |
| `Paging` | The arithmetic of pages, as operators. |
| `Listing` | A reader who goes through the pages while others write; extends `Paging`. |
| `ListingProperties`, `MCListing`, `ListingProofs` | What page numbers mean, for every query, properties with a history of one walk, and the invariant that explains them; instances; theorems. |
| `Totp` | Validation of the second factor, as operators. |
| `TotpProperties`, `MCTotp`, `TotpProofs` | A device, two clocks and a login; instances; theorems. |
| `Server` | One serve process: start, listener, calls, connection pool, session cleanup, stop. |
| `ServerProperties`, `MCServer`, `ServerProofs` | Properties, instances, theorems. |
| `Migrations` | The schema, the commands that meet it, and the operator. |
| `MigrationsProperties`, `MCMigrations`, `MigrationsProofs` | Properties, instances, theorems. |

`RequestBoard` takes the caller's role and permission as part of the call, and
`LoginLimiter` the outcome of the credential check as a choice, so their
specifications share no variable. `Accounts` models what lies behind both, and
`Totp` the part of the credential check that has arithmetic. `Notes` keeps of a
request only whether it is there, `Listing` only what sorts and filters it,
`Server` of a call only the connections it takes, `Migrations` of all tables
only what the files move or constrain.

### RequestBoard and the code

*State.* `phase[i]` says whether the row with id `i` has never been inserted
(`unborn`), is inserted by a transaction that has not committed (`open`), is
committed (`live`) or was deleted (`gone`). `row[i]` holds the columns of
`anime_requests` that control depends on, `links` is
`request_server_destinations` with its uncommitted rows, `destPhase` is
`server_destinations`, and `task[h]` is the local state of handler `h`: the
statement it is about to run, its call, the destinations it read (`seen`), what
it still has to link or unlink (`todo`), the batch positions left to insert
(`left`), the ids it inserted (`mine`), and its last answer (`reply`).

*Steps.* `Submit...` is routing, the role check of the middleware and the
validation that needs no database; it is one step since nobody can observe its
parts. From there every SQL statement is one action, in the order the handler
issues them:

| Code | Actions |
|---|---|
| `api.RequestHandler.Create`, `web.requestNewSubmit`, `CreateWithDetails` | `SubmitCreate`/`SubmitNewForm`, `CheckNames`, `InsertRequest`, `LinkDestination` per destination, `CommitCreate`, `Reread` |
| `api.RequestHandler.Update` | `SubmitUpdate`, `CheckNames` (only if a name is sent), `UpdateRequest`, `Reread` |
| `web.requestEditSubmit` | `SubmitEdit`, `LoadRequest`, `LoadForEdit`, `CheckNames`, `UpdateRequest`, `AttachSelected` per destination, `TurnToDetach`, `DetachUnselected` per destination |
| `Delete` | `SubmitDelete`, `DeleteRequest` |
| `AddDestination` | `SubmitAddDest`, `AddDestination` |
| `RemoveDestination` | `SubmitRemoveDest`, `LoadRequest`, `LoadForRemove`, `RemoveDestination` |
| `CreateBatch`, API and form | `SubmitBatch`/`SubmitBatchForm`, `Prefilter`, `BulkInsert` per title, `CommitBatch` |
| destination handlers | `SubmitCreateDest`, `CreateServerDest`, `SubmitDeleteDest`, `DeleteServerDest` |
| any error, cancelled context, lost connection, crash | `Fail` |

*PostgreSQL* is external and modelled from how the repositories use it. At READ
COMMITTED a statement sees committed rows and those of its own transaction. An
insert or an update whose key is held by an uncommitted row of another
transaction waits (the guard `MayWrite`; the action is simply not enabled) until
that transaction commits or rolls back, and then fails or goes through. A
deletion of a destination waits for transactions that have linked it. A
transaction that ends without commit takes its rows and links with it
(`Rollback`). A cycle of waits is broken by `DeadlockAbort`.

*Restarts.* The server keeps nothing about a request in memory between two
calls, so a crash of the process is `Fail` of every handler and a restart is
handlers that are idle. A lost connection during `COMMIT` is a commit followed
by `Fail` at the re-read, or the answer `error` of `CommitBatch`.

*Abstractions.*

* Titles are a small set; `Lower` maps a title to its folded key. SQL's
  `LOWER`, Go's `ToLower` and `EqualFold` are taken to fold alike. Trimming is
  done by the client's side of the model: a title is trimmed, `Blank` is a string
  that is empty after trimming, `None` an absent field.
* A value its field's validation refuses is `Malformed`.
* In the destination ids of bodies and forms, a destination stands for its own
  canonical string. `Variants` are the other strings `uuid.Parse` takes (capitals,
  `urn:uuid:`, braces, no dashes), each of which means one destination (`Meant`);
  `Parse` is the conversion and `Ids` what a list of strings means. Handlers that
  only go on with the parsed id link `Ids`; the edit form also compares the raw
  strings with canonical ones, and so do `UpdateRequest` (what it finds to add) and
  `TurnToDetach` (what it finds to remove). Of an id in a path only what it
  means is kept, since nothing compares its spelling.
* Role and batch permission are part of the call: the middleware reads the user
  once and the handler never looks again.
* Rows read by id are modelled by what the handler decides on. The two
  statements of `GetByID` are two steps.
* The destinations of an edit or a create are linked in any order. The code
  follows the order of the form, which the client chooses.
* A statement that waits has written nothing in the model. In PostgreSQL it may
  already hold its row or its name while it waits for the second index; others
  who want that name then wait for it. Here they may go first, so the model has
  every order of outcomes the database has, and a few more.
* `created_at`, `updated_at`, `created_by`, texts of errors and rendering are
  left out.

*Bounds in the guards.* Ids are a finite set, so a call that inserts is taken
only while enough ids are left for every call in progress (`IdsLeft`): a
handler never blocks for want of an id. A rolled-back id may be drawn again,
which nobody can tell, as no one has ever seen it. A client names a request only
by an id that was once committed (`Known`). `SubmitCreateDest` is taken only for
a destination that is not gone and that nobody else is creating, since each
creation draws its own UUID; a destination deleted and created again under the
same name is a second id with the same `DestName` (`d1` and `d3` in the
instances).

### LoginLimiter and the code

*State.* `attempts[a]` is the entry of address `a`, or `Absent`; `sessions[a]`
counts the sessions opened from there; `task[h]` is a login handler between two
of its steps.

| Code | Actions |
|---|---|
| `Login`, `loginSubmit`: `IsBanned` and the checks of the input | `Arrive` |
| `GetByUsername`, password, disabled flag, TOTP | `Verify` |
| `RecordFailedAttempt`, `MarkNotified`, `RecordSuccess`, each one critical section | the actions of these names |
| `sessions.Create` | `OpenSession` |
| one round of `cleanup` | `Cleanup` |
| logout, expiry | `EndSession` |
| the process stops and starts again | `Restart`: the table is lost, the sessions stay |

The web form differs from the API where the code does: it never marks a ban as
announced, and it sends blank credentials on to the database.

*Time.* `firstTry` and `bannedAt` are ages, which `Tick` advances and which
saturate just above the largest number they are compared with
(`FirstTryCap`, `BannedAtCap`). `time.Now` in Go carries a monotonic clock, so
ages never fall. The comparisons are those of the code: the window is still
open at exactly its length, a ban is over at exactly its length.

*Abstractions.* `httprate` in front of the API routes refuses some calls before
they arrive. Every subset of arrivals is a behaviour of the model, so it is
left out. `Cleanup` may run at any moment, not only every ten minutes.
`MaxSessions` bounds the sessions of an address; sessions end, so nothing is
shut out for good.

### Accounts and the code

*State.* `users`, `sessions` and `codes` are the tables with the columns that
control depends on; `task[h]` is a handler or a command between two statements.
There is no transaction anywhere in this component: each statement is one step.

| Code | Actions |
|---|---|
| `Auth`, `RequireAuth`, `RequireRole`, the check against changing oneself | `Authenticate` |
| `UserRepo.Update` from `UpdateUser` and `userEditSubmit` | `UpdateUser` |
| `UserRepo.Create` from `CreateUser`, `RedeemInvite`, `redeemInviteSubmit`, `init`, `create-user` | `InsertUser` |
| `Login`, `loginSubmit`; the session of a login or a redemption | `Login`, `OpenSession` |
| `RedeemInvite`, `redeemInviteSubmit` | `LookUpCode`, `InsertUser`, `MarkUsed`, `OpenSession` |
| `GenerateInvite`, `inviteGenerate`, `generate-invite` | `InsertCode` |
| `inviteDelete`, `Logout` | `DeleteCode`, `Logout` |
| the commands' look for an admin | `RunInit`, `RunGenerateInvite` |
| expiry | `ExpireSession`, `ExpireCode` |
| any error, a cancelled call, a crash | `Fail` |

The middleware reads the user once, at the start of a call, and the handler
keeps that copy: `Authenticate` is the only action that looks at the caller.
Commands run as handlers of their own, next to the server. Bodies that fail
validation, wrong passwords and answers are left out: they change no table.
Ids, tokens and codes are drawn from finite sets, and a call that draws one is
taken only while enough are left (`UserLeft`, `SessionLeft`, `CodeLeft`).

### Notes and the code

*State.* `request` says which requests are there, `note` is `request_notes`,
`blocked` the column `users.notes_blocked`; `form[f]` is what a browser tab of
an admin holds since its edit page was rendered, `task[h]` a handler.

| Code | Actions |
|---|---|
| `AddNote`, `requestNoteAdd`: flag and validation; `GetByID`; the insert; `GetNote` | `SubmitAdd`, `CheckRequest`, `InsertNote`, `RereadNote` |
| `DeleteNote`, `requestNoteDelete` | `SubmitDelete`, `DeleteNote` |
| `Delete`, `requestDelete`, with the cascade to notes | `SubmitDelete`, `DeleteRequest` |
| `ListNotes`, `requestDetail` | `SubmitRead`, `LoadRequest` (page only), `ListNotes` |
| `UpdateUser`, `userEditPage`, `userEditSubmit`, the flag only | `PatchUser`, `OpenForm`, `SubmitForm` |
| any error, a cancelled call | `Fail` |

The web form and the API differ where the code does: a blank body is no error in
the form, the API does not look for the request before it lists, and only the
API answers with the note it has read again. `IdLeft` bounds the notes begun by
the ids left for them. Deletion of a request is a step of its own here, and any
number of steps before or after it are free: what else happens to requests is
in `RequestBoard`.

### Paging, Listing and the code

`Paging` is `intQuery`, the clamping at the start of `List`, its offset, and a
page count. `requestsList` computes that for its 25 and shows it; the API answers
the total and the `per_page` it was asked for, and its readers, who are outside of
this repository, divide for themselves. Integers wrap at `MaxInt`, which
the instance makes 31.

`Listing` splits `List` where it issues statements: `CountRows`, `FetchPage`.
`StartWalk` is the web list's reader (`DefaultPerPage`) or one of the API, who asks
for one of `Sizes`, values as they are after `intQuery`; `walk.size` stays what was
asked for, and only `FetchPage` clamps it, as `List` does in its copy. `TurnPage`
is the reader who asks for the next page as long as the total and `per_page` it
was told say that there is one. `created_at` is the start of a transaction, so
`BeginInsert` draws it and `EndInsert` makes the rows visible (or not) later:
all rows of a batch have one time, and rows can appear below rows already
there. `Pages` is every outcome PostgreSQL may produce for `ORDER BY created_at
DESC LIMIT OFFSET` with equal times in any order; `Beginnings` is what
`rows.Next` has delivered when the connection breaks. `Refile` is an update that
makes a row meet or miss the filter.

### Totp and the code

`Window`, `CounterAt`, `Usable` and `Validate` are `validateTOTPAt`,
`SecondFactor` the check of both login handlers. `Hotp` (HMAC-SHA1 and
truncation) and `KeyOf` (base32) are constants about which nothing is assumed
but their types. Where a property needs that codes differ it says so
(`NoCollision`).

### Server and the code

*State.* `main` is where `runServe` is, `verdict` what it returns, `listener` the
socket, `closed` the pool, `pc`, `left` and `held` say for each call, and for
the session cleanup, where it is, how many connections it may still take and
which it holds.

| Code | Actions |
|---|---|
| `runServe` up to its goroutines; its error returns | `Launch`, `StartFails` |
| `ListenAndServe` in its goroutine; `signal.Notify`; a signal before it | `Listen`, `ListenFails`, `Notify`, `DieEarly` |
| a connection, a request, a client that leaves (net/http) | `Connect`, `Begin`, `Drop`, `GiveUp` |
| a statement or a transaction (pgxpool) | `Ask`, `Acquire`, `Release`, `Refuse` |
| a handler returns | `Answer` |
| the hourly cleanup | `Tick`, `Sleep` |
| the select, `Shutdown`, the deferred `pool.Close`, `main` | `StopSignal`, `ServerError`, `ShutdownReturns`, `ShutdownTimesOut`, `Return`, `Exit` |

A repository call takes one connection, keeps it for a statement or a
transaction, and gives it back before it takes another: `CreateWithDetails`
commits before it calls `GetByID`, `List` has read its rows to the end, which
closes them, before it loads destinations. That is what `Release` says, and
what its two mutants break.

### Migrations and the code

*State.* `version` and `dirty` are `schema_migrations`, `schema` counts the files
really applied, `key`, `column`, `links` and `place` are the data that files 006
and 007 move or constrain, `admin` says that users has an admin, `lock` is the
advisory lock of golang-migrate, `pc` the commands in progress. `excuses` is a
history: how the schema came to be older than the program.

| Code | Actions |
|---|---|
| `runInit`: `RunMigrations` | `StartInit`, `TakeLock`, `LockTimeout`, `MigrateUp`, `RunFile`, `MarkClean` |
| `runInit`: look for an admin, make one | `ListUsers`, `CreateAdmin` |
| `runCreateUser` | `StartCreateUser`, `InsertUser` |
| `runServe`: `IsInitialized`; calls of the server that write requests | `Serve`, `AddRequest`, `LinkDestination` |
| the down files 009 to 006, `migrate force`, the statement in migration 007 | `StepBack`, `ForceVersion`, `Deduplicate` |
| a command fails or is stopped | `Fail` |

golang-migrate is external and modelled from how `RunMigrations` uses it. A file
runs in one implicit transaction, so that it is applied as a whole or not at
all. Statements that name a column of migration 009 fail on an older schema,
which is why `ListUsers` ends `init` and `CanCall` keeps strangers out. The
operator is taken to force the version that is really there.


## 3. Properties

### The board

`TypeOK`, `OpenRowsOwned`, `LinksRefer` and `IInv` are conjuncts of `CallsInv`
and are checked as such.

* `TypeOK`: types; a row has a name exactly while it exists.
* `UniqueKeys`: no two rows, committed or not, have the same folded name or the
  same folded alternate name; no alternate name folds to its own row's name.
* `OpenRowsOwned`: every uncommitted row belongs to exactly one transaction
  that is still running, so no failure leaves a name blocked.
* `LinksRefer`: each link joins an existing request to an existing destination.
* `IInv`: the conjunction of these with what each handler's local state says
  about the rows it has inserted (`MineFits`) and about its validated call
  (`CallFits`). It is the inductive invariant of the proofs about the data.
* `CallsInv`: `IInv` with what the handler of a call has established at each of
  its statements: which calls can be there and that none has been answered
  (`OpFits`), and that the row a create is linking is the one its call asks for
  (`Inserted`). It is what the proofs about calls and about the catalogue start
  from.
* `CrossUnique`: no name of a request is any name of another.
  `CollisionsNeedStaleCheck`: a step that breaks `CrossUnique` is one of a
  handler whose check would by now refuse it. In other words the checks cover
  every name the handlers write and only their age is at fault. It is: two
  creates, one called `y` and one with alternate name `y`, both pass `NameInUse`
  (`src/internal/handler/api/requests.go:140`) and both commit, since no index
  covers the cross case.
* `BatchCovers`: a batch that answers success has each of its titles on the
  board at that moment.
* `KeepOne`: only the deletion of a destination can take the last link of a
  request, or an edit form with values but no canonical id among them. The form
  decides on raw strings what to add and what to remove
  (`src/internal/handler/web/handler.go:714-748`). A value that is no UUID is
  skipped (line 729), and another spelling of an id that is already linked adds
  nothing; but both make the selection non-empty (line 739), and neither is the
  `dest.ID.String()` that line 741 looks for, so all that was linked is removed and
  the answer is success. No race is needed for that. With overlapping calls the
  property fails otherwise, too (finding).
* `EditLandsSelection`: an edit answered with success leaves what the selection
  means, except that a destination linked before stays only if it is selected by
  its canonical id.
* `RefusalLeavesNothing`: a call answered `invalid`, `conflict` or `forbidden`
  in a step leaves the rows it had inserted unborn and everybody else's as they
  were.
* `EveryCallAnswered`: liveness.
* `ImplementsCatalogue`: readers see the atomic catalogue (next section).

### The limiter

* `LimiterOK`: types; an address that is not banned has failures to spare and is
  not marked as told.
* `BanEarned`: a ban starts only on `MaxAttempts` failures within the window.
* `BurstBounded`: the window starts with the first failure and does not slide,
  so more than `MaxAttempts` failures can fit around its end. With `M` for
  `MaxAttempts`, no window of that length holds more than `2M - 3` of an address
  that is not banned, or `2M - 2` of one that is: up to `M - 1` before the
  reset, and after it `M - 2`, or `M - 1` with the one that bans, where the
  first failure of the first window is too old to count. The bound is exact and
  needs `M` at least 2 and a ban longer than the window, as `main.go:196` has
  them (5, 5 minutes, 15 minutes).
* `BanHolds`: a ban ends by time, by a login that had been let in before it and
  succeeds, or by a restart. The second exists in the code
  (`src/internal/handler/api/auth.go:139`), and the property says it is the
  only other one.
* `FreshBan`: no ban inherits the announcement of an earlier one, although
  `IsBanned` and `MarkNotified` are separate critical sections.
* `Forgotten`: an address without logins leaves the table.

### The accounts

* `AccountsOK`: types and references: usernames unique, sessions and used codes
  of users that exist, no update of the caller itself.
* `AdminLossIsARace`: the code only keeps admins from changing themselves. That
  is enough when calls do not overlap: whenever the last enabled admin goes, the
  caller had itself been demoted or disabled after its call began. Two admins
  who demote each other at once do leave none.
* `CodesAccountFor`: an account made with a code uses the code up, or is about
  to, unless its redemption was cut short between the two statements
  (`src/internal/handler/api/auth.go:222`).
* `ReuseNeedsOverlap`: a redemption is let in only while every account its code
  has made is still on the way to marking it, or was cut short. So a code can
  make two accounts (`src/internal/handler/api/auth.go:197`: it is read before
  either redemption marks it, and `MarkUsed` overwrites the first user with the
  second), but only for people who redeem it at the same time, and neither
  expiry nor anything else opens a code again.

### The notes

* `NotesOK`: types; a note is on a request that is there and has an author; a
  call past its insert has inserted its own note, under its own request.
* `StruckByName`: a note goes with its request, or by a moderator's call that
  names both the note and its request.
* `AnswersTrue`: created, null and refusals say of a post what is so. The
  internal error that is not a failure of the database comes only when the
  request was deleted between the look-up and the insert
  (`src/internal/handler/web/handler.go:806`, and 544 in `handler/api/requests.go`);
  a request that was missing from the start is a 404. Only `failed` leaves the
  poster in doubt: the note may be there.
* `BlockHolds`: once a user is blocked, only calls that were past the check of
  the flag at that moment post for that user.
* `BlockUndoneOnlyByOldForm`: the flag is as an admin last chose it until a form
  is sent in that was rendered before that choice, or with what such a form had
  left behind. The code has nothing against that
  (`src/internal/handler/web/handler.go:902`); patches and fresh forms keep it.
* `ImplementsLog`: all handlers together implement `NoteLog`, where an entry has
  one request and one author for good, is struck once, and nothing comes back.

### Pages

* `PagesPartition`: for every query, the pages that the answered total and
  `per_page` make share no row, none is empty, and they hold the newest rows, as
  many as that number of pages can. That is all rows, unless more than the maximum
  was asked for and there are more rows than a clamped page takes: `List` clamps
  its own copy of the filter (`src/internal/repository/requests.go:317`), the API
  repeats what it was asked (`src/internal/handler/api/requests.go:61`), and who
  divides the one by the other stops too early. The web list always asks for 25.
  A page number beyond the rows gets nothing, or an error when its offset wraps to
  below zero (`src/internal/repository/requests.go:351`), until the product has
  wrapped once around: page 2^62 + 1 with a `per_page` that is a multiple of 4
  shows the first page. `Atoi` refuses only numbers that do not fit by themselves.
* `MissesExplained`, `RepeatsExplained`: over a walk through all pages of the
  answered total and `per_page`, no more rows are missed than rows left, came after
  the last count or were cut off, and no more are repeated than rows came. A reader
  of the API who asks for more than the maximum also misses what lies beyond as
  many clamped pages (`Unread`), on a quiet list too; a quiet walk of the web list,
  or with no more than the maximum, shows each row once. Rows
  of one batch are exempt, since their order may change between two statements.
  Rows are cut off because `List` never asks `rows.Err()`
  (`src/internal/repository/requests.go:370`): a page that breaks off is answered
  with status 200 as if it were whole.

### The second factor

* `DriftTolerated`, `StaleRefused`: a code read one period or less away from the
  server's clock passes; two periods or more away it does not, if no two
  counters share a code. Both hold at the epoch, where the window wraps below
  zero. With a secret that is missing, not base32 or empty, nothing passes,
  whatever is typed.

### The process

* `ServerOK`: types; the stages of `runServe` fit its pool; a connection has one
  holder, who is in the database. It is proved, and not a property of a run.
* `OrderlyExit`: when `runServe` returns nil, every call was answered or given up.
* `NothingTorn`: the process ends with a call in the database only through a
  signal before `signal.Notify`. The deferred `pool.Close` sees to that, even
  after the grace period.
* `CutsExcused`: a call is cut off or meets a closed pool only after the grace
  period, a failed listener or that early signal.
* `StopsOnSignal`, `EveryCallEnds`: liveness. The second is where a handler that
  held one connection while it waited for another would fail.

### Migrations

* `MigrationsOK`: version and schema fit, under stops and several commands
  (`LedgerOK`), and the data have the shape of the schema (`RowsOK`).
* `MigrationsPreserve`: no file changes the requests, names and destinations
  that the board shows; `StepBackKeepsOne`: stepping back from many destinations
  to one leaves every request one of its own.
* `ServeExcused`: `serve` starts on an older schema only where an earlier
  release, the operator or `create-user` has left one with an admin. `init`
  never does, since it makes its admin last.

Which of two duplicates the statement in migration 007 keeps is no property: the
comment says the earliest, the statement says the one with the smallest `ctid`,
its place in the table, which an update changes (`Redundant`).

### The refinement of the board

`Catalogue` has entries, the set of withdrawn ids, tags and servers. New entries
come out whole, several at a time, with their tags; a revision touches one entry
and never clears its URL; a withdrawn entry never returns and takes its tags; a
closed server takes its tags. The mapping `Board` shows committed rows, the ids
that are gone, the links of committed rows and `destPhase`. All steps inside a
transaction, all reads and all failures map to stutters; `CommitCreate` and
`CommitBatch` map to `PublishEntries`. The tags of an entry being made have to
be those of servers that are open at the moment of the commit: that is where
the wait in `DeleteServerDest` is needed.


## 4. What the runs show

| Run | Instance | Question and result |
|---|---|---|
| `board_names` | 3 handlers, 3 requests, titles that fold to three keys, no destination | Creates with alternate names, a batch, renames, aliases and deletes race over three keys and fail anywhere. The unique indexes hold over uncommitted rows, and cross-column collisions come only from stale checks. |
| `board_links` | 2 handlers, 2 requests, 3 destinations, two with the same name | Every way to attach and detach, with a batch and a rename, and with requests and destinations deleted and destinations recreated in between. `CallsInv` holds; a refused create leaves nothing; readers see the catalogue. |
| `board_batch` | 3 handlers, 4 requests, 1 destination that does not exist, `FairSpec` | Two batches in opposite orders and a create that is always undone. Every call ends, although batches deadlock; a batch that says it added its titles has them on the board. |
| `board_serial` | 1 handler, 3 requests, 2 destinations, every operation with accepted and refused inputs | With one call at a time, and failures at any statement, the handlers alone do keep names apart across the columns, keep one destination (but for a selection without a canonical id) and leave what the form selected (but for what it linked before and selects in another spelling). Selections mix canonical ids, another spelling and values that are no id. |
| `board_removal_race` | 2 handlers, 1 request, 2 destinations | Violation of `KeepOne`, the finding. |
| `limiter` | 2 handlers, 1 address, `MaxAttempts` 3, `Window` 2, `BanFor` 6, 2 sessions, `FairHistory` | Every mixture of credentials through both handlers, with ticks, cleanup and restarts anywhere. Safety of the limiter, and entries leave the table, whichever way they stopped being used. |
| `accounts` | 2 handlers, 3 users, 2 sessions, 1 code, 3 names | From an empty database: `init`, `create-user`, logins, logouts, admins that demote, disable and enable anyone, and a code that is issued, deleted, expires and is redeemed, with failures anywhere. |
| `notes` | 2 handlers, 2 requests, 2 notes, a user and a moderator, 1 edit form | Posts with and without text, deletions under the right and the wrong path, deletions of requests, pages, all overlapping, while the flag is set and lifted by patches and by a form that lies open. |
| `listing` | integers to 31, per_page 1 by default and 2 at most; 0 to 20 rows and every query for the arithmetic; 4 rows, 4 transactions, API readers that ask for 2 and for 3, 2 moves during a walk | Every query with every number of rows; and readers go through the pages, of the web list, of the API at the maximum and of the API above it, while rows come and go and pages break off. |
| `totp` | counters on 8 bits, 3 keys, 5 secrets, 15 times | Every pair of clocks and any code of any key, with the right secret in two spellings, another one, padding only, and one that is not base32. |
| `server` | 3 calls, 1 connection, `FairSpec` | Everything from start to stop: calls that need none, one and two connections. |
| `migrations` | 2 commands, 2 requests, 2 keys, 2 destinations, databases at version 0, 5, 6, 8, 9 | Every command at every version, with stops, steps back and duplicates. |

*Why these bounds.* The interesting interferences are between one handler's
check and its write, and need one or two other handlers: three cover a holder of
a key, a waiter, and a third that takes the key when the holder rolls back. A
deadlock needs two batches with two common keys, and the third handler releases
or takes a key in the middle. Three keys, two of
them with a second spelling, give name against name, alternate against alternate
(impossible with two keys, since names differ and no alternate name is its own
row's name), and name against alternate. Four ids in `board_batch` let two two-title batches both hold rows.
Deadlock checking is on in all of these runs: a state where nothing can happen
would be a handler that waits for nobody. Handlers and request ids are interchangeable in
every call set, so `Symmetric` permutes them in the runs without liveness;
destinations are not, and are never permuted. `board_batch` uses no symmetry.

In `limiter` the maximum, 3, is the smallest for which an address that is
not banned can have failed twice, and the ages separate three times as the code
does: inside the window, after it, and twice after it, for windows and bans.
The ban is three windows long, as in `main.go:196`. Two handlers give a login in
progress while another one bans; entries of different addresses never meet, so
one address is enough. There is no symmetry, since the run checks liveness. In
`accounts` two admins can disable each other while a third account is made, and
two handlers redeem one code at once while its expiry or an admin comes in
between. All sets of calls are closed under renaming of users, sessions and
codes, so these are permuted.

In `notes` two notes let one handler lose its note to the other between
insert and reading again; two requests give the wrong path; a form can be
rendered before or after a choice, and opened again.
`listing` shrinks the integers: at 31 as at 2^63 - 1 the product of page and size
leaves the range and wraps to below zero. It cannot come once around within 31
pages of two; the theorem is about that as well. A size of 3 is clamped to 1, so
that reader goes by half as many pages as there are, or fewer.
There are four rows for pages of one and of two, so that rows cross a
border in both directions; two moves in one walk are enough to exceed either
bound by one if it were too small, and `MaxMoves` bounds only the moves during a
walk, not before it. In `totp` the times lie on, before and after each
border of the first five periods, and 256 counters let the window wrap. One
connection in `server` is the smallest pool, where any call that held one
and waited for another would stop everything. `migrations` starts at a
version before the tables, right before the files 006 and 007, between 007 and
009, and at the last; the versions it leaves out differ in nothing the module
tells apart. Commands, requests, users and connections are few because each
property relates two of them at most.

Deadlock checking is off in `server` alone: there the process ends, and
nothing is left to happen.

*Fairness.* `WF` on every statement that does not wait: a goroutine is scheduled
and a statement returns. `SF` on the statements that can wait for a lock:
PostgreSQL queues waiters and wakes them, so a waiter is not passed over for
ever although new holders of the key keep appearing. `WF` on the deadlock
detector, which runs after `deadlock_timeout`. No fairness on `Submit`
(clients need not come) nor on `Fail` (nothing is owed an error). In the limiter
`WF` on each handler's next step, on the cleanup goroutine, whose ticker fires
for as long as the process runs, and on the clock. In the server `WF` on the
steps of `runServe` that wait for nobody, on `ShutdownReturns` or
`ShutdownTimesOut` (ten seconds pass), on each call's next step and on the
return of a connection (the database answers), and `SF` on `Acquire`, since the
pool serves those that wait in turn. No fairness on clients, signals and the
listener. The other specifications state no liveness.

### Finding

*Keep at least one destination* (`board_removal_race`,
`src/internal/handler/api/requests.go:479`). Two removals of different
destinations of a request with two both read two and both delete. The comment
there asks for the rule to be preserved, and `board_serial` shows that removals
preserve it as long as calls do not overlap; the edit form does not always, as
`KeepOne` says.

Other places where the code does less than its comments suggest hold as the
properties above describe them, each with its exception named: names across the
two columns (`CollisionsNeedStaleCheck`), two
accounts from one code (`ReuseNeedsOverlap`), an error for a request that has
just gone (`AnswersTrue`), page numbers that wrap (`PagesPartition`), half a
page (`MissesExplained`), a `per_page` above the maximum that is answered as
asked and not as used (`PagesPartition`, `MissesExplained`), and the edit form:
it is to remove destinations "only if there's at least one destination remaining"
(`src/internal/handler/web/handler.go:738`), but a selection without a canonical id
empties the request and is answered as a success (`KeepOne`, `EditLandsSelection`).


## 5. What is proved

Every invariant and action property of the passing runs is also a theorem, and so
are both refinements. `BoardProofs` proves, for every set of handlers, ids,
destinations, titles and calls, every folding function, and from the two
assumptions of `RequestBoard`:

| Theorem | Statement | Further hypothesis |
|---|---|---|
| `Inductive` | `Spec => []IInv` | |
| `TypeCorrect` | `Spec => []TypeOK` | |
| `KeysAreUnique` | `Spec => []UniqueKeys` | |
| `NoOrphanedRow` | `Spec => []OpenRowsOwned` | |
| `LinksAlwaysRefer` | `Spec => []LinksRefer` | |
| `CallsInductive` | `Spec => []CallsInv` | |
| `RefusedLeaveNothing` | `Spec => RefusalLeavesNothing` | |
| `CollisionsTheorem` | `Spec => CollisionsNeedStaleCheck` | |
| `CatalogueTheorem` | `Spec => ImplementsCatalogue` | |
| `BatchTheorem` | `Spec => BatchCovers` | `TitlesStay`: no call deletes a request, edits one or renames one |
| `SerialCrossUnique` | `Spec => []CrossUnique` | `OneAtATime`: there is one handler |
| `SerialKeepOne` | `Spec => KeepOne` | `OneAtATime` |
| `SerialEdit` | `Spec => EditLandsSelection` | `OneAtATime` |

The last four are false without their hypotheses, for reasons that lie in the
code. A batch leaves out the titles its prefilter finds on the board
(`src/internal/repository/requests.go:142`), and if such a request is deleted or
renamed before the batch commits, the batch has added the others and says so.
Names across the columns, the last destination and the result of an edit
rest on what a handler has read some statements before it writes: with two
handlers `CollisionsNeedStaleCheck` says how the first is lost,
`board_removal_race` shows the loss of the second, and a destination that
another call adds in between is enough for the third. The runs `board_batch` and
`board_serial` are instances of these hypotheses, and the theorems say that
nothing else about those instances matters.

`SpecialValues` says that the special values differ from real ones.
`CallAssumption` says that calls are well-typed and that operations on a request
name one; it is what the router and the form parser deliver.

*The board's argument.* None of the properties is inductive alone. `UniqueKeys` over
committed rows fails at a commit unless it is stated over uncommitted rows as
well. For those one needs that a key which is neither taken nor held belongs to
no row at all, hence that each row is live or open, and that an open row which
is not mine counts as held (`OpenRowsOwned`). A rollback or a commit must
act on exactly the open rows of one handler, which is `MineFits` and the
disjointness in `OpenRowsOwned`. That the inserted row is a row comes from the
validation of the call, kept by `CallFits`. `IInv` is the conjunction.

Statements fall into few kinds by what they write, and there is a lemma for
each: steps that leave the board alone and keep the handler's ids (`QuietStep`),
those that write links only (`LinkStep`), those that insert a row
(`InsertStep`), that rewrite one (`RowStep`), that publish (`PublishStep`) and
that roll back (`RollbackStep`). Each action of `Next` is then an instance of
one of them.

The later theorems go by what a step does to the board and no longer by its
action. `EffectOf` says that the step of a handler is one of eleven effects
(`Effect`: it reads, undoes its transaction, inserts an open row, commits,
revises, withdraws, links its own row or a live one, unlinks, opens or closes a
destination), with what `CallsInv` knows of the handler at that moment.
A refusal is then an undoing or a reading. For the refinement each effect is
either invisible, since it touches open rows only, or one act of `Catalogue`;
that the tags published by a commit are those of open servers is `LinksRefer`,
and that the entries published are new is `MineFits`. A collision needs a commit
or a revision, and the names that become visible are among those that
`StaleCheck` looks up: for a create because the row being linked is the one of
its call (`Inserted`), for an update because what the row keeps did not collide
before.

With one handler, `FreshCheck` is inductive: what the check found free stays
free until it is written, since no one else writes, and a batch does not take
its own keys twice. `LinksSeen` says the same of links: what has been read, with
what is still to be linked or unlinked, makes the final selection (`Chosen`): the ids
selected, without those that were linked and are not selected by their canonical
string. For a batch,
`Covered` counts a position as done when its title is on the board or among the
handler's own open rows; `ON CONFLICT DO NOTHING` skips a title only for a row
that is committed or its own, and a row on the board stays there with its names
under `TitlesStay`.

`LimiterProofs` proves, for any handlers, addresses, numbers of attempts,
windows and bans that `LimiterAssumption` allows:

| Theorem | Statement |
|---|---|
| `LimiterInShape` | `Spec => []LimiterOK` |
| `BansHold` | `Spec => BanHolds` |
| `BansStartFresh` | `Spec => FreshBan` |
| `BurstInductive` | `HistorySpec => []BurstInv` |
| `BurstsAreBounded` | `HistorySpec => []BurstBounded` |
| `BansAreEarned` | `HistorySpec => BanEarned` |

`LimiterOK` is inductive as it stands, because it says that an entry without a
ban is not marked as told (`EntryFits`). One lemma each says what a recorded
failure, a tick and the cleanup do to an entry; `BansHold` and `BansStartFresh`
then follow from `LimiterOK` at the start of the step.

The other three are about the history, a set of failures for each address, each
with its age and a number that tells it from others of the same age. They rest on
`PropertiesAssumption` as well: at least two attempts, and a ban that is longer
than the window (`main.go:196`). `BurstInv` says how an entry accounts for the
failures of the last window (`Explained`). While the window of the entry lasts,
its count is the number of failures since it began, the oldest of which is as old
as the entry; those from before are at most `M - 2`, since the entry before it
did not lead to a ban and its first failure has left the window. When the
window of an entry is over, fewer failures than its count are left. During
a ban all failures are at least as old as the ban, so that they have left the
window before the next entry begins, which is where the ban has to be the longer
one. A ban starts on the `M`th failure of an entry, and these are all in
the window, whatever was reset before.

`AccountsProofs` proves, for any users, sessions, codes, handlers and calls, from
`AccountAssumption` (calls are well-typed and carry what their operation needs):

| Theorem | Statement |
|---|---|
| `AccountsInShape` | `Spec => []AccountsOK` |
| `LastAdminNeedsARace` | `Spec => AdminLossIsARace` |
| `CodesAreAccountedFor` | `HistorySpec => []CodesAccountFor` |
| `ReuseTheorem` | `HistorySpec => ReuseNeedsOverlap` |

Users are never deleted, so what exists stays (`Grows`), and references into
`users` survive every step. Uniqueness of names rests on the index, as
`InsertUser` looks and writes in one statement. The second theorem needs one
conjunct of the invariant, that a handler about to update works for somebody
other than the user it updates: if its caller is still an enabled admin, then so
it is after the step.

The two theorems about codes are about the history. `Tracked` adds to
`CodesAccountFor` that a code not yet issued has made nothing, and that every
redemption in progress is of an issued code. `TrackedFollows` says once what a
step has to do for it to stay true: no code is issued or spent less than before,
a redemption leaves its mark only by spending the code or by being cut short,
and an account made is either marked next or cut short. Each action is an
instance. `ReuseTheorem` is then what `LookUpCode` reads: a code that is live and
unused is not spent, so its accounts are on their way to marking it.

`NotesProofs` proves, from `NotesAssumption` only:

| Theorem | Statement |
|---|---|
| `NotesInvariant` | `Spec => []NotesOK` |
| `StruckByNameTheorem` | `Spec => StruckByName` |
| `LogTheorem` | `Spec => ImplementsLog` |
| `BlockHoldsTheorem` | `HistorySpec => []BlockHolds` |
| `AnswersTheorem` | `Spec => AnswersTrue` |
| `BlockUndoneTheorem` | `HistorySpec => BlockUndoneOnlyByOldForm` |

`NotesOK` is inductive as it stands: that a note is on a live request survives
the deletion of requests because the cascade takes exactly `NotesOn`, and what a
call has posted stays what it was because ids are never used again. The log
needs of it that posted notes have a request and an author. `BlockHolds` follows
from the history alone: who is past the flag while it is set has been so since
it was set, since `SubmitAdd` looks at it in the same step. For `AnswersTrue` each of the
steps that can end a call (`EndsByItself`) is shown to give only true answers:
a delete that is refused strikes nothing because its set of notes is empty.
`BlockUndoneTheorem` needs that a form which is not outdated holds what the
admins mean (`FormsFit`), which each choice keeps by making the other forms of
that user outdated.

`ListingProofs` proves, for any rows, batches, sizes and width of the integers,
from the assumptions of `Paging`, `Listing` and `ListingProperties` (the rows are
finite, their number and one page more is an int, and the maximum for `per_page` is
at least twice the default less one, as 100 and 25 are):

| Theorem | Statement |
|---|---|
| `PagesPartitionTheorem` | `HistorySpec => []PagesPartition` |
| `WalkInductive` | `HistorySpec => [](ListingOK /\ WalkInv)` |
| `MissesTheorem` | `HistorySpec => []MissesExplained` |
| `RepeatsTheorem` | `HistorySpec => []RepeatsExplained` |

The first is arithmetic: a rank is on the page that division gives it, and
products up to the last page do not wrap. Beyond it a product either fits, and lies
behind the rows, or wraps to below zero until it is as large as all integers
together. Above the maximum the clamped page has at most half the rows of the one
that is asked for, so that as many pages of it leave rows out as soon as there are
more than one of them takes. It is an invariant only in name, and
`PagesPartitionAlways` says it of all states.

`MissesExplained` and `RepeatsExplained` speak of the end of a walk. `WalkInv`
says what holds before each page is read. A row that shares its time with no
other has a rank, the number of listed rows that are newer, and it is on the page
of its rank whatever order PostgreSQL gives to the rest. Each row that leaves
lowers other ranks by at most one, so at most one row that was not shown slips over
the border to the pages read (`Passed`); each row that comes raises ranks by at
most one, so at most one that was shown slips over it to the pages ahead
(`Ahead`), and what is read there is counted among the repeats (`Again`). Reading
a page moves the border by one page, and of the rows in between it misses only what
it cuts off. After each page the total that was told, and the rows that came since
it was counted, bound what is left beyond it: `Unread`, and whatever came. At the end
of a walk by the default or at most the maximum `Unread` is zero.

`TotpProofs` proves, for every width of the counters above one period, every set
of keys and any code function:

| Theorem | Statement |
|---|---|
| `DriftTheorem` | `TSpec => []DriftTolerated` |
| `StaleTheorem` | `TSpec => []StaleRefused` |

The lemmas are about division: times at most one period apart have counters at
most one apart, and two periods or more at least two apart; and about the window:
modulo the width, a counter that is not next to another one is not next to it
across zero either.

`ServerProofs` proves, for any calls, needs and pools, from `ServerAssumption`:

| Theorem | Statement |
|---|---|
| `ServerInShape` | `Spec => []ServerOK` |
| `ExitIsOrderly` | `Spec => []OrderlyExit` |
| `NothingIsTorn` | `Spec => []NothingTorn` |
| `CutsAreExcused` | `Spec => []CutsExcused` |

The invariant `IInv` (theorem `ServerInductive`) adds to `ServerOK` what each
stage of `runServe` still allows: while the pool is open nothing was refused or
cut, after a normal `Shutdown` no call is active and none can start since the
listener is closed, and without an excuse no call meets a closed pool.

`MigrationsProofs` proves, for any commands, requests, names, destinations and
first versions, from `MigrationAssumption`:

| Theorem | Statement |
|---|---|
| `MigrationsInvariant` | `Spec => []MigrationsOK` |
| `PreserveTheorem` | `Spec => MigrationsPreserve` |
| `StepBackTheorem` | `Spec => StepBackKeepsOne` |
| `ServeTheorem` | `Spec => ServeExcused` |

`MigrationsOK` is inductive: who is between two steps of a migration has the lock, so
that nobody else moves the version. `RowsOK` needs that, since a file may only be
applied to the schema before it. `ServeTheorem` needs `Excused` beside it: an
admin on an older schema has an excuse, and so has the one that `init` is about
to make, which reaches `create` on the newest schema only and cannot see the
schema go back without the operator.

*Only model-checked:* `EveryCallAnswered`, `Forgotten`, `StopsOnSignal` and
`EveryCallEnds`: liveness under fairness is out of the prover's reach. That
`Restart` and the other actions which a property names can happen at all, that
hypotheses such as `TitlesStay` leave something to show, and that each property
can fail, is what the runs and the mutants of the modules are for.

## 6. Not modelled, and the plan

Not modelled at all: templates and static files (rendering only), configuration
(read once), bcrypt and random tokens (no control of their own), logging, and
`GetClientIP`, which chooses between one header and the peer address and keeps
nothing.

Left out of what is modelled:

* `can_batch_add`, which is written like `notes_blocked` and read as part of the
  call, and `UpdateTOTP`, `GenerateTOTPSecret` and `TOTPProvisioningURI`, which
  nothing calls.
* The destinations that `List` fetches for the rows of a page, and the filter by
  requester, which never changes for a row.
* The migrations 001 to 005 and 008, 009 as data: they add tables and columns
  that nothing moves. The down files 001 to 005 drop tables.
* Calls on an older schema, but for what `ListUsers`, `InsertUser` and `CanCall`
  say: a redemption there makes its account and then fails.
* The read and write timeouts of the HTTP server, which end a connection and not
  its handler.

Planned, in this order:

1. Proofs: the safety part of what liveness needs, such as that a handler which
   waits does so for another one's open row; `BatchCovers` for the titles that
   nobody deletes or renames, instead of for calls that do neither.
2. The destinations of a listed page; redemptions on an older schema.
