# Verification of dimdim

TLA+ models of dimdim, a Go web application with accounts confirmed by mail,
their model checking with TLC, and proofs with TLAPS. Paths and lines refer to
the repository (`src/` below is its root).

## 1. The system

| Part | Where | State it keeps | Operations |
|---|---|---|---|
| Storage | `storage/storage.go` | two pools on one SQLite file in WAL mode, `mu` | `Write` (mutex, `BEGIN IMMEDIATE`), `Read` (deferred transaction), both roll back on an error of the closure |
| Datastore | `storage/datastore` | tables `users`, `tokens` (`tags` unused) | the generated queries |
| User service | `service/user/user.go` | `userCache` (a `sync.Map`), the two tables | `GetUser`, `Signin`, `Signup`, `ResendSignupToken`, `ValidateSignupToken`, `ResetPassword`, `ResetPasswordToken`, `ChangePassword`, `ChangePasswordWithToken` |
| Mailer | `pkg/mailer` | none; the mails an SMTP server took | `SendMailSignup`, `NewMailSignup`, `NewMailPassword` |
| Web | `internal/web` | a second SQLite file with the sessions; the data of each request | middlewares, 15 routes, error handler |
| Templates | `embeded` | registered views | `Render`, `RenderEmail`, `NewView`, `NewEmail` |
| Forms | `internal/web/auth.go` | the form of a request, cleaned in place | six `validate` methods, the forms that come back with an error |
| Lifecycle | `cmd/app/main.go` | signal and error channels, deferred closes | start, graceful and forced shutdown |
| Hashing | `pkg/argon2id` | none; hash and salt are in the table `users` | `GenerateHash`, `Compare`, `NewWithDefault` |
| Logger | `pkg/logger` | a chain of handlers, the event functions | `New`, `Debug` … `Error`, `Handle`, `WithAttrs` |
| Small parts | `pkg/domain`, `pkg/web`, `cmd/logfmt`, `internal/api/debug`, `service/service.go` | none the rest depends on | formatting, wiring |
| Tag service | `service/tag` | — | commented out |

**Interactions.** A handler calls the user service; every operation of it is one
`db.Write` or one `db.Read` with a closure. `Write` holds `db.mu` and SQLite's
write lock over the whole closure, *the SMTP dialogue included*. Three
operations update rows inside `db.Read`: their transaction begins as a reader,
without the mutex, and SQLite refuses the upgrade (`SQLITE_BUSY`) when somebody
holds the write lock or has committed since the first SELECT. The closures fill
`userCache` before they commit. The session middleware loads a session into the
request, the handlers change this copy, and it is written back when the response
starts; accounts and sessions are in different databases. `main` starts the
listeners as goroutines and waits for a signal or for an error of the web server;
requests outlive a graceful shutdown only until its deadline. Every goroutine
logs through one handler, whose event function for errors logs again.

**What is hard.** Goroutines interleave between the statements of read-upgraded
transactions; a mail is sent before the commit that makes its link work; commits
and sends can fail when other effects have happened; a restart forgets the cache
and every request; requests of one browser overlap and write whole sessions
back; two databases are changed one after the other; closures can panic and the
SMTP server can stay silent, both under the mutex; the power can fail after an
answer; a listener can break while requests run.

**What makes each part correct.**

* *Storage*: no commit loses what an earlier one wrote; the mutex is given back
  on every path.
* *User service*: one working link per kind and email; a working link fits the
  state of its account; a link works once; only a link still good at the commit
  verifies an account; passwords change only for the owner; committed links were
  mailed; the cache never contradicts the database; answers tell the truth;
  every call is answered; all of it together behaves like atomic accounts.
* *Web*: sessions name verified accounts; sessions of browsers never mix; a
  browser that signed out, with no other request under way, is out until it proves
  an account again; every page gets the fields its template reads; redirects land.
* *Forms*: the blanks, tags and comments around an address make no other account of
  it (its letter case does); a password opens the account in the form it was typed;
  a form shown again asks for the same.
* *Lifecycle*: nothing is closed under a running handler except by an end that is
  reported as an error; every end but a kill closes what was opened; signals and
  failures of the web server end the process.
* *Hashing*: a stored password is accepted, and nothing else, after restarts and
  with other settings too.
* *Logger*: every error follows its alert, and an alert raises no other.

`PROJECT.json` lists under `hazards` where each of these can go wrong.

## 2. Modules

| Module | Models | Built on |
|---|---|---|
| `Storage` | `storage.go`: `db` (committed content), `mu`, `writer` (SQLite's write lock), `view` (what each transaction sees), `stale` (transactions with commits since their snapshot) | – |
| `Datastore` | the queries, as operators on a content `[users, tokens]` | – |
| `UserService` | every operation of the service step by step, cache, mails, clock, aborts, restarts | `Storage`, `Datastore` |
| `Accounts` | what the service promises: atomic operations on accounts and links | – |
| `UserProperties` | the properties, and the refinement mapping to `Accounts` | `UserService` |
| `Web` | middlewares, handlers, sessions, cookies, pages | `INSTANCE Accounts` |
| `WebProperties` | the properties of `Web` | `Web` |
| `UserFaults` | the service when closures panic or the SMTP server stays silent | `UserProperties` |
| `UserHistory` | the service with a history of the contents during each call | `UserProperties` |
| `UserPowerLoss` | the service when the power fails | `UserProperties` |
| `UserServiceProofs` | proofs: types, consistency of contents, isolation | `UserProperties` |
| `UserAnswerProofs` | proofs: answers, mails, cache, who changes what, the refinement | `UserServiceProofs` |
| `UserFaultProofs` | proofs: power losses, panics, the history of answers | `UserAnswerProofs`, `UserPowerLoss`, `UserFaults`, `UserHistory` |
| `WebProofs` | proofs about `Web` | `WebProperties` |
| `Forms`, `FormsProofs` | what the forms make of typed texts; proofs | `INSTANCE Accounts` |
| `Lifecycle`, `LifecycleProperties`, `LifecycleProofs` | `run` of `main.go` beside its listeners and requests; its properties; proofs | – |
| `Argon2id`, `Argon2idProofs` | hashing, and comparing after a restart; proofs | – |
| `Logger`, `LoggerProofs` | the handlers and the calls of several goroutines; proofs | – |
| `MC*` | symmetry sets and the inputs of the instances, for TLC | |

The two halves meet at `Accounts`: TLC checks that `UserService` implements it
(`ImplementsAccounts`), and `Web` is built over it, so that one step of a handler
is the commit of the operation it calls. A service call that fails leaves no
trace (`AnswerMatchesDatabase`); in `Web` it is the action `Refuse`.

### User service: correspondence

`pc[r]` is a point of the closure that request `r` runs. The statements of a
`Write` closure before the mail are one step, because the write lock hides them;
a `Read` closure that writes has a step for its SELECT, its UPDATE, the rest, and
the commit, because others run in between.

| Steps | Code |
|---|---|
| `Lock`, `Begin` | `storage.go:111`, `:118` |
| `Signup`, `ResendSignupToken`, `ResetPassword` | the closures up to the mail, `user.go:109-298` |
| `SendMail`, `SendMailFails` | `mailer.go:85-96`; the failure may come after the server took the mail |
| `SelectToken`, `ValidateSignupToken`, `ChangePasswordWithToken`, `ChangePassword`, `Finish` | the closures of `Read` that write |
| `GetUserCached`, `GetUserRead`, `SigninRead`, `Loaded`, `ResetPasswordToken` | the reading operations |
| `CommitTx`, `Abort`, `Busy` | commit, errors of statements or contexts, `SQLITE_BUSY` |
| `Crash` | death and restart of the process: the mutex, open transactions, requests and the cache are gone |

Emails, names, passwords and tokens are model values; a hash is the password it
was made from; a token keeps its type, email, expiry and `deleted_at`.

### Web: correspondence

`sent -> loaded -> guarded -> handled -> answered`: `Load` is
`session.LoadAndSave` before the handler, `Guard` is `sessionDataMiddleware` and
the guard of the route, the handlers are the actions of their names, `Respond`
is the commit of the session when the response starts, `Receive` the arrival of
the response with its cookie. `Drop` ends a request at any point without an
answer: lost connection, panic (there is no recover middleware; net/http closes
the connection), death of the process. Nothing shared is in memory, so a restart
is a `Drop` of every request. `Refuse` stands for forms that do not validate and
for every error of the service. From the session library come: a loaded session
is `Modified` because an idle timeout is set, a missing one gives a new
unmodified session, `Put` keeps the session's token, `Destroy` deletes the row
at once, and a commit replaces the row.

`proved` is a history variable: the accounts a browser gave proof of, with the
password or with a mailed link, since it last signed out. A sign-out counts when its
response reaches the browser, the cookie was deleted by it and no other request of
the browser is under way (`SignedOutForGood`): a request that loaded the session
before may still write it back when it answers, which is what the code does.

### The user service under faults

`UserFaults` adds `Panic`: `transaction` does not recover, so that the deferred
unlock of `Write` runs but neither rollback nor commit. The transaction stays
open, with the only connection of its pool if it is one of `Write`, until net/http
has recovered the panic and cancelled the context (`Cancel`). `UserPowerLoss` adds
`Checkpoint` and `PowerLoss`: with `_sync=1` in WAL mode only a checkpoint waits
for the disk, so that any suffix of the commits since can be lost (`recoverable`
holds the contents that may be found, `synced` the one of the last checkpoint, which
a loss leaves as it is); the mails are out and stay out. `UserHistory` adds `seen[r]`, the committed contents since the call of `r`.

### Forms: correspondence

A text is a sequence of pieces (addresses, words, blanks, tags, comments,
characters that HTML escapes), because the properties depend on what trimming,
sanitising and parsing do to each. An address is a spelling: `net/mail` keeps the case
of its letters and the table compares byte by byte, so two cases are two addresses. The `Validate…` operators are the `validate`
methods, with the form they leave behind when they stop at an error: a form that
is shown and sent again is cleaned a second time. The actions
are the handlers over `Accounts`, which see only what the forms let through.

### Lifecycle: correspondence

`main` is the line the goroutine of `main` is at; `defers` the deferred calls,
which `RunDeferred` takes from the end when `run` returns or panics. `DebugListens`,
`Listen`, `StartFails` and `StartEnds` are the two other goroutines, and
`Accept`, `BeginTransaction`, `Respond` the requests, any of which may hang for
ever. From net/http: `Shutdown` closes the listener and returns when no request is
under way, or when its context expires; `Close` cuts every connection. A request
that begins its transaction after `db.Close` is `refused`, one that is cut off by
`Close` or by the end of the process is `cut`.

### Hashing and logger: correspondence

`GenerateHash` and `Compare` give the sets of results a call can have; a process
starts with some settings on some machine, stores a password, and is started again
with others. `argon2.IDKey` is external and ideal. In `Logger` the stack of calls
of each goroutine shows the recursion from an event function back into the logger.

## 3. Runs

| Run | Instance | Shows |
|---|---|---|
| `user_answers` | 2 requests, every operation but the resend, 2 passwords, 2 tokens; clock to 1 | `CacheAgrees`, `AnswerMatchesDatabase`, `AnswersWereTrue`, `LinkWorksOnce`, `PasswordOnlyChangedByOwner` |
| `user_faults` | 2 requests; signup, resend, confirmation, change of password, signin, user; 2 tokens; clock to 1; panics, a silent SMTP server; fair, no symmetry | `TypeOK`, `TokenMatchesAccount`, `CommittedTokenWasMailed`, `LocksAreGivenBack`, `NoLostUpdate`, `VerifiedOnlyByItsToken`, `ImplementsAccounts`, `ReadsAreAnswered`, `CallsAreAnswered` |
| `user_power_loss` | 3 requests, 3 tokens; signup, resend, confirmation; the power fails | `OneLiveTokenPerKind`, `CheckpointSurvives`, `EveryRecoveryIsUsable` |
| `user_mail_template` | 1 request | *violated*: `ResetMailUsesPasswordTemplate` |
| `web_pages` | 1 browser, 2 requests, all 15 routes | `TypeOK` (no session for visitors), `PagesHaveTheirFields`, `RedirectsLand` |
| `web_sessions` | 2 browsers, 2 requests, 2 accounts, 2 session ids | `SessionNamesAccount`, `OnlyProvenAccounts` |
| `web_passwords` | 1 browser, 2 requests, 2 accounts, 2 passwords | `OwnerChangesPassword` |
| `forms` | an address in two cases of its letters, typed in several ways, names and passwords with blanks, tags, quotes | `OneAccountPerSpelling`, `TypedPasswordOpens`, `ShownFormsAskTheSame` |
| `lifecycle` | 3 requests that may hang, fair | `TypeOK`, `GracefulEndCutsNobody`, `AcceptedWithDatabase`, `EndClosesWhatItOpened`, `GivesUpForAReason`, `SignalEndsProcess`, `ServerFailureEndsProcess` |
| `lifecycle_databases` | 1 request | *violated*: `DatabasesClosed` |
| `argon2id` | 2 passwords, 2 salts, several settings, 12 machines | `AcceptsExactlyThePassword`, `DefaultsHash` |
| `logger` | 2 goroutines, 6 lines | `AlertsAnnounceErrors`, `AlertsDoNotNest` |

`UserHistory`, `UserFaults` and `UserPowerLoss` add to `UserService` and take nothing
away: every behaviour of it, without faults, is one of each of their runs, so that
these also check the properties of `UserService` itself.

**Bounds.** `Tokens` bounds the number of links ever drawn by `UserService`
(a token is never drawn twice, even when the mail reached nobody): two allow a link
and its replacement, or a confirmation and a reset; the three of `user_power_loss` a
second replacement. `MaxNow = 1` with a time to live of 0 ticks lets a token be good
on its last tick (the comparison is inclusive) and expired on the next, also between
its selection and the commit; `user_power_loss` has no clock. The operations of
`user_faults` are one of each way through the storage: `Write`, `Read` with a SELECT
and an UPDATE, `Read` with an UPDATE first, and reading; those with a reset link run
through the same steps as those with a confirmation link. Two requests suffice for
every pair of operations to interleave;
`user_power_loss` has three, so that two redemptions can race with a resend. Emails
interact only through the mutex, the write lock and the staleness of snapshots, so
the runs of the service have one; the theorems are for any number.
The machines of `argon2id` lie around 1, 8, and the multiples of 512 at which half
the processors, cut to 8 bits, is 0 or 1. Six lines let `logger` interleave two
errors with their alerts and two other records; three requests let `lifecycle` have
one idle, one that is finishing and one that hangs. The texts of `forms` have a few
pieces, with each kind of piece before, inside or behind the address.
`user_faults` and `user_power_loss` leave out the reset of passwords, so that reset
links do not meet faults in a run; that half of `CommittedTokenWasMailed`,
`TokenMatchesAccount` and `OneLiveTokenPerKind` rests on the theorems.
In `Web` session ids and link tokens return to the pool when nobody refers to
them, so `SessionIds` and `Tokens` bound what exists at once, not the length of a
run. Every property of the runs but for liveness is proved for all values as well
(section 5).

**Deadlock** is checked in every run of the service, `Web`, `Forms` and `Argon2id`,
which always have a next step. The runs of `Lifecycle` and `Logger` do not: the
process really ends, and the number of lines is bounded.

## 4. Fairness

`FairSpec` of `UserFaults` has, for each request, weak fairness of `Works(r)`, the
steps of `Progress(r)` (the Go scheduler runs every goroutine that can run; SQLite
answers, if only with `SQLITE_BUSY` after `_busy_timeout`), *except the sending of
the mail*: `smtp.SendMail` has no time-out (`mailer.go:95`) and runs under the mutex.
It has weak fairness of `Cancel` after a panic (net/http recovers it and cancels the
context, database/sql rolls back) and strong fairness of `Lock(r)`: a `sync.Mutex`
that a waiter missed for 1 ms goes into starvation mode and is handed to the waiter,
so that a lock that is free again and again is got. `Call`, `Tick`, `Abort`, `Panic`
and `Crash` are not fair: nobody must call, and nothing must fail.

`ReadsAreAnswered` needs no more. `CallsAreAnswered` is stated under the assumption
`SMTPAnswers`, weak fairness of the step that ends the sending: **a server that stays
silent stops every `Write`**. Waiting for the mutex is not cancelled by the request's
context (`storage.go:111`), so `Abort` is not enabled there. An `Abort` while the mail
is being sent stands for a transaction rolled back under a hanging mail; it also gives
back the mutex, which the code does only when `SendMail` returns, and as it is not
fair nothing rests on it.

`FairSpec` of `Lifecycle` is weak fairness of the goroutine of `main` and of the
timer of the shutdown, nothing else: requests may hang, listeners need not fail
and the deadline alone must end the process.

## 5. Proofs

All theorems hold for every number of requests, emails, tokens, browsers and
session ids, for any number of goroutines and lines of the log and for texts of any
length, under the assumptions named in the modules: the sentinels `None`, `NoRow`
and `Empty` are no values of the other sets, times to live are natural numbers, a
machine has at least one processor, addresses are no blanks or marks.

* `TypeCorrect` (`TypeOK` of `UserService`). Not inductive alone: a statement runs
  on the view of its request, and it must be known that there is one and that the
  call carries the fields used. `CallsOK` says so; `TypeInv` is the conjunction.
* `TokensAreReplaced` and `TokensFitAccounts`. What a commit makes of the database
  was prepared in the view of its transaction, so `ContentInv` says that the
  committed content *and every view* are consistent: rows under their own email,
  one live token per kind, tokens that fit their accounts. Between the UPDATE of a
  redemption and the deletion of its token the view is not, and there it is the
  view after that deletion that must be. No fact about locks is needed: an
  operation takes any consistent snapshot to a consistent content.
* `CommitsAdvance` (`NoLostUpdate`). Here the locks matter. `IsolationInv`: a view
  that is not stale and not being written is the committed content; the view of the
  writer advances it; a token a call has drawn is in nobody else's view. So what a
  commit installs advances what was there, although three operations write in
  transactions that began as readers, without the mutex.
* `WebTypeCorrect`, `SessionsNameAccounts`. `WebInv`: stored sessions and requests
  name verified accounts; a link has an account, verified behind a reset link; a
  guarded request has passed its guard. Accounts are never removed or
  un-verified (`VerifiedStays`), so a request that is late stays right.
* `SessionsDoNotMix`, `OwnersChangePasswords`. `HoldersInv`: a session id is held
  by one browser, in its cookie or by a request of it, and the account stored
  under it was proved by that browser. `Respond` is the one step that needs all
  three parts: it overwrites the session of whoever else holds the id, which must
  be the same browser. A sign-out empties `proved`, so the browser must hold no session
  then: that needs `LandInv` below, by which a response that leads to the sign-in page
  does not carry the cookie of a session.
* `PagesRender`, `RedirectsLandAlways`. `LandInv` ties the answer a handler has
  chosen to the session its response will commit: a redirect never leads to a route
  whose guard turns the browser with that session away. Needs `NoFieldsAssumption`:
  a page with an empty set of fields differs from a page without fields.
* `TokensAreMailed`, `CacheTellsTheTruth`, `AnswersAreTrue`, `LinksWorkOnce`.
  `AnswerInv`: what a transaction has prepared in its view is what its answer will
  claim (the token is there, or spent); between the mail and the commit the mail is
  among the accepted ones; a redemption that has written holds the write lock, and
  its token is still live in the committed content. So of two requests with one
  link the second to write finds a stale snapshot.
* `OnlyLinksVerify`, `OnlyOwnersChangePasswords`, `ServiceImplementsAccounts`.
  `EffectInv` goes further and says what the view of the writer *is*: the committed
  content with exactly the changes of its operation. With `IsolationInv` a commit
  is then one step of `Accounts` (`Abstract!Next`) and every other step stutters:
  the refinement holds for any number of requests, accounts and tokens, without
  induction over the history and without bounds on the clock.
* `LifecycleTypes`, `GracefulEnd`, `EndCloses`, `GivesUp`, `AcceptsWithDatabase`,
  from `LifecycleInv`: which calls are deferred at each point of `run`, what is open
  then, and that a shutdown which returned nil left no request under way. For any
  number of requests.
* `AcceptsThePassword`, `DefaultsAlwaysHash`. `RowInv` ties the stored row to what
  was hashed; `CompareDecides` is the lemma on `Compare`, `ThreadsBounded` the one on
  the 8-bit conversion. For any settings and machines.

* `WebUsesTheService`: what the handlers do to the accounts is a behaviour of
  `Accounts` (`Service!Spec`). With `ServiceImplementsAccounts` this is the joint
  between the two halves: `UserService` keeps the promise, and `Web` asks for no more
  than it and only with arguments of its types.
* `CheckpointsSurvive`, `RecoveriesAreUsable`, `SafetySurvivesPowerLoss`,
  `PowerLossTakesBackWholeCommits`. `PowerInv` says of *every* content the log may
  break off at what is known of the committed one: consistent, mailed, and an advance
  over the last checkpoint (`Recoverable`). It is kept by commits because mails are
  never taken back and commits only advance, and by a loss because the content it
  leaves was one of those; `synced` does not move, so that after a loss, and after the
  commits and further losses that follow, the database is still compared with what
  the disk was known to have; `RestIsSafe` is the lemma that a service
  nobody is calling can start from any such content, so that a power loss, like a
  `Crash`, restores all of `AllInv`.
* `NoLockIsLost`, `SafetySurvivesPanics`, `FaultsLoseNoUpdate`, `FaultsVerifyNobody`,
  `FaultsChangeNoPassword`, `FaultyServiceImplementsAccounts`. A panic and the
  cancellation after it preserve `AllInv`; what is new is the mutex, which a panic
  frees before the transaction is rolled back. `MutexInv`: a request holds the mutex
  exactly while it is inside a `Write` and has not panicked. The theorems on `FSpec`
  assume no fairness.
* `AnswersHoldOnce` (`AnswersWereTrue`). `HistoryInv`: until it answers, a request
  holds the content it will answer from, in a row it read, in its snapshot or as what
  it is about to commit, and that content is among those committed since the call.
* `ErrorsAreAnnounced`, `LoggingEnds`. `LoggerInv`: the calls a goroutine is in are
  none, a message, or an error with the alert it waits for; so the lines written hold
  one alert more than errors exactly while that error is about to be written.
* `SpellingsNameOneAccount`, `PasswordsOpenAsTyped`, `ShownFormsAreStable`. The
  lemmas on texts come first: trimming twice is trimming once; what `Sanitize` returns
  holds nothing for it to do, and it returns such a text as it is; so a second
  cleaning only trims, which `ParseAddress` does not see. `Settled` says what a
  `validate` method leaves behind: a text at which it would stop again, or texts that
  it would not change again. `FormsInv`: every account, and every account behind a
  link, has a bare address and the trimmed text that was typed for it (`Entered`), and
  the page that is shown is settled. Induction over a text is done without the
  induction theorems, which take an operator: the set of positions where a claim fails
  has a least element (`LeastPosition`), and there is none.

TLC finds `PowerInv`, `FaultInv`, `HistoryInv`, `LoggerInv` and `FormsInv` to hold on
the instances of the runs.

**Only model-checked**: liveness. `ReadsAreAnswered`, `CallsAreAnswered`,
`SignalEndsProcess` and `ServerFailureEndsProcess` rest on fairness, and so on ENABLED,
which is out of the prover's reach. Every other property of the passing runs is the
statement of a theorem.

## 6. What was found

* **Reset mails have the text of the confirmation mail** (`user_mail_template`).
  `SendMailSignup` renders every mail from the template `signup`, and
  `ResetPassword` uses it; `embeded/mails/password.tmpl` is never registered.
* **The sessions database is never closed** (`lifecycle_databases`). The deferred
  function of the web server calls `server.Close`, the one of the embedded Echo, and
  logs its error as one of the database (`main.go:229-231`); `Server.Stop`, which
  would close the sessions database, has no caller.

Read in the code, outside the models:

* `Config.ReadTimeout`, `WriteTimeout` and `IdleTimeout` (`main.go:79-81`) are
  parsed and passed on, and nothing applies them to the server.
* When a signal and an error of the web server are both pending, `select` takes
  either: the process can end with exit code 0 although its server failed.
* "app shutdown complete" is logged before the deferred closes run.
* `127.0.0.1:1025` as the address of the mail server fails in `url.Parse`.
* Only the salt is stored with a hash: changed argon2 settings lock every account
  out, and a configured salt length of 0 makes rows that no password opens.
* `ResendSignupToken` answers `ErrUserNotVerified` for an unknown email.
* `Signin` does not reduce the address to its bare form as `Signup` does, so that
  `a@b (Joe)` and `a@b <b>` sign up and do not sign in. (`Name <a@b>` does neither:
  sanitising removes `<a@b>` as a tag.)
* Names are stored escaped for HTML and escaped again by the templates. A name of
  tags and blanks only, `<b> </b>`, is accepted and stored as blanks: it is trimmed
  before it is sanitised. An address with an apostrophe or `&` cannot sign up.
* **Two databases lose different commits.** After a power failure `app.db` may lack
  commits that `sessions.db` outlived, as each is synced by its own checkpoints
  (`storage.go:34`). A session can then name an account that is not verified or does
  not exist, and `sessionDataMiddleware` panics (`auth.go:394-397`, with a TODO) on
  every route, signing out and in included, until the session expires.
  `SessionNamesAccount` holds for every other end of the process.
* **Signing out can be undone.** `Signout` deletes the session's row; another request
  of the browser that loaded the session before writes it back, with its cookie, when
  it answers (`sessionmanager.go:40`, `auth.go:157`).
* Addresses keep the case of their letters: `net/mail` does not fold it and
  `users.email` is a TEXT key compared byte by byte (`00001_add_table_users.sql:4`), so
  `a@x.com` and `a@X.com`, one mailbox, can have two accounts, and a user who types the
  other case does not sign in.
* `SignupToken` and `GET /auth/reset-password/:token` have no guard: a signed-in
  browser that follows a link changes its session's account.

## 7. What is not modelled, and why

* HTML, wording, static files, CORS, gzip and the CSRF token: no property here
  distinguishes them; a request refused by CSRF or by the body limit is `Reject`.
* `Web` takes the validation of forms as a choice between `Refuse` and the service
  call; what it does to texts is in `Forms`, which has no sessions.
* Damage to the files, and a power loss in `Web`. The power loss is modelled for the
  accounts alone. `sessions.db` has the same `_sync=1`: a session lost there signs its
  browser out, a deletion lost there lets it stay signed in, and a session that is
  kept while `app.db` lost the commit it rests on is the panic of section 6.
* The account a password form was shown for: `ChangePassword` takes the one of the
  session when the form is submitted (`auth.go:314`), and nothing in the repository
  ties the two together; `OwnerChangesPassword` says what still holds.
* `UserService` compares passwords by equality, which `AcceptsThePassword` justifies
  while the settings stay; a failing source of entropy is an `Abort`.
* Of the logger: the JSON, source lines, the trace id, `NewStdLogger`.
* `domain`, `logfmt`, `debug`, `pkg/web`, `service.go`: pure formatting, input and
  output, or wiring. The tag service is commented out; queries without a caller
  (tags, deletion of users, sweeping of tokens) are left out of `Datastore`; goose
  is left out.

## 8. Plan

Order of work, the most important behaviour first; steps 1 to 9 are done.

1. `Storage`, `Datastore`, `UserService`: the transactions and the nine operations.
2. `Accounts` and the refinement.
3. Proofs of `TypeOK`, the token invariants and `NoLostUpdate`.
4. `Web` over `Accounts`, with proofs that sessions name accounts and do not mix.
5. `Lifecycle`, with proofs.
6. `Argon2id`, with proofs; `Logger`; `Forms`.
7. `UserFaults`, `UserHistory`, `UserPowerLoss`.
8. Proofs of every safety property of `UserProperties`, of the refinement, and of
   `RedirectsLand` and `PagesHaveTheirFields`.
9. Proofs of what survives power losses and panics, of `AnswersWereTrue`, of `Logger`
   and of `Forms`; `Web` implements `Accounts`.
10. Left: a run of `Web` under fairness (every request a browser does not give up is
    answered), which adds little to `RedirectsLand` as a request never waits for
    another there.
