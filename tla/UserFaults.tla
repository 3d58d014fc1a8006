----------------------------- MODULE UserFaults -----------------------------
(***************************************************************************)
(* The user service when a closure panics or the SMTP server stays silent. *)
(*                                                                         *)
(* storage.go:117-132 does not recover: a panic of the closure runs the    *)
(* deferred mu.Unlock() of Write, but neither Rollback nor Commit.  The    *)
(* transaction stays open until net/http, which recovers the panic, has    *)
(* cancelled the context of the request; then database/sql rolls it back.  *)
(* Until then one opened by Write has the only connection of its pool.     *)
(***************************************************************************)
EXTENDS UserProperties

VARIABLE panicked       \* requests that panicked and left a transaction open

fvars == <<vars, panicked>>

FInit == Init /\ panicked = {}

\* A call can panic when it hashes (argon2.IDKey, for a configured time or
\* number of threads of 0), draws a token (uuid.New) or renders a mail.
MayPanic(r) ==
    \/ pc[r] \in {"began", "staged"}
    \/ At(r, "ChangePassword", "called")
    \/ At(r, "ChangePasswordWithToken", "selected")
    \/ At(r, "Signin", "loaded")

FaultyPanic(r) ==
    /\ MayPanic(r)
    /\ panicked' = panicked \cup {r}
    /\ UNCHANGED vars
\* The deferred call gives back the mutex.
Panic(r) ==
    /\ MayPanic(r)
    /\ panicked' = panicked \cup {r}
    /\ mu' = IF mu = r THEN None ELSE mu
    /\ UNCHANGED <<db, writer, view, stale, pc, req, row, cache, mailed, now>>

FaultyCancel(r) ==
    /\ IF writer = r THEN Commit(r) ELSE Rollback(r)
    /\ Goto(r, "idle")
    /\ req' = [req EXCEPT ![r] = None]
    /\ row' = [row EXCEPT ![r] = None]
    /\ panicked' = panicked \ {r}
    /\ UNCHANGED <<cache, mailed, now>>
\* The context of the request is cancelled and its transaction rolled back,
\* which knows nothing of the mutex; the caller sees its connection end.
Cancel(r) ==
    /\ writer' = IF writer = r THEN None ELSE writer
    /\ view' = [view EXCEPT ![r] = None]
    /\ stale' = stale \ {r}
    /\ Goto(r, "idle")
    /\ req' = [req EXCEPT ![r] = None]
    /\ row' = [row EXCEPT ![r] = None]
    /\ panicked' = panicked \ {r}
    /\ UNCHANGED <<db, mu, cache, mailed, now>>

\* wrdb.SetMaxOpenConns(1): BeginTx of another Write waits for the connection.
WritePoolFree == \A r \in panicked : req[r].op \notin WriteOps

\* A step of UserService, by a request that has not panicked.
Step(r, action) ==
    /\ r \notin panicked
    /\ action
    /\ UNCHANGED panicked

Works(r) == Step(r, Progress(r) /\ (pc[r] = "locked" => WritePoolFree))

FNext ==
    \/ Tick /\ UNCHANGED panicked
    \/ Crash /\ panicked' = {}
    \/ \E r \in Requests \ panicked :
        Step(r, Call(r) \/ Lock(r) \/ Abort(r)) \/ Works(r) \/ Panic(r)
    \/ \E r \in panicked : Cancel(r)

FSpec == FInit /\ [][FNext]_fvars

Cleans(r) == r \in panicked /\ Cancel(r)

\* net/http and database/sql clean up, and sync.Mutex hands the lock to a waiter
\* it has starved for 1 ms.
Fair(r) == WF_fvars(Cleans(r)) /\ SF_fvars(Step(r, Lock(r)))

\* The scheduler runs every goroutine that can take a step; the SMTP server may
\* take the connection and stay silent for ever.
FairSpec ==
    FSpec /\ \A r \in Requests : Fair(r) /\ WF_fvars(Works(r) /\ pc[r] # "staged")

----------------------------------------------------------------------------

\* A lock is only ever held by a request that will give it back: the mutex by a
\* Write between its Lock and its end that has not panicked, and such a Write does
\* hold it; the write lock by a request inside its transaction (storage.go:110-132).
LocksAreGivenBack ==
    LET writing == {"locked", "began", "staged", "mailed"}
    IN  /\ mu # None => mu \notin panicked
        /\ \A r \in Requests \ panicked : pc[r] \in writing <=> mu = r
        /\ writer # None => pc[writer] \in {"began", "staged", "mailed", "updated", "finished"}

\* While a mail hangs under the mutex and the write lock, every operation that
\* is not a Write is still answered, if only with SQLITE_BUSY: reading waits for
\* nobody, and the write lock is waited for at most _busy_timeout (mailer.go:95,
\* storage.go:34, 106).
ReadsAreAnswered ==
    \A r \in Requests :
        pc[r] # "idle" /\ req[r].op \notin WriteOps ~> pc[r] = "idle"

\* The SMTP server answers whoever waits for it.
SMTPAnswers == \A r \in Requests : WF_fvars(Works(r) /\ pc[r] = "staged")

\* Every call is answered as long as the SMTP server answers, also when closures
\* panic: no request keeps the mutex, the write lock or the connection that
\* another one waits for (storage.go:111-112, mailer.go:95).
CallsAreAnswered ==
    SMTPAnswers => \A r \in Requests : pc[r] # "idle" ~> pc[r] = "idle"

=============================================================================
