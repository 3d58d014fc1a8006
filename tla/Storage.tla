------------------------------ MODULE Storage ------------------------------
(***************************************************************************)
(* The transactions of storage/storage.go.  One SQLite file in WAL mode is *)
(* reached through two pools:                                              *)
(*                                                                         *)
(*   - Write(f) holds the Go mutex mu and opens its transaction with BEGIN *)
(*     IMMEDIATE, which takes SQLite's single write lock at once;          *)
(*   - Read(f) takes no mutex and opens a deferred transaction, which      *)
(*     takes a snapshot at its first statement and asks for the write lock *)
(*     only when a statement of f writes.  Three operations of the user    *)
(*     service do write through Read.                                      *)
(*                                                                         *)
(* Every request has at most one transaction.  view[r] is what it sees:    *)
(* its snapshot with its own uncommitted writes on top, or None when it    *)
(* has no snapshot.  A transaction whose snapshot is no longer the newest  *)
(* is in stale; SQLite refuses to let it write (SQLITE_BUSY_SNAPSHOT).     *)
(***************************************************************************)

CONSTANTS
    Requests,   \* the goroutines that serve HTTP requests
    None        \* no row, no snapshot, no owner

ASSUME RequestsAssumption == None \notin Requests

VARIABLES
    db,         \* the committed content of the database file
    mu,         \* holder of DB.mu
    writer,     \* holder of SQLite's write lock
    view,       \* what the transaction of each request sees
    stale       \* requests whose snapshot precedes the last commit

storage == <<db, mu, writer, view, stale>>

StorageInit(content) ==
    /\ db = content
    /\ mu = None
    /\ writer = None
    /\ view = [r \in Requests |-> None]
    /\ stale = {}

----------------------------------------------------------------------------

\* db.mu.Lock() at the head of Write
LockMutex(r) ==
    /\ mu = None
    /\ mu' = r
    /\ UNCHANGED <<db, writer, view, stale>>

\* The first SELECT of a deferred transaction.
Snapshot(r) ==
    /\ view' = [view EXCEPT ![r] = db]
    /\ UNCHANGED <<db, mu, writer, stale>>

FaultyMayWrite(r) == writer \in {None, r}
\* SQLite lets r write: r holds the write lock, or the lock is free and r's
\* snapshot, if it has one, is the newest.
MayWrite(r) == writer = r \/ (writer = None /\ r \notin stale)

\* r runs a statement that writes (BEGIN IMMEDIATE counts as one) and leaves
\* content in its view.  Nobody else sees it before the commit.
Exec(r, content) ==
    /\ MayWrite(r)
    /\ writer' = r
    /\ view' = [view EXCEPT ![r] = content]
    /\ UNCHANGED <<db, mu, stale>>

\* The end of a transaction gives back the write lock and, at the deferred
\* mu.Unlock() of Write, the mutex.
Release(r) ==
    /\ writer' = IF writer = r THEN None ELSE writer
    /\ view' = [view EXCEPT ![r] = None]
    /\ mu' = IF mu = r THEN None ELSE mu

\* f returned an error, or the transaction wrote nothing.
Rollback(r) ==
    /\ Release(r)
    /\ stale' = stale \ {r}
    /\ UNCHANGED db

FaultyCommit(r) == writer = r /\ Rollback(r)
\* f returned nil: the view becomes the content of the database, and every
\* other open snapshot is now old.
Commit(r) ==
    /\ writer = r
    /\ db' = view[r]
    /\ stale' = {q \in Requests \ {r} : view[q] # None}
    /\ Release(r)

\* The process dies.  SQLite discards what was not committed; the locks and
\* the mutex die with their holders.
Restart ==
    /\ mu' = None
    /\ writer' = None
    /\ view' = [r \in Requests |-> None]
    /\ stale' = {}
    /\ UNCHANGED db

=============================================================================
