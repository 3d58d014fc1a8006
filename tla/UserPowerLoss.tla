---------------------------- MODULE UserPowerLoss ----------------------------
(***************************************************************************)
(* The user service when the machine, and not only the process, stops.     *)
(* storage.go:34 opens the database in WAL mode with _sync=1 (NORMAL): a   *)
(* commit appends to the log and does not wait for the disk; the log is    *)
(* synced by a checkpoint.  A power loss keeps the log up to some commit   *)
(* after the last checkpoint.                                              *)
(***************************************************************************)
EXTENDS UserProperties

VARIABLES
    synced,         \* the content at the last checkpoint
    recoverable     \* the contents committed since, with that one

pvars == <<vars, synced, recoverable>>

PInit == Init /\ synced = db /\ recoverable = {db}

\* A step of UserService.  A commit waits for no sync, and a process that is
\* killed leaves what it wrote to the operating system.
Serve ==
    /\ Next
    /\ recoverable' = recoverable \cup {db'}
    /\ UNCHANGED synced

FaultyCheckpoint ==
    /\ synced' = db
    /\ recoverable' = recoverable \cup {db}
    /\ UNCHANGED vars
\* The log is synced and copied into the file, which is synced too: nothing older
\* can be found any more.
Checkpoint ==
    /\ synced' = db
    /\ recoverable' = {db}
    /\ UNCHANGED vars

\* The recovery of the log finds the frames up to one of the commits, and these
\* are on the disk; the mails are out, memory is gone as in a Crash.
PowerLoss ==
    /\ db' \in recoverable
    /\ mu' = None /\ writer' = None
    /\ view' = [r \in Requests |-> None] /\ stale' = {}
    /\ pc' = [r \in Requests |-> "idle"]
    /\ req' = [r \in Requests |-> None]
    /\ row' = [r \in Requests |-> None]
    /\ cache' = [e \in Emails |-> None]
    /\ recoverable' = {db'}
    /\ UNCHANGED <<synced, mailed, now>>

PNext == Serve \/ Checkpoint \/ PowerLoss

PSpec == PInit /\ [][PNext]_pvars

----------------------------------------------------------------------------

\* A power loss may undo calls that were answered, but nothing the last checkpoint
\* had is missing afterwards, nor in any content that the next loss may go back to:
\* accounts, what is verified, used links and drawn tokens are all there, whatever
\* was lost since and whoever wrote from an old snapshot (storage.go:34, 106).
CheckpointSurvives == \A d \in recoverable \cup {db} : Advances(synced, d)

\* Wherever the log breaks off, the accounts found are ones the service can go
\* on with: each email has at most one link of a kind, it fits the state of its
\* account, and it was mailed, because the token is committed after the mail
\* left (storage.go:34, user.go:156, 288).
EveryRecoveryIsUsable ==
    \A d \in recoverable :
        /\ OneLiveTokenIn(d)
        /\ TokensMatchIn(d)
        /\ \A t \in Tokens : d.tokens[t] # NoRow =>
                \E m \in mailed : m.token = t /\ m.to = d.tokens[t].email

=============================================================================
