------------------------ MODULE LifecycleProperties ------------------------
(***************************************************************************)
(* What the start and the end of the process must satisfy.                 *)
(***************************************************************************)
EXTENDS Lifecycle

\* A graceful end cuts nobody off: when run returns nil after a shutdown, every
\* request that was accepted has its answer, and none was refused by a database
\* that had been closed before (main.go:257-263).
GracefulEndCutsNobody ==
    code = "ok" => \A h \in Handlers : handler[h] = "idle"

\* The database is closed after the server: no request is accepted by a process
\* that has closed the database already, also when the listener broke and only
\* its old connections are left (main.go:145-150, 228-233).
AcceptedWithDatabase ==
    [][\A h \in Handlers :
        handler[h] = "idle" /\ handler'[h] = "serving" => "app.db" \in open]_vars

\* Every end that is not a kill, graceful, forced or by panic, has closed the
\* database of the application and the server (main.go:145, 228).
EndClosesWhatItOpened ==
    main = "exited" /\ code # "killed" =>
        /\ "app.db" \notin open
        /\ starter # "none" => server = "closed"

\* Once it serves, the process gives up only for a reason: the server failed, or
\* a shutdown ran out of time.  The debug listener is no reason (main.go:199,
\* 247, 257).
GivesUpForAReason ==
    code = "error" /\ starter # "none" => starter \in {"broken", "ended"} \/ expired

\* A signal ends the process, although requests may hang for ever and the one
\* signal that is listened to may come while it starts (main.go:209, 254).
SignalEndsProcess == signal ~> main = "exited"

\* A web server that fails ends the process, which would otherwise stay and
\* serve nobody (main.go:240, 247).
ServerFailureEndsProcess ==
    starter = "broken" \/ (starter = "ended" /\ server = "up") ~> main = "exited"

----------------------------------------------------------------------------

\* The deferred function of the web server reports "failed to close the
\* database" (main.go:231), and Server.Stop is there to close the sessions
\* database (server.go:60): after a graceful end none is left open.
DatabasesClosed == main = "exited" /\ code = "ok" => open = {}

=============================================================================
