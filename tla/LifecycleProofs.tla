-------------------------- MODULE LifecycleProofs --------------------------
(***************************************************************************)
(* Proofs of the safety properties of Lifecycle, for any number of         *)
(* requests.                                                               *)
(***************************************************************************)
EXTENDS LifecycleProperties, TLAPS

\* run has not returned and the process lives.
Running == main \notin {"returning", "exited"}

\* What is deferred follows from how far run has come.
DefersInv ==
    /\ main \in {"config", "database"} => defers = <<>>
    /\ main \in {"mailer", "debug", "notify", "web"} => defers = <<"db.Close">>
    /\ main \in {"start", "select", "shutdown"} => defers = <<"db.Close", "server.Close">>
    /\ main = "exited" /\ code # "killed" => defers = <<>>

\* The database is open as long as its close is deferred, and the server that
\* was started is closed once its close no longer is.
OpenInv ==
    /\ "app.db" \in open <=> defers # <<>>
    /\ starter # "none" /\ server # "closed" => defers = <<"db.Close", "server.Close">>

\* Which parts of the process run at each point of main.
PhaseInv ==
    /\ code = "none" <=> Running
    /\ main \in Startup => starter = "none"
    /\ main \in Startup \cup {"select"} => server = "up"
    /\ main = "shutdown" => server = "shutdown"
    /\ serverErrors => starter \in {"broken", "ended"}

\* The requests at each point of main.
HandlersInv ==
    /\ starter = "none" => \A h \in Handlers : handler[h] = "idle"
    /\ Running => \A h \in Handlers : handler[h] \in UnderWay \cup {"idle"}
    /\ code = "ok" => (starter = "none" \/ server # "up")

LifecycleInv ==
    /\ TypeOK
    /\ DefersInv
    /\ OpenInv
    /\ PhaseInv
    /\ HandlersInv
    /\ GracefulEndCutsNobody
    /\ GivesUpForAReason

----------------------------------------------------------------------------

\* A second call is deferred.
LEMMA DeferSecond ==
    ASSUME defers = <<"db.Close">>
    PROVE  Append(defers, "server.Close") = <<"db.Close", "server.Close">>
<1> DEFINE item(i, first) == IF i = 2 THEN "server.Close" ELSE first
<1>1. Len(defers) = 1 /\ defers[1] = "db.Close"
  OBVIOUS
<1>2. \A S : "db.Close" \in S => <<"db.Close">> \in Seq(S)
  OBVIOUS
<1>3. defers \in Seq({"db.Close", "server.Close"})
  BY <1>2
<1>4. Append(defers, "server.Close") = [i \in 1..2 |-> item(i, defers[i])]
  BY <1>1, <1>3
<1>5. \A i \in 1..2 : item(i, defers[i]) = item(i, "db.Close")
  BY <1>1
<1>6. [i \in 1..2 |-> item(i, defers[i])] = [i \in 1..2 |-> item(i, "db.Close")]
  BY <1>5
<1>7. <<"db.Close", "server.Close">> = [i \in 1..2 |-> item(i, "db.Close")]
  OBVIOUS
<1>. QED
  BY <1>4, <1>6, <1>7

\* Of two deferred calls the last one runs: the server is closed.
LEMMA RunSecond ==
    ASSUME defers = <<"db.Close", "server.Close">>, RunDeferred
    PROVE  defers' = <<"db.Close">> /\ server' = "closed" /\ UNCHANGED open
<1>1. Len(defers) = 2 /\ defers[2] = "server.Close" /\ defers[1] = "db.Close"
  OBVIOUS
<1>2. SubSeq(defers, 1, 1) = <<"db.Close">>
  <2>1. SubSeq(defers, 1, 1) = [i \in 1..1 |-> defers[i]]
    BY <1>1
  <2>2. [i \in 1..1 |-> defers[i]] = <<"db.Close">>
    BY <1>1
  <2>. QED
    BY <2>1, <2>2
<1>3. defers' = SubSeq(defers, 1, 1)
  BY <1>1 DEF RunDeferred
<1>. QED
  BY <1>1, <1>2, <1>3 DEF RunDeferred

----------------------------------------------------------------------------

LEMMA Start == Init => LifecycleInv
BY DEF Init, LifecycleInv, TypeOK, DefersInv, OpenInv, PhaseInv, HandlersInv,
   GracefulEndCutsNobody, GivesUpForAReason, Running, Startup, UnderWay

LEMMA Steps == LifecycleInv /\ [Next]_vars => LifecycleInv'
<1>. SUFFICES ASSUME LifecycleInv, [Next]_vars PROVE LifecycleInv'
  OBVIOUS
<1>. USE DEF LifecycleInv, TypeOK, DefersInv, OpenInv, PhaseInv, HandlersInv,
            GracefulEndCutsNobody, GivesUpForAReason, Running, Startup, UnderWay
<1>1. CASE Configure
  BY <1>1 DEF Configure, Advance
<1>2. CASE Help
  BY <1>2 DEF Help, Return
<1>3. CASE StartupFails
  BY <1>3 DEF StartupFails, Return
<1>4. CASE OpenDatabase
  <2>1. main = "database" /\ main' = "mailer" /\ defers = <<>> /\ open' = open \cup {"app.db"}
    BY <1>4 DEF OpenDatabase
  <2>2. defers' = <<"db.Close">>
    BY <1>4, <2>1 DEF OpenDatabase
  <2>. QED
    BY <1>4, <2>1, <2>2 DEF OpenDatabase
<1>5. CASE ParseMailer
  BY <1>5 DEF ParseMailer, Advance
<1>6. CASE StartDebug
  BY <1>6 DEF StartDebug, Advance
<1>7. CASE Notify
  BY <1>7 DEF Notify, Advance
<1>8. CASE NewWebServer
  <2>1. main = "web" /\ main' = "start" /\ open' = open \cup {"sessions.db"}
    BY <1>8 DEF NewWebServer
  <2>2. defers = <<"db.Close">> /\ defers' = <<"db.Close", "server.Close">>
    BY <1>8, <2>1, DeferSecond DEF NewWebServer
  <2>3. UNCHANGED <<code, signal, serverErrors, debug, starter, server, expired, handler>>
    BY <1>8 DEF NewWebServer
  <2>. QED
    BY <2>1, <2>2, <2>3
<1>9. CASE NewWebServerPanics
  BY <1>9 DEF NewWebServerPanics, Return
<1>10. CASE StartWeb
  BY <1>10 DEF StartWeb, Advance
<1>11. CASE ServerError
  BY <1>11 DEF ServerError, Return
<1>12. CASE BeginShutdown
  BY <1>12 DEF BeginShutdown
<1>13. CASE ShutdownReturns
  BY <1>13 DEF ShutdownReturns, Return
<1>14. CASE ShutdownFails
  BY <1>14 DEF ShutdownFails, Return
<1>15. CASE RunDeferred
  <2>1. CASE defers = <<"db.Close">>
    <3>1. defers' = <<>> /\ open' = open \ {"app.db"} /\ UNCHANGED server
      BY <1>15, <2>1 DEF RunDeferred
    <3>2. main = "returning" /\ UNCHANGED <<main, code, signal, serverErrors, debug,
                                           starter, expired, handler>>
      BY <1>15 DEF RunDeferred
    <3>. QED
      BY <2>1, <3>1, <3>2
  <2>2. CASE defers = <<"db.Close", "server.Close">>
    <3>1. defers' = <<"db.Close">> /\ server' = "closed" /\ UNCHANGED open
      BY <1>15, <2>2, RunSecond
    <3>2. main = "returning" /\ UNCHANGED <<main, code, signal, serverErrors, debug,
                                           starter, expired, handler>>
      BY <1>15 DEF RunDeferred
    <3>. QED
      BY <2>2, <3>1, <3>2
  <2>. QED
    BY <1>15, <2>1, <2>2 DEF RunDeferred
<1>16. CASE Finish
  BY <1>16 DEF Finish, Exit
<1>17. CASE Expire
  BY <1>17 DEF Expire
<1>18. CASE DebugListens
  BY <1>18 DEF DebugListens
<1>19. CASE Listen
  BY <1>19 DEF Listen
<1>20. CASE StartFails
  BY <1>20 DEF StartFails
<1>21. CASE StartEnds
  BY <1>21 DEF StartEnds
<1>22. CASE Signal
  <2>1. CASE main \in Startup \ {"web", "start"}
    <3>1. main' = "exited" /\ code' = "killed"
      BY <1>22, <2>1 DEF Signal, Exit
    <3>2. UNCHANGED <<defers, open, signal, serverErrors, debug, starter, server, expired>>
      BY <1>22, <2>1 DEF Signal, Exit
    <3>3. \A h \in Handlers : handler[h] = "idle"
      BY <2>1
    <3>4. handler' = [h \in Handlers |-> "idle"]
      BY <1>22, <2>1, <3>3 DEF Signal, Exit
    <3>. QED
      BY <3>1, <3>2, <3>3, <3>4
  <2>2. CASE main \notin Startup \ {"web", "start"}
    <3>1. signal' = TRUE /\ UNCHANGED <<main, code, defers, open, serverErrors, debug,
                                         starter, server, expired, handler>>
      BY <1>22, <2>2 DEF Signal
    <3>. QED
      BY <3>1
  <2>. QED
    BY <2>1, <2>2
<1>23. CASE Kill
  BY <1>23 DEF Kill, Exit
<1>24. ASSUME NEW h \in Handlers, Accept(h) PROVE LifecycleInv'
  BY <1>24 DEF Accept
<1>25. ASSUME NEW h \in Handlers, BeginTransaction(h) PROVE LifecycleInv'
  BY <1>25 DEF BeginTransaction
<1>26. ASSUME NEW h \in Handlers, Respond(h) PROVE LifecycleInv'
  BY <1>26 DEF Respond
<1>27. CASE UNCHANGED vars
  BY <1>27 DEF vars
<1>. QED
  BY <1>1, <1>2, <1>3, <1>4, <1>5, <1>6, <1>7, <1>8, <1>9, <1>10, <1>11, <1>12, <1>13,
     <1>14, <1>15, <1>16, <1>17, <1>18, <1>19, <1>20, <1>21, <1>22, <1>23, <1>24, <1>25,
     <1>26, <1>27
  DEF Next, Run

LEMMA Invariance == Spec => []LifecycleInv
<1>1. Init => LifecycleInv
  BY Start
<1>2. LifecycleInv /\ [Next]_vars => LifecycleInv'
  BY Steps
<1>. QED
  BY <1>1, <1>2, PTL DEF Spec

\* The variables of run, of the listeners and of the requests keep their types.
THEOREM LifecycleTypes == Spec => []TypeOK
<1>1. LifecycleInv => TypeOK
  BY DEF LifecycleInv
<1>. QED
  BY <1>1, Invariance, PTL

\* A graceful end has answered every request it accepted: Shutdown returned
\* because none was under way (main.go:257-263).
THEOREM GracefulEnd == Spec => []GracefulEndCutsNobody
<1>1. LifecycleInv => GracefulEndCutsNobody
  BY DEF LifecycleInv
<1>. QED
  BY <1>1, Invariance, PTL

\* Every end but a kill has closed the database and the server: what is deferred
\* says what is still open, and nothing is deferred at the end (main.go:145, 228).
THEOREM EndCloses == Spec => []EndClosesWhatItOpened
<1>1. LifecycleInv => EndClosesWhatItOpened
  BY DEF LifecycleInv, DefersInv, OpenInv, EndClosesWhatItOpened
<1>. QED
  BY <1>1, Invariance, PTL

\* Only the failure of the server or a shutdown that runs out of time ends a
\* process that serves with an error (main.go:199, 247, 257).
THEOREM GivesUp == Spec => []GivesUpForAReason
<1>1. LifecycleInv => GivesUpForAReason
  BY DEF LifecycleInv
<1>. QED
  BY <1>1, Invariance, PTL

\* No request is accepted once the database has been closed: the server's close
\* is deferred after the database's and runs before it (main.go:145, 228).
THEOREM AcceptsWithDatabase == Spec => AcceptedWithDatabase
<1> DEFINE Accepted == \A h \in Handlers :
        handler[h] = "idle" /\ handler'[h] = "serving" => "app.db" \in open
<1>1. LifecycleInv /\ [Next]_vars => [Accepted]_vars
  <2> SUFFICES ASSUME LifecycleInv, [Next]_vars PROVE Accepted
    OBVIOUS
  <2>1. SUFFICES ASSUME NEW h \in Handlers, handler[h] = "idle", handler'[h] = "serving"
                 PROVE  "app.db" \in open
    OBVIOUS
  <2>2. CASE \E g \in Handlers : Accept(g)
    BY <2>2 DEF Accept, LifecycleInv, OpenInv
  <2>3. CASE \E g \in Handlers : BeginTransaction(g) \/ Respond(g)
    BY <2>1, <2>3 DEF BeginTransaction, Respond, LifecycleInv, TypeOK, UnderWay
  <2>4. CASE handler' = handler
    BY <2>1, <2>4
  <2>5. CASE \E c \in {"none", "ok", "error", "panic", "killed"} : Exit(c)
    BY <2>1, <2>5 DEF Exit, UnderWay
  <2>6. \/ \E g \in Handlers : Accept(g) \/ BeginTransaction(g) \/ Respond(g)
        \/ handler' = handler
        \/ \E c \in {"none", "ok", "error", "panic", "killed"} : Exit(c)
    <3>1. CASE Run
      BY <3>1 DEF Run, Configure, Help, StartupFails, OpenDatabase, ParseMailer, StartDebug,
         Notify, NewWebServer, NewWebServerPanics, StartWeb, ServerError, BeginShutdown,
         ShutdownReturns, ShutdownFails, RunDeferred, Finish, Advance, LifecycleInv, TypeOK
    <3>2. CASE Expire \/ DebugListens \/ Listen \/ StartFails \/ StartEnds
      BY <3>2 DEF Expire, DebugListens, Listen, StartFails, StartEnds
    <3>3. CASE Signal \/ Kill
      BY <3>3 DEF Signal, Kill
    <3>. QED
      BY <3>1, <3>2, <3>3 DEF Next, vars
  <2>. QED
    BY <2>2, <2>3, <2>4, <2>5, <2>6
<1>2. []LifecycleInv /\ [][Next]_vars => [][Accepted]_vars
  BY <1>1, PTL
<1>. QED
  BY <1>2, Invariance, PTL DEF Spec, AcceptedWithDatabase

=============================================================================
