----------------------------- MODULE Lifecycle -----------------------------
(***************************************************************************)
(* cmd/app/main.go: how the process starts, serves and ends.               *)
(*                                                                         *)
(* The goroutine of main runs the function run; three others run beside    *)
(* it: the debug listener, the web server (server.Start), and one for each *)
(* request.  A request may take any time, or never end: nothing bounds the *)
(* wait for DB.mu or for the SMTP server.                                  *)
(*                                                                         *)
(*   main:  config -> database -> mailer -> debug -> notify -> web         *)
(*            -> start -> select -> shutdown -> returning -> exited        *)
(*                                                                         *)
(* and from most of these straight to returning, where the deferred calls  *)
(* run, last one first.  From net/http: Shutdown refuses new requests and  *)
(* returns once no request is under way, Close cuts every connection, and  *)
(* Serve, once stopped by either, returns ErrServerClosed.                 *)
(***************************************************************************)
EXTENDS Naturals, Sequences

CONSTANT Handlers       \* requests that can be under way at once

VARIABLES
    main,           \* where the goroutine of main is
    code,           \* what run returns, once that is decided
    defers,         \* the deferred calls, in the order they were deferred
    open,           \* the databases that are open
    signal,         \* the channel shutdown (of capacity one) holds a signal
    serverErrors,   \* the channel serverErrors (of capacity one) holds an error
    debug,          \* the debug listener
    starter,        \* the goroutine that runs server.Start
    server,         \* the http.Server
    expired,        \* the deadline of the context given to Shutdown has passed
    handler         \* the requests

vars == <<main, code, defers, open, signal, serverErrors, debug, starter, server,
          expired, handler>>

Startup == {"config", "database", "mailer", "debug", "notify", "web", "start"}

\* A request that is under way may be before or inside its transaction.
UnderWay == {"serving", "transaction"}

TypeOK ==
    /\ main \in Startup \cup {"select", "shutdown", "returning", "exited"}
    /\ code \in {"none", "ok", "error", "panic", "killed"}
    /\ defers \in {<<>>, <<"db.Close">>, <<"db.Close", "server.Close">>}
    /\ open \subseteq {"app.db", "sessions.db"}
    /\ signal \in BOOLEAN
    /\ serverErrors \in BOOLEAN
    /\ debug \in {"none", "starting", "serving", "failed"}
    /\ starter \in {"none", "starting", "serving", "broken", "ended"}
    /\ server \in {"up", "shutdown", "closed"}
    /\ expired \in BOOLEAN
    /\ handler \in [Handlers -> UnderWay \cup {"idle", "refused", "cut"}]

Init ==
    /\ main = "config"
    /\ code = "none"
    /\ defers = <<>>
    /\ open = {}
    /\ signal = FALSE
    /\ serverErrors = FALSE
    /\ debug = "none"
    /\ starter = "none"
    /\ server = "up"
    /\ expired = FALSE
    /\ handler = [h \in Handlers |-> "idle"]

----------------------------------------------------------------------------
\* The end of the process

\* run returns, or panics: the deferred calls come next.
Return(c) ==
    /\ main' = "returning"
    /\ code' = c

\* The requests under way die with the process.
Exit(c) ==
    /\ main' = "exited"
    /\ code' = c
    /\ handler' = [h \in Handlers |-> IF handler[h] \in UnderWay THEN "cut" ELSE handler[h]]

FaultyRunDeferred ==
    /\ main = "returning" /\ defers # <<>>
    /\ defers' = Tail(defers)
    /\ IF Head(defers) = "db.Close"
       THEN open' = open \ {"app.db"} /\ UNCHANGED server
       ELSE server' = "closed" /\ UNCHANGED open
    /\ UNCHANGED <<main, code, signal, serverErrors, debug, starter, expired, handler>>
\* The last of the deferred calls.  An error of theirs is only logged.
RunDeferred ==
    /\ main = "returning" /\ defers # <<>>
    /\ defers' = SubSeq(defers, 1, Len(defers) - 1)
    /\ IF defers[Len(defers)] = "db.Close"
       THEN open' = open \ {"app.db"} /\ UNCHANGED server
       ELSE server' = "closed" /\ UNCHANGED open
    /\ UNCHANGED <<main, code, signal, serverErrors, debug, starter, expired, handler>>

\* main returns, or calls os.Exit(1), or the runtime ends a panic.
Finish ==
    /\ main = "returning" /\ defers = <<>>
    /\ Exit(code)
    /\ UNCHANGED <<defers, open, signal, serverErrors, debug, starter, server, expired>>

----------------------------------------------------------------------------
\* run, up to the select

\* A step of the startup that defers nothing and opens nothing.
Advance(from, to) ==
    /\ main = from
    /\ main' = to
    /\ UNCHANGED <<code, defers, open, signal, serverErrors, server, expired, handler>>

Configure == Advance("config", "database") /\ UNCHANGED <<debug, starter>>

\* --help
Help ==
    /\ main = "config"
    /\ Return("ok")
    /\ UNCHANGED <<defers, open, signal, serverErrors, debug, starter, server, expired, handler>>

\* The configuration, the database or the address of the mailer is no good.
\* NewDB closes again what it has opened.
StartupFails ==
    /\ main \in {"config", "database", "mailer"}
    /\ Return("error")
    /\ UNCHANGED <<defers, open, signal, serverErrors, debug, starter, server, expired, handler>>

OpenDatabase ==
    /\ main = "database"
    /\ main' = "mailer"
    /\ open' = open \cup {"app.db"}
    /\ defers' = Append(defers, "db.Close")
    /\ UNCHANGED <<code, signal, serverErrors, debug, starter, server, expired, handler>>

ParseMailer == Advance("mailer", "debug") /\ UNCHANGED <<debug, starter>>

StartDebug == Advance("debug", "notify") /\ debug' = "starting" /\ UNCHANGED starter

Notify == Advance("notify", "web") /\ UNCHANGED <<debug, starter>>

NewWebServer ==
    /\ main = "web"
    /\ main' = "start"
    /\ open' = open \cup {"sessions.db"}
    /\ defers' = Append(defers, "server.Close")
    /\ UNCHANGED <<code, signal, serverErrors, debug, starter, server, expired, handler>>

\* The sessions database does not open, or its table is not created, or the
\* domain is blank.
NewWebServerPanics ==
    /\ main = "web"
    /\ Return("panic")
    /\ open' \in {open, open \cup {"sessions.db"}}
    /\ UNCHANGED <<defers, signal, serverErrors, debug, starter, server, expired, handler>>

StartWeb == Advance("start", "select") /\ starter' = "starting" /\ UNCHANGED debug

----------------------------------------------------------------------------
\* The select and the shutdown

ServerError ==
    /\ main = "select" /\ serverErrors
    /\ serverErrors' = FALSE
    /\ Return("error")
    /\ UNCHANGED <<defers, open, signal, debug, starter, server, expired, handler>>

\* The signal is taken; Shutdown closes the listener and idle connections.
BeginShutdown ==
    /\ main = "select" /\ signal
    /\ signal' = FALSE
    /\ main' = "shutdown"
    /\ server' = "shutdown"
    /\ UNCHANGED <<code, defers, open, serverErrors, debug, starter, expired, handler>>

FaultyExpire == FALSE
\* ShutdownTimeout has passed.
Expire ==
    /\ main = "shutdown" /\ ~ expired
    /\ expired' = TRUE
    /\ UNCHANGED <<main, code, defers, open, signal, serverErrors, debug, starter, server, handler>>

FaultyShutdownReturns ==
    /\ main = "shutdown"
    /\ Return("ok")
    /\ UNCHANGED <<defers, open, signal, serverErrors, debug, starter, server, expired, handler>>
\* Every request has been answered.
ShutdownReturns ==
    /\ main = "shutdown"
    /\ \A h \in Handlers : handler[h] \notin UnderWay
    /\ Return("ok")
    /\ UNCHANGED <<defers, open, signal, serverErrors, debug, starter, server, expired, handler>>

FaultyShutdownFails ==
    /\ main = "shutdown" /\ expired
    /\ server' = "closed"
    /\ Exit("error")
    /\ UNCHANGED <<defers, open, signal, serverErrors, debug, starter, expired>>
\* Shutdown returns the error of its context, and server.Close follows.
ShutdownFails ==
    /\ main = "shutdown" /\ expired
    /\ server' = "closed"
    /\ Return("error")
    /\ UNCHANGED <<defers, open, signal, serverErrors, debug, starter, expired, handler>>

----------------------------------------------------------------------------
\* The goroutines beside main

FaultyDebugListens ==
    /\ debug = "starting" /\ main # "exited"
    /\ debug' \in {"serving", "failed"}
    /\ serverErrors' = (serverErrors \/ debug' = "failed")
    /\ UNCHANGED <<main, code, defers, open, signal, starter, server, expired, handler>>
\* A failure of the debug listener, now or later, is only logged.
DebugListens ==
    /\ debug \in {"starting", "serving"} /\ main # "exited"
    /\ debug' \in {"serving", "failed"} \ {debug}
    /\ UNCHANGED <<main, code, defers, open, signal, serverErrors, starter, server, expired, handler>>

\* server.Start
Listen ==
    /\ starter = "starting" /\ server = "up" /\ main # "exited"
    /\ starter' = "serving"
    /\ UNCHANGED <<main, code, defers, open, signal, serverErrors, debug, server, expired, handler>>

FaultyStartFails ==
    /\ starter \in {"starting", "serving"} /\ server = "up" /\ main # "exited"
    /\ starter' = IF starter = "starting" THEN "ended" ELSE "broken"
    /\ UNCHANGED <<main, code, defers, open, signal, serverErrors, debug, server, expired, handler>>
\* The address is taken, or Accept fails later: then the connections that are
\* open are still served.
StartFails ==
    /\ starter \in {"starting", "serving"} /\ server = "up" /\ main # "exited"
    /\ starter' = IF starter = "starting" THEN "ended" ELSE "broken"
    /\ serverErrors' = TRUE
    /\ UNCHANGED <<main, code, defers, open, signal, debug, server, expired, handler>>

\* Shutdown or Close came first: ErrServerClosed, which nobody reads.
StartEnds ==
    /\ starter \in {"starting", "serving"} /\ server # "up" /\ main # "exited"
    /\ starter' = "ended"
    /\ serverErrors' = TRUE
    /\ UNCHANGED <<main, code, defers, open, signal, debug, server, expired, handler>>

\* A request arrives; on a connection that is open already when the listener
\* is gone.
Accept(h) ==
    /\ handler[h] = "idle" /\ main # "exited"
    /\ server = "up" /\ starter \in {"serving", "broken"}
    /\ handler' = [handler EXCEPT ![h] = "serving"]
    /\ UNCHANGED <<main, code, defers, open, signal, serverErrors, debug, starter, server, expired>>

\* BeginTx, of Read or Write; a closed database refuses.
BeginTransaction(h) ==
    /\ handler[h] = "serving" /\ main # "exited"
    /\ handler' = [handler EXCEPT ![h] = IF "app.db" \in open THEN "transaction" ELSE "refused"]
    /\ UNCHANGED <<main, code, defers, open, signal, serverErrors, debug, starter, server, expired>>

\* The response; after server.Close nobody receives it.  A transaction that is
\* open when the database is closed keeps its connection up to here.
Respond(h) ==
    /\ handler[h] \in UnderWay /\ main # "exited"
    /\ handler' = [handler EXCEPT ![h] = IF server = "closed" THEN "cut" ELSE "idle"]
    /\ UNCHANGED <<main, code, defers, open, signal, serverErrors, debug, starter, server, expired>>

----------------------------------------------------------------------------
\* The operating system

\* SIGINT or SIGTERM.  Before signal.Notify it ends the process; afterwards it
\* waits in the channel, or is dropped when one waits there already.
Signal ==
    /\ main # "exited"
    /\ IF main \in Startup \ {"web", "start"}
       THEN Exit("killed") /\ UNCHANGED signal
       ELSE signal' = TRUE /\ UNCHANGED <<main, code, handler>>
    /\ UNCHANGED <<defers, open, serverErrors, debug, starter, server, expired>>

\* SIGKILL
Kill ==
    /\ main # "exited"
    /\ Exit("killed")
    /\ UNCHANGED <<defers, open, signal, serverErrors, debug, starter, server, expired>>

----------------------------------------------------------------------------

Run ==
    \/ Configure \/ Help \/ StartupFails \/ OpenDatabase \/ ParseMailer
    \/ StartDebug \/ Notify \/ NewWebServer \/ NewWebServerPanics \/ StartWeb
    \/ ServerError \/ BeginShutdown \/ ShutdownReturns \/ ShutdownFails
    \/ RunDeferred \/ Finish

Next ==
    \/ Run \/ Expire
    \/ DebugListens \/ Listen \/ StartFails \/ StartEnds
    \/ \E h \in Handlers : Accept(h) \/ BeginTransaction(h) \/ Respond(h)
    \/ Signal \/ Kill

Spec == Init /\ [][Next]_vars

\* The goroutine of main runs when it can, and timers fire.  Nothing is assumed
\* of the requests, of the listeners or of the operating system.
FairSpec == Spec /\ WF_vars(Run) /\ WF_vars(Expire)

=============================================================================
