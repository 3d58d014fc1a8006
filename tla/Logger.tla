------------------------------- MODULE Logger -------------------------------
(***************************************************************************)
(* pkg/logger as cmd/app/main.go sets it up: every goroutine logs through  *)
(* one handler, which runs the event function of a level before it writes  *)
(* the record; the one for errors sends an alert, by the same logger.      *)
(***************************************************************************)
EXTENDS Integers, Sequences, FiniteSets

CONSTANTS
    Goroutines,
    MinLevel,       \* of New, as a number of slog
    MaxLines,       \* bound: lines that are written
    None

\* model.go, with the numbers of log/slog
Debug == -4
Info == 0
Warn == 4
Error == 8
Levels == {Debug, Info, Warn, Error}

ASSUME LevelAssumption == MinLevel \in Levels /\ MinLevel <= Info
ASSUME NoneAssumption == None \notin Levels

VARIABLES
    stack,          \* the calls of the logger each goroutine is in
    out             \* the lines on standard output

vars == <<stack, out>>

----------------------------------------------------------------------------
\* Handlers

\* slog.NewJSONHandler
JSON(level) == [kind |-> "json", level |-> level, attrs |-> {}]

newLogHandler(inner, events) == [kind |-> "log", handler |-> inner, events |-> events]

FaultyWithAttrs(h, attrs) ==
    IF h.kind = "json" THEN [h EXCEPT !.attrs = @ \cup attrs]
    ELSE [h.handler EXCEPT !.attrs = @ \cup attrs]
\* A handler of the same kind that adds the attributes
WithAttrs(h, attrs) ==
    IF h.kind = "json" THEN [h EXCEPT !.attrs = @ \cup attrs]
    ELSE newLogHandler([h.handler EXCEPT !.attrs = @ \cup attrs], h.events)

Enabled(h, level) ==
    IF h.kind = "json" THEN level >= h.level ELSE level >= h.handler.level

\* The level the event function of a level logs at, None for no function
Events(h, level) == IF h.kind = "json" THEN None ELSE h.events[level]

\* new(); without events the JSON handler stays alone.
New(minLevel, events) ==
    WithAttrs(IF \A l \in Levels : events[l] = None THEN JSON(minLevel)
              ELSE newLogHandler(JSON(minLevel), events),
              {"service"})

FaultyAppEvents == [l \in Levels |-> IF l = Error THEN Error ELSE None]
\* events.Error calls log.Info.
AppEvents == [l \in Levels |-> IF l = Error THEN Info ELSE None]

\* Logger.handler
Handler == New(MinLevel, AppEvents)

Init ==
    /\ stack = [g \in Goroutines |-> <<>>]
    /\ out = <<>>

----------------------------------------------------------------------------
\* A call of Debug, Info, Warn or Error

Call(level, msg) == [level |-> level, msg |-> msg, at |-> "write"]

Top(g) == stack[g][Len(stack[g])]
At(g, step) == stack[g] # <<>> /\ Top(g).at = step
Pop(g) == SubSeq(stack[g], 1, Len(stack[g]) - 1)

\* A call writes at most two lines, with its alert.
Room == \A g \in Goroutines : Len(out) + 2 * Len(stack[g]) < MaxLines

Log(g) ==
    /\ stack[g] = <<>> /\ Room
    /\ \E l \in Levels : stack' = [stack EXCEPT ![g] = <<Call(l, "message")>>]
    /\ UNCHANGED out

\* write: a level that is not enabled goes no further.
Write(g) ==
    /\ At(g, "write")
    /\ stack' = [stack EXCEPT ![g] =
                    IF Enabled(Handler, Top(g).level) THEN [@ EXCEPT ![Len(@)].at = "handle"]
                    ELSE Pop(g)]
    /\ UNCHANGED out

\* Handle: the event function runs, and may log, before the record is written.
Handle(g) ==
    /\ At(g, "handle")
    /\ LET event == Events(Handler, Top(g).level)
           waiting == [stack[g] EXCEPT ![Len(stack[g])].at = "output"]
       IN  stack' = [stack EXCEPT ![g] =
                        IF event = None THEN waiting
                        ELSE Append(waiting, Call(event, "ALERT"))]
    /\ UNCHANGED out

\* The JSON handler writes a line at a time.
Output(g) ==
    /\ At(g, "output")
    /\ out' = Append(out, [by |-> g, level |-> Top(g).level, msg |-> Top(g).msg])
    /\ stack' = [stack EXCEPT ![g] = Pop(g)]

Next == \E g \in Goroutines : Log(g) \/ Write(g) \/ Handle(g) \/ Output(g)

Spec == Init /\ [][Next]_vars

----------------------------------------------------------------------------

LinesOf(g, n, Is(_)) == {i \in 1..n : out[i].by = g /\ Is(out[i])}
IsAlert(line) == line.msg = "ALERT"
IsError(line) == line.level = Error

\* Whoever reads an error has read its alert: up to any line, each goroutine has
\* written an alert of its own for each of its errors, and at most one more, for
\* the error it is writing, although the lines of goroutines mix (handler.go:45-68).
AlertsAnnounceErrors ==
    \A g \in Goroutines, n \in 1..Len(out) :
        LET alerts == Cardinality(LinesOf(g, n, IsAlert))
            errors == Cardinality(LinesOf(g, n, IsError))
        IN  alerts \in {errors, errors + 1}

\* Logging ends: an alert does not raise another one (main.go:41-43).
AlertsDoNotNest == \A g \in Goroutines : Len(stack[g]) <= 2

=============================================================================
