---------------------------- MODULE LoggerProofs ----------------------------
(***************************************************************************)
(* Proofs about Logger.  The calls a goroutine is in are none, a message,  *)
(* or an error and the alert it waits for (StackOK); so the lines it has   *)
(* written hold one alert more than errors exactly while the error itself  *)
(* is about to be written (Counted).                                       *)
(***************************************************************************)
EXTENDS Logger, FiniteSetTheorems, SequenceTheorems, TLAPS

----------------------------------------------------------------------------
\* What the handler that main.go sets up does.

LEMMA HandlerFacts ==
    /\ \A l \in Levels : Enabled(Handler, l) <=> l >= MinLevel
    /\ Enabled(Handler, Info)
    /\ \A l \in Levels : Events(Handler, l) = IF l = Error THEN Info ELSE None
<1> DEFINE h == newLogHandler([JSON(MinLevel) EXCEPT !.attrs = @ \cup {"service"}], AppEvents)
<1>1. AppEvents[Error] # None
  BY NoneAssumption DEF AppEvents, Levels, Error, Info
<1>2. Handler = h
  BY <1>1 DEF Handler, New, WithAttrs, newLogHandler, JSON, Levels
<1>3. h.kind = "log" /\ h.handler.level = MinLevel /\ h.events = AppEvents
  BY DEF newLogHandler, JSON
<1> QED BY <1>2, <1>3, LevelAssumption DEF Enabled, Events, AppEvents, Levels, Info

----------------------------------------------------------------------------
\* Stacks of one and two calls.

Calls == [level: Levels, msg: {"message", "ALERT"}, at: {"write", "handle", "output"}]

LEMMA OneCall ==
    ASSUME NEW c \in Calls
    PROVE  /\ Len(<<c>>) = 1 /\ <<c>>[1] = c /\ <<c>> # <<>>
           /\ SubSeq(<<c>>, 1, 0) = <<>>
           /\ \A step : [<<c>> EXCEPT ![1].at = step] = <<[c EXCEPT !.at = step]>>
OBVIOUS

LEMMA TwoCalls ==
    ASSUME NEW c \in Calls, NEW d \in Calls
    PROVE  /\ Len(<<c, d>>) = 2 /\ <<c, d>>[2] = d /\ <<c, d>> # <<>>
           /\ SubSeq(<<c, d>>, 1, 1) = <<c>>
           /\ \A step : [<<c, d>> EXCEPT ![2].at = step] = <<c, [d EXCEPT !.at = step]>>
           /\ Append(<<c>>, d) = <<c, d>>
<1>1. Len(<<c, d>>) = 2 /\ <<c, d>>[2] = d /\ <<c, d>> # <<>>
  OBVIOUS
<1>2. <<c>> \in Seq(Calls) /\ <<c, d>> \in Seq(Calls) /\ Len(<<c>>) = 1
  OBVIOUS
<1>3. SubSeq(<<c, d>>, 1, 1) = <<c>>
  <2> DEFINE s == SubSeq(<<c, d>>, 1, 1)
             u == <<c>>
  <2>1. s \in Seq(Calls) /\ Len(s) = 1 /\ s[1] = c
    BY SubSeqProperties
  <2>2. u \in Seq(Calls) /\ Len(u) = 1 /\ u[1] = c
    BY <1>2
  <2> HIDE DEF s, u
  <2>3. s = u
    BY <2>1, <2>2, SeqEqual
  <2> QED BY <2>3 DEF s, u
<1>4. ASSUME NEW step
      PROVE  [<<c, d>> EXCEPT ![2].at = step] = <<c, [d EXCEPT !.at = step]>>
  OBVIOUS
<1>5. Append(<<c>>, d) = <<c, d>>
  <2> DEFINE s == Append(<<c>>, d)
             u == <<c, d>>
  <2>1. s \in Seq(Calls) /\ Len(s) = 2 /\ s[1] = c /\ s[2] = d
    BY <1>2, AppendProperties
  <2>2. u \in Seq(Calls) /\ Len(u) = 2 /\ u[1] = c /\ u[2] = d
    BY <1>2
  <2> HIDE DEF s, u
  <2>3. s = u
    BY <2>1, <2>2, SeqEqual
  <2> QED BY <2>3 DEF s, u
<1> QED BY <1>1, <1>3, <1>4, <1>5

----------------------------------------------------------------------------
\* Counting lines.

Lines == [by: Goroutines, level: Levels, msg: {"message", "ALERT"}]

AlertsIn(s, g, n) == {i \in 1..n : s[i].by = g /\ IsAlert(s[i])}
ErrorsIn(s, g, n) == {i \in 1..n : s[i].by = g /\ IsError(s[i])}

Alerts(s, g, n) == Cardinality(AlertsIn(s, g, n))
Errors(s, g, n) == Cardinality(ErrorsIn(s, g, n))

LEMMA CountFacts ==
    ASSUME NEW s, NEW g, NEW n \in Nat
    PROVE  /\ Alerts(s, g, n) \in Nat /\ IsFiniteSet(AlertsIn(s, g, n))
           /\ Errors(s, g, n) \in Nat /\ IsFiniteSet(ErrorsIn(s, g, n))
<1>1. IsFiniteSet(1..n)
  BY FS_Interval
<1>2. IsFiniteSet(AlertsIn(s, g, n)) /\ IsFiniteSet(ErrorsIn(s, g, n))
  BY <1>1, FS_Subset DEF AlertsIn, ErrorsIn
<1> QED BY <1>2, FS_CardinalityType DEF Alerts, Errors

\* A line more counts for whoever wrote it, the counts up to older lines stay.
LEMMA CountLine ==
    ASSUME NEW s \in Seq(Lines), NEW line \in Lines, NEW g
    PROVE  LET t == Append(s, line)
               n == Len(s)
           IN  /\ \A k \in 0..n : Alerts(t, g, k) = Alerts(s, g, k)
                                 /\ Errors(t, g, k) = Errors(s, g, k)
               /\ Alerts(t, g, n + 1) =
                    Alerts(s, g, n) + IF line.by = g /\ IsAlert(line) THEN 1 ELSE 0
               /\ Errors(t, g, n + 1) =
                    Errors(s, g, n) + IF line.by = g /\ IsError(line) THEN 1 ELSE 0
<1> DEFINE t == Append(s, line)
           n == Len(s)
<1>1. n \in Nat /\ t[n + 1] = line /\ \A i \in 1..n : t[i] = s[i]
  BY LenProperties, AppendProperties
<1> HIDE DEF t, n
<1>2. \A k \in 0..n : AlertsIn(t, g, k) = AlertsIn(s, g, k)
                      /\ ErrorsIn(t, g, k) = ErrorsIn(s, g, k)
  BY <1>1 DEF AlertsIn, ErrorsIn
<1>3. n + 1 \notin AlertsIn(s, g, n) /\ n + 1 \notin ErrorsIn(s, g, n)
  BY <1>1 DEF AlertsIn, ErrorsIn
<1>4. AlertsIn(t, g, n + 1) =
        AlertsIn(s, g, n) \cup IF line.by = g /\ IsAlert(line) THEN {n + 1} ELSE {}
  BY <1>1 DEF AlertsIn
<1>5. ErrorsIn(t, g, n + 1) =
        ErrorsIn(s, g, n) \cup IF line.by = g /\ IsError(line) THEN {n + 1} ELSE {}
  BY <1>1 DEF ErrorsIn
<1>6. /\ IsFiniteSet(AlertsIn(s, g, n)) /\ Alerts(s, g, n) \in Nat
      /\ IsFiniteSet(ErrorsIn(s, g, n)) /\ Errors(s, g, n) \in Nat
  BY <1>1, CountFacts
<1>7. Alerts(t, g, n + 1) =
        Alerts(s, g, n) + IF line.by = g /\ IsAlert(line) THEN 1 ELSE 0
  <2>1. CASE line.by = g /\ IsAlert(line)
    BY <1>3, <1>4, <1>6, <2>1, FS_AddElement DEF Alerts
  <2>2. CASE ~ (line.by = g /\ IsAlert(line))
    <3>1. AlertsIn(t, g, n + 1) = AlertsIn(s, g, n)
      BY <1>4, <2>2
    <3> QED BY <1>6, <2>2, <3>1 DEF Alerts
  <2> QED BY <2>1, <2>2
<1>8. Errors(t, g, n + 1) =
        Errors(s, g, n) + IF line.by = g /\ IsError(line) THEN 1 ELSE 0
  <2>1. CASE line.by = g /\ IsError(line)
    BY <1>3, <1>5, <1>6, <2>1, FS_AddElement DEF Errors
  <2>2. CASE ~ (line.by = g /\ IsError(line))
    <3>1. ErrorsIn(t, g, n + 1) = ErrorsIn(s, g, n)
      BY <1>5, <2>2
    <3> QED BY <1>6, <2>2, <3>1 DEF Errors
  <2> QED BY <2>1, <2>2
<1> QED BY <1>2, <1>7, <1>8 DEF Alerts, Errors, t, n

----------------------------------------------------------------------------
\* The invariant.

\* The calls a goroutine is in: none, a message, or an error that waits for its
\* alert.
StackOK(s) ==
    \/ s = <<>>
    \/ \E c \in Calls : s = <<c>> /\ c.msg = "message"
    \/ \E c, d \in Calls :
            /\ s = <<c, d>>
            /\ c.msg = "message" /\ c.level = Error /\ c.at = "output"
            /\ d.msg = "ALERT" /\ d.level = Info

\* The alert is out and the error is not.
Announced(s) == \E c \in Calls : s = <<c>> /\ c.level = Error /\ c.at = "output"

Counted(g) ==
    /\ Alerts(out, g, Len(out)) =
            Errors(out, g, Len(out)) + IF Announced(stack[g]) THEN 1 ELSE 0
    /\ \A n \in 0..Len(out) : Alerts(out, g, n) \in {Errors(out, g, n), Errors(out, g, n) + 1}

LoggerInv ==
    /\ stack \in [Goroutines -> Seq(Calls)]
    /\ out \in Seq(Lines)
    /\ \A g \in Goroutines : StackOK(stack[g]) /\ Counted(g)

LEMMA AnnouncedFacts ==
    ASSUME NEW c \in Calls
    PROVE  /\ ~ Announced(<<>>)
           /\ Announced(<<c>>) <=> c.level = Error /\ c.at = "output"
           /\ \A d \in Calls : ~ Announced(<<c, d>>)
<1>1. \A b \in Calls : <<b>> # <<>> /\ <<b>>[1] = b /\ Len(<<b>>) = 1
  BY OneCall
<1>2. \A d \in Calls : Len(<<c, d>>) = 2
  BY TwoCalls
<1> QED BY <1>1, <1>2 DEF Announced

LEMMA LoggerInit == Init => LoggerInv
<1> SUFFICES ASSUME Init PROVE LoggerInv
  OBVIOUS
<1>1. out = <<>> /\ Len(out) = 0 /\ out \in Seq(Lines)
  BY EmptySeq DEF Init
<1>2. \A g : AlertsIn(out, g, 0) = {} /\ ErrorsIn(out, g, 0) = {}
  BY DEF AlertsIn, ErrorsIn
<1>3. \A g : Alerts(out, g, 0) = 0 /\ Errors(out, g, 0) = 0
  BY <1>2, FS_EmptySet DEF Alerts, Errors
<1>4. ASSUME NEW g \in Goroutines PROVE StackOK(stack[g]) /\ Counted(g)
  <2>1. stack[g] = <<>>
    BY DEF Init
  <2>2. ~ Announced(stack[g])
    BY <2>1, OneCall DEF Announced
  <2> QED BY <1>1, <1>3, <2>1, <2>2 DEF StackOK, Counted
<1>5. stack \in [Goroutines -> Seq(Calls)]
  BY EmptySeq DEF Init
<1> QED BY <1>1, <1>4, <1>5 DEF LoggerInv

----------------------------------------------------------------------------
\* Steps that write nothing.

LEMMA QuietStep ==
    ASSUME LoggerInv, NEW g \in Goroutines, NEW s \in Seq(Calls),
           stack' = [stack EXCEPT ![g] = s], out' = out,
           StackOK(s), Announced(s) <=> Announced(stack[g])
    PROVE  LoggerInv'
<1>1. stack' \in [Goroutines -> Seq(Calls)] /\ out' \in Seq(Lines)
  BY DEF LoggerInv
<1>2. ASSUME NEW h \in Goroutines PROVE StackOK(stack'[h]) /\ Counted(h)'
  <2>1. StackOK(stack[h]) /\ Counted(h)
    BY DEF LoggerInv
  <2>2. stack'[h] = IF h = g THEN s ELSE stack[h]
    BY DEF LoggerInv
  <2>3. StackOK(stack'[h]) /\ (Announced(stack'[h]) <=> Announced(stack[h]))
    BY <2>1, <2>2
  <2> QED BY <2>1, <2>3 DEF Counted
<1> QED BY <1>1, <1>2 DEF LoggerInv

LEMMA LogStep ==
    ASSUME LoggerInv, NEW g \in Goroutines, Log(g)
    PROVE  LoggerInv'
<1>1. PICK l \in Levels : stack' = [stack EXCEPT ![g] = <<Call(l, "message")>>]
  BY DEF Log
<1>2. PICK c \in Calls : c = Call(l, "message")
  BY DEF Call, Calls
<1>3. c.msg = "message" /\ c.at = "write" /\ <<c>> \in Seq(Calls)
  BY <1>2 DEF Call
<1>4. stack[g] = <<>> /\ out' = out /\ stack' = [stack EXCEPT ![g] = <<c>>]
  BY <1>1, <1>2 DEF Log
<1>5. StackOK(<<c>>) /\ ~ Announced(<<c>>) /\ ~ Announced(stack[g])
  BY <1>3, <1>4, AnnouncedFacts DEF StackOK
<1> QED BY <1>3, <1>4, <1>5, QuietStep

\* The call c at another place, and the stacks it is in.
At1(c, step) == [c EXCEPT !.at = step]

LEMMA PlaceFacts ==
    ASSUME NEW c \in Calls, NEW step \in {"write", "handle", "output"}
    PROVE  /\ At1(c, step) \in Calls
           /\ At1(c, step).level = c.level /\ At1(c, step).msg = c.msg
           /\ At1(c, step).at = step
BY DEF Calls, At1

Moved(s, step) == [s EXCEPT ![Len(s)].at = step]

LEMMA OneIsOn ==
    ASSUME NEW g, NEW c \in Calls, stack[g] = <<c>>
    PROVE  /\ Top(g) = c /\ Pop(g) = <<>> /\ stack[g] # <<>>
           /\ \A step : Moved(stack[g], step) = <<At1(c, step)>>
BY OneCall DEF Top, Pop, At1, Moved

LEMMA TwoAreOn ==
    ASSUME NEW g, NEW c \in Calls, NEW d \in Calls, stack[g] = <<c, d>>
    PROVE  /\ Top(g) = d /\ Pop(g) = <<c>> /\ stack[g] # <<>>
           /\ \A step : Moved(stack[g], step) = <<c, At1(d, step)>>
<1>1. /\ Len(<<c, d>>) = 2 /\ <<c, d>>[2] = d /\ <<c, d>> # <<>>
      /\ SubSeq(<<c, d>>, 1, 2 - 1) = <<c>>
  <2>1. 2 - 1 = 1
    OBVIOUS
  <2> QED BY <2>1, TwoCalls
<1>2. Top(g) = d /\ Pop(g) = <<c>> /\ stack[g] # <<>>
  BY <1>1 DEF Top, Pop
<1>3. ASSUME NEW step PROVE Moved(stack[g], step) = <<c, At1(d, step)>>
  <2>1. Moved(stack[g], step) = [<<c, d>> EXCEPT ![2].at = step]
    BY <1>1 DEF Moved
  <2> QED BY <2>1, TwoCalls DEF At1
<1> QED BY <1>2, <1>3

LEMMA WriteStep ==
    ASSUME LoggerInv, NEW g \in Goroutines, Write(g)
    PROVE  LoggerInv'
<1>1. /\ stack[g] # <<>> /\ Top(g).at = "write" /\ out' = out
      /\ stack' = [stack EXCEPT ![g] = IF Enabled(Handler, Top(g).level)
                                       THEN Moved(stack[g], "handle") ELSE Pop(g)]
  BY DEF Write, At, Moved
<1>2. StackOK(stack[g])
  BY DEF LoggerInv
<1>3. ASSUME NEW c \in Calls, stack[g] = <<c>>, c.msg = "message"
      PROVE  LoggerInv'
  <2> DEFINE e == At1(c, "handle")
  <2>1. c.at = "write" /\ Moved(stack[g], "handle") = <<e>> /\ Pop(g) = <<>>
    BY <1>1, <1>3, OneIsOn
  <2>2. e \in Calls /\ e.msg = "message" /\ e.at = "handle"
    BY <1>3, PlaceFacts
  <2> HIDE DEF e
  <2>3. /\ <<e>> \in Seq(Calls) /\ <<>> \in Seq(Calls)
        /\ StackOK(<<e>>) /\ StackOK(<<>>)
    BY <2>2, EmptySeq DEF StackOK
  <2>4. ~ Announced(<<e>>) /\ ~ Announced(<<>>) /\ ~ Announced(stack[g])
    BY <1>3, <2>1, <2>2, AnnouncedFacts
  <2> QED BY <1>1, <2>1, <2>3, <2>4, QuietStep
<1>4. ASSUME NEW c \in Calls, NEW d \in Calls, stack[g] = <<c, d>>,
             c.msg = "message", c.level = Error, c.at = "output",
             d.msg = "ALERT", d.level = Info
      PROVE  LoggerInv'
  <2> DEFINE e == At1(d, "handle")
  <2>1. Moved(stack[g], "handle") = <<c, e>> /\ Enabled(Handler, Top(g).level)
    BY <1>4, TwoAreOn, HandlerFacts
  <2>2. e \in Calls /\ e.msg = "ALERT" /\ e.level = Info
    BY <1>4, PlaceFacts
  <2> HIDE DEF e
  <2>3. <<c, e>> \in Seq(Calls) /\ StackOK(<<c, e>>)
    BY <1>4, <2>2 DEF StackOK
  <2>4. ~ Announced(<<c, e>>) /\ ~ Announced(stack[g])
    BY <1>4, <2>2, AnnouncedFacts
  <2> QED BY <1>1, <2>1, <2>3, <2>4, QuietStep
<1> QED BY <1>1, <1>2, <1>3, <1>4 DEF StackOK

LEMMA HandleStep ==
    ASSUME LoggerInv, NEW g \in Goroutines, Handle(g)
    PROVE  LoggerInv'
<1> DEFINE event == Events(Handler, Top(g).level)
<1>1. /\ stack[g] # <<>> /\ Top(g).at = "handle" /\ out' = out
      /\ stack' = [stack EXCEPT ![g] = IF event = None THEN Moved(stack[g], "output")
                        ELSE Append(Moved(stack[g], "output"), Call(event, "ALERT"))]
  BY DEF Handle, At, Moved
<1>2. StackOK(stack[g])
  BY DEF LoggerInv
<1>3. ASSUME NEW c \in Calls, stack[g] = <<c>>, c.msg = "message"
      PROVE  LoggerInv'
  <2> DEFINE e == At1(c, "output")
  <2>1. /\ c.at = "handle" /\ Moved(stack[g], "output") = <<e>>
        /\ event = IF c.level = Error THEN Info ELSE None
    <3>1. c.level \in Levels
      BY DEF Calls
    <3> QED BY <1>1, <1>3, <3>1, OneIsOn, HandlerFacts
  <2>2. e \in Calls /\ e.msg = "message" /\ e.at = "output" /\ e.level = c.level
    BY <1>3, PlaceFacts
  <2> HIDE DEF e
  <2>3. ~ Announced(stack[g])
    BY <1>3, <2>1, AnnouncedFacts
  <2>4. CASE c.level = Error
    <3>1. PICK d : d = Call(Info, "ALERT")
      OBVIOUS
    <3>2. d \in Calls /\ d.msg = "ALERT" /\ d.level = Info
      BY <3>1 DEF Call, Calls, Levels
    <3>3. Append(<<e>>, d) = <<e, d>> /\ <<e, d>> \in Seq(Calls)
      <4>1. Append(<<e>>, d) = <<e, d>>
        BY <2>2, <3>2, TwoCalls
      <4>2. <<e, d>> \in Seq(Calls)
        BY <2>2, <3>2
      <4> QED BY <4>1, <4>2
    <3>4. event = Info /\ event # None
      BY <2>1, <2>4, NoneAssumption DEF Levels
    <3>5. stack' = [stack EXCEPT ![g] = <<e, d>>]
      BY <1>1, <2>1, <3>1, <3>3, <3>4
    <3>6. StackOK(<<e, d>>) /\ ~ Announced(<<e, d>>)
      BY <2>2, <2>4, <3>2, AnnouncedFacts DEF StackOK
    <3> QED BY <1>1, <2>3, <3>3, <3>5, <3>6, QuietStep
  <2>5. CASE c.level # Error
    <3>1. stack' = [stack EXCEPT ![g] = <<e>>]
      BY <1>1, <2>1, <2>5
    <3>2. <<e>> \in Seq(Calls)
      BY <2>2
    <3>3. StackOK(<<e>>) /\ ~ Announced(<<e>>)
      BY <2>2, <2>5, AnnouncedFacts DEF StackOK
    <3> QED BY <1>1, <2>3, <3>1, <3>2, <3>3, QuietStep
  <2> QED BY <2>4, <2>5
<1>4. ASSUME NEW c \in Calls, NEW d \in Calls, stack[g] = <<c, d>>,
             c.msg = "message", c.level = Error, c.at = "output",
             d.msg = "ALERT", d.level = Info
      PROVE  LoggerInv'
  <2> DEFINE e == At1(d, "output")
  <2>1. Moved(stack[g], "output") = <<c, e>> /\ event = None
    <3>1. Info # Error /\ Info \in Levels
      BY DEF Info, Error, Levels
    <3> QED BY <1>4, <3>1, TwoAreOn, HandlerFacts
  <2>2. e \in Calls /\ e.msg = "ALERT" /\ e.level = Info
    BY <1>4, PlaceFacts
  <2> HIDE DEF e, event
  <2>3. <<c, e>> \in Seq(Calls) /\ StackOK(<<c, e>>)
    BY <1>4, <2>2 DEF StackOK
  <2>4. ~ Announced(<<c, e>>) /\ ~ Announced(stack[g])
    BY <1>4, <2>2, AnnouncedFacts
  <2>5. stack' = [stack EXCEPT ![g] = <<c, e>>]
    BY <1>1, <2>1 DEF event
  <2> QED BY <1>1, <2>3, <2>4, <2>5, QuietStep
<1> QED BY <1>1, <1>2, <1>3, <1>4 DEF StackOK

----------------------------------------------------------------------------
\* The step that writes a line.

LEMMA LineStep ==
    ASSUME LoggerInv, NEW g \in Goroutines, NEW s \in Seq(Calls), NEW line \in Lines,
           line.by = g, out' = Append(out, line),
           stack' = [stack EXCEPT ![g] = s], StackOK(s),
           IsError(line) => ~ IsAlert(line),
           IsAlert(line) => ~ Announced(stack[g]) /\ Announced(s),
           IsError(line) => Announced(stack[g]) /\ ~ Announced(s),
           ~ IsAlert(line) /\ ~ IsError(line) => ~ Announced(stack[g]) /\ ~ Announced(s)
    PROVE  LoggerInv'
<1>1. /\ stack' \in [Goroutines -> Seq(Calls)]
      /\ out \in Seq(Lines) /\ Len(out) \in Nat
      /\ out' \in Seq(Lines) /\ Len(out') = Len(out) + 1
  BY AppendProperties, LenProperties DEF LoggerInv
<1>2. ASSUME NEW h \in Goroutines PROVE StackOK(stack'[h]) /\ Counted(h)'
  <2> DEFINE n == Len(out)
             before == IF Announced(stack[h]) THEN 1 ELSE 0
             after == IF Announced(stack'[h]) THEN 1 ELSE 0
  <2>1. stack'[h] = IF h = g THEN s ELSE stack[h]
    BY DEF LoggerInv
  <2>2. /\ StackOK(stack[h])
        /\ Alerts(out, h, n) = Errors(out, h, n) + before
        /\ \A k \in 0..n : Alerts(out, h, k) \in {Errors(out, h, k), Errors(out, h, k) + 1}
    BY DEF LoggerInv, Counted
  <2>3. /\ \A k \in 0..n : Alerts(out', h, k) = Alerts(out, h, k)
                          /\ Errors(out', h, k) = Errors(out, h, k)
        /\ Alerts(out', h, n + 1) =
                Alerts(out, h, n) + IF line.by = h /\ IsAlert(line) THEN 1 ELSE 0
        /\ Errors(out', h, n + 1) =
                Errors(out, h, n) + IF line.by = h /\ IsError(line) THEN 1 ELSE 0
    BY <1>1, CountLine
  <2>4. Alerts(out, h, n) \in Nat /\ Errors(out, h, n) \in Nat
    BY <1>1, CountFacts
  <2>5. Alerts(out', h, n + 1) = Errors(out', h, n + 1) + after
    <3>1. CASE h # g
      BY <2>1, <2>2, <2>3, <2>4, <3>1
    <3>2. CASE h = g /\ IsAlert(line)
      BY <2>1, <2>2, <2>3, <2>4, <3>2
    <3>3. CASE h = g /\ IsError(line)
      BY <2>1, <2>2, <2>3, <2>4, <3>3
    <3>4. CASE h = g /\ ~ IsAlert(line) /\ ~ IsError(line)
      BY <2>1, <2>2, <2>3, <2>4, <3>4
    <3> QED BY <3>1, <3>2, <3>3, <3>4
  <2>6. ASSUME NEW k \in 0..(n + 1)
        PROVE  Alerts(out', h, k) \in {Errors(out', h, k), Errors(out', h, k) + 1}
    <3>1. CASE k = n + 1
      <4>1. Errors(out', h, n + 1) \in Nat
        BY <2>3, <2>4
      <4> QED BY <2>5, <3>1, <4>1
    <3>2. CASE k \in 0..n
      BY <2>2, <2>3, <3>2
    <3> QED BY <1>1, <3>1, <3>2
  <2>7. StackOK(stack'[h])
    BY <2>1, <2>2
  <2> QED BY <1>1, <2>5, <2>6, <2>7 DEF Counted
<1> QED BY <1>1, <1>2 DEF LoggerInv

LEMMA OutputStep ==
    ASSUME LoggerInv, NEW g \in Goroutines, Output(g)
    PROVE  LoggerInv'
<1> DEFINE line == [by |-> g, level |-> Top(g).level, msg |-> Top(g).msg]
<1>1. /\ Top(g).at = "output" /\ out' = Append(out, line)
      /\ stack' = [stack EXCEPT ![g] = Pop(g)]
  BY DEF Output, At
<1>2. StackOK(stack[g]) /\ stack[g] # <<>>
  BY DEF LoggerInv, Output, At
<1>3. ASSUME NEW c \in Calls
      PROVE  LET l == [by |-> g, level |-> c.level, msg |-> c.msg]
             IN  l \in Lines /\ l.by = g /\ l.level = c.level /\ l.msg = c.msg
  BY DEF Calls, Lines
<1>4. ASSUME NEW c \in Calls, stack[g] = <<c>>, c.msg = "message"
      PROVE  LoggerInv'
  <2>1. Top(g) = c /\ Pop(g) = <<>>
    BY <1>4, OneIsOn
  <2>2. line \in Lines /\ line.by = g /\ line.level = c.level /\ line.msg = c.msg
    BY <1>3, <2>1
  <2> HIDE DEF line
  <2>3. ~ IsAlert(line) /\ (IsError(line) <=> c.level = Error)
    BY <1>4, <2>2 DEF IsAlert, IsError
  <2>4. ~ Announced(<<>>) /\ (Announced(stack[g]) <=> c.level = Error)
    BY <1>1, <1>4, <2>1, AnnouncedFacts
  <2>5. StackOK(<<>>) /\ <<>> \in Seq(Calls)
    BY EmptySeq DEF StackOK
  <2> QED BY <1>1, <2>1, <2>2, <2>3, <2>4, <2>5, LineStep
<1>5. ASSUME NEW c \in Calls, NEW d \in Calls, stack[g] = <<c, d>>,
             c.msg = "message", c.level = Error, c.at = "output",
             d.msg = "ALERT", d.level = Info
      PROVE  LoggerInv'
  <2>1. Top(g) = d /\ Pop(g) = <<c>> /\ <<c>> \in Seq(Calls)
    BY <1>5, TwoAreOn
  <2>2. line \in Lines /\ line.by = g /\ line.level = Info /\ line.msg = "ALERT"
    BY <1>3, <1>5, <2>1
  <2> HIDE DEF line
  <2>3. IsAlert(line) /\ ~ IsError(line)
    BY <2>2 DEF IsAlert, IsError, Info, Error
  <2>4. Announced(<<c>>) /\ ~ Announced(stack[g])
    BY <1>5, AnnouncedFacts
  <2>5. StackOK(<<c>>)
    BY <1>5 DEF StackOK
  <2> QED BY <1>1, <2>1, <2>2, <2>3, <2>4, <2>5, LineStep
<1> QED BY <1>2, <1>4, <1>5 DEF StackOK

LEMMA LoggerNext == LoggerInv /\ [Next]_vars => LoggerInv'
<1>1. LoggerInv /\ UNCHANGED vars => LoggerInv'
  BY DEF vars, LoggerInv, Counted
<1> QED BY <1>1, LogStep, WriteStep, HandleStep, OutputStep DEF Next

LEMMA LoggerInvariant == Spec => []LoggerInv
BY LoggerInit, LoggerNext, PTL DEF Spec

\* Whoever reads an error has read its alert, however many goroutines log: each
\* of them has written an alert for each of its errors, and one more only while
\* the error is on its way (handler.go:45-68).
THEOREM ErrorsAreAnnounced == Spec => []AlertsAnnounceErrors
<1>1. LoggerInv => AlertsAnnounceErrors
  <2> SUFFICES ASSUME LoggerInv, NEW g \in Goroutines, NEW n \in 1..Len(out)
               PROVE  Cardinality(LinesOf(g, n, IsAlert)) \in
                        {Cardinality(LinesOf(g, n, IsError)),
                         Cardinality(LinesOf(g, n, IsError)) + 1}
    BY DEF AlertsAnnounceErrors
  <2>1. /\ LinesOf(g, n, IsAlert) = AlertsIn(out, g, n)
        /\ LinesOf(g, n, IsError) = ErrorsIn(out, g, n)
    BY DEF LinesOf, AlertsIn, ErrorsIn
  <2>2. n \in 0..Len(out)
    BY LenProperties DEF LoggerInv
  <2> QED BY <2>1, <2>2 DEF LoggerInv, Counted, Alerts, Errors
<1> QED BY <1>1, LoggerInvariant, PTL

\* An alert raises no alert, at whatever level the log starts: logging ends
\* (main.go:41-43).
THEOREM LoggingEnds == Spec => []AlertsDoNotNest
<1>1. LoggerInv => AlertsDoNotNest
  <2> SUFFICES ASSUME LoggerInv, NEW g \in Goroutines PROVE Len(stack[g]) <= 2
    BY DEF AlertsDoNotNest
  <2>1. StackOK(stack[g])
    BY DEF LoggerInv
  <2>2. CASE stack[g] = <<>>
    BY <2>2
  <2>3. ASSUME NEW c \in Calls, stack[g] = <<c>> PROVE Len(stack[g]) <= 2
    BY <2>3
  <2>4. ASSUME NEW c \in Calls, NEW d \in Calls, stack[g] = <<c, d>>
        PROVE  Len(stack[g]) <= 2
    BY <2>4
  <2> QED BY <2>1, <2>2, <2>3, <2>4 DEF StackOK
<1> QED BY <1>1, LoggerInvariant, PTL

=============================================================================
