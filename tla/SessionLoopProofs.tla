-------------------------- MODULE SessionLoopProofs --------------------------
(***************************************************************************)
(* Proofs about SessionLoop, for any number of deliveries under way and    *)
(* any limits.  AlarmIsArmed is not inductive: a resumed loop would take   *)
(* over an alarm without a timer, so a paused loop must have none; and the *)
(* type of a retry needs a sleeping wake to have attempts left.            *)
(***************************************************************************)
EXTENDS SessionLoop, TLAPS

\* A record that is as it must be, in a process that is up (u) or not.
Sound(l, u) ==
    /\ l \in Loops
    /\ u /\ Running(l) /\ l.alarm => l.timer
    /\ l.status = "paused" => ~l.alarm
    /\ Running(l) => l.fails < MaxFailures

\* A delivery's record; one that sleeps has attempts left.
SoundCalls(f) ==
    /\ f \in [Call -> Deliveries]
    /\ \A c \in Call : f[c].at = "asleep" => f[c].try < Retries

IInv ==
    /\ Sound(loop, session.up)
    /\ SoundCalls(call)
    /\ session \in Sessions
    /\ used \in [commands : 0..MaxCommands, crashes : 0..MaxCrash]

-----------------------------------------------------------------------------

\* The limits are numbers.
LEMMA Limits == /\ MaxFailures \in Nat /\ MaxFailures > 0
                /\ Retries \in Nat /\ MaxBusy \in Nat
BY LoopConstants

\* A field set to a value of its type keeps the type of the record.
LEMMA Update ==
    ASSUME NEW l \in Loops
    PROVE  /\ \A v \in {"none", "running", "paused", "stopped", "completed"} :
                [l EXCEPT !.status = v] \in Loops
           /\ \A v \in {"none", "budget", "other"} : [l EXCEPT !.why = v] \in Loops
           /\ \A v \in Nat : [l EXCEPT !.turns = v] \in Loops /\ [l EXCEPT !.fails = v] \in Loops
           /\ \A v \in BOOLEAN :
                /\ [l EXCEPT !.alarm = v] \in Loops /\ [l EXCEPT !.timer = v] \in Loops
                /\ [l EXCEPT !.pending = v] \in Loops /\ [l EXCEPT !.active = v] \in Loops
           /\ \A v \in 0..MaxBusy : [l EXCEPT !.defers = v] \in Loops
           /\ \A v \in {"none", "clean", "error"} : [l EXCEPT !.flags = v] \in Loops
BY SMTT(10) DEF Loops

\* So for the session's record.
LEMMA UpdateSession ==
    ASSUME NEW s \in Sessions
    PROVE  /\ \A v \in BOOLEAN :
                /\ [s EXCEPT !.up = v] \in Sessions /\ [s EXCEPT !.alive = v] \in Sessions
                /\ [s EXCEPT !.bg = v] \in Sessions /\ [s EXCEPT !.queued = v] \in Sessions
           /\ \A v \in Call \cup {"none", "user"} : [s EXCEPT !.holder = v] \in Sessions
           /\ \A v \in {"before", "in", "after"} : [s EXCEPT !.phase = v] \in Sessions
BY SMTT(10) DEF Sessions

\* What ends a loop leaves a sound record, whatever it was.
LEMMA EndedSound ==
    ASSUME NEW l \in Loops, NEW u \in BOOLEAN,
           NEW st \in {"paused", "stopped", "completed"}, NEW w \in {"none", "budget", "other"}
    PROVE  Sound(Ended(l, st, w), u)
<1>0. 0 \in 0..MaxBusy
  BY Limits
<1>1. Cancelled(l) \in Loops /\ ~Cancelled(l).alarm
  <2>1. Cancelled(l) \in Loops
    BY <1>0, Update DEF Cancelled
  <2>2. ~Cancelled(l).alarm
    BY DEF Cancelled, Loops
  <2> QED BY <2>1, <2>2
<1> DEFINE m == Unmarked(Cancelled(l))
<1>2. m \in Loops /\ ~m.alarm
  <2>1. m \in Loops
    BY <1>1, Update DEF Unmarked
  <2>2. ~m.alarm
    BY <1>1 DEF Unmarked, Loops
  <2> QED BY <2>1, <2>2
<1>3. Ended(l, st, w) = [m EXCEPT !.status = st, !.why = w]
  BY DEF Ended
<1> HIDE DEF m
<1>4. [m EXCEPT !.status = st, !.why = w] \in Loops
  BY <1>2, Update
<1>5. /\ ~[m EXCEPT !.status = st, !.why = w].alarm
      /\ [m EXCEPT !.status = st, !.why = w].status = st
  BY <1>2 DEF Loops
<1> QED BY <1>3, <1>4, <1>5 DEF Sound, Running

\* A new alarm leaves a sound record of a loop that is not paused.
LEMMA ScheduledSound ==
    ASSUME NEW l, NEW u \in BOOLEAN, Sound(l, u), l.status # "paused"
    PROVE  Sound(Scheduled(l), u)
<1>1. l \in Loops /\ 0 \in 0..MaxBusy
  BY Limits DEF Sound
<1>2. Scheduled(l) \in Loops
  BY <1>1, Update DEF Scheduled
<1>3. /\ Scheduled(l).timer /\ Scheduled(l).status = l.status
      /\ Scheduled(l).fails = l.fails
  BY <1>1 DEF Scheduled, Loops
<1> QED BY <1>2, <1>3 DEF Sound, Running

\* A busy answer to the wake of a running loop leaves a sound record.
LEMMA DeferredSound ==
    ASSUME NEW l, NEW u \in BOOLEAN, Sound(l, u), Running(l)
    PROVE  Sound(Deferred(l), u)
<1>1. CASE l.defers + 1 > MaxBusy
  BY <1>1, EndedSound DEF Deferred, Sound
<1>2. CASE ~(l.defers + 1 > MaxBusy)
  <2> DEFINE m == [l EXCEPT !.defers = l.defers + 1, !.alarm = TRUE, !.timer = TRUE]
  <2>1. l \in Loops /\ l.defers + 1 \in 0..MaxBusy
    BY <1>2, Limits DEF Sound, Loops
  <2>2. m \in Loops
    BY <2>1, Update
  <2>3. m.timer /\ m.status = l.status /\ m.fails = l.fails
    BY <2>1 DEF Loops
  <2>4. Deferred(l) = m
    BY <1>2 DEF Deferred
  <2> HIDE DEF m
  <2> QED BY <2>2, <2>3, <2>4 DEF Sound, Running
<1> QED BY <1>1, <1>2

\* The pending mark takes no part in soundness.
LEMMA PendingSound ==
    ASSUME NEW l, NEW u \in BOOLEAN, Sound(l, u), NEW p \in BOOLEAN
    PROVE  Sound([l EXCEPT !.pending = p], u) /\ [l EXCEPT !.pending = p].status = l.status
<1> DEFINE m == [l EXCEPT !.pending = p]
<1>1. l \in Loops
  BY DEF Sound
<1>2. m \in Loops
  BY <1>1, Update
<1>3. /\ m.status = l.status /\ m.fails = l.fails
      /\ m.alarm = l.alarm /\ m.timer = l.timer
  BY <1>1 DEF Loops
<1> HIDE DEF m
<1>4. Sound(m, u)
  BY <1>2, <1>3 DEF Sound, Running
<1> QED BY <1>3, <1>4 DEF m

\* A delivery put into any state but the sleep keeps the deliveries sound.
LEMMA CallSet ==
    ASSUME SoundCalls(call), NEW c \in Call, NEW at \in {"idle", "sending", "running"},
           NEW by \in {"command", "wake"}, NEW n \in 0..Retries
    PROVE  SoundCalls([call EXCEPT ![c] = [at |-> at, by |-> by, try |-> n]])
<1> DEFINE r == [at |-> at, by |-> by, try |-> n]
<1>1. r \in Deliveries /\ r.at # "asleep"
  BY DEF Deliveries
<1> HIDE DEF r
<1>2. SoundCalls([call EXCEPT ![c] = r])
  BY <1>1 DEF SoundCalls
<1> QED BY <1>2 DEF r

\* So does a delivery that is over.
LEMMA IdleSet ==
    ASSUME SoundCalls(call), NEW c \in Call
    PROVE  SoundCalls([call EXCEPT ![c] = Idle])
BY CallSet, Limits DEF Idle

\* A failed attempt leaves a sound record and sound deliveries.
LEMMA MissedSound ==
    ASSUME NEW l, NEW u \in BOOLEAN, Sound(l, u), SoundCalls(call),
           NEW c \in Call, NEW n \in 0..Retries, Missed(l, c, n)
    PROVE  Sound(loop', u) /\ SoundCalls(call')
<1>1. CASE n < Retries
  BY <1>1, Limits, SMTT(30) DEF Missed, SoundCalls, Deliveries
<1>2. CASE ~(n < Retries)
  <2>1. loop' = Ended(l, "paused", "other") /\ call' = [call EXCEPT ![c] = Idle]
    BY <1>2 DEF Missed
  <2>2. Sound(loop', u)
    BY <2>1, EndedSound DEF Sound
  <2>3. SoundCalls(call')
    BY <2>1, Limits, SMTT(30) DEF SoundCalls, Deliveries, Idle
  <2> QED BY <2>2, <2>3
<1> QED BY <1>1, <1>2

\* So does a delivery that throws.
LEMMA ThrownSound ==
    ASSUME NEW l, NEW u \in BOOLEAN, Sound(l, u), SoundCalls(call),
           NEW c \in Call, NEW by \in {"command", "wake"}, NEW n \in 0..Retries,
           Thrown(l, c, by, n)
    PROVE  Sound(loop', u) /\ SoundCalls(call')
<1> DEFINE m == [l EXCEPT !.pending = FALSE]
<1>1. Sound(m, u)
  BY PendingSound
<1>2. CASE by = "wake"
  BY <1>1, <1>2, MissedSound DEF Thrown
<1>3. CASE by # "wake"
  <2>1. loop' = m /\ call' = [call EXCEPT ![c] = Idle]
    BY <1>3 DEF Thrown
  <2>2. SoundCalls(call')
    BY <2>1, Limits, SMTT(30) DEF SoundCalls, Deliveries, Idle
  <2> QED BY <1>1, <2>1, <2>2
<1> QED BY <1>2, <1>3

\* The delivery of a message to a running loop, by each of its outcomes.
LEMMA InjectSound ==
    ASSUME NEW l, NEW u \in BOOLEAN, Sound(l, u), Running(l), SoundCalls(call),
           session \in Sessions, u = session.up,
           NEW c \in Call, NEW by \in {"command", "wake"}, NEW n \in 0..Retries,
           Inject(l, c, by, n)
    PROVE  Sound(loop', u) /\ SoundCalls(call') /\ session' \in Sessions /\ session'.up = u
<1> DEFINE m(b) == [l EXCEPT !.pending = b]
<1>0. \A b \in BOOLEAN : Sound(m(b), u) /\ Running(m(b))
  BY PendingSound DEF Running
<1>1. SoundCalls([call EXCEPT ![c] = Idle])
  BY CallSet, Limits DEF Idle
<1>2. CASE UNCHANGED session /\ Thrown(l, c, by, n)
  BY <1>2, ThrownSound
<1>3. CASE UNCHANGED session /\ loop' = Ended(l, "stopped", "other")
                             /\ call' = [call EXCEPT ![c] = Idle]
  BY <1>3, <1>1, EndedSound DEF Sound
<1>4. CASE /\ UNCHANGED session /\ call' = [call EXCEPT ![c] = Idle]
           /\ loop' = IF by = "wake" THEN Deferred(m(FALSE)) ELSE m(FALSE)
  <2>1. Sound(Deferred(m(FALSE)), u)
    BY <1>0, DeferredSound
  <2> QED BY <1>4, <1>0, <1>1, <2>1
<1>5. CASE /\ loop' = m(TRUE)
           /\ call' = [call EXCEPT ![c] = [at |-> "running", by |-> by, try |-> n]]
           /\ session' = [session EXCEPT !.holder = c, !.phase = "before"]
  <2>1. session' \in Sessions /\ session'.up = u
    <3>1. session' \in Sessions
      BY <1>5, UpdateSession
    <3>2. session'.up = u
      BY <1>5 DEF Sessions
    <3> QED BY <3>1, <3>2
  <2>2. SoundCalls(call')
    BY <1>5, CallSet
  <2> QED BY <1>5, <1>0, <2>1, <2>2
<1>6. CASE /\ loop' = m(TRUE) /\ UNCHANGED session
           /\ call' = [call EXCEPT ![c] = [at |-> "sending", by |-> by, try |-> n]]
  BY <1>6, <1>0, CallSet
<1> QED BY <1>2, <1>3, <1>4, <1>5, <1>6 DEF Inject

\* The attempt of a wake.
LEMMA WakeSound ==
    ASSUME NEW l, Sound(l, session.up), SoundCalls(call), session \in Sessions,
           NEW c \in Call, NEW n \in 0..Retries, Wake(l, c, n)
    PROVE  /\ Sound(loop', session'.up) /\ SoundCalls(call') /\ session' \in Sessions
<1>0. session.up \in BOOLEAN
  BY DEF Sessions
<1>1. CASE Running(l)
  BY <1>0, <1>1, InjectSound DEF Wake
<1>2. CASE ~Running(l)
  BY <1>0, <1>2, MissedSound DEF Wake
<1> QED BY <1>1, <1>2

\* The counters of the bounds are all Asked changes.
LEMMA AskedBounds ==
    ASSUME IInv, Asked
    PROVE  session.up /\ used' \in [commands : 0..MaxCommands, crashes : 0..MaxCrash]
BY LoopConstants, SMTT(30) DEF IInv, Asked

-----------------------------------------------------------------------------

\* A process that starts, with an empty store or a running loop in it, is sound.
THEOREM InitSound == Init => IInv
<1> SUFFICES ASSUME Init PROVE IInv
  OBVIOUS
<1>1. NoLoop \in Loops
  BY Limits DEF NoLoop, Loops
<1>2. loop \in Loops /\ loop.status # "paused" /\ loop.fails = 0
  <2>1. CASE loop = NoLoop
    BY <1>1, <2>1 DEF NoLoop
  <2>2. CASE loop = [NoLoop EXCEPT !.status = "running", !.alarm = TRUE]
    <3>1. loop \in Loops
      BY <1>1, <2>2, Update
    <3> QED BY <2>2, <3>1 DEF NoLoop
  <2> QED BY <2>1, <2>2 DEF Init
<1>3. session.up = FALSE /\ session \in Sessions
  BY DEF Init, Sessions
<1>4. Sound(loop, session.up)
  BY <1>2, <1>3, Limits DEF Sound, Running
<1>5. SoundCalls(call)
  BY Limits DEF Init, SoundCalls, Deliveries, Idle
<1>6. used \in [commands : 0..MaxCommands, crashes : 0..MaxCrash]
  BY LoopConstants DEF Init
<1> QED BY <1>3, <1>4, <1>5, <1>6 DEF IInv

\* Every step keeps the invariant, one action at a time.
THEOREM StepSound == IInv /\ [Next]_vars => IInv'
<1> SUFFICES ASSUME IInv, [Next]_vars PROVE IInv'
  OBVIOUS
<1> USE DEF IInv
<1>0. session.up \in BOOLEAN /\ loop \in Loops /\ 0 \in 0..MaxBusy
  BY Limits DEF Sessions, Sound
<1>1. ASSUME NEW c \in Call, Start(c) PROVE IInv'
  <2> DEFINE l == [loop EXCEPT !.status = "running", !.why = "none", !.turns = 0, !.fails = 0,
                               !.alarm = FALSE]
  <2>1. l \in Loops
    BY <1>0, Update
  <2>2. l.status = "running" /\ l.fails = 0 /\ ~l.alarm
    BY <1>0 DEF Loops
  <2>3. Inject(l, c, "command", 0) /\ Asked
    BY <1>1 DEF Start
  <2> HIDE DEF l
  <2>4. Sound(l, session.up) /\ Running(l)
    BY <2>1, <2>2, Limits DEF Sound, Running
  <2>5. Sound(loop', session.up) /\ SoundCalls(call') /\ session' \in Sessions /\ session'.up = session.up
    BY <1>0, <2>3, <2>4, InjectSound, Limits
  <2> QED BY <2>3, <2>5, AskedBounds
<1>2. ASSUME NEW c \in Call, Resume(c) PROVE IInv'
  <2> DEFINE t == IF loop.why = "budget" THEN 0 ELSE loop.turns
             l == [loop EXCEPT !.status = "running", !.why = "none", !.fails = 0, !.turns = t]
  <2>1. t \in Nat
    BY <1>0 DEF Loops
  <2> HIDE DEF t
  <2>2. l \in Loops
    BY <1>0, <2>1, Update
  <2>3. l.status = "running" /\ l.fails = 0 /\ l.alarm = loop.alarm
    BY <1>0 DEF Loops
  <2>4. Inject(l, c, "command", 0) /\ Asked /\ ~loop.alarm
    BY <1>2 DEF Resume, Sound, t
  <2> HIDE DEF l
  <2>5. Sound(l, session.up) /\ Running(l)
    BY <2>2, <2>3, <2>4, Limits DEF Sound, Running
  <2>6. Sound(loop', session.up) /\ SoundCalls(call') /\ session' \in Sessions /\ session'.up = session.up
    BY <1>0, <2>4, <2>5, InjectSound, Limits
  <2> QED BY <2>4, <2>6, AskedBounds
<1>3. ASSUME NEW c \in Call, Fire(c) PROVE IInv'
  <2>1. CASE Running(loop) /\ loop.alarm
    <3> DEFINE l == [loop EXCEPT !.timer = FALSE, !.alarm = FALSE]
    <3>1. l \in Loops
      BY <1>0, Update
    <3>2. l.status = loop.status /\ l.fails = loop.fails /\ ~l.alarm
      BY <1>0 DEF Loops
    <3>3. Wake(l, c, 0) /\ UNCHANGED used
      BY <1>3, <2>1 DEF Fire
    <3> HIDE DEF l
    <3>4. Sound(l, session.up)
      BY <3>1, <3>2, <2>1 DEF Sound, Running
    <3> QED BY <3>3, <3>4, WakeSound, Limits
  <2>2. CASE ~(Running(loop) /\ loop.alarm)
    <3> DEFINE l == [loop EXCEPT !.timer = FALSE]
    <3>1. loop' = l /\ UNCHANGED <<call, session, used>>
      BY <1>3, <2>2 DEF Fire
    <3>2. l \in Loops
      BY <1>0, Update
    <3>3. l.status = loop.status /\ l.fails = loop.fails /\ l.alarm = loop.alarm
      BY <1>0 DEF Loops
    <3> HIDE DEF l
    <3>4. Sound(l, session.up)
      BY <3>2, <3>3, <2>2 DEF Sound, Running
    <3> QED BY <3>1, <3>4
  <2> QED BY <2>1, <2>2
<1>4. ASSUME NEW c \in Call, Retry(c) PROVE IInv'
  <2>1. call[c].try + 1 \in 0..Retries
    BY <1>4, Limits, SMTT(30) DEF Retry, SoundCalls, Deliveries
  <2>2. Wake(loop, c, call[c].try + 1) /\ UNCHANGED used
    BY <1>4 DEF Retry
  <2> QED BY <2>1, <2>2, WakeSound
<1>5. ASSUME NEW c \in Call, Send(c) PROVE IInv'
  <2>0. call[c].by \in {"command", "wake"} /\ call[c].try \in 0..Retries /\ UNCHANGED used
    BY <1>5 DEF Send, SoundCalls, Deliveries
  <2>1. CASE Thrown(loop, c, call[c].by, call[c].try) /\ UNCHANGED session
    BY <1>0, <2>0, <2>1, ThrownSound
  <2>2. CASE /\ loop' = [loop EXCEPT !.pending = FALSE, !.active = TRUE,
                                     !.defers = IF call[c].by = "wake" THEN 0 ELSE @]
             /\ call' = [call EXCEPT ![c] = Idle]
             /\ session' = [session EXCEPT !.queued = TRUE]
    <3> DEFINE d == IF call[c].by = "wake" THEN 0 ELSE loop.defers
               l == [loop EXCEPT !.pending = FALSE, !.active = TRUE, !.defers = d]
    <3>1. d \in 0..MaxBusy
      BY <1>0 DEF Loops
    <3> HIDE DEF d
    <3>2. l \in Loops
      BY <1>0, <3>1, Update
    <3>3. /\ l.status = loop.status /\ l.fails = loop.fails
          /\ l.alarm = loop.alarm /\ l.timer = loop.timer
      BY <1>0 DEF Loops
    <3>4. loop' = l
      BY <2>2 DEF d
    <3> HIDE DEF l
    <3>5. Sound(l, session.up)
      BY <3>2, <3>3 DEF Sound, Running
    <3>6. session' \in Sessions /\ session'.up = session.up
      <4>1. session' \in Sessions
        BY <2>2, UpdateSession
      <4>2. session'.up = session.up
        BY <2>2 DEF Sessions
      <4> QED BY <4>1, <4>2
    <3>7. SoundCalls(call')
      BY <2>2, IdleSet
    <3> QED BY <2>0, <3>4, <3>5, <3>6, <3>7
  <2>3. CASE /\ call' = [call EXCEPT ![c].at = "running"]
             /\ session' = [session EXCEPT !.holder = c, !.phase = "before"]
             /\ UNCHANGED loop
    <3>1. session' \in Sessions /\ session'.up = session.up
      <4>1. session' \in Sessions
        BY <2>3, UpdateSession
      <4>2. session'.up = session.up
        BY <2>3 DEF Sessions
      <4> QED BY <4>1, <4>2
    <3>2. SoundCalls(call')
      BY <2>3, SMTT(30) DEF SoundCalls, Deliveries
    <3> QED BY <2>0, <2>3, <3>1, <3>2
  <2> QED BY <1>5, <2>1, <2>2, <2>3 DEF Send
<1>6. ASSUME NEW c \in Call, RunEnds(c) PROVE IInv'
  <2>0. call[c].by \in {"command", "wake"} /\ call[c].try \in 0..Retries /\ UNCHANGED used
    BY <1>6 DEF RunEnds, SoundCalls, Deliveries
  <2>1. session' \in Sessions /\ session'.up = session.up
    <3>1. session' \in Sessions
      BY <1>6, UpdateSession DEF RunEnds
    <3>2. session'.up = session.up
      BY <1>6 DEF RunEnds, Sessions
    <3> QED BY <3>1, <3>2
  <2>2. CASE Thrown(loop, c, call[c].by, call[c].try)
    BY <1>0, <2>0, <2>1, <2>2, ThrownSound
  <2>3. CASE /\ loop' = [loop EXCEPT !.defers = IF call[c].by = "wake" THEN 0 ELSE @]
             /\ call' = [call EXCEPT ![c] = Idle]
    <3> DEFINE d == IF call[c].by = "wake" THEN 0 ELSE loop.defers
               l == [loop EXCEPT !.defers = d]
    <3>1. d \in 0..MaxBusy
      BY <1>0 DEF Loops
    <3> HIDE DEF d
    <3>2. l \in Loops
      BY <1>0, <3>1, Update
    <3>3. /\ l.status = loop.status /\ l.fails = loop.fails
          /\ l.alarm = loop.alarm /\ l.timer = loop.timer
      BY <1>0 DEF Loops
    <3>4. loop' = l
      BY <2>3 DEF d
    <3> HIDE DEF l
    <3>5. Sound(l, session.up)
      BY <3>2, <3>3 DEF Sound, Running
    <3>6. SoundCalls(call')
      BY <2>3, IdleSet
    <3> QED BY <2>0, <2>1, <3>4, <3>5, <3>6
  <2> QED BY <1>6, <2>2, <2>3 DEF RunEnds
<1>7. CASE Stop
  BY <1>7, <1>0, EndedSound, AskedBounds DEF Stop
<1>8. CASE Pause
  BY <1>8, <1>0, EndedSound, AskedBounds DEF Pause
<1>9. CASE ToolSchedule
  BY <1>9, <1>0, ScheduledSound DEF ToolSchedule, Running
<1>10. CASE ToolComplete
  <2>1. loop.why \in {"none", "budget", "other"}
    BY <1>0 DEF Loops
  <2> QED BY <1>10, <1>0, <2>1, EndedSound DEF ToolComplete
<1>11. CASE OtherRun \/ OtherRunEnds \/ WorkBegins \/ WorkEnds \/ Reset
  <2>1. session' \in Sessions /\ session'.up = session.up /\ UNCHANGED <<loop, call, used>>
    <3>1. session' \in Sessions /\ UNCHANGED <<loop, call, used>>
      BY <1>11, UpdateSession DEF OtherRun, OtherRunEnds, WorkBegins, WorkEnds, Reset
    <3>2. session'.up = session.up
      BY <1>11 DEF OtherRun, OtherRunEnds, WorkBegins, WorkEnds, Reset, Sessions
    <3> QED BY <3>1, <3>2
  <2> QED BY <2>1
<1>12. CASE TurnStart
  <2>1. session' \in Sessions /\ session'.up = session.up /\ UNCHANGED <<call, used>>
    <3>1. session' \in Sessions /\ UNCHANGED <<call, used>>
      BY <1>12, UpdateSession DEF TurnStart
    <3>2. session'.up = session.up
      BY <1>12 DEF TurnStart, Sessions
    <3> QED BY <3>1, <3>2
  <2>2. CASE loop' = loop
    BY <2>1, <2>2
  <2>3. CASE loop' = [loop EXCEPT !.flags = "clean", !.pending = FALSE,
                                  !.active = loop.active \/ loop.pending]
    <3> DEFINE a == loop.active \/ loop.pending
               l == [loop EXCEPT !.flags = "clean", !.pending = FALSE, !.active = a]
    <3>1. a \in BOOLEAN
      OBVIOUS
    <3> HIDE DEF a
    <3>2. l \in Loops
      BY <1>0, <3>1, Update
    <3>3. /\ l.status = loop.status /\ l.fails = loop.fails
          /\ l.alarm = loop.alarm /\ l.timer = loop.timer
      BY <1>0 DEF Loops
    <3>4. loop' = l
      BY <2>3 DEF a
    <3> HIDE DEF l
    <3>5. Sound(l, session.up)
      BY <3>2, <3>3 DEF Sound, Running
    <3> QED BY <2>1, <3>4, <3>5
  <2> QED BY <1>12, <2>2, <2>3 DEF TurnStart
<1>13. CASE MessageError
  <2> DEFINE l == [loop EXCEPT !.flags = "error"]
  <2>1. loop' = l /\ UNCHANGED <<call, session, used>>
    BY <1>13 DEF MessageError
  <2>2. l \in Loops
    BY <1>0, Update
  <2>3. /\ l.status = loop.status /\ l.fails = loop.fails
        /\ l.alarm = loop.alarm /\ l.timer = loop.timer
    BY <1>0 DEF Loops
  <2> HIDE DEF l
  <2>4. Sound(l, session.up)
    BY <2>2, <2>3 DEF Sound, Running
  <2> QED BY <2>1, <2>4
<1>14. CASE TurnEnd
  <2>1. session' \in Sessions /\ session'.up = session.up /\ UNCHANGED <<call, used>>
    <3>1. session' \in Sessions /\ UNCHANGED <<call, used>>
      BY <1>14, UpdateSession DEF TurnEnd
    <3>2. session'.up = session.up
      BY <1>14 DEF TurnEnd, Sessions
    <3> QED BY <3>1, <3>2
  <2>2. CASE ~Running(loop)
    <3> DEFINE l == [loop EXCEPT !.flags = "none", !.active = FALSE]
    <3>1. loop' = l
      BY <1>14, <2>2 DEF TurnEnd
    <3>2. l \in Loops
      BY <1>0, Update
    <3>3. l.status = loop.status /\ l.alarm = loop.alarm
      BY <1>0 DEF Loops
    <3> HIDE DEF l
    <3>4. Sound(l, session.up)
      BY <2>2, <3>2, <3>3 DEF Sound, Running
    <3> QED BY <2>1, <3>1, <3>4
  <2>3. CASE Running(loop)
    <3>1. PICK ok \in BOOLEAN, mid \in BOOLEAN :
            loop' = Guarded([Counted(loop, ok) EXCEPT !.flags = "none", !.active = FALSE], mid)
      BY <1>14, <2>3, Zenon DEF TurnEnd
    <3> DEFINE n == Counted(loop, ok)
               m == [n EXCEPT !.flags = "none", !.active = FALSE]
    <3>2. /\ n \in Loops /\ n.status = "running"
          /\ n.alarm = loop.alarm /\ n.timer = loop.timer
      <4>1. CASE ~loop.active
        BY <1>0, <2>3, <4>1 DEF Counted, Running
      <4>2. CASE loop.active
        <5> DEFINE f == IF ok THEN 0 ELSE loop.fails + 1
                   r == [loop EXCEPT !.turns = loop.turns + 1, !.fails = f]
        <5>1. f \in Nat /\ loop.turns + 1 \in Nat
          BY <1>0 DEF Loops
        <5>2. n = r
          BY <4>2 DEF Counted
        <5> HIDE DEF f
        <5>3. r \in Loops
          BY <1>0, <5>1, Update
        <5>4. /\ r.status = loop.status
              /\ r.alarm = loop.alarm /\ r.timer = loop.timer
          BY <1>0 DEF Loops
        <5> HIDE DEF r, n
        <5> QED BY <2>3, <5>2, <5>3, <5>4 DEF Running
      <4> QED BY <4>1, <4>2
    <3> HIDE DEF n
    <3>3. m \in Loops
      BY <3>2, Update
    <3>4. /\ m.status = "running" /\ m.fails = n.fails
          /\ m.alarm = n.alarm /\ m.timer = n.timer
      BY <3>2 DEF Loops
    <3>5. loop' = Guarded(m, mid)
      BY <3>1 DEF n
    <3> HIDE DEF m
    <3>6. CASE m.turns >= MaxTurns \/ m.fails >= MaxFailures
      <4>1. loop' = Ended(m, "paused", "budget") \/ loop' = Ended(m, "paused", "other")
        BY <3>5, <3>6 DEF Guarded
      <4> QED BY <1>0, <2>1, <3>3, <4>1, EndedSound
    <3>7. CASE ~(m.turns >= MaxTurns \/ m.fails >= MaxFailures)
      <4>1. m.fails < MaxFailures
        BY <3>3, <3>7, Limits, SMTT(30) DEF Loops
      <4>2. Sound(m, session.up)
        BY <2>3, <3>2, <3>3, <3>4, <4>1 DEF Sound, Running
      <4>3. loop' = m \/ loop' = Scheduled(m)
        BY <3>5, <3>7 DEF Guarded
      <4> QED BY <1>0, <2>1, <3>4, <4>2, <4>3, ScheduledSound
    <3> QED BY <3>6, <3>7
  <2> QED BY <2>2, <2>3
<1>15. CASE Crash
  <2>1. session' \in Sessions /\ session'.up = FALSE
    <3>1. session' \in Sessions
      <4>1. session.bg \in BOOLEAN
        BY DEF Sessions
      <4>2. PICK b \in BOOLEAN :
              session' = [session EXCEPT !.up = FALSE, !.bg = b, !.holder = "none",
                                         !.phase = "before", !.queued = FALSE]
        BY <1>15, <4>1 DEF Crash
      <4> QED BY <4>2, UpdateSession
    <3>2. session'.up = FALSE
      BY <1>15 DEF Crash, Sessions
    <3> QED BY <3>1, <3>2
  <2>2. used' \in [commands : 0..MaxCommands, crashes : 0..MaxCrash]
    BY <1>15, LoopConstants, SMTT(30) DEF Crash
  <2>3. SoundCalls(call')
    BY <1>15, Limits DEF Crash, SoundCalls, Deliveries, Idle
  <2> DEFINE m == Unmarked(loop)
             l == [m EXCEPT !.timer = FALSE, !.defers = 0]
  <2>4. loop' = l
    BY <1>15 DEF Crash
  <2>5. m \in Loops
    BY <1>0, Update DEF Unmarked
  <2>6. m.status = loop.status /\ m.fails = loop.fails /\ m.alarm = loop.alarm
    BY <1>0 DEF Unmarked, Loops
  <2> HIDE DEF m
  <2>7. l \in Loops
    BY <1>0, <2>5, Update
  <2>8. l.status = m.status /\ l.fails = m.fails /\ l.alarm = m.alarm
    BY <2>5 DEF Loops
  <2> HIDE DEF l
  <2>9. Sound(loop', session'.up)
    BY <2>1, <2>4, <2>6, <2>7, <2>8 DEF Sound, Running
  <2> QED BY <2>1, <2>2, <2>3, <2>9
<1>16. CASE Boot
  <2>1. session' \in Sessions /\ session'.up = TRUE /\ UNCHANGED <<call, used>>
    <3>1. session' \in Sessions /\ UNCHANGED <<call, used>>
      BY <1>16, UpdateSession DEF Boot
    <3>2. session'.up = TRUE
      BY <1>16 DEF Boot, Sessions
    <3> QED BY <3>1, <3>2
  <2>2. CASE ~Running(loop)
    BY <1>16, <2>1, <2>2 DEF Boot, Sound
  <2>3. CASE Running(loop) /\ ~session.alive
    <3> DEFINE l == [loop EXCEPT !.status = "stopped", !.why = "other"]
    <3>1. loop' = l
      BY <1>16, <2>3 DEF Boot
    <3>2. l \in Loops
      BY <1>0, Update
    <3>3. l.status = "stopped"
      BY <1>0 DEF Loops
    <3> HIDE DEF l
    <3> QED BY <2>1, <3>1, <3>2, <3>3 DEF Sound, Running
  <2>4. CASE Running(loop) /\ session.alive /\ loop.alarm
    <3> DEFINE l == [loop EXCEPT !.timer = TRUE]
    <3>1. loop' = l
      BY <1>16, <2>4 DEF Boot
    <3>2. l \in Loops
      BY <1>0, Update
    <3>3. l.status = loop.status /\ l.fails = loop.fails /\ l.timer
      BY <1>0 DEF Loops
    <3> HIDE DEF l
    <3> QED BY <2>1, <2>4, <3>1, <3>2, <3>3 DEF Sound, Running
  <2>5. CASE Running(loop) /\ session.alive /\ ~loop.alarm
    <3>1. loop' = Scheduled(loop)
      BY <1>16, <2>5 DEF Boot
    <3>2. Sound(loop, TRUE) /\ loop.status # "paused"
      BY <2>5 DEF Sound, Running
    <3> QED BY <2>1, <3>1, <3>2, ScheduledSound
  <2> QED BY <2>2, <2>3, <2>4, <2>5
<1>17. CASE UNCHANGED vars
  BY <1>17 DEF vars
<1> QED
  BY <1>1, <1>2, <1>3, <1>4, <1>5, <1>6, <1>7, <1>8, <1>9, <1>10, <1>11, <1>12, <1>13,
     <1>14, <1>15, <1>16, <1>17 DEF Next, Deliver

\* The invariant gives the types and the two claims.
LEMMA SoundClaims == IInv => TypeOK /\ AlarmIsArmed /\ FailuresBelowLimit
BY DEF IInv, Sound, SoundCalls, TypeOK, AlarmIsArmed, FailuresBelowLimit

\* The types of the loop, its deliveries and its session are kept by every step.
THEOREM TypeCorrect == Spec => []TypeOK
<1>1. Spec => []IInv
  BY InitSound, StepSound, PTL DEF Spec
<1> QED BY <1>1, SoundClaims, PTL

\* The slot of a running loop always has its timer, so the check at a turn's end may trust
\* it (loop-controller.ts:220), for any limits, commands, deliveries and crashes.
THEOREM SlotIsArmed == Spec => []AlarmIsArmed
<1>1. Spec => []IInv
  BY InitSound, StepSound, PTL DEF Spec
<1> QED BY <1>1, SoundClaims, PTL

\* No loop runs with its failures at the limit (loop-controller.ts:212).
THEOREM FailuresBounded == Spec => []FailuresBelowLimit
<1>1. Spec => []IInv
  BY InitSound, StepSound, PTL DEF Spec
<1> QED BY <1>1, SoundClaims, PTL

-----------------------------------------------------------------------------
(* Silence.  Each action either leaves something that will end in a turn,  *)
(* or is one of the four causes, or finds the loop silent already.  For    *)
(* the last, the run that holds the session must be that of a delivery     *)
(* that waits for it, and for nothing else.                                *)

HolderRuns == session.holder \in Call => call[session.holder].at = "running"

\* A loop that is not running, or that has its alarm, or that has work, a queued message
\* or a run under way, is not silent.
LEMMA NotSilent ==
    ASSUME \/ ~Running(loop') \/ loop'.alarm \/ session'.bg \/ session'.queued
           \/ session'.holder = "user" /\ session'.phase # "after"
           \/ \E c \in Call : \/ call'[c].at \in {"sending", "asleep"}
                              \/ session'.holder = c /\ session'.phase # "after"
    PROVE  ~Silent'
BY DEF Silent, Expected, Running

\* Silence looks at the status and the alarm of the record only.
LEMMA SilentBefore ==
    ASSUME loop'.status = loop.status, loop'.alarm = loop.alarm,
           session' = session, call' = call, Silent'
    PROVE  Silent
BY DEF Silent, Expected, Running

\* What ends a loop leaves it not running.
LEMMA EndedStops ==
    ASSUME NEW l \in Loops, NEW st \in {"paused", "stopped", "completed"},
           NEW w \in {"none", "budget", "other"}
    PROVE  ~Running(Ended(l, st, w))
<1> DEFINE m == Unmarked(Cancelled(l))
<1>0. 0 \in 0..MaxBusy
  BY Limits
<1>1. Cancelled(l) \in Loops
  BY <1>0, Update DEF Cancelled
<1>2. m \in Loops
  BY <1>1, Update DEF Unmarked
<1>3. Ended(l, st, w) = [m EXCEPT !.status = st, !.why = w]
  BY DEF Ended
<1> HIDE DEF m
<1>4. [m EXCEPT !.status = st, !.why = w].status = st
  BY <1>2 DEF Loops
<1> QED BY <1>3, <1>4 DEF Running

\* A wake that failed is tried again, or its loop is paused.
LEMMA MissedNotSilent ==
    ASSUME NEW l \in Loops, call \in [Call -> Deliveries],
           NEW c \in Call, NEW n, Missed(l, c, n)
    PROVE  ~Silent'
<1>1. CASE n < Retries
  <2>1. call'[c].at = "asleep"
    BY <1>1 DEF Missed
  <2> QED BY <2>1, NotSilent
<1>2. CASE ~(n < Retries)
  BY <1>2, EndedStops, NotSilent DEF Missed
<1> QED BY <1>1, <1>2

\* A wake that reaches a running loop leaves something to wait for, however it ends.
LEMMA InjectNotSilent ==
    ASSUME NEW l \in Loops, call \in [Call -> Deliveries], session \in Sessions,
           NEW c \in Call, NEW n, Inject(l, c, "wake", n)
    PROVE  ~Silent'
<1> DEFINE m == [l EXCEPT !.pending = FALSE]
<1>1. m \in Loops
  BY Update
<1>2. CASE Thrown(l, c, "wake", n)
  BY <1>1, <1>2, MissedNotSilent DEF Thrown
<1>3. CASE loop' = Ended(l, "stopped", "other")
  BY <1>3, EndedStops, NotSilent
<1>4. CASE loop' = Deferred(m)
  <2> HIDE DEF m
  <2>1. CASE loop' = Ended(m, "paused", "other")
    BY <1>1, <2>1, EndedStops, NotSilent
  <2>2. CASE loop' = [m EXCEPT !.defers = m.defers + 1, !.alarm = TRUE, !.timer = TRUE]
    <3>1. loop'.alarm
      BY <1>1, <2>2 DEF Loops
    <3> QED BY <3>1, NotSilent
  <2> QED BY <1>4, <2>1, <2>2 DEF Deferred
<1>5. CASE session' = [session EXCEPT !.holder = c, !.phase = "before"]
  <2>1. session'.holder = c /\ session'.phase = "before"
    BY <1>5 DEF Sessions
  <2> QED BY <2>1, NotSilent
<1>6. CASE call' = [call EXCEPT ![c] = [at |-> "sending", by |-> "wake", try |-> n]]
  <2>1. call'[c].at = "sending"
    BY <1>6
  <2> QED BY <2>1, NotSilent
<1> QED BY <1>2, <1>3, <1>4, <1>5, <1>6 DEF Inject

LEMMA WakeNotSilent ==
    ASSUME NEW l \in Loops, call \in [Call -> Deliveries], session \in Sessions,
           NEW c \in Call, NEW n, Wake(l, c, n)
    PROVE  ~Silent'
BY InjectNotSilent, MissedNotSilent DEF Wake

Cause == CommandLeftAlone \/ RunWithoutTurn \/ MidStream \/ WorkUnanswered

\* A command counts, whatever it does.
LEMMA AskedIsACause == IInv /\ Asked => CommandLeftAlone
<1> SUFFICES ASSUME IInv, Asked PROVE CommandLeftAlone
  OBVIOUS
<1>1. used.commands \in Nat /\ used'.commands = used.commands + 1
  BY LoopConstants DEF IInv, Asked
<1> QED BY <1>1 DEF CommandLeftAlone

\* The end of a turn outside a stream sets the fallback alarm of a loop that runs on.
LEMMA TurnEndNotSilent ==
    ASSUME IInv, TurnEnd, ~MidStream
    PROVE  ~Silent'
<1>1. /\ session.phase = "in" /\ session'.phase = "after"
      /\ session'.kind = session.kind /\ session'.bg = session.bg
  BY DEF TurnEnd, IInv, Sessions
<1>2. session.kind # "desktop" /\ loop \in Loops
  BY <1>1 DEF MidStream, IInv, Sound
<1>3. CASE ~Running(loop)
  <2>1. loop'.status = loop.status
    BY <1>2, <1>3 DEF TurnEnd, Loops
  <2> QED BY <1>3, <2>1, NotSilent DEF Running
<1>4. CASE Running(loop)
  <2>1. PICK ok \in BOOLEAN :
          loop' = Guarded([Counted(loop, ok) EXCEPT !.flags = "none", !.active = FALSE], FALSE)
    BY <1>2, <1>4, Zenon DEF TurnEnd
  <2> DEFINE m == [Counted(loop, ok) EXCEPT !.flags = "none", !.active = FALSE]
  <2>2. m \in Loops
    <3> DEFINE f == IF ok THEN 0 ELSE loop.fails + 1
               r == [loop EXCEPT !.turns = loop.turns + 1, !.fails = f]
    <3>1. f \in Nat /\ loop.turns + 1 \in Nat
      BY <1>2 DEF Loops
    <3>2. Counted(loop, ok) = loop \/ Counted(loop, ok) = r
      BY DEF Counted
    <3> HIDE DEF f
    <3>3. r \in Loops
      BY <1>2, <3>1, Update
    <3> HIDE DEF r
    <3> QED BY <1>2, <3>2, <3>3, Update
  <2> HIDE DEF m
  <2>3. \/ loop' = Ended(m, "paused", "budget") \/ loop' = Ended(m, "paused", "other")
        \/ loop' = m /\ (m.alarm \/ LiveWork)
        \/ loop' = Scheduled(m)
    BY <2>1 DEF Guarded, m
  <2>4. Scheduled(m).alarm
    BY <2>2 DEF Scheduled, Loops
  <2>5. LiveWork => session'.bg
    BY <1>1 DEF LiveWork
  <2> QED BY <2>2, <2>3, <2>4, <2>5, EndedStops, NotSilent
<1> QED BY <1>3, <1>4

LEMMA SilenceStep ==
    ASSUME IInv, HolderRuns, Next, ~Silent, Silent'
    PROVE  Cause
<1> SUFFICES ASSUME ~Cause PROVE FALSE
  OBVIOUS
<1>0. /\ loop \in Loops /\ call \in [Call -> Deliveries] /\ session \in Sessions
      /\ ~CommandLeftAlone /\ ~RunWithoutTurn /\ ~MidStream /\ ~WorkUnanswered
      /\ ~Asked
  BY AskedIsACause DEF IInv, Sound, SoundCalls, Cause
<1>1. ASSUME NEW c \in Call, Start(c) \/ Resume(c) PROVE FALSE
  BY <1>0, <1>1 DEF Start, Resume
<1>2. ASSUME NEW c \in Call, Fire(c) PROVE FALSE
  <2>1. CASE Running(loop) /\ loop.alarm
    <3>1. [loop EXCEPT !.timer = FALSE, !.alarm = FALSE] \in Loops
      BY <1>0, Update
    <3> QED BY <1>0, <1>2, <2>1, <3>1, WakeNotSilent DEF Fire
  <2>2. CASE ~(Running(loop) /\ loop.alarm)
    <3>1. loop'.status = loop.status /\ loop'.alarm = loop.alarm
      BY <1>0, <1>2, <2>2 DEF Fire, Loops
    <3> QED BY <1>2, <2>2, <3>1, SilentBefore DEF Fire
  <2> QED BY <2>1, <2>2
<1>3. ASSUME NEW c \in Call, Retry(c) PROVE FALSE
  BY <1>0, <1>3, WakeNotSilent DEF Retry
<1>4. ASSUME NEW c \in Call, Send(c) PROVE FALSE
  <2>1. CASE Thrown(loop, c, call[c].by, call[c].try)
    <3>1. CASE call[c].by = "wake"
      <4>1. [loop EXCEPT !.pending = FALSE] \in Loops
        BY <1>0, Update
      <4> QED BY <1>0, <2>1, <3>1, <4>1, MissedNotSilent DEF Thrown
    <3>2. CASE call[c].by # "wake"
      <4>1. call[c].by = "command" /\ call[c].at = "sending" /\ call'[c] = Idle
        BY <1>0, <1>4, <2>1, <3>2 DEF Thrown, Deliveries, Send
      <4> QED BY <1>0, <4>1 DEF CommandLeftAlone
    <3> QED BY <3>1, <3>2
  <2>2. CASE session' = [session EXCEPT !.queued = TRUE]
    <3>1. session'.queued
      BY <1>0, <2>2 DEF Sessions
    <3> QED BY <3>1, NotSilent
  <2>3. CASE session' = [session EXCEPT !.holder = c, !.phase = "before"]
    <3>1. session'.holder = c /\ session'.phase = "before"
      BY <1>0, <2>3 DEF Sessions
    <3> QED BY <3>1, NotSilent
  <2> QED BY <1>4, <2>1, <2>2, <2>3 DEF Send
<1>5. ASSUME NEW c \in Call, RunEnds(c) PROVE FALSE
  <2>1. /\ session'.holder = "none" /\ session'.up = session.up /\ session'.alive = session.alive
        /\ session'.bg = session.bg /\ session'.queued = session.queued
        /\ session.holder = c /\ c \notin {"none", "user"}
    BY <1>0, <1>5, LoopConstants DEF RunEnds, Sessions
  <2>2. session.phase = "after"
    BY <1>0, <1>5, <2>1 DEF RunEnds, RunWithoutTurn, Sessions
  <2>3. call[c].at = "running"
    BY <2>1 DEF HolderRuns
  <2>4. CASE Thrown(loop, c, "wake", call[c].try)
    <3>1. [loop EXCEPT !.pending = FALSE] \in Loops
      BY <1>0, Update
    <3> QED BY <1>0, <2>4, <3>1, MissedNotSilent DEF Thrown
  <2>5. CASE loop'.status = loop.status /\ loop'.alarm = loop.alarm
             /\ call' = [call EXCEPT ![c] = Idle]
    <3>1. \A d \in Call : ~Expected(d)
      BY <2>1, <2>2, <2>3, <2>5 DEF Silent, Expected
    <3> QED BY <2>1, <2>5, <3>1 DEF Silent, Running
  <2>6. CASE call[c].by # "wake" /\ Thrown(loop, c, call[c].by, call[c].try)
    <3>1. loop'.status = loop.status /\ loop'.alarm = loop.alarm
      BY <1>0, <2>6 DEF Thrown, Loops
    <3> QED BY <2>5, <2>6, <3>1 DEF Thrown
  <2>7. CASE /\ loop' = [loop EXCEPT !.defers = IF call[c].by = "wake" THEN 0 ELSE @]
             /\ call' = [call EXCEPT ![c] = Idle]
    <3>1. loop'.status = loop.status /\ loop'.alarm = loop.alarm
      BY <1>0, <2>7 DEF Loops
    <3> QED BY <2>5, <2>7, <3>1
  <2> QED BY <1>5, <2>4, <2>6, <2>7 DEF RunEnds
<1>6. CASE Stop \/ Pause
  BY <1>0, <1>6 DEF Stop, Pause
<1>7. CASE ToolSchedule
  <2>1. loop'.alarm
    BY <1>0, <1>7 DEF ToolSchedule, Scheduled, Loops
  <2> QED BY <2>1, NotSilent
<1>8. CASE ToolComplete
  <2>1. loop.why \in {"none", "budget", "other"}
    BY <1>0 DEF Loops
  <2> QED BY <1>0, <1>8, <2>1, EndedStops, NotSilent DEF ToolComplete
<1>9. CASE OtherRun
  <2>1. session'.holder = "user" /\ session'.phase = "before"
    BY <1>0, <1>9 DEF OtherRun, Sessions
  <2> QED BY <2>1, NotSilent
<1>10. CASE OtherRunEnds
  <2>1. /\ session.holder = "user" /\ session.phase = "after" /\ ~session.queued
        /\ session'.up = session.up /\ session'.alive = session.alive
        /\ session'.bg = session.bg /\ "user" \notin Call
        /\ loop' = loop /\ call' = call
    BY <1>0, <1>10, LoopConstants DEF OtherRunEnds, Sessions
  <2> QED BY <2>1 DEF Silent, Expected, Running
<1>11. CASE TurnStart
  <2>1. /\ session'.phase = "in" /\ session'.holder = session.holder
        /\ session.holder \in Call \cup {"user"}
    BY <1>0, <1>11 DEF TurnStart, Busy, Sessions
  <2> QED BY <2>1, NotSilent
<1>12. CASE MessageError
  <2>1. loop'.status = loop.status /\ loop'.alarm = loop.alarm
    BY <1>0, <1>12 DEF MessageError, Loops
  <2> QED BY <1>12, <2>1, SilentBefore DEF MessageError
<1>13. CASE TurnEnd
  BY <1>0, <1>13, TurnEndNotSilent
<1>14. CASE WorkBegins \/ WorkEnds
  <2>1. session'.bg \/ WorkUnanswered
    BY <1>0, <1>14 DEF WorkBegins, WorkEnds, WorkUnanswered, Sessions
  <2> QED BY <1>0, <2>1, NotSilent
<1>15. CASE Reset \/ Crash
  <2>1. ~session'.alive \/ ~session'.up
    BY <1>0, <1>15 DEF Reset, Crash, Sessions
  <2> QED BY <2>1 DEF Silent
<1>16. CASE Boot
  <2>1. session'.alive = session.alive
    BY <1>0, <1>16 DEF Boot, Sessions
  <2>2. Running(loop') => (session'.alive => loop'.alarm)
    BY <1>0, <1>16, <2>1 DEF Boot, Running, Scheduled, Loops
  <2> QED BY <2>2 DEF Silent
<1> QED
  BY <1>1, <1>2, <1>3, <1>4, <1>5, <1>6, <1>7, <1>8, <1>9, <1>10, <1>11, <1>12, <1>13,
     <1>14, <1>15, <1>16 DEF Next, Deliver

\* The run of a delivery holds the session while the delivery waits for it: a delivery
\* takes the session when it starts to run, and leaves it when it is over.
LEMMA HolderStep == IInv /\ HolderRuns /\ [Next]_vars => HolderRuns'
<1> SUFFICES ASSUME IInv, HolderRuns, [Next]_vars PROVE HolderRuns'
  OBVIOUS
<1>0. call \in [Call -> Deliveries] /\ session \in Sessions /\ Call \cap {"none", "user"} = {}
  BY LoopConstants DEF IInv, SoundCalls
\* A delivery that does not run changes, and the session stays with its holder.
<1>1. ASSUME NEW c \in Call, call[c].at # "running", session'.holder = session.holder,
             \A d \in Call \ {c} : call'[d] = call[d]
      PROVE  HolderRuns'
  BY <1>1 DEF HolderRuns
\* A delivery takes the session and runs.
<1>2. ASSUME NEW c \in Call, session'.holder = c, call'[c].at = "running"
      PROVE  HolderRuns'
  BY <1>2 DEF HolderRuns
<1>3. ASSUME session'.holder \in {"none", "user"}
      PROVE  HolderRuns'
  BY <1>0, <1>3 DEF HolderRuns
<1>4. ASSUME session'.holder = session.holder, call' = call
      PROVE  HolderRuns'
  BY <1>4 DEF HolderRuns
<1>5. ASSUME NEW c \in Call, NEW l, NEW n, Missed(l, c, n)
      PROVE  \A d \in Call \ {c} : call'[d] = call[d]
  BY <1>0, <1>5 DEF Missed
<1>6. ASSUME NEW c \in Call, NEW l, NEW by, NEW n, Thrown(l, c, by, n)
      PROVE  \A d \in Call \ {c} : call'[d] = call[d]
  BY <1>0, <1>5, <1>6 DEF Thrown
<1>7. ASSUME NEW c \in Call, NEW l, NEW by, NEW n, Inject(l, c, by, n), call[c].at # "running"
      PROVE  HolderRuns'
  <2>1. CASE /\ call' = [call EXCEPT ![c] = [at |-> "running", by |-> by, try |-> n]]
             /\ session' = [session EXCEPT !.holder = c, !.phase = "before"]
    <3>1. session'.holder = c /\ call'[c].at = "running"
      BY <1>0, <2>1 DEF Sessions
    <3> QED BY <1>2, <3>1
  <2>2. CASE UNCHANGED session
    <3>1. \A d \in Call \ {c} : call'[d] = call[d]
      BY <1>0, <1>6, <1>7, <2>2 DEF Inject
    <3> QED BY <1>1, <1>7, <2>2, <3>1
  <2> QED BY <1>7, <2>1, <2>2 DEF Inject
<1>8. ASSUME NEW c \in Call, NEW l, NEW n, Wake(l, c, n), call[c].at # "running"
      PROVE  HolderRuns'
  BY <1>1, <1>5, <1>7, <1>8 DEF Wake
<1>9. ASSUME NEW c \in Call, Start(c) \/ Resume(c) \/ Retry(c)
      PROVE  HolderRuns'
  BY <1>7, <1>8, <1>9 DEF Start, Resume, Retry
<1>10. ASSUME NEW c \in Call, Fire(c) PROVE HolderRuns'
  BY <1>4, <1>8, <1>10 DEF Fire
<1>11. ASSUME NEW c \in Call, Send(c) PROVE HolderRuns'
  <2>1. CASE UNCHANGED session /\ Thrown(loop, c, call[c].by, call[c].try)
    BY <1>1, <1>6, <1>11, <2>1 DEF Send
  <2>2. CASE call' = [call EXCEPT ![c] = Idle] /\ session' = [session EXCEPT !.queued = TRUE]
    <3>1. session'.holder = session.holder /\ \A d \in Call \ {c} : call'[d] = call[d]
      BY <1>0, <2>2 DEF Sessions
    <3> QED BY <1>1, <1>11, <3>1 DEF Send
  <2>3. CASE /\ call' = [call EXCEPT ![c].at = "running"]
             /\ session' = [session EXCEPT !.holder = c, !.phase = "before"]
    <3>1. session'.holder = c /\ call'[c].at = "running"
      BY <1>0, <2>3 DEF Sessions, Deliveries
    <3> QED BY <1>2, <3>1
  <2> QED BY <1>11, <2>1, <2>2, <2>3 DEF Send
<1>12. CASE \/ \E c \in Call : RunEnds(c)
            \/ OtherRun \/ OtherRunEnds \/ Crash
  <2>1. session'.holder \in {"none", "user"}
    BY <1>0, <1>12 DEF RunEnds, OtherRun, OtherRunEnds, Crash, Sessions
  <2> QED BY <1>3, <2>1
<1>13. CASE \/ Stop \/ Pause \/ ToolSchedule \/ ToolComplete \/ TurnStart \/ MessageError
            \/ TurnEnd \/ WorkBegins \/ WorkEnds \/ Reset \/ Boot \/ UNCHANGED vars
  <2>1. session'.holder = session.holder /\ call' = call
    BY <1>0, <1>13
    DEF Stop, Pause, ToolSchedule, ToolComplete, TurnStart, MessageError, TurnEnd,
        WorkBegins, WorkEnds, Reset, Boot, Sessions, vars
  <2> QED BY <1>4, <2>1
<1> QED BY <1>9, <1>10, <1>11, <1>12, <1>13 DEF Next, Deliver

\* A running loop falls silent from the four causes only (loop-controller.ts:220 and the
\* retries of alarm-service.ts): no order of wakes, failures, busy answers, turns, tool
\* calls and restarts does it, for any limits and any number of deliveries under way.
THEOREM SilenceIsCaused == Spec => SilenceHasACause
<1>1. Init => IInv /\ HolderRuns
  <2>1. Init => HolderRuns
    BY LoopConstants DEF Init, HolderRuns
  <2> QED BY <2>1, InitSound
<1>2. IInv /\ HolderRuns /\ [Next]_vars => (IInv /\ HolderRuns)'
  BY StepSound, HolderStep
<1>3. IInv /\ HolderRuns /\ [Next]_vars =>
        [~Silent /\ Silent' =>
           CommandLeftAlone \/ RunWithoutTurn \/ MidStream \/ WorkUnanswered]_vars
  BY SilenceStep DEF Cause
<1> QED BY <1>1, <1>2, <1>3, PTL DEF Spec, SilenceHasACause
=============================================================================
