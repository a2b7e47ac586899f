----------------------------- MODULE SessionLoop -----------------------------
(***************************************************************************)
(* The loop of one session: lib/loop/loop-controller.ts (status, budget,   *)
(* failure limit, turn marks), lib/loop/alarm-service.ts (the single alarm *)
(* slot, its timer and the retries of a wake) and lib/loop/loop-store.ts   *)
(* (what survives a restart), as core/engine.ts:805-928 wires them.        *)
(*                                                                         *)
(* Every map of the code is keyed by the session, so one loop stands for   *)
(* all.  Of the pause reasons only the spent budget is told apart (resume  *)
(* asks for it).  Delays are abstracted: an armed timer fires at any       *)
(* moment, and a short alarm that is refused (alarm-service.ts:61) changes *)
(* nothing.  The notices sent to the chat are left out.  The model run of  *)
(* the session, its turn events and its background work are the            *)
(* environment; a desktop run and a bridge run differ in the ways          *)
(* the code tells them apart.                                              *)
(***************************************************************************)
EXTENDS Naturals, FiniteSets

CONSTANTS
    Call,         \* deliveries of a loop message that may be under way at once (a bound)
    Kinds,        \* the kinds of target: a subset of {"desktop", "bridge"}
    MaxTurns,     \* loop-store.ts:15
    MaxFailures,  \* loop-store.ts:16
    Retries,      \* alarm-service.ts:15, the number of retry delays
    MaxBusy,      \* alarm-service.ts:17
    MaxCommands,  \* bound on the user's commands
    MaxCrash      \* bound on the crashes

ASSUME LoopConstants ==
    /\ Kinds \subseteq {"desktop", "bridge"}
    /\ Call \cap {"none", "user"} = {}
    /\ MaxTurns \in Nat \ {0} /\ MaxFailures \in Nat \ {0}
    /\ Retries \in Nat /\ MaxBusy \in Nat
    /\ MaxCommands \in Nat /\ MaxCrash \in Nat

VARIABLES
    loop,      \* the stored record and, of the two services, what they hold in memory
    call,      \* the deliveries under way
    session,   \* the target session and its run
    used       \* commands given and crashes so far
vars == <<loop, call, session, used>>

Idle == [at |-> "idle", by |-> "command", try |-> 0]

NoLoop == [status |-> "none", why |-> "none", turns |-> 0, fails |-> 0, alarm |-> FALSE,
           timer |-> FALSE, defers |-> 0, pending |-> FALSE, active |-> FALSE, flags |-> "none"]

Loops ==
    [status : {"none", "running", "paused", "stopped", "completed"},
     why : {"none", "budget", "other"}, turns : Nat, fails : Nat,
     alarm : BOOLEAN, timer : BOOLEAN, defers : 0..MaxBusy,
     pending : BOOLEAN, active : BOOLEAN, flags : {"none", "clean", "error"}]

Deliveries == [at : {"idle", "sending", "running", "asleep"},
               by : {"command", "wake"}, try : 0..Retries]

Sessions == [kind : Kinds, up : BOOLEAN, alive : BOOLEAN, bg : BOOLEAN,
             holder : Call \cup {"none", "user"},
             phase : {"before", "in", "after"}, queued : BOOLEAN]

\* The record, the deliveries and the session as loop-store.ts:91 and the services shape them.
TypeOK ==
    /\ loop \in Loops
    /\ call \in [Call -> Deliveries]
    /\ session \in Sessions
    /\ used \in [commands : 0..MaxCommands, crashes : 0..MaxCrash]

\* The process is about to start, and its store has no loop yet or one that was running.
Init ==
    /\ loop \in {NoLoop, [NoLoop EXCEPT !.status = "running", !.alarm = TRUE]}
    /\ call = [c \in Call |-> Idle]
    /\ \E k \in Kinds :
         session = [kind |-> k, up |-> FALSE, alive |-> TRUE, bg |-> FALSE,
                    holder |-> "none", phase |-> "before", queued |-> FALSE]
    /\ used = [commands |-> 0, crashes |-> 0]

-----------------------------------------------------------------------------
(* The synchronous helpers of the two services, on the loop's record.      *)

Running(l) == l.status = "running"

\* LoopAlarmService.cancel
Cancelled(l) == [l EXCEPT !.timer = FALSE, !.defers = 0, !.alarm = FALSE]

\* LoopAlarmService.schedule, for a delay it accepts: the slot and the timer are replaced.
Scheduled(l) == [l EXCEPT !.timer = TRUE, !.defers = 0, !.alarm = TRUE]

\* _clearRuntimeMarks
Unmarked(l) == [l EXCEPT !.pending = FALSE, !.active = FALSE, !.flags = "none"]

\* Mutant: leaves the alarm of the loop it ends alone.
EndedUncancelled(l, status, why) == [Unmarked(l) EXCEPT !.status = status, !.why = why]

\* stop, toolComplete, _stopForReset and _pause end alike; none of them but
\* toolComplete asks what the status was.
Ended(l, status, why) == [Unmarked(Cancelled(l)) EXCEPT !.status = status, !.why = why]

\* hasLiveBackgroundWork: nothing is live in a session that cannot be resolved.
LiveWork == session.bg /\ session.alive

-----------------------------------------------------------------------------
(* A delivery.  Everything up to the first real wait is one step.          *)

Busy == session.holder # "none"

\* _fire, after an attempt that threw or was suppressed: wait and try again, or
\* give up and pause the loop, whatever its status is by then.
Missed(l, c, n) ==
    IF n < Retries
      THEN /\ loop' = l
           /\ call' = [call EXCEPT ![c] = [at |-> "asleep", by |-> "wake", try |-> n]]
      ELSE /\ loop' = Ended(l, "paused", "other")
           /\ call' = [call EXCEPT ![c] = Idle]

\* A delivery that failed: the error of a command goes to its user, and the loop stays as it is.
Thrown(l, c, by, n) ==
    IF by = "wake" THEN Missed([l EXCEPT !.pending = FALSE], c, n)
    ELSE loop' = [l EXCEPT !.pending = FALSE] /\ call' = [call EXCEPT ![c] = Idle]

\* _deferBusy: the slot is written back, so many times at most.
Deferred(l) ==
    IF l.defers + 1 > MaxBusy THEN Ended(l, "paused", "other")
    ELSE [l EXCEPT !.defers = l.defers + 1, !.alarm = TRUE, !.timer = TRUE]

\* _injectLoopTurn up to its wait: deliverLoopMessage resolves the target at once;
\* a bridge session answers busy or is taken at once; a desktop session is loaded first.
Inject(l, c, by, n) ==
    \/ /\ ~session.alive
       /\ IF by = "wake"
            THEN /\ loop' = Ended(l, "stopped", "other")
                 /\ call' = [call EXCEPT ![c] = Idle]
            ELSE Thrown(l, c, by, n)
       /\ UNCHANGED session
    \/ /\ session.alive /\ session.kind = "bridge" /\ Busy
       /\ loop' = LET m == [l EXCEPT !.pending = FALSE]
                  IN  IF by = "wake" THEN Deferred(m) ELSE m
       /\ call' = [call EXCEPT ![c] = Idle]
       /\ UNCHANGED session
    \/ /\ session.alive /\ session.kind = "bridge"          \* the platform is not there
       /\ Thrown(l, c, by, n)
       /\ UNCHANGED session
    \/ /\ session.alive /\ session.kind = "bridge" /\ ~Busy
       /\ loop' = [l EXCEPT !.pending = TRUE]
       /\ call' = [call EXCEPT ![c] = [at |-> "running", by |-> by, try |-> n]]
       /\ session' = [session EXCEPT !.holder = c, !.phase = "before"]
    \/ /\ session.alive /\ session.kind = "desktop"
       /\ loop' = [l EXCEPT !.pending = TRUE]
       /\ call' = [call EXCEPT ![c] = [at |-> "sending", by |-> by, try |-> n]]
       /\ UNCHANGED session

\* deliverWakeupTurn: a loop that does not run suppresses the wake, which counts as a failure.
Wake(l, c, n) ==
    IF Running(l) THEN Inject(l, c, "wake", n)
    ELSE Missed(l, c, n) /\ UNCHANGED session

\* The timer of the alarm: the slot is emptied before the first attempt.
Fire(c) ==
    /\ session.up /\ loop.timer /\ call[c].at = "idle"
    /\ IF Running(loop) /\ loop.alarm
         THEN Wake([loop EXCEPT !.timer = FALSE, !.alarm = FALSE], c, 0)
         ELSE loop' = [loop EXCEPT !.timer = FALSE] /\ UNCHANGED <<call, session>>
    /\ UNCHANGED used

Retry(c) ==
    /\ call[c].at = "asleep"
    /\ Wake(loop, c, call[c].try + 1)
    /\ UNCHANGED used

\* deliverCustomMessage once the desktop session is loaded.  Nothing is asked about the loop.
Send(c) ==
    /\ call[c].at = "sending"
    /\ \/ Thrown(loop, c, call[c].by, call[c].try) /\ UNCHANGED session
       \/ /\ Busy                                           \* followUp
          /\ loop' = [loop EXCEPT !.pending = FALSE, !.active = TRUE,
                                  !.defers = IF call[c].by = "wake" THEN 0 ELSE @]
          /\ call' = [call EXCEPT ![c] = Idle]
          /\ session' = [session EXCEPT !.queued = TRUE]
       \/ /\ ~Busy                                          \* triggerTurn
          /\ call' = [call EXCEPT ![c].at = "running"]
          /\ session' = [session EXCEPT !.holder = c, !.phase = "before"]
          /\ UNCHANGED loop
    /\ UNCHANGED used

\* The run a delivery started is over.  A bridge run that fails before its first turn
\* is reported like one that went well; a reply that cannot be sent makes the delivery fail.
RunEnds(c) ==
    /\ session.holder = c /\ session.phase # "in" /\ ~session.queued
    /\ session' = [session EXCEPT !.holder = "none", !.phase = "before"]
    /\ \/ /\ loop' = [loop EXCEPT !.defers = IF call[c].by = "wake" THEN 0 ELSE @]
          /\ call' = [call EXCEPT ![c] = Idle]
       \/ Thrown(loop, c, call[c].by, call[c].try)
    /\ UNCHANGED used

-----------------------------------------------------------------------------
(* Commands of the user and tools of the loop's agent.                     *)

\* A command names its session: a bridge chat that has moved on names another one.
Asked == /\ session.up /\ used.commands < MaxCommands
         /\ session.kind = "bridge" => session.alive
         /\ used' = [used EXCEPT !.commands = @ + 1]

Start(c) ==
    /\ Asked /\ call[c].at = "idle"
    /\ loop.status \notin {"running", "paused"}
    /\ Inject([loop EXCEPT !.status = "running", !.why = "none", !.turns = 0, !.fails = 0,
                           !.alarm = FALSE], c, "command", 0)

Resume(c) ==
    /\ Asked /\ call[c].at = "idle"
    /\ loop.status = "paused"
    /\ Inject([loop EXCEPT !.status = "running", !.why = "none", !.fails = 0,
                           !.turns = IF loop.why = "budget" THEN 0 ELSE @], c, "command", 0)

Stop ==
    /\ Asked /\ loop.status # "none"
    /\ loop' = Ended(loop, "stopped", "none")
    /\ UNCHANGED <<call, session>>

Pause ==
    /\ Asked /\ loop.status # "none"
    /\ loop' = Ended(loop, "paused", "other")
    /\ UNCHANGED <<call, session>>

ToolSchedule ==
    /\ session.phase = "in" /\ Running(loop)
    /\ loop' = Scheduled(loop)
    /\ UNCHANGED <<call, session, used>>

ToolComplete ==
    /\ session.phase = "in" /\ Running(loop)
    /\ loop' = Ended(loop, "completed", loop.why)
    /\ UNCHANGED <<call, session, used>>

-----------------------------------------------------------------------------
(* The session's run, as the event bus shows it.                           *)

\* Somebody else's message, or the result of background work, starts a run.
OtherRun ==
    /\ session.up /\ ~Busy
    /\ session' = [session EXCEPT !.holder = "user", !.phase = "before"]
    /\ UNCHANGED <<loop, call, used>>

OtherRunEnds ==
    /\ session.holder = "user" /\ session.phase = "after" /\ ~session.queued
    /\ session' = [session EXCEPT !.holder = "none", !.phase = "before"]
    /\ UNCHANGED <<loop, call, used>>

\* onTurnStart: a pending mark becomes the mark of this turn.
TurnStart ==
    /\ Busy /\ session.phase # "in"
    /\ session' = [session EXCEPT !.phase = "in", !.queued = FALSE]
    /\ loop' = IF loop.status = "none" THEN loop
               ELSE [loop EXCEPT !.flags = "clean", !.pending = FALSE,
                                 !.active = loop.active \/ loop.pending]
    /\ UNCHANGED <<call, used>>

\* onMessageEnd
MessageError ==
    /\ session.phase = "in" /\ loop.flags = "clean"
    /\ loop' = [loop EXCEPT !.flags = "error"]
    /\ UNCHANGED <<call, session, used>>

\* The account of a turn: only a marked turn counts.
Counted(l, ok) ==
    IF l.active
      THEN [l EXCEPT !.turns = @ + 1, !.fails = IF ok THEN 0 ELSE @ + 1]
      ELSE l

\* onTurnEnd after the account: budget, failures, a stream that goes on, the fallback alarm.
Guarded(l, mid) ==
    IF l.turns >= MaxTurns THEN Ended(l, "paused", "budget")
    ELSE IF l.fails >= MaxFailures THEN Ended(l, "paused", "other")
    ELSE IF mid \/ l.alarm \/ LiveWork THEN l
    ELSE Scheduled(l)

TurnEnd ==
    \E aborted, mid \in BOOLEAN :
      /\ session.phase = "in"
      /\ mid => session.kind = "desktop"
      /\ session' = [session EXCEPT !.phase = "after"]
      /\ LET ok   == ~aborted /\ loop.flags # "error"
             done == [Counted(loop, ok) EXCEPT !.flags = "none", !.active = FALSE]
         IN  loop' = IF Running(loop) THEN Guarded(done, mid)
                     ELSE [loop EXCEPT !.flags = "none", !.active = FALSE]
      /\ UNCHANGED <<call, used>>

\* A turn leaves work in the background; the work ends, and its result comes as an OtherRun.
WorkBegins ==
    /\ session.phase = "in" /\ ~session.bg
    /\ session' = [session EXCEPT !.bg = TRUE]
    /\ UNCHANGED <<loop, call, used>>

WorkEnds ==
    /\ session.up /\ session.bg
    /\ session' = [session EXCEPT !.bg = FALSE]
    /\ UNCHANGED <<loop, call, used>>

\* The session is archived or replaced: its identity does not resolve any more.
Reset ==
    /\ session.up /\ session.alive
    /\ session' = [session EXCEPT !.alive = FALSE]
    /\ UNCHANGED <<loop, call, used>>

-----------------------------------------------------------------------------
(* Restart.                                                                *)

Crash ==
    /\ session.up /\ used.crashes < MaxCrash
    /\ used' = [used EXCEPT !.crashes = @ + 1]
    /\ loop' = [Unmarked(loop) EXCEPT !.timer = FALSE, !.defers = 0]
    /\ call' = [c \in Call |-> Idle]
    /\ \E b \in {session.bg, FALSE} :
         session' = [session EXCEPT !.up = FALSE, !.bg = b, !.holder = "none",
                                    !.phase = "before", !.queued = FALSE]

\* Mutant: only the alarms that are stored come back.
BootRehydrates ==
    /\ ~session.up
    /\ session' = [session EXCEPT !.up = TRUE]
    /\ loop' = IF ~Running(loop) THEN loop
               ELSE IF ~session.alive THEN [loop EXCEPT !.status = "stopped", !.why = "other"]
               ELSE [loop EXCEPT !.timer = loop.alarm]
    /\ UNCHANGED <<call, used>>

\* recoverAtBoot: a running loop stops without its target, or has an armed alarm.
Boot ==
    /\ ~session.up
    /\ session' = [session EXCEPT !.up = TRUE]
    /\ loop' = IF ~Running(loop) THEN loop
               ELSE IF ~session.alive THEN [loop EXCEPT !.status = "stopped", !.why = "other"]
               ELSE IF loop.alarm THEN [loop EXCEPT !.timer = TRUE]
               ELSE Scheduled(loop)
    /\ UNCHANGED <<call, used>>

Deliver(c) == Retry(c) \/ Send(c) \/ RunEnds(c)

Next ==
    \/ \E c \in Call : Start(c) \/ Resume(c) \/ Fire(c) \/ Deliver(c)
    \/ Stop \/ Pause \/ ToolSchedule \/ ToolComplete
    \/ OtherRun \/ OtherRunEnds \/ TurnStart \/ MessageError \/ TurnEnd
    \/ WorkBegins \/ WorkEnds \/ Reset \/ Crash \/ Boot

Spec == Init /\ [][Next]_vars

-----------------------------------------------------------------------------
(* What is claimed of the loop.                                            *)

\* An alarm in the slot of a running loop has its timer.  The check at a turn's end
\* (loop-controller.ts:220) takes the slot for a wake that will come: a slot without a
\* timer, left by a pause, a retry, a busy answer or a restart, would silence the loop.
AlarmIsArmed ==
    session.up /\ Running(loop) /\ loop.alarm => loop.timer

\* A loop that runs is below the limit of failures in a row, whatever commands, wakes and
\* restarts came between the turns (loop-controller.ts:113, 202, 212).
FailuresBelowLimit ==
    Running(loop) => loop.fails < MaxFailures

\* What still leads to an end of turn, and so to the check of loop-controller.ts:220.
Expected(c) ==
    \/ call[c].at \in {"sending", "asleep"}
    \/ session.holder = c /\ session.phase # "after"

\* A running loop with a session to run in, that nothing will ever wake.
Silent ==
    /\ session.up /\ session.alive /\ Running(loop)
    /\ ~loop.alarm /\ ~session.bg /\ ~session.queued
    /\ ~(session.holder = "user" /\ session.phase # "after")
    /\ \A c \in Call : ~Expected(c)

\* The causes the code leaves: a command whose first delivery fails or finds the session
\* busy, a run that ends without a turn and is reported as delivered, a turn that ends
\* while the desktop session says it still streams, and work whose result never comes.
CommandLeftAlone ==
    \/ used'.commands # used.commands
    \/ \E c \in Call : call[c].by = "command" /\ call[c].at = "sending" /\ call'[c] = Idle
RunWithoutTurn == session.phase = "before" /\ session.holder \in Call /\ session'.holder = "none"
MidStream == session.kind = "desktop" /\ session.phase = "in" /\ session'.phase = "after"
WorkUnanswered == session.bg /\ ~session'.bg

\* A running loop falls silent from these four causes only: never from a wake that fails,
\* is retried, deferred or given up, from a turn end, from a timer or from a restart.
SilenceHasACause ==
    [][~Silent /\ Silent' =>
         CommandLeftAlone \/ RunWithoutTurn \/ MidStream \/ WorkUnanswered]_vars
=============================================================================
