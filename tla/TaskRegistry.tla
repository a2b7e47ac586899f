----------------------------- MODULE TaskRegistry -----------------------------
(* The registry of plugins' background tasks and schedules.  Handlers live in  *)
(* memory; tasks and schedules are saved after every change and read again at  *)
(* the next start.  A schedule has one timer; when it fires, the handler's run *)
(* is awaited while callers go on scheduling, unscheduling and registering.    *)
(* src/lib/task-registry.ts.                                                   *)
EXTENDS Integers, FiniteSets

CONSTANTS
    Tasks,       \* ids of tasks, all of one type and one parent session
    Schedules,   \* ids of schedules of that type
    MaxRuns,     \* bound: runs of a schedule in flight
    MaxFaults    \* bound: restarts and saves that failed

ASSUME TaskRegistryAssumption == MaxRuns \in Nat \ {0} /\ MaxFaults \in Nat

VARIABLES
    handler,   \* the type's handler: "none", with "abort" only, or with "run"
    task,      \* _tasks
    sched,     \* _schedules
    timer,     \* _scheduleTimers: "none", "set", or "cut" to the longest delay there is
    running,   \* the runs in flight of each schedule, by the kind of the record they hold
    saved,     \* the file
    story      \* what has happened (history, read by properties and bounds only)
registryVars == <<handler, task, sched, timer, running, saved, story>>

\* "active" stands for pending, running, paused and blocked.
NoTask == [status |-> "gone", aborted |-> FALSE]
TaskRecords == {NoTask} \cup [status : {"active", "recovering", "final"},
                               aborted : BOOLEAN]
\* A schedule runs once or at an interval; its next run is over, ahead, or too "far"
\* ahead for a timer.
NoSchedule == [there |-> FALSE, kind |-> "once", enabled |-> FALSE, next |-> "none"]
ScheduleRecords == {NoSchedule} \cup
    [there : {TRUE}, kind : {"once", "every"}, enabled : BOOLEAN,
     next : {"none", "due", "ahead", "far"}]

InitTaskRegistry ==
    /\ handler = "none"
    /\ task = [t \in Tasks |-> NoTask]
    /\ sched = [s \in Schedules |-> NoSchedule]
    /\ timer = [s \in Schedules |-> "none"]
    /\ running = [s \in Schedules |-> [once |-> 0, every |-> 0]]
    /\ saved = [task |-> task, sched |-> sched]
    /\ story = [faults |-> 0, revived |-> [t \in Tasks |-> FALSE],
                gone |-> [s \in Schedules |-> "asked"],
                runs |-> [s \in Schedules |-> 0], cause |-> [s \in Schedules |-> FALSE]]

InFlight(s) == running[s].once + running[s].every
Active(t) == task[t].status \in {"active", "recovering"}

\* _persist: a save that fails is logged and forgotten until the next one.
Persist(h) ==
    \/ saved' = [task |-> task', sched |-> sched'] /\ story' = h
    \/ /\ h.faults < MaxFaults
       /\ story' = [h EXCEPT !.faults = @ + 1, !.gone = [s \in Schedules |->
                        IF sched[s].there /\ ~sched'[s].there THEN "unsaved" ELSE @[s]]]
       /\ UNCHANGED saved

----------------------------------------------------------------------------
(* Tasks.                                                                    *)

\* register: a task that had ended starts anew; any other goes on as it is.
Registered(t) == IF Active(t) THEN task[t] ELSE [status |-> "active", aborted |-> FALSE]

RegisterTask(t) ==
    /\ task' = [task EXCEPT ![t] = Registered(t)]
    /\ UNCHANGED <<handler, sched, timer, running>>
    /\ Persist([story EXCEPT !.revived[t] = @ /\ Active(t)])

\* update with a status: any status may follow any other.
UpdateTask(t) ==
    /\ task[t].status # "gone"
    /\ \E status \in {"active", "recovering", "final"} : task' = [task EXCEPT ![t].status = status]
    /\ UNCHANGED <<handler, sched, timer, running>>
    /\ Persist([story EXCEPT !.revived[t] = @ \/ task[t].aborted])

\* complete and fail.
EndTask(t) ==
    /\ task[t].status # "gone"
    /\ task' = [task EXCEPT ![t].status = "final"]
    /\ UNCHANGED <<handler, sched, timer, running>>
    /\ Persist(story)

\* abort, and cancel, which writes "canceled" over what abort left.
AbortTask(t) ==
    /\ task[t].status # "gone" /\ ~task[t].aborted /\ handler # "none"
    /\ task' = [task EXCEPT ![t].status = "final", ![t].aborted = TRUE]
    /\ UNCHANGED <<handler, sched, timer, running>>
    /\ Persist(story)

\* cancel of a task aborted before.
CancelTask(t) ==
    /\ task[t].status # "gone" /\ task[t].aborted
    /\ task' = [task EXCEPT ![t].status = "final"]
    /\ UNCHANGED <<handler, sched, timer, running>>
    /\ Persist(story)

\* abortByParentSession: every task under way that was not aborted before, with or
\* without a handler.
StopSession ==
    /\ \E t \in Tasks : Active(t) /\ ~task[t].aborted
    /\ task' = [t \in Tasks |-> IF Active(t) /\ ~task[t].aborted
                                THEN [task[t] EXCEPT !.status = "final", !.aborted = TRUE]
                                ELSE task[t]]
    /\ UNCHANGED <<handler, sched, timer, running>>
    /\ Persist(story)

RemoveTask(t) ==
    /\ task' = [task EXCEPT ![t] = NoTask]
    /\ UNCHANGED <<handler, sched, timer, running>>
    /\ Persist([story EXCEPT !.revived[t] = FALSE])

----------------------------------------------------------------------------
(* Schedules.                                                                *)

\* _armSchedule, which first clears the timer there is.
Armed(r) == IF ~r.enabled \/ r.next = "none" THEN "none" ELSE IF r.next = "far" THEN "cut" ELSE "set"

\* Mutant: only a runner that replaces another arms the schedules.
RegisterHandlerUnarmed(with) ==
    /\ handler' = with
    /\ timer' = IF handler = "none" THEN timer ELSE [s \in Schedules |-> Armed(sched[s])]
    /\ story' = [story EXCEPT !.cause = [s \in Schedules |-> @[s] \/ InFlight(s) > 0]]
    /\ UNCHANGED <<task, sched, running, saved>>

\* registerHandler arms the schedules of its type, those that run at the moment too.
RegisterHandler(with) ==
    /\ handler' = with
    /\ timer' = [s \in Schedules |-> Armed(sched[s])]
    /\ story' = [story EXCEPT !.cause = [s \in Schedules |-> @[s] \/ InFlight(s) > 0]]
    /\ UNCHANGED <<task, sched, running, saved>>

UnregisterHandler ==
    /\ handler' = "none"
    /\ UNCHANGED <<task, sched, timer, running, saved, story>>

\* schedule: a new record under the id, which keeps a next run that is still ahead,
\* whatever time the caller gave.
Schedule(s) ==
    /\ \E kind \in {"once", "every"}, enabled \in BOOLEAN, time \in {"due", "ahead", "far"} :
        LET next == IF ~enabled THEN "none"
                    ELSE IF sched[s].next \in {"ahead", "far"} THEN sched[s].next ELSE time
            r == [there |-> TRUE, kind |-> kind, enabled |-> enabled, next |-> next]
        IN  /\ sched' = [sched EXCEPT ![s] = r]
            /\ timer' = [timer EXCEPT ![s] = Armed(r)]
    /\ UNCHANGED <<handler, task, running>>
    /\ Persist([story EXCEPT !.gone[s] = "asked", !.runs[s] = 0, !.cause[s] = InFlight(s) > 0])

Unschedule(s) ==
    /\ sched[s].there
    /\ sched' = [sched EXCEPT ![s] = NoSchedule]
    /\ timer' = [timer EXCEPT ![s] = "none"]
    /\ UNCHANGED <<handler, task, running>>
    /\ Persist([story EXCEPT !.gone[s] = IF InFlight(s) > 0 THEN "met a run" ELSE "removed"])

\* The time of a schedule comes closer.
TimePasses(s) ==
    /\ sched[s].next \in {"far", "ahead"}
    /\ sched' = [sched EXCEPT ![s].next = IF @ = "far" THEN "ahead" ELSE "due"]
    /\ UNCHANGED <<handler, task, timer, running, saved, story>>

\* Mutant: a schedule at an interval is armed before it runs.
Rearmed(s) == IF sched[s].kind = "every" THEN "set" ELSE "none"

\* What a timer that has fired leaves of itself.
Spent(s) == "none"

Rings(s) == timer[s] = "cut" \/ (timer[s] = "set" /\ sched[s].next = "due")

\* A timer fires: the run starts, of a schedule that is "far" too early.
TimerFires(s) ==
    /\ Rings(s) /\ handler = "run" /\ InFlight(s) < MaxRuns
    /\ timer' = [timer EXCEPT ![s] = Spent(s)]
    /\ running' = [running EXCEPT ![s][sched[s].kind] = @ + 1]
    /\ story' = [story EXCEPT !.runs[s] = IF sched[s].kind = "once" THEN @ + 1 ELSE @]
    /\ UNCHANGED <<handler, task, sched, saved>>

\* A timer fires and nobody can run it: only the next handler arms it again.
NoRunner(s) ==
    /\ Rings(s) /\ handler # "run"
    /\ timer' = [timer EXCEPT ![s] = "none"]
    /\ UNCHANGED <<handler, task, sched, running>>
    /\ Persist(story)

\* What the end of a run makes of the record it holds: one that runs once is off.
Advanced(s, kind, right, next) ==
    [there |-> TRUE, kind |-> kind, enabled |-> kind = "every",
     next |-> IF kind = "every" THEN next ELSE "none"]

\* A run ends: its record goes back under the id, whatever is there by now.
RunIsOver(s) ==
    \E kind \in {"once", "every"}, right \in BOOLEAN, next \in {"due", "ahead", "far"} :
        /\ running[s][kind] > 0
        /\ LET r == Advanced(s, kind, right, next) IN
            /\ sched' = [sched EXCEPT ![s] = r]
            /\ timer' = [timer EXCEPT ![s] = Armed(r)]
        /\ running' = [running EXCEPT ![s][kind] = @ - 1]
        /\ UNCHANGED <<handler, task>>
        /\ Persist(IF kind = "every" /\ InFlight(s) = 1
                   THEN [story EXCEPT !.runs[s] = 0, !.cause[s] = FALSE] ELSE story)

----------------------------------------------------------------------------
(* The process ends and starts anew: no handler, no run; what was under way is
   "recovering", and the schedules of the file are armed.                     *)
Restart ==
    /\ story.faults < MaxFaults
    /\ handler' = "none"
    /\ task' = [t \in Tasks |-> IF saved.task[t].status = "active"
                                THEN [saved.task[t] EXCEPT !.status = "recovering"]
                                ELSE saved.task[t]]
    /\ sched' = saved.sched
    /\ timer' = [s \in Schedules |-> Armed(saved.sched[s])]
    /\ running' = [s \in Schedules |-> [once |-> 0, every |-> 0]]
    /\ story' = [story EXCEPT !.faults = @ + 1,
                    !.revived = [t \in Tasks |-> @[t] \/ saved.task[t].aborted],
                    !.cause = [s \in Schedules |-> @[s] \/ InFlight(s) > 0 \/ saved.sched # sched]]
    /\ UNCHANGED saved

TaskStep(t) == RegisterTask(t) \/ UpdateTask(t) \/ EndTask(t) \/ AbortTask(t)
               \/ CancelTask(t) \/ RemoveTask(t)
ScheduleStep(s) == Schedule(s) \/ Unschedule(s) \/ TimePasses(s) \/ TimerFires(s)
                   \/ NoRunner(s) \/ RunIsOver(s)

NextTaskRegistry ==
    \/ \E t \in Tasks : TaskStep(t)
    \/ \E s \in Schedules : ScheduleStep(s)
    \/ \E with \in {"abort", "run"} : RegisterHandler(with)
    \/ UnregisterHandler \/ StopSession \/ Restart

\* Timers fire.
RegistryFairness == \A s \in Schedules : WF_registryVars(TimerFires(s))

SpecTaskRegistry == InitTaskRegistry /\ [][NextTaskRegistry]_registryVars
FairTaskRegistry == SpecTaskRegistry /\ RegistryFairness

----------------------------------------------------------------------------
(* Properties.                                                               *)

TaskRegistryTypeOK ==
    /\ handler \in {"none", "abort", "run"}
    /\ task \in [Tasks -> TaskRecords]
    /\ sched \in [Schedules -> ScheduleRecords]
    /\ timer \in [Schedules -> {"none", "set", "cut"}]
    /\ running \in [Schedules -> [once : 0..MaxRuns, every : 0..MaxRuns]]
    /\ saved \in [task : [Tasks -> TaskRecords], sched : [Schedules -> ScheduleRecords]]
    /\ story \in [faults : 0..MaxFaults, revived : [Tasks -> BOOLEAN],
                  gone : [Schedules -> {"asked", "removed", "met a run", "unsaved"}],
                  runs : [Schedules -> Nat],
                  cause : [Schedules -> BOOLEAN]]

\* A task under way can be aborted: register takes back the flag of an earlier abort,
\* through removals, restarts and saves that failed.  Only a plugin's update, which
\* writes a status over an aborted task, makes one that answers "already_aborted".
ActiveCanBeStopped == \A t \in Tasks : Active(t) /\ task[t].aborted => story.revived[t]

\* A schedule does not run beside itself, unless it was scheduled anew, or its type's
\* handler registered anew, while it ran.
OneRunAtATime == \A s \in Schedules : InFlight(s) > 1 => story.cause[s]

\* What runs once does not run twice, right or wrong, unless it was touched while it
\* ran, the process died then, or its end could not be saved.
OnceRunsOnce == \A s \in Schedules : story.runs[s] > 1 => story.cause[s]

\* A schedule that was removed is not put back by a timer, a run, a handler or a
\* restart, unless a run of it was in flight or its removal could not be saved.
GoneStaysGone == \A s \in Schedules : story.gone[s] = "removed" => ~sched[s].there

\* A schedule that is due and has a runner is run, whenever the runner came, was
\* replaced or came back.
DueIsRun ==
    \A s \in Schedules :
        LET waiting == sched[s].enabled /\ sched[s].next = "due" /\ handler = "run"
        IN  waiting ~> ~waiting \/ InFlight(s) > 0
=============================================================================
