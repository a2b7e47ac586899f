----------------------------- MODULE Automations -----------------------------
(* The automations of a studio: jobs with a cursor (when the next run is     *)
(* due) kept in one file, and a scheduler that every minute goes through     *)
(* them and awaits each one that is due, up to a timeout, while the user     *)
(* edits, toggles and removes jobs.  src/lib/desk/cron-scheduler.ts,         *)
(* src/lib/desk/cron-store.ts and the executor of src/hub/scheduler.ts.      *)
EXTENDS Integers, FiniteSets, Sequences

CONSTANTS
    Jobs,        \* the jobs that may be created
    OneTime,     \* those of type "at"
    Place,       \* the place of a job in the file
    MaxRev,      \* bound: revisions of a job's configuration
    MaxTrouble   \* bound: crashes and log lines that could not be written

ASSUME AutomationsAssumption ==
    /\ OneTime \subseteq Jobs
    /\ Place \in [Jobs -> Nat] /\ \A i, j \in Jobs : Place[i] = Place[j] => i = j
    /\ MaxRev \in Nat \ {0} /\ MaxTrouble \in Nat

VARIABLES
    job,     \* the jobs on file
    check,   \* the check under way: the jobs listed and left, and the one awaited
    lock,    \* _executingJobs
    exec,    \* the executions of each job in progress
    past     \* what has happened (history, read by properties and bounds only)
automationVars == <<job, check, lock, exec, past>>

\* A job's cursor is not set, lies ahead or is due; "over": its "at" has been reached;
\* "newer": its schema is one of a newer version of the program.
NoJob == [there |-> FALSE, enabled |-> FALSE, rev |-> 0, cursor |-> "none", over |-> FALSE,
          newer |-> FALSE]
Revisions == 0 .. MaxRev + 1
JobRecords == [there : BOOLEAN, enabled : BOOLEAN, rev : Revisions,
               cursor : {"none", "ahead", "due"}, over : BOOLEAN, newer : BOOLEAN]
NoCheck == [on |-> FALSE, left |-> {}, awaited |-> <<>>]

InitAutomations ==
    /\ job = [j \in Jobs |-> NoJob]
    /\ check = NoCheck
    /\ lock = [j \in Jobs |-> FALSE]
    /\ exec = [j \in Jobs |-> 0]
    /\ past = [trouble |-> 0, runs |-> [j \in Jobs |-> 0], cause |-> [j \in Jobs |-> {}],
               edited |-> [j \in Jobs |-> FALSE]]

Awaits(j) == check.awaited # <<>> /\ check.awaited[1].id = j

----------------------------------------------------------------------------
(* The store.  Every write reads the file, changes one job and replaces it.  *)

\* _calcNextRun: nothing for a one-time job whose time is over.
NextCursor(j, over) == IF j \in OneTime /\ over THEN "none" ELSE "ahead"

\* A moved cursor has not been run; an edit may meet an execution, and then leaves a job
\* that is to run again, or not.
Moved(h, j) == [h EXCEPT !.runs[j] = 0, !.cause[j] = {}]
Met(h, j) == IF Awaits(j)
             THEN [h EXCEPT !.cause[j] = @ \cup {"edited"},
                            !.edited[j] = job'[j].enabled /\ job'[j].cursor # "none"]
             ELSE h
Forgotten(h, j) == [h EXCEPT !.edited[j] = FALSE]

AddJob(j) ==
    /\ job[j].rev = 0   \* an id is given to one job only
    /\ \E newer \in BOOLEAN :
        job' = [job EXCEPT ![j] = [there |-> TRUE, enabled |-> TRUE, rev |-> 1,
                                   cursor |-> "ahead", over |-> FALSE, newer |-> newer]]
    /\ UNCHANGED <<check, lock, exec, past>>

RemoveJob(j) ==
    /\ job[j].there
    /\ job' = [job EXCEPT ![j] = [NoJob EXCEPT !.rev = MaxRev]]
    /\ past' = Forgotten(past, j)
    /\ UNCHANGED <<check, lock, exec>>

\* updateJob of the prompt: the cursor stays.
EditJob(j) ==
    /\ job[j].there /\ job[j].rev < MaxRev
    /\ job' = [job EXCEPT ![j].rev = @ + 1]
    /\ past' = Met(past, j)
    /\ UNCHANGED <<check, lock, exec>>

\* updateJob of the schedule: a new cursor, of a time still to come.
RescheduleJob(j) ==
    /\ job[j].there /\ job[j].rev < MaxRev
    /\ job' = [job EXCEPT ![j].rev = @ + 1, ![j].cursor = "ahead", ![j].over = FALSE]
    /\ past' = Moved(Met(past, j), j)
    /\ UNCHANGED <<check, lock, exec>>

\* toggleJob: a job that is enabled gets the next cursor.
ToggleJob(j) ==
    /\ job[j].there /\ job[j].rev < MaxRev
    /\ job' = [job EXCEPT ![j].rev = @ + 1, ![j].enabled = ~@,
                          ![j].cursor = IF job[j].enabled THEN @ ELSE NextCursor(j, job[j].over)]
    /\ past' = Forgotten(IF job[j].enabled THEN Met(past, j) ELSE Moved(past, j), j)
    /\ UNCHANGED <<check, lock, exec>>

\* updateJob of "enabled": only a missing cursor is set.
SwitchJob(j) ==
    /\ job[j].there /\ job[j].rev < MaxRev
    /\ LET fresh == ~job[j].enabled /\ job[j].cursor = "none" IN
        /\ job' = [job EXCEPT ![j].rev = @ + 1, ![j].enabled = ~@,
                              ![j].cursor = IF fresh THEN NextCursor(j, job[j].over) ELSE @]
        /\ past' = Forgotten(Met(past, j), j)
    /\ UNCHANGED <<check, lock, exec>>

\* Mutant: whatever the revision.
MarkedAnyway(o, j, success, rev) ==
    IF ~o.job[j].there THEN o
    ELSE LET last == j \in OneTime /\ o.job[j].enabled
         IN  [job |-> [o.job EXCEPT
                 ![j].cursor = IF success THEN NextCursor(j, o.job[j].over) ELSE "ahead",
                 ![j].enabled = @ /\ ~last,
                 ![j].rev = IF last THEN @ + 1 ELSE @],
              past |-> Moved(o.past, j)]

\* Mutant: every run makes a new revision.
MarkedRevised(o, j, success, rev) ==
    IF ~o.job[j].there \/ o.job[j].rev # rev THEN o
    ELSE LET last == j \in OneTime /\ o.job[j].enabled
         IN  [job |-> [o.job EXCEPT
                 ![j].cursor = IF success THEN NextCursor(j, o.job[j].over) ELSE "ahead",
                 ![j].enabled = @ /\ ~last,
                 ![j].rev = @ + 1],
              past |-> Moved(o.past, j)]

\* Mutant: a run that failed leaves the cursor where it is.
MarkedIfRight(o, j, success, rev) ==
    IF ~o.job[j].there \/ o.job[j].rev # rev \/ ~success THEN o
    ELSE LET last == j \in OneTime /\ o.job[j].enabled
         IN  [job |-> [o.job EXCEPT
                 ![j].cursor = NextCursor(j, o.job[j].over),
                 ![j].enabled = @ /\ ~last,
                 ![j].rev = IF last THEN @ + 1 ELSE @],
              past |-> Moved(o.past, j)]

\* markRun: a job still at the revision that ran gets its next cursor, after a failure
\* a delayed one; a one-time job is disabled, which makes a new revision.
Marked(o, j, success, rev) ==
    IF ~o.job[j].there \/ o.job[j].rev # rev THEN o
    ELSE LET last == j \in OneTime /\ o.job[j].enabled
         IN  [job |-> [o.job EXCEPT
                 ![j].cursor = IF success THEN NextCursor(j, o.job[j].over) ELSE "ahead",
                 ![j].enabled = @ /\ ~last,
                 ![j].rev = IF last THEN @ + 1 ELSE @],
              past |-> Moved(o.past, j)]

----------------------------------------------------------------------------
(* The scheduler.                                                            *)

\* The time of a cursor comes.
TimeComes(j) ==
    /\ job[j].there /\ job[j].cursor = "ahead"
    /\ job' = [job EXCEPT ![j].cursor = "due", ![j].over = j \in OneTime]
    /\ UNCHANGED <<check, lock, exec, past>>

Ready(r) == r.there /\ r.enabled /\ r.cursor = "due"

\* checkJobs lists the jobs, unless a check is under way.
CheckStarts ==
    /\ ~check.on
    /\ check' = [on |-> TRUE, awaited |-> <<>>,
                 left |-> {[id |-> j, due |-> Ready(job[j])] : j \in {i \in Jobs : job[i].there}}]
    /\ UNCHANGED <<job, lock, exec, past>>

CheckEnds ==
    /\ check.on /\ check.left = {}
    /\ check' = NoCheck
    /\ UNCHANGED <<job, lock, exec, past>>

\* Mutant: a job that was due when it was listed.
DueAsListed(e) == e.due

\* The job is read again when its turn comes.
DueAsReread(e) == Ready(job[e.id])

\* The jobs listed have their turns in the order of the file.
Turn(e) ==
    /\ check.on /\ check.awaited = <<>>
    /\ e \in check.left /\ \A f \in check.left : Place[e.id] <= Place[f.id]
Behind(j) == [check EXCEPT !.left = {e \in @ : e.id # j}, !.awaited = <<>>]

PassesOver(e) ==
    /\ Turn(e) /\ ~DueAsReread(e)
    /\ check' = Behind(e.id)
    /\ UNCHANGED <<job, lock, exec, past>>

\* What the end of a run writes, of whose log lines "lost" cannot be written: a run
\* that was right but not logged is marked once more, as failed; the next loss, or
\* the first one after a failure or a skip, is the end of the check.
Recorded(j, outcome, rev, lost) ==
    LET h == IF Awaits(j) THEN past ELSE Forgotten(past, j)
        o == [job |-> job, past |-> [h EXCEPT !.trouble = @ + lost]]
        first == IF outcome = "skipped" THEN o ELSE Marked(o, j, outcome = "right", rev)
        again == outcome = "right" /\ lost > 0
        end == IF again THEN Marked(first, j, FALSE, rev) ELSE first
    IN  /\ past.trouble + lost <= MaxTrouble
        /\ lost <= IF outcome = "right" THEN 2 ELSE 1
        /\ job' = end.job /\ past' = end.past
        /\ check' = IF lost = (IF outcome = "right" THEN 2 ELSE 1) THEN NoCheck ELSE Behind(j)

\* A job of a newer version, one that still executes, or one whose agent is gone.
Refuses(e) ==
    /\ Turn(e) /\ DueAsReread(e)
    /\ \E lost \in 0..1 :
        \/ (job[e.id].newer \/ lock[e.id]) /\ Recorded(e.id, "skipped", 0, lost)
        \/ ~job[e.id].newer /\ Recorded(e.id, "failed", job[e.id].rev, lost)
    /\ UNCHANGED <<lock, exec>>

\* The execution starts, and the check awaits it.
Starts(e) ==
    /\ Turn(e) /\ DueAsReread(e) /\ ~job[e.id].newer /\ ~lock[e.id]
    /\ lock' = [lock EXCEPT ![e.id] = TRUE]
    /\ exec' = [exec EXCEPT ![e.id] = @ + 1]
    /\ check' = [check EXCEPT !.awaited = <<[id |-> e.id, rev |-> job[e.id].rev]>>]
    /\ past' = Forgotten([past EXCEPT !.runs[e.id] = @ + 1], e.id)
    /\ UNCHANGED job

\* Mutant: only an execution that is awaited gives its lock back.
RunEndsAwaited(j) ==
    /\ exec[j] > 0
    /\ exec' = [exec EXCEPT ![j] = @ - 1]
    /\ lock' = [lock EXCEPT ![j] = ~Awaits(j)]
    /\ IF Awaits(j)
       THEN \E outcome \in {"right", "failed"}, lost \in 0..2 :
                Recorded(j, outcome, check.awaited[1].rev, lost)
       ELSE UNCHANGED <<job, check, past>>

\* An execution ends, in time or long after its timeout; then nobody waits for it.
RunEnds(j) ==
    /\ exec[j] > 0
    /\ exec' = [exec EXCEPT ![j] = @ - 1]
    /\ lock' = [lock EXCEPT ![j] = FALSE]
    /\ IF Awaits(j)
       THEN \E outcome \in {"right", "failed"}, lost \in 0..2 :
                Recorded(j, outcome, check.awaited[1].rev, lost)
       ELSE UNCHANGED <<job, check, past>>

\* Mutant: the lock goes with the timeout.
TimesOutUnlocked ==
    /\ check.awaited # <<>>
    /\ LET a == check.awaited[1] IN
        /\ \E lost \in 0..1 : Recorded(a.id, "failed", a.rev, lost)
        /\ lock' = [lock EXCEPT ![a.id] = FALSE]
    /\ UNCHANGED exec

\* The timeout: the execution is aborted and takes its time; the check goes on.
TimesOut ==
    /\ check.awaited # <<>>
    /\ LET a == check.awaited[1] IN \E lost \in 0..1 : Recorded(a.id, "failed", a.rev, lost)
    /\ UNCHANGED <<lock, exec>>

\* The process ends and starts anew: the file is all there is.
SchedulerCrash ==
    /\ past.trouble < MaxTrouble
    /\ check' = NoCheck
    /\ lock' = [j \in Jobs |-> FALSE] /\ exec' = [j \in Jobs |-> 0]
    /\ past' = [past EXCEPT !.trouble = @ + 1,
                   !.cause = [j \in Jobs |-> IF Awaits(j) THEN @[j] \cup {"crashed"} ELSE @[j]]]
    /\ UNCHANGED job

UserStep(j) ==
    AddJob(j) \/ RemoveJob(j) \/ EditJob(j) \/ RescheduleJob(j) \/ ToggleJob(j) \/ SwitchJob(j)
CheckStep ==
    \/ CheckStarts \/ CheckEnds \/ TimesOut
    \/ \E e \in check.left : PassesOver(e) \/ Refuses(e) \/ Starts(e)

NextAutomations ==
    \/ \E j \in Jobs : UserStep(j) \/ TimeComes(j) \/ RunEnds(j)
    \/ CheckStep \/ SchedulerCrash

\* The minute's timer and the timeout fire, and an execution ends, aborted or not.
AutomationsFairness ==
    /\ WF_automationVars(CheckStep)
    /\ \A j \in Jobs : WF_automationVars(RunEnds(j))

SpecAutomations == InitAutomations /\ [][NextAutomations]_automationVars
FairAutomations == SpecAutomations /\ AutomationsFairness

----------------------------------------------------------------------------
(* Properties.                                                               *)

AutomationsTypeOK ==
    /\ job \in [Jobs -> JobRecords]
    /\ check.on \in BOOLEAN
    /\ check.left \subseteq [id : Jobs, due : BOOLEAN]
    /\ check.awaited \in Seq([id : Jobs, rev : Nat])
    /\ lock \in [Jobs -> BOOLEAN] /\ exec \in [Jobs -> Nat]
    /\ past \in [trouble : 0..MaxTrouble, runs : [Jobs -> Nat],
                 cause : [Jobs -> SUBSET {"edited", "crashed"}], edited : [Jobs -> BOOLEAN]]

\* No job executes beside itself, though an execution that has timed out may go on
\* for as long as it likes and its cursor becomes due again meanwhile.
OneExecution == \A j \in Jobs : exec[j] <= 1

\* A cursor is executed a second time only if the job was edited while its run was
\* awaited, or the process died then: failures, timeouts, skips and log lines that
\* could not be written never make a job run again for the same time.
RunsAgainForACause == \A j \in Jobs : past.runs[j] > 1 => past.cause[j] # {}

\* An edit made while the job runs stands when the run ends: a job that it left enabled
\* with a time to run at, a one-time job included, stays so.
EditStands ==
    \A j \in Jobs : past.edited[j] => job[j].enabled /\ job[j].cursor # "none"

\* A job that was removed, disabled or put off while another one was awaited is not
\* started by the check that had listed it.
StartsWhatIsDue ==
    [][\A j \in Jobs : exec'[j] > exec[j] => Ready(job[j])]_automationVars

\* A due job gets its run, however long those before it take, unless the user or a
\* failure moves it on.
DueIsServed ==
    \A j \in Jobs : Ready(job[j]) /\ ~job[j].newer ~> Awaits(j) \/ ~Ready(job[j])
=============================================================================
