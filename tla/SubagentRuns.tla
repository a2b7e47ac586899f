----------------------------- MODULE SubagentRuns -----------------------------
(* The subagents of one session.  A run either makes a new thread, with a      *)
(* child session of its own, or goes on with one that is open; the runs of a   *)
(* thread wait for each other in a chain, which a fork of the session also     *)
(* joins while it copies the child session.  Each run has a record in the      *)
(* deferred-result store, the run store and the task registry.  The first is   *)
(* on disk a second after it changed; the run store and the thread store write *)
(* at once, and throw when the file cannot be written.                         *)
(* src/lib/tools/subagent-tool.ts, src/lib/subagent-thread-store.ts,           *)
(* src/lib/subagent-run-store.ts, src/lib/deferred-result-store.ts, and        *)
(* executeIsolated and the clean-up of a stop in                               *)
(* src/core/session-coordinator.ts.                                            *)
EXTENDS Integers, FiniteSets

CONSTANTS
    Runs,            \* the runs there may be; one that makes a thread gives it its id
    Nobody, Gate,    \* no run, and the promise of a fork, in a chain
    MaxPerSession,   \* runs that make a thread, at a time
    MaxUpsets        \* bound: aborts, stops, deletions of the agent, writes that fail,
                     \* ends of the process

ASSUME SubagentAssumption ==
    /\ Nobody \notin Runs /\ Gate \notin Runs /\ Nobody # Gate
    /\ MaxPerSession \in Nat \ {0} /\ MaxUpsets \in Nat

VARIABLES
    run,       \* where each run has got to
    thread,    \* _threads of the thread store, by the run that made it
    chain,     \* _chains: the last in line for each thread
    copying,   \* the threads a fork copies
    record,    \* what the three stores say of each run
    disk,      \* the files of the deferred results, of the run store and of the threads
    account    \* what has happened (history, read by properties and bounds only)
subagentVars == <<run, thread, chain, copying, record, disk, account>>

\* "preparing": the child session's prompt has been called and its run not begun;
\* "ending": executeIsolated has returned and the stores have not been told;
\* "lost": in flight when the process ended.
InHand == {"creating", "preparing", "running"}
InLine == InHand \cup {"queued"}
RunStages == InLine \cup {"new", "ending", "over", "lost"}
Outcomes == {"resolved", "failed", "aborted"}
\* signal: the run's abort signal; told: its child session has heard of it.
NewRun == [stage |-> "new", of |-> Nobody, prev |-> Nobody, signal |-> FALSE, told |-> FALSE,
           right |-> FALSE]
NoThread == [status |-> "none", last |-> "pending", child |-> FALSE]
NewRecord == [deferred |-> "none", store |-> "none", task |-> "none"]

InitSubagentRuns ==
    /\ run = [r \in Runs |-> NewRun]
    /\ thread = [t \in Runs |-> NoThread]
    /\ chain = [t \in Runs |-> Nobody]
    /\ copying = {}
    /\ record = [r \in Runs |-> NewRecord]
    /\ disk = [deferred |-> [r \in Runs |-> "none"], store |-> [r \in Runs |-> "none"],
               thread |-> [t \in Runs |-> NoThread]]
    /\ account = [upsets |-> 0, stopped |-> {}, gone |-> {}, late |-> {}, torn |-> {}, stuck |-> {}]

Flying(r) == run[r].stage \in InLine
Stage(r, stage) == run' = [run EXCEPT ![r].stage = stage]

\* The turn of a queued run comes when the one before it in line has returned.
Due(r) == run[r].stage = "queued" /\
    CASE run[r].prev = Nobody -> TRUE
      [] run[r].prev = Gate -> run[r].of \notin copying
      [] OTHER -> run[run[r].prev].stage = "ending"

\* Turns and settlements follow in the same tick: nothing else happens before.
Calm == \A r \in Runs : ~Due(r) /\ run[r].stage # "ending"

\* A step writes these files, whole, with what their stores hold after it.
DeferredOf(rec) == [r \in Runs |-> rec[r].deferred]
StoreOf(rec) == [r \in Runs |-> rec[r].store]
Writes(files) ==
    disk' = [deferred |-> IF "deferred" \in files THEN DeferredOf(record') ELSE disk.deferred,
             store |-> IF "store" \in files THEN StoreOf(record') ELSE disk.store,
             thread |-> IF "thread" \in files THEN thread' ELSE disk.thread]

\* The timer of the deferred results; another session whose runs or threads change.
Flush ==
    /\ \E file \in {"deferred", "store", "thread"} : UNCHANGED <<record, thread>> /\ Writes({file})
    /\ UNCHANGED <<run, chain, copying, account>>

\* There is room for a step of which so many upsets come.
Upset(n) == account.upsets + n <= MaxUpsets

----------------------------------------------------------------------------
(* The tools: subagent, subagent_reply and subagent_close.                   *)

\* A run joins the line of its thread and gets its records.
Joins(r, t) ==
    /\ run' = [run EXCEPT ![r] = [NewRun EXCEPT !.stage = "queued", !.of = t, !.prev = chain[t]]]
    /\ chain' = [chain EXCEPT ![t] = r]
    /\ record' = [record EXCEPT ![r] = [deferred |-> "pending", store |-> "pending",
                                        task |-> "active"]]
    /\ UNCHANGED <<thread, copying, account>>
    /\ Writes({"store"})

\* The run store cannot be written: the tool throws, and leaves a deferred result and a
\* run on record that nobody runs.
GoesNowhere(r) ==
    /\ Upset(1)
    /\ run' = [run EXCEPT ![r].stage = "over"]
    /\ record' = [record EXCEPT ![r] = [deferred |-> "pending", store |-> "pending",
                                        task |-> "none"]]
    /\ account' = [account EXCEPT !.upsets = @ + 1, !.torn = @ \cup {r}]
    /\ UNCHANGED <<thread, chain, copying, disk>>

Dispatch(r) ==
    /\ run[r].stage = "new" /\ Calm
    /\ Cardinality({q \in Runs : Flying(q) /\ run[q].of = q}) < MaxPerSession
    /\ Joins(r, r) \/ GoesNowhere(r)

Reply(r, t) ==
    /\ run[r].stage = "new" /\ Calm /\ thread[t].status = "open"
    /\ Joins(r, t) \/ GoesNowhere(r)

CloseThread(t) ==
    /\ Calm /\ thread[t].status = "open" /\ chain[t] = Nobody
    /\ thread' = [thread EXCEPT ![t].status = "closed"]
    /\ \E written \in {{}, {"thread"}} :
        /\ UNCHANGED record /\ Writes(written)
        /\ IF written = {} THEN Upset(1) /\ account' = [account EXCEPT !.upsets = @ + 1]
           ELSE UNCHANGED account
    /\ UNCHANGED <<run, chain, copying>>

----------------------------------------------------------------------------
(* A run, from its turn to its settlement.                                   *)

\* Mutant: a run takes the whole line with it.
UnchainedAll(r) == [chain EXCEPT ![run[r].of] = Nobody]

\* A run that returns leaves the line, which is forgotten if nobody stands behind it.
Unchained(r) == [chain EXCEPT ![run[r].of] = IF @ = r THEN Nobody ELSE @]

Returns(r, right) ==
    /\ run' = [run EXCEPT ![r].stage = "ending", ![r].right = right]
    /\ chain' = Unchained(r)

\* The turn of a run: one that goes on with a thread needs it open and its child
\* session known.  A thread that cannot be written ends the run, and a signal given in
\* the queue too, before it makes anything.
ThreadTurn(r) ==
    /\ Due(r)
    /\ LET t == run[r].of IN
        IF r # t /\ (thread[t].status # "open" \/ ~thread[t].child)
        THEN Returns(r, FALSE) /\ UNCHANGED <<thread, disk, account>>
        ELSE \E fails \in 0..1 :
            /\ Upset(fails)
            /\ thread' = [thread EXCEPT ![t].status = "open", ![t].last = "pending"]
            /\ IF fails = 1 \/ run[r].signal THEN Returns(r, FALSE)
               ELSE Stage(r, "creating") /\ UNCHANGED chain
            /\ account' = [account EXCEPT !.upsets = @ + fails]
            /\ Writes(IF fails = 1 THEN {} ELSE {"thread"})
    /\ UNCHANGED <<copying, record>>

\* The child session is ready, which the run store learns and then the thread, also one
\* that is gone or that belongs to a run whose signal has been given meanwhile; such a
\* run goes no further.  One that cannot be written is passed over, with what follows.
ChildReady(r) ==
    /\ run[r].stage = "creating" /\ Calm
    /\ \E written \in {{}, {"store"}, {"store", "thread"}} :
        LET t == run[r].of
            fails == IF "thread" \in written THEN 0 ELSE 1
            learnt == "store" \in written
        IN  /\ Upset(fails)
            /\ thread' = IF learnt
                         THEN [thread EXCEPT ![t].child = TRUE,
                                             ![t].status = IF @ = "none" THEN "open" ELSE @]
                         ELSE thread
            /\ account' = [account EXCEPT !.upsets = @ + fails,
                   !.late = IF learnt /\ thread[t].status = "none" THEN @ \cup {t} ELSE @]
            /\ UNCHANGED record /\ Writes(written)
    /\ IF run[r].signal THEN Returns(r, FALSE) ELSE Stage(r, "preparing") /\ UNCHANGED chain
    /\ UNCHANGED copying

\* The child session cannot be made or opened, or its prompt not be prepared.
ChildFails(r) ==
    /\ run[r].stage \in {"creating", "preparing"} /\ Calm
    /\ Returns(r, FALSE)
    /\ UNCHANGED <<thread, copying, record, disk, account>>

\* Mutant: a signal given while the prompt was prepared is not given again.
PromptRunsDeaf(r) ==
    /\ run[r].stage = "preparing" /\ Calm
    /\ Stage(r, "running")
    /\ UNCHANGED <<thread, chain, copying, record, disk, account>>

\* The run of the child session begins; its first event repeats a signal that the
\* session could not hear before.
PromptRuns(r) ==
    /\ run[r].stage = "preparing" /\ Calm
    /\ run' = [run EXCEPT ![r].stage = "running", ![r].told = run[r].signal]
    /\ UNCHANGED <<thread, chain, copying, record, disk, account>>

\* The child session ends by itself, or as it was told.
ChildEnds(r) ==
    /\ run[r].stage = "running" /\ Calm
    /\ \E right \in BOOLEAN : Returns(r, right)
    /\ UNCHANGED <<thread, copying, record, disk, account>>

ChildStops(r) ==
    /\ run[r].stage = "running" /\ run[r].told /\ Calm
    /\ Returns(r, FALSE)
    /\ UNCHANGED <<thread, copying, record, disk, account>>

\* Mutant: what the child session returned counts, stopped or not.
OutcomeUnasked(r) == IF run[r].right THEN "resolved" ELSE "failed"

\* A run that was stopped is aborted, whatever its child session returned.
Outcome(r) == IF record[r].task = "aborted" THEN "aborted"
              ELSE IF run[r].right THEN "resolved" ELSE "failed"

\* What the .catch of a settlement that threw tells of its run.
Caught(r) == IF record[r].task = "aborted" THEN "aborted" ELSE "failed"

\* The deferred result is settled once, the run store written anyway.
Told(rec, outcome) ==
    [rec EXCEPT !.deferred = IF @ = "pending" THEN outcome ELSE @, !.store = outcome]

\* Mutant: the end of a run makes the thread that is not there.
FinishedAnew(th, outcome) == [th EXCEPT !.status = "open", !.last = outcome]

\* finishRun: a thread that was removed stays so.
Finished(th, outcome) ==
    IF th.status = "none" THEN th ELSE [th EXCEPT !.status = "open", !.last = outcome]

\* The stores are told one after the other: at n = 0 none has been, and nothing was
\* written; at 1 and 2 the run store and the thread have been told and the write threw;
\* at 3 all is written.
RecordAt(rec, outcome, n) == IF n = 0 THEN rec ELSE Told(rec, outcome)
ThreadAt(th, outcome, n) == IF n < 2 THEN th ELSE Finished(th, outcome)

\* A run that threw gets to its .catch at once; a settlement that throws at n does, and
\* that may throw at m.  The next in line has begun by then, and its thread, which it
\* marked as pending, is told the outcome of this run.
Settles(r) ==
    /\ run[r].stage = "ending"
    /\ \A q \in Runs : ~(run[q].stage = "queued" /\ run[q].prev = r)
    /\ \E n \in 0..3, m \in 1..3 :
        LET t == run[r].of
            first == RecordAt(record[r], Outcome(r), n)
            then == IF n = 3 THEN first ELSE RecordAt(first, Caught(r), m)
            half == ThreadAt(thread[t], Outcome(r), n)
            threw == n \in {1, 2} \/ (n = 0 /\ run[r].right)
            fails == (IF threw THEN 1 ELSE 0) + (IF m < 3 THEN 1 ELSE 0)
        IN  /\ n = 3 => m = 3
            /\ Upset(fails)
            /\ record' = [record EXCEPT ![r] = [then EXCEPT !.task = "none"]]
            /\ thread' = [thread EXCEPT ![t] = IF n = 3 THEN half ELSE ThreadAt(half, Caught(r), m)]
            /\ disk' = [disk EXCEPT
                   !.store = IF m >= 2 THEN StoreOf(record')
                             ELSE IF n = 2 THEN StoreOf([record EXCEPT ![r] = first]) ELSE @,
                   !.thread = IF m = 3 THEN thread' ELSE @]
            /\ account' = [account EXCEPT !.upsets = @ + fails,
                   !.torn = IF n \in {1, 2} /\ Outcome(r) # Caught(r) THEN @ \cup {r} ELSE @,
                   !.stuck = IF n < 2 /\ m = 1 THEN @ \cup {t} ELSE @]
    /\ run' = [run EXCEPT ![r] = [NewRun EXCEPT !.stage = "over"]]
    /\ UNCHANGED <<chain, copying>>

----------------------------------------------------------------------------
(* Aborts, stops, forks, and the end of the process.                         *)

\* The abort handler of the registry, and the timer of a run: a child session that
\* runs hears it.
Signalled(r) ==
    IF Flying(r) THEN [run[r] EXCEPT !.signal = TRUE, !.told = @ \/ run[r].stage = "running"]
    ELSE run[r]

RunTimesOut(r) ==
    /\ run[r].stage \in InHand /\ ~run[r].signal /\ Calm
    /\ run' = [run EXCEPT ![r] = Signalled(r)]
    /\ UNCHANGED <<thread, chain, copying, record, disk, account>>

\* Those of which a stop comes before their end is on record.
Stops(some) == {r \in some : record[r].deferred = "pending" /\ record[r].store = "pending"}

\* abort of one run's task in the registry.
AbortRun(r) ==
    /\ record[r].task \in {"active", "recovering"} /\ Calm /\ Upset(1)
    /\ record' = [record EXCEPT ![r].task = "aborted"]
    /\ run' = [run EXCEPT ![r] = Signalled(r)]
    /\ account' = [account EXCEPT !.upsets = @ + 1, !.stopped = @ \cup Stops({r})]
    /\ UNCHANGED <<thread, chain, copying, disk>>

\* Threads are put away: for good if that can be written.
PutAway(written) ==
    LET present == {t \in Runs : thread[t].status # "none"}
    IN  IF "thread" \in written THEN account.gone \cup present ELSE account.gone

Aborted(status) == IF status = "pending" THEN "aborted" ELSE status

\* A stop of the session: its tasks are aborted, then its runs, its threads and its
\* deferred results put away.  A write that fails is passed over.
StopParent ==
    /\ Calm /\ Upset(1)
    /\ run' = [r \in Runs |-> IF record[r].task = "active" THEN Signalled(r) ELSE run[r]]
    /\ record' = [r \in Runs |->
           [deferred |-> Aborted(record[r].deferred), store |-> Aborted(record[r].store),
            task |-> IF record[r].task = "none" THEN "none" ELSE "aborted"]]
    /\ thread' = [t \in Runs |-> NoThread]
    /\ \E written \in SUBSET {"store", "thread"} :
        /\ account' = [account EXCEPT !.upsets = @ + 1, !.stopped = @ \cup Stops(Runs),
                                      !.gone = PutAway(written)]
        /\ Writes(written)
    /\ UNCHANGED <<chain, copying>>

\* The agent that runs them is deleted: its threads go, its runs go on.
AgentDeleted ==
    /\ Calm /\ Upset(1)
    /\ thread' = [t \in Runs |-> NoThread]
    /\ \E written \in {{}, {"thread"}} :
        /\ account' = [account EXCEPT !.upsets = @ + 1, !.gone = PutAway(written)]
        /\ UNCHANGED record /\ Writes(written)
    /\ UNCHANGED <<run, chain, copying>>

\* A fork takes its place in the line of a thread nobody stands in.
ForkStarts(t) ==
    /\ Calm /\ thread[t].child /\ chain[t] = Nobody
    /\ copying' = copying \cup {t}
    /\ chain' = [chain EXCEPT ![t] = Gate]
    /\ UNCHANGED <<run, thread, record, disk, account>>

\* The copy is made, or given up.
ForkEnds(t) ==
    /\ t \in copying /\ Calm
    /\ copying' = copying \ {t}
    /\ chain' = [chain EXCEPT ![t] = IF @ = Gate THEN Nobody ELSE @]
    /\ UNCHANGED <<run, thread, record, disk, account>>

\* _load of the thread store: what was pending has failed.
Repaired(th) == IF th.status # "none" /\ th.last = "pending"
                THEN [th EXCEPT !.status = "open", !.last = "failed"] ELSE th

\* The files when the process dies: as they are, or within the settlement of `cut`, whose
\* outcome is in the run store and perhaps in its thread.
StoreLeft(cut) ==
    IF cut = Nobody THEN disk.store ELSE [StoreOf(record) EXCEPT ![cut] = Outcome(cut)]
ThreadsLeft(cut, both) ==
    IF cut = Nobody \/ ~both THEN disk.thread
    ELSE [thread EXCEPT ![run[cut].of] = Finished(@, Outcome(cut))]

\* Runs whose outcome dies with the process: it was not flushed, or not written.
Lost(left) ==
    {r \in Runs : \/ left[r] # record[r].store
                  \/ record[r].deferred \in Outcomes /\ disk.deferred[r] # record[r].deferred}

\* The process ends and starts anew from its files: no run goes on, and only the registry
\* and the thread store notice.
SubagentCrash ==
    /\ Upset(1)
    /\ \E cut \in {Nobody} \cup {r \in Runs : run[r].stage = "ending"}, both \in BOOLEAN :
        /\ record' = [r \in Runs |->
               [deferred |-> disk.deferred[r], store |-> StoreLeft(cut)[r],
                task |-> IF record[r].task = "active" THEN "recovering" ELSE record[r].task]]
        /\ thread' = [t \in Runs |-> Repaired(ThreadsLeft(cut, both)[t])]
        /\ account' = [account EXCEPT !.upsets = @ + 1, !.torn = @ \cup Lost(StoreLeft(cut))]
    /\ run' = [r \in Runs |-> IF run[r].stage \in {"new", "over", "lost"} THEN run[r]
                              ELSE [NewRun EXCEPT !.stage = "lost"]]
    /\ chain' = [t \in Runs |-> Nobody]
    /\ copying' = {}
    /\ Writes({"store", "thread"})

RunStep(r) == ThreadTurn(r) \/ ChildReady(r) \/ ChildFails(r) \/ PromptRuns(r) \/ ChildStops(r)
              \/ Settles(r)

NextSubagentRuns ==
    \/ \E r \in Runs : Dispatch(r) \/ RunStep(r) \/ ChildEnds(r) \/ RunTimesOut(r) \/ AbortRun(r)
    \/ \E r, t \in Runs : Reply(r, t)
    \/ \E t \in Runs : CloseThread(t) \/ ForkStarts(t) \/ ForkEnds(t)
    \/ StopParent \/ AgentDeleted \/ SubagentCrash \/ Flush

\* A child session is made or not and its prompt prepared or not, one that is told to
\* stop stops, timers fire, copies end.  A child session need not end by itself.
SubagentFairness ==
    \A r \in Runs : /\ WF_subagentVars(RunStep(r))
                    /\ WF_subagentVars(RunTimesOut(r))
                    /\ WF_subagentVars(ForkEnds(r))

SpecSubagentRuns == InitSubagentRuns /\ [][NextSubagentRuns]_subagentVars
FairSubagentRuns == SpecSubagentRuns /\ SubagentFairness

----------------------------------------------------------------------------
(* Properties.                                                               *)

SubagentTypeOK ==
    /\ run \in [Runs -> [stage : RunStages, of : Runs \cup {Nobody},
                         prev : Runs \cup {Nobody, Gate}, signal : BOOLEAN, told : BOOLEAN,
                         right : BOOLEAN]]
    /\ thread \in [Runs -> [status : {"none", "open", "closed"}, child : BOOLEAN,
                            last : {"pending"} \cup Outcomes]]
    /\ chain \in [Runs -> Runs \cup {Nobody, Gate}] /\ copying \subseteq Runs
    /\ \A t \in Runs : chain[t] \in Runs => Flying(chain[t]) /\ run[chain[t]].of = t
    /\ record \in [Runs -> [deferred : {"none", "pending"} \cup Outcomes,
                            store : {"none", "pending"} \cup Outcomes,
                            task : {"none", "active", "recovering", "aborted"}]]
    /\ disk \in [deferred : [Runs -> {"none", "pending"} \cup Outcomes],
                 store : [Runs -> {"none", "pending"} \cup Outcomes],
                 thread : [Runs -> [status : {"none", "open", "closed"}, child : BOOLEAN,
                                    last : {"pending"} \cup Outcomes]]]
    /\ account \in [upsets : 0..MaxUpsets, stopped : SUBSET Runs, gone : SUBSET Runs,
                    late : SUBSET Runs, torn : SUBSET Runs, stuck : SUBSET Runs]

\* Two runs never work in the child session of one thread, and none works there while
\* a fork copies it.
OneRunPerThread ==
    \A t \in Runs :
        LET at == {r \in Runs : run[r].stage \in InHand /\ run[r].of = t}
        IN  Cardinality(at) + (IF t \in copying THEN 1 ELSE 0) <= 1

\* The parent session is told of a run what its record says, and of every run that is
\* over, over restarts too, unless a write of its own threw or the process died before
\* its outcome was on disk.
OutcomesAgree ==
    \A r \in Runs \ account.torn :
        /\ record[r].deferred \in Outcomes /\ record[r].store \in Outcomes
               => record[r].deferred = record[r].store
        /\ run[r].stage = "over" => {record[r].deferred, record[r].store} \subseteq Outcomes

\* A run that was stopped before its end was recorded is never told as a success.
StoppedNeverSucceeds ==
    \A r \in account.stopped : "resolved" \notin {record[r].deferred, record[r].store}

\* A thread that was put away with its session or its agent, on disk too, does not come
\* back, unless its child session was still being made.
PutAwayStaysAway ==
    \A t \in account.gone \ account.late : thread[t].status = "none"

\* A thread in which nothing runs does not say that something does, after crashes too,
\* unless the end of its run and then its failure could not be written.
IdleIsSettled ==
    \A t \in Runs \ account.stuck :
        thread[t].status # "none" /\ thread[t].last = "pending"
            => \E r \in Runs : run[r].of = t /\ run[r].stage \in InHand \cup {"ending"}

\* A thread that was closed, on disk too, is not opened again, by a run that was under
\* way or by a restart, unless its last run is one whose end could not be written.
ClosedStaysClosed ==
    [][\A t \in Runs \ account.stuck :
           thread[t].status = "closed" /\ disk.thread[t].status = "closed"
               => thread'[t].status # "open"]_subagentVars

\* Every run is settled in the end, one that would go on for ever too: its time is up,
\* and its child session hears it, whenever the signal was given.
RunsSettle == \A r \in Runs : Flying(r) ~> run[r].stage \in {"over", "lost"}
=============================================================================
