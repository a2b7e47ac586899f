--------------------------- MODULE DeferredResults ---------------------------
(***************************************************************************)
(* The results of background tasks on their way back to the session that   *)
(* started them: the store (lib/deferred-result-store.ts), the coordinator *)
(* that tells the parent session (lib/deferred-result-coordinator.ts, with *)
(* deliverCustomMessage of core/session-coordinator.ts), the session-start *)
(* fallback (lib/extensions/deferred-result-ext.ts) and the bridge's own   *)
(* delivery (lib/bridge/bridge-manager.ts).                                *)
(*                                                                         *)
(* The server is one JavaScript thread: a step is the code between two     *)
(* awaits.  Settling a task runs the store's callbacks synchronously, so   *)
(* the start of the coordinator's delivery is part of that step; loading   *)
(* the session and sending the message are awaits, and anything can happen *)
(* to the task while a delivery hangs in one of them.                      *)
(***************************************************************************)
EXTENDS Naturals, FiniteSets

CONSTANTS
    Agent,            \* tasks of the session whose result wakes its agent
    Ui,               \* tasks of the session with a ui_only delivery intent
    Bridge,           \* tasks of the session with a bridge delivery target
    Foreign,          \* tasks of other sessions
    Aged,             \* tasks old enough for cleanup()
    MaxAttempt,       \* bound on the registrations of one task id
    MaxMade,          \* bound on the registrations of all of them
    MaxCrash,         \* bound on the crashes of a behaviour
    SessionScans,     \* TRUE: the SDK emits session_start to the extension
    RetryMidDelivery  \* TRUE: plugins retry a task whose delivery is under way

Task    == Agent \cup Ui \cup Bridge \cup Foreign
Own     == Agent \cup Ui \cup Bridge
Attempt == 1 .. MaxAttempt

ASSUME KindAssumption == /\ Ui \cap Agent = {}
                         /\ Bridge \cap (Agent \cup Ui) = {}
                         /\ Foreign \cap Own = {}
                         /\ Aged \subseteq Task
ASSUME BoundAssumption == MaxAttempt \in Nat /\ MaxMade \in Nat /\ MaxCrash \in Nat
ASSUME SwitchAssumption == /\ SessionScans \in BOOLEAN
                           /\ RetryMidDelivery \in BOOLEAN

VARIABLES
    task,     \* _tasks of the store; attempt numbers the registration
    disk,     \* the persisted copy of _tasks
    flight,   \* _inFlight: where the delivery is, and of which attempt
    bridge,   \* _deferredMediaDeliveries of the bridge manager
    session,  \* the parent session: runtime cold or live, leaving, or archived
    scan,     \* the 500 ms timer of the extension
    made,     \* registrations of each id so far
    told,     \* attempts whose outcome was put to the recipient
    doubt,    \* told attempts whose delivery failed or was cut off since
    twice,    \* attempts told again without such a reason
    crashes

vars == <<task, disk, flight, bridge, session, scan, made, told, doubt, twice,
          crashes>>

-----------------------------------------------------------------------------
Settled == {"resolved", "failed", "aborted"}
Status  == {"absent", "pending"} \cup Settled

Record == [status : Status, attempt : 0 .. MaxAttempt,
           delivered : BOOLEAN, fenced : BOOLEAN]
Absent == [status |-> "absent", attempt |-> 0, delivered |-> FALSE, fenced |-> FALSE]

\* A registration: the record defer() and retry() write.
Fresh(a) == [status |-> "pending", attempt |-> a, delivered |-> FALSE, fenced |-> FALSE]

Flight == [stage : {"idle", "loading", "sending", "done"}, attempt : 0 .. MaxAttempt]
Idle   == [stage |-> "idle", attempt |-> 0]

Deliverable(r) == r.status \in Settled /\ ~r.delivered

\* suppressDelivery and its siblings: close the task and keep its result in.
Fenced(r) == [status    |-> IF r.status = "pending" THEN "aborted" ELSE r.status,
              attempt   |-> r.attempt,
              delivered |-> TRUE,
              fenced    |-> TRUE]

\* markDelivered: a no-op on a fenced task, and blind to the attempt it is for.
Marked(r) == IF r.fenced
             THEN r
             ELSE [status |-> r.status, attempt |-> r.attempt,
                   delivered |-> TRUE, fenced |-> FALSE]

\* What suppressBySession fences: pending tasks and undelivered outcomes.
Open(r) == r.status = "pending" \/ Deliverable(r)

\* The store after markDelivered(t): a task that is gone is left alone.
MarkIfPresent(t) == IF task[t].status = "absent"
                    THEN task
                    ELSE [task EXCEPT ![t] = Marked(task[t])]

-----------------------------------------------------------------------------
Init ==
    /\ task    = [t \in Task |-> Absent]
    /\ disk    = [t \in Task |-> Absent]
    /\ flight  = [t \in Task |-> Idle]
    /\ bridge  = [t \in Task |-> Idle]
    /\ session = "cold"
    /\ scan    = "off"
    /\ made    = [t \in Task |-> 0]
    /\ told    = [t \in Task |-> {}]
    /\ doubt   = [t \in Task |-> {}]
    /\ twice   = [t \in Task |-> {}]
    /\ crashes = 0

(* The outcome of attempt[t] is put to the recipients of the tasks in S.   *)
Tell(S, attempt) ==
    /\ told'  = [t \in Task |-> IF t \in S THEN told[t] \cup {attempt[t]} ELSE told[t]]
    /\ doubt' = [t \in Task |-> IF t \in S THEN doubt[t] \ {attempt[t]} ELSE doubt[t]]
    /\ twice' = [t \in Task |-> IF t \in S /\ attempt[t] \in told[t] \ doubt[t]
                                THEN twice[t] \cup {attempt[t]}
                                ELSE twice[t]]

TellOne(t, a) == Tell({t}, [u \in Task |-> a])

\* A delivery of t that may have landed ends without being recorded.
Doubt(t, a) == /\ doubt' = [doubt EXCEPT ![t] = @ \cup {a}]
               /\ UNCHANGED <<told, twice>>

-----------------------------------------------------------------------------
(* The coordinator.  Deliver is deliverTask up to its first await, started *)
(* when the records are tk.                                                *)

\* Mutant of Skips: the in-flight map is not consulted.
SkipsUndeduplicated(tk, t) == ~Deliverable(tk[t]) \/ t \in Bridge \cup Foreign

\* Nothing to do: a delivery of t is in flight, t has no undelivered outcome,
\* the bridge owns it, or its session is another one.
Skips(tk, t) == flight[t] # Idle \/ ~Deliverable(tk[t]) \/ t \in Bridge \cup Foreign

\* The send is refused before the message is put anywhere: a preflight or the
\* load throws, and the outcome stays for the next tick of the retry timer.
Refused == UNCHANGED <<flight, told, doubt, twice>>

StartLoading(t, a) == /\ flight' = [flight EXCEPT ![t] = [stage |-> "loading", attempt |-> a]]
                      /\ UNCHANGED <<told, doubt, twice>>

StartSending(t, a) == /\ flight' = [flight EXCEPT ![t] = [stage |-> "sending", attempt |-> a]]
                      /\ TellOne(t, a)

Deliver(tk, t) ==
    \/ /\ Skips(tk, t)
       /\ task' = tk /\ Refused
    \/ /\ ~Skips(tk, t) /\ session = "gone"
       /\ task' = [tk EXCEPT ![t] = Fenced(tk[t])] /\ Refused
    \/ /\ ~Skips(tk, t) /\ session # "gone"
       /\ task' = tk
       /\ \/ Refused
          \/ t \in Agent /\ session # "live" /\ StartLoading(t, tk[t].attempt)
          \/ t \in Agent /\ session = "live" /\ StartSending(t, tk[t].attempt)
          \/ t \in Ui /\ StartSending(t, tk[t].attempt)

\* Mutant of Tick: only resolved tasks are listed.
TickResolved(t) ==
    /\ Deliverable(task[t]) /\ task[t].status = "resolved"
    /\ Deliver(task, t)
    /\ UNCHANGED <<disk, bridge, session, scan, made, crashes>>

\* The 30 s retry timer reaches t in its list of undelivered outcomes.
Tick(t) ==
    /\ Deliverable(task[t])
    /\ Deliver(task, t)
    /\ UNCHANGED <<disk, bridge, session, scan, made, crashes>>

\* Mutant of LoadFail: the task is marked although nothing was sent.
LoadFailMarked(t) ==
    /\ flight[t].stage = "loading"
    /\ flight' = [flight EXCEPT ![t] = Idle]
    /\ task' = MarkIfPresent(t)
    /\ UNCHANGED <<disk, bridge, session, scan, made, told, doubt, twice, crashes>>

\* ensureSessionLoaded throws.
LoadFail(t) ==
    /\ flight[t].stage = "loading"
    /\ flight' = [flight EXCEPT ![t] = Idle]
    /\ UNCHANGED <<task, disk, bridge, session, scan, made, told, doubt, twice, crashes>>

\* Mutant of MaySend: the fence is only looked at before the load.
MaySendUnchecked(t) == TRUE

\* shouldDeliver, asked again after the load.
MaySend(t) == ~task[t].fenced

\* The load returns.  A fenced task is dropped; any other is sent as it was
\* when the delivery started, or refused.
LoadOk(t) ==
    /\ flight[t].stage = "loading"
    /\ session' = IF session = "cold" THEN "live" ELSE session
    /\ scan' = IF session = "cold" /\ SessionScans THEN "armed" ELSE scan
    /\ \/ MaySend(t) /\ StartSending(t, flight[t].attempt)
       \/ /\ flight' = [flight EXCEPT ![t] = Idle]
          /\ UNCHANGED <<told, doubt, twice>>
    /\ UNCHANGED <<task, disk, bridge, made, crashes>>

\* sendCustomMessage or recordCustomEntry returns, and the task is marked.
SendOk(t) ==
    /\ flight[t].stage = "sending"
    /\ flight' = [flight EXCEPT ![t] = Idle]
    /\ task' = MarkIfPresent(t)
    /\ UNCHANGED <<disk, bridge, session, scan, made, told, doubt, twice, crashes>>

\* It throws, after the message may have landed.
SendFail(t) ==
    /\ flight[t].stage = "sending"
    /\ flight' = [flight EXCEPT ![t] = Idle]
    /\ Doubt(t, flight[t].attempt)
    /\ UNCHANGED <<task, disk, bridge, session, scan, made, crashes>>

-----------------------------------------------------------------------------
(* The bridge: handles the deferred_result event of its tasks once per id. *)

\* The event of a settled task: answered by the delivery of that id in the
\* cache, sent when there is none or it has expired, dropped for want of a
\* target.
BridgeEvent(t, a) ==
    \/ /\ bridge[t].stage # "sending"
       /\ bridge' = [bridge EXCEPT ![t] = [stage |-> "sending", attempt |-> a]]
       /\ TellOne(t, a)
    \/ UNCHANGED <<bridge, told, doubt, twice>>

\* Every item was sent: the id stays in the cache and the task is marked.
BridgeOk(t) ==
    /\ bridge[t].stage = "sending"
    /\ bridge' = [bridge EXCEPT ![t] = [stage |-> "done", attempt |-> @.attempt]]
    /\ task' = MarkIfPresent(t)
    /\ UNCHANGED <<disk, flight, session, scan, made, told, doubt, twice, crashes>>

BridgeFail(t) ==
    /\ bridge[t].stage = "sending"
    /\ bridge' = [bridge EXCEPT ![t] = Idle]
    /\ Doubt(t, bridge[t].attempt)
    /\ UNCHANGED <<task, disk, flight, session, scan, made, crashes>>

-----------------------------------------------------------------------------
(* The store.                                                              *)

\* The bound MaxMade.
MayRegister == Cardinality({x \in Task \X Attempt : x[2] <= made[x[1]]}) < MaxMade

\* defer: ids are generated fresh, so each is registered once.
Defer(t) ==
    /\ task[t].status = "absent" /\ made[t] = 0 /\ MaxAttempt > 0 /\ MayRegister
    /\ made' = [made EXCEPT ![t] = 1]
    /\ task' = [task EXCEPT ![t] = Fresh(1)]
    /\ UNCHANGED <<disk, flight, bridge, session, scan, told, doubt, twice, crashes>>

\* Only a pending task settles.
MaySettle(t) == task[t].status = "pending"

\* resolve, fail, abort: then the callbacks run.
Settle(t, s) ==
    /\ MaySettle(t)
    /\ LET r == [status |-> s, attempt |-> task[t].attempt,
                 delivered |-> task[t].delivered, fenced |-> task[t].fenced]
           tk == [task EXCEPT ![t] = r]
       IN  \/ /\ t \notin Bridge
              /\ Deliver(tk, t)
              /\ UNCHANGED bridge
           \/ /\ t \in Bridge
              /\ task' = tk
              /\ BridgeEvent(t, r.attempt)
              /\ UNCHANGED flight
    /\ UNCHANGED <<disk, session, scan, made, crashes>>

\* When plugins retry: the store itself accepts a retry at any time.
RetryAllowed(t) == \/ RetryMidDelivery
                   \/ flight[t] = Idle /\ bridge[t].stage # "sending"

\* retry: the record is registered afresh, whatever it was.
Retry(t) ==
    /\ made[t] < MaxAttempt /\ MayRegister /\ RetryAllowed(t)
    /\ made' = [made EXCEPT ![t] = @ + 1]
    /\ task' = [task EXCEPT ![t] = Fresh(made[t] + 1)]
    /\ UNCHANGED <<disk, flight, bridge, session, scan, told, doubt, twice, crashes>>

\* suppressTaskIdsForSession: retrying a turn fences the tasks of the branch
\* it discards.  A commit that fails restores them in the same step.
Suppress(S) ==
    /\ task' = [t \in Task |-> IF t \in S THEN Fenced(task[t]) ELSE task[t]]
    /\ UNCHANGED <<disk, flight, bridge, session, scan, made, told, doubt, twice, crashes>>

DiscardBranch == \E S \in SUBSET Own : /\ S # {}
                                       /\ \A t \in S : task[t].status # "absent"
                                       /\ Suppress(S)

\* suppressBySession, when a turn is aborted.
AbortTurn == LET S == {t \in Own : Open(task[t])}
             IN  session # "gone" /\ S # {} /\ Suppress(S)

\* cleanup, once a day and at startup.
Cleanup(t) ==
    /\ t \in Aged /\ task[t].delivered
    /\ task' = [task EXCEPT ![t] = Absent]
    /\ UNCHANGED <<disk, flight, bridge, session, scan, made, told, doubt, twice, crashes>>

\* _flushToDisk, one second after the first unsaved change or in dispose.
Flush ==
    /\ disk # task
    /\ disk' = task
    /\ UNCHANGED <<task, flight, bridge, session, scan, made, told, doubt, twice, crashes>>

-----------------------------------------------------------------------------
(* The extension and the session.                                          *)

\* listUndelivered of the extension's session; of every session when
\* session_shutdown has nulled its path.
ScanList == {t \in (IF scan = "stray" THEN Task ELSE Own) : Deliverable(task[t])}

\* The timer fires: what can be sent is steered into the session and marked.
ScanFire ==
    /\ scan # "off"
    /\ scan' = "off"
    /\ \E S \in SUBSET (ScanList \ (Ui \cup Bridge)) :
         /\ Tell(S, [t \in Task |-> task[t].attempt])
         /\ task' = [t \in Task |-> IF t \in S THEN Marked(task[t]) ELSE task[t]]
    /\ UNCHANGED <<disk, flight, bridge, session, made, crashes>>

\* session_shutdown: the extension forgets its path, and leaves its timer.
Shutdown == scan' = IF scan = "armed" THEN "stray" ELSE scan

\* The session is opened in the window.
OpenSession ==
    /\ session = "cold"
    /\ session' = "live"
    /\ scan' = IF SessionScans THEN "armed" ELSE scan
    /\ UNCHANGED <<task, disk, flight, bridge, made, told, doubt, twice, crashes>>

\* hibernateSessionRuntime, for a session that is not streaming.
Hibernate ==
    /\ session = "live" /\ \A t \in Task : flight[t].stage # "sending"
    /\ session' = "cold"
    /\ Shutdown
    /\ UNCHANGED <<task, disk, flight, bridge, made, told, doubt, twice, crashes>>

\* What suppressBySession and then clearBySession leave of a record.
Swept(r) == LET f == IF Open(r) THEN Fenced(r) ELSE r
            IN  IF f.status = "pending" THEN Absent ELSE f

Sweep == task' = [t \in Task |-> IF t \in Own THEN Swept(task[t]) ELSE task[t]]

\* Archiving sweeps the session and discards its runtime ...
ArchiveBegin ==
    /\ session \in {"cold", "live"}
    /\ session' = "leaving"
    /\ Sweep
    /\ Shutdown
    /\ UNCHANGED <<disk, flight, bridge, made, told, doubt, twice, crashes>>

\* ... and then moves its file, or fails to.
ArchiveEnd ==
    /\ session = "leaving"
    /\ session' \in {"gone", "cold"}
    /\ UNCHANGED <<task, disk, flight, bridge, scan, made, told, doubt, twice, crashes>>

Unarchive ==
    /\ session = "gone"
    /\ session' \in {"gone", "cold"}
    /\ Sweep
    /\ UNCHANGED <<disk, flight, bridge, scan, made, told, doubt, twice, crashes>>

\* The server dies and starts again from the file.
Crash ==
    /\ crashes < MaxCrash
    /\ crashes' = crashes + 1
    /\ task' = [t \in Task |-> IF t \in Aged /\ disk[t].delivered THEN Absent ELSE disk[t]]
    /\ flight' = [t \in Task |-> Idle]
    /\ bridge' = [t \in Task |-> Idle]
    /\ session' = IF session = "gone" THEN "gone" ELSE "cold"
    /\ scan' = "off"
    /\ doubt' = [t \in Task |-> IF disk[t].delivered THEN told[t] \ {disk[t].attempt} ELSE told[t]]
    /\ UNCHANGED <<disk, made, told, twice>>

-----------------------------------------------------------------------------
Next ==
    \/ \E t \in Task : \/ Defer(t)
                       \/ \E s \in Settled : Settle(t, s)
                       \/ Retry(t)
                       \/ Cleanup(t)
                       \/ Tick(t)
                       \/ LoadFail(t)
                       \/ LoadOk(t)
                       \/ SendOk(t)
                       \/ SendFail(t)
                       \/ BridgeOk(t)
                       \/ BridgeFail(t)
    \/ DiscardBranch
    \/ AbortTurn
    \/ Flush
    \/ ScanFire
    \/ OpenSession
    \/ Hibernate
    \/ ArchiveBegin
    \/ ArchiveEnd
    \/ Unarchive
    \/ Crash

Spec == Init /\ [][Next]_vars

\* What the server's scheduling and a working session give a delivery: the
\* retry timer keeps firing, and a load or a send that is tried again and
\* again succeeds at some point.
TickTaken(t)  == Tick(t) /\ (flight' # flight \/ task' # task)
LoadTaken(t)  == LoadOk(t) /\ (MaySend(t) => flight'[t] # Idle)

LiveSpec == /\ Spec
            /\ \A t \in Agent \cup Ui : SF_vars(TickTaken(t)) /\ SF_vars(SendOk(t))
            /\ \A t \in Agent : SF_vars(LoadTaken(t))

-----------------------------------------------------------------------------
TypeOK ==
    /\ task \in [Task -> Record]
    /\ disk \in [Task -> Record]
    /\ flight \in [Task -> Flight]
    /\ bridge \in [Task -> Flight]
    /\ session \in {"cold", "live", "leaving", "gone"}
    /\ scan \in {"off", "armed", "stray"}
    /\ made \in [Task -> 0 .. MaxAttempt]
    /\ told \in [Task -> SUBSET (0 .. MaxAttempt)]
    /\ doubt \in [Task -> SUBSET (0 .. MaxAttempt)]
    /\ twice \in [Task -> SUBSET (0 .. MaxAttempt)]
    /\ crashes \in 0 .. MaxCrash

(* A task marked delivered, and not fenced, had its outcome put to its     *)
(* recipient: markDelivered never closes a result that nobody was told.    *)
MarkedMeansTold ==
    \A t \in Task : task[t].delivered /\ ~task[t].fenced => task[t].attempt \in told[t]

(* An outcome is told again only when an earlier telling failed or was cut *)
(* off by a crash before its mark was saved: the in-flight map and the     *)
(* mark keep the retry timer and the store's callbacks apart.              *)
NothingToldTwice == \A t \in Task : twice[t] = {}

(* Once fenced, a task stays so until it is retried, cleaned up or lost in *)
(* a crash: the late completion of a delivery does not reopen it.          *)
FenceHolds ==
    [][\A t \in Task : task[t].fenced =>
          \/ task'[t].fenced \/ task'[t].status = "absent"
          \/ made'[t] # made[t] \/ crashes' # crashes]_vars

(* Nothing is told of a fenced task, also by a delivery that was loading   *)
(* the session when the fence went up.                                     *)
FencedStaysSilent ==
    [][\A t \in Task : task[t].fenced =>
          \/ /\ told'[t] = told[t]
             /\ doubt[t] \subseteq doubt'[t]
             /\ twice'[t] = twice[t]
          \/ crashes' # crashes]_vars

(* An undelivered outcome that has reached the disk is told and marked in  *)
(* the end, unless its task is fenced or retried first.                    *)
OutcomeReachesParent ==
    \A t \in Agent \cup Ui : \A a \in Attempt :
        (disk[t].attempt = a /\ Deliverable(disk[t]))
            ~> (task[t].attempt # a \/ task[t].delivered)
=============================================================================
