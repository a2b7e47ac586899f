--------------------------- MODULE SessionRuntime ---------------------------
(***************************************************************************)
(* The runtimes of desktop sessions (core/session-coordinator.ts).  A      *)
(* runtime is an AgentSession: it holds the session's JSONL file open and  *)
(* appends to it.  The coordinator keeps at most one per session in        *)
(* _sessions, loads it on demand, and lets it go on a stop, a discard, a   *)
(* hibernation, a reload or an eviction, while turns run on it.            *)
(*                                                                         *)
(* Every call that awaits is a process of its own, an element of Op; a     *)
(* step is the code between two awaits.                                    *)
(***************************************************************************)
EXTENDS Naturals, FiniteSets

CONSTANTS
    Session,       \* session files, active and owned by an agent that exists
    Runtime,       \* AgentSession instances that fit in the model
    Op,            \* calls in progress at the same time
    None,
    Calls,         \* what clients, timers and background deliveries call
    MaxCached,     \* MAX_CACHED_SESSIONS
    Overlap,       \* which loads may run at the same time: see MayLoad
    SlowTeardown   \* some session_shutdown handler of a plugin really awaits

Turns   == {"submit", "direct", "deliver"}  \* calls that want to run a turn
Attach  == Turns \cup {"attach"}            \* calls that go through ensureSessionLoaded
Loads   == Attach \cup {"switch", "reload"}
Kinds   == Loads \cup {"hibernate", "discard"}

ASSUME RuntimeAssumption ==
    /\ None \notin Session \cup Runtime \cup Op
    /\ Calls \subseteq Kinds \cup {"stop"}
    /\ MaxCached \in Nat \ {0}
    /\ Overlap \in {"none", "sessions", "any"}
    /\ SlowTeardown \in BOOLEAN

VARIABLES
    entry,       \* _sessions: the registered runtime of a session
    of,          \* the session whose file a runtime has open
    alive,       \* the runtimes that are not disposed
    session,     \* this._session, the focused runtime
    path,        \* this._currentSessionPath
    inFlight,    \* _ensureSessionLoadedInFlight
    controller,  \* _prePromptAbortControllers: the call preparing a prompt
    op,          \* the calls in progress
    chosen,      \* ghost: the session the last switch went to
    marks        \* history of the turns in preparation or running, see Marks

vars == <<entry, of, alive, session, path, inFlight, controller, op, chosen, marks>>
held == <<entry, of, alive, session, path, chosen, marks>>

-----------------------------------------------------------------------------
(* Calls in progress                                                       *)

Idle == [kind |-> "idle", s |-> None, pc |-> "idle", r |-> None,
         keep |-> None, at |-> None, victims |-> {},
         focus |-> FALSE, aborted |-> FALSE, halted |-> FALSE]

\* A load goes from "ready" (the agent is being made ready) through "creating"
\* and "pointed" (focused, not yet registered) to "registered"; a turn from
\* "loaded" or "joined" (it waits for another call's load) through "preparing"
\* to "running"; "tearing" awaits emitSessionShutdown.
Stages == {"idle", "ready", "creating", "pointed", "registered", "tearing",
           "joined", "loaded", "preparing", "running"}

OpRecord == [kind : Kinds \cup {"idle"}, s : Session \cup {None}, pc : Stages,
             r : Runtime \cup {None}, keep : Runtime \cup {None},
             at : Session \cup {None}, victims : SUBSET (Session \X Runtime),
             focus : BOOLEAN, aborted : BOOLEAN, halted : BOOLEAN]

\* The turns whose runtime was let go by what does not look at the controllers, those
\* whose own controller another prompt has replaced, and those that run beside a prompt
\* in preparation.
Marks == [robbed : SUBSET Op, bare : SUBSET Op, beside : SUBSET Op]

Call(k, s, pc) == [Idle EXCEPT !.kind = k, !.s = s, !.pc = pc]

Streaming(r) == \E p \in Op : op[p].pc = "running" /\ op[p].r = r

CurrentPath == IF session # None THEN of[session] ELSE path

IsSessionStreaming(s) ==
    \/ controller[s] # None
    \/ entry[s] # None /\ Streaming(entry[s])

Loading(p) == op[p].pc \in {"ready", "creating", "pointed"}
Busy(p)    == op[p].kind \in Loads
              /\ (Loading(p) \/ op[p].pc \in {"registered", "tearing"})

\* What the callers of this model may do while a load is in progress.  "any":
\* everything; "sessions": a switch or a reload does not meet another load of
\* its session; "none": besides, loads and switches come one at a time.
MayLoad(k, s) ==
    /\ Overlap # "any" =>
         \A q \in Op : Loading(q) /\ op[q].s = s =>
                          k \in Attach /\ op[q].kind \in Attach
    /\ Overlap = "none" => \A q \in Op : Busy(q) => op[q].s = s /\ k \in Attach

-----------------------------------------------------------------------------
(* Letting a runtime go                                                    *)

\* The call goes on to await the shutdown handlers of its runtime.
Tear(p, o) == op' = [op EXCEPT ![p] = [o EXCEPT !.pc = "tearing"]]

\* _forceReleaseStreamingSession: unregistered and disposed at once, and the
\* turns it ran are over.
ForceRelease(s) ==
    /\ entry' = [entry EXCEPT ![s] = None]
    /\ alive' = alive \ {entry[s]}
    /\ LET focused == session = entry[s] \/ CurrentPath = s
       IN  /\ session' = IF focused THEN None ELSE session
           /\ path' = IF focused THEN None ELSE path

\* A runtime is let go of under the turns that have got to these stages on it.
Robs(r, stages) ==
    marks' = [marks EXCEPT !.robbed = @ \cup {q \in Op : op[q].pc \in stages /\ op[q].r = r}]

\* The turns in progress on a session when it is stopped or discarded.
Halted(s, q) == op[q].kind \in Turns /\ op[q].s = s /\ op[q].pc \in {"preparing", "running"}
Halt(s) == [q \in Op |-> IF Halted(s, q) THEN [op[q] EXCEPT !.halted = TRUE] ELSE op[q]]

Stop(s) ==
    /\ "stop" \in Calls
    /\ \/ /\ controller[s] # None
          /\ op' = [Halt(s) EXCEPT ![controller[s]].aborted = TRUE]
          /\ controller' = [controller EXCEPT ![s] = None]
          /\ UNCHANGED <<entry, alive, session, path>>
       \/ /\ controller[s] = None
          /\ entry[s] # None /\ Streaming(entry[s])
          /\ op' = Halt(s)
          /\ ForceRelease(s)
          /\ UNCHANGED controller
    /\ UNCHANGED <<of, inFlight, chosen, marks>>

\* Mutant: forgets that a turn may be in preparation.
CanHibernatePreparing(s) ==
    /\ entry[s] # None
    /\ ~Streaming(entry[s])

CanHibernate(s) ==
    /\ entry[s] # None
    /\ ~Streaming(entry[s])
    /\ controller[s] = None

\* The memory pressure check finds a heavy runtime.
Hibernate(p, s) ==
    /\ "hibernate" \in Calls /\ op[p] = Idle
    /\ CanHibernate(s)
    /\ LET focused == session = entry[s] \/ CurrentPath = s
       IN  /\ path' = IF focused THEN s ELSE path
           /\ Tear(p, [Call("hibernate", s, "tearing") EXCEPT !.r = entry[s], !.focus = focused])
    /\ UNCHANGED <<entry, of, alive, session, inFlight, controller, chosen, marks>>

Hibernated(p) ==
    /\ op[p].kind = "hibernate"
    /\ alive' = alive \ {op[p].r}
    /\ entry' = [entry EXCEPT ![op[p].s] = None]
    /\ session' = IF op[p].focus THEN None ELSE session
    /\ op' = [op EXCEPT ![p] = Idle]
    /\ UNCHANGED <<of, path, inFlight, controller, chosen, marks>>

\* discardSessionRuntime, also closeSession: an idle runtime is torn down first.
Discard(p, s) ==
    /\ "discard" \in Calls /\ op[p] = Idle
    /\ entry[s] # None /\ ~Streaming(entry[s])
    /\ Tear(p, [Call("discard", s, "tearing") EXCEPT !.r = entry[s]])
    /\ UNCHANGED <<held, inFlight, controller>>

Discarded(p) ==
    /\ op[p].kind = "discard"
    /\ alive' = alive \ {op[p].r}
    /\ entry' = [entry EXCEPT ![op[p].s] = None]
    /\ session' = IF CurrentPath = op[p].s THEN None ELSE session
    /\ path' = IF CurrentPath = op[p].s THEN None ELSE path
    /\ op' = [op EXCEPT ![p] = Idle]
    /\ Robs(op[p].r, {"preparing"})
    /\ UNCHANGED <<of, inFlight, controller, chosen>>

\* Nothing to await: a runtime in a turn is released at once, and of an absent
\* one only the focus is left to clear.
DiscardNow(s) ==
    /\ "discard" \in Calls
    /\ \/ /\ entry[s] # None /\ Streaming(entry[s])
          /\ op' = Halt(s)
          /\ ForceRelease(s)
       \/ /\ entry[s] = None /\ CurrentPath = s
          /\ session' = None /\ path' = None
          /\ UNCHANGED <<entry, alive, op>>
    /\ UNCHANGED <<of, inFlight, controller, chosen, marks>>

-----------------------------------------------------------------------------
(* Loading a runtime                                                       *)

\* Mutant: every call loads for itself.
EnsureLoadedAlone(p, k, s) ==
    IF entry[s] # None
    THEN /\ op' = [op EXCEPT ![p] = IF k \in Turns THEN Call(k, s, "loaded") ELSE Idle]
         /\ UNCHANGED inFlight
    ELSE /\ MayLoad(k, s)
         /\ op' = [op EXCEPT ![p] = Call(k, s, "ready")]
         /\ inFlight' = [inFlight EXCEPT ![s] = p]

\* ensureSessionLoaded on behalf of call p: the runtime is there, or another
\* call is loading it, or this one does.
EnsureLoaded(p, k, s) ==
    IF entry[s] # None
    THEN /\ op' = [op EXCEPT ![p] = IF k \in Turns THEN Call(k, s, "loaded") ELSE Idle]
         /\ UNCHANGED inFlight
    ELSE IF inFlight[s] # None
    THEN /\ op' = [op EXCEPT ![p] = Call(k, s, "joined")]
         /\ UNCHANGED inFlight
    ELSE /\ MayLoad(k, s)
         /\ op' = [op EXCEPT ![p] = Call(k, s, "ready")]
         /\ inFlight' = [inFlight EXCEPT ![s] = p]

AttachCall(p, s) ==
    /\ "attach" \in Calls /\ op[p] = Idle
    /\ entry[s] = None
    /\ EnsureLoaded(p, "attach", s)
    /\ UNCHANGED <<held, controller>>

\* switchSession to a registered runtime moves the focus, to another one loads it.
SwitchWarm(s) ==
    /\ "switch" \in Calls
    /\ Overlap = "none" => \A q \in Op : ~Busy(q)
    /\ entry[s] # None
    /\ session' = entry[s] /\ path' = s /\ chosen' = s
    /\ UNCHANGED <<entry, of, alive, inFlight, controller, op, marks>>

SwitchCold(p, s) ==
    /\ "switch" \in Calls /\ op[p] = Idle
    /\ entry[s] = None
    /\ MayLoad("switch", s)
    /\ op' = [op EXCEPT ![p] = Call("switch", s, "ready")]
    /\ UNCHANGED <<held, inFlight, controller>>

\* reloadSessionRuntime notes the old runtime before it awaits the agent, and takes it
\* down afterwards although a turn may have begun on it.
ReloadCall(p, s) ==
    /\ "reload" \in Calls /\ op[p] = Idle
    /\ entry[s] # None => ~Streaming(entry[s])
    /\ MayLoad("reload", s)
    /\ op' = [op EXCEPT ![p] = [Call("reload", s, "ready") EXCEPT !.r = entry[s]]]
    /\ UNCHANGED <<held, inFlight, controller>>

\* The agent is ready: an attaching load saves the focus, a reload lets the
\* old runtime go.
LoadReady(p) ==
    /\ op[p].pc = "ready"
    /\ \/ /\ op[p].kind \in Attach
          /\ op' = [op EXCEPT ![p] =
                      [op[p] EXCEPT !.pc = "creating", !.keep = session, !.at = path]]
       \/ /\ op[p].kind \notin Attach /\ op[p].r = None
          /\ op' = [op EXCEPT ![p].pc = "creating"]
       \/ /\ op[p].kind = "reload" /\ op[p].r # None
          /\ Tear(p, op[p])
    /\ UNCHANGED <<held, inFlight, controller>>

ReloadTorn(p) ==
    /\ op[p].kind = "reload" /\ op[p].victims = {}
    /\ alive' = alive \ {op[p].r}
    /\ entry' = [entry EXCEPT ![op[p].s] = None]
    /\ op' = [op EXCEPT ![p] = Call("reload", op[p].s, "creating")]
    /\ Robs(op[p].r, {"preparing", "running"})
    /\ UNCHANGED <<of, session, path, inFlight, controller, chosen>>

\* A disposed instance nothing refers to any more may stand for a new one.
Referenced(r) ==
    \/ \E s \in Session : entry[s] = r
    \/ session = r
    \/ \E p \in Op : op[p].r = r \/ op[p].keep = r \/ \E v \in op[p].victims : v[2] = r

Fresh(r) == r \notin alive /\ ~Referenced(r)

\* createAgentSession is back: createSession focuses the new runtime whatever
\* the load was for, and awaits once more before it registers it.
LoadCreated(p, r) ==
    /\ op[p].pc = "creating"
    /\ Fresh(r)
    /\ of' = [of EXCEPT ![r] = op[p].s]
    /\ alive' = alive \cup {r}
    /\ session' = r /\ path' = op[p].s
    /\ chosen' = IF op[p].kind = "switch" THEN op[p].s ELSE chosen
    /\ op' = [op EXCEPT ![p] = [op[p] EXCEPT !.pc = "pointed", !.r = r]]
    /\ UNCHANGED <<entry, inFlight, controller, marks>>

LoadRegistered(p) ==
    /\ op[p].pc = "pointed"
    /\ entry' = [entry EXCEPT ![op[p].s] = op[p].r]
    /\ op' = [op EXCEPT ![p] = [op[p] EXCEPT !.pc = "registered"]]
    /\ UNCHANGED <<of, alive, session, path, inFlight, controller, chosen, marks>>

\* The load of call p is over, well or badly: an attaching one puts the focus
\* back and wakes the calls that waited for it.
LoadOver(p, well) ==
    LET o == op[p]
        After(k) == IF well /\ k \in Turns THEN Call(k, o.s, "loaded") ELSE Idle
    IN  IF o.kind \in Attach
        THEN /\ session' = IF o.pc = "ready" THEN session ELSE o.keep
             /\ path' = IF o.pc = "ready" THEN path ELSE o.at
             /\ inFlight' = [inFlight EXCEPT ![o.s] = None]
             /\ op' = [q \in Op |-> IF q = p \/ (op[q].pc = "joined" /\ op[q].s = o.s)
                                    THEN After(op[q].kind) ELSE op[q]]
        ELSE /\ op' = [op EXCEPT ![p] = Idle]
             /\ UNCHANGED <<session, path, inFlight>>

\* Mutant: a failed load wakes none of the calls that joined it.
LoadFailsAlone(p) ==
    /\ op[p].pc \in {"ready", "creating"}
    /\ inFlight' = [inFlight EXCEPT ![op[p].s] = IF @ = p THEN None ELSE @]
    /\ op' = [op EXCEPT ![p] = Idle]
    /\ UNCHANGED <<held, controller>>

LoadFails(p) ==
    /\ op[p].pc \in {"ready", "creating"}
    /\ LoadOver(p, FALSE)
    /\ UNCHANGED <<entry, of, alive, controller, chosen, marks>>

-----------------------------------------------------------------------------
(* Eviction, at the end of every load                                      *)

Cached(e) == {s \in Session : e[s] # None}

\* Every other runtime that is not in a turn.  The focused session is meant to
\* be left out too, but its path is compared with keys that are session ids.
Candidates(p) == {<<s, entry[s]>> : s \in {x \in Cached(entry) :
                    x # op[p].s /\ ~Streaming(entry[x])}}

\* The next victim's teardown starts, or the load is over.
EvictNext(p, e, victims) ==
    IF Cardinality(Cached(e)) > MaxCached /\ victims # {}
    THEN /\ Tear(p, [op[p] EXCEPT !.victims = victims])
         /\ UNCHANGED <<session, path, inFlight>>
    ELSE LoadOver(p, TRUE)

LoadEvicts(p) ==
    /\ op[p].pc = "registered"
    /\ EvictNext(p, entry, Candidates(p))
    /\ UNCHANGED <<entry, of, alive, controller, chosen, marks>>

Evicted(p) ==
    /\ op[p].kind \in Loads /\ op[p].victims # {}
    /\ \E v \in op[p].victims :
         /\ alive' = alive \ {v[2]}
         /\ entry' = [entry EXCEPT ![v[1]] = None]
         /\ EvictNext(p, entry', op[p].victims \ {v})
         /\ Robs(v[2], {"preparing"})
    /\ UNCHANGED <<of, controller, chosen>>

-----------------------------------------------------------------------------
(* Turns                                                                   *)

\* submitDesktopSessionMessage, session:send and deliverCustomMessage.
TurnCall(p, k, s) ==
    /\ k \in Calls \cap Turns /\ op[p] = Idle
    /\ k # "deliver" => ~IsSessionStreaming(s)
    /\ k = "submit" => \A q \in Op : ~(op[q].kind = "submit" /\ op[q].s = s)
    /\ EnsureLoaded(p, k, s)
    /\ UNCHANGED <<held, controller>>

\* promptSession finds the runtime again, takes the focus pointer along and starts
\* preparing the input, over the controller of another one that is preparing; a
\* submission may find the runtime gone and load it again.
PromptStart(p) ==
    /\ op[p].pc = "loaded" /\ op[p].kind # "deliver"
    /\ LET s == op[p].s
       IN  IF entry[s] # None
           THEN /\ session' = IF CurrentPath = s THEN entry[s] ELSE session
                /\ controller' = [controller EXCEPT ![s] = p]
                /\ marks' = [marks EXCEPT !.bare = @ \cup ({controller[s]} \ {None}),
                      !.beside = @ \cup {q \in Op : op[q].pc = "running" /\ op[q].s = s}]
                /\ op' = [op EXCEPT ![p] =
                            [op[p] EXCEPT !.pc = "preparing", !.r = entry[s]]]
                /\ UNCHANGED inFlight
           ELSE /\ \/ op[p].kind = "submit" /\ EnsureLoaded(p, "submit", s)
                   \/ op' = [op EXCEPT ![p] = Idle] /\ UNCHANGED inFlight
                /\ UNCHANGED <<session, controller, marks>>
    /\ UNCHANGED <<entry, of, alive, path, chosen>>

Unmarked(p) == [robbed |-> marks.robbed \ {p}, bare |-> marks.bare \ {p},
                beside |-> marks.beside \ {p}]

\* The input of a turn is ready and its controller put away: the turn runs, or is over.
Prepared(p, runs) ==
    /\ op[p].pc = "preparing"
    /\ controller' = [controller EXCEPT ![op[p].s] = IF @ = p THEN None ELSE @]
    /\ op' = [op EXCEPT ![p] = IF runs THEN [op[p] EXCEPT !.pc = "running"] ELSE Idle]
    /\ marks' = IF runs THEN marks ELSE Unmarked(p)
    /\ UNCHANGED <<entry, of, alive, session, path, inFlight, chosen>>

\* Mutant: does not look at the signal once the input is ready.
PromptPreparedUnaborted(p) == Prepared(p, ~Streaming(op[p].r))

\* The input was aborted, or finds the runtime taken by another turn.
PromptPrepared(p) == Prepared(p, ~op[p].aborted /\ ~Streaming(op[p].r))

\* A background message triggers a turn, or joins the one that runs.
DeliverStart(p) ==
    /\ op[p].pc = "loaded" /\ op[p].kind = "deliver"
    /\ LET r == entry[op[p].s]
           triggers == r # None /\ ~Streaming(r)
       IN  /\ op' = [op EXCEPT ![p] = IF triggers THEN [op[p] EXCEPT !.pc = "running", !.r = r]
                                      ELSE Idle]
           /\ marks' = IF triggers /\ controller[op[p].s] # None
                       THEN [marks EXCEPT !.beside = @ \cup {p}] ELSE marks
    /\ UNCHANGED <<entry, of, alive, session, path, inFlight, controller, chosen>>

TurnEnds(p) ==
    /\ op[p].pc = "running"
    /\ op' = [op EXCEPT ![p] = Idle]
    /\ marks' = Unmarked(p)
    /\ UNCHANGED <<entry, of, alive, session, path, inFlight, controller, chosen>>

-----------------------------------------------------------------------------
Init ==
    /\ entry = [s \in Session |-> None]
    /\ of = [r \in Runtime |-> None]
    /\ alive = {}
    /\ session = None /\ path = None /\ chosen = None
    /\ inFlight = [s \in Session |-> None]
    /\ controller = [s \in Session |-> None]
    /\ op = [p \in Op |-> Idle]
    /\ marks = [robbed |-> {}, bare |-> {}, beside |-> {}]

TearEnds(p) ==
    /\ op[p].pc = "tearing"
    /\ Hibernated(p) \/ Discarded(p) \/ ReloadTorn(p) \/ Evicted(p)

\* Unless some handler really awaits, a teardown ends before anything else runs.
Interruptible == SlowTeardown \/ \A p \in Op : op[p].pc # "tearing"

Step(p) ==
    \/ \E s \in Session : \/ AttachCall(p, s)
                          \/ SwitchCold(p, s)
                          \/ ReloadCall(p, s)
                          \/ Hibernate(p, s)
                          \/ Discard(p, s)
                          \/ \E k \in Turns : TurnCall(p, k, s)
    \/ LoadReady(p)
    \/ \E r \in Runtime : LoadCreated(p, r)
    \/ LoadRegistered(p)
    \/ LoadFails(p)
    \/ LoadEvicts(p)
    \/ PromptStart(p)
    \/ PromptPrepared(p)
    \/ DeliverStart(p)
    \/ TurnEnds(p)

Next ==
    \/ \E p \in Op : TearEnds(p)
    \/ /\ Interruptible
       /\ \/ \E p \in Op : Step(p)
          \/ \E s \in Session : Stop(s) \/ DiscardNow(s) \/ SwitchWarm(s)

Spec == Init /\ [][Next]_vars

\* Agents get ready, the SDK creates a session or fails to, shutdown handlers
\* return: every step of a load comes in the end, however often others tear down what
\* they let go meanwhile: a teardown that does not await is no turn of the event loop.
LoadStep(p) ==
    \/ LoadReady(p)
    \/ LoadFails(p)
    \/ \E r \in Runtime : LoadCreated(p, r)
    \/ LoadRegistered(p)
    \/ LoadEvicts(p)

LiveSpec == Spec /\ \A p \in Op : SF_vars(LoadStep(p) /\ Interruptible) /\ WF_vars(TearEnds(p))

-----------------------------------------------------------------------------
(* Properties                                                              *)

TypeOK ==
    /\ entry \in [Session -> Runtime \cup {None}]
    /\ of \in [Runtime -> Session \cup {None}]
    /\ alive \subseteq Runtime
    /\ session \in Runtime \cup {None}
    /\ path \in Session \cup {None}
    /\ chosen \in Session \cup {None}
    /\ inFlight \in [Session -> Op \cup {None}]
    /\ controller \in [Session -> Op \cup {None}]
    /\ op \in [Op -> OpRecord]
    /\ \A p \in Op : op[p].pc # "idle" => op[p].s \in Session
    /\ marks \in Marks

\* No two live runtimes append to one session file: the second would be a ghost
\* writer whose entries name parents the file does not have.
OneWriter == \A r1, r2 \in alive : of[r1] = of[r2] => r1 = r2

\* A turn runs on the registered runtime of its session, and loses it only when the user
\* stops it or the session is discarded with it; unless its runtime was taken by an
\* eviction or a discard while its input was prepared, or by a reload, or another prompt
\* had replaced its controller.
TurnKeepsRuntime ==
    \A p \in Op \ (marks.robbed \cup marks.bare) :
        op[p].pc = "running" /\ ~op[p].halted => op[p].r \in alive /\ entry[op[p].s] = op[p].r

\* A turn that was being prepared or was running when its session was stopped or
\* discarded does not run on, its input never reaches a live runtime; unless another
\* prompt had replaced its controller, or was in preparation while it ran.
StopIsFinal ==
    \A p \in Op \ (marks.bare \cup marks.beside) :
        op[p].halted /\ op[p].pc = "running" => op[p].r \notin alive

\* Once no load is in progress, the focus is where the last switch went, or
\* nowhere: a background load leaves it alone.
FocusKept == (\A p \in Op : ~Busy(p)) => CurrentPath \in {chosen, None}

\* A call that waits for another call's load is not left waiting, whichever way
\* that load ends.
JoinedReleased == \A p \in Op : op[p].pc = "joined" ~> op[p].pc # "joined"
=============================================================================
