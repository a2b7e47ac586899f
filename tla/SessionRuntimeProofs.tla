------------------------ MODULE SessionRuntimeProofs ------------------------
(***************************************************************************)
(* What is proved of the runtimes of sessions, for every set of sessions,  *)
(* runtimes and calls and every size of the cache.                         *)
(***************************************************************************)
EXTENDS SessionRuntime, TLAPS

-----------------------------------------------------------------------------
(* Types                                                                   *)

LEMMA IdleTyped ==
  /\ Idle \in OpRecord /\ Idle.kind = "idle" /\ Idle.pc = "idle" /\ Idle.s = None
  /\ Idle.r = None /\ Idle.victims = {}
  BY DEF Idle, OpRecord, Stages

Placed(o) == o \in OpRecord /\ (o.pc # "idle" => o.s \in Session)

LEMMA AllPlaced ==
  ASSUME TypeOK, NEW p \in Op
  PROVE  /\ Placed(op[p]) /\ op[p] \in OpRecord
         /\ op[p].pc # "idle" => op[p].s \in Session
  BY DEF TypeOK, Placed

LEMMA CallTyped ==
  ASSUME NEW k \in Kinds, NEW s \in Session, NEW pc \in Stages
  PROVE  /\ Call(k, s, pc) \in OpRecord
         /\ Call(k, s, pc).kind = k /\ Call(k, s, pc).s = s /\ Call(k, s, pc).pc = pc
         /\ Call(k, s, pc).r = None /\ Call(k, s, pc).victims = {}
  BY DEF Call, Idle, OpRecord, Stages

LEMMA StagedOn ==
  ASSUME NEW o \in OpRecord, NEW pc \in Stages, NEW r \in Runtime
  PROVE  LET n == [o EXCEPT !.pc = pc, !.r = r]
         IN  /\ n \in OpRecord /\ n.kind = o.kind /\ n.s = o.s
             /\ n.pc = pc /\ n.r = r /\ n.victims = o.victims
  BY DEF OpRecord

LEMMA HaltOne ==
  ASSUME NEW o \in OpRecord
  PROVE  LET h == [o EXCEPT !.halted = TRUE]
             a == [o EXCEPT !.aborted = TRUE]
         IN  /\ h \in OpRecord /\ h.kind = o.kind /\ h.s = o.s
             /\ h.pc = o.pc /\ h.r = o.r /\ h.victims = o.victims
             /\ a \in OpRecord /\ a.kind = o.kind /\ a.s = o.s
             /\ a.pc = o.pc /\ a.r = o.r /\ a.victims = o.victims
  BY DEF OpRecord

LEMMA Fields ==
  ASSUME NEW o \in OpRecord
  PROVE  /\ o.kind \in Kinds \cup {"idle"} /\ o.s \in Session \cup {None}
         /\ o.pc \in Stages /\ o.r \in Runtime \cup {None}
         /\ o.keep \in Runtime \cup {None} /\ o.at \in Session \cup {None}
         /\ o.victims \subseteq Session \X Runtime
  BY DEF OpRecord

LEMMA Staged ==
  ASSUME NEW o \in OpRecord, NEW pc \in Stages
  PROVE  /\ [o EXCEPT !.pc = pc] \in OpRecord
         /\ [o EXCEPT !.pc = pc].kind = o.kind /\ [o EXCEPT !.pc = pc].s = o.s
         /\ [o EXCEPT !.pc = pc].pc = pc /\ [o EXCEPT !.pc = pc].r = o.r
         /\ [o EXCEPT !.pc = pc].victims = o.victims
  BY DEF OpRecord

OpsTyped(f) == f \in [Op -> OpRecord] /\ \A q \in Op : Placed(f[q])

LEMMA HaltTyped ==
  ASSUME TypeOK, NEW s \in Session
  PROVE  /\ OpsTyped(Halt(s))
         /\ \A q \in Op : /\ Halt(s)[q].kind = op[q].kind /\ Halt(s)[q].s = op[q].s
                          /\ Halt(s)[q].pc = op[q].pc /\ Halt(s)[q].r = op[q].r
                          /\ Halt(s)[q].victims = op[q].victims
  <1>1. ASSUME NEW q \in Op
        PROVE  /\ Placed(Halt(s)[q])
               /\ Halt(s)[q].kind = op[q].kind /\ Halt(s)[q].s = op[q].s
               /\ Halt(s)[q].pc = op[q].pc /\ Halt(s)[q].r = op[q].r
               /\ Halt(s)[q].victims = op[q].victims
    <2> DEFINE o == op[q]
               n == Halt(s)[q]
    <2>1. o \in OpRecord /\ Placed(o) /\ (n = o \/ n = [o EXCEPT !.halted = TRUE])
      BY AllPlaced DEF Halt
    <2> HIDE DEF o, n
    <2>2. /\ n \in OpRecord /\ n.kind = o.kind /\ n.s = o.s
          /\ n.pc = o.pc /\ n.r = o.r /\ n.victims = o.victims
      BY <2>1, HaltOne
    <2>3. Placed(n)
      BY <2>1, <2>2 DEF Placed
    <2> QED BY <2>2, <2>3 DEF o, n
  <1>2. Halt(s) \in [Op -> OpRecord]
    BY <1>1 DEF Halt, Placed
  <1> QED BY <1>1, <1>2 DEF OpsTyped

LEMMA OneOp ==
  ASSUME TypeOK, NEW p \in Op, NEW o, Placed(o), op' = [op EXCEPT ![p] = o]
  PROVE  OpsTyped(op')
  BY DEF TypeOK, Placed, OpsTyped

LEMMA SameOps ==
  ASSUME TypeOK PROVE OpsTyped(op)
  BY DEF TypeOK, Placed, OpsTyped

LEMMA TypedAgain ==
  ASSUME OpsTyped(op'),
         entry' \in [Session -> Runtime \cup {None}],
         of' \in [Runtime -> Session \cup {None}],
         alive' \subseteq Runtime, session' \in Runtime \cup {None},
         path' \in Session \cup {None}, chosen' \in Session \cup {None},
         inFlight' \in [Session -> Op \cup {None}],
         controller' \in [Session -> Op \cup {None}], marks' \in Marks
  PROVE  TypeOK'
  BY DEF OpsTyped, Placed, TypeOK

LEMMA RobsTyped ==
  ASSUME TypeOK, NEW r, NEW stages, Robs(r, stages) PROVE marks' \in Marks
  BY DEF TypeOK, Robs, Marks

LEMMA UnmarkedTyped ==
  ASSUME TypeOK, NEW p \in Op PROVE Unmarked(p) \in Marks
  BY DEF TypeOK, Unmarked, Marks

LEMMA IdlePlaced == Placed(Idle)
  BY IdleTyped DEF Placed

LEMMA CallPlaced ==
  ASSUME NEW k \in Kinds, NEW s \in Session, NEW pc \in Stages
  PROVE  Placed(Call(k, s, pc))
  BY CallTyped DEF Placed

LEMMA StopTyped ==
  ASSUME TypeOK, NEW s \in Session, Stop(s)
  PROVE  OpsTyped(op')
  <1>1. CASE op' = Halt(s)
    BY <1>1, HaltTyped
  <1>2. CASE controller[s] # None /\ op' = [Halt(s) EXCEPT ![controller[s]].aborted = TRUE]
    <2> DEFINE c == controller[s]
               h == Halt(s)[c]
               n == [h EXCEPT !.aborted = TRUE]
    <2>1. c \in Op /\ Placed(h)
      BY <1>2, HaltTyped DEF TypeOK, OpsTyped
    <2>2. op' = [Halt(s) EXCEPT ![c] = n]
      BY <1>2
    <2>3. Placed(n)
      <3> HIDE DEF c, h
      <3> QED BY <2>1, HaltOne DEF Placed
    <2> HIDE DEF c, h, n
    <2> QED BY <2>1, <2>2, <2>3, HaltTyped DEF OpsTyped, Placed
  <1> QED BY <1>1, <1>2 DEF Stop

LEMMA EnsureTyped ==
  ASSUME TypeOK, NEW p \in Op, NEW k \in Attach, NEW s \in Session,
         EnsureLoaded(p, k, s)
  PROVE  OpsTyped(op') /\ inFlight' \in [Session -> Op \cup {None}]
  <1>1. k \in Kinds /\ "loaded" \in Stages /\ "joined" \in Stages /\ "ready" \in Stages
    BY DEF Kinds, Loads, Attach, Stages
  <1>2. \E o : Placed(o) /\ op' = [op EXCEPT ![p] = o]
    <2>1. CASE entry[s] # None /\ k \in Turns
      BY <1>1, <2>1, CallPlaced DEF EnsureLoaded
    <2>2. CASE entry[s] # None /\ k \notin Turns
      BY <2>2, IdlePlaced DEF EnsureLoaded
    <2>3. CASE entry[s] = None /\ inFlight[s] # None
      BY <1>1, <2>3, CallPlaced DEF EnsureLoaded
    <2>4. CASE entry[s] = None /\ inFlight[s] = None
      BY <1>1, <2>4, CallPlaced DEF EnsureLoaded
    <2> QED BY <2>1, <2>2, <2>3, <2>4
  <1>3. inFlight' \in [Session -> Op \cup {None}]
    BY DEF EnsureLoaded, TypeOK
  <1> QED BY <1>2, <1>3, OneOp

LEMMA OverTyped ==
  ASSUME TypeOK, NEW p \in Op, NEW well \in BOOLEAN, op[p].pc # "idle", LoadOver(p, well)
  PROVE  /\ OpsTyped(op') /\ inFlight' \in [Session -> Op \cup {None}]
         /\ session' \in Runtime \cup {None} /\ path' \in Session \cup {None}
  <1> DEFINE o == op[p]
  <1>0. o \in OpRecord /\ o.s \in Session
    BY AllPlaced
  <1>1. CASE o.kind \notin Attach
    BY <1>1, IdlePlaced, OneOp DEF LoadOver, TypeOK
  <1>2. CASE o.kind \in Attach
    <2> DEFINE After(k) == IF well /\ k \in Turns THEN Call(k, o.s, "loaded") ELSE Idle
    <2>1. ASSUME NEW k PROVE Placed(After(k))
      <3>1. k \in Turns => k \in Kinds
        BY DEF Kinds, Loads, Attach
      <3>2. "loaded" \in Stages
        BY DEF Stages
      <3> QED BY <1>0, <3>1, <3>2, CallPlaced, IdlePlaced
    <2>2. op' = [q \in Op |-> IF q = p \/ (op[q].pc = "joined" /\ op[q].s = o.s)
                              THEN After(op[q].kind) ELSE op[q]]
      BY <1>2 DEF LoadOver
    <2> HIDE DEF After
    <2>3. OpsTyped(op')
      BY <2>1, <2>2 DEF TypeOK, OpsTyped, Placed
    <2>4. inFlight' \in [Session -> Op \cup {None}]
      BY <1>2 DEF LoadOver, TypeOK
    <2>5. session' \in Runtime \cup {None} /\ path' \in Session \cup {None}
      BY <1>0, <1>2, Fields DEF LoadOver, TypeOK
    <2> QED BY <2>3, <2>4, <2>5
  <1> QED BY <1>1, <1>2

LEMMA TearTyped ==
  ASSUME TypeOK, NEW p \in Op, NEW o \in OpRecord, o.s \in Session, Tear(p, o)
  PROVE  OpsTyped(op')
  <1>1. Placed([o EXCEPT !.pc = "tearing"])
    BY Staged DEF Stages, Placed
  <1> QED BY <1>1, OneOp DEF Tear

LEMMA NextTyped ==
  ASSUME TypeOK, NEW p \in Op, NEW w \in SUBSET (Session \X Runtime), NEW e,
         op[p].pc # "idle", EvictNext(p, e, w)
  PROVE  /\ OpsTyped(op') /\ inFlight' \in [Session -> Op \cup {None}]
         /\ session' \in Runtime \cup {None} /\ path' \in Session \cup {None}
  <1>1. CASE LoadOver(p, TRUE)
    BY <1>1, OverTyped
  <1>2. CASE /\ Tear(p, [op[p] EXCEPT !.victims = w])
             /\ UNCHANGED <<session, path, inFlight>>
    <2> DEFINE o == op[p]
               n == [o EXCEPT !.victims = w]
    <2>0. o \in OpRecord /\ o.s \in Session
      BY AllPlaced
    <2>1. n \in OpRecord /\ n.s \in Session
      BY <2>0 DEF OpRecord
    <2> QED BY <1>2, <2>1, TearTyped DEF TypeOK
  <1> QED BY <1>1, <1>2 DEF EvictNext

LEMMA ReleaseTyped ==
  ASSUME TypeOK, NEW s \in Session, ForceRelease(s)
  PROVE  /\ entry' \in [Session -> Runtime \cup {None}] /\ alive' \subseteq Runtime
         /\ session' \in Runtime \cup {None} /\ path' \in Session \cup {None}
  BY DEF ForceRelease, TypeOK

\* Every step that moves one call p, from a record that is placed to another.
LEMMA MoveTyped ==
  ASSUME TypeOK, NEW p \in Op, NEW o, Placed(o), op' = [op EXCEPT ![p] = o],
         UNCHANGED <<held, inFlight, controller>>
  PROVE  TypeOK'
  <1>1. OpsTyped(op')
    BY OneOp
  <1> QED BY <1>1, TypedAgain DEF TypeOK, held

LEMMA CallStepTyped ==
  ASSUME TypeOK, NEW p \in Op, NEW s \in Session,
         \/ AttachCall(p, s) \/ SwitchCold(p, s) \/ ReloadCall(p, s)
         \/ Hibernate(p, s) \/ Discard(p, s) \/ \E k \in Turns : TurnCall(p, k, s)
  PROVE  TypeOK'
  <1>0. /\ "switch" \in Kinds /\ "hibernate" \in Kinds /\ "discard" \in Kinds
        /\ "attach" \in Attach /\ Turns \subseteq Attach /\ "ready" \in Stages
    BY DEF Kinds, Loads, Attach, Stages
  <1>1. CASE AttachCall(p, s)
    <2>1. OpsTyped(op') /\ inFlight' \in [Session -> Op \cup {None}]
      BY <1>0, <1>1, EnsureTyped DEF AttachCall
    <2> QED BY <1>1, <2>1, TypedAgain DEF AttachCall, TypeOK, held
  <1>2. CASE SwitchCold(p, s)
    BY <1>0, <1>2, CallPlaced, MoveTyped DEF SwitchCold
  <1>3. CASE ReloadCall(p, s)
    <2> DEFINE o == [Call("reload", s, "ready") EXCEPT !.r = entry[s]]
    <2>1. o \in OpRecord /\ o.s = s
      <3>1. entry[s] \in Runtime \cup {None}
        BY DEF TypeOK
      <3> QED BY <3>1 DEF Call, Idle, OpRecord, Stages, Kinds, Loads
    <2>2. op' = [op EXCEPT ![p] = o] /\ UNCHANGED <<held, inFlight, controller>>
      BY <1>3 DEF ReloadCall
    <2> HIDE DEF o
    <2>3. Placed(o)
      BY <2>1 DEF Placed
    <2> QED BY <2>2, <2>3, MoveTyped
  <1>4. CASE Hibernate(p, s)
    <2> DEFINE focused == session = entry[s] \/ CurrentPath = s
               o == [[Call("hibernate", s, "tearing") EXCEPT
                        !.r = entry[s], !.focus = focused] EXCEPT !.pc = "tearing"]
    <2>1. entry[s] \in Runtime /\ focused \in BOOLEAN
      BY <1>4 DEF Hibernate, CanHibernate, TypeOK
    <2>2. /\ op' = [op EXCEPT ![p] = o] /\ path' \in {path, s}
          /\ UNCHANGED <<entry, of, alive, session, inFlight, controller, chosen, marks>>
      BY <1>4 DEF Hibernate, Tear
    <2>3. o \in OpRecord /\ o.s = s
      <3> DEFINE f == focused
      <3>2. f \in BOOLEAN
        BY <2>1
      <3> HIDE DEF f
      <3> QED BY <1>0, <2>1, <3>2 DEF Call, Idle, OpRecord, Stages
    <2> HIDE DEF o
    <2>4. OpsTyped(op')
      <3>1. Placed(o)
        BY <2>3 DEF Placed
      <3> QED BY <2>2, <3>1, OneOp
    <2> QED BY <2>2, <2>4, TypedAgain DEF TypeOK
  <1>5. CASE Discard(p, s)
    <2> DEFINE o == [[Call("discard", s, "tearing") EXCEPT !.r = entry[s]] EXCEPT !.pc = "tearing"]
    <2>1. entry[s] \in Runtime
      BY <1>5 DEF Discard, TypeOK
    <2>2. op' = [op EXCEPT ![p] = o] /\ UNCHANGED <<held, inFlight, controller>>
      BY <1>5 DEF Discard, Tear
    <2>3. o \in OpRecord /\ o.s = s
      BY <1>0, <2>1 DEF Call, Idle, OpRecord, Stages
    <2> HIDE DEF o
    <2>4. Placed(o)
      BY <2>3 DEF Placed
    <2> QED BY <2>2, <2>4, MoveTyped
  <1>6. CASE \E k \in Turns : TurnCall(p, k, s)
    <2>1. PICK k \in Turns : TurnCall(p, k, s)
      BY <1>6
    <2>2. OpsTyped(op') /\ inFlight' \in [Session -> Op \cup {None}]
      BY <1>0, <2>1, EnsureTyped DEF TurnCall
    <2> QED BY <2>1, <2>2, TypedAgain DEF TurnCall, TypeOK, held
  <1> QED BY <1>1, <1>2, <1>3, <1>4, <1>5, <1>6

LEMMA LoadStepTyped ==
  ASSUME TypeOK, NEW p \in Op,
         \/ LoadReady(p) \/ (\E r \in Runtime : LoadCreated(p, r))
         \/ LoadRegistered(p) \/ LoadFails(p) \/ LoadEvicts(p)
  PROVE  TypeOK'
  <1> DEFINE o == op[p]
  <1>0. o \in OpRecord /\ Placed(o)
    BY AllPlaced
  <1>1. CASE LoadReady(p)
    <2>0. /\ o.s \in Session /\ UNCHANGED <<held, inFlight, controller>>
          /\ "creating" \in Stages /\ "tearing" \in Stages
      BY <1>0, <1>1 DEF LoadReady, Placed, Stages
    <2>1. CASE op' = [op EXCEPT ![p] = [o EXCEPT !.pc = "creating", !.keep = session, !.at = path]]
      <3>1. session \in Runtime \cup {None} /\ path \in Session \cup {None}
        BY DEF TypeOK
      <3>2. Placed([o EXCEPT !.pc = "creating", !.keep = session, !.at = path])
        <4> HIDE DEF o
        <4> QED BY <1>0, <2>0, <3>1 DEF OpRecord, Placed
      <3> QED BY <2>0, <2>1, <3>2, MoveTyped
    <2>2. ASSUME NEW pc \in {"creating", "tearing"}, op' = [op EXCEPT ![p] = [o EXCEPT !.pc = pc]]
          PROVE  TypeOK'
      <3>1. Placed([o EXCEPT !.pc = pc])
        <4> HIDE DEF o
        <4> QED BY <1>0, <2>0, <2>2, Staged DEF Placed
      <3> QED BY <2>0, <2>2, <3>1, MoveTyped
    <2>3. \/ op' = [op EXCEPT ![p] = [o EXCEPT !.pc = "creating", !.keep = session, !.at = path]]
          \/ op' = [op EXCEPT ![p] = [o EXCEPT !.pc = "creating"]]
          \/ op' = [op EXCEPT ![p] = [o EXCEPT !.pc = "tearing"]]
      BY <1>1 DEF LoadReady, Tear
    <2> QED BY <2>1, <2>2, <2>3
  <1>2. CASE \E r \in Runtime : LoadCreated(p, r)
    <2>1. PICK r \in Runtime : LoadCreated(p, r)
      BY <1>2
    <2>2. o.s \in Session
      BY <1>0, <2>1 DEF LoadCreated, Placed
    <2>3. Placed([o EXCEPT !.pc = "pointed", !.r = r])
      <3> HIDE DEF o
      <3>1. PICK pc \in Stages : pc = "pointed"
        BY DEF Stages
      <3>2. PICK n : n = [o EXCEPT !.pc = pc, !.r = r]
        OBVIOUS
      <3>3. n \in OpRecord /\ n.s = o.s
        BY <1>0, <3>2 DEF OpRecord
      <3> QED BY <2>2, <3>1, <3>2, <3>3 DEF Placed
    <2>4. OpsTyped(op')
      BY <2>1, <2>3, OneOp DEF LoadCreated
    <2> QED BY <2>1, <2>2, <2>4, TypedAgain DEF LoadCreated, TypeOK
  <1>3. CASE LoadRegistered(p)
    <2>1. o.s \in Session /\ Placed([o EXCEPT !.pc = "registered"])
      <3>1. o.s \in Session
        BY <1>0, <1>3 DEF LoadRegistered, Placed
      <3> HIDE DEF o
      <3> QED BY <1>0, <3>1, Staged DEF Placed, Stages
    <2>2. OpsTyped(op')
      BY <1>3, <2>1, OneOp DEF LoadRegistered
    <2>3. entry' \in [Session -> Runtime \cup {None}]
      BY <1>0, <1>3, Fields DEF LoadRegistered, TypeOK
    <2> QED BY <1>3, <2>2, <2>3, TypedAgain DEF LoadRegistered, TypeOK
  <1>4. CASE LoadFails(p)
    <2>1. /\ OpsTyped(op') /\ inFlight' \in [Session -> Op \cup {None}]
          /\ session' \in Runtime \cup {None} /\ path' \in Session \cup {None}
      BY <1>4, OverTyped DEF LoadFails
    <2> QED BY <1>4, <2>1, TypedAgain DEF LoadFails, TypeOK
  <1>5. CASE LoadEvicts(p)
    <2>1. Candidates(p) \in SUBSET (Session \X Runtime)
      BY DEF Candidates, Cached, TypeOK
    <2>2. op[p].pc # "idle" /\ EvictNext(p, entry, Candidates(p))
      BY <1>5 DEF LoadEvicts
    <2>3. /\ OpsTyped(op') /\ inFlight' \in [Session -> Op \cup {None}]
          /\ session' \in Runtime \cup {None} /\ path' \in Session \cup {None}
      BY <2>1, <2>2, NextTyped
    <2> QED BY <1>5, <2>3, TypedAgain DEF LoadEvicts, TypeOK
  <1> QED BY <1>1, <1>2, <1>3, <1>4, <1>5

LEMMA TearStepTyped ==
  ASSUME TypeOK, NEW p \in Op, TearEnds(p)
  PROVE  TypeOK'
  <1> DEFINE o == op[p]
  <1>0. o \in OpRecord /\ o.s \in Session /\ o.pc # "idle"
    BY AllPlaced DEF TearEnds
  <1>1. CASE Hibernated(p)
    <2>1. OpsTyped(op')
      BY <1>1, IdlePlaced, OneOp DEF Hibernated
    <2> QED BY <1>1, <2>1, TypedAgain DEF Hibernated, TypeOK
  <1>2. CASE Discarded(p)
    <2>1. OpsTyped(op')
      BY <1>2, IdlePlaced, OneOp DEF Discarded
    <2>2. marks' \in Marks
      BY <1>2, RobsTyped DEF Discarded
    <2> QED BY <1>2, <2>1, <2>2, TypedAgain DEF Discarded, TypeOK
  <1>3. CASE ReloadTorn(p)
    <2>1. Placed(Call("reload", o.s, "creating"))
      BY <1>0, CallPlaced DEF Kinds, Loads, Stages
    <2>2. OpsTyped(op')
      BY <1>3, <2>1, OneOp DEF ReloadTorn
    <2>3. marks' \in Marks
      BY <1>3, RobsTyped DEF ReloadTorn
    <2> QED BY <1>3, <2>2, <2>3, TypedAgain DEF ReloadTorn, TypeOK
  <1>4. CASE Evicted(p)
    <2>1. PICK v \in o.victims : /\ alive' = alive \ {v[2]}
                                 /\ entry' = [entry EXCEPT ![v[1]] = None]
                                 /\ EvictNext(p, entry', o.victims \ {v})
                                 /\ Robs(v[2], {"preparing"})
      BY <1>4 DEF Evicted
    <2>2. o.victims \ {v} \in SUBSET (Session \X Runtime)
      BY <1>0, Fields
    <2>3. /\ OpsTyped(op') /\ inFlight' \in [Session -> Op \cup {None}]
          /\ session' \in Runtime \cup {None} /\ path' \in Session \cup {None}
      BY <1>0, <2>1, <2>2, NextTyped
    <2>4. marks' \in Marks
      BY <2>1, RobsTyped
    <2> QED BY <1>4, <2>1, <2>3, <2>4, TypedAgain DEF Evicted, TypeOK
  <1> QED BY <1>1, <1>2, <1>3, <1>4 DEF TearEnds

LEMMA TurnStepTyped ==
  ASSUME TypeOK, NEW p \in Op,
         PromptStart(p) \/ PromptPrepared(p) \/ DeliverStart(p) \/ TurnEnds(p)
  PROVE  TypeOK'
  <1> DEFINE o == op[p]
             s == op[p].s
  <1>0. o \in OpRecord /\ s \in Session
    BY AllPlaced DEF PromptStart, PromptPrepared, Prepared, DeliverStart, TurnEnds
  <1>1. CASE PromptStart(p)
    <2>1. OpsTyped(op') /\ inFlight' \in [Session -> Op \cup {None}]
      <3>1. CASE entry[s] # None
        <4>1. Placed([o EXCEPT !.pc = "preparing", !.r = entry[s]])
          <5>1. entry[s] \in Runtime
            BY <1>0, <3>1 DEF TypeOK
          <5> HIDE DEF o
          <5>2. s = o.s
            BY DEF o
          <5> HIDE DEF s
          <5> QED BY <1>0, <5>1, <5>2 DEF OpRecord, Placed, Stages
        <4>2. op' = [op EXCEPT ![p] = [o EXCEPT !.pc = "preparing", !.r = entry[s]]]
              /\ inFlight' = inFlight
          BY <1>1, <3>1 DEF PromptStart
        <4> QED BY <4>1, <4>2, OneOp DEF TypeOK
      <3>2. CASE entry[s] = None /\ EnsureLoaded(p, "submit", s)
        BY <1>0, <3>2, EnsureTyped DEF Attach, Turns
      <3>3. CASE op' = [op EXCEPT ![p] = Idle] /\ inFlight' = inFlight
        BY <3>3, IdlePlaced, OneOp DEF TypeOK
      <3> QED BY <1>1, <3>1, <3>2, <3>3 DEF PromptStart
    <2>2. /\ session' \in Runtime \cup {None}
          /\ controller' \in [Session -> Op \cup {None}]
      BY <1>0, <1>1 DEF PromptStart, TypeOK
    <2>3. marks' \in Marks
      <3> DEFINE bare == {controller[s]} \ {None}
                 beside == {q \in Op : op[q].pc = "running" /\ op[q].s = s}
      <3>1. bare \subseteq Op /\ beside \subseteq Op
        BY <1>0 DEF TypeOK
      <3>2. marks' \in {marks, [marks EXCEPT !.bare = @ \cup bare, !.beside = @ \cup beside]}
        BY <1>1 DEF PromptStart
      <3> HIDE DEF bare, beside
      <3> QED BY <3>1, <3>2 DEF TypeOK, Marks
    <2> QED BY <1>1, <2>1, <2>2, <2>3, TypedAgain DEF PromptStart, TypeOK
  <1>2. CASE PromptPrepared(p)
    <2>1. \/ op' = [op EXCEPT ![p] = Idle]
          \/ op' = [op EXCEPT ![p] = [o EXCEPT !.pc = "running"]]
      BY <1>2 DEF PromptPrepared, Prepared
    <2>2. Placed([o EXCEPT !.pc = "running"])
      BY <1>0, Staged DEF Placed, Stages
    <2>3. OpsTyped(op')
      BY <2>1, <2>2, IdlePlaced, OneOp
    <2>4. marks' \in Marks /\ controller' \in [Session -> Op \cup {None}]
      BY <1>2, UnmarkedTyped DEF PromptPrepared, Prepared, TypeOK
    <2> QED BY <1>2, <2>3, <2>4, TypedAgain DEF PromptPrepared, Prepared, TypeOK
  <1>3. CASE DeliverStart(p)
    <2>1. \/ op' = [op EXCEPT ![p] = Idle]
          \/ /\ entry[s] # None
             /\ op' = [op EXCEPT ![p] = [o EXCEPT !.pc = "running", !.r = entry[s]]]
      BY <1>3 DEF DeliverStart
    <2>2. entry[s] # None => Placed([o EXCEPT !.pc = "running", !.r = entry[s]])
      <3>1. entry[s] # None => entry[s] \in Runtime
        BY <1>0 DEF TypeOK
      <3>2. s = o.s
        OBVIOUS
      <3> HIDE DEF o, s
      <3> QED BY <1>0, <3>1, <3>2 DEF OpRecord, Placed, Stages
    <2>3. OpsTyped(op')
      BY <2>1, <2>2, IdlePlaced, OneOp
    <2>4. marks' \in Marks
      BY <1>3 DEF DeliverStart, TypeOK, Marks
    <2> QED BY <1>3, <2>3, <2>4, TypedAgain DEF DeliverStart, TypeOK
  <1>4. CASE TurnEnds(p)
    <2>1. OpsTyped(op') /\ marks' \in Marks
      BY <1>4, IdlePlaced, OneOp, UnmarkedTyped DEF TurnEnds
    <2> QED BY <1>4, <2>1, TypedAgain DEF TurnEnds, TypeOK
  <1> QED BY <1>1, <1>2, <1>3, <1>4

LEMMA SessionStepTyped ==
  ASSUME TypeOK, NEW s \in Session, Stop(s) \/ DiscardNow(s) \/ SwitchWarm(s)
  PROVE  TypeOK'
  <1>1. CASE Stop(s)
    <2>1. OpsTyped(op')
      BY <1>1, StopTyped
    <2>2. controller' \in [Session -> Op \cup {None}]
      BY <1>1 DEF Stop, TypeOK
    <2>3. CASE ForceRelease(s)
      BY <1>1, <2>1, <2>2, <2>3, ReleaseTyped, TypedAgain DEF Stop, TypeOK
    <2>4. CASE UNCHANGED <<entry, alive, session, path>>
      BY <1>1, <2>1, <2>2, <2>4, TypedAgain DEF Stop, TypeOK
    <2> QED BY <1>1, <2>3, <2>4 DEF Stop
  <1>2. CASE DiscardNow(s)
    <2>1. CASE op' = Halt(s) /\ ForceRelease(s)
      <3>1. OpsTyped(op')
        BY <2>1, HaltTyped
      <3> QED BY <1>2, <2>1, <3>1, ReleaseTyped, TypedAgain DEF DiscardNow, TypeOK
    <2>2. CASE session' = None /\ path' = None /\ UNCHANGED <<entry, alive, op>>
      BY <1>2, <2>2, SameOps, TypedAgain DEF DiscardNow, TypeOK, OpsTyped
    <2> QED BY <1>2, <2>1, <2>2 DEF DiscardNow
  <1>3. CASE SwitchWarm(s)
    BY <1>3, SameOps, TypedAgain DEF SwitchWarm, TypeOK, OpsTyped
  <1> QED BY <1>1, <1>2, <1>3

LEMMA TypeStep == TypeOK /\ [Next]_vars => TypeOK'
  <1> SUFFICES ASSUME TypeOK, [Next]_vars PROVE TypeOK'
    OBVIOUS
  <1>1. CASE \E p \in Op : TearEnds(p)
    BY <1>1, TearStepTyped
  <1>2. CASE \E p \in Op : Step(p)
    BY <1>2, CallStepTyped, LoadStepTyped, TurnStepTyped DEF Step
  <1>3. CASE \E s \in Session : Stop(s) \/ DiscardNow(s) \/ SwitchWarm(s)
    BY <1>3, SessionStepTyped
  <1>4. CASE UNCHANGED vars
    BY <1>4 DEF vars, TypeOK
  <1> QED BY <1>1, <1>2, <1>3, <1>4 DEF Next

LEMMA TypeStart == Init => TypeOK
  <1> SUFFICES ASSUME Init PROVE TypeOK
    OBVIOUS
  <1>1. \A p \in Op : op[p] = Idle
    BY DEF Init
  <1>2. op \in [Op -> OpRecord]
    BY IdleTyped DEF Init
  <1> QED BY <1>1, <1>2, IdleTyped DEF Init, TypeOK, Marks

\* Whatever loads, turns, stops, hibernations and evictions run into each other,
\* the registry holds runtimes under sessions, the focus, the in-flight map and
\* the abort controllers hold what they are meant to, and a call in progress
\* always has its session.
THEOREM RuntimeTypes == Spec => []TypeOK
  BY TypeStart, TypeStep, PTL DEF Spec

-----------------------------------------------------------------------------
(* One writer: the inductive invariant                                     *)

\* The discipline the proof assumes: a switch or a reload does not meet another
\* load of its session, and shutdown handlers do not await.
Discipline == Overlap # "any" /\ SlowTeardown = FALSE

Same(q) == /\ op'[q].kind = op[q].kind /\ op'[q].s = op[q].s /\ op'[q].pc = op[q].pc
           /\ op'[q].r = op[q].r /\ op'[q].victims = op[q].victims

\* A call that will register nothing.
Quiet(o) == /\ o.pc \notin {"ready", "creating", "pointed", "registered"}
            /\ o.pc = "tearing" /\ o.kind = "reload" => o.victims # {}

\* A call that does not load or tear anything down.
Calm(o) == o.pc \notin {"ready", "creating", "pointed", "registered", "tearing"} /\ o.victims = {}

\* A call that will register a runtime.
Coming(p) == Loading(p) \/ (op[p].pc = "tearing" /\ op[p].kind = "reload" /\ op[p].victims = {})

Solo == \A p, q \in Op : op[p].pc = "tearing" /\ op[q].pc = "tearing" => p = q

Kept == \A p \in Op :
          /\ Loading(p) \/ op[p].pc = "registered" => op[p].kind \in Loads /\ op[p].victims = {}
          /\ op[p].victims # {} => op[p].pc = "tearing" /\ op[p].kind \in Loads

\* One call at a time will register a runtime for a session ...
Apart == \A p, q \in Op : Coming(p) /\ Coming(q) /\ op[p].s = op[q].s => p = q

\* ... which has none, save the one a reload is about to let go.
Absent == \A p \in Op : Coming(p) =>
            \/ entry[op[p].s] = None
            \/ /\ op[p].kind = "reload" /\ op[p].pc \in {"ready", "tearing"}
               /\ entry[op[p].s] = op[p].r

Mine == \A p \in Op : Busy(p) /\ op[p].kind \in Attach => inFlight[op[p].s] = p

\* What is being torn down is still registered.
Torn == \A p \in Op : op[p].pc = "tearing" /\ op[p].kind \in {"hibernate", "discard"} =>
          entry[op[p].s] = op[p].r /\ op[p].r # None
Doomed == \A p \in Op : \A v \in op[p].victims : entry[v[1]] = v[2]

\* Whose file a runtime has open.
Pointed == \A p \in Op : op[p].pc = "pointed" => op[p].r \in alive /\ of[op[p].r] = op[p].s
Noted == \A p \in Op :
           (op[p].kind = "reload" /\ op[p].pc \in {"ready", "tearing"} /\ op[p].victims = {})
             => op[p].r = None \/ of[op[p].r] = op[p].s
Own == \A s \in Session : entry[s] # None => of[entry[s]] = s

\* A live runtime is registered, or about to be.
Written == \A r \in alive :
             /\ of[r] \in Session
             /\ \/ entry[of[r]] = r
                \/ \E p \in Op : op[p].pc = "pointed" /\ op[p].r = r /\ op[p].s = of[r]

\* What a call in progress may rely on, and what the registry and the live
\* runtimes say of each other.
Calls1 == Solo /\ Kept /\ Mine /\ Torn /\ Doomed
Files  == Apart /\ Absent /\ Pointed /\ Noted /\ Own /\ Written

IInv == TypeOK /\ Calls1 /\ Files

-----------------------------------------------------------------------------
(* Steps that load nothing                                                 *)

\* One runtime at most is unregistered, and then it is disposed.
Removed(s) == /\ entry[s] # None
              /\ entry' = [entry EXCEPT ![s] = None]
              /\ alive' = alive \ {entry[s]}

LEMMA FilesKept ==
  ASSUME IInv, of' = of,
         \A q \in Op : Same(q) \/ (Quiet(op'[q]) /\ op[q].pc # "pointed"),
         UNCHANGED <<entry, alive>> \/ \E s \in Session : Removed(s)
  PROVE  Files'
  <1> USE DEF IInv, Files
  <1>1. \A q \in Op : (Coming(q))' => Coming(q) /\ Same(q)
    BY DEF Coming, Loading, Same, Quiet
  <1>2. \A s \in Session : entry'[s] = entry[s] \/ entry'[s] = None
    BY DEF Removed, TypeOK
  <1>3. \A q \in Op : op'[q].pc = "pointed" => Same(q)
    BY DEF Quiet
  <1>4. Apart'
    BY <1>1 DEF Apart, Same
  <1>5. Absent'
    <2> SUFFICES ASSUME NEW q \in Op, (Coming(q))'
                 PROVE  \/ entry'[op'[q].s] = None
                        \/ /\ op'[q].kind = "reload" /\ op'[q].pc \in {"ready", "tearing"}
                           /\ entry'[op'[q].s] = op'[q].r
      BY DEF Absent
    <2>1. Coming(q) /\ Same(q) /\ op[q].s \in Session
      BY <1>1, AllPlaced DEF Coming, Loading
    <2> QED BY <1>2, <2>1 DEF Absent, Same
  <1>6. \A q \in Op : op[q].pc = "pointed" => op[q].s \in Session /\ entry[op[q].s] = None
    BY AllPlaced DEF Absent, Coming, Loading
  <1>7. Pointed'
    <2> SUFFICES ASSUME NEW q \in Op, op'[q].pc = "pointed"
                 PROVE  op'[q].r \in alive' /\ of[op'[q].r] = op'[q].s
      BY DEF Pointed
    <2>1. Same(q) /\ op[q].pc = "pointed" /\ op[q].r \in alive /\ of[op[q].r] = op[q].s
      BY <1>3 DEF Same, Pointed
    <2>2. ASSUME NEW s \in Session, Removed(s) PROVE op[q].r # entry[s]
      BY <1>6, <2>1, <2>2 DEF Removed, Own
    <2> QED BY <2>1, <2>2 DEF Removed, Same
  <1>8. Noted'
    BY DEF Noted, Same, Quiet
  <1>9. Own'
    BY <1>2 DEF Own
  <1>10. Written'
    <2> SUFFICES ASSUME NEW r \in alive'
                 PROVE  /\ of[r] \in Session
                        /\ \/ entry'[of[r]] = r
                           \/ \E p \in Op : op'[p].pc = "pointed" /\ op'[p].r = r /\ op'[p].s = of[r]
      BY DEF Written
    <2>1. r \in alive
      BY DEF Removed
    <2>2. of[r] \in Session
      BY <2>1 DEF Written
    <2>3. CASE entry[of[r]] = r
      <3>1. \A s \in Session : Removed(s) => s # of[r]
        BY <2>3 DEF Removed
      <3>2. entry'[of[r]] = r
        BY <2>2, <2>3, <3>1 DEF Removed, TypeOK
      <3> QED BY <2>2, <3>2
    <2>4. CASE \E p \in Op : op[p].pc = "pointed" /\ op[p].r = r /\ op[p].s = of[r]
      BY <2>2, <2>4 DEF Same
    <2> QED BY <2>1, <2>3, <2>4 DEF Written
  <1> QED BY <1>4, <1>5, <1>7, <1>8, <1>9, <1>10

LEMMA CallsKept ==
  ASSUME IInv, \A q \in Op : Same(q) \/ Calm(op'[q]), Mine',
         \/ entry' = entry
         \/ \A q \in Op : op'[q].pc # "tearing"
  PROVE  Calls1'
  <1> USE DEF IInv, Calls1, Calm, Same
  <1>1. Solo'
    BY DEF Solo
  <1>2. Kept'
    BY DEF Kept, Loading
  <1>3. Torn'
    BY DEF Torn
  <1>4. Doomed'
    BY <1>2 DEF Doomed, Kept
  <1> QED BY <1>1, <1>2, <1>3, <1>4

LEMMA MineKept ==
  ASSUME IInv, \A q \in Op : Same(q) \/ Calm(op'[q]), inFlight' = inFlight
  PROVE  Mine'
  BY DEF IInv, Calls1, Calm, Same, Mine, Busy, Loading

-----------------------------------------------------------------------------
(* Steps of a load                                                         *)

LEMMA LoadBegins ==
  ASSUME IInv, NEW p \in Op, UNCHANGED <<entry, of, alive>>,
         op[p].pc \in {"idle", "loaded"}, \A q \in Op : op[q].pc # "tearing",
         \A q \in Op : q # p => op'[q] = op[q],
         op'[p].pc = "ready", op'[p].kind \in Loads, op'[p].victims = {},
         op'[p].s \in Session,
         \A q \in Op : Loading(q) => op[q].s # op'[p].s,
         \/ op'[p].kind = "reload" /\ op'[p].r = entry[op'[p].s]
         \/ op'[p].kind # "reload" /\ entry[op'[p].s] = None,
         \/ op'[p].kind \notin Attach /\ inFlight' = inFlight
         \/ inFlight[op'[p].s] = None /\ inFlight' = [inFlight EXCEPT ![op'[p].s] = p]
  PROVE  Calls1' /\ Files'
  <1> USE DEF IInv
  <1>0. \A q \in Op : q # p => Same(q)
    BY DEF Same
  <1>1. ASSUME NEW q \in Op, (Coming(q))'
        PROVE  q = p \/ (q # p /\ Loading(q) /\ Coming(q) /\ op'[q].s = op[q].s)
    BY <1>0, <1>1 DEF Coming, Loading, Same
  <1>2. Apart'
    <2> SUFFICES ASSUME NEW a \in Op, NEW b \in Op, (Coming(a))', (Coming(b))',
                        op'[a].s = op'[b].s
                 PROVE  a = b
      BY DEF Apart
    <2>1. a = p \/ (a # p /\ Loading(a) /\ Coming(a) /\ op'[a].s = op[a].s)
      BY <1>1
    <2>2. b = p \/ (b # p /\ Loading(b) /\ Coming(b) /\ op'[b].s = op[b].s)
      BY <1>1
    <2> QED BY <2>1, <2>2 DEF Apart, Files
  <1>3. Absent'
    <2> SUFFICES ASSUME NEW q \in Op, (Coming(q))'
                 PROVE  \/ entry'[op'[q].s] = None
                        \/ /\ op'[q].kind = "reload" /\ op'[q].pc \in {"ready", "tearing"}
                           /\ entry'[op'[q].s] = op'[q].r
      BY DEF Absent
    <2>1. CASE q = p
      BY <2>1
    <2>2. CASE q # p
      BY <1>0, <1>1, <2>2 DEF Absent, Files, Same
    <2> QED BY <2>1, <2>2
  <1>4. Pointed'
    BY <1>0, <1>1 DEF Pointed, Files, Same
  <1>5. Noted'
    BY <1>0 DEF Noted, Own, Files, Same
  <1>6. Own' /\ Written'
    BY <1>0 DEF Own, Written, Files, Same
  <1>7. Solo' /\ Kept' /\ Torn' /\ Doomed'
    BY <1>0 DEF Solo, Kept, Torn, Doomed, Calls1, Same, Loading
  <1>8. Mine'
    <2>1. inFlight \in [Session -> Op \cup {None}] /\ None \notin Op
      BY RuntimeAssumption DEF TypeOK
    <2>2. \A q \in Op : (Busy(q))' /\ q # p => Busy(q) /\ op[q].s \in Session
      BY <1>0, AllPlaced DEF Busy, Loading, Same
    <2>3. \A q \in Op : Busy(q) /\ op[q].kind \in Attach => inFlight[op[q].s] = q
      BY DEF Mine, Calls1
    <2> QED BY <1>0, <2>1, <2>2, <2>3 DEF Mine, Same
  <1> QED BY <1>2, <1>3, <1>4, <1>5, <1>6, <1>7, <1>8 DEF Calls1, Files

\* A load that goes on, or a reload that starts to let the old runtime go.
LEMMA LoadGoesOn ==
  ASSUME IInv, NEW p \in Op, UNCHANGED <<entry, of, alive, inFlight>>,
         \A q \in Op : op[q].pc # "tearing",
         \A q \in Op : q # p => op'[q] = op[q],
         op[p].pc = "ready", op'[p].kind = op[p].kind, op'[p].s = op[p].s,
         op'[p].r = op[p].r, op'[p].victims = op[p].victims,
         \/ op'[p].pc = "creating" /\ (op[p].kind = "reload" => op[p].r = None)
         \/ op'[p].pc = "tearing" /\ op[p].kind = "reload"
  PROVE  Calls1' /\ Files'
  <1> USE DEF IInv
  <1>0. \A q \in Op : q # p => Same(q)
    BY DEF Same
  <1>1. /\ \A q \in Op : (Coming(q))' => Coming(q) /\ op'[q].s = op[q].s
        /\ \A q \in Op : op'[q].pc = "pointed" => q # p
    BY <1>0 DEF Coming, Loading, Same
  <1>2. Coming(p) /\ op[p].victims = {} /\ op[p].kind \in Loads
    BY DEF Coming, Loading, Kept, Calls1
  <1>3. Apart' /\ Pointed'
    BY <1>0, <1>1 DEF Apart, Pointed, Files, Same
  <1>4. Absent'
    BY <1>0, <1>1, <1>2 DEF Absent, Files, Same
  <1>5. Noted'
    BY <1>0, <1>2 DEF Noted, Files, Same
  <1>6. Own' /\ Written'
    BY <1>0 DEF Own, Written, Files, Same
  <1>7. Solo' /\ Kept' /\ Torn' /\ Doomed'
    BY <1>0, <1>2 DEF Solo, Kept, Torn, Doomed, Calls1, Same, Loading
  <1>8. Mine'
    BY <1>0, <1>2 DEF Mine, Busy, Loading, Calls1, Same
  <1> QED BY <1>3, <1>4, <1>5, <1>6, <1>7, <1>8 DEF Calls1, Files

LEMMA OldRuntimeGone ==
  ASSUME IInv, NEW p \in Op, ReloadTorn(p), op[p].pc = "tearing"
  PROVE  Calls1' /\ Files'
  <1> USE DEF IInv
  <1> DEFINE s == op[p].s
  <1>0. /\ s \in Session /\ op'[p] = Call("reload", s, "creating")
        /\ \A q \in Op : q # p => op'[q] = op[q]
        /\ entry' = [entry EXCEPT ![s] = None] /\ alive' = alive \ {op[p].r}
        /\ UNCHANGED <<of, inFlight>>
    BY AllPlaced DEF ReloadTorn, TypeOK
  <1>1. /\ op'[p].kind = "reload" /\ op'[p].s = s /\ op'[p].pc = "creating"
        /\ op'[p].r = None /\ op'[p].victims = {}
    BY <1>0, CallTyped DEF Kinds, Loads, Stages
  <1>2. /\ Coming(p) /\ op[p].kind = "reload" /\ op[p].victims = {}
        /\ \A q \in Op : q # p => Same(q) /\ op[q].pc # "tearing"
    BY <1>0 DEF ReloadTorn, Coming, Same, Solo, Calls1
  <1>3. \A q \in Op : (Coming(q))' => Coming(q) /\ op'[q].s = op[q].s
    BY <1>1, <1>2 DEF Coming, Loading, Same
  <1>4. \A q \in Op : op[q].pc = "pointed" => /\ q # p /\ op[q].s # s
                                              /\ entry[op[q].s] = None /\ op[q].s \in Session
    BY <1>2, AllPlaced DEF Apart, Absent, Coming, Loading, Files, ReloadTorn
  <1>5. Apart'
    BY <1>3 DEF Apart, Files
  <1>6. Absent'
    <2> SUFFICES ASSUME NEW q \in Op, (Coming(q))'
                 PROVE  \/ entry'[op'[q].s] = None
                        \/ /\ op'[q].kind = "reload" /\ op'[q].pc \in {"ready", "tearing"}
                           /\ entry'[op'[q].s] = op'[q].r
      BY DEF Absent
    <2>1. op[q].s \in Session /\ Coming(q)
      BY <1>3, AllPlaced DEF Coming, Loading
    <2>2. CASE q = p
      BY <1>0, <1>1, <2>2 DEF TypeOK
    <2>3. CASE q # p
      BY <1>0, <1>2, <2>1, <2>3 DEF Absent, Files, Same, TypeOK
    <2> QED BY <2>2, <2>3
  <1>7. Pointed'
    <2> SUFFICES ASSUME NEW q \in Op, op'[q].pc = "pointed"
                 PROVE  op'[q].r \in alive' /\ of[op'[q].r] = op'[q].s
      BY <1>0 DEF Pointed
    <2>1. /\ q # p /\ Same(q) /\ op[q].pc = "pointed" /\ op[q].r \in alive
          /\ of[op[q].r] = op[q].s /\ op[q].s # s
      BY <1>1, <1>2, <1>4 DEF Same, Pointed, Files
    <2>2. op[p].r = None \/ of[op[p].r] = s
      BY <1>2 DEF Noted, Files
    <2>3. None \notin alive
      BY RuntimeAssumption DEF TypeOK
    <2> QED BY <1>0, <2>1, <2>2, <2>3 DEF Same
  <1>8. Noted'
    BY <1>0, <1>1, <1>2 DEF Noted, Files, Same
  <1>9. Own'
    BY <1>0 DEF Own, Files, TypeOK
  <1>10. Written'
    <2> SUFFICES ASSUME NEW r \in alive'
                 PROVE  /\ of[r] \in Session
                        /\ \/ entry'[of[r]] = r
                           \/ \E q \in Op : op'[q].pc = "pointed" /\ op'[q].r = r /\ op'[q].s = of[r]
      BY <1>0 DEF Written
    <2>1. r \in alive /\ r # op[p].r /\ of[r] \in Session /\ r \in Runtime
      BY <1>0 DEF Written, Files, TypeOK
    <2>2. CASE entry[of[r]] = r
      <3>1. of[r] # s
        BY <1>2, <2>1, <2>2, RuntimeAssumption DEF Absent, Files
      <3> QED BY <1>0, <2>1, <2>2, <3>1 DEF TypeOK
    <2>3. CASE \E q \in Op : op[q].pc = "pointed" /\ op[q].r = r /\ op[q].s = of[r]
      BY <1>0, <1>4, <2>1, <2>3
    <2> QED BY <2>1, <2>2, <2>3 DEF Written, Files
  <1>11. Solo' /\ Torn'
    BY <1>1, <1>2 DEF Solo, Torn, Same
  <1>12. Kept' /\ Doomed'
    BY <1>1, <1>2 DEF Kept, Doomed, Calls1, Same, Loading, Loads
  <1>13. Mine'
    BY <1>0, <1>1, <1>2 DEF Mine, Busy, Loading, Calls1, Same, Attach, Turns
  <1> QED BY <1>5, <1>6, <1>7, <1>8, <1>9, <1>10, <1>11, <1>12, <1>13 DEF Calls1, Files

LEMMA NewRuntime ==
  ASSUME IInv, NEW p \in Op, NEW r \in Runtime, LoadCreated(p, r),
         \A q \in Op : op[q].pc # "tearing"
  PROVE  Calls1' /\ Files'
  <1> USE DEF IInv
  <1> DEFINE s == op[p].s
  <1>0. /\ s \in Session /\ op[p].pc = "creating" /\ r \notin alive
        /\ \A x \in Session : entry[x] # r
        /\ \A q \in Op : op[q].r # r
        /\ of' = [of EXCEPT ![r] = s] /\ alive' = alive \cup {r}
        /\ UNCHANGED <<entry, inFlight>>
        /\ \A q \in Op : q # p => Same(q)
    BY AllPlaced DEF LoadCreated, Fresh, Referenced, Same, TypeOK
  <1>1. /\ op'[p].kind = op[p].kind /\ op'[p].s = s /\ op'[p].pc = "pointed"
        /\ op'[p].r = r /\ op'[p].victims = op[p].victims
    <2> DEFINE o == op[p]
               n == [o EXCEPT !.pc = "pointed", !.r = r]
    <2>1. o \in OpRecord /\ op'[p] = n
      BY AllPlaced DEF LoadCreated, TypeOK
    <2> HIDE DEF o
    <2>2. n.kind = o.kind /\ n.s = o.s /\ n.pc = "pointed" /\ n.r = r /\ n.victims = o.victims
      BY <2>1 DEF OpRecord
    <2> HIDE DEF n
    <2> QED BY <2>1, <2>2 DEF o
  <1>2. Coming(p) /\ op[p].kind \in Loads /\ op[p].victims = {} /\ entry[s] = None
    BY <1>0 DEF Coming, Loading, Kept, Calls1, Absent, Files
  <1>3. ASSUME NEW q \in Op, (Coming(q))'
        PROVE  Coming(q) /\ op'[q].s = op[q].s
    BY <1>0, <1>1, <1>2, <1>3 DEF Coming, Loading, Same
  <1>4. Apart'
    BY <1>3 DEF Apart, Files
  <1>5. Absent'
    <2> SUFFICES ASSUME NEW q \in Op, (Coming(q))'
                 PROVE  \/ entry[op'[q].s] = None
                        \/ /\ op'[q].kind = "reload" /\ op'[q].pc \in {"ready", "tearing"}
                           /\ entry[op'[q].s] = op'[q].r
      BY <1>0 DEF Absent
    <2>1. CASE q = p
      BY <1>1, <1>2, <2>1
    <2>2. CASE q # p
      BY <1>0, <1>3, <2>2 DEF Absent, Files, Same
    <2> QED BY <2>1, <2>2
  <1>6. of \in [Runtime -> Session \cup {None}] /\ None \notin Runtime
    BY RuntimeAssumption DEF TypeOK
  <1>7. \A q \in Op : op[q].r # None => of'[op[q].r] = of[op[q].r]
    <2> SUFFICES ASSUME NEW q \in Op, op[q].r # None
                 PROVE  of'[op[q].r] = of[op[q].r]
      OBVIOUS
    <2>1. op[q].r \in Runtime
      BY AllPlaced, Fields
    <2> QED BY <1>0, <1>6, <2>1
  <1>8. Pointed'
    <2> SUFFICES ASSUME NEW q \in Op, op'[q].pc = "pointed"
                 PROVE  op'[q].r \in alive' /\ of'[op'[q].r] = op'[q].s
      BY DEF Pointed
    <2>1. CASE q = p
      BY <1>0, <1>1, <1>6, <2>1
    <2>2. CASE q # p
      BY <1>0, <1>6, <1>7, <2>2 DEF Pointed, Files, Same, TypeOK
    <2> QED BY <2>1, <2>2
  <1>9. Noted'
    <2> SUFFICES ASSUME NEW q \in Op, op'[q].kind = "reload", op'[q].victims = {},
                        op'[q].pc \in {"ready", "tearing"}
                 PROVE  op'[q].r = None \/ of'[op'[q].r] = op'[q].s
      BY DEF Noted
    <2> QED BY <1>0, <1>1, <1>7 DEF Noted, Files, Same
  <1>10. Own'
    BY <1>0, <1>6 DEF Own, Files, TypeOK
  <1>11. Written'
    <2> SUFFICES ASSUME NEW x \in alive'
                 PROVE  /\ of'[x] \in Session
                        /\ \/ entry[of'[x]] = x
                           \/ \E q \in Op : op'[q].pc = "pointed" /\ op'[q].r = x /\ op'[q].s = of'[x]
      BY <1>0 DEF Written
    <2>1. CASE x = r
      BY <1>0, <1>1, <1>6, <2>1
    <2>2. CASE x # r
      <3>1. x \in alive /\ x \in Runtime /\ of'[x] = of[x]
        BY <1>0, <1>6, <2>2 DEF TypeOK
      <3>2. \A q \in Op : op[q].pc = "pointed" => Same(q)
        BY <1>0
      <3> QED BY <3>1, <3>2 DEF Written, Files, Same
    <2> QED BY <2>1, <2>2
  <1>12. Solo' /\ Torn'
    BY <1>0, <1>1 DEF Solo, Torn, Same
  <1>13. Kept' /\ Doomed'
    BY <1>0, <1>1, <1>2 DEF Kept, Doomed, Calls1, Same, Loading
  <1>14. Mine'
    BY <1>0, <1>1, <1>2 DEF Mine, Busy, Loading, Calls1, Same
  <1> QED BY <1>4, <1>5, <1>8, <1>9, <1>10, <1>11, <1>12, <1>13, <1>14 DEF Calls1, Files

LEMMA RuntimeRegistered ==
  ASSUME IInv, NEW p \in Op, LoadRegistered(p), \A q \in Op : op[q].pc # "tearing"
  PROVE  Calls1' /\ Files'
  <1> USE DEF IInv
  <1> DEFINE s == op[p].s
             r == op[p].r
  <1>0. /\ s \in Session /\ op[p].pc = "pointed"
        /\ entry' = [entry EXCEPT ![s] = r]
        /\ UNCHANGED <<of, alive, inFlight>>
        /\ \A q \in Op : q # p => Same(q)
    BY AllPlaced DEF LoadRegistered, Same, TypeOK
  <1>1. /\ op'[p].kind = op[p].kind /\ op'[p].s = s /\ op'[p].pc = "registered"
        /\ op'[p].r = r /\ op'[p].victims = op[p].victims
    <2> DEFINE o == op[p]
               n == [o EXCEPT !.pc = "registered"]
    <2>1. o \in OpRecord /\ op'[p] = n
      BY AllPlaced DEF LoadRegistered, TypeOK
    <2> HIDE DEF o
    <2>2. n.kind = o.kind /\ n.s = o.s /\ n.pc = "registered" /\ n.r = o.r /\ n.victims = o.victims
      BY <2>1 DEF OpRecord
    <2> HIDE DEF n
    <2> QED BY <2>1, <2>2 DEF o
  <1>2. /\ Coming(p) /\ op[p].kind \in Loads /\ op[p].victims = {} /\ entry[s] = None
        /\ r \in alive /\ of[r] = s
    BY <1>0 DEF Coming, Loading, Kept, Calls1, Absent, Pointed, Files
  <1>3. ASSUME NEW q \in Op, (Coming(q))'
        PROVE  q # p /\ Coming(q) /\ Same(q) /\ op[q].s # s /\ op[q].s \in Session
    <2>1. q # p /\ Coming(q) /\ Same(q)
      BY <1>0, <1>1, <1>3 DEF Coming, Loading, Same
    <2> QED BY <1>2, <2>1, AllPlaced DEF Apart, Files, Coming, Loading
  <1>4. Apart'
    BY <1>3 DEF Apart, Files, Same
  <1>5. Absent'
    <2> SUFFICES ASSUME NEW q \in Op, (Coming(q))'
                 PROVE  \/ entry'[op'[q].s] = None
                        \/ /\ op'[q].kind = "reload" /\ op'[q].pc \in {"ready", "tearing"}
                           /\ entry'[op'[q].s] = op'[q].r
      BY DEF Absent
    <2>1. q # p /\ Coming(q) /\ Same(q) /\ op[q].s # s /\ op[q].s \in Session
      BY <1>3
    <2>2. entry'[op[q].s] = entry[op[q].s]
      BY <1>0, <2>1 DEF TypeOK
    <2> QED BY <2>1, <2>2 DEF Absent, Files, Same
  <1>6. Pointed' /\ Noted'
    BY <1>0, <1>1 DEF Pointed, Noted, Files, Same
  <1>7. Own'
    BY <1>0, <1>2 DEF Own, Files, TypeOK
  <1>8. Written'
    <2> SUFFICES ASSUME NEW x \in alive
                 PROVE  /\ of[x] \in Session
                        /\ \/ entry'[of[x]] = x
                           \/ \E q \in Op : op'[q].pc = "pointed" /\ op'[q].r = x /\ op'[q].s = of[x]
      BY <1>0 DEF Written
    <2>0. of[x] \in Session
      BY DEF Written, Files
    <2>1. CASE entry[of[x]] = x
      <3>1. of[x] # s
        BY <1>2, <2>1, RuntimeAssumption DEF TypeOK
      <3> QED BY <1>0, <2>0, <2>1, <3>1 DEF TypeOK
    <2>2. CASE \E q \in Op : op[q].pc = "pointed" /\ op[q].r = x /\ op[q].s = of[x]
      <3>1. PICK q \in Op : op[q].pc = "pointed" /\ op[q].r = x /\ op[q].s = of[x]
        BY <2>2
      <3>2. CASE q = p
        BY <1>0, <1>2, <2>0, <3>1, <3>2 DEF TypeOK
      <3>3. CASE q # p
        BY <1>0, <2>0, <3>1, <3>3 DEF Same
      <3> QED BY <3>2, <3>3
    <2> QED BY <2>1, <2>2 DEF Written, Files
  <1>9. Solo' /\ Torn'
    BY <1>0, <1>1 DEF Solo, Torn, Same
  <1>10. Kept'
    BY <1>0, <1>1, <1>2 DEF Kept, Calls1, Same, Loading
  <1>11. Doomed'
    BY <1>0, <1>1, <1>2 DEF Kept, Doomed, Calls1, Same
  <1>12. Mine'
    BY <1>0, <1>1, <1>2 DEF Mine, Busy, Loading, Calls1, Same
  <1> QED BY <1>4, <1>5, <1>6, <1>7, <1>8, <1>9, <1>10, <1>11, <1>12 DEF Calls1, Files

LEMMA IdleCalm == Calm(Idle)
  BY IdleTyped DEF Calm

LEMMA CallCalm ==
  ASSUME NEW k \in Kinds, NEW s \in Session, NEW pc \in {"loaded", "joined"}
  PROVE  Calm(Call(k, s, pc))
  BY CallTyped DEF Calm, Stages

LEMMA OverCalm ==
  ASSUME TypeOK, NEW p \in Op, NEW well \in BOOLEAN, op[p].pc # "idle", LoadOver(p, well)
  PROVE  /\ Calm(op'[p])
         /\ \A q \in Op : q # p => op'[q] = op[q] \/ (op[q].pc = "joined" /\ Calm(op'[q]))
         /\ \/ op[p].kind \in Attach /\ inFlight' = [inFlight EXCEPT ![op[p].s] = None]
            \/ op[p].kind \notin Attach /\ inFlight' = inFlight
  <1> DEFINE o == op[p]
             After(k) == IF well /\ k \in Turns THEN Call(k, o.s, "loaded") ELSE Idle
  <1>1. CASE o.kind \notin Attach
    BY <1>1, IdleCalm DEF LoadOver, TypeOK
  <1>2. CASE o.kind \in Attach
    <2>1. ASSUME NEW k PROVE Calm(After(k))
      <3>1. k \in Turns => k \in Kinds
        BY DEF Kinds, Loads, Attach
      <3>2. o.s \in Session
        BY AllPlaced
      <3> QED BY <3>1, <3>2, CallCalm, IdleCalm
    <2>2. /\ op' = [q \in Op |-> IF q = p \/ (op[q].pc = "joined" /\ op[q].s = o.s)
                                 THEN After(op[q].kind) ELSE op[q]]
          /\ inFlight' = [inFlight EXCEPT ![o.s] = None]
      BY <1>2 DEF LoadOver
    <2> HIDE DEF After
    <2> QED BY <1>2, <2>1, <2>2
  <1> QED BY <1>1, <1>2

LEMMA LoadDone ==
  ASSUME IInv, NEW p \in Op, NEW well \in BOOLEAN, LoadOver(p, well), of' = of,
         Busy(p), op[p].pc # "pointed",
         \/ UNCHANGED <<entry, alive>>
         \/ op[p].pc = "tearing" /\ \E s \in Session : Removed(s)
  PROVE  Calls1' /\ Files'
  <1> USE DEF IInv
  <1>1. /\ Calm(op'[p])
        /\ \A q \in Op : q # p => op'[q] = op[q] \/ (op[q].pc = "joined" /\ Calm(op'[q]))
        /\ \/ op[p].kind \in Attach /\ inFlight' = [inFlight EXCEPT ![op[p].s] = None]
           \/ op[p].kind \notin Attach /\ inFlight' = inFlight
    BY OverCalm DEF Busy, Loading
  <1>2. \A q \in Op : \/ q # p /\ Same(q)
                      \/ Calm(op'[q]) /\ Quiet(op'[q]) /\ op[q].pc # "pointed"
    BY <1>1 DEF Same, Calm, Quiet
  <1>3. Files'
    BY <1>2, FilesKept
  <1>4. Mine'
    <2> SUFFICES ASSUME NEW q \in Op, (Busy(q))', op'[q].kind \in Attach
                 PROVE  inFlight'[op'[q].s] = q
      BY DEF Mine
    <2>1. q # p /\ Same(q)
      BY <1>2 DEF Calm, Busy, Loading
    <2>2. Busy(q) /\ op[q].kind \in Attach /\ op[q].s \in Session
      BY <2>1, AllPlaced DEF Same, Busy, Loading
    <2>3. /\ inFlight[op[q].s] = q
          /\ op[p].kind \in Attach => inFlight[op[p].s] = p
      BY <2>2 DEF Mine, Calls1
    <2>4. CASE op[p].kind \notin Attach
      BY <1>1, <2>1, <2>3, <2>4 DEF Same
    <2>5. CASE op[p].kind \in Attach
      <3>1. op[q].s # op[p].s
        BY <2>1, <2>3, <2>5
      <3> QED BY <1>1, <2>1, <2>2, <2>3, <2>5, <3>1 DEF Same, TypeOK
    <2> QED BY <2>4, <2>5
  <1>5. Calls1'
    <2>1. op[p].pc = "tearing" => \A q \in Op : op'[q].pc # "tearing"
      BY <1>2 DEF Calm, Same, Solo, Calls1
    <2> QED BY <1>2, <1>4, <2>1, CallsKept
  <1> QED BY <1>3, <1>5

LEMMA NextVictim ==
  ASSUME IInv, NEW p \in Op, NEW w \in SUBSET (Session \X Runtime), w # {},
         Tear(p, [op[p] EXCEPT !.victims = w]),
         UNCHANGED <<of, inFlight>>, Busy(p), op[p].pc \in {"registered", "tearing"},
         \A q \in Op : q # p => op[q].pc # "tearing",
         UNCHANGED <<entry, alive>> \/ \E s \in Session : Removed(s),
         \A v \in w : entry'[v[1]] = v[2]
  PROVE  Calls1' /\ Files'
  <1> USE DEF IInv
  <1>0. \A q \in Op : q # p => Same(q)
    BY DEF Tear, Same, TypeOK
  <1>1. /\ op'[p].kind = op[p].kind /\ op'[p].s = op[p].s /\ op'[p].pc = "tearing"
        /\ op'[p].victims = w
    <2> DEFINE o == op[p]
               n == [[o EXCEPT !.victims = w] EXCEPT !.pc = "tearing"]
    <2>1. o \in OpRecord /\ op'[p] = n
      BY AllPlaced DEF Tear, TypeOK
    <2> HIDE DEF o
    <2>2. n.kind = o.kind /\ n.s = o.s /\ n.pc = "tearing" /\ n.victims = w
      BY <2>1 DEF OpRecord
    <2> HIDE DEF n
    <2> QED BY <2>1, <2>2 DEF o
  <1>2. op[p].kind \in Loads
    BY DEF Busy
  <1>3. Files'
    <2>1. Quiet(op'[p]) /\ op[p].pc # "pointed"
      BY <1>1 DEF Quiet
    <2> QED BY <1>0, <2>1, FilesKept
  <1>4. Solo'
    BY <1>0 DEF Solo, Same
  <1>5. Kept' /\ Mine'
    BY <1>0, <1>1, <1>2 DEF Kept, Mine, Busy, Loading, Calls1, Same
  <1>6. Torn'
    <2>1. op'[p].kind \notin {"hibernate", "discard"}
      BY <1>1, <1>2 DEF Loads, Attach, Turns
    <2> QED BY <1>0, <2>1 DEF Torn, Same
  <1>7. Doomed'
    BY <1>0, <1>1 DEF Doomed, Kept, Calls1, Same
  <1> QED BY <1>3, <1>4, <1>5, <1>6, <1>7 DEF Calls1

-----------------------------------------------------------------------------
(* The invariant is kept                                                   *)

LEMMA CalmStep ==
  ASSUME IInv, of' = of, inFlight' = inFlight,
         \A q \in Op : Same(q) \/ (Calm(op'[q]) /\ op[q].pc # "pointed"),
         \/ UNCHANGED <<entry, alive>>
         \/ (\E s \in Session : Removed(s)) /\ \A q \in Op : op'[q].pc # "tearing"
  PROVE  Calls1' /\ Files'
  <1>1. Mine'
    BY MineKept
  <1>2. Calls1'
    BY <1>1, CallsKept
  <1>3. \A q \in Op : Same(q) \/ (Quiet(op'[q]) /\ op[q].pc # "pointed")
    BY DEF Calm, Quiet
  <1> QED BY <1>2, <1>3, FilesKept

LEMMA EnsureKeeps ==
  ASSUME IInv, Discipline, NEW p \in Op, NEW k \in Attach, NEW s \in Session,
         op[p].pc \in {"idle", "loaded"}, \A q \in Op : op[q].pc # "tearing",
         EnsureLoaded(p, k, s), UNCHANGED <<entry, of, alive>>
  PROVE  Calls1' /\ Files'
  <1>0. /\ k \in Kinds /\ k \in Loads /\ k # "reload" /\ op \in [Op -> OpRecord]
        /\ "ready" \in Stages
    BY DEF Kinds, Loads, Attach, Turns, IInv, TypeOK, Stages
  <1>1. CASE ~(entry[s] = None /\ inFlight[s] = None)
    <2>1. \E o : Calm(o) /\ op' = [op EXCEPT ![p] = o] /\ inFlight' = inFlight
      BY <1>0, <1>1, CallCalm, IdleCalm DEF EnsureLoaded
    <2>2. \A q \in Op : Same(q) \/ (Calm(op'[q]) /\ op[q].pc # "pointed")
      BY <1>0, <2>1 DEF Same
    <2> QED BY <2>1, <2>2, CalmStep
  <1>2. CASE entry[s] = None /\ inFlight[s] = None
    <2>1. /\ MayLoad(k, s) /\ op' = [op EXCEPT ![p] = Call(k, s, "ready")]
          /\ inFlight' = [inFlight EXCEPT ![s] = p]
      BY <1>2 DEF EnsureLoaded
    <2>2. /\ op'[p].kind = k /\ op'[p].s = s /\ op'[p].pc = "ready"
          /\ op'[p].victims = {}
          /\ \A q \in Op : q # p => op'[q] = op[q]
      BY <1>0, <2>1, CallTyped
    <2>3. ASSUME NEW q \in Op, Loading(q) PROVE op[q].s # s
      <3>1. op[q].s = s => op[q].kind \in Attach
        BY <2>1, <2>3 DEF MayLoad, Discipline
      <3>2. op[q].kind \in Attach => inFlight[op[q].s] = q
        BY <2>3 DEF IInv, Calls1, Mine, Busy, Loads
      <3> QED BY <1>2, <3>1, <3>2, RuntimeAssumption
    <2>4. /\ inFlight[op'[p].s] = None /\ inFlight' = [inFlight EXCEPT ![op'[p].s] = p]
          /\ op'[p].kind # "reload" /\ entry[op'[p].s] = None /\ op'[p].kind \in Loads
          /\ \A q \in Op : Loading(q) => op[q].s # op'[p].s
      BY <1>0, <1>2, <2>1, <2>2, <2>3
    <2> QED BY <2>2, <2>4, LoadBegins
  <1> QED BY <1>1, <1>2

LEMMA CallStepKeeps ==
  ASSUME IInv, Discipline, NEW p \in Op, NEW s \in Session,
         \A q \in Op : op[q].pc # "tearing",
         \/ AttachCall(p, s) \/ SwitchCold(p, s) \/ ReloadCall(p, s)
         \/ Hibernate(p, s) \/ Discard(p, s) \/ \E k \in Turns : TurnCall(p, k, s)
  PROVE  Calls1' /\ Files'
  <1>0. op \in [Op -> OpRecord] /\ Idle.pc = "idle" /\ Turns \subseteq Attach /\ "attach" \in Attach
    BY IdleTyped DEF IInv, TypeOK, Attach
  <1>1. CASE AttachCall(p, s)
    BY <1>0, <1>1, EnsureKeeps DEF AttachCall, held
  <1>2. CASE \E k \in Turns : TurnCall(p, k, s)
    BY <1>0, <1>2, EnsureKeeps DEF TurnCall, held
  <1>3. ASSUME NEW k \in {"switch", "reload"}, MayLoad(k, s), NEW q \in Op, Loading(q)
        PROVE  op[q].s # s
    BY <1>3 DEF MayLoad, Discipline, Attach, Turns
  <1>4. CASE SwitchCold(p, s)
    <2>1. /\ op'[p].kind = "switch" /\ op'[p].s = s /\ op'[p].pc = "ready"
          /\ op'[p].victims = {} /\ op[p].pc = "idle"
          /\ \A q \in Op : q # p => op'[q] = op[q]
      <3>1. "switch" \in Kinds /\ "ready" \in Stages
        BY DEF Kinds, Loads, Stages
      <3>2. op[p] = Idle /\ op' = [op EXCEPT ![p] = Call("switch", s, "ready")]
        BY <1>4 DEF SwitchCold
      <3> QED BY <1>0, <3>1, <3>2, CallTyped
    <2>2. /\ entry[s] = None /\ UNCHANGED <<entry, of, alive, inFlight>>
          /\ "switch" \in Loads /\ "switch" \notin Attach
          /\ \A q \in Op : Loading(q) => op[q].s # s
      BY <1>3, <1>4 DEF SwitchCold, held, Loads, Attach, Turns
    <2> QED BY <2>1, <2>2, LoadBegins
  <1>5. CASE ReloadCall(p, s)
    <2>1. /\ op'[p] = [Call("reload", s, "ready") EXCEPT !.r = entry[s]]
          /\ op[p].pc = "idle" /\ \A q \in Op : q # p => op'[q] = op[q]
      BY <1>0, <1>5 DEF ReloadCall
    <2>2. /\ op'[p].kind = "reload" /\ op'[p].s = s /\ op'[p].pc = "ready"
          /\ op'[p].r = entry[s] /\ op'[p].victims = {}
      BY <2>1 DEF Call, Idle
    <2>3. /\ UNCHANGED <<entry, of, alive, inFlight>>
          /\ "reload" \in Loads /\ "reload" \notin Attach
          /\ \A q \in Op : Loading(q) => op[q].s # s
      BY <1>3, <1>5 DEF ReloadCall, held, Loads, Attach, Turns
    <2> QED BY <2>1, <2>2, <2>3, LoadBegins
  <1>6. CASE Hibernate(p, s) \/ Discard(p, s)
    <2>1. /\ UNCHANGED <<entry, of, alive, inFlight>>
          /\ op[p].pc = "idle" /\ \A q \in Op : q # p => op'[q] = op[q]
          /\ entry[s] # None
      BY <1>0, <1>6 DEF Hibernate, CanHibernate, Discard, Tear, held
    <2>2. /\ op'[p].kind \in {"hibernate", "discard"} /\ op'[p].s = s
          /\ op'[p].pc = "tearing" /\ op'[p].r = entry[s] /\ op'[p].victims = {}
      <3>1. CASE Hibernate(p, s)
        <4> DEFINE focused == session = entry[s] \/ CurrentPath = s
        <4>1. op'[p] = [[Call("hibernate", s, "tearing") EXCEPT
                           !.r = entry[s], !.focus = focused] EXCEPT !.pc = "tearing"]
          BY <1>0, <3>1 DEF Hibernate, Tear
        <4> HIDE DEF focused
        <4> QED BY <4>1 DEF Call, Idle
      <3>2. CASE Discard(p, s)
        <4>1. op'[p] = [[Call("discard", s, "tearing") EXCEPT !.r = entry[s]]
                          EXCEPT !.pc = "tearing"]
          BY <1>0, <3>2 DEF Discard, Tear
        <4> QED BY <4>1 DEF Call, Idle
      <3> QED BY <1>6, <3>1, <3>2
    <2>3. \A q \in Op : Same(q) \/ (Quiet(op'[q]) /\ op[q].pc # "pointed")
      BY <2>1, <2>2 DEF Same, Quiet
    <2>4. Files'
      BY <2>1, <2>3, FilesKept
    <2>5. Solo' /\ Torn' /\ Doomed'
      BY <2>1, <2>2 DEF Solo, Torn, Doomed, IInv, Calls1
    <2>6. Kept' /\ Mine'
      BY <2>1, <2>2 DEF Kept, Mine, Busy, Loading, IInv, Calls1, Loads, Attach, Turns
    <2> QED BY <2>4, <2>5, <2>6 DEF Calls1
  <1> QED BY <1>1, <1>2, <1>4, <1>5, <1>6

LEMMA LoadStepKeeps ==
  ASSUME IInv, NEW p \in Op, \A q \in Op : op[q].pc # "tearing",
         \/ LoadReady(p) \/ (\E r \in Runtime : LoadCreated(p, r))
         \/ LoadRegistered(p) \/ LoadFails(p) \/ LoadEvicts(p)
  PROVE  Calls1' /\ Files'
  <1>0. TypeOK /\ op \in [Op -> OpRecord]
    BY DEF IInv, TypeOK
  <1>1. CASE LoadReady(p)
    <2> DEFINE o == op[p]
               n == op'[p]
    <2>0. /\ o \in OpRecord /\ o.pc = "ready" /\ UNCHANGED <<entry, of, alive, inFlight>>
          /\ \A q \in Op : q # p => op'[q] = op[q]
      BY <1>0, <1>1 DEF LoadReady, Tear, held
    <2>1. \/ /\ n = [o EXCEPT !.pc = "creating", !.keep = session, !.at = path]
             /\ o.kind \in Attach
          \/ n = [o EXCEPT !.pc = "creating"] /\ o.kind \notin Attach /\ o.r = None
          \/ n = [o EXCEPT !.pc = "tearing"] /\ o.kind = "reload"
      BY <1>0, <1>1 DEF LoadReady, Tear
    <2> HIDE DEF n, o
    <2>2. /\ n.kind = o.kind /\ n.s = o.s /\ n.r = o.r /\ n.victims = o.victims
          /\ \/ n.pc = "creating" /\ (o.kind = "reload" => o.r = None)
             \/ n.pc = "tearing" /\ o.kind = "reload"
      BY <2>0, <2>1 DEF OpRecord, Attach, Turns
    <2> QED BY <2>0, <2>2, LoadGoesOn DEF n, o
  <1>2. CASE \E r \in Runtime : LoadCreated(p, r)
    BY <1>2, NewRuntime
  <1>3. CASE LoadRegistered(p)
    BY <1>3, RuntimeRegistered
  <1>4. ASSUME op[p].pc \in {"ready", "creating", "registered"} PROVE Busy(p)
    BY <1>4 DEF IInv, Calls1, Kept, Busy, Loading
  <1>5. CASE LoadFails(p)
    BY <1>4, <1>5, LoadDone DEF LoadFails
  <1>6. CASE LoadEvicts(p)
    <2>1. /\ op[p].pc = "registered" /\ Busy(p) /\ UNCHANGED <<entry, of, alive>>
          /\ EvictNext(p, entry, Candidates(p))
      BY <1>4, <1>6 DEF LoadEvicts
    <2>2. CASE LoadOver(p, TRUE)
      BY <2>1, <2>2, LoadDone
    <2>3. CASE /\ Candidates(p) # {}
               /\ Tear(p, [op[p] EXCEPT !.victims = Candidates(p)])
               /\ UNCHANGED <<session, path, inFlight>>
      <3>1. Candidates(p) \in SUBSET (Session \X Runtime)
        BY <1>0 DEF Candidates, Cached, TypeOK
      <3>2. \A v \in Candidates(p) : entry'[v[1]] = v[2]
        BY <2>1 DEF Candidates
      <3> QED BY <2>1, <2>3, <3>1, <3>2, NextVictim
    <2> QED BY <2>1, <2>2, <2>3 DEF EvictNext
  <1> QED BY <1>1, <1>2, <1>3, <1>5, <1>6

LEMMA TearStepKeeps ==
  ASSUME IInv, NEW p \in Op, TearEnds(p)
  PROVE  Calls1' /\ Files'
  <1>0. /\ TypeOK /\ op \in [Op -> OpRecord] /\ op[p].pc = "tearing" /\ op[p].s \in Session
        /\ \A q \in Op : q # p => op[q].pc # "tearing"
    BY AllPlaced DEF TearEnds, IInv, Calls1, Solo, TypeOK
  <1>1. CASE Hibernated(p) \/ Discarded(p)
    <2>1. Removed(op[p].s)
      BY <1>0, <1>1 DEF Hibernated, Discarded, Removed, IInv, Calls1, Torn
    <2>2. /\ op'[p] = Idle /\ of' = of /\ inFlight' = inFlight
          /\ \A q \in Op : q # p => op'[q] = op[q]
      BY <1>0, <1>1 DEF Hibernated, Discarded
    <2>3. /\ \A q \in Op : Same(q) \/ (Calm(op'[q]) /\ op[q].pc # "pointed")
          /\ \A q \in Op : op'[q].pc # "tearing"
      BY <1>0, <2>2, IdleCalm DEF Same, Calm
    <2> QED BY <1>0, <2>1, <2>2, <2>3, CalmStep
  <1>2. CASE ReloadTorn(p)
    BY <1>0, <1>2, OldRuntimeGone
  <1>3. CASE Evicted(p)
    <2>1. PICK v \in op[p].victims : /\ alive' = alive \ {v[2]}
                                     /\ entry' = [entry EXCEPT ![v[1]] = None]
                                     /\ EvictNext(p, entry', op[p].victims \ {v})
      BY <1>3 DEF Evicted
    <2>2. /\ op[p].victims \subseteq Session \X Runtime
          /\ \A x \in op[p].victims : entry[x[1]] = x[2]
          /\ Busy(p) /\ of' = of
      BY <1>0, <1>3, Fields DEF IInv, Calls1, Doomed, Evicted, Busy
    <2>3. v[1] \in Session /\ v[2] \in Runtime /\ entry[v[1]] = v[2]
      BY <2>1, <2>2
    <2>4. \E s \in Session : Removed(s)
      BY <2>1, <2>3, RuntimeAssumption DEF Removed
    <2>5. CASE LoadOver(p, TRUE)
      BY <1>0, <2>2, <2>4, <2>5, LoadDone
    <2>6. CASE /\ op[p].victims \ {v} # {}
               /\ Tear(p, [op[p] EXCEPT !.victims = op[p].victims \ {v}])
               /\ UNCHANGED <<session, path, inFlight>>
      <3> DEFINE w == op[p].victims \ {v}
      <3>1. w \in SUBSET (Session \X Runtime)
        BY <2>2
      <3>2. ASSUME NEW x \in w PROVE entry'[x[1]] = x[2]
        <4>1. x \in Session \X Runtime /\ v \in Session \X Runtime /\ x # v /\ entry[x[1]] = x[2]
          BY <2>1, <2>2
        <4>2. x[1] # v[1]
          BY <2>3, <4>1
        <4> QED BY <1>0, <2>1, <4>1, <4>2 DEF TypeOK
      <3> HIDE DEF w
      <3>3. w # {} /\ Tear(p, [op[p] EXCEPT !.victims = w]) /\ inFlight' = inFlight
        BY <2>6 DEF w
      <3> QED BY <1>0, <2>2, <2>4, <3>1, <3>2, <3>3, NextVictim
    <2> QED BY <2>1, <2>5, <2>6 DEF EvictNext
  <1> QED BY <1>1, <1>2, <1>3 DEF TearEnds

LEMMA TurnStepKeeps ==
  ASSUME IInv, Discipline, NEW p \in Op, \A q \in Op : op[q].pc # "tearing",
         PromptStart(p) \/ PromptPrepared(p) \/ DeliverStart(p) \/ TurnEnds(p)
  PROVE  Calls1' /\ Files'
  <1> DEFINE o == op[p]
  <1>0. /\ TypeOK /\ op \in [Op -> OpRecord] /\ o.s \in Session /\ o \in OpRecord
        /\ o.pc \in {"loaded", "preparing", "running"} /\ o.victims = {}
    BY AllPlaced DEF PromptStart, PromptPrepared, Prepared, DeliverStart, TurnEnds, IInv, Calls1,
                     Kept, TypeOK
  <1>1. ASSUME NEW n, n = Idle \/ Calm(n), op' = [op EXCEPT ![p] = n],
               UNCHANGED <<entry, of, alive, inFlight>>
        PROVE  Calls1' /\ Files'
    <2>1. \A q \in Op : Same(q) \/ (Calm(op'[q]) /\ op[q].pc # "pointed")
      BY <1>0, <1>1, IdleCalm DEF Same
    <2> QED BY <1>1, <2>1, CalmStep
  <1>2. ASSUME NEW pc \in {"preparing", "running"}, NEW r
        PROVE  Calm([o EXCEPT !.pc = pc, !.r = r]) /\ Calm([o EXCEPT !.pc = pc])
    <2> HIDE DEF o
    <2> QED BY <1>0 DEF Calm, OpRecord
  <1>3. CASE PromptStart(p)
    <2>1. CASE entry[o.s] # None
      <3>1. /\ op' = [op EXCEPT ![p] = [o EXCEPT !.pc = "preparing", !.r = entry[o.s]]]
            /\ UNCHANGED <<entry, of, alive, inFlight>>
        BY <1>3, <2>1 DEF PromptStart
      <3> HIDE DEF o
      <3> QED BY <1>1, <1>2, <3>1
    <2>2. CASE EnsureLoaded(p, "submit", o.s)
      <3>1. "submit" \in Attach /\ o.pc \in {"idle", "loaded"} /\ UNCHANGED <<entry, of, alive>>
        BY <1>3 DEF PromptStart, Attach, Turns
      <3> QED BY <1>0, <2>2, <3>1, EnsureKeeps
    <2>3. CASE op' = [op EXCEPT ![p] = Idle] /\ inFlight' = inFlight
      BY <1>1, <1>3, <2>3 DEF PromptStart
    <2> QED BY <1>3, <2>1, <2>2, <2>3 DEF PromptStart
  <1>4. CASE PromptPrepared(p)
    <2>1. /\ \/ op' = [op EXCEPT ![p] = Idle]
             \/ op' = [op EXCEPT ![p] = [o EXCEPT !.pc = "running"]]
          /\ UNCHANGED <<entry, of, alive, inFlight>>
      BY <1>4 DEF PromptPrepared, Prepared
    <2> HIDE DEF o
    <2> QED BY <1>1, <1>2, <2>1
  <1>5. CASE DeliverStart(p)
    <2>1. /\ \/ op' = [op EXCEPT ![p] = Idle]
             \/ op' = [op EXCEPT ![p] = [o EXCEPT !.pc = "running", !.r = entry[o.s]]]
          /\ UNCHANGED <<entry, of, alive, inFlight>>
      BY <1>5 DEF DeliverStart, held
    <2> HIDE DEF o
    <2> QED BY <1>1, <1>2, <2>1
  <1>6. CASE TurnEnds(p)
    BY <1>1, <1>6 DEF TurnEnds, held
  <1> QED BY <1>3, <1>4, <1>5, <1>6

LEMMA SessionStepKeeps ==
  ASSUME IInv, NEW s \in Session, \A q \in Op : op[q].pc # "tearing",
         Stop(s) \/ DiscardNow(s) \/ SwitchWarm(s)
  PROVE  Calls1' /\ Files'
  <1>0. TypeOK
    BY DEF IInv
  <1>1. of' = of /\ inFlight' = inFlight
    BY DEF Stop, DiscardNow, SwitchWarm
  <1>2. \A q \in Op : Same(q)
    <2>1. CASE op' = Halt(s)
      BY <1>0, <2>1, HaltTyped DEF Same
    <2>2. CASE controller[s] # None /\ op' = [Halt(s) EXCEPT ![controller[s]].aborted = TRUE]
      <3> DEFINE c == controller[s]
                 h == Halt(s)[c]
                 n == [h EXCEPT !.aborted = TRUE]
      <3>1. c \in Op /\ h \in OpRecord /\ Halt(s) \in [Op -> OpRecord]
        BY <1>0, <2>2, HaltTyped DEF TypeOK, OpsTyped
      <3>2. op' = [Halt(s) EXCEPT ![c] = n]
        BY <2>2
      <3>3. /\ n.kind = h.kind /\ n.s = h.s /\ n.pc = h.pc /\ n.r = h.r
            /\ n.victims = h.victims
        <4> HIDE DEF h
        <4> QED BY <3>1, HaltOne
      <3> HIDE DEF n
      <3> QED BY <1>0, <3>1, <3>2, <3>3, HaltTyped DEF Same
    <2>3. CASE op' = op
      BY <2>3 DEF Same
    <2> QED BY <2>1, <2>2, <2>3 DEF Stop, DiscardNow, SwitchWarm
  <1>3. \A q \in Op : op'[q].pc # "tearing"
    BY <1>2 DEF Same
  <1>4. UNCHANGED <<entry, alive>> \/ Removed(s)
    BY DEF Stop, DiscardNow, SwitchWarm, ForceRelease, Removed
  <1> QED BY <1>1, <1>2, <1>3, <1>4, CalmStep

LEMMA IInvStep == IInv /\ Discipline /\ [Next]_vars => IInv'
  <1> SUFFICES ASSUME IInv, Discipline, [Next]_vars PROVE IInv'
    OBVIOUS
  <1>0. TypeOK'
    BY TypeStep DEF IInv
  <1>1. CASE \E p \in Op : TearEnds(p)
    BY <1>0, <1>1, TearStepKeeps DEF IInv
  <1>2. CASE Interruptible /\ \E p \in Op : Step(p)
    <2>1. \A q \in Op : op[q].pc # "tearing"
      BY <1>2 DEF Interruptible, Discipline
    <2> QED BY <1>0, <1>2, <2>1, CallStepKeeps, LoadStepKeeps, TurnStepKeeps DEF IInv, Step
  <1>3. CASE Interruptible /\ \E s \in Session : Stop(s) \/ DiscardNow(s) \/ SwitchWarm(s)
    <2>1. \A q \in Op : op[q].pc # "tearing"
      BY <1>3 DEF Interruptible, Discipline
    <2> QED BY <1>0, <1>3, <2>1, SessionStepKeeps DEF IInv
  <1>4. CASE UNCHANGED vars
    <2>1. \A q \in Op : Same(q)
      BY <1>4 DEF vars, Same
    <2> QED BY <1>0, <1>4, <2>1, CalmStep DEF IInv, vars
  <1> QED BY <1>1, <1>2, <1>3, <1>4 DEF Next

LEMMA IInvStart == Init => IInv
  <1> SUFFICES ASSUME Init PROVE IInv
    OBVIOUS
  <1>1. TypeOK /\ \A p \in Op : op[p] = Idle
    BY TypeStart DEF Init
  <1>2. Calls1
    BY <1>1, IdleTyped DEF Calls1, Solo, Kept, Mine, Torn, Doomed, Busy, Loading
  <1>3. Files
    BY <1>1, IdleTyped DEF Init, Files, Apart, Absent, Pointed, Noted, Own, Written, Coming, Loading
  <1> QED BY <1>1, <1>2, <1>3 DEF IInv

LEMMA IInvWriter == IInv => OneWriter
  <1> SUFFICES ASSUME IInv, NEW r1 \in alive, NEW r2 \in alive, of[r1] = of[r2]
               PROVE  r1 = r2
    BY DEF OneWriter
  <1>1. /\ of[r1] \in Session /\ None \notin alive
        /\ \/ entry[of[r1]] = r1
           \/ \E p \in Op : op[p].pc = "pointed" /\ op[p].r = r1 /\ op[p].s = of[r1]
        /\ \/ entry[of[r1]] = r2
           \/ \E p \in Op : op[p].pc = "pointed" /\ op[p].r = r2 /\ op[p].s = of[r1]
    BY RuntimeAssumption DEF IInv, TypeOK, Files, Written
  <1>2. \A p, q \in Op : /\ op[p].pc = "pointed" => entry[op[p].s] = None
                         /\ op[p].pc = "pointed" /\ op[q].pc = "pointed" /\ op[p].s = op[q].s => p = q
    BY DEF IInv, Files, Absent, Apart, Coming, Loading
  <1> QED BY <1>1, <1>2

\* Attaches, switches, reloads, submissions, background deliveries, hibernations,
\* discards, stops and evictions of any number of sessions never leave two live
\* runtimes with one session file, as long as a switch or a reload does not meet
\* another load of its session and shutdown handlers do not await.
THEOREM OneWriterHolds ==
  ASSUME Discipline
  PROVE  Spec => []OneWriter
  <1>1. Init => IInv
    BY IInvStart
  <1>2. IInv /\ [Next]_vars => IInv'
    BY IInvStep
  <1> QED BY <1>1, <1>2, IInvWriter, PTL DEF Spec

-----------------------------------------------------------------------------
(* Turns and the runtime they run on                                       *)

\* What a turn is: prepared on a runtime, or running on it.
Aloft == {"preparing", "running"}

Ready == \A p \in Op : op[p].pc \in Aloft \cup {"loaded"} => op[p].kind \in Turns

Blank == \A p \in Op : op[p].pc \notin Aloft => ~op[p].halted /\ ~op[p].aborted

\* A turn has a runtime; if that lives, it is the one its session has.
Aboard == \A p \in Op : op[p].pc \in Aloft =>
            op[p].r \in Runtime /\ (op[p].r \in alive => entry[op[p].s] = op[p].r)

\* A prompt in preparation holds the abort controller of its session until it is
\* aborted, and has its runtime until it is stopped, unless the marks say otherwise.
Preparing == \A p \in Op : op[p].pc = "preparing" =>
               /\ op[p].aborted => op[p].halted
               /\ p \notin marks.bare =>
                    /\ ~op[p].aborted => controller[op[p].s] = p
                    /\ op[p].halted => op[p].aborted \/ op[p].r \notin alive
                    /\ ~op[p].halted /\ p \notin marks.robbed => op[p].r \in alive

\* A turn that runs, and beside which no prompt is prepared, is the one a stop ends.
Running == \A p \in Op : op[p].pc = "running" =>
             /\ p \notin marks.robbed \cup marks.bare /\ ~op[p].halted => op[p].r \in alive
             /\ p \notin marks.bare \cup marks.beside =>
                  /\ controller[op[p].s] = None
                  /\ op[p].halted => op[p].r \notin alive

Controlled == \A s \in Session : controller[s] # None =>
                op[controller[s]].pc = "preparing" /\ op[controller[s]].s = s

\* What is torn down is not the runtime of a turn that runs, and a hibernation takes none
\* that a prompt is prepared on.
Resting == \A p \in Op : op[p].pc = "tearing" =>
             /\ op[p].kind \in {"hibernate", "discard"} => ~Streaming(op[p].r)
             /\ op[p].kind = "hibernate" => controller[op[p].s] = None
             /\ \A v \in op[p].victims : ~Streaming(v[2])

TInv == Ready /\ Blank /\ Aboard /\ Preparing /\ Running /\ Controlled /\ Resting

\* What a step does to a call: nothing a turn depends on; or it is none afterwards.
SameTurn(q) == Same(q) /\ op'[q].halted = op[q].halted /\ op'[q].aborted = op[q].aborted

Grounded(q) == /\ op'[q].pc \notin Aloft /\ op[q].pc # "preparing"
               /\ ~op'[q].halted /\ ~op'[q].aborted
               /\ op'[q].pc = "loaded" => op'[q].kind \in Turns

\* A turn keeps its runtime, or loses it with a mark, or once it was halted.
Fares(q) == /\ op[q].r \in alive' => op[q].r \in alive /\ entry'[op[q].s] = op[q].r
            /\ op[q].r \in alive \ alive' =>
                 q \in marks'.robbed \cup marks'.bare \/ op[q].halted
            /\ q \in marks.robbed => q \in marks'.robbed
            /\ q \in marks.bare => q \in marks'.bare
            /\ q \in marks.beside => q \in marks'.beside

\* Steps that start, stop and halt no turn.
LEMMA TurnsGoOn ==
  ASSUME TypeOK, TInv, controller' = controller,
         \A q \in Op : SameTurn(q) \/ Grounded(q),
         \A q \in Op : op[q].pc \in Aloft /\ SameTurn(q) => Fares(q),
         Resting'
  PROVE  TInv'
  <1> USE DEF TInv
  <1>0. \A q \in Op : op'[q].pc \in Aloft => SameTurn(q) /\ op[q].pc \in Aloft
    BY DEF Grounded, SameTurn, Same
  <1>1. Ready' /\ Blank'
    BY DEF Ready, Blank, SameTurn, Same, Grounded
  <1>2. Aboard'
    BY <1>0 DEF Aboard, SameTurn, Same, Fares
  <1>3. Preparing'
    <2> SUFFICES ASSUME NEW q \in Op, op'[q].pc = "preparing"
                 PROVE  /\ op'[q].aborted => op'[q].halted
                        /\ q \notin marks'.bare =>
                             /\ ~op'[q].aborted => controller[op'[q].s] = q
                             /\ op'[q].halted => op'[q].aborted \/ op'[q].r \notin alive'
                             /\ ~op'[q].halted /\ q \notin marks'.robbed => op'[q].r \in alive'
      BY DEF Preparing
    <2>1. SameTurn(q) /\ Fares(q) /\ op[q].pc = "preparing"
      BY <1>0 DEF Aloft, SameTurn, Same
    <2> QED BY <2>1 DEF Preparing, SameTurn, Same, Fares
  <1>4. Running'
    <2> SUFFICES ASSUME NEW q \in Op, op'[q].pc = "running"
                 PROVE  /\ q \notin marks'.robbed \cup marks'.bare /\ ~op'[q].halted
                             => op'[q].r \in alive'
                        /\ q \notin marks'.bare \cup marks'.beside =>
                             /\ controller[op'[q].s] = None
                             /\ op'[q].halted => op'[q].r \notin alive'
      BY DEF Running
    <2>1. SameTurn(q) /\ Fares(q) /\ op[q].pc = "running"
      BY <1>0 DEF Aloft, SameTurn, Same
    <2> QED BY <2>1 DEF Running, SameTurn, Same, Fares
  <1>5. Controlled'
    <2> SUFFICES ASSUME NEW s \in Session, controller[s] # None
                 PROVE  op'[controller[s]].pc = "preparing" /\ op'[controller[s]].s = s
      BY DEF Controlled
    <2>1. controller[s] \in Op /\ op[controller[s]].pc = "preparing" /\ op[controller[s]].s = s
      BY DEF Controlled, TypeOK
    <2> QED BY <2>1 DEF SameTurn, Same, Grounded
  <1> QED BY <1>1, <1>2, <1>3, <1>4, <1>5

\* Steps that let no runtime go.
LEMMA NothingLost ==
  ASSUME TypeOK, TInv, marks' = marks, UNCHANGED <<entry, alive>>,
         NEW q \in Op, op[q].pc \in Aloft
  PROVE  Fares(q)
  BY DEF Fares, TInv, Aboard

LEMMA NobodyTears == ASSUME \A q \in Op : op'[q].pc # "tearing" PROVE Resting'
  BY DEF Resting

LEMMA Untouched == ASSUME NEW q \in Op, op'[q] = op[q] PROVE SameTurn(q)
  BY DEF SameTurn, Same

LEMMA IdleGrounded ==
  ASSUME NEW q \in Op, op'[q] = Idle, op[q].pc # "preparing" PROVE Grounded(q)
  BY IdleTyped DEF Grounded, Idle, Aloft

LEMMA CallGrounded ==
  ASSUME NEW q \in Op, NEW k \in Kinds, NEW s \in Session, NEW pc \in Stages \ Aloft,
         op'[q] = Call(k, s, pc), op[q].pc # "preparing", pc = "loaded" => k \in Turns
  PROVE  Grounded(q)
  BY CallTyped, ZenonT(60) DEF Grounded, Call, Idle, Aloft

\* One call that is no turn moves on, and nothing is let go or torn down.
LEMMA OneMoves ==
  ASSUME TypeOK, TInv, NEW p \in Op, Grounded(p), \A q \in Op : q # p => op'[q] = op[q],
         UNCHANGED <<entry, alive, controller, marks>>, Resting'
  PROVE  TInv'
  <1>1. \A q \in Op : SameTurn(q) \/ Grounded(q)
    BY Untouched
  <1>2. \A q \in Op : op[q].pc \in Aloft => Fares(q)
    BY NothingLost
  <1> QED BY <1>1, <1>2, TurnsGoOn

LEMMA EnsureGrounded ==
  ASSUME TypeOK, NEW p \in Op, NEW k \in Attach, NEW s \in Session,
         op[p].pc \in {"idle", "loaded"}, EnsureLoaded(p, k, s)
  PROVE  /\ Grounded(p) /\ op'[p].pc # "tearing"
         /\ \A q \in Op : q # p => op'[q] = op[q]
  <1>0. k \in Kinds /\ {"ready", "joined", "loaded"} \subseteq Stages \ Aloft
    BY DEF Kinds, Loads, Stages, Aloft
  <1>1. op[p].pc # "preparing" /\ \A q \in Op : q # p => op'[q] = op[q]
    BY DEF EnsureLoaded, TypeOK
  <1>2. \/ op'[p] = Idle
        \/ \E pc \in {"ready", "joined", "loaded"} :
             op'[p] = Call(k, s, pc) /\ (pc = "loaded" => k \in Turns)
    BY DEF EnsureLoaded, TypeOK
  <1>3. CASE op'[p] = Idle
    BY <1>1, <1>3, IdleTyped, IdleGrounded
  <1>4. CASE op'[p] # Idle
    <2>1. PICK pc \in {"ready", "joined", "loaded"} :
            op'[p] = Call(k, s, pc) /\ (pc = "loaded" => k \in Turns)
      BY <1>2, <1>4
    <2>2. op'[p].pc = pc /\ pc \in Stages \ Aloft
      BY <1>0, <2>1, CallTyped
    <2> QED BY <1>0, <1>1, <2>1, <2>2, CallGrounded
  <1> QED BY <1>3, <1>4

\* The runtime that is about to be torn down runs no turn.
LEMMA TearRests ==
  ASSUME TypeOK, TInv, NEW p \in Op, op'[p].pc = "tearing", op[p].pc # "running",
         \A q \in Op : q # p => op'[q] = op[q] /\ op[q].pc # "tearing",
         controller' = controller,
         op'[p].kind \in {"hibernate", "discard"} => ~Streaming(op'[p].r),
         op'[p].kind = "hibernate" => controller[op'[p].s] = None,
         \A v \in op'[p].victims : ~Streaming(v[2])
  PROVE  Resting'
  <1>1. \A r : (Streaming(r))' => Streaming(r)
    BY DEF Streaming
  <1> SUFFICES ASSUME NEW q \in Op, op'[q].pc = "tearing"
               PROVE  /\ op'[q].kind \in {"hibernate", "discard"} => ~(Streaming(op[q].r))'
                      /\ op'[q].kind = "hibernate" => controller[op'[q].s] = None
                      /\ \A v \in op'[q].victims : ~(\E a \in Op : op'[a].pc = "running" /\ op'[a].r = v[2])
    BY DEF Resting, Streaming
  <1>2. q = p
    OBVIOUS
  <1> QED BY <1>1, <1>2 DEF Streaming

LEMMA CallStepTurns ==
  ASSUME TypeOK, TInv, NEW p \in Op, NEW s \in Session,
         \A q \in Op : op[q].pc # "tearing",
         \/ AttachCall(p, s) \/ SwitchCold(p, s) \/ ReloadCall(p, s)
         \/ Hibernate(p, s) \/ Discard(p, s) \/ \E k \in Turns : TurnCall(p, k, s)
  PROVE  TInv'
  <1>0. /\ op \in [Op -> OpRecord] /\ op[p] = Idle /\ op[p].pc = "idle"
        /\ Turns \subseteq Attach /\ "attach" \in Attach
        /\ UNCHANGED <<entry, alive, controller, marks>>
    BY IdleTyped DEF TypeOK, Attach, AttachCall, SwitchCold, ReloadCall, Hibernate, Discard,
                     TurnCall, held
  <1>1. CASE AttachCall(p, s) \/ \E k \in Turns : TurnCall(p, k, s)
    <2>1. PICK k \in Attach : EnsureLoaded(p, k, s)
      BY <1>0, <1>1 DEF AttachCall, TurnCall
    <2>2. /\ Grounded(p) /\ op'[p].pc # "tearing"
          /\ \A q \in Op : q # p => op'[q] = op[q]
      BY <1>0, <2>1, EnsureGrounded
    <2> QED BY <1>0, <2>2, NobodyTears, OneMoves
  <1>2. CASE SwitchCold(p, s)
    <2>1. "switch" \in Kinds /\ "ready" \in Stages \ Aloft
      BY DEF Kinds, Loads, Stages, Aloft
    <2>2. op'[p] = Call("switch", s, "ready") /\ \A q \in Op : q # p => op'[q] = op[q]
      BY <1>0, <1>2 DEF SwitchCold
    <2>3. op'[p].pc = "ready" /\ Grounded(p)
      BY <1>0, <2>1, <2>2, CallTyped, CallGrounded
    <2> QED BY <1>0, <2>2, <2>3, NobodyTears, OneMoves
  <1>3. CASE ReloadCall(p, s)
    <2>1. /\ op'[p] = [Call("reload", s, "ready") EXCEPT !.r = entry[s]]
          /\ \A q \in Op : q # p => op'[q] = op[q]
      BY <1>0, <1>3 DEF ReloadCall
    <2>2. op'[p].pc = "ready" /\ Grounded(p)
      BY <1>0, <2>1 DEF Grounded, Call, Idle, Aloft
    <2> QED BY <1>0, <2>1, <2>2, NobodyTears, OneMoves
  <1>4. CASE Hibernate(p, s)
    <2> DEFINE focused == session = entry[s] \/ CurrentPath = s
    <2>1. /\ op'[p] = [[Call("hibernate", s, "tearing") EXCEPT !.r = entry[s], !.focus = focused]
                         EXCEPT !.pc = "tearing"]
          /\ \A q \in Op : q # p => op'[q] = op[q]
          /\ ~Streaming(entry[s]) /\ controller[s] = None
      BY <1>0, <1>4 DEF Hibernate, Tear, CanHibernate
    <2>2. /\ op'[p].kind = "hibernate" /\ op'[p].pc = "tearing" /\ op'[p].s = s
          /\ op'[p].r = entry[s] /\ op'[p].victims = {} /\ Grounded(p)
      <3> HIDE DEF focused
      <3> QED BY <1>0, <2>1 DEF Call, Idle, Grounded, Aloft
    <2>3. Resting'
      BY <1>0, <2>1, <2>2, TearRests
    <2> QED BY <1>0, <2>1, <2>2, <2>3, OneMoves
  <1>5. CASE Discard(p, s)
    <2>1. /\ op'[p] = [[Call("discard", s, "tearing") EXCEPT !.r = entry[s]] EXCEPT !.pc = "tearing"]
          /\ \A q \in Op : q # p => op'[q] = op[q]
          /\ ~Streaming(entry[s])
      BY <1>0, <1>5 DEF Discard, Tear
    <2>2. /\ op'[p].kind = "discard" /\ op'[p].pc = "tearing"
          /\ op'[p].r = entry[s] /\ op'[p].victims = {} /\ Grounded(p)
      BY <1>0, <2>1 DEF Call, Idle, Grounded, Aloft
    <2>3. Resting'
      BY <1>0, <2>1, <2>2, TearRests
    <2> QED BY <1>0, <2>1, <2>2, <2>3, OneMoves
  <1> QED BY <1>1, <1>2, <1>3, <1>4, <1>5

\* A load ends: its caller and those that joined it go on to their turn, or give up.
LEMMA OverGrounds ==
  ASSUME TypeOK, NEW p \in Op, NEW well \in BOOLEAN, op[p].pc \notin Aloft \cup {"idle"},
         LoadOver(p, well), NEW q \in Op
  PROVE  op'[q] = op[q] \/ (Grounded(q) /\ op'[q].pc # "tearing")
  <1> DEFINE After(k) == IF well /\ k \in Turns THEN Call(k, op[p].s, "loaded") ELSE Idle
  <1>0. op \in [Op -> OpRecord] /\ op[p].s \in Session
    BY AllPlaced DEF TypeOK
  <1>1. \/ op'[q] = op[q]
        \/ /\ q = p \/ op[q].pc = "joined"
           /\ op'[q] = After(op[q].kind) \/ op'[q] = Idle
    BY <1>0 DEF LoadOver
  <1>2. ASSUME op'[q] # op[q] PROVE Grounded(q) /\ op'[q].pc # "tearing"
    <2>1. op[q].pc # "preparing"
      BY <1>1, <1>2 DEF Aloft
    <2>2. CASE op'[q] = Idle
      BY <2>1, <2>2, IdleGrounded, IdleTyped
    <2>3. CASE op[q].kind \in Turns /\ op'[q] = Call(op[q].kind, op[p].s, "loaded")
      <3>1. op[q].kind \in Kinds /\ "loaded" \in Stages \ Aloft
        BY <2>3 DEF Kinds, Loads, Attach, Stages, Aloft
      <3> QED BY <1>0, <2>1, <2>3, <3>1, CallTyped, CallGrounded
    <2> QED BY <1>1, <1>2, <2>2, <2>3
  <1> QED BY <1>2

LEMMA LoadStepTurns ==
  ASSUME IInv, TInv, NEW p \in Op, \A q \in Op : op[q].pc # "tearing",
         \/ LoadReady(p) \/ (\E r \in Runtime : LoadCreated(p, r))
         \/ LoadRegistered(p) \/ LoadFails(p) \/ LoadEvicts(p)
  PROVE  TInv'
  <1> DEFINE o == op[p]
             n == op'[p]
  <1>0. /\ TypeOK /\ op \in [Op -> OpRecord] /\ o \in OpRecord /\ o.pc \notin Aloft \cup {"idle"}
        /\ ~o.halted /\ ~o.aborted /\ o.victims = {} /\ o.s \in Session
        /\ UNCHANGED <<controller, marks>>
    <2>1. o.pc \in {"ready", "creating", "pointed", "registered"}
      BY DEF LoadReady, LoadCreated, LoadRegistered, LoadFails, LoadEvicts
    <2>2. TypeOK /\ op \in [Op -> OpRecord] /\ o.victims = {}
      BY <2>1 DEF IInv, Calls1, Kept, Loading, TypeOK
    <2> QED BY <2>1, <2>2, AllPlaced DEF TInv, Blank, Aloft, LoadReady, LoadCreated, LoadRegistered,
                                      LoadFails, LoadEvicts, held
  <1>1. ASSUME NEW q \in Op, NEW well \in BOOLEAN, LoadOver(p, well)
        PROVE  op'[q] = op[q] \/ (Grounded(q) /\ op'[q].pc # "tearing")
    BY <1>0, <1>1, OverGrounds
  <1>2. ASSUME NEW well \in BOOLEAN, LoadOver(p, well), UNCHANGED <<entry, alive>> PROVE TInv'
    <2>1. \A q \in Op : (SameTurn(q) \/ Grounded(q)) /\ op'[q].pc # "tearing"
      BY <1>1, <1>2, Untouched
    <2>2. \A q \in Op : op[q].pc \in Aloft => Fares(q)
      BY <1>0, <1>2, NothingLost
    <2> QED BY <1>0, <2>1, <2>2, NobodyTears, TurnsGoOn
  <1>3. CASE LoadReady(p)
    <2>1. /\ \A q \in Op : q # p => op'[q] = op[q]
          /\ UNCHANGED <<entry, alive>>
          /\ \/ n = [o EXCEPT !.pc = "creating", !.keep = session, !.at = path]
             \/ n = [o EXCEPT !.pc = "creating"]
             \/ n = [o EXCEPT !.pc = "tearing"] /\ o.kind = "reload"
      BY <1>0, <1>3 DEF LoadReady, Tear, held
    <2> HIDE DEF n, o
    <2>2. /\ n.kind = o.kind /\ n.s = o.s /\ n.r = o.r /\ n.victims = o.victims
          /\ n.halted = o.halted /\ n.aborted = o.aborted
          /\ n.pc = "creating" \/ (n.pc = "tearing" /\ o.kind = "reload")
      BY <1>0, <2>1 DEF OpRecord
    <2>3. Grounded(p)
      BY <1>0, <2>2 DEF Grounded, Aloft, n, o
    <2>4. CASE n.pc = "creating"
      BY <1>0, <2>1, <2>3, <2>4, NobodyTears, OneMoves DEF n
    <2>5. CASE n.pc = "tearing"
      <3>1. Resting'
        BY <1>0, <2>1, <2>2, <2>5, TearRests DEF n, o, Aloft
      <3> QED BY <1>0, <2>1, <2>3, <3>1, OneMoves
    <2> QED BY <2>2, <2>4, <2>5
  <1>4. ASSUME NEW pc \in {"pointed", "registered"}, n.pc = pc, n.halted = o.halted,
               n.aborted = o.aborted, \A q \in Op : q # p => op'[q] = op[q],
               \A q \in Op : op[q].pc \in Aloft => Fares(q)
        PROVE  TInv'
    <2>1. Grounded(p)
      BY <1>0, <1>4 DEF Grounded, Aloft
    <2>2. \A q \in Op : SameTurn(q) \/ Grounded(q)
      BY <1>4, <2>1, Untouched
    <2> QED BY <1>0, <1>4, <2>2, NobodyTears, TurnsGoOn
  <1>5. CASE \E r \in Runtime : LoadCreated(p, r)
    <2>1. PICK r \in Runtime : LoadCreated(p, r)
      BY <1>5
    <2>2. /\ n = [o EXCEPT !.pc = "pointed", !.r = r]
          /\ \A q \in Op : q # p => op'[q] = op[q]
          /\ entry' = entry /\ alive' = alive \cup {r} /\ \A q \in Op : op[q].r # r
      BY <1>0, <2>1 DEF LoadCreated, Fresh, Referenced
    <2>3. n.pc = "pointed" /\ n.halted = o.halted /\ n.aborted = o.aborted
      <3> HIDE DEF n, o
      <3> QED BY <1>0, <2>2 DEF OpRecord
    <2>4. \A q \in Op : op[q].pc \in Aloft => Fares(q)
      BY <1>0, <2>2 DEF Fares, TInv, Aboard
    <2> QED BY <1>4, <2>2, <2>3, <2>4
  <1>6. CASE LoadRegistered(p)
    <2>1. /\ n = [o EXCEPT !.pc = "registered"] /\ \A q \in Op : q # p => op'[q] = op[q]
          /\ entry' = [entry EXCEPT ![o.s] = o.r] /\ alive' = alive /\ entry[o.s] = None
      BY <1>0, <1>6 DEF LoadRegistered, IInv, Files, Absent, Coming, Loading
    <2>2. n.pc = "registered" /\ n.halted = o.halted /\ n.aborted = o.aborted
      <3> HIDE DEF n, o
      <3> QED BY <1>0, <2>1 DEF OpRecord
    <2>3. ASSUME NEW q \in Op, op[q].pc \in Aloft PROVE Fares(q)
      <3>1. /\ op[q].s \in Session /\ op[q].r # None
            /\ op[q].r \in alive => entry[op[q].s] = op[q].r
        BY <1>0, <2>3, AllPlaced, RuntimeAssumption DEF TInv, Aboard, Aloft
      <3> QED BY <1>0, <2>1, <3>1 DEF Fares, TypeOK
    <2> QED BY <1>4, <2>1, <2>2, <2>3
  <1>7. CASE LoadFails(p)
    BY <1>2, <1>7 DEF LoadFails
  <1>8. CASE LoadEvicts(p)
    <2>1. UNCHANGED <<entry, alive>> /\ EvictNext(p, entry, Candidates(p))
      BY <1>8 DEF LoadEvicts
    <2>2. CASE LoadOver(p, TRUE)
      BY <1>2, <2>1, <2>2
    <2>3. CASE Tear(p, [o EXCEPT !.victims = Candidates(p)])
      <3> DEFINE w == Candidates(p)
      <3>1. /\ n = [[o EXCEPT !.victims = w] EXCEPT !.pc = "tearing"]
            /\ \A q \in Op : q # p => op'[q] = op[q]
        BY <1>0, <2>3 DEF Tear
      <3>2. \A v \in w : ~Streaming(v[2])
        BY DEF Candidates
      <3>3. o.kind \in Loads
        BY <1>8 DEF LoadEvicts, IInv, Calls1, Kept
      <3> HIDE DEF w, n, o
      <3>4. /\ n.kind = o.kind /\ n.pc = "tearing" /\ n.victims = w
            /\ n.halted = o.halted /\ n.aborted = o.aborted
        BY <1>0, <3>1 DEF OpRecord
      <3>5. Grounded(p)
        BY <1>0, <3>4 DEF Grounded, Aloft, n, o
      <3>6. n.kind \notin {"hibernate", "discard"}
        BY <3>3, <3>4 DEF Loads, Attach, Turns
      <3>7. Resting'
        BY <1>0, <3>1, <3>2, <3>4, <3>6, TearRests DEF n, o, Aloft
      <3> QED BY <1>0, <2>1, <3>1, <3>5, <3>7, OneMoves
    <2> QED BY <2>1, <2>2, <2>3 DEF EvictNext
  <1> QED BY <1>3, <1>5, <1>6, <1>7, <1>8

\* A runtime is let go: the turns on it are marked, or were halted before.
LEMMA LetGo ==
  ASSUME TypeOK, TInv, NEW s \in Session, NEW x, entry' = [entry EXCEPT ![s] = None],
         alive' = alive \ {x}, entry[s] \in {None, x},
         marks.robbed \subseteq marks'.robbed, marks'.bare = marks.bare,
         marks'.beside = marks.beside,
         NEW q \in Op, op[q].pc \in Aloft,
         op[q].r = x => q \in marks'.robbed \cup marks.bare \/ op[q].halted
  PROVE  Fares(q)
  <1>1. /\ op[q].s \in Session /\ op[q].r # None
        /\ op[q].r \in alive => entry[op[q].s] = op[q].r
    BY AllPlaced, RuntimeAssumption DEF TInv, Aboard, Aloft
  <1> QED BY <1>1 DEF Fares, TypeOK

LEMMA RobsMarks ==
  ASSUME TypeOK, NEW r, NEW stages, Robs(r, stages)
  PROVE  /\ marks.robbed \subseteq marks'.robbed
         /\ marks'.bare = marks.bare /\ marks'.beside = marks.beside
         /\ \A q \in Op : op[q].pc \in stages /\ op[q].r = r => q \in marks'.robbed
  BY DEF Robs, TypeOK, Marks

LEMMA TearStepTurns ==
  ASSUME IInv, TInv, NEW p \in Op, TearEnds(p)
  PROVE  TInv'
  <1>0. /\ TypeOK /\ op \in [Op -> OpRecord] /\ op[p] \in OpRecord
        /\ op[p].pc = "tearing" /\ op[p].s \in Session
        /\ \A q \in Op : q # p => op[q].pc # "tearing"
        /\ controller' = controller
    BY AllPlaced DEF TearEnds, IInv, Calls1, Solo, TypeOK, Hibernated, Discarded, ReloadTorn, Evicted
  <1>1. /\ op[p].kind \in {"hibernate", "discard"} => ~Streaming(op[p].r)
        /\ op[p].kind = "hibernate" => controller[op[p].s] = None
        /\ \A v \in op[p].victims : ~Streaming(v[2])
    BY <1>0 DEF TInv, Resting
  <1>2. ~op[p].halted /\ ~op[p].aborted
    BY <1>0 DEF TInv, Blank, Aloft
  <1>3. ASSUME NEW q \in Op, op[q].pc \in Aloft, NEW r, ~Streaming(r), op[q].r = r
        PROVE  op[q].pc = "preparing"
    BY <1>3 DEF Aloft, Streaming
  <1>4. CASE Hibernated(p)
    <2> DEFINE s == op[p].s
    <2>1. /\ op'[p] = Idle /\ \A q \in Op : q # p => op'[q] = op[q]
          /\ entry' = [entry EXCEPT ![s] = None] /\ alive' = alive \ {op[p].r}
          /\ marks' = marks /\ entry[s] = op[p].r /\ op[p].r # None
      BY <1>0, <1>4 DEF Hibernated, IInv, Calls1, Torn
    <2>2. ASSUME NEW q \in Op, op[q].pc \in Aloft PROVE Fares(q)
      <3>1. ASSUME op[q].r = op[p].r, op[q].r \in alive, q \notin marks.bare PROVE op[q].halted
        <4>1. op[q].pc = "preparing"
          BY <1>1, <1>3, <1>4, <2>2, <3>1 DEF Hibernated
        <4>2. op[q].s \in Session /\ entry[op[q].s] = entry[s] /\ entry[s] # None
          BY <1>0, <2>1, <2>2, <3>1, AllPlaced DEF TInv, Aboard, Aloft
        <4>3. op[q].s = s
          BY <1>0, <4>2 DEF IInv, Files, Own
        <4>4. controller[s] # q
          BY <1>1, <1>4, RuntimeAssumption DEF Hibernated
        <4> QED BY <3>1, <4>1, <4>3, <4>4 DEF TInv, Preparing
      <3>2. CASE op[q].r \in alive
        BY <1>0, <2>1, <2>2, <3>1, <3>2, LetGo
      <3>3. CASE op[q].r \notin alive
        BY <2>1, <3>3 DEF Fares
      <3> QED BY <3>2, <3>3
    <2>3. Grounded(p) /\ \A q \in Op : op'[q].pc # "tearing"
      BY <1>0, <2>1, IdleGrounded, IdleTyped
    <2>4. \A q \in Op : SameTurn(q) \/ Grounded(q)
      BY <2>1, <2>3, Untouched
    <2> QED BY <1>0, <2>2, <2>3, <2>4, NobodyTears, TurnsGoOn
  <1>5. CASE Discarded(p)
    <2> DEFINE s == op[p].s
    <2>1. /\ op'[p] = Idle /\ \A q \in Op : q # p => op'[q] = op[q]
          /\ entry' = [entry EXCEPT ![s] = None] /\ alive' = alive \ {op[p].r}
          /\ Robs(op[p].r, {"preparing"}) /\ entry[s] = op[p].r
      BY <1>0, <1>5 DEF Discarded, IInv, Calls1, Torn
    <2>2. ASSUME NEW q \in Op, op[q].pc \in Aloft PROVE Fares(q)
      <3>1. op[q].r = op[p].r => op[q].pc = "preparing"
        BY <1>1, <1>3, <1>5, <2>2 DEF Discarded
      <3> QED BY <1>0, <2>1, <2>2, <3>1, RobsMarks, LetGo
    <2>3. Grounded(p) /\ \A q \in Op : op'[q].pc # "tearing"
      BY <1>0, <2>1, IdleGrounded, IdleTyped
    <2>4. \A q \in Op : SameTurn(q) \/ Grounded(q)
      BY <2>1, <2>3, Untouched
    <2> QED BY <1>0, <2>2, <2>3, <2>4, NobodyTears, TurnsGoOn
  <1>6. CASE ReloadTorn(p)
    <2> DEFINE s == op[p].s
    <2>1. /\ op'[p] = Call("reload", s, "creating") /\ \A q \in Op : q # p => op'[q] = op[q]
          /\ entry' = [entry EXCEPT ![s] = None] /\ alive' = alive \ {op[p].r}
          /\ Robs(op[p].r, Aloft) /\ entry[s] \in {None, op[p].r}
      BY <1>0, <1>6 DEF ReloadTorn, IInv, Files, Absent, Coming, Aloft
    <2>2. ASSUME NEW q \in Op, op[q].pc \in Aloft PROVE Fares(q)
      BY <1>0, <2>1, <2>2, RobsMarks, LetGo
    <2>3. Grounded(p) /\ op'[p].pc = "creating"
      <3>1. "reload" \in Kinds /\ "creating" \in Stages \ Aloft
        BY DEF Kinds, Loads, Stages, Aloft
      <3> QED BY <1>0, <2>1, <3>1, CallTyped, CallGrounded
    <2>4. \A q \in Op : (SameTurn(q) \/ Grounded(q)) /\ op'[q].pc # "tearing"
      BY <1>0, <2>1, <2>3, Untouched
    <2> QED BY <1>0, <2>2, <2>4, NobodyTears, TurnsGoOn
  <1>7. CASE Evicted(p)
    <2>1. PICK v \in op[p].victims : /\ alive' = alive \ {v[2]}
                                     /\ entry' = [entry EXCEPT ![v[1]] = None]
                                     /\ EvictNext(p, entry', op[p].victims \ {v})
                                     /\ Robs(v[2], {"preparing"})
      BY <1>7 DEF Evicted
    <2>2. v[1] \in Session /\ entry[v[1]] = v[2]
      BY <1>0, Fields DEF IInv, Calls1, Doomed
    <2>3. ASSUME NEW q \in Op, op[q].pc \in Aloft PROVE Fares(q)
      <3> DEFINE s == v[1]
                 x == v[2]
      <3>1. op[q].r = x => op[q].pc = "preparing"
        BY <1>1, <1>3, <2>3
      <3>2. /\ marks.robbed \subseteq marks'.robbed
            /\ marks'.bare = marks.bare /\ marks'.beside = marks.beside
            /\ op[q].pc = "preparing" /\ op[q].r = x => q \in marks'.robbed
        BY <1>0, <2>1, RobsMarks
      <3>3. /\ s \in Session /\ entry' = [entry EXCEPT ![s] = None] /\ alive' = alive \ {x}
            /\ entry[s] \in {None, x}
        BY <2>1, <2>2
      <3> HIDE DEF s, x
      <3> QED BY <1>0, <2>3, <3>1, <3>2, <3>3, LetGo
    <2>4. CASE LoadOver(p, TRUE)
      <3>1. ASSUME NEW q \in Op PROVE op'[q] = op[q] \/ (Grounded(q) /\ op'[q].pc # "tearing")
        BY <1>0, <2>4, OverGrounds DEF Aloft
      <3>2. op'[p] # op[p]
        <4>1. Idle.pc # "tearing" /\ Call(op[p].kind, op[p].s, "loaded").pc # "tearing"
          BY DEF Idle, Call
        <4> QED BY <1>0, <2>4, <4>1 DEF LoadOver
      <3>3. \A q \in Op : (SameTurn(q) \/ Grounded(q)) /\ op'[q].pc # "tearing"
        BY <1>0, <3>1, <3>2, Untouched
      <3> QED BY <1>0, <2>3, <3>3, NobodyTears, TurnsGoOn
    <2>5. CASE Tear(p, [op[p] EXCEPT !.victims = op[p].victims \ {v}])
      <3> DEFINE o == op[p]
                 n == op'[p]
                 w == op[p].victims \ {v}
      <3>1. /\ n = [[o EXCEPT !.victims = w] EXCEPT !.pc = "tearing"]
            /\ \A q \in Op : q # p => op'[q] = op[q]
        BY <1>0, <2>5 DEF Tear
      <3>2. \A x \in w : ~Streaming(x[2])
        BY <1>1
      <3>3. o.kind \in Loads
        BY <1>7 DEF Evicted
      <3> HIDE DEF w, n, o
      <3>4. /\ n.kind = o.kind /\ n.pc = "tearing" /\ n.victims = w
            /\ n.halted = o.halted /\ n.aborted = o.aborted
        BY <1>0, <3>1 DEF OpRecord, o
      <3>5. Grounded(p)
        BY <1>0, <1>2, <3>4 DEF Grounded, Aloft, n, o
      <3>6. n.kind \notin {"hibernate", "discard"}
        BY <3>3, <3>4 DEF Loads, Attach, Turns
      <3>7. Resting'
        BY <1>0, <3>1, <3>2, <3>4, <3>6, TearRests DEF n, o, Aloft
      <3>8. \A q \in Op : SameTurn(q) \/ Grounded(q)
        BY <3>1, <3>5, Untouched
      <3> QED BY <1>0, <2>3, <3>7, <3>8, TurnsGoOn
    <2> QED BY <2>1, <2>4, <2>5 DEF EvictNext
  <1> QED BY <1>4, <1>5, <1>6, <1>7 DEF TearEnds

\* A registered runtime lives.
Live == \A s \in Session : entry[s] # None => entry[s] \in alive

LEMMA LiveGoes ==
  ASSUME TypeOK, Live, Own, NEW s \in Session, NEW x, of[x] = s \/ x = None,
         entry' = [entry EXCEPT ![s] = None], alive' = alive \ {x}
  PROVE  Live'
  BY DEF Live, Own, TypeOK

LEMMA LiveTear ==
  ASSUME IInv, Live, NEW p \in Op, TearEnds(p)
  PROVE  Live'
  <1>0. TypeOK /\ op[p].pc = "tearing" /\ op[p].s \in Session /\ Own
    BY AllPlaced DEF TearEnds, IInv, Files
  <1>1. CASE Hibernated(p) \/ Discarded(p) \/ ReloadTorn(p)
    <2>1. entry' = [entry EXCEPT ![op[p].s] = None] /\ alive' = alive \ {op[p].r}
      BY <1>1 DEF Hibernated, Discarded, ReloadTorn
    <2>2. of[op[p].r] = op[p].s \/ op[p].r = None
      BY <1>0, <1>1 DEF Hibernated, Discarded, ReloadTorn, IInv, Calls1, Torn, Files, Noted, Own
    <2> DEFINE s == op[p].s
               x == op[p].r
    <2>3. s \in Session /\ (of[x] = s \/ x = None)
      BY <1>0, <2>2
    <2>4. entry' = [entry EXCEPT ![s] = None] /\ alive' = alive \ {x}
      BY <2>1
    <2> HIDE DEF s, x
    <2> QED BY <1>0, <2>3, <2>4 DEF Live, Own, TypeOK
  <1>2. CASE Evicted(p)
    <2>1. PICK v \in op[p].victims : /\ alive' = alive \ {v[2]}
                                     /\ entry' = [entry EXCEPT ![v[1]] = None]
      BY <1>2 DEF Evicted
    <2>2. v[1] \in Session /\ v[2] \in Runtime /\ entry[v[1]] = v[2]
      BY <1>0, AllPlaced, Fields DEF IInv, Calls1, Doomed
    <2>3. of[v[2]] = v[1]
      BY <1>0, <2>2, RuntimeAssumption DEF Own
    <2> QED BY <1>0, <2>1, <2>2, <2>3 DEF Live, Own, TypeOK
  <1> QED BY <1>1, <1>2 DEF TearEnds

LEMMA LiveStep == IInv /\ Live /\ [Next]_vars => Live'
  <1> SUFFICES ASSUME IInv, Live, [Next]_vars PROVE Live'
    OBVIOUS
  <1>0. TypeOK
    BY DEF IInv
  <1>1. CASE UNCHANGED <<entry, alive>>
    BY <1>1 DEF Live
  <1>2. CASE \E p \in Op : TearEnds(p)
    BY <1>2, LiveTear
  <1>3. CASE \E p \in Op, r \in Runtime : LoadCreated(p, r)
    BY <1>3 DEF Live, LoadCreated
  <1>4. CASE \E p \in Op : LoadRegistered(p)
    <2>1. PICK p \in Op : LoadRegistered(p)
      BY <1>4
    <2>2. op[p].s \in Session /\ op[p].r \in alive /\ alive' = alive
          /\ entry' = [entry EXCEPT ![op[p].s] = op[p].r]
      BY <1>0, <2>1, AllPlaced DEF LoadRegistered, IInv, Files, Pointed
    <2> QED BY <1>0, <2>2 DEF Live, TypeOK
  <1>5. CASE \E s \in Session : Stop(s) \/ DiscardNow(s) \/ SwitchWarm(s)
    <2>1. PICK s \in Session : Stop(s) \/ DiscardNow(s) \/ SwitchWarm(s)
      BY <1>5
    <2>2. UNCHANGED <<entry, alive>> \/ Removed(s)
      BY <2>1 DEF Stop, DiscardNow, SwitchWarm, ForceRelease, Removed
    <2>3. CASE Removed(s)
      BY <1>0, <2>3, LiveGoes DEF Removed, IInv, Files, Own
    <2> QED BY <1>1, <2>2, <2>3
  <1>6. CASE \E p \in Op : Step(p)
    <2>1. PICK p \in Op : Step(p)
      BY <1>6
    <2>2. \/ UNCHANGED <<entry, alive>>
          \/ \E r \in Runtime : LoadCreated(p, r)
          \/ LoadRegistered(p)
      BY <2>1 DEF Step, AttachCall, SwitchCold, ReloadCall, Hibernate, Discard, TurnCall, LoadReady,
                  LoadFails, LoadEvicts, PromptStart, PromptPrepared, Prepared, DeliverStart,
                  TurnEnds, held
    <2> QED BY <1>1, <1>3, <1>4, <2>2
  <1> QED BY <1>1, <1>2, <1>5, <1>6 DEF Next, vars

LEMMA TurnOver ==
  ASSUME TypeOK, TInv, NEW p \in Op, op[p].pc \in Aloft, op' = [op EXCEPT ![p] = Idle],
         marks' = Unmarked(p), UNCHANGED <<entry, alive>>,
         \A t \in Session : controller'[t] = IF controller[t] = p THEN None ELSE controller[t],
         \A q \in Op : op[q].pc # "tearing"
  PROVE  TInv'
  <1> USE DEF TInv
  <1>0. /\ op \in [Op -> OpRecord] /\ None \notin Op
        /\ op'[p].pc = "idle" /\ ~op'[p].halted /\ ~op'[p].aborted
        /\ \A q \in Op : q # p => op'[q] = op[q]
        /\ \A q \in Op : q # p => /\ q \in marks'.robbed <=> q \in marks.robbed
                                  /\ q \in marks'.bare <=> q \in marks.bare
                                  /\ q \in marks'.beside <=> q \in marks.beside
        /\ \A q \in Op : op[q].pc # "idle" => op[q].s \in Session
    BY RuntimeAssumption, AllPlaced DEF TypeOK, Idle, Unmarked
  <1>1. Ready' /\ Blank' /\ Aboard'
    BY <1>0 DEF Ready, Blank, Aboard, Aloft
  <1>2. Preparing' /\ Running'
    BY <1>0 DEF Preparing, Running
  <1>3. Controlled'
    BY <1>0 DEF Controlled, TypeOK
  <1>4. Resting'
    BY <1>0, NobodyTears
  <1> QED BY <1>1, <1>2, <1>3, <1>4

LEMMA PromptTurns ==
  ASSUME IInv, TInv, Live, NEW p \in Op, PromptStart(p), \A q \in Op : op[q].pc # "tearing",
         entry[op[p].s] # None
  PROVE  TInv'
  <1> USE DEF TInv
  <1> DEFINE s == op[p].s
             n == op'[p]
  <1>0. /\ TypeOK /\ op \in [Op -> OpRecord] /\ None \notin Op /\ s \in Session
        /\ op[p].pc = "loaded" /\ op[p].kind \in Turns /\ ~op[p].halted /\ ~op[p].aborted
        /\ \A q \in Op : op[q].pc # "idle" => op[q].s \in Session
    BY RuntimeAssumption, AllPlaced DEF IInv, TypeOK, PromptStart, Ready, Blank, Aloft
  <1>1. /\ n = [op[p] EXCEPT !.pc = "preparing", !.r = entry[s]]
        /\ \A q \in Op : q # p => op'[q] = op[q]
        /\ controller' = [controller EXCEPT ![s] = p] /\ UNCHANGED <<entry, alive>>
        /\ marks' = [marks EXCEPT !.bare = @ \cup ({controller[s]} \ {None}),
                                  !.beside = @ \cup {q \in Op : op[q].pc = "running" /\ op[q].s = s}]
    BY <1>0 DEF PromptStart
  <1>2. /\ n.kind = op[p].kind /\ n.s = s /\ n.pc = "preparing" /\ n.r = entry[s]
        /\ ~n.halted /\ ~n.aborted
    BY <1>0, <1>1 DEF OpRecord
  <1>3. /\ marks'.robbed = marks.robbed
        /\ \A q \in Op : q \notin marks'.bare => q \notin marks.bare /\ q # controller[s]
        /\ \A q \in Op : q \notin marks'.beside =>
             q \notin marks.beside /\ ~(op[q].pc = "running" /\ op[q].s = s)
    BY <1>0, <1>1 DEF TypeOK, Marks
  <1>4. entry[s] \in alive /\ entry[s] \in Runtime
    BY <1>0 DEF Live, TypeOK
  <1>5. \A t \in Session : controller'[t] = IF t = s THEN p ELSE controller[t]
    BY <1>0, <1>1 DEF TypeOK
  <1> HIDE DEF n
  <1>6. Ready' /\ Blank' /\ Aboard'
    BY <1>0, <1>1, <1>2, <1>4 DEF Ready, Blank, Aboard, Aloft, n
  <1>7. Preparing'
    <2> SUFFICES ASSUME NEW q \in Op, op'[q].pc = "preparing"
                 PROVE  /\ op'[q].aborted => op'[q].halted
                        /\ q \notin marks'.bare =>
                             /\ ~op'[q].aborted => controller'[op'[q].s] = q
                             /\ op'[q].halted => op'[q].aborted \/ op'[q].r \notin alive'
                             /\ ~op'[q].halted /\ q \notin marks'.robbed => op'[q].r \in alive'
      BY DEF Preparing
    <2>1. CASE q = p
      BY <1>0, <1>1, <1>2, <1>4, <1>5, <2>1 DEF n
    <2>2. CASE q # p
      BY <1>0, <1>1, <1>3, <1>5, <2>2 DEF Preparing
    <2> QED BY <2>1, <2>2
  <1>8. Running'
    <2> SUFFICES ASSUME NEW q \in Op, op'[q].pc = "running"
                 PROVE  /\ q \notin marks'.robbed \cup marks'.bare /\ ~op'[q].halted
                             => op'[q].r \in alive'
                        /\ q \notin marks'.bare \cup marks'.beside =>
                             /\ controller'[op'[q].s] = None
                             /\ op'[q].halted => op'[q].r \notin alive'
      BY DEF Running
    <2>1. q # p /\ op'[q] = op[q] /\ op[q].s \in Session
      BY <1>0, <1>1, <1>2 DEF n
    <2> QED BY <1>1, <1>3, <1>5, <2>1 DEF Running
  <1>9. Controlled'
    <2> SUFFICES ASSUME NEW t \in Session, controller'[t] # None
                 PROVE  op'[controller'[t]].pc = "preparing" /\ op'[controller'[t]].s = t
      BY DEF Controlled
    <2>1. CASE t = s
      BY <1>2, <1>5, <2>1 DEF n
    <2>2. CASE t # s
      <3>1. controller'[t] = controller[t] /\ controller[t] \in Op
        BY <1>0, <1>5, <2>2 DEF TypeOK
      <3> QED BY <1>0, <1>1, <3>1 DEF Controlled
    <2> QED BY <2>1, <2>2
  <1>10. Resting'
    BY <1>0, <1>1, <1>2, NobodyTears DEF n
  <1> QED BY <1>6, <1>7, <1>8, <1>9, <1>10

LEMMA TurnStepTurns ==
  ASSUME IInv, TInv, Live, NEW p \in Op, \A q \in Op : op[q].pc # "tearing",
         PromptStart(p) \/ PromptPrepared(p) \/ DeliverStart(p) \/ TurnEnds(p)
  PROVE  TInv'
  <1> DEFINE s == op[p].s
             n == op'[p]
  <1>0. /\ TypeOK /\ op \in [Op -> OpRecord] /\ None \notin Op /\ s \in Session
        /\ op[p].pc \in Aloft \cup {"loaded"} /\ op[p].kind \in Turns
        /\ \A q \in Op : op[q].pc # "idle" => op[q].s \in Session
        /\ UNCHANGED <<entry, alive>>
    BY RuntimeAssumption, AllPlaced
       DEF IInv, TypeOK, PromptStart, PromptPrepared, Prepared, DeliverStart, TurnEnds, TInv, Ready, Aloft
  <1>1. ASSUME op' = [op EXCEPT ![p] = Idle], op[p].pc = "loaded", UNCHANGED <<controller, marks>>
        PROVE  TInv'
    <2>1. Grounded(p) /\ \A q \in Op : op'[q].pc # "tearing"
      BY <1>0, <1>1, IdleGrounded, IdleTyped
    <2> QED BY <1>0, <1>1, <2>1, NobodyTears, OneMoves
  <1>2. CASE PromptStart(p)
    <2>1. CASE entry[s] # None
      BY <1>2, <2>1, PromptTurns
    <2>2. CASE EnsureLoaded(p, "submit", s) /\ UNCHANGED <<controller, marks>>
      <3>1. /\ Grounded(p) /\ op'[p].pc # "tearing"
            /\ \A q \in Op : q # p => op'[q] = op[q]
        BY <1>0, <1>2, <2>2, EnsureGrounded DEF PromptStart, Attach, Turns
      <3> QED BY <1>0, <2>2, <3>1, NobodyTears, OneMoves
    <2>3. CASE op' = [op EXCEPT ![p] = Idle] /\ UNCHANGED <<controller, marks>>
      BY <1>1, <1>2, <2>3 DEF PromptStart
    <2> QED BY <1>2, <2>1, <2>2, <2>3 DEF PromptStart
  <1>3. CASE PromptPrepared(p)
    <2> DEFINE runs == ~op[p].aborted /\ ~Streaming(op[p].r)
    <2>1. /\ op[p].pc = "preparing"
          /\ \A t \in Session : controller'[t] = IF controller[t] = p THEN None ELSE controller[t]
      BY <1>0, <1>3 DEF PromptPrepared, Prepared, Controlled, TInv, TypeOK
    <2>2. CASE ~runs
      BY <1>0, <1>3, <2>1, <2>2, TurnOver DEF PromptPrepared, Prepared, Aloft
    <2>3. CASE runs
      <3> USE DEF TInv
      <3>1. /\ n = [op[p] EXCEPT !.pc = "running"] /\ \A q \in Op : q # p => op'[q] = op[q]
            /\ marks' = marks
        BY <1>0, <1>3, <2>3 DEF PromptPrepared, Prepared
      <3>2. /\ n.kind = op[p].kind /\ n.s = s /\ n.pc = "running" /\ n.r = op[p].r
            /\ n.halted = op[p].halted /\ n.aborted = op[p].aborted
        BY <1>0, <3>1 DEF OpRecord
      <3> HIDE DEF n
      <3>3. /\ \A q \in Op : q # p => op'[q] = op[q]
            /\ \A t \in Session : controller[t] # p => controller'[t] = controller[t]
            /\ controller[s] = p => controller'[s] = None
        BY <1>0, <2>1, <3>1
      <3>4. Ready' /\ Blank'
        BY <1>0, <2>1, <3>1, <3>2 DEF Ready, Blank, Aloft, n
      <3>5. Aboard'
        <4> SUFFICES ASSUME NEW q \in Op, op'[q].pc \in Aloft
                     PROVE  /\ op'[q].r \in Runtime
                            /\ op'[q].r \in alive => entry[op'[q].s] = op'[q].r
          BY <1>0 DEF Aboard
        <4>1. op[q].pc \in Aloft /\ op'[q].r = op[q].r /\ op'[q].s = op[q].s
          BY <2>1, <3>1, <3>2 DEF n, Aloft
        <4> QED BY <4>1 DEF Aboard
      <3>6. Preparing'
        <4> SUFFICES ASSUME NEW q \in Op, op'[q].pc = "preparing"
                     PROVE  /\ op'[q].aborted => op'[q].halted
                            /\ q \notin marks.bare =>
                                 /\ ~op'[q].aborted => controller'[op'[q].s] = q
                                 /\ op'[q].halted => op'[q].aborted \/ op'[q].r \notin alive
                                 /\ ~op'[q].halted /\ q \notin marks.robbed => op'[q].r \in alive
          BY <1>0, <3>1 DEF Preparing
        <4>1. q # p /\ op'[q] = op[q] /\ op[q].s \in Session
          BY <1>0, <3>2, <3>3 DEF n
        <4> QED BY <3>3, <4>1 DEF Preparing
      <3>7. Running'
        <4> SUFFICES ASSUME NEW q \in Op, op'[q].pc = "running"
                     PROVE  /\ q \notin marks.robbed \cup marks.bare /\ ~op'[q].halted
                                  => op'[q].r \in alive
                            /\ q \notin marks.bare \cup marks.beside =>
                                 /\ controller'[op'[q].s] = None
                                 /\ op'[q].halted => op'[q].r \notin alive
          BY <1>0, <3>1 DEF Running
        <4>1. CASE q = p
          BY <2>1, <2>3, <3>2, <3>3, <4>1 DEF Preparing, n
        <4>2. CASE q # p
          <5>1. op'[q] = op[q] /\ op[q].s \in Session
            BY <1>0, <3>3, <4>2
          <5> QED BY <1>0, <3>3, <5>1 DEF Running
        <4> QED BY <4>1, <4>2
      <3>8. Controlled'
        <4> SUFFICES ASSUME NEW t \in Session, controller'[t] # None
                     PROVE  op'[controller'[t]].pc = "preparing" /\ op'[controller'[t]].s = t
          BY DEF Controlled
        <4>1. controller[t] # p
          BY <2>1
        <4>2. controller'[t] = controller[t] /\ controller[t] \in Op
          BY <1>0, <3>3, <4>1 DEF TypeOK
        <4> QED BY <3>3, <4>1, <4>2 DEF Controlled
      <3>9. Resting'
        BY <1>0, <3>1, <3>2, NobodyTears DEF n
      <3> QED BY <3>4, <3>5, <3>6, <3>7, <3>8, <3>9
    <2> QED BY <2>2, <2>3
  <1>4. CASE DeliverStart(p)
    <2> DEFINE r == entry[s]
               triggers == r # None /\ ~Streaming(r)
    <2>0. op[p].pc = "loaded" /\ controller' = controller
      BY <1>4 DEF DeliverStart
    <2>1. CASE ~triggers
      BY <1>1, <1>4, <2>0, <2>1 DEF DeliverStart
    <2>2. CASE triggers
      <3> USE DEF TInv
      <3>1. /\ n = [op[p] EXCEPT !.pc = "running", !.r = r]
            /\ \A q \in Op : q # p => op'[q] = op[q]
            /\ marks' = IF controller[s] # None THEN [marks EXCEPT !.beside = @ \cup {p}] ELSE marks
        BY <1>0, <1>4, <2>2 DEF DeliverStart
      <3>2. /\ n.kind = op[p].kind /\ n.s = s /\ n.pc = "running" /\ n.r = r
            /\ n.halted = op[p].halted /\ n.aborted = op[p].aborted
            /\ ~n.halted /\ ~n.aborted
        BY <1>0, <2>0, <3>1 DEF OpRecord, Blank, Aloft
      <3>3. r \in alive /\ r \in Runtime
        BY <1>0, <2>2 DEF Live, TypeOK
      <3>4. /\ marks'.robbed = marks.robbed /\ marks'.bare = marks.bare
            /\ \A q \in Op : q # p => (q \in marks'.beside <=> q \in marks.beside)
            /\ p \notin marks'.beside => controller[s] = None
        BY <1>0, <3>1 DEF TypeOK, Marks
      <3> HIDE DEF n, r
      <3>5. Ready' /\ Blank'
        BY <1>0, <3>1, <3>2 DEF Ready, Blank, Aloft, n
      <3>6. Aboard'
        <4>1. r = entry[s]
          BY DEF r
        <4> QED BY <1>0, <3>1, <3>2, <3>3, <4>1 DEF Aboard, Aloft, n
      <3>7. Preparing'
        BY <1>0, <2>0, <3>1, <3>2, <3>4 DEF Preparing, n
      <3>8. Running'
        BY <1>0, <2>0, <3>1, <3>2, <3>3, <3>4, ZenonT(60) DEF Running, n
      <3>9. Controlled'
        BY <1>0, <2>0, <3>1, <3>2 DEF Controlled, TypeOK, n
      <3>10. Resting'
        BY <1>0, <3>1, <3>2, NobodyTears DEF n
      <3> QED BY <3>5, <3>6, <3>7, <3>8, <3>9, <3>10
    <2> QED BY <2>1, <2>2
  <1>5. CASE TurnEnds(p)
    <2>1. op[p].pc = "running" /\ controller' = controller
      BY <1>5 DEF TurnEnds
    <2>2. \A t \in Session : controller'[t] = IF controller[t] = p THEN None ELSE controller[t]
      BY <1>0, <2>1 DEF Controlled, TInv
    <2> QED BY <1>0, <1>5, <2>1, <2>2, TurnOver DEF TurnEnds, Aloft
  <1> QED BY <1>2, <1>3, <1>4, <1>5

\* A stop and a discard halt the turns in progress on a session ...
Halts(s) == \A q \in Op : Same(q) /\ (op'[q].halted <=> op[q].halted \/ Halted(s, q))

\* ... abort the input that is being prepared ...
Aborts(s) == /\ controller[s] # None
             /\ \A q \in Op : op'[q].aborted <=> op[q].aborted \/ q = controller[s]
             /\ controller' = [controller EXCEPT ![s] = None]
             /\ UNCHANGED <<entry, alive>>

\* ... or release the runtime they run on.
Releases(s) == /\ \A q \in Op : op'[q].aborted <=> op[q].aborted
               /\ controller' = controller
               /\ Removed(s)

LEMMA HaltMarks ==
  ASSUME TypeOK, NEW s \in Session,
         Stop(s) \/ (DiscardNow(s) /\ entry[s] # None)
  PROVE  Halts(s) /\ (Aborts(s) \/ Releases(s)) /\ marks' = marks
  <1>1. ASSUME NEW q \in Op
        PROVE  LET o == op[q]
                   h == Halt(s)[q]
                   a == [h EXCEPT !.aborted = TRUE]
               IN  /\ h \in OpRecord
                   /\ h.kind = o.kind /\ h.s = o.s /\ h.pc = o.pc /\ h.r = o.r /\ h.victims = o.victims
                   /\ h.halted <=> o.halted \/ Halted(s, q)
                   /\ h.aborted <=> o.aborted
                   /\ a.kind = o.kind /\ a.s = o.s /\ a.pc = o.pc /\ a.r = o.r /\ a.victims = o.victims
                   /\ a.halted <=> o.halted \/ Halted(s, q)
                   /\ a.aborted
    <2> DEFINE o == op[q]
               h == Halt(s)[q]
               a == [h EXCEPT !.aborted = TRUE]
    <2>1. o \in OpRecord /\ h = IF Halted(s, q) THEN [o EXCEPT !.halted = TRUE] ELSE o
      BY AllPlaced DEF Halt
    <2> HIDE DEF o, h
    <2>2. /\ h \in OpRecord
          /\ h.kind = o.kind /\ h.s = o.s /\ h.pc = o.pc /\ h.r = o.r /\ h.victims = o.victims
          /\ h.halted <=> o.halted \/ Halted(s, q)
          /\ h.aborted <=> o.aborted
      BY <2>1 DEF OpRecord
    <2>3. /\ a.kind = h.kind /\ a.s = h.s /\ a.pc = h.pc /\ a.r = h.r /\ a.victims = h.victims
          /\ a.halted <=> h.halted
          /\ a.aborted
      BY <2>2 DEF OpRecord
    <2> QED BY <2>2, <2>3 DEF o, h
  <1>2. Halt(s) \in [Op -> OpRecord]
    BY HaltTyped DEF OpsTyped
  <1>3. CASE controller[s] # None /\ Stop(s)
    <2> DEFINE c == controller[s]
    <2>1. /\ c \in Op /\ op' = [Halt(s) EXCEPT ![c] = [Halt(s)[c] EXCEPT !.aborted = TRUE]]
          /\ controller' = [controller EXCEPT ![s] = None] /\ UNCHANGED <<entry, alive, marks>>
      BY <1>3 DEF TypeOK, Stop
    <2>2. ASSUME NEW q \in Op
          PROVE  /\ Same(q) /\ (op'[q].halted <=> op[q].halted \/ Halted(s, q))
                 /\ op'[q].aborted <=> op[q].aborted \/ q = c
      <3>1. op'[q] = IF q = c THEN [Halt(s)[q] EXCEPT !.aborted = TRUE] ELSE Halt(s)[q]
        BY <1>2, <2>1
      <3> QED BY <1>1, <3>1 DEF Same
    <2> QED BY <1>3, <2>1, <2>2 DEF Halts, Aborts
  <1>4. CASE op' = Halt(s) /\ ForceRelease(s) /\ entry[s] # None /\ controller' = controller
             /\ marks' = marks
    BY <1>1, <1>4 DEF Halts, Releases, Removed, ForceRelease, Same
  <1> QED BY <1>3, <1>4 DEF Stop, DiscardNow

LEMMA StopTurns ==
  ASSUME IInv, TInv, NEW s \in Session, \A q \in Op : op[q].pc # "tearing",
         Halts(s), Aborts(s) \/ Releases(s), marks' = marks
  PROVE  TInv'
  <1> USE DEF TInv, Halts
  <1>0. /\ TypeOK /\ None \notin Op
        /\ \A q \in Op : op[q].pc # "idle" => op[q].s \in Session
        /\ \A q \in Op : op[q].pc \in Aloft /\ op[q].s = s => Halted(s, q)
        /\ \A q \in Op : Halted(s, q) => op[q].pc \in Aloft /\ op[q].s = s
    BY AllPlaced, RuntimeAssumption DEF IInv, TypeOK, Halted, Aloft, Ready
  <1>1. Ready' /\ Resting'
    BY NobodyTears DEF Ready, Same
  <1>2. CASE Aborts(s)
    <2>1. /\ \A t \in Session : t # s => controller'[t] = controller[t]
          /\ controller'[s] = None /\ controller[s] \in Op
          /\ op[controller[s]].pc = "preparing" /\ op[controller[s]].s = s
      BY <1>0, <1>2 DEF Aborts, TypeOK, Controlled
    <2>2. Blank' /\ Aboard'
      BY <1>0, <1>2, <2>1 DEF Aborts, Blank, Aboard, Same, Aloft
    <2>3. Preparing'
      <3> SUFFICES ASSUME NEW q \in Op, op'[q].pc = "preparing"
                   PROVE  /\ op'[q].aborted => op'[q].halted
                          /\ q \notin marks.bare =>
                               /\ ~op'[q].aborted => controller'[op'[q].s] = q
                               /\ op'[q].halted => op'[q].aborted \/ op'[q].r \notin alive
                               /\ ~op'[q].halted /\ q \notin marks.robbed => op'[q].r \in alive
        BY <1>2 DEF Preparing, Aborts
      <3>1. Same(q) /\ op[q].pc = "preparing" /\ op[q].pc \in Aloft /\ op[q].s \in Session
        BY <1>0 DEF Same, Aloft
      <3>2. /\ op'[q].halted <=> op[q].halted \/ op[q].s = s
            /\ op'[q].aborted <=> op[q].aborted \/ q = controller[s]
        BY <1>0, <1>2, <3>1 DEF Aborts
      <3> QED BY <2>1, <3>1, <3>2 DEF Preparing, Same
    <2>4. Running'
      <3> SUFFICES ASSUME NEW q \in Op, op'[q].pc = "running"
                   PROVE  /\ q \notin marks.robbed \cup marks.bare /\ ~op'[q].halted
                               => op'[q].r \in alive
                          /\ q \notin marks.bare \cup marks.beside =>
                               /\ controller'[op'[q].s] = None
                               /\ op'[q].halted => op'[q].r \notin alive
        BY <1>2 DEF Running, Aborts
      <3>1. Same(q) /\ op[q].pc = "running" /\ op[q].pc \in Aloft /\ op[q].s \in Session
        BY <1>0 DEF Same, Aloft
      <3>2. op'[q].halted <=> op[q].halted \/ op[q].s = s
        BY <1>0, <3>1
      <3> QED BY <1>2, <2>1, <3>1, <3>2 DEF Running, Same, Aborts
    <2>5. Controlled'
      <3> SUFFICES ASSUME NEW t \in Session, controller'[t] # None
                   PROVE  op'[controller'[t]].pc = "preparing" /\ op'[controller'[t]].s = t
        BY DEF Controlled
      <3>1. controller'[t] = controller[t] /\ controller[t] \in Op
        BY <1>0, <2>1 DEF TypeOK
      <3> QED BY <3>1 DEF Controlled, Same
    <2> QED BY <1>1, <2>2, <2>3, <2>4, <2>5
  <1>3. CASE Releases(s)
    <2>1. /\ entry[s] # None /\ entry' = [entry EXCEPT ![s] = None]
          /\ alive' = alive \ {entry[s]} /\ controller' = controller
      BY <1>3 DEF Releases, Removed
    <2>2. ASSUME NEW q \in Op, op[q].pc \in Aloft
          PROVE  /\ op[q].s \in Session /\ op[q].r \in Runtime
                 /\ op[q].r \in alive' <=> op[q].r \in alive /\ op[q].s # s
                 /\ op[q].r \in alive' => entry'[op[q].s] = op[q].r
                 /\ op'[q].halted <=> op[q].halted \/ op[q].s = s
                 /\ op'[q].aborted <=> op[q].aborted
                 /\ Same(q)
      <3>1. /\ op[q].s \in Session /\ op[q].r \in Runtime
            /\ op[q].r \in alive => entry[op[q].s] = op[q].r
            /\ op'[q].halted <=> op[q].halted \/ op[q].s = s
            /\ op'[q].aborted <=> op[q].aborted
            /\ Same(q)
        BY <1>0, <1>3, <2>2 DEF Releases, Aboard, Aloft
      <3>2. op[q].r \in alive /\ op[q].s # s => op[q].r # entry[s]
        BY <1>0, <2>1, <3>1, RuntimeAssumption DEF IInv, Files, Own
      <3> QED BY <1>0, <2>1, <3>1, <3>2 DEF TypeOK
    <2>3. \A q \in Op : op'[q].pc \in Aloft => op[q].pc \in Aloft
      BY DEF Same
    <2>4. Blank'
      BY <1>0, <1>3 DEF Releases, Blank, Same
    <2>5. Aboard'
      BY <2>2, <2>3 DEF Aboard, Same
    <2>6. Preparing'
      <3> SUFFICES ASSUME NEW q \in Op, op'[q].pc = "preparing"
                   PROVE  /\ op'[q].aborted => op'[q].halted
                          /\ q \notin marks.bare =>
                               /\ ~op'[q].aborted => controller[op'[q].s] = q
                               /\ op'[q].halted => op'[q].aborted \/ op'[q].r \notin alive'
                               /\ ~op'[q].halted /\ q \notin marks.robbed => op'[q].r \in alive'
        BY <2>1 DEF Preparing
      <3>1. op[q].pc \in Aloft /\ op[q].pc = "preparing"
        BY DEF Same, Aloft
      <3> QED BY <2>2, <3>1 DEF Preparing, Same
    <2>7. Running'
      <3> SUFFICES ASSUME NEW q \in Op, op'[q].pc = "running"
                   PROVE  /\ q \notin marks.robbed \cup marks.bare /\ ~op'[q].halted
                               => op'[q].r \in alive'
                          /\ q \notin marks.bare \cup marks.beside =>
                               /\ controller[op'[q].s] = None
                               /\ op'[q].halted => op'[q].r \notin alive'
        BY <2>1 DEF Running
      <3>1. op[q].pc \in Aloft /\ op[q].pc = "running"
        BY DEF Same, Aloft
      <3> QED BY <2>2, <3>1 DEF Running, Same
    <2>8. Controlled'
      <3>1. \A t \in Session : controller[t] # None => controller[t] \in Op
        BY <1>0 DEF TypeOK
      <3> QED BY <2>1, <3>1 DEF Controlled, Same
    <2> QED BY <1>1, <2>4, <2>5, <2>6, <2>7, <2>8
  <1> QED BY <1>2, <1>3

LEMMA TInvStep == IInv /\ TInv /\ Live /\ Discipline /\ [Next]_vars => TInv'
  <1> SUFFICES ASSUME IInv, TInv, Live, Discipline, [Next]_vars PROVE TInv'
    OBVIOUS
  <1>0. TypeOK
    BY DEF IInv
  <1>1. CASE UNCHANGED <<entry, alive, controller, op, marks>>
    <2>1. \A q \in Op : SameTurn(q)
      BY <1>1, Untouched
    <2>2. \A q \in Op : op[q].pc \in Aloft => Fares(q)
      BY <1>0, <1>1, NothingLost
    <2>3. Resting'
      BY <1>1 DEF TInv, Resting, Streaming
    <2> QED BY <1>0, <1>1, <2>1, <2>2, <2>3, TurnsGoOn
  <1>2. CASE \E p \in Op : TearEnds(p)
    BY <1>2, TearStepTurns
  <1>3. CASE Interruptible /\ \E p \in Op : Step(p)
    <2>1. \A q \in Op : op[q].pc # "tearing"
      BY <1>3 DEF Interruptible, Discipline
    <2>2. PICK p \in Op : Step(p)
      BY <1>3
    <2>3. CASE \E s \in Session : \/ AttachCall(p, s) \/ SwitchCold(p, s) \/ ReloadCall(p, s)
                                  \/ Hibernate(p, s) \/ Discard(p, s)
                                  \/ \E k \in Turns : TurnCall(p, k, s)
      BY <1>0, <2>1, <2>3, CallStepTurns
    <2>4. CASE \/ LoadReady(p) \/ (\E r \in Runtime : LoadCreated(p, r))
               \/ LoadRegistered(p) \/ LoadFails(p) \/ LoadEvicts(p)
      BY <2>1, <2>4, LoadStepTurns
    <2>5. CASE PromptStart(p) \/ PromptPrepared(p) \/ DeliverStart(p) \/ TurnEnds(p)
      BY <2>1, <2>5, TurnStepTurns
    <2> QED BY <2>2, <2>3, <2>4, <2>5 DEF Step
  <1>4. CASE Interruptible /\ \E s \in Session : Stop(s) \/ DiscardNow(s) \/ SwitchWarm(s)
    <2>1. \A q \in Op : op[q].pc # "tearing"
      BY <1>4 DEF Interruptible, Discipline
    <2>2. PICK s \in Session : Stop(s) \/ DiscardNow(s) \/ SwitchWarm(s)
      BY <1>4
    <2>3. CASE Stop(s) \/ (DiscardNow(s) /\ entry[s] # None)
      BY <1>0, <2>1, <2>3, HaltMarks, StopTurns
    <2>4. CASE SwitchWarm(s) \/ (DiscardNow(s) /\ entry[s] = None)
      BY <1>1, <2>4 DEF SwitchWarm, DiscardNow
    <2> QED BY <2>2, <2>3, <2>4
  <1> QED BY <1>1, <1>2, <1>3, <1>4 DEF Next, vars

LEMMA TInvStart == Init => TInv /\ Live
  <1> SUFFICES ASSUME Init PROVE TInv /\ Live
    OBVIOUS
  <1>1. /\ \A p \in Op : op[p] = Idle /\ op[p].pc = "idle" /\ ~op[p].halted /\ ~op[p].aborted
        /\ \A s \in Session : controller[s] = None /\ entry[s] = None
    BY DEF Init, Idle
  <1> QED BY <1>1 DEF TInv, Live, Ready, Blank, Aboard, Preparing, Running, Controlled, Resting, Aloft

LEMMA TInvTurns == IInv /\ TInv => TurnKeepsRuntime /\ StopIsFinal
  BY DEF IInv, TypeOK, TInv, Running, Aboard, Aloft, TurnKeepsRuntime, StopIsFinal

\* Whatever is called meanwhile, with any number of sessions and of calls and any size of
\* the cache, a turn runs on the registered runtime of its session until it ends or its
\* session is stopped or discarded with it: _isHibernatableSession spares the runtime that
\* a prompt is prepared on, and eviction the one that a turn runs on.  The turns it does
\* not cover are those whose runtime was taken by an eviction or a discard while their
\* input was prepared, or by a reload, and those whose abort controller another prompt
\* replaced.  As for OneWriterHolds, a switch or a reload does not meet another load of its
\* session and shutdown handlers do not await.
THEOREM TurnsKeepTheirRuntime ==
  ASSUME Discipline
  PROVE  Spec => []TurnKeepsRuntime
  <1>1. Init => IInv /\ TInv /\ Live
    BY IInvStart, TInvStart
  <1>2. IInv /\ TInv /\ Live /\ [Next]_vars => (IInv /\ TInv /\ Live)'
    BY IInvStep, TInvStep, LiveStep
  <1> QED BY <1>1, <1>2, TInvTurns, PTL DEF Spec

\* Under the same discipline, a turn of any kind that was in preparation or running when
\* its session was stopped or discarded never runs on with a live runtime, at whichever
\* await of promptSession the stop came and whatever is called afterwards; unless another
\* prompt had replaced the controller the stop looks at, or the turn ran beside a prompt
\* in preparation, which is then all that the stop ends.
THEOREM StopsAreFinal ==
  ASSUME Discipline
  PROVE  Spec => []StopIsFinal
  <1>1. Init => IInv /\ TInv /\ Live
    BY IInvStart, TInvStart
  <1>2. IInv /\ TInv /\ Live /\ [Next]_vars => (IInv /\ TInv /\ Live)'
    BY IInvStep, TInvStep, LiveStep
  <1> QED BY <1>1, <1>2, TInvTurns, PTL DEF Spec
=============================================================================
