--------------------------- MODULE DataEpochProofs ---------------------------
(* Theorems about DataEpoch, for every registry of stores, every migration *)
(* path and every bound.                                                   *)
EXTENDS DataEpoch, TLAPS

\* The content of a store whose edges all lie at or below epoch e and rewrite it.
Within(c, s, e) == \A k \in c.edges : k <= e /\ s \in Affected[k]

StampSound == stamp = NoStamp \/ (1 <= stamp.committed /\ stamp.committed <= stamp.min)

DiskCovered == \A s \in Stores : Within(disk[s], s, stamp.min)

\* A published checkpoint holds the stores of its path in their source format.
CheckpointsSound ==
    \A i \in Ids : checkpoints[i].published =>
        /\ i <= started
        /\ 1 <= checkpoints[i].from
        /\ checkpoints[i].from < checkpoints[i].to
        /\ checkpoints[i].stores = AffectedBetween(checkpoints[i].from, checkpoints[i].to)
        /\ \A s \in Stores : Within(checkpoints[i].items[s], s, checkpoints[i].from)

\* Without a journal no barrier is up.
IdleSound == journal.kind = "none" => journal = NoJournal /\ stamp.min = stamp.committed

ForwardSound ==
    journal.kind = "forward" =>
        /\ journal.id \in Ids /\ journal.id <= started
        /\ 1 <= journal.from /\ journal.from < journal.to
        /\ journal.phase \in ForwardPhases
        /\ Consistent
        /\ stamp = NoStamp => journal.from = 1
        /\ journal.phase # "prepared" => checkpoints[journal.id].published
        /\ checkpoints[journal.id].published =>
              /\ checkpoints[journal.id].from = journal.from
              /\ checkpoints[journal.id].to = journal.to

\* The stamp still lies in the transition that checkpoint i undoes.
Undoes(i) ==
    /\ checkpoints[i].published
    /\ stamp = NoStamp => checkpoints[i].from = 1
    /\ stamp # NoStamp => /\ checkpoints[i].from <= stamp.committed
                          /\ stamp.committed <= checkpoints[i].to
                          /\ stamp.min \in {stamp.committed, checkpoints[i].to}

RestoreSound ==
    journal.kind = "restore" =>
        /\ journal.id \in Ids
        /\ journal.phase \in RestorePhases
        /\ journal.from = checkpoints[journal.id].from
        /\ Undoes(journal.id)
        /\ journal.phase # "restore:starting" =>
              \A s \in Stores : Within(disk[s], s, journal.from)
        /\ journal.phase = "restore:metadata_republished" =>
              stamp = [min |-> journal.from, committed |-> journal.from]

\* The journal phase last written when the kernel stands at pc.
PhaseAt(pc) ==
    CASE pc = "checkpoint_verified" -> "prepared"
      [] pc = "stamp_barrier" -> "checkpoint_complete"
      [] pc = "stamp_committed" -> "validated"
      [] OTHER -> pc

KernelSound ==
    /\ kernel.pc # "off" => kernel.own \in Epochs /\ pruner.pc = "off" /\ restorer.pc = "off"
    /\ kernel.pc \in TransitionPcs =>
          /\ 1 <= kernel.from /\ kernel.from < kernel.own
          /\ stamp = NoStamp => kernel.from = 1
    /\ kernel.pc = "begin" => journal = NoJournal
    /\ kernel.pc \in TransitionPcs \ {"begin"} =>
          kernel.id \in Ids /\ journal = Forward(PhaseAt(kernel.pc))
    /\ kernel.pc = "checkpoint_verified" => checkpoints[kernel.id].published
    /\ kernel.pc \in {"begin", "prepared", "checkpoint_verified", "checkpoint_complete"} =>
          stamp = NoStamp \/ stamp = [min |-> kernel.from, committed |-> kernel.from]
    /\ kernel.pc \in {"stamp_barrier", "validated"} =>
          stamp = [min |-> kernel.own, committed |-> kernel.from]
    /\ kernel.pc = "stamp_committed" => stamp = [min |-> kernel.own, committed |-> kernel.own]
    /\ kernel.pc = "migrating" => kernel.edge \in Nat /\ kernel.from < kernel.edge
    /\ kernel.pc \in {"up", "live"} => kernel.own = 1 \/ (kernel.own <= stamp.min /\ ~Restoring)

RestorerSound ==
    restorer.pc # "off" =>
        /\ kernel.pc = "off" /\ pruner.pc = "off"
        /\ restorer.id \in Ids
        /\ Undoes(restorer.id)
        /\ restorer.pc = "journal" =>
              journal.kind = "none" \/ (journal.kind = "forward" /\ journal.id = restorer.id)
        /\ restorer.pc # "journal" => journal.kind = "restore" /\ journal.id = restorer.id
        /\ restorer.pc \in {"journal", "stores", "copy", "reconcile"} =>
              restorer.todo \subseteq checkpoints[restorer.id].stores
        /\ restorer.pc = "journal" => restorer.todo = checkpoints[restorer.id].stores
        /\ restorer.pc \in {"stores", "copy", "reconcile"} =>
              /\ journal.phase = "restore:starting"
              /\ \A s \in checkpoints[restorer.id].stores \ restorer.todo :
                    Within(disk[s], s, journal.from)
        /\ restorer.pc \in {"republish", "republished"} => journal.phase = "restore:stores_restored"
        /\ restorer.pc = "republished" => stamp = [min |-> journal.from, committed |-> journal.from]
        /\ restorer.pc \in {"tail", "receipt"} => journal.phase = "restore:metadata_republished"

PrunerSound ==
    pruner.pc # "off" =>
        /\ kernel.pc = "off" /\ restorer.pc = "off"
        /\ journal.kind # "restore"
        /\ journal.phase # "prepared" => pruner.protected = journal.id

IInv ==
    /\ TypeOK
    /\ StampSound
    /\ DiskCovered
    /\ CheckpointsSound
    /\ IdleSound
    /\ ForwardSound
    /\ RestoreSound
    /\ KernelSound
    /\ RestorerSound
    /\ PrunerSound

-----------------------------------------------------------------------------
(* Type correctness.                                                       *)

LEMMA MissingType == Missing \in Content
  BY BoundAssumption DEF Missing, Content

LEMMA KernelOffType == KernelOff \in KernelType
  BY EpochAssumption, BoundAssumption DEF KernelOff, KernelType, KernelPcs

LEMMA RestorerOffType == RestorerOff \in RestorerType
  BY BoundAssumption DEF RestorerOff, RestorerType, RestorerPcs

LEMMA NoJournalType == NoJournal \in JournalType
  BY EpochAssumption, BoundAssumption DEF NoJournal, JournalType

LEMMA NoCheckpointType == NoCheckpoint \in CheckpointType
  BY EpochAssumption, MissingType DEF NoCheckpoint, CheckpointType

LEMMA EdgesAtType == \A s, e : EdgesAt(s, e) \in SUBSET Edges
  BY DEF EdgesAt

\* A kernel step changes the program counter alone.
LEMMA KernelStepType ==
  ASSUME kernel \in KernelType, NEW before, NEW after \in KernelPcs, KernelStep(before, after)
  PROVE  kernel' \in KernelType
  BY DEF KernelStep, KernelType

LEMMA RestorerStepType ==
  ASSUME restorer \in RestorerType, NEW before, NEW after \in RestorerPcs,
         RestorerStep(before, after)
  PROVE  restorer' \in RestorerType
  BY DEF RestorerStep, RestorerType

LEMMA ForwardType ==
  ASSUME kernel \in KernelType, NEW phase \in ForwardPhases
  PROVE  Forward(phase) \in JournalType
  BY EpochAssumption, BoundAssumption DEF Forward, KernelType, JournalType

LEMMA PhasesArePcs == ForwardPhases \subseteq KernelPcs
  BY DEF ForwardPhases, KernelPcs, TransitionPcs

LEMMA WriteJournalType ==
  ASSUME TypeOK, NEW before, NEW phase \in ForwardPhases, WriteJournal(before, phase)
  PROVE  TypeOK' /\ restorer' = restorer
  <1>1. kernel' \in KernelType
    BY KernelStepType, PhasesArePcs DEF WriteJournal, TypeOK
  <1>2. journal' \in JournalType
    BY ForwardType DEF WriteJournal, TypeOK
  <1>3. QED
    BY <1>1, <1>2 DEF WriteJournal, TypeOK

\* The restorer works on a checkpoint of the home.
LEMMA RestoreJournalType ==
  ASSUME checkpoints \in [Ids -> CheckpointType], restorer \in RestorerType,
         restorer.id \in Ids, NEW phase \in RestorePhases
  PROVE  RestoreJournal(phase) \in JournalType
  <1>1. checkpoints[restorer.id] \in CheckpointType
    OBVIOUS
  <1>2. checkpoints[restorer.id].from \in 0 .. MaxEpoch
    BY <1>1 DEF CheckpointType
  <1>3. QED
    BY <1>2, EpochAssumption, BoundAssumption DEF RestoreJournal, RestorerType, JournalType

LEMMA CapturedType ==
  ASSUME checkpoints \in [Ids -> CheckpointType], restorer.id \in Ids, NEW s \in Stores
  PROVE  Captured(s) \in Content
  <1>1. checkpoints[restorer.id] \in CheckpointType
    OBVIOUS
  <1>2. QED
    BY <1>1 DEF Captured, CheckpointType

\* A restorer at work has the identifier of a checkpoint.
RestorerId == restorer.pc # "off" => restorer.id \in Ids

LEMMA TypeInit == Init => TypeOK /\ RestorerId
  <1> SUFFICES ASSUME Init PROVE TypeOK /\ RestorerId
    OBVIOUS
  <1> USE EpochAssumption, BoundAssumption
  <1>1. stamp \in StampType
    BY DEF Init, NoStamp, StampType
  <1>2. disk \in [Stores -> Content]
    BY MissingType DEF Init, Content
  <1>3. checkpoints \in [Ids -> CheckpointType]
    BY NoCheckpointType DEF Init
  <1>4. trail \in TrailType /\ pruner \in PrunerType
    BY DEF Init, TrailType, PrunerOff, PrunerType
  <1>5. /\ journal \in JournalType
        /\ kernel \in KernelType
        /\ restorer \in RestorerType
    BY KernelOffType, RestorerOffType, NoJournalType DEF Init
  <1>8. litter \in BOOLEAN
    BY DEF Init
  <1>9. started \in 0 .. MaxTransitions
    BY DEF Init
  <1>6. restorer.pc = "off"
    BY DEF Init, RestorerOff
  <1>7. QED
    BY <1>1, <1>2, <1>3, <1>4, <1>5, <1>6, <1>8, <1>9 DEF TypeOK, RestorerId

LEMMA TypeStep == TypeOK /\ RestorerId /\ [Next]_vars => TypeOK' /\ RestorerId'
  <1> SUFFICES ASSUME TypeOK, RestorerId, [Next]_vars PROVE TypeOK' /\ RestorerId'
    OBVIOUS
  <1> USE EpochAssumption, BoundAssumption DEF TypeOK, RestorerId, home, Epochs
  <1>1. ASSUME NEW own \in Builds, NEW override \in BOOLEAN, Launch(own, override) PROVE TypeOK' /\ RestorerId'
    <2>1. own \in 0 .. MaxEpoch
      OBVIOUS
    <2>4. kernel' = [pc |-> "gate", own |-> own, override |-> override, id |-> 0, from |-> 0,
                     edge |-> 0]
      BY <1>1 DEF Launch, KernelOff
    <2>2. kernel' \in KernelType
      BY <2>1, <2>4 DEF KernelType, KernelPcs
    <2>3. QED
      BY <2>2, <1>1 DEF Launch
  <1>2. ASSUME CleanCommittedTail PROVE TypeOK' /\ RestorerId'
    BY <1>2, NoJournalType DEF CleanCommittedTail
  <1>3. ASSUME StampUnstamped PROVE TypeOK' /\ RestorerId'
    BY <1>3, KernelStepType DEF StampUnstamped, KernelPcs, StampType, KernelStep, KernelType
  <1>4. ASSUME Refresh PROVE TypeOK' /\ RestorerId'
    BY <1>4, KernelStepType DEF Refresh, KernelPcs, StampType, KernelStep, KernelType
  <1>5. ASSUME OpenDowngraded PROVE TypeOK' /\ RestorerId'
    BY <1>5, KernelStepType DEF OpenDowngraded, KernelPcs
  <1>6. ASSUME OpenBaseline PROVE TypeOK' /\ RestorerId'
    BY <1>6, KernelStepType DEF OpenBaseline, KernelPcs
  <1>7. ASSUME Refuse PROVE TypeOK' /\ RestorerId'
    BY <1>7, KernelOffType DEF Refuse, KernelExit
  <1>8. ASSUME BeginTransition PROVE TypeOK' /\ RestorerId'
    <2>1. (IF stamp = NoStamp THEN 1 ELSE stamp.committed) \in 0 .. MaxEpoch
      BY DEF StampType
    <2>2. kernel' \in KernelType
      BY <2>1, <1>8 DEF BeginTransition, KernelPcs, TransitionPcs, KernelType
    <2>3. QED
      BY <2>2, <1>8 DEF BeginTransition
  <1>9. ASSUME Prepare PROVE TypeOK' /\ RestorerId'
    <2>5. started + 1 \in 0 .. MaxTransitions
      BY <1>9 DEF Prepare
    <2>1. kernel' \in KernelType
      BY <2>5, <1>9 DEF Prepare, KernelType, KernelPcs, TransitionPcs, ForwardPhases
    <2>2. Forward("prepared") \in JournalType
      BY ForwardType DEF ForwardPhases
    <2>3. journal' \in JournalType
      BY <2>2, <1>9 DEF Prepare, JournalType
    <2>4. QED
      BY <2>1, <2>3, <1>9 DEF Prepare
  <1>10. ASSUME CreateCheckpoint PROVE TypeOK' /\ RestorerId'
    <2> DEFINE scope == AffectedBetween(kernel.from, kernel.own)
               items == [s \in Stores |-> IF s \in scope THEN disk[s] ELSE Missing]
               new == [published |-> TRUE, from |-> kernel.from, to |-> kernel.own,
                       stores |-> scope, items |-> items]
    <2>1. kernel' \in KernelType
      BY <1>10, KernelStepType DEF CreateCheckpoint, KernelPcs, TransitionPcs
    <2>2. items \in [Stores -> Content]
      BY MissingType
    <2>3. scope \in SUBSET Stores
      BY DEF AffectedBetween
    <2>4. new \in CheckpointType
      BY <2>2, <2>3 DEF CheckpointType, KernelType
    <2>5. checkpoints' = [checkpoints EXCEPT ![kernel.id] = new]
      BY <1>10 DEF CreateCheckpoint
    <2>6. checkpoints' \in [Ids -> CheckpointType]
      BY <2>4, <2>5
    <2>7. QED
      BY <2>1, <2>6, <1>10 DEF CreateCheckpoint
  <1>11. ASSUME CompleteCheckpoint PROVE TypeOK' /\ RestorerId'
    <2>1. "checkpoint_complete" \in ForwardPhases
      BY DEF ForwardPhases
    <2>2. WriteJournal("checkpoint_verified", "checkpoint_complete")
      BY <1>11 DEF CompleteCheckpoint
    <2>3. QED
      BY <2>1, <2>2, WriteJournalType
  <1>12. ASSUME RaiseBarrier PROVE TypeOK' /\ RestorerId'
    BY <1>12, KernelStepType DEF RaiseBarrier, KernelPcs, TransitionPcs, StampType, KernelType
  <1>13. ASSUME RecordBarrier PROVE TypeOK' /\ RestorerId'
    <2>1. "barrier_raised" \in ForwardPhases
      BY DEF ForwardPhases
    <2>2. WriteJournal("stamp_barrier", "barrier_raised")
      BY <1>13 DEF RecordBarrier
    <2>3. QED
      BY <2>1, <2>2, WriteJournalType
  <1>14. ASSUME StartMigrating PROVE TypeOK' /\ RestorerId'
    <2>4. kernel.from + 1 \in 0 .. MaxEpoch + 1
      BY DEF KernelType
    <2>1. kernel' \in KernelType
      BY <2>4, <1>14 DEF StartMigrating, KernelType, KernelPcs, TransitionPcs, ForwardPhases
    <2>2. journal' \in JournalType
      BY <1>14, ForwardType DEF StartMigrating, ForwardPhases
    <2>3. QED
      BY <2>1, <2>2, <1>14 DEF StartMigrating
  <1>15. ASSUME NEW s \in Stores, MigrateStore(s) PROVE TypeOK' /\ RestorerId'
    <2>1. kernel.edge \in Edges
      BY <1>15 DEF MigrateStore, InPath, Edges, KernelType
    <2>2. disk' \in [Stores -> Content]
      BY <2>1, <1>15 DEF MigrateStore, Content
    <2>3. QED
      BY <2>2, <1>15 DEF MigrateStore
  <1>16. ASSUME NextEdge PROVE TypeOK' /\ RestorerId'
    BY <1>16 DEF NextEdge, InPath, KernelType
  <1>17. ASSUME RecordMigrated PROVE TypeOK' /\ RestorerId'
    <2>1. "migrated" \in ForwardPhases
      BY DEF ForwardPhases
    <2>2. WriteJournal("migrating", "migrated")
      BY <1>17 DEF RecordMigrated
    <2>3. QED
      BY <2>1, <2>2, WriteJournalType
  <1>18. ASSUME RecordValidated PROVE TypeOK' /\ RestorerId'
    <2>1. "validated" \in ForwardPhases
      BY DEF ForwardPhases
    <2>2. WriteJournal("migrated", "validated")
      BY <1>18 DEF RecordValidated
    <2>3. QED
      BY <2>1, <2>2, WriteJournalType
  <1>19. ASSUME CommitStamp PROVE TypeOK' /\ RestorerId'
    BY <1>19, KernelStepType DEF CommitStamp, KernelPcs, TransitionPcs, StampType, KernelType
  <1>20. ASSUME RecordCommitted PROVE TypeOK' /\ RestorerId'
    <2>1. "committed" \in ForwardPhases
      BY DEF ForwardPhases
    <2>2. WriteJournal("stamp_committed", "committed")
      BY <1>20 DEF RecordCommitted
    <2>3. QED
      BY <2>1, <2>2, WriteJournalType
  <1>21. ASSUME FinishTransition PROVE TypeOK' /\ RestorerId'
    BY <1>21, KernelStepType, NoJournalType DEF FinishTransition, KernelPcs
  <1>22. ASSUME Advertise PROVE TypeOK' /\ RestorerId'
    BY <1>22, KernelStepType DEF Advertise, KernelPcs
  <1>23. ASSUME NEW s \in Stores, WriteStore(s) PROVE TypeOK' /\ RestorerId'
    BY <1>23, EdgesAtType DEF WriteStore, Content
  <1>24. ASSUME KernelCrash PROVE TypeOK' /\ RestorerId'
    <2>1. disk' \in [Stores -> Content]
      <3>1. CASE disk' = disk
        BY <3>1
      <3>2. CASE \E s \in Stores :
                    /\ kernel.pc = "migrating" /\ InPath
                    /\ s \in Affected[kernel.edge] /\ disk[s].state = "ok"
                    /\ disk' = [disk EXCEPT ![s] = [state |-> "torn",
                                                     edges |-> @.edges \cup {kernel.edge},
                                                     rev |-> @.rev]]
        <4>1. PICK s \in Stores :
                /\ InPath
                /\ disk' = [disk EXCEPT ![s] = [state |-> "torn",
                                                 edges |-> disk[s].edges \cup {kernel.edge},
                                                 rev |-> disk[s].rev]]
          BY <3>2
        <4>2. kernel.edge \in Edges
          BY <4>1 DEF InPath, Edges, KernelType
        <4>4. [state |-> "torn", edges |-> disk[s].edges \cup {kernel.edge}, rev |-> disk[s].rev]
                 \in Content
          BY <4>2 DEF Content
        <4>5. QED
          BY <4>1, <4>4
      <3>3. QED
        BY <3>1, <3>2, <1>24 DEF KernelCrash
    <2>2. kernel' \in KernelType
      BY <1>24, KernelOffType DEF KernelCrash, KernelExit
    <2>3. QED
      BY <2>1, <2>2, <1>24 DEF KernelCrash
  <1>25. ASSUME NEW i \in Ids, BeginRestore(i) PROVE TypeOK' /\ RestorerId'
    <2>1. EntryPoint(i) \in RestorerPcs
      BY <1>25 DEF BeginRestore, EntryPoint, RestorerPcs
    <2>2. checkpoints[i] \in CheckpointType
      OBVIOUS
    <2>3. checkpoints[i].stores \in SUBSET Stores
      BY <2>2 DEF CheckpointType
    <2>4. restorer' \in RestorerType /\ restorer'.id \in Ids
      BY <1>25, <2>1, <2>3 DEF BeginRestore, RestorerType, Ids
    <2>5. QED
      BY <2>4, <1>25 DEF BeginRestore
  <1>26. ASSUME WriteRestoreJournal PROVE TypeOK' /\ RestorerId'
    BY <1>26, RestorerStepType, RestoreJournalType DEF WriteRestoreJournal, RestorerStep, RestorerPcs, RestorePhases, TrailType
  <1>27. ASSUME NEW s \in Stores, SkipStore(s) PROVE TypeOK' /\ RestorerId'
    BY <1>27 DEF SkipStore, RestorerType, RestorerPcs
  <1>28. ASSUME NEW s \in Stores, QuarantineStore(s) PROVE TypeOK' /\ RestorerId'
    BY <1>28, MissingType DEF QuarantineStore, RestorerType, RestorerPcs
  <1>29. ASSUME CopyBack PROVE TypeOK' /\ RestorerId'
    BY <1>29, RestorerStepType, CapturedType DEF CopyBack, RestorerStep, RestorerPcs
  <1>30. ASSUME Reconcile PROVE TypeOK' /\ RestorerId'
    BY <1>30, RestorerOffType DEF Reconcile, RestorerOff, RestorerType, RestorerPcs
  <1>31. ASSUME RecordStoresRestored PROVE TypeOK' /\ RestorerId'
    BY <1>31, RestorerStepType, RestoreJournalType DEF RecordStoresRestored, RestorerStep, RestorerPcs, RestorePhases
  <1>32. ASSUME Republish PROVE TypeOK' /\ RestorerId'
    BY <1>32, RestorerOffType DEF Republish, RestorerOff, RestorerType, RestorerPcs, StampType, JournalType
  <1>33. ASSUME RecordRepublished PROVE TypeOK' /\ RestorerId'
    BY <1>33, RestorerStepType, RestoreJournalType DEF RecordRepublished, RestorerStep, RestorerPcs, RestorePhases
  <1>34. ASSUME AppendAudit PROVE TypeOK' /\ RestorerId'
    BY <1>34, RestorerStepType DEF AppendAudit, RestorerStep, RestorerPcs, TrailType
  <1>35. ASSUME WriteReceipt PROVE TypeOK' /\ RestorerId'
    <2>1. restorer' \in RestorerType
      BY <1>35, RestorerStepType DEF WriteReceipt, RestorerPcs
    <2>2. trail' \in TrailType
      BY <1>35 DEF WriteReceipt, TrailType
    <2>3. RestorerId'
      BY <1>35 DEF WriteReceipt, RestorerStep, RestorerType
    <2>4. QED
      BY <2>1, <2>2, <2>3, <1>35 DEF WriteReceipt
  <1>36. ASSUME FinishRestore PROVE TypeOK' /\ RestorerId'
    BY <1>36, RestorerOffType, NoJournalType DEF FinishRestore, RestorerOff
  <1>37. ASSUME RestorerCrash PROVE TypeOK' /\ RestorerId'
    BY <1>37, RestorerOffType, CapturedType DEF RestorerCrash, RestorerOff, Content
  <1>38. ASSUME BeginPrune PROVE TypeOK' /\ RestorerId'
    BY <1>38 DEF BeginPrune, PrunerType, JournalType
  <1>39. ASSUME NEW n \in 1 .. Retained, Prune(n) PROVE TypeOK' /\ RestorerId'
    BY <1>39, NoCheckpointType DEF Prune, PrunerOff, PrunerType
  <1>40. CASE UNCHANGED vars
    BY <1>40 DEF vars
  <1>41. QED
    BY <1>1, <1>2, <1>3, <1>4, <1>5, <1>6, <1>7, <1>8, <1>9, <1>10,
       <1>11, <1>12, <1>13, <1>14, <1>15, <1>16, <1>17, <1>18, <1>19, <1>20,
       <1>21, <1>22, <1>23, <1>24, <1>25, <1>26, <1>27, <1>28, <1>29, <1>30,
       <1>31, <1>32, <1>33, <1>34, <1>35, <1>36, <1>37, <1>38, <1>39, <1>40
    DEF Next, Gate, Transition, Running, RestoreSteps, Pruning

\* Every reachable state is well typed: bounds, phases and program counters.
THEOREM TypeCorrect == Spec => []TypeOK
  BY TypeInit, TypeStep, PTL DEF Spec

-----------------------------------------------------------------------------
(* The inductive invariant.                                                *)

\* One process at a time: while the kernel works the others are off.
LEMMA KernelAlone ==
  ASSUME KernelSound, kernel.pc # "off", UNCHANGED <<restorer, pruner>>
  PROVE  RestorerSound' /\ PrunerSound'
  BY DEF KernelSound, RestorerSound, PrunerSound

LEMMA RestorerAlone ==
  ASSUME RestorerSound, restorer.pc # "off", UNCHANGED <<kernel, pruner>>
  PROVE  KernelSound' /\ PrunerSound'
  BY DEF KernelSound, RestorerSound, PrunerSound, TransitionPcs, ForwardPhases

LEMMA PrunerAlone ==
  ASSUME PrunerSound, pruner.pc # "off", UNCHANGED <<kernel, restorer>>
  PROVE  KernelSound' /\ RestorerSound'
  BY DEF KernelSound, RestorerSound, PrunerSound, TransitionPcs, ForwardPhases

\* A gate that finds nothing to object to has no journal before it.
LEMMA QuietHome ==
  ASSUME TypeOK, Inspection = "none"
  PROVE  journal.kind = "none" /\ stamp.min = stamp.committed
  BY DEF TypeOK, JournalType, Inspection, Restoring

\* What each part of the invariant depends on.
LEMMA Frames ==
  /\ StampSound /\ UNCHANGED stamp => StampSound'
  /\ DiskCovered /\ UNCHANGED <<disk, stamp>> => DiskCovered'
  /\ CheckpointsSound /\ UNCHANGED <<checkpoints, started>> => CheckpointsSound'
  /\ IdleSound /\ UNCHANGED <<journal, stamp>> => IdleSound'
  /\ ForwardSound /\ UNCHANGED <<journal, started, stamp, checkpoints>> => ForwardSound'
  /\ RestoreSound /\ UNCHANGED <<journal, checkpoints, stamp, disk>> => RestoreSound'
  <1>1. StampSound /\ UNCHANGED stamp => StampSound'
    BY DEF StampSound
  <1>2. DiskCovered /\ UNCHANGED <<disk, stamp>> => DiskCovered'
    BY DEF DiskCovered, Within
  <1>3. CheckpointsSound /\ UNCHANGED <<checkpoints, started>> => CheckpointsSound'
    BY DEF CheckpointsSound, Within
  <1>4. IdleSound /\ UNCHANGED <<journal, stamp>> => IdleSound'
    BY DEF IdleSound
  <1>5. ForwardSound /\ UNCHANGED <<journal, started, stamp, checkpoints>> => ForwardSound'
    BY DEF ForwardSound, Consistent
  <1>6. RestoreSound /\ UNCHANGED <<journal, checkpoints, stamp, disk>> => RestoreSound'
    BY DEF RestoreSound, Undoes, Within
  <1>7. QED
    BY <1>1, <1>2, <1>3, <1>4, <1>5, <1>6


LEMMA WithinMonotone ==
  ASSUME NEW c \in Content, NEW s \in Stores, NEW e \in Nat, NEW f \in Nat, e <= f,
         Within(c, s, e)
  PROVE  Within(c, s, f)
  BY DEF Within, Content, Edges

\* Raising the barrier over unchanged data covers it still.
LEMMA StampRaised ==
  ASSUME TypeOK, DiskCovered, stamp'.min \in Nat, stamp.min <= stamp'.min, UNCHANGED disk
  PROVE  DiskCovered'
  <1> SUFFICES ASSUME NEW s \in Stores PROVE Within(disk[s], s, stamp'.min)
    BY DEF DiskCovered
  <1>1. disk[s] \in Content /\ stamp.min \in Nat
    BY EpochAssumption DEF TypeOK, StampType
  <1>2. Within(disk[s], s, stamp.min)
    BY DEF DiskCovered
  <1>3. QED
    BY <1>1, <1>2, WithinMonotone

LEMMA KernelStepFields ==
  ASSUME TypeOK, NEW before, NEW after, KernelStep(before, after)
  PROVE  /\ kernel.pc = before /\ kernel'.pc = after
         /\ kernel'.own = kernel.own /\ kernel'.from = kernel.from
         /\ kernel'.id = kernel.id /\ kernel'.edge = kernel.edge
  BY DEF TypeOK, KernelType, KernelStep

LEMMA RestorerStepFields ==
  ASSUME TypeOK, NEW before, NEW after, RestorerStep(before, after)
  PROVE  /\ restorer.pc = before /\ restorer'.pc = after
         /\ restorer'.id = restorer.id /\ restorer'.todo = restorer.todo
         /\ restorer'.cur = restorer.cur
  BY DEF TypeOK, RestorerType, RestorerStep

LEMMA WriteJournalFields ==
  ASSUME NEW phase, journal' = Forward(phase)
  PROVE  /\ journal'.kind = "forward" /\ journal'.phase = phase
         /\ journal'.id = kernel.id /\ journal'.from = kernel.from /\ journal'.to = kernel.own
  BY DEF Forward

\* The journal of a kernel in its transition is its own.
LEMMA OwnJournal ==
  ASSUME KernelSound, kernel.pc \in TransitionPcs \ {"begin"}
  PROVE  /\ kernel.id \in Ids
         /\ journal.kind = "forward" /\ journal.phase = PhaseAt(kernel.pc)
         /\ journal.id = kernel.id /\ journal.from = kernel.from /\ journal.to = kernel.own
  BY DEF KernelSound, Forward

\* A checkpoint's items lie within every stamp its restore may meet.
LEMMA CapturedCovered ==
  ASSUME IInv, restorer.pc # "off", NEW s \in Stores
  PROVE  /\ Captured(s) \in Content
         /\ Within(Captured(s), s, stamp.min)
         /\ Within(Captured(s), s, checkpoints[restorer.id].from)
  <1>1. restorer.id \in Ids /\ Undoes(restorer.id)
    BY DEF IInv, RestorerSound
  <1>2. Captured(s) \in Content
    BY <1>1, CapturedType DEF IInv, TypeOK
  <1>3. /\ Within(Captured(s), s, checkpoints[restorer.id].from)
        /\ 1 <= checkpoints[restorer.id].from
    BY <1>1 DEF IInv, CheckpointsSound, Undoes, Captured
  <1>4. checkpoints[restorer.id] \in CheckpointType
    BY <1>1 DEF IInv, TypeOK
  <1>5. checkpoints[restorer.id].from \in Nat /\ stamp.min \in Nat /\ stamp.committed \in Nat
    BY <1>4, EpochAssumption DEF IInv, TypeOK, StampType, CheckpointType
  <1>6. CASE stamp = NoStamp
    <2>1. checkpoints[restorer.id].from = 1
      BY <1>1, <1>6 DEF Undoes
    <2>2. \A k \in Captured(s).edges : k \in Edges /\ k <= 1
      BY <1>2, <1>3, <2>1 DEF Within, Content
    <2>3. Captured(s).edges = {}
      BY <2>2 DEF Edges
    <2>4. QED
      BY <2>3, <1>2, <1>3 DEF Within
  <1>7. CASE stamp # NoStamp
    <2>1. checkpoints[restorer.id].from <= stamp.min
      BY <1>1, <1>5, <1>7 DEF IInv, StampSound, Undoes
    <2>2. QED
      BY <2>1, <1>2, <1>3, <1>5, WithinMonotone
  <1>8. QED
    BY <1>6, <1>7

\* The operator keeps the processes apart and undoes transitions in order.
Discipline == Serial /\ InOrder

LEMMA InductiveStep ==
  ASSUME Discipline, IInv, TypeOK', [Next]_vars
  PROVE  IInv'
  <1> USE EpochAssumption, BoundAssumption DEF IInv, home
  <1>1. ASSUME NEW own \in Builds, NEW override \in BOOLEAN, Launch(own, override) PROVE IInv'
    <2>1. kernel' = [pc |-> "gate", own |-> own, override |-> override, id |-> 0, from |-> 0,
                     edge |-> 0]
      BY <1>1 DEF Launch, KernelOff
    <2>2. restorer'.pc = "off" /\ pruner'.pc = "off" /\ own \in Epochs
      BY <1>1 DEF Launch, Discipline
    <2>3. KernelSound'
      BY <2>1, <2>2 DEF KernelSound, TransitionPcs, ForwardPhases
    <2>4. RestorerSound' /\ PrunerSound'
      BY <1>1 DEF Discipline, Launch, RestorerSound, PrunerSound
    <2>5. QED
      BY <2>3, <2>4, <1>1, Frames DEF Launch
  <1>2. ASSUME CleanCommittedTail PROVE IInv'
    <2>1. journal' = NoJournal /\ journal'.kind = "none"
      BY <1>2 DEF CleanCommittedTail, NoJournal
    <2>2. stamp.min = stamp.committed
      BY <1>2 DEF CleanCommittedTail, CommittedTail
    <2>3. IdleSound'
      BY <1>2, <2>1, <2>2 DEF CleanCommittedTail, IdleSound
    <2>4. ForwardSound'
      BY <2>1 DEF ForwardSound
    <2>5. RestoreSound'
      BY <2>1 DEF RestoreSound
    <2>6. KernelSound'
      BY <1>2, <2>1 DEF CleanCommittedTail, KernelSound, TransitionPcs, ForwardPhases
    <2>7. RestorerSound' /\ PrunerSound'
      BY <1>2, KernelAlone DEF CleanCommittedTail, KernelStep
    <2>8. QED
      BY <2>3, <2>4, <2>5, <2>6, <2>7, <1>2, Frames DEF CleanCommittedTail
  <1>3. ASSUME StampUnstamped PROVE IInv'
    <2>1. /\ kernel.pc = "gate" /\ kernel'.pc = "up" /\ kernel'.own = kernel.own
          /\ kernel'.from = kernel.from /\ kernel'.id = kernel.id /\ kernel'.edge = kernel.edge
      BY <1>3, KernelStepFields DEF StampUnstamped, TypeOK
    <2>2. journal.kind = "none" /\ stamp.min = stamp.committed
      BY <1>3, QuietHome DEF StampUnstamped
    <2>3. /\ UNCHANGED <<journal, disk, checkpoints>>
          /\ stamp' = [min |-> kernel.own, committed |-> kernel.own]
          /\ stamp'.min = kernel.own /\ stamp'.committed = kernel.own /\ stamp.min <= kernel.own
          /\ kernel.own \in Epochs
      BY <1>3, <2>1 DEF StampUnstamped, NoStamp, TypeOK, StampType, KernelSound, Epochs
    <2>4. StampSound'
      BY <2>3 DEF StampSound, Epochs
    <2>5. DiskCovered'
      BY <2>3, StampRaised DEF Epochs
    <2>6. IdleSound'
      BY <2>2, <2>3 DEF IdleSound
    <2>7. ForwardSound'
      BY <2>2, <2>3 DEF ForwardSound
    <2>8. RestoreSound'
      BY <2>2, <2>3 DEF RestoreSound
    <2>9. KernelSound'
      BY <1>3, <2>1, <2>2, <2>3 DEF StampUnstamped, KernelSound, TransitionPcs, ForwardPhases, Restoring, Epochs
    <2>10. RestorerSound' /\ PrunerSound'
      BY <1>3, KernelAlone DEF StampUnstamped, KernelStep
    <2>11. QED
      BY <2>4, <2>5, <2>6, <2>7, <2>8, <2>9, <2>10, <1>3, Frames DEF StampUnstamped
  <1>4. ASSUME Refresh PROVE IInv'
    <2>1. /\ kernel.pc = "gate" /\ kernel'.pc = "up" /\ kernel'.own = kernel.own
          /\ kernel'.from = kernel.from /\ kernel'.id = kernel.id /\ kernel'.edge = kernel.edge
      BY <1>4, KernelStepFields DEF Refresh, TypeOK
    <2>2. journal.kind = "none" /\ stamp.min = stamp.committed
      BY <1>4, QuietHome DEF Refresh
    <2>3. /\ UNCHANGED <<journal, disk, checkpoints>>
          /\ stamp' = [min |-> kernel.own, committed |-> kernel.own]
          /\ stamp'.min = kernel.own /\ stamp'.committed = kernel.own /\ stamp.min <= kernel.own
          /\ kernel.own \in Epochs
      BY <1>4, <2>1 DEF Refresh, NoStamp, TypeOK, StampType, KernelSound, Epochs
    <2>4. StampSound'
      BY <2>3 DEF StampSound, Epochs
    <2>5. DiskCovered'
      BY <2>3, StampRaised DEF Epochs
    <2>6. IdleSound'
      BY <2>2, <2>3 DEF IdleSound
    <2>7. ForwardSound'
      BY <2>2, <2>3 DEF ForwardSound
    <2>8. RestoreSound'
      BY <2>2, <2>3 DEF RestoreSound
    <2>9. KernelSound'
      BY <1>4, <2>1, <2>2, <2>3 DEF Refresh, KernelSound, TransitionPcs, ForwardPhases, Restoring, Epochs
    <2>10. RestorerSound' /\ PrunerSound'
      BY <1>4, KernelAlone DEF Refresh, KernelStep
    <2>11. QED
      BY <2>4, <2>5, <2>6, <2>7, <2>8, <2>9, <2>10, <1>4, Frames DEF Refresh
  <1>5. ASSUME OpenDowngraded PROVE IInv'
    <2>1. /\ kernel.pc = "gate" /\ kernel'.pc = "up" /\ kernel'.own = kernel.own
          /\ kernel'.from = kernel.from /\ kernel'.id = kernel.id /\ kernel'.edge = kernel.edge
      BY <1>5, KernelStepFields DEF OpenDowngraded, TypeOK
    <2>2. journal.kind = "none" /\ stamp.min = stamp.committed
      BY <1>5, QuietHome DEF OpenDowngraded
    <2>3. KernelSound'
      BY <1>5, <2>1, <2>2 DEF OpenDowngraded, KernelSound, TransitionPcs, ForwardPhases, Restoring, Epochs, TypeOK, StampType
    <2>4. RestorerSound' /\ PrunerSound'
      BY <1>5, KernelAlone DEF OpenDowngraded, KernelStep
    <2>5. QED
      BY <2>3, <2>4, <1>5, Frames DEF OpenDowngraded
  <1>6. ASSUME OpenBaseline PROVE IInv'
    <2>1. /\ kernel.pc = "gate" /\ kernel'.pc = "up" /\ kernel'.own = kernel.own
          /\ kernel'.from = kernel.from /\ kernel'.id = kernel.id /\ kernel'.edge = kernel.edge
      BY <1>6, KernelStepFields DEF OpenBaseline, TypeOK
    <2>2. KernelSound'
      BY <1>6, <2>1 DEF OpenBaseline, KernelSound, TransitionPcs, ForwardPhases, Epochs
    <2>3. RestorerSound' /\ PrunerSound'
      BY <1>6, KernelAlone DEF OpenBaseline, KernelStep
    <2>4. QED
      BY <2>2, <2>3, <1>6, Frames DEF OpenBaseline
  <1>7. ASSUME Refuse PROVE IInv'
    <2>1. kernel'.pc = "off"
      BY <1>7 DEF Refuse, KernelExit, KernelOff
    <2>2. KernelSound'
      BY <2>1 DEF KernelSound, TransitionPcs, ForwardPhases
    <2>3. RestorerSound' /\ PrunerSound'
      BY <1>7, KernelAlone DEF Refuse, KernelStep
    <2>4. QED
      BY <2>2, <2>3, <1>7, Frames DEF Refuse
  <1>8. ASSUME BeginTransition PROVE IInv'
    <2>1. journal.kind = "none" /\ stamp.min = stamp.committed
      BY <1>8, QuietHome DEF BeginTransition
    <2>2. /\ kernel.pc = "gate" /\ kernel'.pc = "begin" /\ kernel'.own = kernel.own
          /\ kernel'.from = IF stamp = NoStamp THEN 1 ELSE stamp.committed
      BY <1>8 DEF BeginTransition, TypeOK, KernelType
    <2>3. 1 <= kernel'.from /\ kernel'.from < kernel.own
      BY <1>8, <2>1, <2>2 DEF BeginTransition, StampSound, TypeOK, StampType, KernelType
    <2>4. stamp = NoStamp \/ stamp = [min |-> kernel'.from, committed |-> kernel'.from]
      BY <2>1, <2>2 DEF TypeOK, StampType
    <2>5. KernelSound'
      BY <1>8, <2>1, <2>2, <2>3, <2>4 DEF BeginTransition, KernelSound, IdleSound, TransitionPcs, ForwardPhases, Epochs
    <2>6. RestorerSound' /\ PrunerSound'
      BY <1>8, KernelAlone DEF BeginTransition, KernelStep
    <2>7. QED
      BY <2>5, <2>6, <1>8, Frames DEF BeginTransition
  <1>9. ASSUME Prepare PROVE IInv'
    <2>1. /\ kernel.pc = "begin" /\ kernel'.pc = "prepared" /\ kernel'.own = kernel.own
          /\ kernel'.from = kernel.from /\ kernel'.id = started + 1
      BY <1>9 DEF Prepare, TypeOK, KernelType
    <2>2. journal' = [kind |-> "forward", id |-> started + 1, from |-> kernel.from, to |-> kernel.own,
                      phase |-> "prepared"]
      BY <1>9 DEF Prepare, Forward
    <2>3. /\ journal'.kind = "forward" /\ journal'.id = started + 1 /\ journal'.from = kernel.from
          /\ journal'.to = kernel.own /\ journal'.phase = "prepared"
      BY <2>2
    <2>4. /\ started' = started + 1 /\ started \in Nat /\ started + 1 \in Ids
          /\ UNCHANGED <<stamp, disk, checkpoints, restorer, pruner>>
      BY <1>9 DEF Prepare, TypeOK, Ids
    <2>5. /\ 1 <= kernel.from /\ kernel.from < kernel.own /\ (stamp = NoStamp => kernel.from = 1)
          /\ (stamp = NoStamp \/ stamp = [min |-> kernel.from, committed |-> kernel.from])
      BY <2>1 DEF KernelSound, TransitionPcs
    <2>6. ~checkpoints[started + 1].published
      BY <2>4 DEF CheckpointsSound
    <2>7. CheckpointsSound'
      BY <2>4 DEF CheckpointsSound, Ids, Within
    <2>8. IdleSound'
      BY <2>3 DEF IdleSound
    <2>9. ForwardSound'
      BY <2>3, <2>4, <2>5, <2>6 DEF ForwardSound, Consistent, ForwardPhases
    <2>10. RestoreSound'
      BY <2>3 DEF RestoreSound
    <2>11. KernelSound'
      BY <2>1, <2>2, <2>4, <2>5 DEF KernelSound, Forward, PhaseAt, TransitionPcs, ForwardPhases
    <2>12. RestorerSound' /\ PrunerSound'
      BY <1>9, KernelAlone DEF Prepare, KernelStep
    <2>13. QED
      BY <2>7, <2>8, <2>9, <2>10, <2>11, <2>12, <1>9, Frames DEF Prepare
  <1>10. ASSUME CreateCheckpoint PROVE IInv'
    <2>1. /\ kernel.pc = "prepared" /\ kernel'.pc = "checkpoint_verified" /\ kernel'.own = kernel.own
          /\ kernel'.from = kernel.from /\ kernel'.id = kernel.id /\ kernel'.edge = kernel.edge
      BY <1>10, KernelStepFields DEF CreateCheckpoint, TypeOK
    <2>2. /\ journal.kind = "forward" /\ journal.phase = "prepared"
          /\ journal.id = kernel.id /\ journal.from = kernel.from /\ journal.to = kernel.own
          /\ kernel.id \in Ids
      BY <2>1, OwnJournal DEF TransitionPcs, ForwardPhases, PhaseAt
    <2>3. /\ UNCHANGED <<stamp, journal, disk, started>>
          /\ checkpoints' = [checkpoints EXCEPT ![kernel.id] =
               [published |-> TRUE, from |-> kernel.from, to |-> kernel.own,
                stores |-> AffectedBetween(kernel.from, kernel.own),
                items |-> [s \in Stores |-> IF s \in AffectedBetween(kernel.from, kernel.own)
                                           THEN disk[s] ELSE Missing]]]
      BY <1>10 DEF CreateCheckpoint
    <2>4. \A i \in Ids : i # kernel.id => checkpoints'[i] = checkpoints[i]
      BY <2>3 DEF TypeOK
    <2>5. checkpoints'[kernel.id] =
               [published |-> TRUE, from |-> kernel.from, to |-> kernel.own,
                stores |-> AffectedBetween(kernel.from, kernel.own),
                items |-> [s \in Stores |-> IF s \in AffectedBetween(kernel.from, kernel.own)
                                           THEN disk[s] ELSE Missing]]
      BY <2>2, <2>3 DEF TypeOK
    <2>6. /\ checkpoints'[kernel.id].from = kernel.from /\ checkpoints'[kernel.id].to = kernel.own
          /\ checkpoints'[kernel.id].published
          /\ checkpoints'[kernel.id].stores = AffectedBetween(kernel.from, kernel.own)
      BY <2>5
    <2>7. /\ 1 <= kernel.from /\ kernel.from < kernel.own /\ (stamp = NoStamp => kernel.from = 1)
          /\ (stamp = NoStamp \/ stamp = [min |-> kernel.from, committed |-> kernel.from])
      BY <2>1 DEF KernelSound, TransitionPcs, ForwardPhases
    <2>8. \A s \in Stores : Within(checkpoints'[kernel.id].items[s], s, kernel.from)
      <3> SUFFICES ASSUME NEW s \in Stores
                   PROVE  Within(checkpoints'[kernel.id].items[s], s, kernel.from)
        OBVIOUS
      <3>1. Within(disk[s], s, stamp.min) /\ disk[s] \in Content
        BY DEF DiskCovered, TypeOK
      <3>2. stamp.min <= kernel.from /\ stamp.min \in Nat /\ kernel.from \in Nat
        BY <2>7 DEF NoStamp, TypeOK, StampType, KernelType
      <3>3. Within(disk[s], s, kernel.from)
        BY <3>1, <3>2, WithinMonotone
      <3>4. checkpoints'[kernel.id].items[s] \in {disk[s], Missing}
        BY <2>5
      <3>5. QED
        BY <3>3, <3>4 DEF Within, Missing
    <2>9. CheckpointsSound'
      BY <2>2, <2>3, <2>4, <2>6, <2>7, <2>8 DEF CheckpointsSound, ForwardSound
    <2>10. ForwardSound'
      BY <2>2, <2>3, <2>6 DEF ForwardSound, Consistent
    <2>11. RestoreSound'
      BY <2>2, <2>3 DEF RestoreSound
    <2>12. KernelSound'
      BY <1>10, <2>1, <2>3, <2>6 DEF CreateCheckpoint, KernelSound, Forward, PhaseAt, TransitionPcs, ForwardPhases
    <2>13. RestorerSound' /\ PrunerSound'
      BY <1>10, KernelAlone DEF CreateCheckpoint, KernelStep
    <2>14. QED
      BY <2>9, <2>10, <2>11, <2>12, <2>13, <1>10, Frames DEF CreateCheckpoint
  <1>11. ASSUME CompleteCheckpoint PROVE IInv'
    <2>1. /\ kernel.pc = "checkpoint_verified" /\ kernel'.pc = "checkpoint_complete" /\ kernel'.own = kernel.own
          /\ kernel'.from = kernel.from /\ kernel'.id = kernel.id /\ kernel'.edge = kernel.edge
      BY <1>11, KernelStepFields DEF CompleteCheckpoint, WriteJournal, TypeOK
    <2>2. /\ journal.kind = "forward" /\ journal.phase = "prepared"
          /\ journal.id = kernel.id /\ journal.from = kernel.from /\ journal.to = kernel.own
          /\ kernel.id \in Ids
      BY <2>1, OwnJournal DEF TransitionPcs, ForwardPhases, PhaseAt
    <2>3. /\ journal' = Forward("checkpoint_complete") /\ journal'.kind = "forward" /\ journal'.phase = "checkpoint_complete"
          /\ journal'.id = kernel.id /\ journal'.from = kernel.from /\ journal'.to = kernel.own
      BY <1>11, WriteJournalFields DEF CompleteCheckpoint, WriteJournal
    <2>4. UNCHANGED <<stamp, disk, checkpoints, started, restorer, pruner>>
      BY <1>11 DEF CompleteCheckpoint, WriteJournal
    <2>5. 1 <= kernel.from /\ kernel.from < kernel.own
      BY <2>1 DEF KernelSound, TransitionPcs, ForwardPhases
    <2>6. checkpoints[kernel.id].published /\ (stamp = NoStamp => kernel.from = 1)
      BY <2>1 DEF KernelSound, TransitionPcs, ForwardPhases
    <2>7. IdleSound'
      BY <2>3 DEF IdleSound
    <2>8. ForwardSound'
      BY <2>1, <2>2, <2>3, <2>4, <2>5, <2>6 DEF ForwardSound, Consistent, ForwardPhases
    <2>9. RestoreSound'
      BY <2>3 DEF RestoreSound
    <2>10. KernelSound'
      BY <2>1, <2>2, <2>3, <2>4, <2>6 DEF KernelSound, Forward, PhaseAt, TransitionPcs, ForwardPhases
    <2>11. RestorerSound' /\ PrunerSound'
      BY <1>11, KernelAlone DEF CompleteCheckpoint, KernelStep, WriteJournal
    <2>12. QED
      BY <2>7, <2>8, <2>9, <2>10, <2>11, <1>11, Frames DEF CompleteCheckpoint, WriteJournal
  <1>12. ASSUME RaiseBarrier PROVE IInv'
    <2>1. /\ kernel.pc = "checkpoint_complete" /\ kernel'.pc = "stamp_barrier" /\ kernel'.own = kernel.own
          /\ kernel'.from = kernel.from /\ kernel'.id = kernel.id /\ kernel'.edge = kernel.edge
      BY <1>12, KernelStepFields DEF RaiseBarrier, TypeOK
    <2>2. /\ journal.kind = "forward" /\ journal.phase = "checkpoint_complete"
          /\ journal.id = kernel.id /\ journal.from = kernel.from /\ journal.to = kernel.own
          /\ kernel.id \in Ids
      BY <2>1, OwnJournal DEF TransitionPcs, ForwardPhases, PhaseAt
    <2>3. /\ UNCHANGED <<journal, disk, checkpoints, started, restorer, pruner>>
          /\ stamp' = [min |-> kernel.own, committed |-> kernel.from]
          /\ stamp'.min = kernel.own /\ stamp'.committed = kernel.from
      BY <1>12 DEF RaiseBarrier
    <2>4. /\ 1 <= kernel.from /\ kernel.from < kernel.own /\ kernel.own \in Epochs
          /\ kernel.from \in Nat /\ kernel.own \in Nat
          /\ stamp = NoStamp \/ stamp = [min |-> kernel.from, committed |-> kernel.from]
      BY <2>1 DEF KernelSound, TransitionPcs, ForwardPhases, Epochs, TypeOK, KernelType
    <2>5. stamp.min <= kernel.own
      BY <2>4 DEF NoStamp
    <2>6. StampSound'
      BY <2>3, <2>4 DEF StampSound
    <2>7. DiskCovered'
      BY <2>3, <2>4, <2>5, StampRaised
    <2>8. IdleSound'
      BY <2>2, <2>3 DEF IdleSound
    <2>9. ForwardSound'
      BY <2>2, <2>3, <2>4 DEF ForwardSound, Consistent, NoStamp
    <2>10. RestoreSound'
      BY <2>2, <2>3 DEF RestoreSound
    <2>11. KernelSound'
      BY <2>1, <2>2, <2>3, <2>4 DEF KernelSound, Forward, PhaseAt, TransitionPcs, ForwardPhases, NoStamp
    <2>12. RestorerSound' /\ PrunerSound'
      BY <1>12, KernelAlone DEF RaiseBarrier, KernelStep
    <2>13. QED
      BY <2>6, <2>7, <2>8, <2>9, <2>10, <2>11, <2>12, <1>12, Frames DEF RaiseBarrier
  <1>13. ASSUME RecordBarrier PROVE IInv'
    <2>1. /\ kernel.pc = "stamp_barrier" /\ kernel'.pc = "barrier_raised" /\ kernel'.own = kernel.own
          /\ kernel'.from = kernel.from /\ kernel'.id = kernel.id /\ kernel'.edge = kernel.edge
      BY <1>13, KernelStepFields DEF RecordBarrier, WriteJournal, TypeOK
    <2>2. /\ journal.kind = "forward" /\ journal.phase = "checkpoint_complete"
          /\ journal.id = kernel.id /\ journal.from = kernel.from /\ journal.to = kernel.own
          /\ kernel.id \in Ids
      BY <2>1, OwnJournal DEF TransitionPcs, ForwardPhases, PhaseAt
    <2>3. /\ journal' = Forward("barrier_raised") /\ journal'.kind = "forward" /\ journal'.phase = "barrier_raised"
          /\ journal'.id = kernel.id /\ journal'.from = kernel.from /\ journal'.to = kernel.own
      BY <1>13, WriteJournalFields DEF RecordBarrier, WriteJournal
    <2>4. UNCHANGED <<stamp, disk, checkpoints, started, restorer, pruner>>
      BY <1>13 DEF RecordBarrier, WriteJournal
    <2>5. 1 <= kernel.from /\ kernel.from < kernel.own
      BY <2>1 DEF KernelSound, TransitionPcs, ForwardPhases
    <2>6. stamp = [min |-> kernel.own, committed |-> kernel.from]
      BY <2>1 DEF KernelSound
    <2>7. IdleSound'
      BY <2>3 DEF IdleSound
    <2>8. ForwardSound'
      BY <2>1, <2>2, <2>3, <2>4, <2>5, <2>6 DEF ForwardSound, Consistent, ForwardPhases, NoStamp
    <2>9. RestoreSound'
      BY <2>3 DEF RestoreSound
    <2>10. KernelSound'
      BY <2>1, <2>2, <2>3, <2>4, <2>6 DEF KernelSound, Forward, PhaseAt, TransitionPcs, ForwardPhases
    <2>11. RestorerSound' /\ PrunerSound'
      BY <1>13, KernelAlone DEF RecordBarrier, KernelStep, WriteJournal
    <2>12. QED
      BY <2>7, <2>8, <2>9, <2>10, <2>11, <1>13, Frames DEF RecordBarrier, WriteJournal
  <1>14. ASSUME StartMigrating PROVE IInv'
    <2>1. /\ kernel.pc = "barrier_raised" /\ kernel'.pc = "migrating" /\ kernel'.own = kernel.own
          /\ kernel'.from = kernel.from /\ kernel'.id = kernel.id /\ kernel'.edge = kernel.from + 1
      BY <1>14 DEF StartMigrating, TypeOK, KernelType
    <2>2. /\ journal.kind = "forward" /\ journal.phase = "barrier_raised"
          /\ journal.id = kernel.id /\ journal.from = kernel.from /\ journal.to = kernel.own
          /\ kernel.id \in Ids
      BY <2>1, OwnJournal DEF TransitionPcs, ForwardPhases, PhaseAt
    <2>3. /\ journal' = Forward("migrating") /\ journal'.kind = "forward" /\ journal'.phase = "migrating"
          /\ journal'.id = kernel.id /\ journal'.from = kernel.from /\ journal'.to = kernel.own
      BY <1>14, WriteJournalFields DEF StartMigrating
    <2>4. UNCHANGED <<stamp, disk, checkpoints, started, restorer, pruner>> /\ kernel.from \in Nat
      BY <1>14 DEF StartMigrating, TypeOK, KernelType
    <2>5. 1 <= kernel.from /\ kernel.from < kernel.own
      BY <2>1 DEF KernelSound, TransitionPcs, ForwardPhases
    <2>6. IdleSound'
      BY <2>3 DEF IdleSound
    <2>7. ForwardSound'
      BY <2>1, <2>2, <2>3, <2>4, <2>5 DEF ForwardSound, Consistent, ForwardPhases
    <2>8. RestoreSound'
      BY <2>3 DEF RestoreSound
    <2>9. KernelSound'
      BY <2>1, <2>2, <2>3, <2>4 DEF KernelSound, Forward, PhaseAt, TransitionPcs, ForwardPhases
    <2>10. RestorerSound' /\ PrunerSound'
      BY <1>14, KernelAlone DEF StartMigrating, KernelStep
    <2>11. QED
      BY <2>6, <2>7, <2>8, <2>9, <2>10, <1>14, Frames DEF StartMigrating
  <1>15. ASSUME NEW s \in Stores, MigrateStore(s) PROVE IInv'
    <2>1. kernel.pc = "migrating" /\ kernel.edge \in Edges /\ kernel.edge <= kernel.own
      BY <1>15 DEF MigrateStore, InPath, Edges, TypeOK, KernelType
    <2>2. /\ journal.kind = "forward" /\ journal.phase = "migrating"
          /\ journal.id = kernel.id /\ journal.from = kernel.from /\ journal.to = kernel.own
          /\ kernel.id \in Ids
      BY <2>1, OwnJournal DEF TransitionPcs, ForwardPhases, PhaseAt
    <2>3. stamp.min = kernel.own
      BY <2>2 DEF ForwardSound, Consistent
    <2>4. /\ UNCHANGED <<stamp, journal, checkpoints, started, kernel, restorer, pruner>>
          /\ disk'[s].edges = disk[s].edges \cup {kernel.edge} /\ s \in Affected[kernel.edge]
          /\ \A q \in Stores : q # s => disk'[q] = disk[q]
      BY <1>15 DEF MigrateStore, TypeOK, Content
    <2>5. DiskCovered'
      BY <2>1, <2>3, <2>4 DEF DiskCovered, Within
    <2>6. RestoreSound'
      BY <2>2, <2>4 DEF RestoreSound
    <2>7. KernelSound'
      BY <2>1, <2>4 DEF KernelSound, Forward, Restoring
    <2>8. RestorerSound' /\ PrunerSound'
      BY <1>15, KernelAlone DEF MigrateStore, KernelStep
    <2>9. QED
      BY <2>5, <2>6, <2>7, <2>8, <1>15, Frames DEF MigrateStore
  <1>16. ASSUME NextEdge PROVE IInv'
    <2>1. /\ kernel.pc = "migrating" /\ kernel'.pc = "migrating" /\ kernel'.own = kernel.own
          /\ kernel'.from = kernel.from /\ kernel'.id = kernel.id /\ kernel'.edge = kernel.edge + 1
          /\ kernel.from \in Nat
      BY <1>16 DEF NextEdge, TypeOK, KernelType
    <2>2. KernelSound'
      BY <1>16, <2>1 DEF NextEdge, KernelSound, Forward, PhaseAt, TransitionPcs, ForwardPhases
    <2>3. RestorerSound' /\ PrunerSound'
      BY <1>16, KernelAlone DEF NextEdge, KernelStep
    <2>4. QED
      BY <2>2, <2>3, <1>16, Frames DEF NextEdge
  <1>17. ASSUME RecordMigrated PROVE IInv'
    <2>1. /\ kernel.pc = "migrating" /\ kernel'.pc = "migrated" /\ kernel'.own = kernel.own
          /\ kernel'.from = kernel.from /\ kernel'.id = kernel.id /\ kernel'.edge = kernel.edge
      BY <1>17, KernelStepFields DEF RecordMigrated, WriteJournal, TypeOK
    <2>2. /\ journal.kind = "forward" /\ journal.phase = "migrating"
          /\ journal.id = kernel.id /\ journal.from = kernel.from /\ journal.to = kernel.own
          /\ kernel.id \in Ids
      BY <2>1, OwnJournal DEF TransitionPcs, ForwardPhases, PhaseAt
    <2>3. /\ journal' = Forward("migrated") /\ journal'.kind = "forward" /\ journal'.phase = "migrated"
          /\ journal'.id = kernel.id /\ journal'.from = kernel.from /\ journal'.to = kernel.own
      BY <1>17, WriteJournalFields DEF RecordMigrated, WriteJournal
    <2>4. UNCHANGED <<stamp, disk, checkpoints, started, restorer, pruner>>
      BY <1>17 DEF RecordMigrated, WriteJournal
    <2>5. 1 <= kernel.from /\ kernel.from < kernel.own
      BY <2>1 DEF KernelSound, TransitionPcs, ForwardPhases
    <2>6. IdleSound'
      BY <2>3 DEF IdleSound
    <2>7. ForwardSound'
      BY <2>1, <2>2, <2>3, <2>4, <2>5 DEF ForwardSound, Consistent, ForwardPhases
    <2>8. RestoreSound'
      BY <2>3 DEF RestoreSound
    <2>9. KernelSound'
      BY <2>1, <2>2, <2>3, <2>4 DEF KernelSound, Forward, PhaseAt, TransitionPcs, ForwardPhases
    <2>10. RestorerSound' /\ PrunerSound'
      BY <1>17, KernelAlone DEF RecordMigrated, KernelStep, WriteJournal
    <2>11. QED
      BY <2>6, <2>7, <2>8, <2>9, <2>10, <1>17, Frames DEF RecordMigrated, WriteJournal
  <1>18. ASSUME RecordValidated PROVE IInv'
    <2>1. /\ kernel.pc = "migrated" /\ kernel'.pc = "validated" /\ kernel'.own = kernel.own
          /\ kernel'.from = kernel.from /\ kernel'.id = kernel.id /\ kernel'.edge = kernel.edge
      BY <1>18, KernelStepFields DEF RecordValidated, WriteJournal, TypeOK
    <2>2. /\ journal.kind = "forward" /\ journal.phase = "migrated"
          /\ journal.id = kernel.id /\ journal.from = kernel.from /\ journal.to = kernel.own
          /\ kernel.id \in Ids
      BY <2>1, OwnJournal DEF TransitionPcs, ForwardPhases, PhaseAt
    <2>3. /\ journal' = Forward("validated") /\ journal'.kind = "forward" /\ journal'.phase = "validated"
          /\ journal'.id = kernel.id /\ journal'.from = kernel.from /\ journal'.to = kernel.own
      BY <1>18, WriteJournalFields DEF RecordValidated, WriteJournal
    <2>4. UNCHANGED <<stamp, disk, checkpoints, started, restorer, pruner>>
      BY <1>18 DEF RecordValidated, WriteJournal
    <2>5. 1 <= kernel.from /\ kernel.from < kernel.own
      BY <2>1 DEF KernelSound, TransitionPcs, ForwardPhases
    <2>6. stamp = [min |-> kernel.own, committed |-> kernel.from]
      BY <2>2 DEF ForwardSound, Consistent
    <2>7. IdleSound'
      BY <2>3 DEF IdleSound
    <2>8. ForwardSound'
      BY <2>1, <2>2, <2>3, <2>4, <2>5, <2>6 DEF ForwardSound, Consistent, ForwardPhases
    <2>9. RestoreSound'
      BY <2>3 DEF RestoreSound
    <2>10. KernelSound'
      BY <2>1, <2>2, <2>3, <2>4, <2>6 DEF KernelSound, Forward, PhaseAt, TransitionPcs, ForwardPhases
    <2>11. RestorerSound' /\ PrunerSound'
      BY <1>18, KernelAlone DEF RecordValidated, KernelStep, WriteJournal
    <2>12. QED
      BY <2>7, <2>8, <2>9, <2>10, <2>11, <1>18, Frames DEF RecordValidated, WriteJournal
  <1>19. ASSUME CommitStamp PROVE IInv'
    <2>1. /\ kernel.pc = "validated" /\ kernel'.pc = "stamp_committed" /\ kernel'.own = kernel.own
          /\ kernel'.from = kernel.from /\ kernel'.id = kernel.id /\ kernel'.edge = kernel.edge
      BY <1>19, KernelStepFields DEF CommitStamp, TypeOK
    <2>2. /\ journal.kind = "forward" /\ journal.phase = "validated"
          /\ journal.id = kernel.id /\ journal.from = kernel.from /\ journal.to = kernel.own
          /\ kernel.id \in Ids
      BY <2>1, OwnJournal DEF TransitionPcs, ForwardPhases, PhaseAt
    <2>3. /\ UNCHANGED <<journal, disk, checkpoints, started, restorer, pruner>>
          /\ stamp' = [min |-> kernel.own, committed |-> kernel.own]
          /\ stamp'.min = kernel.own /\ stamp'.committed = kernel.own
      BY <1>19 DEF CommitStamp
    <2>4. /\ 1 <= kernel.from /\ kernel.from < kernel.own /\ kernel.own \in Epochs
          /\ kernel.from \in Nat /\ kernel.own \in Nat
          /\ stamp.min = kernel.own
      BY <2>1 DEF KernelSound, TransitionPcs, ForwardPhases, Epochs, TypeOK, KernelType
    <2>5. StampSound'
      BY <2>3, <2>4 DEF StampSound
    <2>6. DiskCovered'
      BY <2>3, <2>4, StampRaised
    <2>7. IdleSound'
      BY <2>3 DEF IdleSound
    <2>8. ForwardSound'
      BY <2>2, <2>3, <2>4 DEF ForwardSound, Consistent, NoStamp
    <2>9. RestoreSound'
      BY <2>2, <2>3 DEF RestoreSound
    <2>10. KernelSound'
      BY <2>1, <2>2, <2>3, <2>4 DEF KernelSound, Forward, PhaseAt, TransitionPcs, ForwardPhases, NoStamp
    <2>11. RestorerSound' /\ PrunerSound'
      BY <1>19, KernelAlone DEF CommitStamp, KernelStep
    <2>12. QED
      BY <2>5, <2>6, <2>7, <2>8, <2>9, <2>10, <2>11, <1>19, Frames DEF CommitStamp
  <1>20. ASSUME RecordCommitted PROVE IInv'
    <2>1. /\ kernel.pc = "stamp_committed" /\ kernel'.pc = "committed" /\ kernel'.own = kernel.own
          /\ kernel'.from = kernel.from /\ kernel'.id = kernel.id /\ kernel'.edge = kernel.edge
      BY <1>20, KernelStepFields DEF RecordCommitted, WriteJournal, TypeOK
    <2>2. /\ journal.kind = "forward" /\ journal.phase = "validated"
          /\ journal.id = kernel.id /\ journal.from = kernel.from /\ journal.to = kernel.own
          /\ kernel.id \in Ids
      BY <2>1, OwnJournal DEF TransitionPcs, ForwardPhases, PhaseAt
    <2>3. /\ journal' = Forward("committed") /\ journal'.kind = "forward" /\ journal'.phase = "committed"
          /\ journal'.id = kernel.id /\ journal'.from = kernel.from /\ journal'.to = kernel.own
      BY <1>20, WriteJournalFields DEF RecordCommitted, WriteJournal
    <2>4. UNCHANGED <<stamp, disk, checkpoints, started, restorer, pruner>>
      BY <1>20 DEF RecordCommitted, WriteJournal
    <2>5. 1 <= kernel.from /\ kernel.from < kernel.own
      BY <2>1 DEF KernelSound, TransitionPcs, ForwardPhases
    <2>6. stamp = [min |-> kernel.own, committed |-> kernel.own] /\ stamp # NoStamp
      BY <2>1 DEF KernelSound, NoStamp, Epochs
    <2>7. IdleSound'
      BY <2>3 DEF IdleSound
    <2>8. ForwardSound'
      BY <2>1, <2>2, <2>3, <2>4, <2>5, <2>6 DEF ForwardSound, Consistent, ForwardPhases
    <2>9. RestoreSound'
      BY <2>3 DEF RestoreSound
    <2>10. KernelSound'
      BY <2>1, <2>2, <2>3, <2>4, <2>6 DEF KernelSound, Forward, PhaseAt, TransitionPcs, ForwardPhases
    <2>11. RestorerSound' /\ PrunerSound'
      BY <1>20, KernelAlone DEF RecordCommitted, KernelStep, WriteJournal
    <2>12. QED
      BY <2>7, <2>8, <2>9, <2>10, <2>11, <1>20, Frames DEF RecordCommitted, WriteJournal
  <1>21. ASSUME FinishTransition PROVE IInv'
    <2>1. /\ kernel.pc = "committed" /\ kernel'.pc = "up" /\ kernel'.own = kernel.own
          /\ kernel'.from = kernel.from /\ kernel'.id = kernel.id /\ kernel'.edge = kernel.edge
      BY <1>21, KernelStepFields DEF FinishTransition, TypeOK
    <2>2. /\ journal.kind = "forward" /\ journal.phase = "committed"
          /\ journal.id = kernel.id /\ journal.from = kernel.from /\ journal.to = kernel.own
          /\ kernel.id \in Ids
      BY <2>1, OwnJournal DEF TransitionPcs, ForwardPhases, PhaseAt
    <2>3. journal' = NoJournal /\ journal'.kind = "none"
      BY <1>21 DEF FinishTransition, NoJournal
    <2>4. stamp.min = kernel.own /\ stamp.committed = kernel.own /\ UNCHANGED stamp
      BY <1>21, <2>2 DEF FinishTransition, ForwardSound, Consistent
    <2>5. IdleSound'
      BY <2>3, <2>4 DEF IdleSound
    <2>6. ForwardSound'
      BY <2>3 DEF ForwardSound
    <2>7. RestoreSound'
      BY <2>3 DEF RestoreSound
    <2>8. KernelSound'
      BY <1>21, <2>1, <2>3, <2>4 DEF FinishTransition, KernelSound, TransitionPcs, ForwardPhases, Restoring, Epochs
    <2>9. RestorerSound' /\ PrunerSound'
      BY <1>21, KernelAlone DEF FinishTransition, KernelStep
    <2>10. QED
      BY <2>5, <2>6, <2>7, <2>8, <2>9, <1>21, Frames DEF FinishTransition
  <1>22. ASSUME Advertise PROVE IInv'
    <2>1. /\ kernel.pc = "up" /\ kernel'.pc = "live" /\ kernel'.own = kernel.own
          /\ kernel'.from = kernel.from /\ kernel'.id = kernel.id /\ kernel'.edge = kernel.edge
      BY <1>22, KernelStepFields DEF Advertise, TypeOK
    <2>2. KernelSound'
      BY <1>22, <2>1 DEF Advertise, KernelSound, TransitionPcs, ForwardPhases, Restoring
    <2>3. RestorerSound' /\ PrunerSound'
      BY <1>22, KernelAlone DEF Advertise, KernelStep
    <2>4. QED
      BY <2>2, <2>3, <1>22, Frames DEF Advertise
  <1>23. ASSUME NEW s \in Stores, WriteStore(s) PROVE IInv'
    <2>1. /\ UNCHANGED <<stamp, journal, checkpoints, started, kernel, restorer, pruner>>
          /\ kernel.pc \in {"up", "live"}
          /\ disk'[s].edges = EdgesAt(s, kernel.own)
          /\ \A q \in Stores : q # s => disk'[q] = disk[q]
      BY <1>23 DEF WriteStore, TypeOK, Content
    <2>2. kernel.own \in Epochs /\ (kernel.own = 1 \/ (kernel.own <= stamp.min /\ journal.kind # "restore"))
      BY <2>1 DEF KernelSound, Restoring
    <2>3. stamp.min \in Nat /\ kernel.own \in Nat
      BY DEF TypeOK, StampType, KernelType
    <2>4. \A k \in disk'[s].edges : k \in Edges /\ k <= kernel.own /\ s \in Affected[k]
      BY <2>1 DEF EdgesAt
    <2>5. kernel.own = 1 => disk'[s].edges = {}
      BY <2>4 DEF Edges
    <2>6. Within(disk'[s], s, stamp.min)
      BY <2>2, <2>3, <2>4, <2>5 DEF Within, Edges
    <2>7. DiskCovered'
      BY <2>1, <2>6 DEF DiskCovered
    <2>8. RestoreSound'
      BY <2>1, <2>2, <2>5 DEF RestoreSound, Undoes, Within
    <2>9. KernelSound'
      BY <2>1 DEF KernelSound, Forward, TransitionPcs, ForwardPhases, Restoring
    <2>10. RestorerSound' /\ PrunerSound'
      BY <1>23, KernelAlone DEF WriteStore, KernelStep
    <2>11. QED
      BY <2>7, <2>8, <2>9, <2>10, <1>23, Frames DEF WriteStore
  <1>24. ASSUME KernelCrash PROVE IInv'
    <2>1. /\ kernel'.pc = "off" /\ kernel.pc # "off"
          /\ UNCHANGED <<stamp, journal, checkpoints, started, restorer, pruner>>
      BY <1>24 DEF KernelCrash, KernelExit, KernelOff
    <2>2. \/ disk' = disk
          \/ \E s \in Stores :
               /\ kernel.pc = "migrating" /\ InPath /\ s \in Affected[kernel.edge]
               /\ disk'[s].edges = disk[s].edges \cup {kernel.edge}
               /\ \A q \in Stores : q # s => disk'[q] = disk[q]
      BY <1>24 DEF KernelCrash, TypeOK, Content
    <2>3. DiskCovered'
      <3>1. CASE disk' = disk
        BY <3>1, <2>1, Frames
      <3>2. ASSUME NEW s \in Stores, kernel.pc = "migrating", InPath, s \in Affected[kernel.edge],
                   disk'[s].edges = disk[s].edges \cup {kernel.edge},
                   \A q \in Stores : q # s => disk'[q] = disk[q]
            PROVE  DiskCovered'
        <4>1. journal.kind = "forward" /\ journal.phase = "migrating" /\ journal.to = kernel.own
          BY <3>2, OwnJournal DEF TransitionPcs, ForwardPhases, PhaseAt
        <4>2. stamp.min = kernel.own
          BY <4>1 DEF ForwardSound, Consistent
        <4>3. kernel.edge <= kernel.own
          BY <3>2 DEF InPath
        <4>4. QED
          BY <3>2, <4>2, <4>3, <2>1 DEF DiskCovered, Within
      <3>3. QED
        BY <3>1, <3>2, <2>2
    <2>4. RestoreSound'
      <3>1. CASE disk' = disk
        BY <3>1, <2>1, Frames
      <3>2. CASE kernel.pc = "migrating"
        <4>1. journal.kind = "forward"
          BY <3>2, OwnJournal DEF TransitionPcs, ForwardPhases
        <4>2. QED
          BY <4>1, <2>1 DEF RestoreSound
      <3>3. QED
        BY <3>1, <3>2, <2>2
    <2>5. KernelSound'
      BY <2>1 DEF KernelSound, TransitionPcs, ForwardPhases
    <2>6. RestorerSound' /\ PrunerSound'
      BY <1>24, KernelAlone DEF KernelCrash, KernelStep
    <2>7. QED
      BY <2>3, <2>4, <2>5, <2>6, <1>24, Frames DEF KernelCrash
  <1>25. ASSUME NEW i \in Ids, BeginRestore(i) PROVE IInv'
    <2>1. /\ restorer'.pc = EntryPoint(i) /\ restorer'.id = i /\ restorer'.todo = checkpoints[i].stores
          /\ kernel.pc = "off" /\ pruner.pc = "off" /\ EntryPoint(i) # "refused"
          /\ UNCHANGED <<stamp, journal, disk, checkpoints, kernel, pruner>>
          /\ checkpoints[i].published /\ InScope(i)
      BY <1>25 DEF BeginRestore, Discipline
    <2>2. checkpoints[i] \in CheckpointType /\ 1 <= checkpoints[i].from /\ checkpoints[i].from < checkpoints[i].to
      BY <2>1 DEF CheckpointsSound, TypeOK
    <2>3. \/ /\ journal.kind = "restore" /\ journal.id = i
             /\ \/ journal.phase = "restore:starting" /\ EntryPoint(i) = "stores"
                \/ journal.phase = "restore:stores_restored" /\ EntryPoint(i) = "republish"
                \/ journal.phase = "restore:metadata_republished" /\ EntryPoint(i) = "tail"
          \/ journal.kind = "none" /\ EntryPoint(i) = "journal"
          \/ journal.kind = "forward" /\ journal.id = i /\ EntryPoint(i) = "journal"
      BY <2>1 DEF EntryPoint, Restoring, RestoreSound, RestorePhases
    <2>4. Undoes(i)
      <3>1. CASE journal.kind = "restore" /\ journal.id = i
        BY <3>1 DEF RestoreSound
      <3>2. CASE journal.kind = "none"
        BY <3>2, <2>1 DEF IdleSound, Undoes, InScope
      <3>3. CASE journal.kind = "forward" /\ journal.id = i
        <4>1. /\ checkpoints[i].from = journal.from /\ checkpoints[i].to = journal.to
              /\ Consistent /\ journal.phase \in ForwardPhases
          BY <3>3, <2>1 DEF ForwardSound
        <4>2. stamp = NoStamp \/ stamp.min \in {stamp.committed, checkpoints[i].to}
          BY <4>1 DEF Consistent, ForwardPhases
        <4>3. QED
          BY <4>2, <2>1 DEF Undoes, InScope
      <3>4. QED
        BY <3>1, <3>2, <3>3, <2>3
    <2>5. RestorerSound'
      BY <2>1, <2>3, <2>4 DEF RestorerSound, Undoes
    <2>6. KernelSound' /\ PrunerSound'
      BY <1>25 DEF Discipline, BeginRestore, KernelSound, PrunerSound, TransitionPcs, ForwardPhases
    <2>7. QED
      BY <2>5, <2>6, <1>25, Frames DEF BeginRestore
  <1>26. ASSUME WriteRestoreJournal PROVE IInv'
    <2>1. /\ restorer.pc = "journal" /\ restorer'.pc = "stores" /\ restorer'.id = restorer.id
          /\ restorer'.todo = restorer.todo /\ restorer'.cur = restorer.cur
      BY <1>26, RestorerStepFields DEF WriteRestoreJournal
    <2>2. /\ restorer.id \in Ids /\ Undoes(restorer.id) /\ kernel.pc = "off" /\ pruner.pc = "off"
          /\ 1 <= checkpoints[restorer.id].from
      BY <2>1 DEF RestorerSound, CheckpointsSound, Undoes
    <2>3. /\ journal'.kind = "restore" /\ journal'.id = restorer.id /\ journal'.phase = "restore:starting"
          /\ journal'.from = checkpoints[restorer.id].from
          /\ UNCHANGED <<stamp, disk, checkpoints, started, kernel, pruner>>
      BY <1>26 DEF WriteRestoreJournal, RestoreJournal
    <2>4. IdleSound'
      BY <2>3 DEF IdleSound
    <2>5. ForwardSound'
      BY <2>3 DEF ForwardSound
    <2>6. RestoreSound'
      BY <2>2, <2>3 DEF RestoreSound, RestorePhases, Undoes
    <2>7. RestorerSound'
      BY <2>1, <2>2, <2>3 DEF RestorerSound, Undoes
    <2>8. KernelSound' /\ PrunerSound'
      BY <1>26, RestorerAlone DEF WriteRestoreJournal, RestorerStep
    <2>9. QED
      BY <2>4, <2>5, <2>6, <2>7, <2>8, <1>26, Frames DEF WriteRestoreJournal
  <1>27. ASSUME NEW s \in Stores, SkipStore(s) PROVE IInv'
    <2>1. /\ restorer.pc = "stores" /\ restorer'.pc = "reconcile" /\ restorer'.id = restorer.id
          /\ restorer'.todo = restorer.todo /\ UNCHANGED <<stamp, journal, disk, checkpoints, kernel, pruner>>
      BY <1>27 DEF SkipStore, TypeOK, RestorerType
    <2>2. RestorerSound'
      BY <2>1 DEF RestorerSound, Undoes, Within
    <2>3. KernelSound' /\ PrunerSound'
      BY <1>27, RestorerAlone DEF SkipStore, RestorerStep
    <2>4. QED
      BY <2>2, <2>3, <1>27, Frames DEF SkipStore
  <1>28. ASSUME NEW s \in Stores, QuarantineStore(s) PROVE IInv'
    <2>1. /\ restorer.pc = "stores" /\ restorer'.pc = "copy" /\ restorer'.id = restorer.id
          /\ restorer'.todo = restorer.todo /\ UNCHANGED <<stamp, journal, checkpoints, kernel, pruner>>
      BY <1>28 DEF QuarantineStore, TypeOK, RestorerType
    <2>2. disk'[s].edges = {} /\ (\A q \in Stores : q # s => disk'[q] = disk[q])
      BY <1>28 DEF QuarantineStore, Missing, TypeOK
    <2>3. journal.phase = "restore:starting"
      BY <2>1 DEF RestorerSound
    <2>4. DiskCovered'
      BY <2>1, <2>2 DEF DiskCovered, Within
    <2>5. RestoreSound'
      BY <2>1, <2>3 DEF RestoreSound, Undoes
    <2>6. RestorerSound'
      <3>1. /\ restorer.id \in Ids
            /\ \A q \in checkpoints[restorer.id].stores \ restorer.todo : Within(disk[q], q, journal.from)
        BY <2>1 DEF RestorerSound
      <3>2. checkpoints[restorer.id] \in CheckpointType
        BY <3>1 DEF TypeOK
      <3>3. checkpoints[restorer.id].stores \subseteq Stores
        BY <3>2 DEF CheckpointType
      <3>4. \A q \in checkpoints[restorer.id].stores \ restorer.todo : Within(disk'[q], q, journal.from)
        BY <3>1, <3>3, <2>2 DEF Within
      <3>5. QED
        BY <3>4, <2>1 DEF RestorerSound, Undoes
    <2>7. KernelSound' /\ PrunerSound'
      BY <1>28, RestorerAlone DEF QuarantineStore, RestorerStep
    <2>8. QED
      BY <2>4, <2>5, <2>6, <2>7, <1>28, Frames DEF QuarantineStore
  <1>29. ASSUME CopyBack PROVE IInv'
    <2>1. /\ restorer.pc = "copy" /\ restorer'.pc = "reconcile" /\ restorer'.id = restorer.id
          /\ restorer'.todo = restorer.todo /\ restorer'.cur = restorer.cur
      BY <1>29, RestorerStepFields DEF CopyBack
    <2>2. /\ restorer.id \in Ids /\ Undoes(restorer.id) /\ kernel.pc = "off" /\ pruner.pc = "off"
          /\ 1 <= checkpoints[restorer.id].from
      BY <2>1 DEF RestorerSound, CheckpointsSound, Undoes
    <2>3. /\ UNCHANGED <<stamp, journal, checkpoints, kernel, pruner>>
          /\ \A s \in Stores : disk'[s] = disk[s] \/ disk'[s] = Captured(s)
      BY <1>29 DEF CopyBack
    <2>4. journal.phase = "restore:starting" /\ journal.from = checkpoints[restorer.id].from
      BY <2>1 DEF RestorerSound, RestoreSound
    <2>5. \A s \in Stores : /\ Within(Captured(s), s, stamp.min)
                            /\ Within(Captured(s), s, checkpoints[restorer.id].from)
      BY <2>1, CapturedCovered
    <2>6. DiskCovered'
      <3>1. \A s \in Stores : Within(disk'[s], s, stamp.min)
        BY <2>3, <2>5 DEF DiskCovered
      <3>2. QED
        BY <3>1, <2>3 DEF DiskCovered
    <2>7. RestoreSound'
      BY <2>3, <2>4 DEF RestoreSound, Undoes
    <2>8. RestorerSound'
      <3>1. \A s \in checkpoints[restorer.id].stores \ restorer.todo : Within(disk[s], s, journal.from)
        BY <2>1 DEF RestorerSound
      <3>2. checkpoints[restorer.id] \in CheckpointType
        BY <2>2 DEF TypeOK
      <3>3. checkpoints[restorer.id].stores \subseteq Stores
        BY <3>2 DEF CheckpointType
      <3>4. \A s \in checkpoints[restorer.id].stores \ restorer.todo : Within(disk'[s], s, journal.from)
        BY <3>1, <3>3, <2>3, <2>4, <2>5
      <3>5. QED
        BY <3>4, <2>1, <2>2, <2>3 DEF RestorerSound, Undoes
    <2>9. KernelSound' /\ PrunerSound'
      BY <1>29, RestorerAlone DEF CopyBack, RestorerStep
    <2>10. QED
      BY <2>6, <2>7, <2>8, <2>9, <1>29, Frames DEF CopyBack
  <1>30. ASSUME Reconcile PROVE IInv'
    <2>1. restorer.pc = "reconcile" /\ UNCHANGED <<stamp, journal, disk, checkpoints, kernel, pruner>>
      BY <1>30 DEF Reconcile
    <2>2. \/ restorer'.pc = "off"
          \/ /\ restorer'.pc = "stores" /\ restorer'.id = restorer.id
             /\ restorer'.todo = restorer.todo \ restorer.cur
             /\ \A s \in restorer.cur : disk[s] = Captured(s)
      BY <1>30 DEF Reconcile, RestorerOff, TypeOK, RestorerType
    <2>3. restorer.cur \subseteq Stores
      BY DEF TypeOK, RestorerType
    <2>4. \A s \in Stores : Within(Captured(s), s, checkpoints[restorer.id].from)
      BY <2>1, CapturedCovered
    <2>5. journal.from = checkpoints[restorer.id].from
      BY <2>1 DEF RestorerSound, RestoreSound
    <2>6. RestorerSound'
      <3>1. CASE restorer'.pc = "off"
        BY <3>1 DEF RestorerSound
      <3>2. CASE restorer'.pc # "off"
        <4>1. /\ restorer'.pc = "stores" /\ restorer'.id = restorer.id
              /\ restorer'.todo = restorer.todo \ restorer.cur
              /\ \A s \in restorer.cur : disk[s] = Captured(s)
          BY <3>2, <2>2
        <4>2. \A s \in checkpoints[restorer.id].stores \ restorer.todo : Within(disk[s], s, journal.from)
          BY <2>1 DEF RestorerSound
        <4>3. \A s \in checkpoints[restorer.id].stores \ restorer'.todo : Within(disk[s], s, journal.from)
          BY <4>1, <4>2, <2>3, <2>4, <2>5
        <4>4. QED
          BY <4>1, <4>3, <2>1 DEF RestorerSound, Undoes
      <3>3. QED
        BY <3>1, <3>2
    <2>7. KernelSound' /\ PrunerSound'
      BY <1>30, RestorerAlone DEF Reconcile, RestorerStep
    <2>8. QED
      BY <2>6, <2>7, <1>30, Frames DEF Reconcile
  <1>31. ASSUME RecordStoresRestored PROVE IInv'
    <2>1. /\ restorer.pc = "stores" /\ restorer'.pc = "republish" /\ restorer'.id = restorer.id
          /\ restorer'.todo = restorer.todo /\ restorer'.cur = restorer.cur
      BY <1>31, RestorerStepFields DEF RecordStoresRestored
    <2>2. /\ restorer.id \in Ids /\ Undoes(restorer.id) /\ kernel.pc = "off" /\ pruner.pc = "off"
          /\ 1 <= checkpoints[restorer.id].from
      BY <2>1 DEF RestorerSound, CheckpointsSound, Undoes
    <2>3. /\ journal'.kind = "restore" /\ journal'.id = restorer.id /\ journal'.phase = "restore:stores_restored"
          /\ journal'.from = checkpoints[restorer.id].from
          /\ UNCHANGED <<stamp, disk, checkpoints, started, kernel, pruner>>
      BY <1>31 DEF RecordStoresRestored, RestoreJournal
    <2>4. \A s \in Stores : Within(disk[s], s, checkpoints[restorer.id].from)
      <3> DEFINE c == checkpoints[restorer.id]
      <3> SUFFICES ASSUME NEW s \in Stores PROVE Within(disk[s], s, c.from)
        OBVIOUS
      <3>1. c \in CheckpointType /\ disk[s] \in Content
        BY <2>2 DEF TypeOK
      <3>2. c.from \in Nat /\ c.to \in Nat /\ stamp.min \in Nat /\ stamp.committed \in Nat
        BY <3>1 DEF CheckpointType, TypeOK, StampType
      <3>3. c.stores = AffectedBetween(c.from, c.to)
        BY <2>2 DEF CheckpointsSound, Undoes
      <3>4. CASE s \in c.stores
        <4>1. restorer.todo = {} /\ journal.from = c.from
          BY <1>31, <2>1 DEF RecordStoresRestored, RestorerSound, RestoreSound
        <4>2. QED
          BY <4>1, <3>4, <2>1 DEF RestorerSound
      <3>5. CASE s \notin c.stores
        <4>1. stamp.min <= c.to
          BY <2>2, <3>2 DEF Undoes, NoStamp
        <4>2. \A k \in disk[s].edges : k \in Edges /\ k <= c.to /\ s \in Affected[k]
          BY <4>1, <3>1, <3>2 DEF DiskCovered, Within, Content, Edges
        <4>3. \A k \in disk[s].edges : ~(c.from < k)
          BY <4>2, <3>3, <3>5 DEF AffectedBetween
        <4>4. \A k \in disk[s].edges : k <= c.from
          BY <4>2, <4>3, <3>2 DEF Edges
        <4>5. QED
          BY <4>2, <4>4 DEF Within
      <3>6. QED
        BY <3>4, <3>5
    <2>5. IdleSound'
      BY <2>3 DEF IdleSound
    <2>6. ForwardSound'
      BY <2>3 DEF ForwardSound
    <2>7. RestoreSound'
      BY <2>2, <2>3, <2>4 DEF RestoreSound, RestorePhases, Undoes
    <2>8. RestorerSound'
      BY <2>1, <2>2, <2>3 DEF RestorerSound, Undoes
    <2>9. KernelSound' /\ PrunerSound'
      BY <1>31, RestorerAlone DEF RecordStoresRestored, RestorerStep
    <2>10. QED
      BY <2>5, <2>6, <2>7, <2>8, <2>9, <1>31, Frames DEF RecordStoresRestored
  <1>32. ASSUME Republish PROVE IInv'
    <2>1. restorer.pc = "republish" /\ UNCHANGED <<journal, disk, checkpoints, kernel, pruner>>
      BY <1>32 DEF Republish
    <2>2. /\ restorer.id \in Ids /\ Undoes(restorer.id) /\ kernel.pc = "off" /\ pruner.pc = "off"
          /\ 1 <= checkpoints[restorer.id].from
      BY <2>1 DEF RestorerSound, CheckpointsSound, Undoes
    <2>3. /\ journal.kind = "restore" /\ journal.id = restorer.id /\ journal.phase = "restore:stores_restored"
          /\ journal.from = checkpoints[restorer.id].from
      BY <2>1 DEF RestorerSound, RestoreSound
    <2>4. \/ stamp' = stamp /\ restorer'.pc = "off"
          \/ /\ stamp' = [min |-> journal.from, committed |-> journal.from]
             /\ restorer'.pc = "republished" /\ restorer'.id = restorer.id
      BY <1>32 DEF Republish, RestorerOff, TypeOK, RestorerType
    <2>5. stamp' = [min |-> journal.from, committed |-> journal.from] =>
             stamp'.min = journal.from /\ stamp'.committed = journal.from /\ stamp' # NoStamp
      BY <2>2, <2>3 DEF NoStamp
    <2>6. \A s \in Stores : Within(disk[s], s, journal.from)
      BY <2>3 DEF RestoreSound
    <2>7. \A i \in Ids : i = restorer.id => Undoes(i)'
      <3>1. checkpoints[restorer.id] \in CheckpointType
        BY <2>2 DEF TypeOK
      <3>2. checkpoints[restorer.id].from < checkpoints[restorer.id].to
        BY <2>2 DEF Undoes, CheckpointsSound
      <3>3. CASE stamp' = stamp
        BY <3>3, <2>1, <2>2, <2>4 DEF Undoes
      <3>4. CASE stamp' = [min |-> journal.from, committed |-> journal.from]
        BY <3>1, <3>2, <3>4, <2>1, <2>2, <2>3, <2>4, <2>5 DEF Undoes, CheckpointType
      <3>5. QED
        BY <3>3, <3>4, <2>4
    <2>8. StampSound'
      BY <2>2, <2>3, <2>4, <2>5 DEF StampSound, TypeOK, JournalType
    <2>9. DiskCovered'
      <3>1. CASE stamp' = stamp
        BY <3>1, <2>1, Frames
      <3>2. CASE stamp' = [min |-> journal.from, committed |-> journal.from]
        BY <3>2, <2>1, <2>5, <2>6 DEF DiskCovered
      <3>3. QED
        BY <3>1, <3>2, <2>4
    <2>10. IdleSound'
      BY <2>1, <2>3 DEF IdleSound
    <2>11. ForwardSound'
      BY <2>1, <2>3 DEF ForwardSound
    <2>12. RestoreSound'
      BY <2>1, <2>3, <2>6, <2>7 DEF RestoreSound, RestorePhases, Undoes
    <2>13. RestorerSound'
      BY <2>1, <2>2, <2>3, <2>4, <2>7 DEF RestorerSound, Undoes
    <2>14. KernelSound' /\ PrunerSound'
      BY <1>32, RestorerAlone DEF Republish, RestorerStep
    <2>15. QED
      BY <2>8, <2>9, <2>10, <2>11, <2>12, <2>13, <2>14, <1>32, Frames DEF Republish
  <1>33. ASSUME RecordRepublished PROVE IInv'
    <2>1. /\ restorer.pc = "republished" /\ restorer'.pc = "tail" /\ restorer'.id = restorer.id
          /\ restorer'.todo = restorer.todo /\ restorer'.cur = restorer.cur
      BY <1>33, RestorerStepFields DEF RecordRepublished
    <2>2. /\ restorer.id \in Ids /\ Undoes(restorer.id) /\ kernel.pc = "off" /\ pruner.pc = "off"
          /\ 1 <= checkpoints[restorer.id].from
      BY <2>1 DEF RestorerSound, CheckpointsSound, Undoes
    <2>3. /\ journal'.kind = "restore" /\ journal'.id = restorer.id /\ journal'.phase = "restore:metadata_republished"
          /\ journal'.from = checkpoints[restorer.id].from
          /\ UNCHANGED <<stamp, disk, checkpoints, started, kernel, pruner>>
      BY <1>33 DEF RecordRepublished, RestoreJournal
    <2>4. /\ stamp = [min |-> journal.from, committed |-> journal.from]
          /\ journal.from = checkpoints[restorer.id].from
          /\ \A s \in Stores : Within(disk[s], s, journal.from)
      BY <2>1 DEF RestorerSound, RestoreSound
    <2>5. IdleSound'
      BY <2>3 DEF IdleSound
    <2>6. ForwardSound'
      BY <2>3 DEF ForwardSound
    <2>7. RestoreSound'
      BY <2>2, <2>3, <2>4 DEF RestoreSound, RestorePhases, Undoes
    <2>8. RestorerSound'
      BY <2>1, <2>2, <2>3 DEF RestorerSound, Undoes
    <2>9. KernelSound' /\ PrunerSound'
      BY <1>33, RestorerAlone DEF RecordRepublished, RestorerStep
    <2>10. QED
      BY <2>5, <2>6, <2>7, <2>8, <2>9, <1>33, Frames DEF RecordRepublished
  <1>34. ASSUME AppendAudit PROVE IInv'
    <2>1. /\ restorer.pc = "tail" /\ restorer'.pc = "receipt" /\ restorer'.id = restorer.id
          /\ restorer'.todo = restorer.todo /\ restorer'.cur = restorer.cur
      BY <1>34, RestorerStepFields DEF AppendAudit
    <2>2. UNCHANGED <<stamp, journal, disk, checkpoints, kernel, pruner>>
      BY <1>34 DEF AppendAudit
    <2>3. RestorerSound'
      BY <2>1, <2>2 DEF RestorerSound, Undoes
    <2>4. KernelSound' /\ PrunerSound'
      BY <1>34, RestorerAlone DEF AppendAudit, RestorerStep
    <2>5. QED
      BY <2>3, <2>4, <1>34, Frames DEF AppendAudit
  <1>35. ASSUME WriteReceipt PROVE IInv'
    <2>1. /\ restorer.pc = "receipt" /\ restorer'.pc = "tail" /\ restorer'.id = restorer.id
          /\ restorer'.todo = restorer.todo /\ restorer'.cur = restorer.cur
      BY <1>35, RestorerStepFields DEF WriteReceipt
    <2>2. UNCHANGED <<stamp, journal, disk, checkpoints, kernel, pruner>>
      BY <1>35 DEF WriteReceipt
    <2>3. RestorerSound'
      BY <2>1, <2>2 DEF RestorerSound, Undoes
    <2>4. KernelSound' /\ PrunerSound'
      BY <1>35, RestorerAlone DEF WriteReceipt, RestorerStep
    <2>5. QED
      BY <2>3, <2>4, <1>35, Frames DEF WriteReceipt
  <1>36. ASSUME FinishRestore PROVE IInv'
    <2>1. journal' = NoJournal /\ journal'.kind = "none" /\ restorer'.pc = "off" /\ restorer.pc = "tail"
          /\ UNCHANGED stamp
      BY <1>36 DEF FinishRestore, NoJournal, RestorerOff
    <2>2. stamp.min = stamp.committed
      BY <2>1 DEF RestorerSound, RestoreSound
    <2>3. IdleSound'
      BY <2>1, <2>2 DEF IdleSound
    <2>4. ForwardSound'
      BY <2>1 DEF ForwardSound
    <2>5. RestoreSound'
      BY <2>1 DEF RestoreSound
    <2>6. RestorerSound'
      BY <2>1 DEF RestorerSound
    <2>7. KernelSound' /\ PrunerSound'
      BY <1>36, RestorerAlone DEF FinishRestore, RestorerStep
    <2>8. QED
      BY <2>3, <2>4, <2>5, <2>6, <2>7, <1>36, Frames DEF FinishRestore
  <1>37. ASSUME RestorerCrash PROVE IInv'
    <2>1. /\ restorer'.pc = "off" /\ restorer.pc # "off"
          /\ UNCHANGED <<stamp, journal, checkpoints, started, kernel, pruner>>
      BY <1>37 DEF RestorerCrash, RestorerOff
    <2>2. restorer.cur \subseteq Stores
      BY DEF TypeOK, RestorerType
    <2>3. \A s \in Stores : Within(Captured(s), s, stamp.min) /\ Captured(s) \in Content
      BY <2>1, CapturedCovered
    <2>4. \/ disk' = disk
          \/ /\ restorer.pc \in {"copy", "stores"}
             /\ \A s \in Stores : disk'[s].edges \in {disk[s].edges, Captured(s).edges}
      <3>1. CASE disk' = disk
        BY <3>1
      <3>2. ASSUME NEW s \in restorer.cur, restorer.pc = "copy",
                   disk' = [disk EXCEPT ![s] = [Captured(s) EXCEPT !.state = "torn"]]
            PROVE  \A q \in Stores : disk'[q].edges \in {disk[q].edges, Captured(q).edges}
        <4>1. [Captured(s) EXCEPT !.state = "torn"].edges = Captured(s).edges
          BY <3>2, <2>2, <2>3 DEF Content
        <4>2. QED
          BY <3>2, <4>1, <2>2 DEF TypeOK
      <3>3. ASSUME NEW s \in restorer.todo, restorer.pc = "stores",
                   disk' = [disk EXCEPT ![s].state = "torn"]
            PROVE  \A q \in Stores : disk'[q].edges = disk[q].edges
        BY <3>3 DEF TypeOK, RestorerType, Content
      <3>4. QED
        BY <1>37, <3>1, <3>2, <3>3 DEF RestorerCrash
    <2>5. DiskCovered'
      <3>1. CASE disk' = disk
        BY <3>1, <2>1, Frames
      <3>2. CASE \A s \in Stores : disk'[s].edges \in {disk[s].edges, Captured(s).edges}
        BY <3>2, <2>1, <2>3 DEF DiskCovered, Within
      <3>3. QED
        BY <3>1, <3>2, <2>4
    <2>6. RestoreSound'
      <3>1. CASE disk' = disk
        BY <3>1, <2>1, Frames
      <3>2. CASE restorer.pc \in {"copy", "stores"}
        <4>1. journal.phase = "restore:starting"
          BY <3>2 DEF RestorerSound
        <4>2. QED
          BY <4>1, <2>1 DEF RestoreSound, Undoes
      <3>3. QED
        BY <3>1, <3>2, <2>4
    <2>7. RestorerSound'
      BY <2>1 DEF RestorerSound
    <2>8. KernelSound' /\ PrunerSound'
      BY <1>37, RestorerAlone DEF RestorerCrash, RestorerStep
    <2>9. QED
      BY <2>5, <2>6, <2>7, <2>8, <1>37, Frames DEF RestorerCrash
  <1>38. ASSUME BeginPrune PROVE IInv'
    <2>1. /\ kernel.pc = "off" /\ restorer.pc = "off" /\ journal.kind # "restore"
          /\ pruner'.protected = IF journal.phase = "prepared" THEN 0 ELSE journal.id
          /\ UNCHANGED <<journal, kernel, restorer>>
      BY <1>38 DEF BeginPrune, Discipline, Restoring
    <2>2. PrunerSound'
      BY <2>1 DEF PrunerSound
    <2>3. KernelSound' /\ RestorerSound'
      BY <1>38 DEF Discipline, BeginPrune, KernelSound, RestorerSound, TransitionPcs, ForwardPhases
    <2>4. QED
      BY <2>2, <2>3, <1>38, Frames DEF BeginPrune
  <1>39. ASSUME NEW n \in 1 .. Retained, Prune(n) PROVE IInv'
    <2>1. /\ pruner.pc = "delete" /\ pruner'.pc = "off"
          /\ UNCHANGED <<stamp, journal, disk, started, kernel, restorer>>
      BY <1>39 DEF Prune, PrunerOff
    <2>2. \A i \in Ids : \/ checkpoints'[i] = checkpoints[i]
                         \/ ~checkpoints'[i].published /\ i # pruner.protected
      BY <1>39 DEF Prune, NoCheckpoint
    <2>3. journal.kind # "restore" /\ (journal.phase # "prepared" => pruner.protected = journal.id)
      BY <2>1 DEF PrunerSound
    <2>4. CheckpointsSound'
      BY <2>1, <2>2 DEF CheckpointsSound
    <2>5. ForwardSound'
      BY <2>1, <2>2, <2>3 DEF ForwardSound, Consistent
    <2>6. RestoreSound'
      BY <2>1, <2>3 DEF RestoreSound
    <2>7. KernelSound' /\ RestorerSound' /\ PrunerSound'
      BY <1>39, PrunerAlone DEF Prune, PrunerSound, PrunerOff
    <2>8. QED
      BY <2>4, <2>5, <2>6, <2>7, <1>39, Frames DEF Prune
  <1>40. CASE UNCHANGED vars
    BY <1>40, Frames DEF vars, KernelSound, RestorerSound, PrunerSound, Undoes, Within, Forward, Restoring
  <1>41. QED
    BY <1>1, <1>2, <1>3, <1>4, <1>5, <1>6, <1>7, <1>8, <1>9, <1>10, <1>11, <1>12, <1>13,
       <1>14, <1>15, <1>16, <1>17, <1>18, <1>19, <1>20, <1>21, <1>22, <1>23, <1>24, <1>25,
       <1>26, <1>27, <1>28, <1>29, <1>30, <1>31, <1>32, <1>33, <1>34, <1>35, <1>36, <1>37,
       <1>38, <1>39, <1>40
    DEF Next, Gate, Transition, Running, RestoreSteps, Pruning

LEMMA InductiveInit == Init => IInv
  <1> SUFFICES ASSUME Init PROVE IInv
    OBVIOUS
  <1> USE DEF Init, NoStamp, NoJournal, NoCheckpoint, KernelOff, RestorerOff, PrunerOff, Missing
  <1>1. TypeOK
    BY TypeInit
  <1>2. StampSound /\ IdleSound /\ ForwardSound /\ RestoreSound
    BY DEF StampSound, IdleSound, ForwardSound, RestoreSound
  <1>3. DiskCovered
    BY DEF DiskCovered, Within
  <1>4. CheckpointsSound
    BY DEF CheckpointsSound
  <1>5. KernelSound /\ RestorerSound /\ PrunerSound
    BY DEF KernelSound, RestorerSound, PrunerSound, TransitionPcs, ForwardPhases
  <1>6. QED
    BY <1>1, <1>2, <1>3, <1>4, <1>5 DEF IInv

LEMMA RestorerHasId == IInv => RestorerId
  BY DEF IInv, RestorerSound, RestorerId

\* Everything above holds of every reachable state of a disciplined operator.
THEOREM Invariance ==
  ASSUME Discipline
  PROVE  Spec => []IInv
  <1>1. IInv /\ [Next]_vars => IInv'
    BY InductiveStep, TypeStep, RestorerHasId DEF IInv
  <1>2. QED
    BY <1>1, InductiveInit, PTL DEF Spec

\* A crash of the kernel, the restorer or the pruner between any two durable
\* writes never leaves a store with a migration above the reader barrier.
THEOREM BarrierHolds ==
  ASSUME Discipline
  PROVE  Spec => []BarrierCovers
  <1>1. IInv => BarrierCovers
    BY DEF IInv, DiskCovered, Within, BarrierCovers
  <1>2. QED
    BY <1>1, Invariance, PTL

\* The journal of an interrupted transition is never mistaken for corruption.
THEOREM JournalRecognised ==
  ASSUME Discipline
  PROVE  Spec => []JournalMatchesStamp
  <1>1. IInv => JournalMatchesStamp
    BY DEF IInv, ForwardSound, JournalMatchesStamp
  <1>2. QED
    BY <1>1, Invariance, PTL

\* Retention never deletes the checkpoint an interrupted transition or restore
\* needs, and that checkpoint holds the source format.
THEOREM WayBack ==
  ASSUME Discipline
  PROVE  Spec => []CheckpointKept
  <1>1. ASSUME IInv PROVE CheckpointKept
    <2> SUFFICES ASSUME \/ journal.kind = "restore"
                        \/ journal.kind = "forward" /\ journal.phase # "prepared"
                 PROVE  /\ checkpoints[journal.id].published
                        /\ checkpoints[journal.id].from = journal.from
                        /\ \A s \in checkpoints[journal.id].stores :
                              checkpoints[journal.id].items[s].edges \subseteq EdgesAt(s, journal.from)
      BY DEF CheckpointKept
    <2>1. /\ journal.id \in Ids
          /\ checkpoints[journal.id].published
          /\ checkpoints[journal.id].from = journal.from
      BY <1>1 DEF IInv, ForwardSound, RestoreSound, Undoes
    <2>2. checkpoints[journal.id] \in CheckpointType
      BY <1>1, <2>1 DEF IInv, TypeOK
    <2>3. \A s \in Stores : /\ Within(checkpoints[journal.id].items[s], s, journal.from)
                            /\ checkpoints[journal.id].items[s] \in Content
      BY <1>1, <2>1, <2>2 DEF IInv, CheckpointsSound, CheckpointType
    <2>4. \A s \in Stores : checkpoints[journal.id].items[s].edges \subseteq EdgesAt(s, journal.from)
      BY <2>3 DEF Within, Content, EdgesAt
    <2>5. QED
      BY <2>1, <2>2, <2>4 DEF CheckpointType
  <1>2. QED
    BY <1>1, Invariance, PTL

\* No gate, refresh, override or transition lowers the stamp: an older build
\* that was locked out stays locked out until a restore lets it back in.
THEOREM StampNeverSlips ==
  ASSUME Discipline
  PROVE  Spec => StampLoweredOnlyByRestore
  <1>1. ASSUME IInv, [Next]_vars
        PROVE  [stamp'.min < stamp.min => Restoring /\ journal.phase # "restore:starting"]_vars
    <2> SUFFICES ASSUME stamp'.min < stamp.min
                 PROVE  Restoring /\ journal.phase # "restore:starting"
      OBVIOUS
    <2>1. stamp.min \in Nat /\ kernel.own \in Nat /\ kernel.from \in Nat
      BY <1>1, EpochAssumption DEF IInv, TypeOK, StampType, KernelType
    <2>2. stamp' # stamp
      BY <2>1
    <2>3. ~StampUnstamped
      BY <2>1 DEF StampUnstamped, NoStamp
    <2>4. ~Refresh
      BY <2>1 DEF Refresh
    <2>5. ~RaiseBarrier
      <3>1. SUFFICES ASSUME RaiseBarrier PROVE FALSE
        OBVIOUS
      <3>2. kernel.pc = "checkpoint_complete" /\ stamp'.min = kernel.own
        BY <3>1 DEF RaiseBarrier, KernelStep
      <3>3. stamp.min <= kernel.own
        BY <1>1, <2>1, <3>2 DEF IInv, KernelSound, TransitionPcs, ForwardPhases, NoStamp
      <3>4. QED
        BY <2>1, <3>2, <3>3
    <2>6. ~CommitStamp
      BY <1>1, <2>1 DEF CommitStamp, KernelStep, IInv, KernelSound
    <2>7. CASE Republish
      BY <1>1, <2>7, SMTT(30) DEF Republish, IInv, RestorerSound, Restoring
    <2>8. stamp' = stamp \/ StampUnstamped \/ Refresh \/ RaiseBarrier \/ CommitStamp \/ Republish
      BY <1>1
      DEF Next, Gate, Transition, Running, RestoreSteps, Pruning, vars, home, Launch,
          CleanCommittedTail, OpenDowngraded, OpenBaseline, Refuse, BeginTransition, Prepare,
          CreateCheckpoint, CompleteCheckpoint, RecordBarrier, StartMigrating, MigrateStore,
          NextEdge, RecordMigrated, RecordValidated, RecordCommitted, FinishTransition,
          Advertise, WriteStore, KernelCrash, BeginRestore, WriteRestoreJournal, SkipStore,
          QuarantineStore, CopyBack, Reconcile, RecordStoresRestored, RecordRepublished,
          AppendAudit, WriteReceipt, FinishRestore, RestorerCrash, BeginPrune, Prune, WriteJournal
    <2>9. QED
      BY <2>2, <2>3, <2>4, <2>5, <2>6, <2>7, <2>8
  <1>2. QED
    BY <1>1, Invariance, PTL DEF Spec, StampLoweredOnlyByRestore

\* The gate opens past no forward journal, and past a restore's only for a build of
\* the baseline epoch, which sees no higher one; the override opens neither.
THEOREM JournalIsHonoured ==
  ASSUME Discipline
  PROVE  Spec => GateHonoursJournal
  <1>1. ASSUME IInv, [Next]_vars
        PROVE  [kernel.pc = "gate" /\ kernel'.pc = "up" =>
                  journal.kind # "forward" /\ (kernel.own > 1 => ~Restoring)]_vars
    <2> SUFFICES ASSUME kernel.pc = "gate", kernel'.pc = "up"
                 PROVE  journal.kind # "forward" /\ (kernel.own > 1 => ~Restoring)
      OBVIOUS
    <2>1. CASE Inspection = "none"
      BY <2>1 DEF Inspection
    <2>2. CASE OpenBaseline
      <3>1. kernel.own = 1 /\ ~HigherEvidence
        BY <2>2 DEF OpenBaseline
      <3>2. ASSUME journal.kind = "forward" PROVE FALSE
        <4>1. /\ journal.from \in Nat /\ journal.to \in Nat
              /\ 1 <= journal.from /\ journal.from < journal.to /\ Consistent
          BY <1>1, <3>2, EpochAssumption DEF IInv, TypeOK, JournalType, ForwardSound
        <4>2. Inspection = "incomplete"
          BY <3>2, <4>1 DEF Inspection, Restoring
        <4> QED
          BY <3>1, <4>1, <4>2 DEF HigherEvidence
      <3> QED
        BY <3>1, <3>2
    <2>3. StampUnstamped \/ Refresh \/ OpenDowngraded => Inspection = "none"
      BY DEF StampUnstamped, Refresh, OpenDowngraded
    <2>4. StampUnstamped \/ Refresh \/ OpenDowngraded \/ OpenBaseline
      <3>1. kernel \in KernelType /\ kernel' # kernel
        BY <1>1 DEF IInv, TypeOK
      <3>2. ~Transition
        BY <3>1
        DEF Transition, Prepare, CreateCheckpoint, CompleteCheckpoint, RaiseBarrier,
            RecordBarrier, StartMigrating, MigrateStore, NextEdge, RecordMigrated,
            RecordValidated, CommitStamp, RecordCommitted, FinishTransition, WriteJournal,
            KernelStep
      <3>3. ~Running
        BY <3>1 DEF Running, Advertise, WriteStore, KernelCrash, KernelStep, KernelExit, KernelOff
      <3>4. ~RestoreSteps /\ ~RestorerCrash /\ ~Pruning
        BY <3>1
        DEF RestoreSteps, BeginRestore, WriteRestoreJournal, SkipStore, QuarantineStore,
            CopyBack, Reconcile, RecordStoresRestored, Republish, RecordRepublished,
            AppendAudit, WriteReceipt, FinishRestore, RestorerCrash, Pruning, BeginPrune, Prune
      <3>5. /\ ~CleanCommittedTail /\ ~Refuse /\ ~BeginTransition
            /\ \A own \in Builds, override \in BOOLEAN : ~Launch(own, override)
        <4>1. ~CleanCommittedTail
          BY <3>1 DEF CleanCommittedTail
        <4>2. ~Refuse
          BY DEF Refuse, KernelExit, KernelOff
        <4>3. ~BeginTransition
          <5>1. kernel' = [kernel EXCEPT !.pc = "begin",
                                         !.from = IF stamp = NoStamp THEN 1 ELSE stamp.committed]
                  => kernel'.pc = "begin"
            BY <3>1 DEF KernelType
          <5> QED
            BY <5>1 DEF BeginTransition
        <4>4. ASSUME NEW own \in Builds, NEW override \in BOOLEAN PROVE ~Launch(own, override)
          BY DEF Launch
        <4> QED
          BY <4>1, <4>2, <4>3, <4>4
      <3>6. ~UNCHANGED vars
        BY <3>1 DEF vars
      <3> QED
        BY <1>1, <3>2, <3>3, <3>4, <3>5, <3>6 DEF Next, Gate
    <2> QED
      BY <2>1, <2>2, <2>3, <2>4
  <1>2. QED
    BY <1>1, Invariance, PTL DEF Spec, GateHonoursJournal

=============================================================================
