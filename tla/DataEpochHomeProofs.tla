------------------------ MODULE DataEpochHomeProofs ------------------------
(* DataEpoch implements EpochHome, for every registry of stores, every       *)
(* migration path and every bound, and what follows from it for the home on  *)
(* disk.  The invariant of DataEpochProofs says which formats may be met at  *)
(* a moment; the one added here says exactly what each store holds.          *)
EXTENDS DataEpochHome, DataEpochProofs

\* The content of a store that is whole and in the format of epoch e.
Fits(c, s, e) ==
    /\ c.state \in {"ok", "missing"}
    /\ c.state = "ok" => c.edges = EdgesAt(s, e)

\* The home as the user has it is whole, and so is what is kept of it.
HomeFits == \A s \in Stores : Fits(HomeContent[s], s, HomeEpoch)

CheckpointsFit ==
    \A i \in Ids : checkpoints[i].published =>
        \A s \in checkpoints[i].stores : Fits(checkpoints[i].items[s], s, checkpoints[i].from)

\* What a store holds while it is migrated from what the checkpoint holds of it.
Between(c, d, s) ==
    /\ d.state = c.state /\ d.rev = c.rev
    /\ c.state = "missing" => d = c
    /\ c.state = "ok" => c.edges \subseteq d.edges /\ d.edges \subseteq EdgesAt(s, kernel.own)

Untouched == {"checkpoint_verified", "checkpoint_complete", "stamp_barrier", "barrier_raised"}
Rewriting == {"migrating", "migrated", "validated"}

TransitionFits ==
    /\ kernel.pc = "prepared" => ~checkpoints[kernel.id].published
    /\ kernel.pc \in Untouched =>
           \A s \in checkpoints[kernel.id].stores : disk[s] = checkpoints[kernel.id].items[s]
    /\ kernel.pc \in Rewriting =>
           \A s \in checkpoints[kernel.id].stores :
               Between(checkpoints[kernel.id].items[s], disk[s], s)
    /\ kernel.pc = "validated" =>
           \A s \in checkpoints[kernel.id].stores : Fits(disk[s], s, kernel.own)

\* A kernel that runs is of the home's epoch, or of the first on a home without one; beside
\* a restore only the first runs, and what it reads is in its format.
RunningFits ==
    /\ ~kernel.override
    /\ kernel.pc \in {"up", "live"} =>
           /\ journal.kind # "forward"
           /\ kernel.own = HomeEpoch \/ (HomeEpoch = 0 /\ kernel.own = 1)
           /\ Restoring => kernel.own = 1 /\ stamp.min <= 1

\* A store that a restore has put back, or that was edited since.
PutBack(c, d, s) ==
    d = c \/ (Fits(d, s, journal.from) /\ d.state = "ok" /\ d.rev > c.rev)

RestoreFits ==
    /\ Restoring /\ journal.phase # "restore:starting" =>
           \A s \in checkpoints[journal.id].stores :
               PutBack(checkpoints[journal.id].items[s], disk[s], s)
    /\ restorer.pc \in {"journal", "stores", "copy", "reconcile"} =>
           restorer.cur \subseteq checkpoints[restorer.id].stores
    /\ restorer.pc \in {"stores", "copy", "reconcile"} =>
           \A s \in checkpoints[restorer.id].stores \ restorer.todo :
               disk[s] = checkpoints[restorer.id].items[s]

Fitting == HomeFits /\ CheckpointsFit /\ TransitionFits /\ RunningFits /\ RestoreFits
-----------------------------------------------------------------------------
(* The formats.                                                              *)

\* No migration leads to the first epoch.
LEMMA FirstFormat == \A s \in Stores : EdgesAt(s, 0) = {} /\ EdgesAt(s, 1) = {}
  BY DEF EdgesAt, Edges

\* A store that a path does not rewrite has one format all along it.
LEMMA SameFormat ==
  ASSUME NEW s \in Stores, NEW from \in Nat, NEW to \in Nat, NEW e \in Nat,
         from <= e, e <= to, s \notin AffectedBetween(from, to)
  PROVE  EdgesAt(s, e) = EdgesAt(s, from)
  BY DEF EdgesAt, AffectedBetween, Edges

LEMMA HomeInit == Init => Home!Init
  <1> SUFFICES ASSUME Init PROVE Home!Init
    OBVIOUS
  <1>1. journal.kind = "none" /\ stamp.committed = 0
    BY DEF Init, NoJournal, NoStamp
  <1>2. HomeEpoch = 0
    BY <1>1 DEF HomeEpoch, Restoring
  <1>3. HomeContent = [s \in Stores |-> disk[s]]
    BY <1>1 DEF HomeContent, Covered
  <1>4. \A s \in Stores : disk[s] \in [state : {"ok", "missing"}, edges : {{}}, rev : {0}]
    BY DEF Init, Missing
  <1>5. HomeKept = {}
    BY DEF Init, HomeKept, NoCheckpoint
  <1>6. HomeContent \in [Stores -> [state : {"ok", "missing"}, edges : {{}}, rev : {0}]]
    BY <1>3, <1>4
  <1> QED
    BY <1>2, <1>5, <1>6 DEF Home!Init

LEMMA FittingInit == Init => Fitting
  <1> SUFFICES ASSUME Init PROVE Fitting
    OBVIOUS
  <1> USE DEF Init, NoStamp, NoJournal, NoCheckpoint, KernelOff, RestorerOff
  <1>1. journal.kind = "none" /\ stamp.committed = 0 /\ HomeEpoch = 0
    BY DEF HomeEpoch, Restoring
  <1>5. \A s \in Stores : HomeContent[s] = disk[s]
    BY <1>1 DEF HomeContent, Covered
  <1>6. \A s \in Stores : disk[s].state \in {"ok", "missing"} /\ disk[s].edges = {}
    BY DEF Missing
  <1>2. \A s \in Stores : HomeContent[s] = disk[s] /\ Fits(disk[s], s, 0)
    BY <1>5, <1>6, FirstFormat DEF Fits
  <1>3. HomeFits
    BY <1>1, <1>2 DEF HomeFits
  <1>4. CheckpointsFit /\ TransitionFits /\ RunningFits /\ RestoreFits
    BY DEF CheckpointsFit, TransitionFits, RunningFits, RestoreFits, Untouched, Rewriting, Restoring
  <1> QED
    BY <1>3, <1>4 DEF Fitting

-----------------------------------------------------------------------------
(* The home as the user has it.                                              *)

\* A home over no journal, or one of a transition that covers nothing, is what is on disk.
LEMMA BareHome ==
  ASSUME TypeOK,
         \/ journal.kind = "none"
         \/ journal.kind = "forward" /\ (journal.phase = "prepared" \/ stamp.committed = journal.to)
  PROVE  HomeContent = disk /\ HomeEpoch = stamp.committed
  <1>1. ~Restoring
    BY DEF Restoring
  <1>2. \A s \in Stores : ~Covered(s)
    BY <1>1 DEF Covered
  <1> QED
    BY <1>1, <1>2 DEF HomeContent, HomeEpoch, TypeOK

\* What the checkpoint of the journal holds lies over what is on disk.
Overlaid == [s \in Stores |-> IF s \in checkpoints[journal.id].stores
                              THEN checkpoints[journal.id].items[s] ELSE disk[s]]

LEMMA CoveredHome ==
  ASSUME \/ Restoring
         \/ journal.kind = "forward" /\ journal.phase # "prepared" /\ stamp.committed # journal.to
  PROVE  /\ HomeContent = Overlaid
         /\ HomeEpoch = IF Restoring THEN journal.from ELSE stamp.committed
  <1>1. \A s \in Stores : Covered(s) <=> s \in checkpoints[journal.id].stores
    BY DEF Covered, Restoring
  <1> QED
    BY <1>1 DEF HomeContent, HomeEpoch, Overlaid

\* The same of the home after a step.
LEMMA NextBareHome ==
  ASSUME disk' \in [Stores -> Content],
         \/ journal'.kind = "none"
         \/ /\ journal'.kind = "forward"
            /\ journal'.phase = "prepared" \/ stamp'.committed = journal'.to
  PROVE  HomeContent' = disk' /\ HomeEpoch' = stamp'.committed
  <1>1. ~Restoring'
    BY DEF Restoring
  <1>2. \A s \in Stores : ~Covered(s)'
    BY <1>1 DEF Covered
  <1> QED
    BY <1>1, <1>2 DEF HomeContent, HomeEpoch

LEMMA NextCoveredHome ==
  ASSUME \/ Restoring'
         \/ /\ journal'.kind = "forward" /\ journal'.phase # "prepared"
            /\ stamp'.committed # journal'.to
  PROVE  /\ HomeContent' = Overlaid'
         /\ HomeEpoch' = IF Restoring' THEN journal'.from ELSE stamp'.committed
  <1>1. \A s \in Stores : Covered(s)' <=> s \in checkpoints'[journal'.id].stores
    BY DEF Covered, Restoring
  <1> QED
    BY <1>1 DEF HomeContent, HomeEpoch, Overlaid

\* A step that shows the user nothing.
LEMMA NothingSeen ==
  ASSUME HomeContent' = HomeContent, HomeEpoch' = HomeEpoch, UNCHANGED checkpoints
  PROVE  /\ [Home!Next]_Home!vars
         /\ HomeFits => HomeFits'
         /\ CheckpointsFit => CheckpointsFit'
  <1>1. HomeKept' = HomeKept
    BY DEF HomeKept
  <1> QED
    BY <1>1 DEF Home!vars, HomeFits, CheckpointsFit, Fits

LEMMA SameHome ==
  ASSUME UNCHANGED <<stamp, journal, disk, checkpoints>>
  PROVE  /\ [Home!Next]_Home!vars
         /\ HomeFits => HomeFits'
         /\ CheckpointsFit => CheckpointsFit'
  <1>1. HomeContent' = HomeContent /\ HomeEpoch' = HomeEpoch
    BY DEF HomeContent, HomeEpoch, Covered, Restoring
  <1> QED
    BY <1>1, NothingSeen

\* What the parts of the invariant depend on.
LEMMA FitsFrames ==
  /\ CheckpointsFit /\ UNCHANGED checkpoints => CheckpointsFit'
  /\ kernel'.pc \notin TransitionPcs => TransitionFits'
  /\ RunningFits /\ kernel'.override = kernel.override /\ kernel'.pc \notin {"up", "live"}
        => RunningFits'
  /\ RunningFits /\ UNCHANGED <<kernel, journal, stamp>> => RunningFits'
  /\ RestoreFits /\ UNCHANGED <<journal, disk, checkpoints, restorer>> => RestoreFits'
  /\ journal'.kind # "restore" /\ restorer'.pc = "off" => RestoreFits'
  <1>1. kernel'.pc \notin TransitionPcs => TransitionFits'
    BY DEF TransitionFits, TransitionPcs, ForwardPhases, Untouched, Rewriting
  <1>2. RunningFits /\ UNCHANGED <<kernel, journal, stamp>> => RunningFits'
    BY DEF RunningFits, Restoring, HomeEpoch
  <1>3. RestoreFits /\ UNCHANGED <<journal, disk, checkpoints, restorer>> => RestoreFits'
    BY DEF RestoreFits, Restoring, PutBack, Fits
  <1>4. journal'.kind # "restore" /\ restorer'.pc = "off" => RestoreFits'
    BY DEF RestoreFits, Restoring
  <1>5. CheckpointsFit /\ UNCHANGED checkpoints => CheckpointsFit'
    BY DEF CheckpointsFit, Fits
  <1>6. RunningFits /\ kernel'.override = kernel.override /\ kernel'.pc \notin {"up", "live"}
        => RunningFits'
    BY DEF RunningFits
  <1> QED
    BY <1>1, <1>2, <1>3, <1>4, <1>5, <1>6

\* A step of the kernel keeps its override, and nothing else runs beside it.
LEMMA KernelStepKeeps ==
  ASSUME TypeOK, NEW before, NEW after, KernelStep(before, after)
  PROVE  kernel'.override = kernel.override /\ kernel'.pc = after
  BY DEF TypeOK, KernelType, KernelStep

LEMMA KernelRunsAlone ==
  ASSUME IInv, kernel.pc # "off"
  PROVE  restorer.pc = "off" /\ pruner.pc = "off"
  BY DEF IInv, KernelSound

-----------------------------------------------------------------------------
(* The gate.                                                                 *)

\* A launched kernel has no override, and has touched nothing.
LEMMA LaunchFits ==
  ASSUME ~AllowDowngrade, IInv, Fitting, NEW own \in Builds, NEW override \in BOOLEAN,
         Launch(own, override)
  PROVE  Fitting' /\ [Home!Next]_Home!vars
  <1>1. kernel'.pc = "gate" /\ ~kernel'.override
    BY DEF Launch, KernelOff
  <1>2. UNCHANGED <<stamp, journal, disk, checkpoints, restorer>>
    BY DEF Launch, home
  <1>3. TransitionFits' /\ RunningFits'
    BY <1>1 DEF TransitionFits, RunningFits, Untouched, Rewriting
  <1> QED
    BY <1>2, <1>3, SameHome, FitsFrames DEF Fitting

\* The journal of a committed transition covers nothing.
LEMMA CleanFits ==
  ASSUME IInv, Fitting, CleanCommittedTail
  PROVE  Fitting' /\ [Home!Next]_Home!vars
  <1>1. journal.kind = "forward" /\ stamp.committed = journal.to
    BY DEF CleanCommittedTail, CommittedTail, Inspection, Restoring, IInv, TypeOK, JournalType
  <1>2. /\ journal'.kind = "none" /\ kernel.pc = "gate"
        /\ UNCHANGED <<stamp, disk, checkpoints, kernel, restorer>>
    BY DEF CleanCommittedTail, NoJournal
  <1>4. HomeContent = disk /\ HomeEpoch = stamp.committed
    BY <1>1, BareHome DEF IInv
  <1>5. HomeContent' = disk /\ HomeEpoch' = stamp.committed
    BY <1>2, NextBareHome DEF IInv, TypeOK
  <1>6. restorer.pc = "off"
    BY <1>2, KernelRunsAlone
  <1>7. TransitionFits' /\ RunningFits' /\ RestoreFits'
    BY <1>2, <1>6, FitsFrames DEF Fitting, TransitionPcs, ForwardPhases
  <1> QED
    BY <1>2, <1>4, <1>5, <1>7, NothingSeen DEF Fitting

\* A home is numbered: a new one as its first kernel likes, one with data by the first epoch.
LEMMA StampFits ==
  ASSUME IInv, Fitting, StampUnstamped
  PROVE  Fitting' /\ [Home!Next]_Home!vars
  <1>1. /\ kernel.pc = "gate" /\ kernel'.pc = "up" /\ kernel'.own = kernel.own
        /\ kernel'.override = kernel.override
    BY KernelStepFields, KernelStepKeeps DEF StampUnstamped, IInv
  <1>2. journal.kind = "none" /\ stamp.committed = 0
    BY QuietHome DEF StampUnstamped, IInv, NoStamp
  <1>3. /\ UNCHANGED <<journal, disk, checkpoints, restorer>>
        /\ stamp' = [min |-> kernel.own, committed |-> kernel.own]
        /\ stamp'.committed = kernel.own /\ kernel.own \in Epochs
    BY <1>1 DEF StampUnstamped, IInv, KernelSound
  <1>4. HomeContent = disk /\ HomeEpoch = 0
    BY <1>2, BareHome DEF IInv
  <1>5. HomeContent' = disk /\ HomeEpoch' = kernel.own
    BY <1>2, <1>3, <1>4 DEF HomeContent, HomeEpoch, Covered, Restoring
  <1>6. kernel.own = 1 \/ \A s \in Stores : disk[s].state = "missing"
    BY DEF StampUnstamped, Classification, Missing
  <1>7. HomeKept' = HomeKept
    BY <1>3 DEF HomeKept
  <1>8. Home!Number
    BY <1>3, <1>4, <1>5, <1>6, <1>7 DEF Home!Number, Epochs
  <1>9. HomeFits'
    <2> SUFFICES ASSUME NEW s \in Stores PROVE Fits(disk[s], s, kernel.own)
      BY <1>5, <1>3 DEF HomeFits, Fits
    <2>1. Fits(disk[s], s, 0)
      BY <1>4 DEF Fitting, HomeFits
    <2> QED
      BY <2>1, <1>6, FirstFormat DEF Fits
  <1>10. RunningFits'
    BY <1>1, <1>2, <1>3, <1>5 DEF Fitting, RunningFits, Restoring
  <1>11. CheckpointsFit' /\ TransitionFits' /\ RestoreFits'
    BY <1>1, <1>2, <1>3, KernelRunsAlone, FitsFrames DEF Fitting, TransitionPcs, ForwardPhases
  <1> QED
    BY <1>8, <1>9, <1>10, <1>11 DEF Fitting, Home!Next

\* A kernel of the home's own epoch comes up; the stamp says what it said.
LEMMA RefreshFits ==
  ASSUME IInv, Fitting, Refresh
  PROVE  Fitting' /\ [Home!Next]_Home!vars
  <1>1. /\ kernel.pc = "gate" /\ kernel'.pc = "up" /\ kernel'.own = kernel.own
        /\ kernel'.override = kernel.override
    BY KernelStepFields, KernelStepKeeps DEF Refresh, IInv
  <1>2. journal.kind = "none" /\ stamp.min = stamp.committed /\ stamp.min = kernel.own
    BY QuietHome DEF Refresh, IInv
  <1>3. UNCHANGED <<stamp, journal, disk, checkpoints, restorer>>
    BY <1>2 DEF Refresh, IInv, TypeOK, StampType
  <1>4. HomeEpoch' = kernel.own
    BY <1>2, <1>3 DEF HomeEpoch, Restoring
  <1>5. RunningFits'
    BY <1>1, <1>2, <1>3, <1>4 DEF Fitting, RunningFits, Restoring
  <1> QED
    BY <1>1, <1>3, <1>5, SameHome, FitsFrames DEF Fitting, TransitionPcs, ForwardPhases

\* The override that this needs is never there.
LEMMA DowngradeFits ==
  ASSUME IInv, Fitting, OpenDowngraded
  PROVE  FALSE
  BY DEF OpenDowngraded, Fitting, RunningFits

\* A kernel of the first epoch that comes up in spite of a refusal finds the home in its
\* format: unstamped, or in a restore that leads back to the first epoch.
LEMMA BaselineFits ==
  ASSUME IInv, Fitting, OpenBaseline
  PROVE  Fitting' /\ [Home!Next]_Home!vars
  <1>1. /\ kernel'.pc = "up" /\ kernel'.own = 1 /\ kernel'.override = kernel.override
        /\ kernel.own = 1
    BY KernelStepFields, KernelStepKeeps DEF OpenBaseline, IInv
  <1>2. UNCHANGED <<stamp, journal, disk, checkpoints, restorer>>
    BY DEF OpenBaseline, home
  <1>3. stamp.min \in Nat /\ stamp.committed \in Nat /\ stamp.min <= 1
    BY EpochAssumption DEF OpenBaseline, HigherEvidence, IInv, TypeOK, StampType
  <1>4. journal.kind # "forward"
    <2> SUFFICES ASSUME journal.kind = "forward" PROVE FALSE
      OBVIOUS
    <2>1. Consistent /\ 1 <= journal.from /\ journal.from < journal.to
      BY DEF IInv, ForwardSound
    <2>2. Inspection = "incomplete"
      BY <2>1 DEF Inspection, Restoring
    <2>3. journal.from \in Nat /\ journal.to \in Nat
      BY EpochAssumption DEF IInv, TypeOK, JournalType
    <2> QED
      BY <2>1, <2>2, <2>3 DEF OpenBaseline, HigherEvidence
  <1>5. CASE journal.kind = "none"
    <2>1. stamp.min = stamp.committed
      BY <1>5 DEF IInv, IdleSound
    <2>2. Inspection = "none"
      BY <1>5, <2>1 DEF Inspection, Restoring
    <2>3. stamp = NoStamp
      BY <1>1, <1>3, <2>2 DEF OpenBaseline, Refused
    <2>4. HomeEpoch' = 0
      BY <1>2, <1>5, <2>3 DEF HomeEpoch, Restoring, NoStamp
    <2>5. RunningFits'
      BY <1>1, <1>2, <1>5, <2>4 DEF Fitting, RunningFits, Restoring
    <2> QED
      BY <1>1, <1>2, <2>5, SameHome, FitsFrames DEF Fitting, TransitionPcs, ForwardPhases
  <1>6. CASE Restoring
    <2>1. /\ journal.id \in Ids /\ Undoes(journal.id)
          /\ journal.from = checkpoints[journal.id].from
      BY <1>6 DEF IInv, RestoreSound, Restoring
    <2>2. 1 <= journal.from /\ journal.from \in Nat
      BY <2>1, EpochAssumption DEF IInv, CheckpointsSound, Undoes, TypeOK, JournalType
    <2>3. journal.from = 1
      BY <1>3, <2>1, <2>2 DEF Undoes, IInv, StampSound
    <2>4. HomeEpoch' = 1
      BY <1>2, <1>6, <2>3 DEF HomeEpoch, Restoring
    <2>5. RunningFits'
      BY <1>1, <1>2, <1>3, <1>4, <2>4 DEF Fitting, RunningFits
    <2> QED
      BY <1>1, <1>2, <2>5, SameHome, FitsFrames DEF Fitting, TransitionPcs, ForwardPhases
  <1> QED
    BY <1>4, <1>5, <1>6 DEF Restoring, IInv, TypeOK, JournalType

LEMMA RefuseFits ==
  ASSUME IInv, Fitting, Refuse
  PROVE  Fitting' /\ [Home!Next]_Home!vars
  <1>1. kernel'.pc = "off" /\ ~kernel'.override
    BY DEF Refuse, KernelExit, KernelOff
  <1>2. UNCHANGED <<stamp, journal, disk, checkpoints, restorer>>
    BY DEF Refuse, home
  <1>3. TransitionFits' /\ RunningFits'
    BY <1>1 DEF TransitionFits, RunningFits, Untouched, Rewriting
  <1> QED
    BY <1>2, <1>3, SameHome, FitsFrames DEF Fitting

LEMMA BeginFits ==
  ASSUME IInv, Fitting, BeginTransition
  PROVE  Fitting' /\ [Home!Next]_Home!vars
  <1>1. kernel'.pc = "begin" /\ kernel'.override = kernel.override
    BY DEF BeginTransition, IInv, TypeOK, KernelType
  <1>2. UNCHANGED <<stamp, journal, disk, checkpoints, restorer>>
    BY DEF BeginTransition, home
  <1>3. TransitionFits' /\ RunningFits'
    BY <1>1, FitsFrames DEF TransitionFits, Fitting, Untouched, Rewriting
  <1> QED
    BY <1>2, <1>3, SameHome, FitsFrames DEF Fitting

-----------------------------------------------------------------------------
(* The transition.                                                           *)

\* In a transition the journal is the kernel's own, and names its checkpoint.
LEMMA OwnCheckpoint ==
  ASSUME IInv, kernel.pc \in TransitionPcs \ {"begin", "prepared", "checkpoint_verified"}
  PROVE  /\ kernel.id \in Ids /\ checkpoints[kernel.id].published
         /\ journal.kind = "forward" /\ journal.phase # "prepared" /\ journal.id = kernel.id
         /\ journal.from = kernel.from /\ journal.to = kernel.own
         /\ checkpoints[kernel.id].from = kernel.from /\ checkpoints[kernel.id].to = kernel.own
         /\ checkpoints[kernel.id].stores = AffectedBetween(kernel.from, kernel.own)
  <1>1. /\ kernel.id \in Ids
        /\ journal.kind = "forward" /\ journal.phase = PhaseAt(kernel.pc)
        /\ journal.id = kernel.id /\ journal.from = kernel.from /\ journal.to = kernel.own
    BY OwnJournal DEF IInv
  <1>2. journal.phase # "prepared"
    BY <1>1 DEF PhaseAt
  <1>3. /\ checkpoints[kernel.id].published
        /\ checkpoints[kernel.id].from = kernel.from /\ checkpoints[kernel.id].to = kernel.own
    BY <1>1, <1>2 DEF IInv, ForwardSound
  <1> QED
    BY <1>1, <1>2, <1>3 DEF IInv, CheckpointsSound

\* Its epochs, and what the stamp has committed before the commit.
LEMMA OwnEpochs ==
  ASSUME IInv, kernel.pc \in TransitionPcs
  PROVE  /\ kernel.from \in Epochs /\ kernel.own \in Epochs /\ kernel.from < kernel.own
         /\ stamp = NoStamp => kernel.from = 1
  <1>1. kernel.pc # "off"
    BY DEF TransitionPcs, ForwardPhases
  <1> QED
    BY <1>1, EpochAssumption DEF IInv, KernelSound, TypeOK, KernelType, Epochs

SourcePcs == {"begin", "prepared", "checkpoint_verified", "checkpoint_complete"}
BarrierPcs == {"stamp_barrier", "barrier_raised", "migrating", "migrated", "validated"}

LEMMA OwnStamp ==
  ASSUME IInv
  PROVE  /\ kernel.pc \in SourcePcs =>
                \/ stamp = NoStamp /\ stamp.committed = 0 /\ kernel.from = 1
                \/ stamp # NoStamp /\ stamp.committed = kernel.from
         /\ kernel.pc \in BarrierPcs => stamp.committed = kernel.from /\ stamp.min = kernel.own
  <1>1. ASSUME kernel.pc \in SourcePcs
        PROVE  \/ stamp = NoStamp /\ stamp.committed = 0 /\ kernel.from = 1
               \/ stamp # NoStamp /\ stamp.committed = kernel.from
    <2>1. kernel.pc \in TransitionPcs
      BY <1>1 DEF SourcePcs, TransitionPcs, ForwardPhases
    <2>2. stamp = NoStamp \/ stamp = [min |-> kernel.from, committed |-> kernel.from]
      BY <1>1 DEF IInv, KernelSound, SourcePcs
    <2> QED
      BY <2>1, <2>2, OwnEpochs DEF NoStamp
  <1>2. ASSUME kernel.pc \in BarrierPcs
        PROVE  stamp.committed = kernel.from /\ stamp.min = kernel.own
    <2>1. CASE kernel.pc \in {"stamp_barrier", "validated"}
      BY <2>1 DEF IInv, KernelSound
    <2>2. CASE kernel.pc \in {"barrier_raised", "migrating", "migrated"}
      <3>1. /\ journal.kind = "forward" /\ journal.phase = kernel.pc
            /\ journal.from = kernel.from /\ journal.to = kernel.own
        BY <2>2, OwnJournal DEF IInv, TransitionPcs, ForwardPhases, PhaseAt
      <3> QED
        BY <2>2, <3>1 DEF IInv, ForwardSound, Consistent
    <2> QED
      BY <1>2, <2>1, <2>2 DEF BarrierPcs
  <1> QED
    BY <1>1, <1>2

\* Over what the stamp has committed, the home reads as over the source epoch.
LEMMA SourceFits ==
  ASSUME IInv, kernel.pc \in SourcePcs, NEW s \in Stores, NEW c, Fits(c, s, stamp.committed)
  PROVE  Fits(c, s, kernel.from)
  BY OwnStamp, FirstFormat DEF Fits

LEMMA PrepareFits ==
  ASSUME IInv, Fitting, Prepare
  PROVE  Fitting' /\ [Home!Next]_Home!vars
  <1>1. /\ kernel.pc = "begin" /\ kernel'.pc = "prepared" /\ kernel'.id = started + 1
        /\ kernel'.override = kernel.override
    BY DEF Prepare, IInv, TypeOK, KernelType
  <1>2. journal.kind = "none" /\ journal'.kind = "forward" /\ journal'.phase = "prepared"
    BY <1>1 DEF Prepare, Forward, IInv, KernelSound, NoJournal
  <1>3. UNCHANGED <<stamp, disk, checkpoints, restorer>>
    BY DEF Prepare
  <1>4. started \in Nat /\ started + 1 \in Ids
    BY BoundAssumption DEF Prepare, IInv, TypeOK, Ids
  <1>5. ~checkpoints[started + 1].published
    BY <1>4 DEF IInv, CheckpointsSound
  <1>6. HomeContent = disk /\ HomeEpoch = stamp.committed
    BY <1>2, BareHome DEF IInv
  <1>7. HomeContent' = disk /\ HomeEpoch' = stamp.committed
    BY <1>2, <1>3, NextBareHome DEF IInv, TypeOK
  <1>8. TransitionFits'
    BY <1>1, <1>3, <1>5 DEF TransitionFits, Untouched, Rewriting
  <1>9. RunningFits' /\ RestoreFits'
    BY <1>1, <1>2, <1>3, KernelRunsAlone, FitsFrames DEF Fitting
  <1> QED
    BY <1>3, <1>6, <1>7, <1>8, <1>9, NothingSeen DEF Fitting

\* The checkpoint saves the stores of the path as the user has them.
LEMMA CheckpointFits ==
  ASSUME IInv, Fitting, CreateCheckpoint
  PROVE  Fitting' /\ [Home!Next]_Home!vars
  <1> DEFINE scope == AffectedBetween(kernel.from, kernel.own)
             saved == [from |-> kernel.from, stores |-> [s \in scope |-> disk[s]]]
  <1>1. /\ kernel.pc = "prepared" /\ kernel'.pc = "checkpoint_verified"
        /\ kernel'.id = kernel.id /\ kernel'.override = kernel.override
    BY KernelStepFields, KernelStepKeeps DEF CreateCheckpoint, IInv
  <1>2. /\ kernel.id \in Ids /\ journal.kind = "forward" /\ journal.phase = "prepared"
        /\ journal.id = kernel.id
    BY <1>1, OwnJournal DEF IInv, TransitionPcs, ForwardPhases, PhaseAt
  <1>3. UNCHANGED <<stamp, journal, disk, restorer>>
    BY DEF CreateCheckpoint
  <1>4. checkpoints' = [checkpoints EXCEPT ![kernel.id] =
            [published |-> TRUE, from |-> kernel.from, to |-> kernel.own, stores |-> scope,
             items |-> [s \in Stores |-> IF s \in scope THEN disk[s] ELSE Missing]]]
    BY DEF CreateCheckpoint
  <1>5. \A i \in Ids : i # kernel.id => checkpoints'[i] = checkpoints[i]
    BY <1>4 DEF IInv, TypeOK
  <1>6. scope \subseteq Stores
    BY DEF AffectedBetween
  <1>7. /\ checkpoints'[kernel.id].published /\ checkpoints'[kernel.id].from = kernel.from
        /\ checkpoints'[kernel.id].stores = scope
        /\ \A s \in scope : checkpoints'[kernel.id].items[s] = disk[s]
    BY <1>2, <1>4, <1>6 DEF IInv, TypeOK
  <1>8. ~checkpoints[kernel.id].published
    BY <1>1 DEF Fitting, TransitionFits
  <1> HIDE DEF scope
  <1>9. HomeContent = disk /\ HomeEpoch = stamp.committed
    BY <1>2, BareHome DEF IInv
  <1>10. HomeContent' = disk /\ HomeEpoch' = stamp.committed
    BY <1>2, <1>3, NextBareHome DEF IInv, TypeOK
  <1>11. HomeKept' = HomeKept \cup {saved}
    <2>1. \A i \in Ids : checkpoints'[i].published <=> checkpoints[i].published \/ i = kernel.id
      BY <1>5, <1>7, <1>8
    <2>2. [from |-> checkpoints'[kernel.id].from,
           stores |-> [s \in checkpoints'[kernel.id].stores |-> checkpoints'[kernel.id].items[s]]]
             = saved
      BY <1>7
    <2> QED
      BY <1>2, <1>5, <1>8, <2>1, <2>2 DEF HomeKept
  <1>12. kernel.from = IF HomeEpoch = 0 THEN 1 ELSE HomeEpoch
    <2>1. kernel.pc \in SourcePcs /\ kernel.pc \in TransitionPcs
      BY <1>1 DEF SourcePcs, TransitionPcs, ForwardPhases
    <2> QED
      BY <1>9, <2>1, OwnStamp, OwnEpochs DEF Epochs
  <1>13. Home!Save
    <2>1. saved = [from |-> IF HomeEpoch = 0 THEN 1 ELSE HomeEpoch,
                   stores |-> [s \in scope |-> HomeContent[s]]]
      BY <1>9, <1>12
    <2> QED
      BY <1>6, <1>9, <1>10, <1>11, <2>1 DEF Home!Save
  <1>14. CheckpointsFit'
    <2>1. \A s \in scope : Fits(disk[s], s, kernel.from)
      BY <1>1, <1>6, <1>9, SourceFits DEF SourcePcs, Fitting, HomeFits
    <2>2. ASSUME NEW i \in Ids, checkpoints'[i].published, NEW s \in checkpoints'[i].stores
          PROVE  Fits(checkpoints'[i].items[s], s, checkpoints'[i].from)
      BY <1>5, <1>7, <2>1, <2>2 DEF Fitting, CheckpointsFit
    <2> QED
      BY <2>2 DEF CheckpointsFit, Fits
  <1>15. TransitionFits'
    BY <1>1, <1>3, <1>7 DEF TransitionFits, Untouched, Rewriting
  <1>16. HomeFits'
    BY <1>9, <1>10 DEF Fitting, HomeFits, Fits
  <1>17. RunningFits' /\ RestoreFits'
    BY <1>1, <1>2, <1>3, KernelRunsAlone, FitsFrames DEF Fitting
  <1> QED
    BY <1>13, <1>14, <1>15, <1>16, <1>17 DEF Fitting, Home!Next


\* What a kernel that writes its journal leaves alone.
LEMMA WritesJournal ==
  ASSUME IInv, NEW before, NEW phase, WriteJournal(before, phase)
  PROVE  /\ kernel.pc = before /\ kernel'.pc = phase /\ kernel'.id = kernel.id
         /\ kernel'.own = kernel.own /\ kernel'.from = kernel.from
         /\ kernel'.override = kernel.override
         /\ journal'.kind = "forward" /\ journal'.phase = phase /\ journal'.id = kernel.id
         /\ journal'.from = kernel.from /\ journal'.to = kernel.own
         /\ UNCHANGED <<stamp, disk, checkpoints, restorer>>
  BY KernelStepFields, KernelStepKeeps, WriteJournalFields DEF WriteJournal, IInv

\* The checkpoint covers its stores from now on, and they are as it holds them.
LEMMA CompleteFits ==
  ASSUME IInv, Fitting, CompleteCheckpoint
  PROVE  Fitting' /\ [Home!Next]_Home!vars
  <1>1. /\ kernel.pc = "checkpoint_verified" /\ kernel'.pc = "checkpoint_complete"
        /\ kernel'.id = kernel.id /\ kernel'.override = kernel.override
        /\ journal'.kind = "forward" /\ journal'.phase = "checkpoint_complete"
        /\ journal'.id = kernel.id /\ journal'.to = kernel.own
        /\ UNCHANGED <<stamp, disk, checkpoints, restorer>>
    BY WritesJournal DEF CompleteCheckpoint
  <1>2. kernel.pc \in SourcePcs /\ kernel.pc \in TransitionPcs \ {"begin"}
    BY <1>1 DEF SourcePcs, TransitionPcs, ForwardPhases
  <1>3. journal.kind = "forward" /\ journal.phase = "prepared" /\ journal.id = kernel.id
    BY <1>1, <1>2, OwnJournal DEF IInv, PhaseAt
  <1>4. \A s \in checkpoints[kernel.id].stores : disk[s] = checkpoints[kernel.id].items[s]
    BY <1>1 DEF Fitting, TransitionFits, Untouched
  <1>5. stamp.committed # kernel.own
    BY <1>2, OwnStamp, OwnEpochs DEF Epochs
  <1>6. HomeContent = disk /\ HomeEpoch = stamp.committed
    BY <1>3, BareHome DEF IInv
  <1>7. HomeContent' = Overlaid' /\ HomeEpoch' = stamp.committed
    BY <1>1, <1>5, NextCoveredHome DEF Restoring
  <1>8. Overlaid' = disk
    BY <1>1, <1>4 DEF Overlaid, IInv, TypeOK
  <1>9. TransitionFits'
    BY <1>1, <1>4 DEF TransitionFits, Untouched, Rewriting
  <1>10. RunningFits' /\ RestoreFits'
    BY <1>1, KernelRunsAlone, FitsFrames DEF Fitting
  <1> QED
    BY <1>1, <1>6, <1>7, <1>8, <1>9, <1>10, NothingSeen DEF Fitting

\* Until the commit, what a step of the transition does to the stores it covers is not seen.
LEMMA CoveredStep ==
  ASSUME IInv, kernel.pc \in (SourcePcs \cup BarrierPcs)
                                 \ {"begin", "prepared", "checkpoint_verified"},
         UNCHANGED checkpoints,
         journal'.kind = "forward", journal'.phase # "prepared", journal'.id = journal.id,
         journal'.to = journal.to, stamp'.committed \in {0, kernel.from},
         \A s \in Stores \ checkpoints[kernel.id].stores : disk'[s] = disk[s]
  PROVE  /\ HomeContent' = HomeContent
         /\ HomeEpoch = stamp.committed /\ HomeEpoch' = stamp'.committed
  <1>1. kernel.pc \in TransitionPcs \ {"begin", "prepared", "checkpoint_verified"}
    BY DEF SourcePcs, BarrierPcs, TransitionPcs, ForwardPhases
  <1>2. /\ journal.kind = "forward" /\ journal.phase # "prepared" /\ journal.id = kernel.id
        /\ journal.to = kernel.own /\ kernel.id \in Ids
    BY <1>1, OwnCheckpoint
  <1>3. kernel.own \notin {0, kernel.from}
    BY <1>1, OwnEpochs DEF Epochs
  <1>4. stamp.committed \in {0, kernel.from}
    BY OwnStamp
  <1>5. HomeContent = Overlaid /\ HomeEpoch = stamp.committed
    BY <1>2, <1>3, <1>4, CoveredHome DEF Restoring
  <1>6. HomeContent' = Overlaid' /\ HomeEpoch' = stamp'.committed
    BY <1>2, <1>3, NextCoveredHome DEF Restoring
  <1>7. Overlaid' = Overlaid
    BY <1>2 DEF Overlaid
  <1> QED
    BY <1>5, <1>6, <1>7

\* The barrier numbers a home that had no number.
LEMMA BarrierFits ==
  ASSUME IInv, Fitting, RaiseBarrier
  PROVE  Fitting' /\ [Home!Next]_Home!vars
  <1>1. /\ kernel.pc = "checkpoint_complete" /\ kernel'.pc = "stamp_barrier"
        /\ kernel'.id = kernel.id /\ kernel'.override = kernel.override
    BY KernelStepFields, KernelStepKeeps DEF RaiseBarrier, IInv
  <1>2. UNCHANGED <<journal, disk, checkpoints, restorer>> /\ stamp'.committed = kernel.from
    BY DEF RaiseBarrier
  <1>3. kernel.pc \in TransitionPcs \ {"begin", "prepared", "checkpoint_verified"}
    BY <1>1 DEF TransitionPcs, ForwardPhases
  <1>4. journal.kind = "forward" /\ journal.phase # "prepared"
    BY <1>3, OwnCheckpoint
  <1>5. HomeContent' = HomeContent /\ HomeEpoch = stamp.committed /\ HomeEpoch' = kernel.from
    BY <1>1, <1>2, <1>4, CoveredStep DEF SourcePcs
  <1>6. HomeEpoch = kernel.from \/ (HomeEpoch = 0 /\ kernel.from = 1)
    BY <1>1, <1>5, OwnStamp DEF SourcePcs
  <1>7. HomeKept' = HomeKept
    BY <1>2 DEF HomeKept
  <1>8. [Home!Next]_Home!vars
    <2>1. CASE HomeEpoch = kernel.from
      BY <1>5, <1>7, <2>1 DEF Home!vars
    <2>2. CASE HomeEpoch = 0 /\ kernel.from = 1
      <3>1. Home!Number
        BY <1>5, <1>7, <2>2, EpochAssumption DEF Home!Number
      <3> QED
        BY <3>1 DEF Home!Next
    <2> QED
      BY <1>6, <2>1, <2>2
  <1>9. HomeFits'
    BY <1>5, <1>6, FirstFormat DEF Fitting, HomeFits, Fits
  <1>10. TransitionFits'
    BY <1>1, <1>2 DEF Fitting, TransitionFits, Untouched, Rewriting
  <1>11. CheckpointsFit' /\ RunningFits' /\ RestoreFits'
    BY <1>1, <1>2, <1>4, KernelRunsAlone, FitsFrames DEF Fitting
  <1> QED
    BY <1>8, <1>9, <1>10, <1>11 DEF Fitting

\* A step of the transition between the barrier and the commit.
LEMMA BehindBarrier ==
  ASSUME IInv, Fitting, kernel.pc \in BarrierPcs \ {"validated"},
         kernel'.pc \in BarrierPcs \ {"stamp_barrier"}, kernel'.override = kernel.override,
         UNCHANGED <<stamp, checkpoints, restorer>>,
         journal'.kind = "forward", journal'.phase # "prepared", journal'.id = journal.id,
         journal'.to = journal.to,
         \A s \in Stores \ checkpoints[kernel.id].stores : disk'[s] = disk[s],
         TransitionFits'
  PROVE  Fitting' /\ [Home!Next]_Home!vars
  <1>1. HomeContent' = HomeContent /\ HomeEpoch' = HomeEpoch
    <2>1. kernel.pc \in (SourcePcs \cup BarrierPcs) \ {"begin", "prepared", "checkpoint_verified"}
      BY DEF SourcePcs, BarrierPcs
    <2>2. stamp'.committed \in {0, kernel.from}
      BY OwnStamp
    <2> QED
      BY <2>1, <2>2, CoveredStep
  <1>2. kernel.pc # "off" /\ kernel'.pc \notin {"up", "live"}
    BY DEF BarrierPcs
  <1>3. RunningFits' /\ RestoreFits'
    BY <1>2, KernelRunsAlone, FitsFrames DEF Fitting
  <1> QED
    BY <1>1, <1>3, NothingSeen DEF Fitting

LEMMA RecordBarrierFits ==
  ASSUME IInv, Fitting, RecordBarrier
  PROVE  Fitting' /\ [Home!Next]_Home!vars
  <1>1. /\ kernel.pc = "stamp_barrier" /\ kernel'.pc = "barrier_raised"
        /\ kernel'.id = kernel.id /\ kernel'.override = kernel.override
        /\ journal'.kind = "forward" /\ journal'.phase = "barrier_raised"
        /\ journal'.id = kernel.id /\ journal'.to = kernel.own
        /\ UNCHANGED <<stamp, disk, checkpoints, restorer>>
    BY WritesJournal DEF RecordBarrier
  <1>2. journal.id = kernel.id /\ journal.to = kernel.own
    BY <1>1, OwnCheckpoint DEF TransitionPcs, ForwardPhases
  <1>3. TransitionFits'
    BY <1>1 DEF Fitting, TransitionFits, Untouched, Rewriting
  <1> QED
    BY <1>1, <1>2, <1>3, BehindBarrier DEF BarrierPcs

\* What is untouched lies between the formats of the two epochs.
LEMMA MigratingFits ==
  ASSUME IInv, Fitting, StartMigrating
  PROVE  Fitting' /\ [Home!Next]_Home!vars
  <1>1. /\ kernel.pc = "barrier_raised" /\ kernel'.pc = "migrating"
        /\ kernel'.id = kernel.id /\ kernel'.override = kernel.override
        /\ kernel'.own = kernel.own
    BY DEF StartMigrating, IInv, TypeOK, KernelType
  <1>2. /\ journal'.kind = "forward" /\ journal'.phase = "migrating"
        /\ journal'.id = kernel.id /\ journal'.to = kernel.own
        /\ UNCHANGED <<stamp, disk, checkpoints, restorer>>
    BY WriteJournalFields DEF StartMigrating
  <1>3. /\ journal.id = kernel.id /\ journal.to = kernel.own /\ kernel.id \in Ids
        /\ checkpoints[kernel.id].published /\ checkpoints[kernel.id].from = kernel.from
        /\ checkpoints[kernel.id].stores \subseteq Stores
    BY <1>1, OwnCheckpoint DEF TransitionPcs, ForwardPhases, AffectedBetween
  <1>4. kernel.from \in Nat /\ kernel.own \in Nat /\ kernel.from < kernel.own
    BY <1>1, OwnEpochs DEF TransitionPcs, ForwardPhases, Epochs
  <1>5. ASSUME NEW s \in checkpoints[kernel.id].stores
        PROVE  Between(checkpoints[kernel.id].items[s], disk[s], s)'
    <2>1. disk[s] = checkpoints[kernel.id].items[s]
      BY <1>1 DEF Fitting, TransitionFits, Untouched
    <2>2. Fits(checkpoints[kernel.id].items[s], s, kernel.from)
      BY <1>3 DEF Fitting, CheckpointsFit
    <2>3. EdgesAt(s, kernel.from) \subseteq EdgesAt(s, kernel.own)
      BY <1>4 DEF EdgesAt, Edges
    <2> QED
      BY <1>1, <1>2, <2>1, <2>2, <2>3 DEF Between, Fits
  <1>6. TransitionFits'
    BY <1>1, <1>2, <1>5 DEF TransitionFits, Untouched, Rewriting
  <1> QED
    BY <1>1, <1>2, <1>3, <1>6, BehindBarrier DEF BarrierPcs

\* A migration works on a store that the checkpoint covers.
LEMMA EdgeCovered ==
  ASSUME IInv, kernel.pc = "migrating", InPath, NEW s \in Affected[kernel.edge]
  PROVE  /\ s \in checkpoints[kernel.id].stores /\ s \in Stores
         /\ kernel.edge \in EdgesAt(s, kernel.own)
  <1>1. kernel.edge \in Nat /\ kernel.from < kernel.edge
    BY DEF IInv, KernelSound
  <1>2. /\ kernel.own \in Epochs
        /\ checkpoints[kernel.id].stores = AffectedBetween(kernel.from, kernel.own)
    BY OwnCheckpoint, OwnEpochs DEF TransitionPcs, ForwardPhases
  <1>3. kernel.edge \in Edges /\ kernel.edge <= kernel.own
    BY <1>1, <1>2, EpochAssumption DEF InPath, Edges, Epochs
  <1> QED
    BY <1>1, <1>2, <1>3, EpochAssumption DEF AffectedBetween, EdgesAt

LEMMA MigrateFits ==
  ASSUME IInv, Fitting, NEW s \in Stores, MigrateStore(s)
  PROVE  Fitting' /\ [Home!Next]_Home!vars
  <1>1. /\ kernel.pc = "migrating" /\ InPath /\ s \in Affected[kernel.edge]
        /\ disk[s].state = "ok" /\ disk' = [disk EXCEPT ![s].edges = @ \cup {kernel.edge}]
        /\ UNCHANGED <<stamp, journal, checkpoints, kernel, restorer>>
    BY DEF MigrateStore
  <1>2. s \in checkpoints[kernel.id].stores /\ kernel.edge \in EdgesAt(s, kernel.own)
    BY <1>1, EdgeCovered
  <1>3. disk \in [Stores -> Content] /\ disk[s] \in Content
    BY DEF IInv, TypeOK
  <1>4. \A q \in Stores \ {s} : disk'[q] = disk[q]
    BY <1>1, <1>3
  <1>5. /\ disk'[s].state = "ok" /\ disk'[s].rev = disk[s].rev
        /\ disk'[s].edges = disk[s].edges \cup {kernel.edge}
    BY <1>1, <1>3 DEF Content
  <1>6. /\ journal.kind = "forward" /\ journal.phase # "prepared"
        /\ checkpoints[kernel.id].stores \subseteq Stores
    BY <1>1, OwnCheckpoint DEF TransitionPcs, ForwardPhases, AffectedBetween
  <1>7. ASSUME NEW q \in checkpoints[kernel.id].stores
        PROVE  Between(checkpoints[kernel.id].items[q], disk[q], q)'
    <2>1. Between(checkpoints[kernel.id].items[q], disk[q], q)
      BY <1>1 DEF Fitting, TransitionFits, Rewriting
    <2>2. CASE q = s
      BY <1>1, <1>2, <1>5, <2>1, <2>2 DEF Between
    <2>3. CASE q # s
      BY <1>1, <1>4, <1>6, <2>1, <2>3 DEF Between
    <2> QED
      BY <2>2, <2>3
  <1>8. TransitionFits'
    BY <1>1, <1>7 DEF TransitionFits, Untouched, Rewriting
  <1> QED
    BY <1>1, <1>2, <1>4, <1>6, <1>8, BehindBarrier DEF BarrierPcs

LEMMA NextEdgeFits ==
  ASSUME IInv, Fitting, NextEdge
  PROVE  Fitting' /\ [Home!Next]_Home!vars
  <1>1. /\ kernel.pc = "migrating" /\ kernel'.pc = "migrating" /\ kernel'.id = kernel.id
        /\ kernel'.own = kernel.own /\ kernel'.override = kernel.override
        /\ UNCHANGED <<stamp, journal, disk, checkpoints, restorer>>
    BY DEF NextEdge, home, IInv, TypeOK, KernelType
  <1>2. TransitionFits'
    BY <1>1 DEF Fitting, TransitionFits, Untouched, Rewriting, Between
  <1>3. RunningFits' /\ RestoreFits'
    BY <1>1, FitsFrames DEF Fitting
  <1> QED
    BY <1>1, <1>2, <1>3, SameHome DEF Fitting

LEMMA RecordMigratedFits ==
  ASSUME IInv, Fitting, RecordMigrated
  PROVE  Fitting' /\ [Home!Next]_Home!vars
  <1>1. /\ kernel.pc = "migrating" /\ kernel'.pc = "migrated"
        /\ kernel'.id = kernel.id /\ kernel'.override = kernel.override
        /\ kernel'.own = kernel.own
        /\ journal'.kind = "forward" /\ journal'.phase = "migrated"
        /\ journal'.id = kernel.id /\ journal'.to = kernel.own
        /\ UNCHANGED <<stamp, disk, checkpoints, restorer>>
    BY WritesJournal DEF RecordMigrated
  <1>2. journal.id = kernel.id /\ journal.to = kernel.own
    BY <1>1, OwnCheckpoint DEF TransitionPcs, ForwardPhases
  <1>3. TransitionFits'
    BY <1>1 DEF Fitting, TransitionFits, Untouched, Rewriting, Between
  <1> QED
    BY <1>1, <1>2, <1>3, BehindBarrier DEF BarrierPcs

\* What the validation accepts is in the format of the target epoch.
LEMMA ValidatedFits ==
  ASSUME IInv, Fitting, RecordValidated
  PROVE  Fitting' /\ [Home!Next]_Home!vars
  <1>1. /\ kernel.pc = "migrated" /\ kernel'.pc = "validated"
        /\ kernel'.id = kernel.id /\ kernel'.override = kernel.override
        /\ kernel'.own = kernel.own
        /\ journal'.kind = "forward" /\ journal'.phase = "validated"
        /\ journal'.id = kernel.id /\ journal'.to = kernel.own
        /\ UNCHANGED <<stamp, disk, checkpoints, restorer>>
    BY WritesJournal DEF RecordValidated
  <1>2. /\ journal.id = kernel.id /\ journal.to = kernel.own /\ kernel.id \in Ids
        /\ checkpoints[kernel.id].published /\ checkpoints[kernel.id].from = kernel.from
        /\ checkpoints[kernel.id].stores \subseteq Stores
    BY <1>1, OwnCheckpoint DEF TransitionPcs, ForwardPhases, AffectedBetween
  <1>3. ASSUME NEW s \in checkpoints[kernel.id].stores
        PROVE  Fits(disk[s], s, kernel.own)
    <2>1. Between(checkpoints[kernel.id].items[s], disk[s], s)
      BY <1>1 DEF Fitting, TransitionFits, Rewriting
    <2>2. Fits(checkpoints[kernel.id].items[s], s, kernel.from)
      BY <1>2 DEF Fitting, CheckpointsFit
    <2>3. ASSUME disk[s].state = "ok", NEW k \in EdgesAt(s, kernel.own) PROVE k \in disk[s].edges
      <3>1. k \in Edges /\ k <= kernel.own /\ s \in Affected[k]
        BY <2>3 DEF EdgesAt
      <3>2. CASE k <= kernel.from
        BY <2>1, <2>2, <2>3, <3>1, <3>2 DEF Between, Fits, EdgesAt
      <3>3. CASE kernel.from < k
        BY <2>3, <3>1, <3>3 DEF RecordValidated, EdgeApplied
      <3>4. kernel.from \in Nat /\ k \in Nat
        BY <1>1, <3>1, OwnEpochs DEF Edges, Epochs, TransitionPcs, ForwardPhases
      <3> QED
        BY <3>2, <3>3, <3>4
    <2> QED
      BY <2>1, <2>2, <2>3 DEF Between, Fits
  <1>4. TransitionFits'
    BY <1>1, <1>3 DEF Fitting, TransitionFits, Untouched, Rewriting, Between, Fits
  <1> QED
    BY <1>1, <1>2, <1>4, BehindBarrier DEF BarrierPcs

\* A record of a store that differs in its format alone.
LEMMA InNewFormat ==
  ASSUME NEW c \in Content, NEW d \in Content, NEW e,
         d.state = c.state, d.rev = c.rev, d.edges = e
  PROVE  d = [c EXCEPT !.edges = e]
  BY DEF Content

\* The commit shows the user the migrated home: it goes up in this one step.
LEMMA CommitFits ==
  ASSUME IInv, Fitting, CommitStamp
  PROVE  Fitting' /\ [Home!Next]_Home!vars
  <1>1. /\ kernel.pc = "validated" /\ kernel'.pc = "stamp_committed"
        /\ kernel'.override = kernel.override
        /\ UNCHANGED <<journal, disk, checkpoints, restorer>> /\ stamp'.committed = kernel.own
    BY KernelStepFields, KernelStepKeeps DEF CommitStamp, IInv
  <1>2. /\ journal.kind = "forward" /\ journal.phase # "prepared" /\ journal.id = kernel.id
        /\ journal.to = kernel.own /\ kernel.id \in Ids /\ checkpoints[kernel.id].published
        /\ checkpoints[kernel.id].from = kernel.from
        /\ checkpoints[kernel.id].stores = AffectedBetween(kernel.from, kernel.own)
    BY <1>1, OwnCheckpoint DEF TransitionPcs, ForwardPhases
  <1>3. /\ kernel.from \in Nat /\ kernel.own \in Nat /\ kernel.from < kernel.own
        /\ kernel.own \in kernel.from + 1 .. MaxEpoch /\ stamp.committed = kernel.from
    BY <1>1, OwnEpochs, OwnStamp, EpochAssumption
    DEF TransitionPcs, ForwardPhases, BarrierPcs, Epochs
  <1>4. HomeContent = Overlaid /\ HomeEpoch = kernel.from
    BY <1>2, <1>3, CoveredHome DEF Restoring
  <1>5. HomeContent' = disk /\ HomeEpoch' = kernel.own
    BY <1>1, <1>2, NextBareHome DEF IInv, TypeOK
  <1>6. HomeKept' = HomeKept
    BY <1>1 DEF HomeKept
  <1>7. disk \in [Stores -> Content] /\ checkpoints[kernel.id].items \in [Stores -> Content]
    BY <1>2 DEF IInv, TypeOK, CheckpointType
  <1>8. ASSUME NEW s \in Stores
        PROVE  /\ Fits(disk[s], s, kernel.own)
               /\ disk[s] = IF HomeContent[s].state = "missing" THEN HomeContent[s]
                            ELSE [HomeContent[s] EXCEPT !.edges = EdgesAt(s, kernel.own)]
    <2> DEFINE c == HomeContent[s]
    <2>1. Fits(c, s, kernel.from)
      BY <1>4 DEF Fitting, HomeFits
    <2>2. CASE s \in checkpoints[kernel.id].stores
      <3>1. c = checkpoints[kernel.id].items[s] /\ c \in Content /\ disk[s] \in Content
        BY <1>2, <1>4, <1>7, <2>2 DEF Overlaid
      <3>2. Between(c, disk[s], s) /\ Fits(disk[s], s, kernel.own)
        BY <1>1, <2>2, <3>1 DEF Fitting, TransitionFits, Rewriting
      <3> HIDE DEF c
      <3>3. c.state # "missing" => disk[s] = [c EXCEPT !.edges = EdgesAt(s, kernel.own)]
        BY <3>1, <3>2, <2>1, InNewFormat DEF Between, Fits
      <3>4. c.state = "missing" => disk[s] = c
        BY <3>2 DEF Between
      <3> QED
        BY <3>2, <3>3, <3>4 DEF c
    <2>3. CASE s \notin checkpoints[kernel.id].stores
      <3>1. c = disk[s] /\ c \in Content
        BY <1>2, <1>4, <1>7, <2>3 DEF Overlaid
      <3>2. EdgesAt(s, kernel.own) = EdgesAt(s, kernel.from)
        BY <1>2, <1>3, <2>3, SameFormat
      <3> HIDE DEF c
      <3>3. c.state # "missing" => disk[s] = [c EXCEPT !.edges = EdgesAt(s, kernel.own)]
        BY <3>1, <3>2, <2>1, InNewFormat DEF Fits
      <3>4. Fits(disk[s], s, kernel.own)
        BY <3>1, <3>2, <2>1 DEF Fits
      <3> QED
        BY <3>1, <3>3, <3>4 DEF c
    <2> QED
      BY <2>2, <2>3
  <1>9. disk = [s \in Stores |-> IF HomeContent[s].state = "missing" THEN HomeContent[s]
                                 ELSE [HomeContent[s] EXCEPT !.edges = EdgesAt(s, kernel.own)]]
    BY <1>7, <1>8
  <1>10. Home!GoUp
    BY <1>3, <1>4, <1>5, <1>6, <1>9 DEF Home!GoUp
  <1>11. HomeFits'
    BY <1>1, <1>5, <1>8 DEF HomeFits, Fits
  <1>12. TransitionFits'
    BY <1>1 DEF TransitionFits, Untouched, Rewriting
  <1>13. CheckpointsFit' /\ RunningFits' /\ RestoreFits'
    BY <1>1, <1>2, KernelRunsAlone, FitsFrames DEF Fitting
  <1> QED
    BY <1>10, <1>11, <1>12, <1>13 DEF Fitting, Home!Next

LEMMA RecordCommittedFits ==
  ASSUME IInv, Fitting, RecordCommitted
  PROVE  Fitting' /\ [Home!Next]_Home!vars
  <1>1. /\ kernel.pc = "stamp_committed" /\ kernel'.pc = "committed"
        /\ kernel'.id = kernel.id /\ kernel'.override = kernel.override
        /\ journal'.kind = "forward" /\ journal'.to = kernel.own
        /\ UNCHANGED <<stamp, disk, checkpoints, restorer>>
    BY WritesJournal DEF RecordCommitted
  <1>2. journal.kind = "forward" /\ journal.to = kernel.own
    BY <1>1, OwnCheckpoint DEF TransitionPcs, ForwardPhases
  <1>3. stamp.committed = kernel.own
    BY <1>1 DEF IInv, KernelSound
  <1>4. HomeContent = disk /\ HomeEpoch = stamp.committed
    BY <1>2, <1>3, BareHome DEF IInv
  <1>5. HomeContent' = disk /\ HomeEpoch' = stamp.committed
    BY <1>1, <1>3, NextBareHome DEF IInv, TypeOK
  <1>6. TransitionFits'
    BY <1>1 DEF TransitionFits, Untouched, Rewriting
  <1>7. RunningFits' /\ RestoreFits'
    BY <1>1, KernelRunsAlone, FitsFrames DEF Fitting
  <1> QED
    BY <1>1, <1>4, <1>5, <1>6, <1>7, NothingSeen DEF Fitting

\* The kernel that migrated the home comes up on it.
LEMMA FinishFits ==
  ASSUME IInv, Fitting, FinishTransition
  PROVE  Fitting' /\ [Home!Next]_Home!vars
  <1>1. /\ kernel.pc = "committed" /\ kernel'.pc = "up" /\ kernel'.own = kernel.own
        /\ kernel'.override = kernel.override /\ journal'.kind = "none"
        /\ UNCHANGED <<stamp, disk, checkpoints, restorer>>
    BY KernelStepFields, KernelStepKeeps DEF FinishTransition, IInv, NoJournal
  <1>2. journal.kind = "forward" /\ journal.to = kernel.own /\ journal.phase = "committed"
    BY <1>1, OwnJournal DEF IInv, TransitionPcs, ForwardPhases, PhaseAt
  <1>3. stamp.committed = kernel.own
    BY <1>2 DEF IInv, ForwardSound, Consistent
  <1>4. HomeContent = disk /\ HomeEpoch = stamp.committed
    BY <1>2, <1>3, BareHome DEF IInv
  <1>5. HomeContent' = disk /\ HomeEpoch' = stamp.committed
    BY <1>1, NextBareHome DEF IInv, TypeOK
  <1>6. RunningFits'
    BY <1>1, <1>3, <1>5 DEF Fitting, RunningFits, Restoring
  <1>7. TransitionFits' /\ RestoreFits'
    BY <1>1, KernelRunsAlone, FitsFrames DEF TransitionPcs, ForwardPhases
  <1> QED
    BY <1>1, <1>4, <1>5, <1>6, <1>7, NothingSeen DEF Fitting

-----------------------------------------------------------------------------
(* A running kernel.                                                         *)

LEMMA AdvertiseFits ==
  ASSUME IInv, Fitting, Advertise
  PROVE  Fitting' /\ [Home!Next]_Home!vars
  <1>1. /\ kernel.pc = "up" /\ kernel'.pc = "live" /\ kernel'.own = kernel.own
        /\ kernel'.override = kernel.override
    BY KernelStepFields, KernelStepKeeps DEF Advertise, IInv
  <1>2. UNCHANGED <<stamp, journal, disk, checkpoints, restorer>>
    BY DEF Advertise, home
  <1>3. RunningFits'
    BY <1>1, <1>2 DEF Fitting, RunningFits, Restoring, HomeEpoch
  <1>4. TransitionFits' /\ RestoreFits'
    BY <1>1, <1>2, FitsFrames DEF Fitting, TransitionPcs, ForwardPhases
  <1> QED
    BY <1>2, <1>3, <1>4, SameHome DEF Fitting

\* User data is written in the format of the home; beside a restore, what is written to a
\* store that the restore puts back is lost or an edit of what it put back.
LEMMA WriteFits ==
  ASSUME IInv, Fitting, NEW s \in Stores, WriteStore(s)
  PROVE  Fitting' /\ [Home!Next]_Home!vars
  <1>1. /\ kernel.pc \in {"up", "live"}
        /\ disk' = [disk EXCEPT ![s] = [state |-> "ok", edges |-> EdgesAt(s, kernel.own),
                                        rev |-> disk[s].rev + 1]]
        /\ UNCHANGED <<stamp, journal, checkpoints, kernel, restorer>>
    BY DEF WriteStore
  <1>2. disk \in [Stores -> Content] /\ disk[s].rev \in Nat
    BY BoundAssumption DEF IInv, TypeOK, Content
  <1>3. /\ disk'[s].state = "ok" /\ disk'[s].edges = EdgesAt(s, kernel.own)
        /\ disk'[s].rev = disk[s].rev + 1 /\ disk'[s].rev > disk[s].rev
        /\ \A q \in Stores \ {s} : disk'[q] = disk[q]
    BY <1>1, <1>2
  <1>4. /\ HomeEpoch' = HomeEpoch /\ HomeKept' = HomeKept
        /\ \A q \in Stores : Covered(q)' <=> Covered(q)
    BY <1>1 DEF HomeEpoch, HomeKept, Covered, Restoring
  <1>5. \A q \in Stores : HomeContent'[q] = HomeContent[q]
                          \/ (q = s /\ HomeContent[q] = disk[q] /\ HomeContent'[q] = disk'[q])
    BY <1>1, <1>3, <1>4 DEF HomeContent
  <1>6. EdgesAt(s, kernel.own) = EdgesAt(s, HomeEpoch)
    BY <1>1, FirstFormat DEF Fitting, RunningFits
  <1>7. Home!Edit
    BY <1>3, <1>4, <1>5, <1>6 DEF Home!Edit
  <1>8. HomeFits'
    BY <1>3, <1>4, <1>5, <1>6 DEF Fitting, HomeFits, Fits
  <1>9. restorer'.pc = "off"
    BY <1>1, KernelRunsAlone
  <1>10. RestoreFits'
    <2> SUFFICES ASSUME Restoring, journal.phase # "restore:starting",
                        NEW q \in checkpoints[journal.id].stores
                 PROVE  PutBack(checkpoints[journal.id].items[q], disk[q], q)'
      BY <1>1, <1>9 DEF RestoreFits, Restoring
    <2>1. PutBack(checkpoints[journal.id].items[q], disk[q], q)
      BY DEF Fitting, RestoreFits
    <2>2. journal.id \in Ids /\ Undoes(journal.id) /\ journal.from = checkpoints[journal.id].from
      BY DEF IInv, RestoreSound, Restoring
    <2>3. 1 <= journal.from /\ q \in Stores /\ checkpoints[journal.id].items[q] \in Content
      BY <2>2 DEF IInv, CheckpointsSound, Undoes, TypeOK, CheckpointType
    <2>4. HomeEpoch = journal.from
      BY DEF HomeEpoch
    <2>5. CASE q # s
      BY <1>1, <1>3, <2>1, <2>3, <2>5 DEF PutBack, Fits
    <2>6. CASE q = s
      <3>1. checkpoints[journal.id].items[s].rev \in Nat
        BY <2>3, <2>6, BoundAssumption DEF Content
      <3>2. disk'[s].rev > checkpoints[journal.id].items[s].rev
        BY <1>2, <1>3, <2>1, <2>6, <3>1 DEF PutBack
      <3>3. disk'[s].edges = EdgesAt(s, journal.from)
        BY <1>3, <1>6, <2>4
      <3> QED
        BY <1>1, <1>3, <2>6, <3>2, <3>3 DEF PutBack, Fits
    <2> QED
      BY <2>5, <2>6
  <1>11. CheckpointsFit' /\ TransitionFits' /\ RunningFits'
    BY <1>1, FitsFrames DEF Fitting, TransitionPcs, ForwardPhases
  <1> QED
    BY <1>7, <1>8, <1>10, <1>11 DEF Fitting, Home!Next

\* What a dying kernel leaves half rewritten is behind its checkpoint.
LEMMA KernelCrashFits ==
  ASSUME IInv, Fitting, KernelCrash
  PROVE  Fitting' /\ [Home!Next]_Home!vars
  <1>1. /\ kernel.pc # "off" /\ kernel'.pc = "off" /\ ~kernel'.override
        /\ UNCHANGED <<stamp, journal, checkpoints, restorer>>
    BY DEF KernelCrash, KernelExit, KernelOff
  <1>2. TransitionFits' /\ RunningFits'
    BY <1>1 DEF TransitionFits, RunningFits, Untouched, Rewriting
  <1>3. CASE disk' = disk
    BY <1>1, <1>2, <1>3, SameHome, FitsFrames DEF Fitting
  <1>4. CASE disk' # disk
    <2>1. PICK s \in Stores :
             /\ kernel.pc = "migrating" /\ InPath /\ s \in Affected[kernel.edge]
             /\ disk' = [disk EXCEPT ![s] =
                    [state |-> "torn", edges |-> disk[s].edges \cup {kernel.edge},
                     rev |-> disk[s].rev]]
      BY <1>4 DEF KernelCrash
    <2>2. s \in checkpoints[kernel.id].stores
      BY <2>1, EdgeCovered
    <2>3. \A q \in Stores \ checkpoints[kernel.id].stores : disk'[q] = disk[q]
      BY <2>1, <2>2 DEF IInv, TypeOK
    <2>4. journal.kind = "forward" /\ journal.phase # "prepared"
      BY <2>1, OwnCheckpoint DEF TransitionPcs, ForwardPhases
    <2>5. stamp'.committed \in {0, kernel.from}
      BY <1>1, <2>1, OwnStamp DEF BarrierPcs
    <2>6. kernel.pc \in (SourcePcs \cup BarrierPcs) \ {"begin", "prepared", "checkpoint_verified"}
      BY <2>1 DEF BarrierPcs
    <2>7. HomeContent' = HomeContent /\ HomeEpoch' = HomeEpoch
      BY <1>1, <2>3, <2>4, <2>5, <2>6, CoveredStep
    <2>8. RestoreFits'
      BY <1>1, <2>4, KernelRunsAlone, FitsFrames
    <2> QED
      BY <1>1, <1>2, <2>7, <2>8, NothingSeen DEF Fitting
  <1> QED
    BY <1>3, <1>4

-----------------------------------------------------------------------------
(* The restore.                                                              *)

\* While the restorer works no kernel does.
LEMMA RestorerRunsAlone ==
  ASSUME IInv, Fitting, restorer.pc # "off", UNCHANGED kernel
  PROVE  TransitionFits' /\ RunningFits' /\ pruner.pc = "off"
  <1>1. kernel'.pc = "off" /\ pruner.pc = "off"
    BY DEF IInv, RestorerSound
  <1> QED
    BY <1>1 DEF Fitting, TransitionFits, RunningFits, Untouched, Rewriting

\* Past its journal, the restore that runs is the one of the journal.
LEMMA OwnRestore ==
  ASSUME IInv, restorer.pc \notin {"off", "journal"}
  PROVE  /\ Restoring /\ journal.id = restorer.id /\ restorer.id \in Ids
         /\ journal.from = checkpoints[restorer.id].from
         /\ checkpoints[restorer.id].stores \subseteq Stores
         /\ restorer.pc \in {"stores", "copy", "reconcile"} =>
                /\ journal.phase = "restore:starting"
                /\ restorer.todo \subseteq checkpoints[restorer.id].stores
  <1>1. /\ journal.kind = "restore" /\ journal.id = restorer.id /\ restorer.id \in Ids
        /\ restorer.pc \in {"stores", "copy", "reconcile"} =>
                /\ journal.phase = "restore:starting"
                /\ restorer.todo \subseteq checkpoints[restorer.id].stores
    BY DEF IInv, RestorerSound
  <1> QED
    BY <1>1 DEF IInv, RestoreSound, Restoring, TypeOK, CheckpointType

\* What a restore does to the stores of its checkpoint is not seen.
LEMMA RestoreStep ==
  ASSUME IInv, restorer.pc \notin {"off", "journal"}, UNCHANGED checkpoints,
         journal'.kind = "restore", journal'.id = journal.id, journal'.from = journal.from,
         \A s \in Stores \ checkpoints[restorer.id].stores : disk'[s] = disk[s]
  PROVE  HomeContent' = HomeContent /\ HomeEpoch' = HomeEpoch
  <1>1. Restoring /\ journal.id = restorer.id
    BY OwnRestore
  <1>2. Restoring'
    BY DEF Restoring
  <1>3. HomeContent = Overlaid /\ HomeEpoch = journal.from
    BY <1>1, CoveredHome
  <1>4. HomeContent' = Overlaid' /\ HomeEpoch' = journal.from
    BY <1>2, NextCoveredHome
  <1>5. Overlaid' = Overlaid
    BY <1>1 DEF Overlaid
  <1> QED
    BY <1>3, <1>4, <1>5

LEMMA BeginRestoreFits ==
  ASSUME IInv, Fitting, NEW i \in Ids, BeginRestore(i)
  PROVE  Fitting' /\ [Home!Next]_Home!vars
  <1>1. /\ UNCHANGED <<stamp, journal, disk, checkpoints, kernel>>
        /\ restorer'.id = i /\ restorer'.todo = checkpoints[i].stores /\ restorer'.cur = {}
    BY DEF BeginRestore, home
  <1>2. RestoreFits'
    BY <1>1 DEF Fitting, RestoreFits, Restoring, PutBack, Fits
  <1>3. TransitionFits'
    BY <1>1 DEF Fitting, TransitionFits, Between, Fits
  <1>4. RunningFits'
    BY <1>1, FitsFrames DEF Fitting
  <1> QED
    BY <1>1, <1>2, <1>3, <1>4, SameHome DEF Fitting

\* The journal of a restore takes the home back: to what the checkpoint holds, over stores
\* that the transition it undoes leaves alone.
LEMMA GoesBack ==
  ASSUME IInv, Fitting, WriteRestoreJournal
  PROVE  /\ Home!GoBack /\ HomeFits'
         /\ journal'.kind = "restore" /\ journal'.phase = "restore:starting"
         /\ UNCHANGED <<stamp, disk, checkpoints, kernel>>
         /\ restorer.pc = "journal" /\ restorer'.pc = "stores" /\ restorer'.id = restorer.id
         /\ restorer'.todo = restorer.todo /\ restorer'.cur = restorer.cur
  <1> DEFINE i == restorer.id
             saved == [from |-> checkpoints[i].from,
                       stores |-> [s \in checkpoints[i].stores |-> checkpoints[i].items[s]]]
  <1>1. /\ restorer.pc = "journal" /\ restorer'.pc = "stores" /\ restorer'.id = restorer.id
        /\ restorer'.todo = restorer.todo /\ restorer'.cur = restorer.cur
    BY RestorerStepFields DEF WriteRestoreJournal, IInv
  <1>2. /\ journal'.kind = "restore" /\ journal'.id = i /\ journal'.from = checkpoints[i].from
        /\ journal'.phase = "restore:starting"
        /\ UNCHANGED <<stamp, disk, checkpoints, kernel>>
    BY DEF WriteRestoreJournal, RestoreJournal
  <1>3. /\ i \in Ids /\ Undoes(i)
        /\ journal.kind = "none" \/ (journal.kind = "forward" /\ journal.id = i)
    BY <1>1 DEF IInv, RestorerSound
  <1>4. /\ checkpoints[i].published /\ checkpoints[i].stores \subseteq Stores
        /\ checkpoints[i].stores = AffectedBetween(checkpoints[i].from, checkpoints[i].to)
        /\ checkpoints[i].from \in Nat /\ checkpoints[i].to \in Nat /\ stamp.committed \in Nat
    BY <1>3, EpochAssumption
    DEF IInv, CheckpointsSound, Undoes, TypeOK, CheckpointType, StampType
  <1> HIDE DEF i
  <1>5. HomeEpoch = stamp.committed
    BY <1>3 DEF HomeEpoch, Restoring
  <1>6. \A s \in Stores \ checkpoints[i].stores : HomeContent[s] = disk[s]
    BY <1>3 DEF HomeContent, Covered
  <1>7. HomeContent' = Overlaid' /\ HomeEpoch' = checkpoints[i].from
    BY <1>2, NextCoveredHome DEF Restoring
  <1>8. HomeContent' = [s \in Stores |-> IF s \in DOMAIN saved.stores THEN saved.stores[s]
                                         ELSE HomeContent[s]]
    BY <1>2, <1>6, <1>7 DEF Overlaid
  <1>9. \A s \in Stores : Fits(HomeContent'[s], s, checkpoints[i].from)
    <2> SUFFICES ASSUME NEW s \in Stores PROVE Fits(HomeContent'[s], s, checkpoints[i].from)
      OBVIOUS
    <2>1. CASE s \in checkpoints[i].stores
      <3>1. HomeContent'[s] = checkpoints[i].items[s]
        BY <1>2, <1>7, <2>1 DEF Overlaid
      <3> QED
        BY <1>3, <1>4, <2>1, <3>1 DEF Fitting, CheckpointsFit
    <2>2. CASE s \notin checkpoints[i].stores
      <3>1. HomeContent'[s] = HomeContent[s] /\ Fits(HomeContent[s], s, stamp.committed)
        BY <1>2, <1>5, <1>6, <1>7, <2>2 DEF Overlaid, Fitting, HomeFits
      <3>2. EdgesAt(s, stamp.committed) = EdgesAt(s, checkpoints[i].from)
        <4>1. CASE stamp = NoStamp
          BY <1>3, <4>1, FirstFormat DEF Undoes, NoStamp
        <4>2. CASE stamp # NoStamp
          BY <1>3, <1>4, <2>2, <4>2, SameFormat DEF Undoes
        <4> QED
          BY <4>1, <4>2
      <3> QED
        BY <3>1, <3>2 DEF Fits
    <2> QED
      BY <2>1, <2>2
  <1>10. saved \in HomeKept /\ HomeKept' = HomeKept
    BY <1>2, <1>3, <1>4 DEF HomeKept
  <1>11. HomeEpoch = 0 \/ saved.from <= HomeEpoch
    BY <1>3, <1>5 DEF Undoes, NoStamp
  <1>12. Home!Whole(HomeContent, HomeEpoch)'
    BY <1>7, <1>9 DEF Home!Whole, Fits
  <1>13. saved.from = checkpoints[i].from
    OBVIOUS
  <1> HIDE DEF saved
  <1>14. Home!GoBack
    BY <1>7, <1>8, <1>10, <1>11, <1>12, <1>13 DEF Home!GoBack
  <1>15. HomeFits'
    BY <1>7, <1>9 DEF HomeFits, Fits
  <1> QED
    BY <1>1, <1>2, <1>14, <1>15

LEMMA RestoreJournalFits ==
  ASSUME IInv, Fitting, WriteRestoreJournal
  PROVE  Fitting' /\ [Home!Next]_Home!vars
  <1>1. /\ Home!GoBack /\ HomeFits' /\ journal'.phase = "restore:starting"
        /\ UNCHANGED <<checkpoints, kernel>>
        /\ restorer.pc = "journal" /\ restorer'.pc = "stores" /\ restorer'.id = restorer.id
        /\ restorer'.todo = restorer.todo /\ restorer'.cur = restorer.cur
    BY GoesBack
  <1>2. restorer.todo = checkpoints[restorer.id].stores
    BY <1>1 DEF IInv, RestorerSound
  <1>3. restorer.cur \subseteq checkpoints[restorer.id].stores
    BY <1>1 DEF Fitting, RestoreFits
  <1>4. RestoreFits'
    BY <1>1, <1>2, <1>3 DEF RestoreFits
  <1>5. CheckpointsFit' /\ TransitionFits' /\ RunningFits'
    BY <1>1, RestorerRunsAlone, FitsFrames DEF Fitting
  <1> QED
    BY <1>1, <1>4, <1>5 DEF Fitting, Home!Next

LEMMA SkipFits ==
  ASSUME IInv, Fitting, NEW s \in Stores, SkipStore(s)
  PROVE  Fitting' /\ [Home!Next]_Home!vars
  <1>1. /\ restorer.pc = "stores" /\ s \in restorer.todo
        /\ restorer'.pc = "reconcile" /\ restorer'.cur = {s}
        /\ restorer'.id = restorer.id /\ restorer'.todo = restorer.todo
        /\ UNCHANGED <<stamp, journal, disk, checkpoints, kernel>>
    BY DEF SkipStore, home, IInv, TypeOK, RestorerType
  <1>2. s \in checkpoints[restorer.id].stores /\ journal.phase = "restore:starting"
    BY <1>1, OwnRestore
  <1>3. RestoreFits'
    BY <1>1, <1>2 DEF Fitting, RestoreFits
  <1> QED
    BY <1>1, <1>3, SameHome, RestorerRunsAlone DEF Fitting

LEMMA QuarantineFits ==
  ASSUME IInv, Fitting, NEW s \in Stores, QuarantineStore(s)
  PROVE  Fitting' /\ [Home!Next]_Home!vars
  <1>1. /\ restorer.pc = "stores" /\ s \in restorer.todo
        /\ restorer'.pc = "copy" /\ restorer'.cur = {s}
        /\ restorer'.id = restorer.id /\ restorer'.todo = restorer.todo
        /\ UNCHANGED <<stamp, journal, checkpoints, kernel>>
    BY DEF QuarantineStore, IInv, TypeOK, RestorerType
  <1>2. /\ s \in checkpoints[restorer.id].stores /\ journal.phase = "restore:starting"
        /\ journal.kind = "restore"
    BY <1>1, OwnRestore DEF Restoring
  <1>3. \A q \in Stores \ {s} : disk'[q] = disk[q]
    BY DEF QuarantineStore, IInv, TypeOK
  <1>4. HomeContent' = HomeContent /\ HomeEpoch' = HomeEpoch
    BY <1>1, <1>2, <1>3, RestoreStep
  <1>5. checkpoints[restorer.id].stores \subseteq Stores
    BY <1>1, OwnRestore
  <1>6. RestoreFits'
    BY <1>1, <1>2, <1>3, <1>5 DEF Fitting, RestoreFits
  <1> QED
    BY <1>1, <1>4, <1>6, NothingSeen, RestorerRunsAlone DEF Fitting

LEMMA CopyFits ==
  ASSUME IInv, Fitting, CopyBack
  PROVE  Fitting' /\ [Home!Next]_Home!vars
  <1>1. /\ restorer.pc = "copy" /\ restorer'.pc = "reconcile" /\ restorer'.cur = restorer.cur
        /\ restorer'.id = restorer.id /\ restorer'.todo = restorer.todo
        /\ UNCHANGED <<stamp, journal, checkpoints, kernel>>
    BY RestorerStepFields DEF CopyBack, IInv
  <1>2. /\ restorer.cur \subseteq checkpoints[restorer.id].stores
        /\ \A q \in checkpoints[restorer.id].stores \ restorer.todo :
               disk[q] = checkpoints[restorer.id].items[q]
    BY <1>1 DEF Fitting, RestoreFits
  <1>3. /\ journal.kind = "restore" /\ journal.phase = "restore:starting"
        /\ checkpoints[restorer.id].stores \subseteq Stores
    BY <1>1, OwnRestore DEF Restoring
  <1>4. \A q \in Stores : disk'[q] = disk[q]
                          \/ (q \in restorer.cur /\ disk'[q] = checkpoints[restorer.id].items[q])
    BY DEF CopyBack, Captured
  <1>5. HomeContent' = HomeContent /\ HomeEpoch' = HomeEpoch
    BY <1>1, <1>2, <1>3, <1>4, RestoreStep
  <1>6. RestoreFits'
    BY <1>1, <1>2, <1>3, <1>4 DEF RestoreFits
  <1> QED
    BY <1>1, <1>5, <1>6, NothingSeen, RestorerRunsAlone DEF Fitting

\* Only a store that holds what was saved of it counts as put back.
LEMMA ReconcileFits ==
  ASSUME IInv, Fitting, Reconcile
  PROVE  Fitting' /\ [Home!Next]_Home!vars
  <1>1. restorer.pc = "reconcile" /\ UNCHANGED <<stamp, journal, disk, checkpoints, kernel>>
    BY DEF Reconcile, home
  <1>2. /\ \A q \in checkpoints[restorer.id].stores \ restorer.todo :
               disk[q] = checkpoints[restorer.id].items[q]
    BY <1>1 DEF Fitting, RestoreFits
  <1>3. journal.phase = "restore:starting"
    BY <1>1, OwnRestore
  <1>4. CASE \A s \in restorer.cur : disk[s] = Captured(s)
    <2>1. /\ restorer'.id = restorer.id /\ restorer'.cur = {}
          /\ restorer'.todo = restorer.todo \ restorer.cur
      BY <1>4 DEF Reconcile, IInv, TypeOK, RestorerType
    <2>2. RestoreFits'
      BY <1>1, <1>2, <1>3, <1>4, <2>1 DEF RestoreFits, Captured
    <2> QED
      BY <1>1, <2>2, SameHome, RestorerRunsAlone DEF Fitting
  <1>5. CASE ~\A s \in restorer.cur : disk[s] = Captured(s)
    <2>1. restorer'.pc = "off"
      BY <1>5 DEF Reconcile, RestorerOff
    <2>2. RestoreFits'
      BY <1>1, <1>3, <2>1 DEF RestoreFits
    <2> QED
      BY <1>1, <2>2, SameHome, RestorerRunsAlone DEF Fitting
  <1> QED
    BY <1>4, <1>5

\* All stores are put back when the restore says so.
LEMMA StoresRestoredFits ==
  ASSUME IInv, Fitting, RecordStoresRestored
  PROVE  Fitting' /\ [Home!Next]_Home!vars
  <1>1. /\ restorer.pc = "stores" /\ restorer.todo = {} /\ restorer'.pc = "republish"
        /\ UNCHANGED <<stamp, disk, checkpoints, kernel>>
    BY RestorerStepFields DEF RecordStoresRestored, IInv
  <1>2. /\ journal'.kind = "restore" /\ journal'.id = restorer.id
        /\ journal'.from = checkpoints[restorer.id].from
    BY DEF RecordStoresRestored, RestoreJournal
  <1>3. journal.id = restorer.id /\ journal.from = checkpoints[restorer.id].from
    BY <1>1, OwnRestore
  <1>4. HomeContent' = HomeContent /\ HomeEpoch' = HomeEpoch
    BY <1>1, <1>2, <1>3, RestoreStep
  <1>5. \A q \in checkpoints[restorer.id].stores : disk[q] = checkpoints[restorer.id].items[q]
    BY <1>1 DEF Fitting, RestoreFits
  <1>6. RestoreFits'
    BY <1>1, <1>2, <1>5 DEF RestoreFits, PutBack
  <1> QED
    BY <1>1, <1>4, <1>6, NothingSeen, RestorerRunsAlone DEF Fitting

\* Past its stores, a step of the restore that leaves the stores alone.
LEMMA RestoredStep ==
  ASSUME IInv, Fitting, restorer.pc \in {"republish", "republished", "tail", "receipt"},
         restorer'.pc \in {"off", "republish", "republished", "tail", "receipt"},
         UNCHANGED <<disk, checkpoints, kernel>>, journal'.kind = "restore",
         journal'.id = journal.id, journal'.from = journal.from
  PROVE  Fitting' /\ [Home!Next]_Home!vars
  <1>1. HomeContent' = HomeContent /\ HomeEpoch' = HomeEpoch
    BY RestoreStep
  <1>2. Restoring /\ journal.phase # "restore:starting"
    BY OwnRestore DEF IInv, RestorerSound
  <1>3. RestoreFits'
    BY <1>2 DEF Fitting, RestoreFits, PutBack, Fits
  <1> QED
    BY <1>1, <1>3, NothingSeen, RestorerRunsAlone DEF Fitting

LEMMA RepublishFits ==
  ASSUME IInv, Fitting, Republish
  PROVE  Fitting' /\ [Home!Next]_Home!vars
  <1>1. restorer.pc = "republish" /\ UNCHANGED <<journal, disk, checkpoints, kernel>>
    BY DEF Republish
  <1>2. restorer'.pc \in {"republished", "off"}
    BY DEF Republish, RestorerOff, IInv, TypeOK, RestorerType
  <1>3. journal.kind = "restore"
    BY <1>1, OwnRestore DEF Restoring
  <1> QED
    BY <1>1, <1>2, <1>3, RestoredStep

LEMMA RepublishedFits ==
  ASSUME IInv, Fitting, RecordRepublished
  PROVE  Fitting' /\ [Home!Next]_Home!vars
  <1>1. /\ restorer.pc = "republished" /\ restorer'.pc = "tail"
        /\ UNCHANGED <<disk, checkpoints, kernel>>
    BY RestorerStepFields DEF RecordRepublished, IInv
  <1>2. /\ journal'.kind = "restore" /\ journal'.id = restorer.id
        /\ journal'.from = checkpoints[restorer.id].from
    BY DEF RecordRepublished, RestoreJournal
  <1>3. journal.id = restorer.id /\ journal.from = checkpoints[restorer.id].from
    BY <1>1, OwnRestore
  <1> QED
    BY <1>1, <1>2, <1>3, RestoredStep

LEMMA TrailFits ==
  ASSUME IInv, Fitting, AppendAudit \/ WriteReceipt
  PROVE  Fitting' /\ [Home!Next]_Home!vars
  <1>1. /\ restorer.pc \in {"tail", "receipt"} /\ restorer'.pc \in {"tail", "receipt"}
        /\ UNCHANGED <<journal, disk, checkpoints, kernel>>
    BY RestorerStepFields DEF AppendAudit, WriteReceipt, IInv
  <1>2. journal.kind = "restore"
    BY <1>1, OwnRestore DEF Restoring
  <1> QED
    BY <1>1, <1>2, RestoredStep

\* What a kernel wrote to the stores after they were put back is an edit of the home.
LEMMA FinishRestoreFits ==
  ASSUME IInv, Fitting, FinishRestore
  PROVE  Fitting' /\ [Home!Next]_Home!vars
  <1>1. /\ restorer.pc = "tail" /\ restorer'.pc = "off" /\ journal'.kind = "none"
        /\ UNCHANGED <<stamp, disk, checkpoints, kernel>>
    BY DEF FinishRestore, NoJournal, RestorerOff
  <1>2. Restoring /\ journal.phase = "restore:metadata_republished"
    BY <1>1, OwnRestore DEF IInv, RestorerSound
  <1>3. stamp.committed = journal.from
    BY <1>2 DEF IInv, RestoreSound, Restoring
  <1>4. HomeContent = Overlaid /\ HomeEpoch = journal.from
    BY <1>2, CoveredHome
  <1>5. HomeContent' = disk /\ HomeEpoch' = journal.from
    BY <1>1, <1>3, NextBareHome DEF IInv, TypeOK
  <1>6. \A s \in Stores :
           \/ disk[s] = HomeContent[s]
           \/ /\ Fits(disk[s], s, journal.from) /\ disk[s].state = "ok"
              /\ disk[s].rev > HomeContent[s].rev
    BY <1>2, <1>4 DEF Overlaid, Fitting, RestoreFits, PutBack
  <1>7. HomeKept' = HomeKept
    BY <1>1 DEF HomeKept
  <1>8. Home!Edit
    BY <1>4, <1>5, <1>6, <1>7 DEF Home!Edit, Fits
  <1>9. \A s \in Stores : Fits(disk[s], s, journal.from)
    BY <1>4, <1>6 DEF Fitting, HomeFits
  <1>10. HomeFits'
    BY <1>1, <1>5, <1>9 DEF HomeFits, Fits
  <1>11. CheckpointsFit' /\ TransitionFits' /\ RunningFits' /\ RestoreFits'
    BY <1>1, RestorerRunsAlone, FitsFrames DEF Fitting
  <1> QED
    BY <1>8, <1>10, <1>11 DEF Fitting, Home!Next

\* What a dying restore leaves half written is behind its checkpoint.
LEMMA RestorerCrashFits ==
  ASSUME IInv, Fitting, RestorerCrash
  PROVE  Fitting' /\ [Home!Next]_Home!vars
  <1>1. /\ restorer.pc # "off" /\ restorer'.pc = "off"
        /\ UNCHANGED <<stamp, journal, checkpoints, kernel>>
    BY DEF RestorerCrash, RestorerOff
  <1>2. CASE disk' = disk
    <2>1. RestoreFits'
      BY <1>1, <1>2 DEF Fitting, RestoreFits, Restoring, PutBack, Fits
    <2> QED
      BY <1>1, <1>2, <2>1, SameHome, RestorerRunsAlone DEF Fitting
  <1>3. CASE disk' # disk
    <2>1. PICK s : /\ \/ s \in restorer.cur /\ restorer.pc = "copy"
                      \/ s \in restorer.todo /\ restorer.pc = "stores"
                   /\ \A q \in Stores \ {s} : disk'[q] = disk[q]
      BY <1>3 DEF RestorerCrash, IInv, TypeOK
    <2>2. s \in checkpoints[restorer.id].stores
      BY <2>1, OwnRestore DEF Fitting, RestoreFits
    <2>3. journal.kind = "restore" /\ journal.phase = "restore:starting"
      BY <2>1, OwnRestore DEF Restoring
    <2>4. HomeContent' = HomeContent /\ HomeEpoch' = HomeEpoch
      BY <1>1, <2>1, <2>2, <2>3, RestoreStep
    <2>5. RestoreFits'
      BY <1>1, <2>3 DEF RestoreFits
    <2> QED
      BY <1>1, <2>4, <2>5, NothingSeen, RestorerRunsAlone DEF Fitting
  <1> QED
    BY <1>2, <1>3

-----------------------------------------------------------------------------
(* The retention pass.                                                       *)

LEMMA BeginPruneFits ==
  ASSUME IInv, Fitting, BeginPrune \/ UNCHANGED vars
  PROVE  Fitting' /\ [Home!Next]_Home!vars
  <1>1. UNCHANGED <<stamp, journal, disk, checkpoints, kernel, restorer>>
    BY DEF BeginPrune, vars, home
  <1>2. TransitionFits'
    BY <1>1 DEF Fitting, TransitionFits, Between, Fits
  <1> QED
    BY <1>1, <1>2, SameHome, FitsFrames DEF Fitting

\* The checkpoint that lies over the home is kept.
LEMMA PruneFits ==
  ASSUME IInv, Fitting, NEW n \in 1 .. Retained, Prune(n)
  PROVE  Fitting' /\ [Home!Next]_Home!vars
  <1>1. /\ pruner.pc = "delete" /\ UNCHANGED <<stamp, journal, disk, kernel, restorer>>
        /\ checkpoints' = [i \in Ids |-> IF i \in Newest(n) \/ i = pruner.protected
                                         THEN checkpoints[i] ELSE NoCheckpoint]
    BY DEF Prune
  <1>2. /\ kernel.pc = "off" /\ restorer.pc = "off" /\ journal.kind # "restore"
        /\ journal.phase # "prepared" => pruner.protected = journal.id
    BY <1>1 DEF IInv, PrunerSound
  <1>3. \A i \in Ids : checkpoints'[i] = checkpoints[i] \/ ~checkpoints'[i].published
    BY <1>1 DEF NoCheckpoint
  <1>4. ASSUME journal.kind = "forward", journal.phase # "prepared"
        PROVE  checkpoints'[journal.id] = checkpoints[journal.id]
    BY <1>1, <1>2, <1>4 DEF IInv, ForwardSound
  <1>5. ~Restoring /\ ~Restoring' /\ HomeEpoch' = HomeEpoch
    BY <1>1, <1>2 DEF Restoring, HomeEpoch
  <1>6. journal.kind \in {"none", "forward"}
    BY <1>2 DEF IInv, TypeOK, JournalType
  <1>7. ASSUME NEW s \in Stores
        PROVE  /\ Covered(s)' <=> Covered(s)
               /\ Covered(s) => checkpoints'[journal.id].items[s] = checkpoints[journal.id].items[s]
    BY <1>1, <1>4, <1>5, <1>6 DEF Covered
  <1>8. HomeContent' = HomeContent
    BY <1>1, <1>7 DEF HomeContent
  <1>9. HomeKept' \subseteq HomeKept
    BY <1>3 DEF HomeKept
  <1>10. Home!Forget
    BY <1>5, <1>8, <1>9 DEF Home!Forget
  <1>11. HomeFits'
    BY <1>5, <1>8 DEF Fitting, HomeFits, Fits
  <1>12. CheckpointsFit'
    BY <1>3 DEF Fitting, CheckpointsFit, Fits
  <1>13. TransitionFits' /\ RunningFits' /\ RestoreFits'
    BY <1>1, <1>2, FitsFrames DEF Fitting, TransitionPcs, ForwardPhases
  <1> QED
    BY <1>10, <1>11, <1>12, <1>13 DEF Fitting, Home!Next

-----------------------------------------------------------------------------
(* The theorems.                                                             *)

LEMMA FittingStep ==
  ASSUME ~AllowDowngrade, IInv, Fitting, [Next]_vars
  PROVE  Fitting' /\ [Home!Next]_Home!vars
  <1>1. CASE Gate
    BY <1>1, LaunchFits, CleanFits, StampFits, RefreshFits, DowngradeFits, BaselineFits,
       RefuseFits, BeginFits DEF Gate
  <1>2. CASE Transition
    BY <1>2, PrepareFits, CheckpointFits, CompleteFits, BarrierFits, RecordBarrierFits,
       MigratingFits, MigrateFits, NextEdgeFits, RecordMigratedFits, ValidatedFits, CommitFits,
       RecordCommittedFits, FinishFits DEF Transition
  <1>3. CASE Running
    BY <1>3, AdvertiseFits, WriteFits, KernelCrashFits DEF Running
  <1>4. CASE RestoreSteps
    BY <1>4, BeginRestoreFits, RestoreJournalFits, SkipFits, QuarantineFits, CopyFits,
       ReconcileFits, StoresRestoredFits, RepublishFits, RepublishedFits, TrailFits,
       FinishRestoreFits DEF RestoreSteps
  <1>5. CASE RestorerCrash
    BY <1>5, RestorerCrashFits
  <1>6. CASE Pruning
    BY <1>6, BeginPruneFits, PruneFits DEF Pruning
  <1>7. CASE UNCHANGED vars
    BY <1>7, BeginPruneFits
  <1> QED
    BY <1>1, <1>2, <1>3, <1>4, <1>5, <1>6, <1>7 DEF Next

THEOREM HomeFitting ==
  ASSUME Discipline, ~AllowDowngrade
  PROVE  Spec => []Fitting
  <1>1. IInv /\ Fitting /\ [Next]_vars => Fitting'
    BY FittingStep
  <1> QED
    BY <1>1, FittingInit, Invariance, PTL DEF Spec

\* Where no one overrides the gate, data-epoch protection implements EpochHome: whatever
\* dies when, the home goes up, goes back and is edited as a whole, in one format.
THEOREM HomeImplemented ==
  ASSUME Discipline, ~AllowDowngrade
  PROVE  Spec => ImplementsHome
  <1>1. IInv /\ Fitting /\ [Next]_vars => [Home!Next]_Home!vars
    BY FittingStep
  <1> QED
    BY <1>1, HomeInit, HomeFitting, Invariance, PTL DEF Spec, ImplementsHome, Home!Spec

\* A home over no journal is whole, and in exactly the format of the epoch that its stamp
\* has committed, however many transitions and restores came before.
THEOREM SteadyHolds ==
  ASSUME Discipline, ~AllowDowngrade
  PROVE  Spec => []SteadyHome
  <1>1. ASSUME IInv, Fitting PROVE SteadyHome
    <2> SUFFICES ASSUME journal = NoJournal
                 PROVE  /\ stamp.min = stamp.committed
                        /\ \A s \in Stores : Fits(disk[s], s, stamp.committed)
      BY DEF SteadyHome, Fits
    <2>1. journal.kind = "none"
      BY DEF NoJournal
    <2>2. HomeContent = disk /\ HomeEpoch = stamp.committed
      BY <1>1, <2>1, BareHome DEF IInv
    <2> QED
      BY <1>1, <2>1, <2>2 DEF IInv, IdleSound, Fitting, HomeFits
  <1> QED
    BY <1>1, HomeFitting, Invariance, PTL

\* A kernel that runs finds its own format in every store, beside a restore too.
THEOREM OwnFormatHolds ==
  ASSUME Discipline, ~AllowDowngrade
  PROVE  Spec => []RunningReadsOwnFormat
  <1>1. ASSUME IInv, Fitting PROVE RunningReadsOwnFormat
    <2> SUFFICES ASSUME kernel.pc \in {"up", "live"}, NEW s \in Stores, disk[s].state = "ok"
                 PROVE  disk[s].edges = EdgesAt(s, kernel.own)
      BY DEF RunningReadsOwnFormat
    <2>1. /\ journal.kind # "forward"
          /\ kernel.own = HomeEpoch \/ (HomeEpoch = 0 /\ kernel.own = 1)
          /\ Restoring => kernel.own = 1 /\ stamp.min <= 1
      BY <1>1 DEF Fitting, RunningFits
    <2>2. CASE journal.kind = "none"
      <3>1. HomeContent = disk
        BY <1>1, <2>2, BareHome DEF IInv
      <3>2. Fits(disk[s], s, HomeEpoch)
        BY <1>1, <3>1 DEF Fitting, HomeFits
      <3> QED
        BY <2>1, <3>2, FirstFormat DEF Fits
    <2>3. CASE Restoring
      <3>1. /\ \A k \in disk[s].edges : k <= stamp.min
            /\ disk[s].edges \subseteq Edges /\ stamp.min \in Nat
        BY <1>1, EpochAssumption DEF IInv, DiskCovered, Within, TypeOK, Content, StampType
      <3>2. disk[s].edges = {}
        BY <2>1, <2>3, <3>1 DEF Edges
      <3> QED
        BY <2>1, <2>3, <3>2, FirstFormat
    <2> QED
      BY <1>1, <2>1, <2>2, <2>3 DEF Restoring, IInv, TypeOK, JournalType
  <1> QED
    BY <1>1, HomeFitting, Invariance, PTL

=============================================================================
