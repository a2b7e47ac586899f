------------------------------ MODULE DataEpoch ------------------------------
(***************************************************************************)
(* The data-epoch protection of one data home: the durable stamp, the      *)
(* transition journal and the checkpoints that the kernel's startup gate   *)
(* (core/data-epoch-coordinator.ts), the restore transaction               *)
(* (core/data-epoch-restore.ts) and the retention pass                     *)
(* (core/data-epoch-checkpoint-provider.ts) read and write.                *)
(*                                                                         *)
(* Three processes share the home: a kernel (a server process launched by  *)
(* some build), a restorer (`hana data restore`) and a pruner.  Every      *)
(* durable write is one atomic step (write a temporary file, fsync,        *)
(* rename), and each process can die between any two of them.  The         *)
(* program counter of the kernel is named after the fault-injection event  *)
(* that follows the step it has just completed.                            *)
(***************************************************************************)
EXTENDS Naturals, FiniteSets

CONSTANTS
    Stores,          \* the persistent stores of the registry
    MaxEpoch,        \* the highest data epoch any build declares
    Affected,        \* Affected[e]: the stores the migration e-1 -> e rewrites
    SizeOf(_, _),    \* bytes of a store holding a given format and revision
    Builds,          \* the epochs of the builds the user launches
    MaxTransitions,  \* bound on the transitions a behaviour starts
    MaxRev,          \* bound on the user revisions of a store
    Serial,          \* TRUE: the operator never lets two of the processes overlap
    InOrder,         \* TRUE: the operator only restores a transition the stamp lies in
    AllowDowngrade   \* TRUE: kernels may be launched with the downgrade override

Epochs == 1 .. MaxEpoch
Edges  == 2 .. MaxEpoch
Ids    == 1 .. MaxTransitions

\* DATA_EPOCH_CHECKPOINT_RETAINED_COUNT
Retained == 2

ASSUME StoresAssumption == IsFiniteSet(Stores)
ASSUME EpochAssumption == /\ MaxEpoch \in Nat \ {0}
                          /\ Affected \in [Edges -> SUBSET Stores]
                          /\ Builds \subseteq Epochs
ASSUME BoundAssumption == MaxTransitions \in Nat /\ MaxRev \in Nat
ASSUME OperatorAssumption == /\ Serial \in BOOLEAN
                             /\ InOrder \in BOOLEAN
                             /\ AllowDowngrade \in BOOLEAN

VARIABLES
    stamp,        \* data-epoch.json; min = 0 when the file is missing
    journal,      \* data-epoch-transition.json, forward or restore shape
    disk,         \* what each store holds
    checkpoints,  \* data-epoch-checkpoints/{transitionId}
    trail,        \* audit lines and receipt of the restore in the journal
    litter,       \* an interrupted metadata write left its temporary file
    started,      \* transitions started so far: the last transitionId given out
    kernel,
    restorer,
    pruner

home == <<stamp, journal, disk, checkpoints, trail, litter, started>>
vars == <<stamp, journal, disk, checkpoints, trail, litter, started,
          kernel, restorer, pruner>>

-----------------------------------------------------------------------------
(* What a store holds: the set of migration edges applied to it stands for *)
(* its format, the revision for the user's data in it.                     *)

Content == [state : {"ok", "missing", "torn"}, edges : SUBSET Edges, rev : 0 .. MaxRev]

Missing == [state |-> "missing", edges |-> {}, rev |-> 0]

\* The format a store has in a home committed at epoch e.
EdgesAt(s, e) == {k \in Edges : k <= e /\ s \in Affected[k]}

\* The union over a migration path of the stores its edges rewrite.
AffectedBetween(from, to) ==
    {s \in Stores : \E k \in Edges : from < k /\ k <= to /\ s \in Affected[k]}

\* The comparison of restoreOneStore's fast path: same files, same sizes.
SameShape(c, d) ==
    /\ c.state = d.state
    /\ c.state = "ok" => SizeOf(c.edges, c.rev) = SizeOf(d.edges, d.rev)

ForwardPhases == {"prepared", "checkpoint_complete", "barrier_raised", "migrating",
                  "migrated", "validated", "committed"}
RestorePhases == {"restore:starting", "restore:stores_restored",
                  "restore:metadata_republished"}

NoJournal == [kind |-> "none", id |-> 0, from |-> 0, to |-> 0, phase |-> "none"]
NoStamp   == [min |-> 0, committed |-> 0]

NoCheckpoint == [published |-> FALSE, from |-> 0, to |-> 0, stores |-> {},
                 items |-> [s \in Stores |-> Missing]]

KernelOff   == [pc |-> "off", own |-> 0, override |-> FALSE, id |-> 0, from |-> 0,
                edge |-> 0]
RestorerOff == [pc |-> "off", id |-> 0, todo |-> {}, cur |-> {}]
PrunerOff   == [pc |-> "off", protected |-> 0]

TransitionPcs == ForwardPhases \cup {"begin", "checkpoint_verified", "stamp_barrier",
                                     "stamp_committed"}
RestorerPcs == {"off", "journal", "stores", "copy", "reconcile", "republish", "republished",
                "tail", "receipt"}
KernelPcs == TransitionPcs \cup {"off", "gate", "up", "live"}

-----------------------------------------------------------------------------
(* The reads of the home that the gate decides on.                         *)

Restoring == journal.kind = "restore"

\* transitionConsistency: the stamps each phase of a forward journal may meet.
Consistent ==
    LET source  == stamp = [min |-> journal.from, committed |-> journal.from]
        barrier == stamp = [min |-> journal.to, committed |-> journal.from]
        target  == stamp = [min |-> journal.to, committed |-> journal.to]
    IN CASE journal.phase = "prepared" -> stamp = NoStamp \/ source
         [] journal.phase = "checkpoint_complete" -> stamp = NoStamp \/ source \/ barrier
         [] journal.phase = "committed" -> target
         [] journal.phase = "validated" -> barrier \/ target
         [] OTHER -> barrier

\* inspectDataEpochMaintenance: none, corrupt or incomplete.  A restore
\* journal does not parse as a forward one, hence reads as corrupt.
Inspection ==
    CASE Restoring -> "corrupt"
      [] journal.kind = "forward" -> IF Consistent THEN "incomplete" ELSE "corrupt"
      [] OTHER -> IF stamp.min # stamp.committed THEN "corrupt" ELSE "none"

\* The continuation "finalize-committed-tail".
CommittedTail ==
    Inspection = "incomplete" /\ stamp = [min |-> journal.to, committed |-> journal.to]

\* classifyUnstampedDataHome.
Classification ==
    CASE litter -> "ambiguous"
      [] (\A s \in Stores : disk[s] = Missing) /\ (\A i \in Ids : ~checkpoints[i].published)
           -> "provably-new"
      [] OTHER -> "legacy-baseline"

-----------------------------------------------------------------------------
(* A home nobody has opened with this mechanism: empty, or legacy data in  *)
(* the baseline format; either is unstamped.                               *)

Init ==
    /\ stamp = NoStamp
    /\ journal = NoJournal
    /\ disk \in [Stores -> {Missing, [state |-> "ok", edges |-> {}, rev |-> 0]}]
    /\ checkpoints = [i \in Ids |-> NoCheckpoint]
    /\ trail = [logged |-> 0, receipt |-> FALSE]
    /\ litter = FALSE
    /\ started = 0
    /\ kernel = KernelOff
    /\ restorer = RestorerOff
    /\ pruner = PrunerOff

Forward(phase) == [kind |-> "forward", id |-> kernel.id, from |-> kernel.from,
                   to |-> kernel.own, phase |-> phase]

\* One step of the kernel: from one program counter to the next.
KernelStep(before, after) ==
    /\ kernel.pc = before
    /\ kernel' = [kernel EXCEPT !.pc = after]

KernelExit == kernel' = KernelOff

-----------------------------------------------------------------------------
(* Launch and the startup gate of server/index.ts.                         *)

\* The mutual-exclusion gate has passed: no other kernel answers.
Launch(own, override) ==
    /\ kernel.pc = "off"
    /\ Serial => restorer.pc = "off" /\ pruner.pc = "off"
    /\ override => AllowDowngrade
    /\ kernel' = [KernelOff EXCEPT !.pc = "gate", !.own = own, !.override = override]
    /\ UNCHANGED <<home, restorer, pruner>>

\* A journal left behind after the commit: the only one the gate clears.
\* The gate is then passed again, for a newer build may still have to migrate.
CleanCommittedTail ==
    /\ kernel.pc = "gate"
    /\ CommittedTail
    /\ kernel.own >= journal.to
    /\ journal' = NoJournal
    /\ UNCHANGED <<stamp, disk, checkpoints, trail, litter, started, kernel, restorer, pruner>>

\* A new home is stamped at the build's own epoch, a legacy one adopted at 1.
StampUnstamped ==
    /\ Inspection = "none"
    /\ stamp = NoStamp
    /\ \/ Classification = "provably-new"
       \/ Classification = "legacy-baseline" /\ kernel.own = 1
    /\ KernelStep("gate", "up")
    /\ stamp' = [min |-> kernel.own, committed |-> kernel.own]
    /\ UNCHANGED <<journal, disk, checkpoints, trail, litter, started, restorer, pruner>>

\* The stamp names this build's epoch: rewritten when the version changed.
Refresh ==
    /\ Inspection = "none"
    /\ stamp.min = kernel.own
    /\ KernelStep("gate", "up")
    /\ stamp' = [min |-> kernel.own, committed |-> kernel.own]
    /\ UNCHANGED <<journal, disk, checkpoints, trail, litter, started, restorer, pruner>>

\* Mutant of OpenDowngraded: the override is looked at before the journal.
OpenUninspected ==
    /\ stamp.min > kernel.own
    /\ kernel.override
    /\ KernelStep("gate", "up")
    /\ UNCHANGED <<home, restorer, pruner>>

\* The explicit override opens a home above this build; it writes nothing.
OpenDowngraded ==
    /\ Inspection = "none"
    /\ stamp.min > kernel.own
    /\ kernel.override
    /\ KernelStep("gate", "up")
    /\ UNCHANGED <<home, restorer, pruner>>

\* coordinateDataEpochStartup answers { allowed: false }.
Refused ==
    \/ Inspection = "corrupt"
    \/ Inspection = "incomplete" /\ ~(CommittedTail /\ kernel.own >= journal.to)
    \/ /\ Inspection = "none"
       /\ \/ stamp = NoStamp /\ Classification = "ambiguous"
          \/ stamp.min > kernel.own /\ ~kernel.override

\* hasHigherStamp, hasHigherTransition.
HigherEvidence == stamp.min > 1 \/ (Inspection = "incomplete" /\ journal.to > 1)

\* A build of epoch 1 starts in spite of a refusal unless there is readable
\* evidence of a higher epoch; every other refusal ends the process.
OpenBaseline ==
    /\ Refused
    /\ kernel.own = 1 /\ ~HigherEvidence
    /\ KernelStep("gate", "up")
    /\ UNCHANGED <<home, restorer, pruner>>

Refuse ==
    /\ kernel.pc = "gate"
    /\ Refused
    /\ kernel.own > 1 \/ HigherEvidence
    /\ KernelExit
    /\ UNCHANGED <<home, restorer, pruner>>

\* The build is ahead of the stamp, or of a legacy home, which counts as 1.
BeginTransition ==
    /\ Inspection = "none"
    /\ \/ stamp # NoStamp /\ stamp.min < kernel.own
       \/ stamp = NoStamp /\ Classification = "legacy-baseline" /\ kernel.own > 1
    /\ kernel.pc = "gate"
    /\ kernel' = [kernel EXCEPT !.pc = "begin",
                                !.from = IF stamp = NoStamp THEN 1 ELSE stamp.committed]
    /\ UNCHANGED <<home, restorer, pruner>>

-----------------------------------------------------------------------------
(* transitionDataEpoch: journal, checkpoint, barrier, migrate, commit.     *)

Prepare ==
    /\ started < MaxTransitions
    /\ kernel.pc = "begin"
    /\ started' = started + 1
    /\ kernel' = [kernel EXCEPT !.pc = "prepared", !.id = started + 1]
    /\ journal' = [Forward("prepared") EXCEPT !.id = started + 1]
    /\ UNCHANGED <<stamp, disk, checkpoints, trail, litter, restorer, pruner>>

\* The provider captures the affected stores, publishes the directory by one
\* rename and verifies it.
CreateCheckpoint ==
    LET scope == AffectedBetween(kernel.from, kernel.own)
    IN /\ KernelStep("prepared", "checkpoint_verified")
       /\ checkpoints' = [checkpoints EXCEPT ![kernel.id] =
              [published |-> TRUE, from |-> kernel.from, to |-> kernel.own, stores |-> scope,
               items |-> [s \in Stores |-> IF s \in scope THEN disk[s] ELSE Missing]]]
       /\ UNCHANGED <<stamp, journal, disk, trail, litter, started, restorer, pruner>>

WriteJournal(before, phase) ==
    /\ KernelStep(before, phase)
    /\ journal' = Forward(phase)
    /\ UNCHANGED <<stamp, disk, checkpoints, trail, litter, started, restorer, pruner>>

CompleteCheckpoint == WriteJournal("checkpoint_verified", "checkpoint_complete")

\* Mutant of RaiseBarrier: the stamp still admits readers of the source epoch.
RaiseNothing ==
    /\ KernelStep("checkpoint_complete", "stamp_barrier")
    /\ stamp' = [min |-> kernel.from, committed |-> kernel.from]
    /\ UNCHANGED <<journal, disk, checkpoints, trail, litter, started, restorer, pruner>>

\* Mutant of RaiseBarrier: the target epoch is committed along with the barrier.
RaiseCommitted ==
    /\ KernelStep("checkpoint_complete", "stamp_barrier")
    /\ stamp' = [min |-> kernel.own, committed |-> kernel.own]
    /\ UNCHANGED <<journal, disk, checkpoints, trail, litter, started, restorer, pruner>>

\* From here on a build below the target epoch is refused.
RaiseBarrier ==
    /\ KernelStep("checkpoint_complete", "stamp_barrier")
    /\ stamp' = [min |-> kernel.own, committed |-> kernel.from]
    /\ UNCHANGED <<journal, disk, checkpoints, trail, litter, started, restorer, pruner>>

RecordBarrier == WriteJournal("stamp_barrier", "barrier_raised")

StartMigrating ==
    /\ kernel.pc = "barrier_raised"
    /\ kernel' = [kernel EXCEPT !.pc = "migrating", !.edge = kernel.from + 1]
    /\ journal' = Forward("migrating")
    /\ UNCHANGED <<stamp, disk, checkpoints, trail, litter, started, restorer, pruner>>

\* The loop over the migration path has not ended.
InPath == kernel.edge \in 2 .. kernel.own

\* migration.migrate of the current edge rewrites one of its stores.
MigrateStore(s) ==
    /\ kernel.pc = "migrating"
    /\ InPath
    /\ s \in Affected[kernel.edge]
    /\ disk[s].state = "ok"
    /\ kernel.edge \notin disk[s].edges
    /\ disk' = [disk EXCEPT ![s].edges = @ \cup {kernel.edge}]
    /\ UNCHANGED <<stamp, journal, checkpoints, trail, litter, started,
                   kernel, restorer, pruner>>

EdgeApplied(e) ==
    \A s \in Affected[e] : disk[s].state = "ok" => e \in disk[s].edges

NextEdge ==
    /\ kernel.pc = "migrating"
    /\ InPath
    /\ EdgeApplied(kernel.edge)
    /\ kernel' = [kernel EXCEPT !.edge = @ + 1]
    /\ UNCHANGED <<home, restorer, pruner>>

RecordMigrated == kernel.edge > kernel.own /\ WriteJournal("migrating", "migrated")

\* Every migration's validate has accepted the stores.
RecordValidated ==
    /\ \A e \in Edges : kernel.from < e /\ e <= kernel.own => EdgeApplied(e)
    /\ WriteJournal("migrated", "validated")

CommitStamp ==
    /\ KernelStep("validated", "stamp_committed")
    /\ stamp' = [min |-> kernel.own, committed |-> kernel.own]
    /\ UNCHANGED <<journal, disk, checkpoints, trail, litter, started, restorer, pruner>>

RecordCommitted == WriteJournal("stamp_committed", "committed")

FinishTransition ==
    /\ KernelStep("committed", "up")
    /\ journal' = NoJournal
    /\ UNCHANGED <<stamp, disk, checkpoints, trail, litter, started, restorer, pruner>>

-----------------------------------------------------------------------------
(* A running kernel.                                                       *)

\* server-info.json is written at the end of the boot: only now can another
\* process see the kernel.
Advertise ==
    /\ KernelStep("up", "live")
    /\ UNCHANGED <<home, restorer, pruner>>

\* The kernel writes user data, in the format of its own epoch.
WriteStore(s) ==
    /\ kernel.pc \in {"up", "live"}
    /\ disk[s].state # "torn"
    /\ disk[s].rev < MaxRev
    /\ disk' = [disk EXCEPT ![s] = [state |-> "ok", edges |-> EdgesAt(s, kernel.own),
                                    rev |-> @.rev + 1]]
    /\ UNCHANGED <<stamp, journal, checkpoints, trail, litter, started,
                   kernel, restorer, pruner>>

\* The kernel stops, dies or throws.  Dying inside a migration can leave one
\* store half rewritten; dying inside a metadata write, its temporary file,
\* which matters while the home is unstamped.
KernelCrash ==
    /\ kernel.pc # "off"
    /\ KernelExit
    /\ \/ disk' = disk
       \/ \E s \in Stores :
             /\ kernel.pc = "migrating" /\ InPath
             /\ s \in Affected[kernel.edge] /\ disk[s].state = "ok"
             /\ disk' = [disk EXCEPT ![s] = [state |-> "torn", edges |-> @.edges \cup {kernel.edge},
                                             rev |-> @.rev]]
    /\ \/ litter' = litter
       \/ stamp = NoStamp /\ kernel.pc \notin {"up", "live"} /\ litter' = TRUE
    /\ UNCHANGED <<stamp, journal, checkpoints, trail, started, restorer, pruner>>

-----------------------------------------------------------------------------
(* restoreDataEpochCheckpoint.                                             *)

RestorerStep(before, after) ==
    /\ restorer.pc = before
    /\ restorer' = [restorer EXCEPT !.pc = after]

RestoreJournal(phase) ==
    [kind |-> "restore", id |-> restorer.id, from |-> checkpoints[restorer.id].from,
     to |-> 0, phase |-> phase]

\* The stamp lies in the transition that the checkpoint undoes.
InScope(i) ==
    IF stamp = NoStamp THEN checkpoints[i].from = 1
    ELSE checkpoints[i].from <= stamp.committed /\ stamp.committed <= checkpoints[i].to

\* Mutant of EntryPoint: a restore does not recognise its own journal.
EntryAfresh(i) ==
    IF journal.kind = "none" \/ (journal.kind = "forward" /\ journal.id = i)
    THEN "journal" ELSE "refused"

\* Where a restore of i enters: it resumes its own journal at its phase, and
\* may start over no journal or over the forward journal of i itself.
EntryPoint(i) ==
    CASE Restoring /\ journal.id = i ->
            (CASE journal.phase = "restore:starting" -> "stores"
               [] journal.phase = "restore:stores_restored" -> "republish"
               [] OTHER -> "tail")
      [] journal.kind = "none" \/ (journal.kind = "forward" /\ journal.id = i) -> "journal"
      [] OTHER -> "refused"

\* The probe finds no advertised kernel and the checkpoint verifies.
BeginRestore(i) ==
    /\ restorer.pc = "off"
    /\ kernel.pc # "live"
    /\ checkpoints[i].published
    /\ EntryPoint(i) # "refused"
    /\ Serial => kernel.pc = "off" /\ pruner.pc = "off"
    /\ InOrder => InScope(i)
    /\ restorer' = [pc |-> EntryPoint(i), id |-> i, todo |-> checkpoints[i].stores, cur |-> {}]
    /\ UNCHANGED <<home, kernel, pruner>>

WriteRestoreJournal ==
    /\ RestorerStep("journal", "stores")
    /\ journal' = RestoreJournal("restore:starting")
    /\ trail' = [logged |-> 0, receipt |-> FALSE]
    /\ UNCHANGED <<stamp, disk, checkpoints, litter, started, kernel, pruner>>

Captured(s) == checkpoints[restorer.id].items[s]

\* The fast path: the store looks restored, only the reconciliation is left.
SkipStore(s) ==
    /\ restorer.pc = "stores"
    /\ s \in restorer.todo
    /\ SameShape(disk[s], Captured(s))
    /\ restorer' = [restorer EXCEPT !.pc = "reconcile", !.cur = {s}]
    /\ UNCHANGED <<home, kernel, pruner>>

\* Whatever the store holds is moved into the quarantine.
QuarantineStore(s) ==
    /\ restorer.pc = "stores"
    /\ s \in restorer.todo
    /\ ~SameShape(disk[s], Captured(s))
    /\ restorer' = [restorer EXCEPT !.pc = "copy", !.cur = {s}]
    /\ disk' = [disk EXCEPT ![s] = Missing]
    /\ UNCHANGED <<stamp, journal, checkpoints, trail, litter, started, kernel, pruner>>

CopyBack ==
    /\ RestorerStep("copy", "reconcile")
    /\ disk' = [s \in Stores |-> IF s \in restorer.cur /\ Captured(s).state # "missing"
                                 THEN Captured(s) ELSE disk[s]]
    /\ UNCHANGED <<stamp, journal, checkpoints, trail, litter, started, kernel, pruner>>

\* File for file, byte for byte: otherwise the restore throws.
Reconcile ==
    /\ restorer.pc = "reconcile"
    /\ restorer' = IF \A s \in restorer.cur : disk[s] = Captured(s)
                   THEN [restorer EXCEPT !.pc = "stores", !.todo = @ \ restorer.cur, !.cur = {}]
                   ELSE RestorerOff
    /\ UNCHANGED <<home, kernel, pruner>>

RecordStoresRestored ==
    /\ restorer.todo = {}
    /\ RestorerStep("stores", "republish")
    /\ journal' = RestoreJournal("restore:stores_restored")
    /\ UNCHANGED <<stamp, disk, checkpoints, trail, litter, started, kernel, pruner>>

\* republishDataEpochStampForRestore reads the journal afresh and throws
\* unless it is this restore's, past its stores.
Republish ==
    /\ restorer.pc = "republish"
    /\ IF /\ Restoring
          /\ journal.phase \in {"restore:stores_restored", "restore:metadata_republished"}
          /\ journal.from = checkpoints[restorer.id].from
       THEN /\ stamp' = [min |-> journal.from, committed |-> journal.from]
            /\ restorer' = [restorer EXCEPT !.pc = "republished"]
       ELSE UNCHANGED stamp /\ restorer' = RestorerOff
    /\ UNCHANGED <<journal, disk, checkpoints, trail, litter, started, kernel, pruner>>

RecordRepublished ==
    /\ RestorerStep("republished", "tail")
    /\ journal' = RestoreJournal("restore:metadata_republished")
    /\ UNCHANGED <<stamp, disk, checkpoints, trail, litter, started, kernel, pruner>>

\* The audit line (counted up to two), then the receipt, unless it exists.
AppendAudit ==
    /\ ~trail.receipt
    /\ RestorerStep("tail", "receipt")
    /\ trail' = [trail EXCEPT !.logged = IF @ < 2 THEN @ + 1 ELSE @]
    /\ UNCHANGED <<stamp, journal, disk, checkpoints, litter, started, kernel, pruner>>

WriteReceipt ==
    /\ RestorerStep("receipt", "tail")
    /\ trail' = [trail EXCEPT !.receipt = TRUE]
    /\ UNCHANGED <<stamp, journal, disk, checkpoints, litter, started, kernel, pruner>>

FinishRestore ==
    /\ restorer.pc = "tail"
    /\ trail.receipt
    /\ journal' = NoJournal
    /\ restorer' = RestorerOff
    /\ UNCHANGED <<stamp, disk, checkpoints, trail, litter, started, kernel, pruner>>

\* Dying inside the quarantine or the copy leaves part of a store's files.
RestorerCrash ==
    /\ restorer.pc # "off"
    /\ restorer' = RestorerOff
    /\ \/ disk' = disk
       \/ \E s \in restorer.cur :
             /\ restorer.pc = "copy" /\ Captured(s).state # "missing"
             /\ disk' = [disk EXCEPT ![s] = [Captured(s) EXCEPT !.state = "torn"]]
       \/ \E s \in restorer.todo :
             /\ restorer.pc = "stores" /\ disk[s].state = "ok"
             /\ ~SameShape(disk[s], Captured(s))
             /\ disk' = [disk EXCEPT ![s].state = "torn"]
    /\ UNCHANGED <<stamp, journal, checkpoints, trail, litter, started, kernel, pruner>>

-----------------------------------------------------------------------------
(* pruneDataEpochCheckpoints: it refuses on a journal it cannot read as a  *)
(* forward one, and otherwise protects the checkpoint that journal names.  *)

\* Mutant of BeginPrune: a journal that does not parse protects nothing.
PruneUnparsed ==
    /\ pruner.pc = "off"
    /\ Serial => kernel.pc = "off" /\ restorer.pc = "off"
    /\ pruner' = [pc |-> "delete",
                  protected |-> IF Restoring \/ journal.phase = "prepared" THEN 0 ELSE journal.id]
    /\ UNCHANGED <<home, kernel, restorer>>

BeginPrune ==
    /\ pruner.pc = "off"
    /\ ~Restoring
    /\ Serial => kernel.pc = "off" /\ restorer.pc = "off"
    /\ pruner' = [pc |-> "delete",
                  protected |-> IF journal.phase = "prepared" THEN 0 ELSE journal.id]
    /\ UNCHANGED <<home, kernel, restorer>>

\* The n newest published checkpoints; the size cap decides n.
Newest(n) ==
    {i \in Ids : /\ checkpoints[i].published
                 /\ Cardinality({k \in Ids : k > i /\ checkpoints[k].published}) < n}

Prune(n) ==
    /\ pruner.pc = "delete"
    /\ checkpoints' = [i \in Ids |-> IF i \in Newest(n) \/ i = pruner.protected
                                     THEN checkpoints[i] ELSE NoCheckpoint]
    /\ pruner' = PrunerOff
    /\ UNCHANGED <<stamp, journal, disk, trail, litter, started, kernel, restorer>>

-----------------------------------------------------------------------------
Gate ==
    \/ \E own \in Builds, override \in BOOLEAN : Launch(own, override)
    \/ CleanCommittedTail
    \/ StampUnstamped
    \/ Refresh
    \/ OpenDowngraded
    \/ OpenBaseline
    \/ Refuse
    \/ BeginTransition

Transition ==
    \/ Prepare
    \/ CreateCheckpoint
    \/ CompleteCheckpoint
    \/ RaiseBarrier
    \/ RecordBarrier
    \/ StartMigrating
    \/ \E s \in Stores : MigrateStore(s)
    \/ NextEdge
    \/ RecordMigrated
    \/ RecordValidated
    \/ CommitStamp
    \/ RecordCommitted
    \/ FinishTransition

Running ==
    \/ Advertise
    \/ \E s \in Stores : WriteStore(s)
    \/ KernelCrash

RestoreSteps ==
    \/ \E i \in Ids : BeginRestore(i)
    \/ WriteRestoreJournal
    \/ \E s \in Stores : SkipStore(s) \/ QuarantineStore(s)
    \/ CopyBack
    \/ Reconcile
    \/ RecordStoresRestored
    \/ Republish
    \/ RecordRepublished
    \/ AppendAudit
    \/ WriteReceipt
    \/ FinishRestore

Pruning ==
    \/ BeginPrune
    \/ \E n \in 1 .. Retained : Prune(n)

Next == Gate \/ Transition \/ Running \/ RestoreSteps \/ RestorerCrash \/ Pruning

Spec == Init /\ [][Next]_vars

\* An operator who reruns the restore as often as it dies, and processes that
\* are not left hanging: each step of the restore is taken in the end, a gate
\* that refuses exits, a prune ends.
FairSpec ==
    /\ Spec
    /\ WF_vars(Refuse) /\ WF_vars(OpenBaseline)
    /\ WF_vars(\E n \in 1 .. Retained : Prune(n))
    /\ \A i \in Ids : SF_vars(BeginRestore(i))
    /\ SF_vars(WriteRestoreJournal)
    /\ \A s \in Stores : SF_vars(SkipStore(s)) /\ SF_vars(QuarantineStore(s))
    /\ SF_vars(CopyBack)
    /\ SF_vars(Reconcile)
    /\ SF_vars(RecordStoresRestored)
    /\ SF_vars(Republish)
    /\ SF_vars(RecordRepublished)
    /\ SF_vars(AppendAudit)
    /\ SF_vars(WriteReceipt)
    /\ SF_vars(FinishRestore)

-----------------------------------------------------------------------------
(* Properties.                                                             *)

StampType == [min : 0 .. MaxEpoch, committed : 0 .. MaxEpoch]
JournalType == [kind : {"none", "forward", "restore"}, id : 0 .. MaxTransitions,
                from : 0 .. MaxEpoch, to : 0 .. MaxEpoch,
                phase : ForwardPhases \cup RestorePhases \cup {"none"}]
CheckpointType == [published : BOOLEAN, from : 0 .. MaxEpoch, to : 0 .. MaxEpoch,
                   stores : SUBSET Stores, items : [Stores -> Content]]
TrailType == [logged : 0 .. 2, receipt : BOOLEAN]
KernelType == [pc : KernelPcs, own : 0 .. MaxEpoch, override : BOOLEAN,
               id : 0 .. MaxTransitions, from : 0 .. MaxEpoch, edge : 0 .. MaxEpoch + 1]
RestorerType == [pc : RestorerPcs, id : 0 .. MaxTransitions, todo : SUBSET Stores,
                 cur : SUBSET Stores]
PrunerType == [pc : {"off", "delete"}, protected : 0 .. MaxTransitions]

TypeOK ==
    /\ stamp \in StampType
    /\ journal \in JournalType
    /\ disk \in [Stores -> Content]
    /\ checkpoints \in [Ids -> CheckpointType]
    /\ trail \in TrailType
    /\ litter \in BOOLEAN
    /\ started \in 0 .. MaxTransitions
    /\ kernel \in KernelType
    /\ restorer \in RestorerType
    /\ pruner \in PrunerType

\* The reader barrier covers the data: whatever died when, no store carries a
\* migration that the stamp's minimumReaderEpoch does not announce, so a build
\* that cannot read the data is always refused.
BarrierCovers == \A s \in Stores : \A k \in disk[s].edges : k <= stamp.min

\* A home with no journal is whole: every store is in exactly the format of
\* the committed epoch, however many transitions and restores came before.
SteadyHome ==
    journal = NoJournal /\ stamp # NoStamp =>
        /\ stamp.min = stamp.committed
        /\ \A s \in Stores : /\ disk[s].state # "torn"
                             /\ disk[s].state = "ok" => disk[s].edges = EdgesAt(s, stamp.committed)

\* A kernel that runs without the override finds its own format in every store.
RunningReadsOwnFormat ==
    kernel.pc \in {"up", "live"} /\ ~kernel.override =>
        \A s \in Stores : disk[s].state = "ok" => disk[s].edges = EdgesAt(s, kernel.own)

\* An interrupted transition is always recognised as one: its journal never
\* contradicts the stamp, even after crashes, prunes and abandoned restores.
JournalMatchesStamp == journal.kind = "forward" => Consistent

\* The way back stays open: past "prepared", and all through a restore, the
\* checkpoint is there and holds the stores as they were at the source epoch.
CheckpointKept ==
    journal.kind = "restore" \/ (journal.kind = "forward" /\ journal.phase # "prepared") =>
        /\ checkpoints[journal.id].published
        /\ checkpoints[journal.id].from = journal.from
        /\ \A s \in checkpoints[journal.id].stores :
              checkpoints[journal.id].items[s].edges \subseteq EdgesAt(s, journal.from)

\* Only the republication of a restore that has put its stores back lowers the
\* stamp; no gate, refresh, override or transition ever does.
StampLoweredOnlyByRestore ==
    [][stamp'.min < stamp.min => Restoring /\ journal.phase # "restore:starting"]_vars

\* The gate lets nobody past evidence of a partial write: neither a downgrade
\* override past a forward journal, nor a build above 1 past a restore.
GateHonoursJournal ==
    [][kernel.pc = "gate" /\ kernel'.pc = "up" =>
          journal.kind # "forward" /\ (kernel.own > 1 => ~Restoring)]_vars

\* "a rerun with the same arguments finishes the job": a restore that has
\* begun is completed, unless a kernel of the baseline epoch runs beside it.
RestoreFinishes == Restoring ~> (~Restoring \/ kernel.pc \in {"up", "live"})

=============================================================================
