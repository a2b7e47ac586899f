---------------------------- MODULE DataEpochHome ----------------------------
(* The home that the kernel, the restorer and the pruner of DataEpoch show   *)
(* to the user: a transition happens when the stamp commits it, a restore    *)
(* when its journal is written, whatever dies before or after.               *)
EXTENDS DataEpoch

\* The stores under the journal count as what its checkpoint holds of them: from the
\* complete checkpoint of a transition to its commit, and all through a restore.
Covered(s) ==
    /\ journal.kind # "none" /\ s \in checkpoints[journal.id].stores
    /\ Restoring \/ (journal.phase # "prepared" /\ stamp.committed # journal.to)

HomeContent == [s \in Stores |-> IF Covered(s) THEN checkpoints[journal.id].items[s] ELSE disk[s]]
HomeEpoch == IF Restoring THEN journal.from ELSE stamp.committed
HomeKept ==
    {[from |-> checkpoints[i].from,
      stores |-> [s \in checkpoints[i].stores |-> checkpoints[i].items[s]]] :
         i \in {k \in Ids : checkpoints[k].published}}

Home == INSTANCE EpochHome WITH FormatAt <- EdgesAt, epoch <- HomeEpoch,
                                content <- HomeContent, kept <- HomeKept

\* Through crashes, restores, prunes and reruns the home is whole at every moment and
\* in one format: data-epoch protection implements EpochHome.
ImplementsHome == Home!Spec
=============================================================================
