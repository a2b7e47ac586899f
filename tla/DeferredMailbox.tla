---------------------------- MODULE DeferredMailbox ----------------------------
(* The mailbox that the store, the coordinator and the bridge of              *)
(* DeferredResults make together.                                             *)
EXTENDS DeferredResults

\* A record as a letter: its attempt is the issue, its flags say where it stands.
Standing(r) ==
    CASE r.status = "absent"  -> "none"
      [] r.status = "pending" -> "open"
      [] Deliverable(r)       -> "due"
      [] r.fenced             -> "silent"
      [] OTHER                -> "done"
LetterOf(r) == [state |-> Standing(r), issue |-> r.attempt]
LettersOf(rs) == [t \in Task |-> LetterOf(rs[t])]

\* A delivery that loads the session is a courier on its way.
Loads(f) == IF f.stage = "loading" THEN f.attempt ELSE 0
Couriers == [t \in Task |-> Loads(flight[t])]

Box == INSTANCE Mailbox WITH letter <- LettersOf(task), saved <- LettersOf(disk),
                             issued <- made, held <- Couriers

(* Whatever fails, dies or is silenced in between, an outcome is put to its  *)
(* recipient when it is known, not twice without a reason, and its record is *)
(* closed only for that or for a fence: the store, the coordinator and the   *)
(* bridge together implement Mailbox.                                        *)
ImplementsMailbox == Box!Spec
=============================================================================
