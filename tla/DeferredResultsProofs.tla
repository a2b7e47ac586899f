------------------------ MODULE DeferredResultsProofs ------------------------
(***************************************************************************)
(* Proofs about DeferredResults, for any sets of tasks and any bounds.     *)
(***************************************************************************)
EXTENDS DeferredMailbox, TLAPS

-----------------------------------------------------------------------------
(* Types.                                                                  *)

\* The operators on records return records.
LEMMA RecordTypes ==
    ASSUME NEW r \in Record
    PROVE  Fenced(r) \in Record /\ Marked(r) \in Record /\ Swept(r) \in Record
  <1>1. Absent \in Record
    BY BoundAssumption DEF Absent, Record, Status
  <1>2. Fenced(r) \in Record
    BY DEF Fenced, Record, Status, Settled
  <1>3. Marked(r) \in Record
    BY DEF Marked, Record
  <1>4. Swept(r) \in Record
    BY <1>1, <1>2 DEF Swept
  <1> QED BY <1>2, <1>3, <1>4

\* A registration within the bound is a record.
LEMMA FreshType ==
    ASSUME NEW a \in 0 .. MaxAttempt
    PROVE  Fresh(a) \in Record
  BY DEF Fresh, Record, Status

\* The three ghosts of a telling keep their type.
LEMMA TellType ==
    ASSUME TypeOK, NEW S, NEW attempt, \A t \in Task : attempt[t] \in 0 .. MaxAttempt,
           Tell(S, attempt)
    PROVE  /\ told' \in [Task -> SUBSET (0 .. MaxAttempt)]
           /\ doubt' \in [Task -> SUBSET (0 .. MaxAttempt)]
           /\ twice' \in [Task -> SUBSET (0 .. MaxAttempt)]
  BY DEF TypeOK, Tell

\* The same for a single task.
LEMMA TellOneType ==
    ASSUME TypeOK, NEW t, NEW a \in 0 .. MaxAttempt, TellOne(t, a)
    PROVE  /\ told' \in [Task -> SUBSET (0 .. MaxAttempt)]
           /\ doubt' \in [Task -> SUBSET (0 .. MaxAttempt)]
           /\ twice' \in [Task -> SUBSET (0 .. MaxAttempt)]
  <1> DEFINE at == [u \in Task |-> a]
  <1>1. \A u \in Task : at[u] \in 0 .. MaxAttempt
    OBVIOUS
  <1>2. Tell({t}, at)
    BY DEF TellOne
  <1> HIDE DEF at
  <1> QED BY <1>1, <1>2, TellType

\* A doubted telling keeps the types.
LEMMA DoubtType ==
    ASSUME TypeOK, NEW t \in Task, NEW a \in 0 .. MaxAttempt, Doubt(t, a)
    PROVE  /\ told' \in [Task -> SUBSET (0 .. MaxAttempt)]
           /\ doubt' \in [Task -> SUBSET (0 .. MaxAttempt)]
           /\ twice' \in [Task -> SUBSET (0 .. MaxAttempt)]
  BY DEF TypeOK, Doubt

\* The start of a delivery keeps the types of what it changes.
LEMMA DeliverType ==
    ASSUME TypeOK, NEW tk \in [Task -> Record], NEW t \in Task, Deliver(tk, t)
    PROVE  /\ task' \in [Task -> Record]
           /\ flight' \in [Task -> Flight]
           /\ told' \in [Task -> SUBSET (0 .. MaxAttempt)]
           /\ doubt' \in [Task -> SUBSET (0 .. MaxAttempt)]
           /\ twice' \in [Task -> SUBSET (0 .. MaxAttempt)]
  <1> DEFINE a == tk[t].attempt
  <1>1. a \in 0 .. MaxAttempt /\ tk[t] \in Record
    BY DEF Record
  <1>2. CASE task' = tk /\ Refused
    BY <1>2 DEF TypeOK, Refused
  <1>3. CASE task' = [tk EXCEPT ![t] = Fenced(tk[t])] /\ Refused
    BY <1>1, <1>3, RecordTypes DEF TypeOK, Refused
  <1>4. CASE task' = tk /\ StartLoading(t, a)
    <2>1. [stage |-> "loading", attempt |-> a] \in Flight
      BY <1>1 DEF Flight
    <2> QED BY <1>4, <2>1 DEF TypeOK, StartLoading
  <1>5. CASE task' = tk /\ StartSending(t, a)
    <2>1. [stage |-> "sending", attempt |-> a] \in Flight
      BY <1>1 DEF Flight
    <2>2. TellOne(t, a) /\ flight' = [flight EXCEPT ![t] = [stage |-> "sending", attempt |-> a]]
      BY <1>5 DEF StartSending
    <2>3. flight' \in [Task -> Flight]
      BY <2>1, <2>2 DEF TypeOK
    <2> QED BY <1>1, <1>5, <2>2, <2>3, TellOneType
  <1> QED BY <1>2, <1>3, <1>4, <1>5 DEF Deliver

\* The types hold initially.
LEMMA TypeInit == Init => TypeOK
  <1> SUFFICES ASSUME Init PROVE TypeOK
    OBVIOUS
  <1>1. Absent \in Record /\ Idle \in Flight
    BY BoundAssumption DEF Absent, Record, Status, Idle, Flight
  <1> QED BY <1>1, BoundAssumption DEF Init, TypeOK

\* Every step keeps the types.
LEMMA TypeStep == TypeOK /\ [Next]_vars => TypeOK'
  <1> SUFFICES ASSUME TypeOK, [Next]_vars PROVE TypeOK'
    OBVIOUS
  <1> USE BoundAssumption
  <1>0. Absent \in Record /\ Idle \in Flight
    BY DEF Absent, Record, Status, Idle, Flight
  <1>1. ASSUME NEW t \in Task, Defer(t) PROVE TypeOK'
    <2>1. Fresh(1) \in Record /\ 1 \in 0 .. MaxAttempt
      BY <1>1, FreshType DEF Defer
    <2> QED BY <1>1, <2>1 DEF Defer, TypeOK
  <1>2. ASSUME NEW t \in Task, NEW s \in Settled, Settle(t, s) PROVE TypeOK'
    <2> DEFINE r == [status |-> s, attempt |-> task[t].attempt,
                     delivered |-> task[t].delivered, fenced |-> task[t].fenced]
               tk == [task EXCEPT ![t] = r]
    <2>1. task[t] \in Record
      BY DEF TypeOK
    <2>2. r \in Record /\ r.attempt \in 0 .. MaxAttempt
      BY <2>1 DEF Record, Status
    <2>3. tk \in [Task -> Record]
      BY <2>2 DEF TypeOK
    <2>4. CASE Deliver(tk, t) /\ UNCHANGED bridge
      BY <1>2, <2>3, <2>4, DeliverType DEF Settle, TypeOK
    <2>5. CASE task' = tk /\ BridgeEvent(t, r.attempt) /\ UNCHANGED flight
      <3>1. CASE UNCHANGED <<bridge, told, doubt, twice>>
        BY <1>2, <2>3, <2>5, <3>1 DEF Settle, TypeOK
      <3>2. CASE /\ bridge' = [bridge EXCEPT ![t] = [stage |-> "sending", attempt |-> r.attempt]]
                 /\ TellOne(t, r.attempt)
        <4>1. [stage |-> "sending", attempt |-> r.attempt] \in Flight
          BY <2>2 DEF Flight
        <4>2. bridge' \in [Task -> Flight]
          BY <3>2, <4>1 DEF TypeOK
        <4> HIDE DEF r, tk
        <4> QED BY <1>2, <2>2, <2>3, <2>5, <3>2, <4>2, TellOneType DEF Settle, TypeOK
      <3> QED BY <2>5, <3>1, <3>2 DEF BridgeEvent
    <2> QED BY <1>2, <2>4, <2>5 DEF Settle
  <1>3. ASSUME NEW t \in Task, Retry(t) PROVE TypeOK'
    <2>1. made[t] + 1 \in 0 .. MaxAttempt
      BY <1>3 DEF Retry, TypeOK
    <2>2. Fresh(made[t] + 1) \in Record
      BY <2>1, FreshType
    <2> QED BY <1>3, <2>1, <2>2 DEF Retry, TypeOK
  <1>4. ASSUME NEW t \in Task, Cleanup(t) PROVE TypeOK'
    BY <1>0, <1>4 DEF Cleanup, TypeOK
  <1>5. ASSUME NEW t \in Task, Tick(t) PROVE TypeOK'
    <2>1. task \in [Task -> Record] /\ Deliver(task, t)
      BY <1>5 DEF Tick, TypeOK
    <2> QED BY <1>5, <2>1, DeliverType DEF Tick, TypeOK
  <1>6. ASSUME NEW t \in Task, LoadFail(t) PROVE TypeOK'
    BY <1>0, <1>6 DEF LoadFail, TypeOK
  <1>7. ASSUME NEW t \in Task, LoadOk(t) PROVE TypeOK'
    <2>1. flight[t] \in Flight
      BY DEF TypeOK
    <2>2. flight[t].attempt \in 0 .. MaxAttempt
      BY <2>1 DEF Flight
    <2>3. CASE flight' = [flight EXCEPT ![t] = Idle] /\ UNCHANGED <<told, doubt, twice>>
      BY <1>0, <1>7, <2>3 DEF LoadOk, TypeOK
    <2>4. CASE StartSending(t, flight[t].attempt)
      <3>1. [stage |-> "sending", attempt |-> flight[t].attempt] \in Flight
        BY <2>2 DEF Flight
      <3>2. flight' \in [Task -> Flight]
        BY <2>4, <3>1 DEF StartSending, TypeOK
      <3>3. TellOne(t, flight[t].attempt)
        BY <2>4 DEF StartSending
      <3> QED BY <1>7, <2>2, <3>2, <3>3, TellOneType DEF LoadOk, TypeOK
    <2> QED BY <1>7, <2>3, <2>4 DEF LoadOk
  <1>8. ASSUME NEW t \in Task, SendOk(t) PROVE TypeOK'
    <2>1. Marked(task[t]) \in Record
      BY RecordTypes DEF TypeOK
    <2> QED BY <1>0, <1>8, <2>1 DEF SendOk, MarkIfPresent, TypeOK
  <1>9. ASSUME NEW t \in Task, SendFail(t) PROVE TypeOK'
    <2>1. flight[t] \in Flight
      BY DEF TypeOK
    <2>2. flight[t].attempt \in 0 .. MaxAttempt
      BY <2>1 DEF Flight
    <2> QED BY <1>0, <1>9, <2>2, DoubtType DEF SendFail, TypeOK
  <1>10. ASSUME NEW t \in Task, BridgeOk(t) PROVE TypeOK'
    <2>1. bridge[t] \in Flight /\ Marked(task[t]) \in Record
      BY RecordTypes DEF TypeOK
    <2>2. [stage |-> "done", attempt |-> bridge[t].attempt] \in Flight
      BY <2>1 DEF Flight
    <2> QED BY <1>10, <2>1, <2>2 DEF BridgeOk, MarkIfPresent, TypeOK
  <1>11. ASSUME NEW t \in Task, BridgeFail(t) PROVE TypeOK'
    <2>1. bridge[t] \in Flight
      BY DEF TypeOK
    <2>2. bridge[t].attempt \in 0 .. MaxAttempt
      BY <2>1 DEF Flight
    <2> QED BY <1>0, <1>11, <2>2, DoubtType DEF BridgeFail, TypeOK
  <1>12. ASSUME NEW S, Suppress(S) PROVE TypeOK'
    <2>1. \A t \in Task : Fenced(task[t]) \in Record
      BY RecordTypes DEF TypeOK
    <2> QED BY <1>12, <2>1 DEF Suppress, TypeOK
  <1>13. CASE Flush
    BY <1>13 DEF Flush, TypeOK
  <1>14. CASE ScanFire
    <2> DEFINE at == [t \in Task |-> task[t].attempt]
    <2>1. \A t \in Task : Marked(task[t]) \in Record /\ at[t] \in 0 .. MaxAttempt
      BY RecordTypes DEF TypeOK, Record
    <2>2. PICK S : /\ Tell(S, at)
                   /\ task' = [t \in Task |-> IF t \in S THEN Marked(task[t]) ELSE task[t]]
      BY <1>14 DEF ScanFire
    <2>3. task' \in [Task -> Record]
      BY <2>1, <2>2 DEF TypeOK
    <2> HIDE DEF at
    <2> QED BY <1>14, <2>1, <2>2, <2>3, TellType DEF ScanFire, TypeOK
  <1>15. CASE OpenSession \/ Hibernate \/ ArchiveEnd
    BY <1>15 DEF OpenSession, Hibernate, ArchiveEnd, Shutdown, TypeOK
  <1>16. CASE ArchiveBegin \/ Unarchive
    <2>1. \A t \in Task : Swept(task[t]) \in Record
      BY RecordTypes DEF TypeOK
    <2>2. task' \in [Task -> Record]
      BY <1>16, <2>1 DEF ArchiveBegin, Unarchive, Sweep, TypeOK
    <2> QED BY <1>16, <2>2 DEF ArchiveBegin, Unarchive, Shutdown, TypeOK
  <1>17. CASE Crash
    BY <1>0, <1>17 DEF Crash, TypeOK
  <1>18. CASE UNCHANGED vars
    BY <1>18 DEF vars, TypeOK
  <1> QED
    BY <1>1, <1>2, <1>3, <1>4, <1>5, <1>6, <1>7, <1>8, <1>9, <1>10, <1>11, <1>12,
       <1>13, <1>14, <1>15, <1>16, <1>17, <1>18
    DEF Next, DiscardBranch, AbortTurn

(* Every variable keeps its type in every behaviour of the store, the      *)
(* coordinator, the bridge and the session.                                *)
THEOREM DeferredTypes == Spec => []TypeOK
  BY TypeInit, TypeStep, PTL DEF Spec

-----------------------------------------------------------------------------
(* The fence.                                                              *)

\* A fenced record is closed: it has an outcome and counts as delivered.
Closed(r) == r.fenced => r.delivered /\ r.status \in Settled

FenceInv == TypeOK /\ \A t \in Task : Closed(task[t]) /\ Closed(disk[t])

\* Suppressing, marking and sweeping a record leave it closed.
LEMMA ClosedRecords ==
    ASSUME NEW r \in Record, Closed(r)
    PROVE  /\ Closed(Marked(r)) /\ Closed(Swept(r))
           /\ r.status # "absent" => Closed(Fenced(r))
  <1>1. Closed(Marked(r))
    BY DEF Closed, Marked
  <1>2. r.status # "absent" => Closed(Fenced(r))
    BY DEF Closed, Fenced, Record, Status, Settled
  <1>3. Closed(Absent)
    BY DEF Closed, Absent
  <1>4. Closed(Swept(r))
    BY <1>2, <1>3 DEF Swept, Open, Deliverable, Settled
  <1> QED BY <1>1, <1>2, <1>4

\* Nothing is fenced initially, and every step keeps the fenced tasks closed.
LEMMA FenceInit == Init => FenceInv
  BY TypeInit DEF Init, FenceInv, Closed, Absent

LEMMA FenceStep == FenceInv /\ [Next]_vars => FenceInv'
  <1> SUFFICES ASSUME FenceInv, [Next]_vars PROVE FenceInv'
    OBVIOUS
  <1>0. TypeOK /\ TypeOK'
    BY TypeStep DEF FenceInv
  <1> SUFFICES ASSUME NEW u \in Task PROVE Closed(task[u])' /\ Closed(disk[u])'
    BY <1>0 DEF FenceInv
  <1>1. /\ Closed(task[u]) /\ Closed(disk[u]) /\ task[u] \in Record
        /\ \A t \in Task : task[t] \in Record /\ Closed(task[t])
    BY <1>0 DEF FenceInv, TypeOK
  <1>2. Closed(Absent) /\ \A a : Closed(Fresh(a))
    BY DEF Closed, Absent, Fresh
  \* It is enough that the record of u is closed after the step.
  <1>3. ASSUME Closed(task'[u]), disk'[u] = disk[u] PROVE Closed(task[u])' /\ Closed(disk[u])'
    BY <1>1, <1>3 DEF Closed
  <1>4. ASSUME task'[u] = task[u], disk'[u] = disk[u]
        PROVE  Closed(task[u])' /\ Closed(disk[u])'
    BY <1>1, <1>4 DEF Closed
  <1>5. ASSUME NEW t \in Task, NEW tk \in [Task -> Record], Deliver(tk, t), Closed(tk[u])
        PROVE  Closed(task'[u])
    <2>1. CASE task' = tk
      BY <1>5, <2>1
    <2>2. CASE ~Skips(tk, t) /\ task' = [tk EXCEPT ![t] = Fenced(tk[t])]
      <3>1. tk[t].status # "absent"
        BY <2>2 DEF Skips, Deliverable, Settled
      <3>2. CASE u = t
        BY <1>5, <2>2, <3>1, <3>2, ClosedRecords
      <3>3. CASE u # t
        BY <1>5, <2>2, <3>3
      <3> QED BY <3>2, <3>3
    <2> QED BY <1>5, <2>1, <2>2 DEF Deliver
  <1>6. ASSUME NEW t \in Task, Defer(t) PROVE Closed(task'[u]) /\ disk' = disk
    BY <1>0, <1>1, <1>2, <1>6 DEF Defer, TypeOK
  <1>7. ASSUME NEW t \in Task, NEW s \in Settled, Settle(t, s)
        PROVE  Closed(task'[u]) /\ disk' = disk
    <2> DEFINE r == [status |-> s, attempt |-> task[t].attempt,
                     delivered |-> task[t].delivered, fenced |-> task[t].fenced]
               tk == [task EXCEPT ![t] = r]
    <2>1. r \in Record
      BY <1>1 DEF Record, Status
    <2>2. tk \in [Task -> Record]
      BY <1>0, <2>1 DEF TypeOK
    <2>3. Closed(r)
      BY <1>1 DEF Closed
    <2>4. Closed(tk[u])
      BY <1>0, <1>1, <2>3 DEF TypeOK
    <2>5. CASE Deliver(tk, t)
      BY <1>5, <1>7, <2>2, <2>4, <2>5 DEF Settle
    <2>6. CASE task' = tk
      BY <1>7, <2>4, <2>6 DEF Settle
    <2> QED BY <1>7, <2>5, <2>6 DEF Settle
  <1>8. ASSUME NEW t \in Task, Retry(t) PROVE Closed(task'[u]) /\ disk' = disk
    BY <1>0, <1>1, <1>2, <1>8 DEF Retry, TypeOK
  <1>9. ASSUME NEW t \in Task, Cleanup(t) PROVE Closed(task'[u]) /\ disk' = disk
    BY <1>0, <1>1, <1>2, <1>9 DEF Cleanup, TypeOK
  <1>10. ASSUME NEW t \in Task, Tick(t) PROVE Closed(task'[u]) /\ disk' = disk
    BY <1>0, <1>1, <1>5, <1>10 DEF Tick, TypeOK
  <1>11. ASSUME NEW t \in Task, SendOk(t) \/ BridgeOk(t) PROVE Closed(task'[u]) /\ disk' = disk
    BY <1>0, <1>1, <1>11, ClosedRecords DEF SendOk, BridgeOk, MarkIfPresent, TypeOK
  <1>12. ASSUME NEW t \in Task, LoadFail(t) \/ LoadOk(t) \/ SendFail(t) \/ BridgeFail(t)
         PROVE  task' = task /\ disk' = disk
    BY <1>12 DEF LoadFail, LoadOk, SendFail, BridgeFail
  <1>13. ASSUME NEW S, \A t \in S : task[t].status # "absent", Suppress(S)
         PROVE  Closed(task'[u]) /\ disk' = disk
    BY <1>0, <1>1, <1>13, ClosedRecords DEF Suppress, TypeOK
  <1>14. CASE DiscardBranch
    BY <1>13, <1>3, <1>14 DEF DiscardBranch
  <1>15. CASE AbortTurn
    BY <1>13, <1>3, <1>15 DEF AbortTurn, Open, Deliverable, Settled
  <1>16. CASE Flush
    BY <1>1, <1>16 DEF Flush, Closed
  <1>17. CASE ScanFire
    <2>1. Closed(task'[u]) /\ disk' = disk
      BY <1>0, <1>1, <1>17, ClosedRecords DEF ScanFire, TypeOK
    <2> QED BY <1>3, <2>1
  <1>18. CASE OpenSession \/ Hibernate \/ ArchiveEnd
    BY <1>4, <1>18 DEF OpenSession, Hibernate, ArchiveEnd
  <1>19. CASE ArchiveBegin \/ Unarchive
    <2>1. Closed(task'[u]) /\ disk' = disk
      BY <1>0, <1>1, <1>19, ClosedRecords DEF ArchiveBegin, Unarchive, Sweep, TypeOK
    <2> QED BY <1>3, <2>1
  <1>20. CASE Crash
    <2>1. Closed(task'[u]) /\ disk' = disk
      BY <1>1, <1>2, <1>20 DEF Crash
    <2> QED BY <1>3, <2>1
  <1>21. CASE UNCHANGED vars
    BY <1>4, <1>21 DEF vars
  <1> QED
    BY <1>3, <1>4, <1>6, <1>7, <1>8, <1>9, <1>10, <1>11, <1>12, <1>14, <1>15, <1>16,
       <1>17, <1>18, <1>19, <1>20, <1>21
    DEF Next

\* The fence survives the step on a record, or the record is given up.
LEMMA FenceStands ==
    ASSUME NEW r \in Record, r.fenced
    PROVE  /\ Fenced(r).fenced /\ Marked(r).fenced
           /\ Swept(r).fenced \/ Swept(r).status = "absent"
  BY DEF Fenced, Marked, Swept, Absent

\* The start of a delivery does not touch a fenced record.
LEMMA DeliverFenced ==
    ASSUME TypeOK, NEW tk \in [Task -> Record], NEW t \in Task, Deliver(tk, t),
           NEW u \in Task, tk[u].fenced
    PROVE  task'[u].fenced
  <1>1. CASE task' = tk
    BY <1>1
  <1>2. CASE task' = [tk EXCEPT ![t] = Fenced(tk[t])]
    BY <1>2, FenceStands
  <1> QED BY <1>1, <1>2 DEF Deliver

\* No step but a retry, a cleanup or a crash lifts the fence of a task.
LEMMA FenceStandsStep ==
    ASSUME FenceInv, Next, NEW u \in Task, task[u].fenced
    PROVE  \/ task'[u].fenced \/ task'[u].status = "absent"
           \/ made'[u] # made[u] \/ crashes' # crashes
  <1>0. TypeOK /\ Closed(task[u])
    BY DEF FenceInv
  <1>1. /\ task[u] \in Record /\ task \in [Task -> Record] /\ task[u].status # "pending"
        /\ Absent.status = "absent"
    BY <1>0 DEF TypeOK, Closed, Settled, Absent
  <1>2. ASSUME NEW t \in Task, Defer(t) \/ Retry(t)
        PROVE  task'[u].fenced \/ made'[u] # made[u]
    <2>1. t = u => made'[u] # made[u]
      BY <1>0, <1>2 DEF Defer, Retry, TypeOK
    <2>2. t # u => task'[u] = task[u]
      BY <1>0, <1>2 DEF Defer, Retry, TypeOK
    <2> QED BY <2>1, <2>2
  <1>3. ASSUME NEW t \in Task, NEW s \in Settled, Settle(t, s) PROVE task'[u].fenced
    <2> DEFINE r == [status |-> s, attempt |-> task[t].attempt,
                     delivered |-> task[t].delivered, fenced |-> task[t].fenced]
               tk == [task EXCEPT ![t] = r]
    <2>1. task[t] \in Record
      BY <1>0 DEF TypeOK
    <2>2. tk \in [Task -> Record]
      BY <1>0, <2>1 DEF TypeOK, Record, Status
    <2>3. tk[u].fenced
      BY <1>0 DEF TypeOK
    <2>4. CASE Deliver(tk, t)
      BY <1>0, <2>2, <2>3, <2>4, DeliverFenced
    <2>5. CASE task' = tk
      BY <2>3, <2>5
    <2> QED BY <1>3, <2>4, <2>5 DEF Settle
  <1>4. ASSUME NEW t \in Task, Cleanup(t)
        PROVE  task'[u].fenced \/ task'[u].status = "absent"
    BY <1>1, <1>4 DEF Cleanup
  <1>5. ASSUME NEW t \in Task, Tick(t) PROVE task'[u].fenced
    BY <1>0, <1>1, <1>5, DeliverFenced DEF Tick
  <1>6. ASSUME NEW t \in Task, SendOk(t) \/ BridgeOk(t) PROVE task'[u].fenced
    BY <1>1, <1>6, FenceStands DEF SendOk, BridgeOk, MarkIfPresent
  <1>7. ASSUME NEW t \in Task, LoadFail(t) \/ LoadOk(t) \/ SendFail(t) \/ BridgeFail(t)
        PROVE  task'[u].fenced
    BY <1>7 DEF LoadFail, LoadOk, SendFail, BridgeFail
  <1>8. ASSUME NEW S, Suppress(S) PROVE task'[u].fenced
    BY <1>1, <1>8, FenceStands DEF Suppress
  <1>9. CASE ScanFire
    BY <1>1, <1>9, FenceStands DEF ScanFire
  <1>10. CASE Flush \/ OpenSession \/ Hibernate \/ ArchiveEnd
    BY <1>10 DEF Flush, OpenSession, Hibernate, ArchiveEnd
  <1>11. CASE ArchiveBegin \/ Unarchive
    BY <1>1, <1>11, FenceStands DEF ArchiveBegin, Unarchive, Sweep
  <1>12. CASE Crash
    BY <1>0, <1>12 DEF Crash, TypeOK
  <1> QED
    BY <1>2, <1>3, <1>4, <1>5, <1>6, <1>7, <1>8, <1>9, <1>10, <1>11, <1>12
    DEF Next, DiscardBranch, AbortTurn

(* Suppression is final until the task is registered again, cleaned up or  *)
(* lost in a crash, whatever deliveries are under way when it happens.     *)
THEOREM FenceIsFinal == Spec => FenceHolds
  <1>1. FenceInv /\ [Next]_vars =>
          [\A t \in Task : task[t].fenced =>
              \/ task'[t].fenced \/ task'[t].status = "absent"
              \/ made'[t] # made[t] \/ crashes' # crashes]_vars
    BY FenceStandsStep
  <1> QED BY <1>1, FenceInit, FenceStep, PTL DEF Spec, FenceHolds

-----------------------------------------------------------------------------
(* Silence behind the fence.                                               *)

\* What is known of u's recipient does not change, or only becomes doubtful.
Quiet(u) == told'[u] = told[u] /\ doubt[u] \subseteq doubt'[u] /\ twice'[u] = twice[u]

\* Telling other tasks is quiet for u.
LEMMA QuietTell ==
    ASSUME TypeOK, NEW S, NEW attempt, Tell(S, attempt), NEW u \in Task, u \notin S
    PROVE  Quiet(u)
  BY DEF TypeOK, Tell, Quiet

LEMMA QuietTellOne ==
    ASSUME TypeOK, NEW t, NEW a, TellOne(t, a), NEW u \in Task, u # t
    PROVE  Quiet(u)
  BY QuietTell DEF TellOne

\* A delivery only tells of a task that is not yet delivered.
LEMMA QuietDeliver ==
    ASSUME TypeOK, NEW tk \in [Task -> Record], NEW t \in Task, Deliver(tk, t),
           NEW u \in Task, tk[u].delivered
    PROVE  Quiet(u)
  <1>1. CASE UNCHANGED <<told, doubt, twice>>
    BY <1>1 DEF Quiet
  <1>2. CASE ~Skips(tk, t) /\ StartSending(t, tk[t].attempt)
    <2>1. u # t
      BY <1>2 DEF Skips, Deliverable
    <2> QED BY <1>2, <2>1, QuietTellOne DEF StartSending
  <1> QED BY <1>1, <1>2 DEF Deliver, Refused, StartLoading

\* A step other than a crash is quiet for a fenced task.
LEMMA QuietStep ==
    ASSUME FenceInv, Next, NEW u \in Task, task[u].fenced
    PROVE  Quiet(u) \/ crashes' # crashes
  <1>0. TypeOK /\ task[u].delivered /\ task[u].status \in Settled
    BY DEF FenceInv, Closed
  <1>1. ASSUME UNCHANGED <<told, doubt, twice>> PROVE Quiet(u)
    BY <1>1 DEF Quiet
  <1>2. ASSUME NEW t \in Task, NEW a, Doubt(t, a) PROVE Quiet(u)
    BY <1>0, <1>2 DEF Doubt, Quiet, TypeOK
  <1>3. ASSUME NEW t \in Task, NEW s \in Settled, Settle(t, s) PROVE Quiet(u)
    <2> DEFINE r == [status |-> s, attempt |-> task[t].attempt,
                     delivered |-> task[t].delivered, fenced |-> task[t].fenced]
               tk == [task EXCEPT ![t] = r]
    <2>1. task[t] \in Record /\ t # u
      BY <1>0, <1>3 DEF TypeOK, Settle, MaySettle, Settled
    <2>2. tk \in [Task -> Record]
      BY <1>0, <2>1 DEF TypeOK, Record, Status
    <2>3. tk[u].delivered
      BY <1>0, <2>1 DEF TypeOK
    <2>4. CASE Deliver(tk, t)
      BY <1>0, <2>2, <2>3, <2>4, QuietDeliver
    <2>5. CASE BridgeEvent(t, r.attempt)
      BY <1>0, <1>1, <2>1, <2>5, QuietTellOne DEF BridgeEvent
    <2> QED BY <1>3, <2>4, <2>5 DEF Settle
  <1>4. ASSUME NEW t \in Task, Tick(t) PROVE Quiet(u)
    BY <1>0, <1>4, QuietDeliver DEF Tick, TypeOK
  <1>5. ASSUME NEW t \in Task, LoadOk(t) PROVE Quiet(u)
    <2>1. CASE MaySend(t) /\ StartSending(t, flight[t].attempt)
      BY <1>0, <2>1, QuietTellOne DEF MaySend, StartSending
    <2> QED BY <1>1, <1>5, <2>1 DEF LoadOk
  <1>6. ASSUME NEW t \in Task, SendFail(t) \/ BridgeFail(t) PROVE Quiet(u)
    BY <1>2, <1>6 DEF SendFail, BridgeFail
  <1>7. CASE ScanFire
    <2>1. PICK S \in SUBSET (ScanList \ (Ui \cup Bridge)) : Tell(S, [t \in Task |-> task[t].attempt])
      BY <1>7 DEF ScanFire
    <2>2. u \notin S
      BY <1>0, <2>1 DEF ScanList, Deliverable
    <2> QED BY <1>0, <2>1, <2>2, QuietTell
  <1>8. CASE Crash
    BY <1>0, <1>8 DEF Crash, TypeOK
  <1> QED
    BY <1>1, <1>3, <1>4, <1>5, <1>6, <1>7, <1>8
    DEF Next, Defer, Retry, Cleanup, LoadFail, SendOk, BridgeOk, DiscardBranch,
        AbortTurn, Suppress, Flush, OpenSession, Hibernate, ArchiveBegin, ArchiveEnd,
        Unarchive

(* Nothing is told of a fenced task: a delivery that was loading the       *)
(* session when the fence went up is dropped, and neither the retry timer, *)
(* the bridge nor the session-start fallback picks the task up again.      *)
THEOREM FenceSilences == Spec => FencedStaysSilent
  <1>1. FenceInv /\ [Next]_vars =>
          [\A t \in Task : task[t].fenced =>
              \/ /\ told'[t] = told[t]
                 /\ doubt[t] \subseteq doubt'[t]
                 /\ twice'[t] = twice[t]
              \/ crashes' # crashes]_vars
    BY QuietStep DEF Quiet
  <1> QED BY <1>1, FenceInit, FenceStep, PTL DEF Spec, FencedStaysSilent

-----------------------------------------------------------------------------
(* The mark, when plugins do not retry a task whose delivery is under way. *)

\* A record marked in the open had its outcome told, and is registered.
MarkedTold(u, r) == r.delivered /\ ~r.fenced => r.attempt \in told[u]
Registered(u, r) == r.status # "absent" => made[u] > 0

\* A delivery is of the registration the store has, and has told it once it
\* is sending: so the mark it leaves is for what was told.
FlightOwn(u)  == flight[u] # Idle =>
                    /\ made[u] > 0
                    /\ task[u].status # "absent" => task[u].attempt = flight[u].attempt
FlightTold(u) == flight[u].stage = "sending" => flight[u].attempt \in told[u]
BridgeOwn(u)  == bridge[u].stage = "sending" =>
                    /\ made[u] > 0
                    /\ task[u].status # "absent" => task[u].attempt = bridge[u].attempt
BridgeTold(u) == bridge[u].stage = "sending" => bridge[u].attempt \in told[u]

Recorded(u) == /\ MarkedTold(u, task[u]) /\ MarkedTold(u, disk[u])
               /\ Registered(u, task[u]) /\ Registered(u, disk[u])
UnderWay(u) == FlightOwn(u) /\ FlightTold(u) /\ BridgeOwn(u) /\ BridgeTold(u)

MarkInv == TypeOK /\ \A u \in Task : Recorded(u) /\ UnderWay(u)

\* A change of a record that can neither mark it nor renumber it.
Tame(r, q) ==
    /\ q.status # "absent" => r.status # "absent" /\ q.attempt = r.attempt
    /\ q.delivered /\ ~q.fenced => r.delivered /\ ~r.fenced /\ q.attempt = r.attempt

LEMMA TameChanges ==
    ASSUME NEW r
    PROVE  Tame(r, r) /\ Tame(r, Absent) /\ Tame(r, Fenced(r)) /\ Tame(r, Swept(r))
  <1>1. Tame(r, r) /\ Tame(r, Absent)
    BY DEF Tame, Absent
  <1>2. Tame(r, Fenced(r))
    BY DEF Tame, Fenced
  <1> QED BY <1>1, <1>2 DEF Swept

\* A task whose record changes tamely keeps its invariant, if no delivery of
\* it starts.
LEMMA TameStep ==
    ASSUME NEW u \in Task, Recorded(u), UnderWay(u),
           Tame(task[u], task'[u]), disk'[u] = disk[u] \/ disk'[u] = task[u],
           flight'[u] = flight[u] \/ flight'[u] = Idle,
           bridge'[u] = bridge[u] \/ bridge'[u].stage # "sending",
           made'[u] = made[u], told[u] \subseteq told'[u]
    PROVE  Recorded(u)' /\ UnderWay(u)'
  <1>1. Recorded(u)'
    BY DEF Recorded, MarkedTold, Registered, Tame
  <1>2. FlightOwn(u)' /\ FlightTold(u)'
    BY DEF UnderWay, FlightOwn, FlightTold, Tame, Idle
  <1>3. BridgeOwn(u)' /\ BridgeTold(u)'
    BY DEF UnderWay, BridgeOwn, BridgeTold, Tame
  <1> QED BY <1>1, <1>2, <1>3 DEF UnderWay

\* So does one whose delivery starts, or goes on from loading to sending.
LEMMA StartStep ==
    ASSUME NEW u \in Task, Recorded(u), UnderWay(u), NEW a, NEW st,
           Tame(task[u], task'[u]), disk'[u] = disk[u],
           flight'[u] = [stage |-> st, attempt |-> a],
           st = "sending" => a \in told'[u],
           task'[u].status # "absent" => task'[u].attempt = a,
           made[u] > 0, bridge'[u] = bridge[u],
           made'[u] = made[u], told[u] \subseteq told'[u]
    PROVE  Recorded(u)' /\ UnderWay(u)'
  <1>1. Recorded(u)'
    BY DEF Recorded, MarkedTold, Registered, Tame
  <1>2. FlightOwn(u)' /\ FlightTold(u)'
    BY DEF FlightOwn, FlightTold
  <1>3. BridgeOwn(u)' /\ BridgeTold(u)'
    BY DEF UnderWay, BridgeOwn, BridgeTold, Tame
  <1> QED BY <1>1, <1>2, <1>3 DEF UnderWay

\* And one that the bridge starts to send.
LEMMA BridgeStartStep ==
    ASSUME NEW u \in Task, Recorded(u), UnderWay(u), NEW a,
           Tame(task[u], task'[u]), disk'[u] = disk[u],
           bridge'[u] = [stage |-> "sending", attempt |-> a], a \in told'[u],
           task'[u].status # "absent" => task'[u].attempt = a,
           made[u] > 0, flight'[u] = flight[u],
           made'[u] = made[u], told[u] \subseteq told'[u]
    PROVE  Recorded(u)' /\ UnderWay(u)'
  <1>1. Recorded(u)'
    BY DEF Recorded, MarkedTold, Registered, Tame
  <1>2. FlightOwn(u)' /\ FlightTold(u)'
    BY DEF UnderWay, FlightOwn, FlightTold, Tame
  <1>3. BridgeOwn(u)' /\ BridgeTold(u)'
    BY DEF BridgeOwn, BridgeTold
  <1> QED BY <1>1, <1>2, <1>3 DEF UnderWay

\* A telling only adds to what was told, and adds the attempt it is of.
LEMMA TellGrows ==
    ASSUME TypeOK, NEW S, NEW attempt, Tell(S, attempt), NEW u \in Task
    PROVE  told[u] \subseteq told'[u] /\ (u \in S => attempt[u] \in told'[u])
  BY DEF TypeOK, Tell

LEMMA TellOneGrows ==
    ASSUME TypeOK, NEW t, NEW a, TellOne(t, a), NEW u \in Task
    PROVE  told[u] \subseteq told'[u] /\ (u = t => a \in told'[u])
  BY TellGrows DEF TellOne

\* The start of a delivery, from records that are a tame change of the store's.
LEMMA MarkDeliver ==
    ASSUME MarkInv, NEW tk \in [Task -> Record], NEW t \in Task, Deliver(tk, t),
           NEW u \in Task, Tame(task[u], tk[u]), UNCHANGED <<disk, bridge, made>>
    PROVE  Recorded(u)' /\ UnderWay(u)'
  <1>0. TypeOK /\ Recorded(u) /\ UnderWay(u)
    BY DEF MarkInv
  <1>1. CASE task' = tk /\ Refused
    BY <1>0, <1>1, TameStep DEF Refused
  <1>2. CASE task' = [tk EXCEPT ![t] = Fenced(tk[t])] /\ Refused
    <2>1. Tame(tk[u], task'[u])
      BY <1>2, TameChanges
    <2>2. Tame(task[u], task'[u])
      BY <2>1 DEF Tame
    <2> QED BY <1>0, <1>2, <2>2, TameStep DEF Refused
  <1>3. ASSUME NEW st \in {"loading", "sending"}, ~Skips(tk, t), task' = tk,
               flight' = [flight EXCEPT ![t] = [stage |-> st, attempt |-> tk[t].attempt]],
               \/ st = "loading" /\ UNCHANGED <<told, doubt, twice>>
               \/ TellOne(t, tk[t].attempt)
        PROVE  Recorded(u)' /\ UnderWay(u)'
    <2>1. told[u] \subseteq told'[u] /\ (u = t /\ st = "sending" => tk[t].attempt \in told'[u])
      BY <1>0, <1>3, TellOneGrows
    <2>2. CASE u = t
      <3>1. flight'[u] = [stage |-> st, attempt |-> tk[t].attempt]
        BY <1>0, <1>3, <2>2 DEF TypeOK
      <3>2. tk[u].status # "absent"
        BY <1>3, <2>2 DEF Skips, Deliverable, Settled
      <3>3. made[u] > 0
        BY <1>0, <3>2 DEF Tame, Recorded, Registered
      <3> QED BY <1>0, <1>3, <2>1, <2>2, <3>1, <3>3, StartStep
    <2>3. CASE u # t
      <3>1. flight'[u] = flight[u]
        BY <1>0, <1>3, <2>3 DEF TypeOK
      <3> QED BY <1>0, <1>3, <2>1, <3>1, TameStep
    <2> QED BY <2>2, <2>3
  <1>4. CASE ~Skips(tk, t) /\ task' = tk /\ StartLoading(t, tk[t].attempt)
    BY <1>3, <1>4 DEF StartLoading
  <1>5. CASE ~Skips(tk, t) /\ task' = tk /\ StartSending(t, tk[t].attempt)
    BY <1>3, <1>5 DEF StartSending
  <1> QED BY <1>1, <1>2, <1>4, <1>5 DEF Deliver

LEMMA MarkInit == Init => MarkInv
  <1> SUFFICES ASSUME Init PROVE MarkInv
    OBVIOUS
  <1>1. TypeOK
    BY TypeInit
  <1>2. ASSUME NEW u \in Task PROVE Recorded(u) /\ UnderWay(u)
    BY DEF Init, Recorded, MarkedTold, Registered, UnderWay, FlightOwn, FlightTold,
           BridgeOwn, BridgeTold, Absent, Idle
  <1> QED BY <1>1, <1>2 DEF MarkInv

\* A completion marks what it has told.
LEMMA MarkCompletion ==
    ASSUME MarkInv, NEW t \in Task, task' = MarkIfPresent(t),
           \/ flight[t].stage = "sending" \/ bridge[t].stage = "sending",
           NEW u \in Task, UNCHANGED <<disk, made, told>>,
           flight'[u] = flight[u] \/ flight'[u] = Idle,
           bridge'[u] = bridge[u] \/ bridge'[u].stage # "sending"
    PROVE  Recorded(u)' /\ UnderWay(u)'
  <1>0. TypeOK /\ Recorded(u) /\ UnderWay(u) /\ task[t] \in Record
    BY DEF MarkInv, TypeOK
  <1>1. CASE task'[u] = task[u]
    BY <1>0, <1>1, TameChanges, TameStep
  <1>2. CASE u = t /\ task[t].status # "absent" /\ ~task[t].fenced
    <2>1. task'[u] = [status |-> task[u].status, attempt |-> task[u].attempt,
                      delivered |-> TRUE, fenced |-> FALSE]
      BY <1>0, <1>2 DEF MarkIfPresent, Marked, TypeOK
    <2>2. task[u].attempt \in told[u]
      BY <1>0, <1>2 DEF UnderWay, FlightOwn, FlightTold, BridgeOwn, BridgeTold, Idle
    <2>3. Recorded(u)'
      BY <1>0, <2>1, <2>2 DEF Recorded, MarkedTold, Registered
    <2>4. UnderWay(u)'
      BY <1>0, <2>1 DEF UnderWay, FlightOwn, FlightTold, BridgeOwn, BridgeTold, Idle
    <2> QED BY <2>3, <2>4
  <1> QED BY <1>0, <1>1, <1>2 DEF MarkIfPresent, Marked, TypeOK

LEMMA MarkStep ==
    ASSUME RetryMidDelivery = FALSE, MarkInv, [Next]_vars
    PROVE  MarkInv'
  <1>0. TypeOK /\ TypeOK'
    BY TypeStep DEF MarkInv
  <1> SUFFICES ASSUME NEW u \in Task PROVE Recorded(u)' /\ UnderWay(u)'
    BY <1>0 DEF MarkInv
  <1>1. Recorded(u) /\ UnderWay(u) /\ Tame(task[u], task[u])
    BY TameChanges DEF MarkInv
  \* A registration of t: nothing of it is under way.
  <1>2. ASSUME NEW t \in Task, NEW a \in Nat, a > 0, flight[t] = Idle,
               bridge[t].stage # "sending", task' = [task EXCEPT ![t] = Fresh(a)],
               made' = [made EXCEPT ![t] = a], UNCHANGED <<disk, flight, bridge, told>>
        PROVE  Recorded(u)' /\ UnderWay(u)'
    <2>1. CASE u = t
      <3>1. task'[u] = Fresh(a) /\ made'[u] = a
        BY <1>0, <1>2, <2>1 DEF TypeOK
      <3>2. Recorded(u)'
        BY <1>1, <1>2, <3>1 DEF Recorded, MarkedTold, Registered, Fresh
      <3>3. UnderWay(u)'
        BY <1>2, <2>1 DEF UnderWay, FlightOwn, FlightTold, BridgeOwn, BridgeTold, Idle
      <3> QED BY <3>2, <3>3
    <2>2. CASE u # t
      <3>1. task'[u] = task[u] /\ made'[u] = made[u]
        BY <1>0, <1>2, <2>2 DEF TypeOK
      <3> QED BY <1>1, <1>2, <3>1, TameStep
    <2> QED BY <2>1, <2>2
  <1>3. ASSUME NEW t \in Task, Defer(t) PROVE Recorded(u)' /\ UnderWay(u)'
    <2>1. UnderWay(t)
      BY DEF MarkInv
    <2>2. flight[t] = Idle /\ bridge[t].stage # "sending"
      BY <1>3, <2>1 DEF UnderWay, FlightOwn, BridgeOwn, Defer
    <2> DEFINE a == 1
    <2>3. /\ a \in Nat /\ a > 0
          /\ task' = [task EXCEPT ![t] = Fresh(a)] /\ made' = [made EXCEPT ![t] = a]
          /\ UNCHANGED <<disk, flight, bridge, told>>
      BY <1>3 DEF Defer
    <2> HIDE DEF a
    <2> QED BY <1>2, <2>2, <2>3
  <1>4. ASSUME NEW t \in Task, Retry(t) PROVE Recorded(u)' /\ UnderWay(u)'
    <2>1. made[t] + 1 \in Nat /\ made[t] + 1 > 0
      BY <1>0 DEF TypeOK
    <2>2. made' = [made EXCEPT ![t] = made[t] + 1]
      BY <1>0, <1>4 DEF Retry
    <2>3. flight[t] = Idle /\ bridge[t].stage # "sending"
      BY <1>4 DEF Retry, RetryAllowed
    <2> QED BY <1>2, <1>4, <2>1, <2>2, <2>3 DEF Retry
  <1>5. ASSUME NEW t \in Task, NEW s \in Settled, Settle(t, s)
        PROVE  Recorded(u)' /\ UnderWay(u)'
    <2> DEFINE r == [status |-> s, attempt |-> task[t].attempt,
                     delivered |-> task[t].delivered, fenced |-> task[t].fenced]
               tk == [task EXCEPT ![t] = r]
    <2>1. task[t] \in Record /\ task[t].status = "pending" /\ r \in Record
      BY <1>0, <1>5 DEF TypeOK, Settle, MaySettle, Record, Status
    <2>2. tk \in [Task -> Record]
      BY <1>0, <2>1 DEF TypeOK
    <2>3. Tame(task[u], tk[u])
      BY <1>0, <1>1, <2>1 DEF TypeOK, Tame
    <2>4. CASE Deliver(tk, t) /\ UNCHANGED bridge
      BY <1>5, <2>2, <2>3, <2>4, MarkDeliver DEF Settle
    <2>5. CASE task' = tk /\ BridgeEvent(t, r.attempt) /\ UNCHANGED flight
      <3>1. disk' = disk /\ made' = made /\ flight' = flight /\ Tame(task[u], task'[u])
        BY <1>5, <2>3, <2>5 DEF Settle
      <3>2. CASE UNCHANGED <<bridge, told, doubt, twice>>
        BY <1>1, <3>1, <3>2, TameStep
      <3>3. CASE /\ bridge' = [bridge EXCEPT ![t] = [stage |-> "sending", attempt |-> r.attempt]]
                 /\ TellOne(t, r.attempt)
        <4>1. told[u] \subseteq told'[u] /\ (u = t => r.attempt \in told'[u])
          BY <1>0, <3>3, TellOneGrows
        <4>2. CASE u = t
          <5>1. bridge'[u] = [stage |-> "sending", attempt |-> r.attempt]
            BY <1>0, <3>3, <4>2 DEF TypeOK
          <5>2. task'[u].attempt = r.attempt /\ made[u] > 0
            BY <1>0, <1>1, <2>1, <2>5, <4>2 DEF TypeOK, Recorded, Registered
          <5> HIDE DEF r, tk
          <5> QED BY <1>1, <3>1, <4>1, <4>2, <5>1, <5>2, BridgeStartStep
        <4>3. CASE u # t
          <5>1. bridge'[u] = bridge[u]
            BY <1>0, <3>3, <4>3 DEF TypeOK
          <5> QED BY <1>1, <3>1, <4>1, <5>1, TameStep
        <4> QED BY <4>2, <4>3
      <3> QED BY <2>5, <3>2, <3>3 DEF BridgeEvent
    <2> QED BY <1>5, <2>4, <2>5 DEF Settle
  <1>6. ASSUME NEW t \in Task, Cleanup(t) PROVE Recorded(u)' /\ UnderWay(u)'
    <2>1. Tame(task[u], task'[u])
      BY <1>0, <1>6, TameChanges DEF Cleanup, TypeOK
    <2> QED BY <1>1, <1>6, <2>1, TameStep DEF Cleanup
  <1>7. ASSUME NEW t \in Task, Tick(t) PROVE Recorded(u)' /\ UnderWay(u)'
    BY <1>0, <1>1, <1>7, MarkDeliver DEF Tick, TypeOK
  <1>8. ASSUME NEW t \in Task, LoadFail(t) PROVE Recorded(u)' /\ UnderWay(u)'
    BY <1>0, <1>1, <1>8, TameStep DEF LoadFail, TypeOK
  <1>9. ASSUME NEW t \in Task, LoadOk(t) PROVE Recorded(u)' /\ UnderWay(u)'
    <2> DEFINE a == flight[t].attempt
    <2>1. CASE StartSending(t, a)
      <3>1. told[u] \subseteq told'[u] /\ (u = t => a \in told'[u])
        BY <1>0, <2>1, TellOneGrows DEF StartSending
      <3>2. CASE u = t
        <4>1. flight'[u] = [stage |-> "sending", attempt |-> a]
          BY <1>0, <2>1, <3>2 DEF StartSending, TypeOK
        <4>2. made[u] > 0 /\ (task[u].status # "absent" => task[u].attempt = a)
          BY <1>1, <1>9, <3>2 DEF LoadOk, UnderWay, FlightOwn, Idle
        <4> QED BY <1>1, <1>9, <3>1, <3>2, <4>1, <4>2, StartStep DEF LoadOk
      <3>3. CASE u # t
        <4>1. flight'[u] = flight[u]
          BY <1>0, <2>1, <3>3 DEF StartSending, TypeOK
        <4> QED BY <1>1, <1>9, <3>1, <4>1, TameStep DEF LoadOk
      <3> QED BY <3>2, <3>3
    <2>2. CASE flight' = [flight EXCEPT ![t] = Idle] /\ UNCHANGED <<told, doubt, twice>>
      BY <1>0, <1>1, <1>9, <2>2, TameStep DEF LoadOk, TypeOK
    <2> QED BY <1>9, <2>1, <2>2 DEF LoadOk
  <1>10. ASSUME NEW t \in Task, SendOk(t) PROVE Recorded(u)' /\ UnderWay(u)'
    <2>1. flight'[u] = flight[u] \/ flight'[u] = Idle
      BY <1>0, <1>10 DEF SendOk, TypeOK
    <2> QED BY <1>10, <2>1, MarkCompletion DEF SendOk
  <1>11. ASSUME NEW t \in Task, SendFail(t) PROVE Recorded(u)' /\ UnderWay(u)'
    BY <1>0, <1>1, <1>11, TameStep DEF SendFail, Doubt, TypeOK
  <1>12. ASSUME NEW t \in Task, BridgeOk(t) PROVE Recorded(u)' /\ UnderWay(u)'
    <2>1. bridge'[u] = bridge[u] \/ bridge'[u].stage # "sending"
      BY <1>0, <1>12 DEF BridgeOk, TypeOK
    <2> QED BY <1>12, <2>1, MarkCompletion DEF BridgeOk
  <1>13. ASSUME NEW t \in Task, BridgeFail(t) PROVE Recorded(u)' /\ UnderWay(u)'
    <2>1. bridge'[u] = bridge[u] \/ bridge'[u].stage # "sending"
      BY <1>0, <1>13 DEF BridgeFail, Idle, TypeOK
    <2> QED BY <1>1, <1>13, <2>1, TameStep DEF BridgeFail, Doubt
  <1>14. ASSUME NEW S, Suppress(S) PROVE Recorded(u)' /\ UnderWay(u)'
    <2>1. Tame(task[u], task'[u])
      BY <1>14, TameChanges DEF Suppress
    <2> QED BY <1>1, <1>14, <2>1, TameStep DEF Suppress
  <1>15. CASE Flush \/ OpenSession \/ Hibernate \/ ArchiveEnd
    BY <1>1, <1>15, TameStep DEF Flush, OpenSession, Hibernate, ArchiveEnd
  <1>16. CASE ScanFire
    <2> DEFINE at == [t \in Task |-> task[t].attempt]
    <2>1. PICK S : /\ Tell(S, at)
                   /\ task' = [t \in Task |-> IF t \in S THEN Marked(task[t]) ELSE task[t]]
      BY <1>16 DEF ScanFire
    <2>2. at[u] = task[u].attempt
      OBVIOUS
    <2> HIDE DEF at
    <2>3. told[u] \subseteq told'[u] /\ (u \in S => task[u].attempt \in told'[u])
      BY <1>0, <2>1, <2>2, TellGrows
    <2>4. CASE task'[u] = task[u]
      BY <1>1, <1>16, <2>3, <2>4, TameStep DEF ScanFire
    <2>5. CASE u \in S /\ task'[u] = [status |-> task[u].status, attempt |-> task[u].attempt,
                                      delivered |-> TRUE, fenced |-> FALSE]
      <3>1. Recorded(u)'
        BY <1>1, <1>16, <2>3, <2>5 DEF ScanFire, Recorded, MarkedTold, Registered
      <3>2. UnderWay(u)'
        BY <1>1, <1>16, <2>3, <2>5
        DEF ScanFire, UnderWay, FlightOwn, FlightTold, BridgeOwn, BridgeTold
      <3> QED BY <3>1, <3>2
    <2> QED BY <2>1, <2>4, <2>5 DEF Marked
  <1>17. CASE ArchiveBegin \/ Unarchive
    <2>1. Tame(task[u], task'[u])
      BY <1>1, <1>17, TameChanges DEF ArchiveBegin, Unarchive, Sweep
    <2> QED BY <1>1, <1>17, <2>1, TameStep DEF ArchiveBegin, Unarchive
  <1>18. CASE Crash
    <2>1. /\ task'[u] = disk[u] \/ task'[u] = Absent
          /\ flight'[u] = Idle /\ bridge'[u] = Idle
          /\ disk' = disk /\ made' = made /\ told' = told
      BY <1>18 DEF Crash
    <2>2. Recorded(u)'
      BY <1>1, <2>1 DEF Recorded, MarkedTold, Registered, Absent
    <2>3. UnderWay(u)'
      BY <2>1 DEF UnderWay, FlightOwn, FlightTold, BridgeOwn, BridgeTold, Idle
    <2> QED BY <2>2, <2>3
  <1>19. CASE UNCHANGED vars
    BY <1>1, <1>19, TameStep DEF vars
  <1> QED
    BY <1>3, <1>4, <1>5, <1>6, <1>7, <1>8, <1>9, <1>10, <1>11, <1>12, <1>13, <1>14,
       <1>15, <1>16, <1>17, <1>18, <1>19
    DEF Next, DiscardBranch, AbortTurn

(* If plugins only retry a task that is not being delivered, a task that   *)
(* is marked delivered had its outcome put to its recipient, through       *)
(* crashes, fences, fallback scans and bridge deliveries.                  *)
THEOREM MarkIsEarned ==
    ASSUME RetryMidDelivery = FALSE
    PROVE  Spec => []MarkedMeansTold
  <1>1. MarkInv /\ [Next]_vars => MarkInv'
    BY MarkStep
  <1>2. MarkInv => MarkedMeansTold
    BY DEF MarkInv, Recorded, MarkedTold, MarkedMeansTold
  <1> QED BY <1>1, <1>2, MarkInit, PTL DEF Spec

-----------------------------------------------------------------------------
(* Told once, when besides the SDK does not start the fallback's scan.     *)

\* The attempts of u that were told, and whose telling is not in doubt.
Heard(u) == told[u] \ doubt[u]

\* The attempts the store, the file and a delivery know of have been registered; a
\* delivery that loads is of an attempt not heard of; one that was heard of is marked,
\* unless its delivery is still sending or the bridge has taken it; and a task that is
\* pending is not being told.
Numbered(u) == /\ told[u] \subseteq 0 .. made[u]
               /\ task[u].attempt <= made[u] /\ disk[u].attempt <= made[u]
               /\ flight[u].attempt <= made[u]
LoadsUnheard(u) == flight[u].stage = "loading" => flight[u].attempt \notin Heard(u)
HeardIsMarked(u) ==
    task[u].status # "absent" /\ ~task[u].delivered /\ task[u].attempt \in Heard(u)
        => \/ flight[u].stage = "sending"
           \/ u \in Bridge /\ task[u].status # "pending"
PendingUntold(u) ==
    /\ task[u].status = "pending" => /\ ~task[u].delivered
                                     /\ flight[u] = Idle /\ bridge[u].stage # "sending"
    /\ disk[u].status = "pending" => ~disk[u].delivered
Once(u) == /\ Numbered(u) /\ LoadsUnheard(u) /\ HeardIsMarked(u) /\ PendingUntold(u)
           /\ u \in Bridge => flight[u] = Idle
           /\ twice[u] = {}

OnceInv == /\ FenceInv /\ MarkInv
           /\ scan = "off"
           /\ \A u \in Task : Once(u)

\* A change of a record that opens nothing: an outcome that is undelivered after it was
\* so before, and a pending record is the one there was.
Steady(r, q) == /\ q.attempt = r.attempt \/ (q.status = "absent" /\ q.attempt = 0)
                /\ q.status # "absent" => r.status # "absent"
                /\ q.status # "absent" /\ ~q.delivered => ~r.delivered
                /\ q.status = "pending" => q = r

LEMMA SteadyChanges ==
    ASSUME NEW r \in Record
    PROVE  /\ Steady(r, r)
           /\ Steady(r, Absent)
           /\ r.status # "absent" => Steady(r, Fenced(r))
           /\ Steady(r, Swept(r))
           /\ r.status # "pending" => Steady(r, Marked(r))
  <1>1. Steady(r, r) /\ Steady(r, Absent)
    BY DEF Steady, Absent
  <1>2. r.status # "absent" => Steady(r, Fenced(r))
    BY DEF Steady, Fenced
  <1>3. Steady(r, Swept(r))
    BY <1>1, <1>2 DEF Swept, Open, Deliverable, Settled
  <1>4. r.status # "pending" => Steady(r, Marked(r))
    BY <1>1 DEF Steady, Marked
  <1> QED BY <1>1, <1>2, <1>3, <1>4

\* A task that is not told of keeps its invariant, when its delivery does not end
\* without a mark or a doubt.
LEMMA OnceQuiet ==
    ASSUME TypeOK, NEW u \in Task, Once(u), FlightOwn(u),
           Steady(task[u], task'[u]), disk'[u] = disk[u] \/ disk'[u] = task[u],
           \/ flight'[u] = flight[u]
           \/ /\ flight'[u] = Idle
              /\ \/ flight[u].stage = "loading"
                 \/ flight[u].attempt \in doubt'[u]
                 \/ task'[u].delivered \/ task'[u].status = "absent",
           bridge'[u] = bridge[u] \/ bridge'[u].stage # "sending",
           made'[u] = made[u], Quiet(u)
    PROVE  Once(u)'
  <1>1. Numbered(u)'
    BY DEF Once, Numbered, Steady, Quiet, Idle, TypeOK
  <1>2. LoadsUnheard(u)'
    BY DEF Once, LoadsUnheard, Heard, Quiet, Idle
  <1>3. HeardIsMarked(u)'
    <2> SUFFICES ASSUME task'[u].status # "absent", ~task'[u].delivered,
                        task'[u].attempt \in Heard(u)'
                 PROVE  \/ flight'[u].stage = "sending"
                        \/ u \in Bridge /\ task'[u].status # "pending"
      BY DEF HeardIsMarked
    <2>1. /\ task[u].status # "absent" /\ ~task[u].delivered
          /\ task[u].attempt \in Heard(u) /\ task[u].attempt = task'[u].attempt
          /\ task'[u].status = "pending" => task[u].status = "pending"
      BY DEF Steady, Heard, Quiet
    <2>2. \/ flight[u].stage = "sending"
          \/ u \in Bridge /\ task'[u].status # "pending"
      BY <2>1 DEF Once, HeardIsMarked
    <2>3. CASE flight[u].stage = "sending" /\ flight'[u] # flight[u]
      <3>1. task[u].attempt = flight[u].attempt /\ flight[u].attempt \in doubt'[u]
        BY <2>1, <2>3 DEF FlightOwn, Idle
      <3> QED BY <2>1, <3>1 DEF Heard
    <2> QED BY <2>2, <2>3
  <1>4. PendingUntold(u)'
    BY DEF Once, PendingUntold, Steady
  <1>5. (u \in Bridge => flight'[u] = Idle) /\ twice'[u] = {}
    BY DEF Once, Quiet
  <1> QED BY <1>1, <1>2, <1>3, <1>4, <1>5 DEF Once

\* So does one that is told of an attempt that was not heard of, by its delivery or by
\* the bridge, and settled by then.
LEMMA OnceTold ==
    ASSUME TypeOK, NEW u \in Task, Once(u), NEW a \in 0 .. made[u], a \notin Heard(u),
           TellOne(u, a), task'[u].status # "pending", Steady(task[u], task'[u]),
           disk'[u] = disk[u], made'[u] = made[u],
           \/ u \notin Bridge /\ flight'[u] = [stage |-> "sending", attempt |-> a]
           \/ u \in Bridge /\ flight'[u] = flight[u]
    PROVE  Once(u)'
  <1>1. /\ told'[u] = told[u] \cup {a} /\ doubt'[u] = doubt[u] \ {a}
        /\ twice'[u] = twice[u]
    BY DEF TellOne, Tell, TypeOK, Heard
  <1>2. Numbered(u)'
    BY <1>1 DEF Once, Numbered, Steady, TypeOK
  <1>3. LoadsUnheard(u)' /\ HeardIsMarked(u)'
    BY DEF Once, LoadsUnheard, HeardIsMarked, Idle
  <1>4. PendingUntold(u)'
    BY DEF Once, PendingUntold
  <1> QED BY <1>1, <1>2, <1>3, <1>4 DEF Once

\* The start of a delivery, from records that are a steady change of the store's.
LEMMA OnceDeliver ==
    ASSUME TypeOK, NEW tk \in [Task -> Record], NEW t \in Task, Deliver(tk, t),
           NEW u \in Task, Once(u), FlightOwn(u), Steady(task[u], tk[u]),
           UNCHANGED <<disk, bridge, made>>
    PROVE  Once(u)'
  <1>1. CASE task' = tk /\ Refused
    BY <1>1, OnceQuiet DEF Refused, Quiet
  <1>2. CASE ~Skips(tk, t) /\ task' = [tk EXCEPT ![t] = Fenced(tk[t])] /\ Refused
    <2>1. tk[t].status # "absent"
      BY <1>2 DEF Skips, Deliverable, Settled
    <2>2. Steady(tk[u], task'[u])
      BY <1>2, <2>1, SteadyChanges
    <2>3. Steady(task[u], task'[u])
      BY <2>2 DEF Steady
    <2> QED BY <1>2, <2>3, OnceQuiet DEF Refused, Quiet
  <1> DEFINE a == tk[t].attempt
  <1>3. ASSUME ~Skips(tk, t), u = t
        PROVE  /\ flight[u] = Idle /\ u \notin Bridge /\ tk[u].status \notin {"absent", "pending"}
               /\ a \notin Heard(u) /\ a \in 0 .. made[u] /\ a = tk[u].attempt
    <2>1. /\ flight[u] = Idle /\ u \notin Bridge
          /\ tk[u].status \notin {"absent", "pending"} /\ ~tk[u].delivered
      BY <1>3 DEF Skips, Deliverable, Settled
    <2>2. task[u].status # "absent" /\ ~task[u].delivered /\ task[u].attempt = a
      BY <1>3, <2>1 DEF Steady
    <2>3. a \notin Heard(u)
      BY <2>1, <2>2 DEF Once, HeardIsMarked, Idle
    <2>4. a \in 0 .. made[u]
      BY <1>3, <2>2 DEF Once, Numbered, TypeOK, Record
    <2> QED BY <1>3, <2>1, <2>3, <2>4
  <1>4. CASE ~Skips(tk, t) /\ task' = tk /\ StartLoading(t, a)
    <2>1. CASE u = t
      <3>1. flight'[u] = [stage |-> "loading", attempt |-> a] /\ Quiet(u)
        BY <1>4, <2>1 DEF StartLoading, TypeOK, Quiet
      <3>2. Numbered(u)' /\ LoadsUnheard(u)'
        BY <1>3, <1>4, <2>1, <3>1 DEF Once, Numbered, LoadsUnheard, Heard, Quiet, TypeOK
      <3>3. HeardIsMarked(u)' /\ PendingUntold(u)'
        BY <1>3, <1>4, <2>1, <3>1 DEF Once, HeardIsMarked, PendingUntold, Heard, Quiet
      <3> QED BY <1>3, <1>4, <2>1, <3>1, <3>2, <3>3 DEF Once, Quiet
    <2>2. CASE u # t
      <3>1. flight'[u] = flight[u] /\ Quiet(u)
        BY <1>4, <2>2 DEF StartLoading, TypeOK, Quiet
      <3> QED BY <1>4, <3>1, OnceQuiet
    <2> QED BY <2>1, <2>2
  <1>5. CASE ~Skips(tk, t) /\ task' = tk /\ StartSending(t, a)
    <2>1. CASE u = t
      <3>1. flight'[u] = [stage |-> "sending", attempt |-> a] /\ TellOne(u, a)
        BY <1>5, <2>1 DEF StartSending, TypeOK
      <3> HIDE DEF a
      <3> QED BY <1>3, <1>5, <2>1, <3>1, OnceTold
    <2>2. CASE u # t
      <3>1. flight'[u] = flight[u] /\ Quiet(u)
        BY <1>5, <2>2, QuietTellOne DEF StartSending, TypeOK
      <3> QED BY <1>5, <3>1, OnceQuiet
    <2> QED BY <2>1, <2>2
  <1> QED BY <1>1, <1>2, <1>4, <1>5 DEF Deliver

LEMMA OnceInit == Init => OnceInv
  <1> SUFFICES ASSUME Init PROVE OnceInv
    OBVIOUS
  <1>1. FenceInv /\ MarkInv /\ scan = "off"
    BY FenceInit, MarkInit DEF Init
  <1>2. ASSUME NEW u \in Task PROVE Once(u)
    BY DEF Init, Once, Numbered, LoadsUnheard, HeardIsMarked, PendingUntold, Heard,
           Absent, Idle
  <1> QED BY <1>1, <1>2 DEF OnceInv

LEMMA OnceStep ==
    ASSUME RetryMidDelivery = FALSE, SessionScans = FALSE, OnceInv, [Next]_vars
    PROVE  OnceInv'
  <1>0. TypeOK /\ FenceInv' /\ MarkInv' /\ scan = "off"
    BY FenceStep, MarkStep DEF OnceInv, FenceInv
  <1>1. scan' = "off"
    BY <1>0 DEF Next, vars, Defer, Settle, Retry, Cleanup, Tick, LoadFail, LoadOk, SendOk,
                SendFail, BridgeOk, BridgeFail, DiscardBranch, AbortTurn, Suppress, Flush,
                ScanFire, OpenSession, Hibernate, ArchiveBegin, ArchiveEnd, Unarchive,
                Shutdown, Crash
  <1> SUFFICES ASSUME NEW u \in Task PROVE Once(u)'
    BY <1>0, <1>1 DEF OnceInv
  <1>2. /\ Once(u) /\ FlightOwn(u) /\ BridgeOwn(u) /\ task[u] \in Record
        /\ Closed(task[u]) /\ Steady(task[u], task[u])
    BY <1>0, SteadyChanges DEF OnceInv, FenceInv, MarkInv, UnderWay, TypeOK
  \* Steps that tell nothing and end no delivery.
  <1>3. ASSUME Steady(task[u], task'[u]), disk'[u] = disk[u] \/ disk'[u] = task[u],
               UNCHANGED <<flight, bridge, made, told, doubt, twice>>
        PROVE  Once(u)'
    BY <1>0, <1>2, <1>3, OnceQuiet DEF Quiet
  \* A registration of t: nothing of it is under way.
  <1>4. ASSUME NEW t \in Task, flight[t] = Idle, bridge[t].stage # "sending",
               task' = [task EXCEPT ![t] = Fresh(made[t] + 1)],
               made' = [made EXCEPT ![t] = made[t] + 1],
               UNCHANGED <<disk, flight, bridge, told, doubt, twice>>
        PROVE  Once(u)'
    <2>1. CASE u = t
      <3>1. task'[u] = Fresh(made[u] + 1) /\ made'[u] = made[u] + 1 /\ made[u] \in Nat
        BY <1>0, <1>4, <2>1 DEF TypeOK
      <3>2. Numbered(u)'
        BY <1>0, <1>2, <1>4, <3>1 DEF Once, Numbered, Fresh, TypeOK, Record, Flight
      <3>3. HeardIsMarked(u)'
        BY <1>2, <1>4, <3>1 DEF Once, Numbered, HeardIsMarked, Heard, Fresh
      <3>4. LoadsUnheard(u)' /\ PendingUntold(u)'
        BY <1>2, <1>4, <2>1, <3>1 DEF Once, LoadsUnheard, PendingUntold, Heard, Fresh, Idle
      <3> QED BY <1>2, <1>4, <3>2, <3>3, <3>4 DEF Once
    <2>2. CASE u # t
      <3>1. task'[u] = task[u] /\ made'[u] = made[u]
        BY <1>0, <1>4, <2>2 DEF TypeOK
      <3> QED BY <1>0, <1>2, <1>4, <3>1, OnceQuiet DEF Quiet
    <2> QED BY <2>1, <2>2
  <1>5. ASSUME NEW t \in Task, Defer(t) PROVE Once(u)'
    <2>1. FlightOwn(t) /\ BridgeOwn(t) /\ made[t] = 0
      BY <1>5 DEF OnceInv, MarkInv, UnderWay, Defer
    <2>2. flight[t] = Idle /\ bridge[t].stage # "sending"
      BY <2>1 DEF FlightOwn, BridgeOwn
    <2>3. made[t] + 1 = 1
      BY <2>1
    <2> QED BY <1>4, <1>5, <2>2, <2>3 DEF Defer
  <1>6. ASSUME NEW t \in Task, Retry(t) PROVE Once(u)'
    <2>1. flight[t] = Idle /\ bridge[t].stage # "sending"
      BY <1>6 DEF Retry, RetryAllowed
    <2>2. made' = [made EXCEPT ![t] = made[t] + 1]
      BY <1>0, <1>6 DEF Retry
    <2> QED BY <1>4, <1>6, <2>1, <2>2 DEF Retry
  <1>7. ASSUME NEW t \in Task, NEW s \in Settled, Settle(t, s) PROVE Once(u)'
    <2> DEFINE r == [status |-> s, attempt |-> task[t].attempt,
                     delivered |-> task[t].delivered, fenced |-> task[t].fenced]
               tk == [task EXCEPT ![t] = r]
    <2>1. /\ task[t] \in Record /\ task[t].status = "pending"
          /\ s \notin {"absent", "pending"} /\ r \in Record
      BY <1>0, <1>7 DEF TypeOK, Settle, MaySettle, Record, Status, Settled
    <2>2. tk \in [Task -> Record]
      BY <1>0, <2>1 DEF TypeOK
    <2>3. Steady(task[u], tk[u])
      BY <1>0, <1>2, <2>1 DEF TypeOK, Steady
    <2>4. CASE Deliver(tk, t) /\ UNCHANGED bridge
      BY <1>0, <1>2, <1>7, <2>2, <2>3, <2>4, OnceDeliver DEF Settle
    <2>5. CASE t \in Bridge /\ task' = tk /\ BridgeEvent(t, r.attempt) /\ UNCHANGED flight
      <3>1. disk' = disk /\ made' = made /\ flight' = flight /\ Steady(task[u], task'[u])
        BY <1>7, <2>3, <2>5 DEF Settle
      <3>2. CASE UNCHANGED <<bridge, told, doubt, twice>>
        BY <1>3, <3>1, <3>2
      <3>3. CASE /\ bridge' = [bridge EXCEPT ![t] = [stage |-> "sending", attempt |-> r.attempt]]
                 /\ TellOne(t, r.attempt)
        <4>1. CASE u = t
          <5>1. task'[u] = r /\ r.attempt = task[u].attempt
            BY <1>0, <2>5, <4>1 DEF TypeOK
          <5>2. r.attempt \notin Heard(u)
            BY <1>2, <2>1, <4>1, <5>1 DEF Once, PendingUntold, HeardIsMarked, Idle
          <5>3. r.attempt \in 0 .. made[u]
            BY <1>0, <1>2, <5>1 DEF Once, Numbered, TypeOK, Record
          <5>4. task'[u].status # "pending"
            BY <2>1, <5>1
          <5> HIDE DEF r, tk
          <5> QED BY <1>0, <1>2, <2>5, <3>1, <3>3, <4>1, <5>2, <5>3, <5>4, OnceTold
        <4>2. CASE u # t
          <5>1. bridge'[u] = bridge[u] /\ Quiet(u)
            BY <1>0, <3>3, <4>2, QuietTellOne DEF TypeOK
          <5> QED BY <1>0, <1>2, <3>1, <5>1, OnceQuiet
        <4> QED BY <4>1, <4>2
      <3> QED BY <2>5, <3>2, <3>3 DEF BridgeEvent
    <2> QED BY <1>7, <2>4, <2>5 DEF Settle
  <1>8. ASSUME NEW t \in Task, Cleanup(t) PROVE Once(u)'
    <2>1. Steady(task[u], task'[u])
      BY <1>0, <1>2, <1>8, SteadyChanges DEF Cleanup, TypeOK
    <2> QED BY <1>3, <1>8, <2>1 DEF Cleanup
  <1>9. ASSUME NEW t \in Task, Tick(t) PROVE Once(u)'
    BY <1>0, <1>2, <1>9, OnceDeliver DEF Tick, TypeOK
  <1>10. ASSUME NEW t \in Task, LoadFail(t) PROVE Once(u)'
    <2>1. flight'[u] = flight[u] \/ (flight'[u] = Idle /\ flight[u].stage = "loading")
      BY <1>0, <1>10 DEF LoadFail, TypeOK
    <2> QED BY <1>0, <1>2, <1>10, <2>1, OnceQuiet DEF LoadFail, Quiet
  <1>11. ASSUME NEW t \in Task, LoadOk(t) PROVE Once(u)'
    <2> DEFINE a == flight[t].attempt
    <2>1. CASE StartSending(t, a)
      <3>1. CASE u = t
        <4>1. flight'[u] = [stage |-> "sending", attempt |-> a] /\ TellOne(u, a)
          BY <1>0, <2>1, <3>1 DEF StartSending, TypeOK
        <4>2. /\ flight[u].stage = "loading" /\ flight[u].attempt = a /\ flight[u] \in Flight
              /\ task' = task /\ disk' = disk /\ made' = made
          BY <1>0, <1>11, <3>1 DEF LoadOk, TypeOK
        <4>3. a \notin Heard(u) /\ a \in 0 .. made[u] /\ u \notin Bridge
          BY <1>0, <1>2, <4>2 DEF Once, LoadsUnheard, Numbered, Idle, TypeOK, Flight
        <4>4. task[u].status # "pending"
          BY <1>2, <4>2 DEF Once, PendingUntold, Idle
        <4> HIDE DEF a
        <4> QED BY <1>0, <1>2, <4>1, <4>2, <4>3, <4>4, OnceTold
      <3>2. CASE u # t
        <4>1. flight'[u] = flight[u] /\ Quiet(u)
          BY <1>0, <2>1, <3>2, QuietTellOne DEF StartSending, TypeOK
        <4> QED BY <1>0, <1>2, <1>11, <4>1, OnceQuiet DEF LoadOk
      <3> QED BY <3>1, <3>2
    <2>2. CASE flight' = [flight EXCEPT ![t] = Idle] /\ UNCHANGED <<told, doubt, twice>>
      <3>1. flight'[u] = flight[u] \/ (flight'[u] = Idle /\ flight[u].stage = "loading")
        BY <1>0, <1>11, <2>2 DEF LoadOk, TypeOK
      <3> QED BY <1>0, <1>2, <1>11, <2>2, <3>1, OnceQuiet DEF LoadOk, Quiet
    <2> QED BY <1>11, <2>1, <2>2 DEF LoadOk
  \* A delivery or the bridge marks a task that is not pending.
  <1>12. ASSUME NEW t \in Task, task' = MarkIfPresent(t),
                flight[t].stage = "sending" \/ bridge[t].stage = "sending"
         PROVE  /\ Steady(task[u], task'[u])
                /\ u = t => task'[u].delivered \/ task'[u].status = "absent"
    <2>1. CASE u = t
      <3>1. task[u].status # "pending"
        BY <1>2, <1>12, <2>1 DEF Once, PendingUntold, Idle
      <3>2. task'[u] = task[u] \/ task'[u] = Marked(task[u])
        BY <1>0, <1>12, <2>1 DEF MarkIfPresent, TypeOK
      <3>3. task'[u].delivered \/ task'[u].status = "absent"
        BY <1>0, <1>2, <1>12, <2>1 DEF MarkIfPresent, Marked, Closed, TypeOK
      <3> QED BY <1>2, <3>1, <3>2, <3>3, SteadyChanges
    <2>2. CASE u # t
      BY <1>0, <1>2, <1>12, <2>2 DEF MarkIfPresent, TypeOK
    <2> QED BY <2>1, <2>2
  <1>13. ASSUME NEW t \in Task, SendOk(t) PROVE Once(u)'
    <2>1. /\ Steady(task[u], task'[u])
          /\ u = t => task'[u].delivered \/ task'[u].status = "absent"
      BY <1>12, <1>13 DEF SendOk
    <2>2. flight'[u] = IF u = t THEN Idle ELSE flight[u]
      BY <1>0, <1>13 DEF SendOk, TypeOK
    <2> QED BY <1>0, <1>2, <1>13, <2>1, <2>2, OnceQuiet DEF SendOk, Quiet
  <1>14. ASSUME NEW t \in Task, SendFail(t) PROVE Once(u)'
    <2>1. Quiet(u)
      BY <1>0, <1>14 DEF SendFail, Doubt, Quiet, TypeOK
    <2>2. \/ flight'[u] = flight[u]
          \/ flight'[u] = Idle /\ flight[u].attempt \in doubt'[u]
      BY <1>0, <1>14 DEF SendFail, Doubt, TypeOK
    <2> QED BY <1>0, <1>2, <1>14, <2>1, <2>2, OnceQuiet DEF SendFail
  <1>15. ASSUME NEW t \in Task, BridgeOk(t) PROVE Once(u)'
    <2>1. Steady(task[u], task'[u])
      BY <1>12, <1>15 DEF BridgeOk
    <2>2. bridge'[u] = bridge[u] \/ bridge'[u].stage # "sending"
      BY <1>0, <1>15 DEF BridgeOk, TypeOK
    <2> QED BY <1>0, <1>2, <1>15, <2>1, <2>2, OnceQuiet DEF BridgeOk, Quiet
  <1>16. ASSUME NEW t \in Task, BridgeFail(t) PROVE Once(u)'
    <2>1. Quiet(u)
      BY <1>0, <1>16 DEF BridgeFail, Doubt, Quiet, TypeOK
    <2>2. bridge'[u] = bridge[u] \/ bridge'[u].stage # "sending"
      BY <1>0, <1>16 DEF BridgeFail, Idle, TypeOK
    <2> QED BY <1>0, <1>2, <1>16, <2>1, <2>2, OnceQuiet DEF BridgeFail
  <1>17. ASSUME NEW S, \A t \in S : task[t].status # "absent", Suppress(S) PROVE Once(u)'
    <2>1. Steady(task[u], task'[u])
      BY <1>2, <1>17, SteadyChanges DEF Suppress
    <2> QED BY <1>3, <1>17, <2>1 DEF Suppress
  <1>18. CASE DiscardBranch
    BY <1>17, <1>18 DEF DiscardBranch
  <1>19. CASE AbortTurn
    BY <1>17, <1>19 DEF AbortTurn, Open, Deliverable, Settled
  <1>20. CASE Flush \/ OpenSession \/ Hibernate \/ ArchiveEnd
    BY <1>2, <1>3, <1>20 DEF Flush, OpenSession, Hibernate, ArchiveEnd
  <1>21. CASE ArchiveBegin \/ Unarchive
    <2>1. Steady(task[u], task'[u])
      BY <1>2, <1>21, SteadyChanges DEF ArchiveBegin, Unarchive, Sweep
    <2> QED BY <1>3, <1>21, <2>1 DEF ArchiveBegin, Unarchive
  <1>22. CASE Crash
    <2>1. /\ task'[u] = disk[u] \/ (task'[u] = Absent /\ disk[u].delivered)
          /\ doubt'[u] = IF disk[u].delivered THEN told[u] \ {disk[u].attempt} ELSE told[u]
          /\ flight'[u] = Idle /\ bridge'[u] = Idle
          /\ disk' = disk /\ made' = made /\ told' = told /\ twice' = twice
      BY <1>22 DEF Crash
    <2>2. Numbered(u)'
      BY <1>0, <1>2, <2>1 DEF Once, Numbered, Absent, Idle, TypeOK
    <2>3. LoadsUnheard(u)' /\ HeardIsMarked(u)'
      BY <2>1 DEF LoadsUnheard, HeardIsMarked, Heard, Absent, Idle
    <2>4. PendingUntold(u)'
      BY <1>2, <2>1 DEF Once, PendingUntold, Absent, Idle
    <2> QED BY <1>2, <2>1, <2>2, <2>3, <2>4 DEF Once
  <1>23. CASE UNCHANGED vars
    BY <1>2, <1>3, <1>23 DEF vars
  <1> QED
    BY <1>0, <1>5, <1>6, <1>7, <1>8, <1>9, <1>10, <1>11, <1>13, <1>14, <1>15, <1>16,
       <1>18, <1>19, <1>20, <1>21, <1>22, <1>23
    DEF Next, ScanFire

(* If plugins only retry a task that is not being delivered, and the SDK   *)
(* does not start the fallback's scan, an outcome is told again only when  *)
(* its earlier telling failed or was cut off: the in-flight map, the mark  *)
(* and the bridge's cache keep the retry timer, the store's callbacks, a   *)
(* restart and a late completion apart.                                    *)
THEOREM ToldOnce ==
    ASSUME RetryMidDelivery = FALSE, SessionScans = FALSE
    PROVE  Spec => []NothingToldTwice
  <1>1. OnceInv /\ [Next]_vars => OnceInv'
    BY OnceStep
  <1>2. OnceInv => NothingToldTwice
    BY DEF OnceInv, Once, NothingToldTwice
  <1> QED BY <1>1, <1>2, OnceInit, PTL DEF Spec

-----------------------------------------------------------------------------
(* The mailbox.                                                            *)

\* A delivery that is under way is of a record that is not marked, and what it sends is
\* not in doubt; what it loads for, and what is on record, has a number.
OnItsWay(u) ==
    /\ flight[u] # Idle \/ bridge[u].stage = "sending" =>
          (task[u].status # "absent" /\ task[u].delivered => task[u].fenced)
    /\ flight[u].stage = "sending" => flight[u].attempt \notin doubt[u]
    /\ bridge[u].stage = "sending" => u \in Bridge /\ bridge[u].attempt \notin doubt[u]
    /\ flight[u].stage = "loading" => flight[u].attempt > 0
HasNumber(r) == /\ r.status # "absent" => r.attempt > 0
                /\ r.status = "absent" => ~r.delivered
Way(u) == OnItsWay(u) /\ HasNumber(task[u]) /\ HasNumber(disk[u])

MailInv == OnceInv /\ \A u \in Task : Way(u)

\* A change of a record that numbers nothing new and marks nothing.
Unmarking(r, q) ==
    /\ q.status # "absent" => /\ r.status # "absent" /\ q.attempt = r.attempt
                              /\ q.delivered => r.delivered \/ q.fenced
                              /\ r.fenced => q.fenced
    /\ q.status = "absent" /\ q.delivered => r.status = "absent" /\ r.delivered

LEMMA UnmarkingChanges ==
    ASSUME NEW r \in Record
    PROVE  /\ Unmarking(r, r) /\ Unmarking(r, Absent) /\ Unmarking(r, Swept(r))
           /\ r.status # "absent" => Unmarking(r, Fenced(r))
  <1>1. Unmarking(r, r) /\ Unmarking(r, Absent)
    BY DEF Unmarking, Absent
  <1>2. r.status # "absent" => Unmarking(r, Fenced(r))
    BY DEF Unmarking, Fenced
  <1>3. Unmarking(r, Swept(r))
    BY <1>1, <1>2 DEF Swept, Open, Deliverable, Settled
  <1> QED BY <1>1, <1>2, <1>3

LEMMA WayQuiet ==
    ASSUME NEW u \in Task, Way(u), Unmarking(task[u], task'[u]),
           disk'[u] = disk[u] \/ disk'[u] = task[u],
           flight'[u] = flight[u] \/ flight'[u] = Idle,
           bridge'[u] = bridge[u] \/ bridge'[u].stage # "sending",
           \/ doubt'[u] \subseteq doubt[u]
           \/ flight'[u].stage # "sending" /\ bridge'[u].stage # "sending"
    PROVE  Way(u)'
  <1>1. HasNumber(task[u])' /\ HasNumber(disk[u])'
    BY DEF Way, HasNumber, Unmarking
  <1>2. OnItsWay(u)'
    BY DEF Way, OnItsWay, Unmarking, Idle
  <1> QED BY <1>1, <1>2 DEF Way

\* A task whose delivery starts from a record that is not marked.
LEMMA WayStarts ==
    ASSUME NEW u \in Task, Way(u), Unmarking(task[u], task'[u]), disk'[u] = disk[u],
           NEW a \in Nat, a > 0, task'[u].delivered => task'[u].fenced \/ task'[u].status = "absent",
           \/ /\ flight'[u] = [stage |-> "loading", attempt |-> a]
              /\ bridge'[u].stage # "sending"
           \/ /\ flight'[u] = [stage |-> "sending", attempt |-> a] /\ a \notin doubt'[u]
              /\ bridge'[u].stage # "sending"
           \/ /\ bridge'[u] = [stage |-> "sending", attempt |-> a] /\ a \notin doubt'[u]
              /\ flight'[u] = Idle /\ u \in Bridge
    PROVE  Way(u)'
  <1>1. HasNumber(task[u])' /\ HasNumber(disk[u])'
    BY DEF Way, HasNumber, Unmarking
  <1>2. OnItsWay(u)'
    BY DEF OnItsWay, Idle
  <1> QED BY <1>1, <1>2 DEF Way

\* The telling of t leaves no doubt of it, and what is known of others as it was.
LEMMA TellOneDoubt ==
    ASSUME TypeOK, NEW t \in Task, NEW a, TellOne(t, a)
    PROVE  /\ told' = [told EXCEPT ![t] = @ \cup {a}]
           /\ doubt' = [doubt EXCEPT ![t] = @ \ {a}]
  BY DEF TellOne, Tell, TypeOK

LEMMA WayDeliver ==
    ASSUME TypeOK, NEW tk \in [Task -> Record], NEW t \in Task, Deliver(tk, t),
           NEW u \in Task, Way(u), Unmarking(task[u], tk[u]), UNCHANGED <<disk, bridge>>
    PROVE  Way(u)'
  <1>1. CASE task' = tk /\ Refused
    BY <1>1, WayQuiet DEF Refused
  <1>2. CASE ~Skips(tk, t) /\ task' = [tk EXCEPT ![t] = Fenced(tk[t])] /\ Refused
    <2>1. Unmarking(tk[u], task'[u])
      BY <1>2, UnmarkingChanges DEF Skips, Deliverable, Settled
    <2>2. Unmarking(task[u], task'[u])
      BY <2>1 DEF Unmarking
    <2> QED BY <1>2, <2>2, WayQuiet DEF Refused
  <1> DEFINE a == tk[t].attempt
  <1>3. ASSUME ~Skips(tk, t), task' = tk, u = t
        PROVE  /\ ~task'[u].delivered /\ bridge'[u].stage # "sending"
               /\ a \in Nat /\ a > 0
    <2>1. tk[u].status # "absent" /\ ~tk[u].delivered /\ u \notin Bridge
      BY <1>3 DEF Skips, Deliverable, Settled
    <2>2. a = task[u].attempt /\ task[u].status # "absent"
      BY <1>3, <2>1 DEF Unmarking
    <2> QED BY <1>3, <2>1, <2>2 DEF Way, HasNumber, OnItsWay, TypeOK, Record
  <1>4. CASE ~Skips(tk, t) /\ task' = tk /\ StartLoading(t, a)
    <2>1. CASE u = t
      <3>1. flight'[u] = [stage |-> "loading", attempt |-> a]
        BY <1>4, <2>1 DEF StartLoading, TypeOK
      <3> HIDE DEF a
      <3> QED BY <1>3, <1>4, <2>1, <3>1, WayStarts
    <2>2. CASE u # t
      <3>1. flight'[u] = flight[u]
        BY <1>4, <2>2 DEF StartLoading, TypeOK
      <3> QED BY <1>4, <3>1, WayQuiet DEF StartLoading
    <2> QED BY <2>1, <2>2
  <1>5. CASE ~Skips(tk, t) /\ task' = tk /\ StartSending(t, a)
    <2>1. CASE u = t
      <3>1. /\ flight'[u] = [stage |-> "sending", attempt |-> a]
            /\ doubt'[u] = doubt[u] \ {a}
        BY <1>5, <2>1, TellOneDoubt DEF StartSending, TypeOK
      <3> HIDE DEF a
      <3> QED BY <1>3, <1>5, <2>1, <3>1, WayStarts
    <2>2. CASE u # t
      <3>1. flight'[u] = flight[u] /\ doubt'[u] = doubt[u]
        BY <1>5, <2>2, TellOneDoubt DEF StartSending, TypeOK
      <3> QED BY <1>5, <3>1, WayQuiet
    <2> QED BY <2>1, <2>2
  <1> QED BY <1>1, <1>2, <1>4, <1>5 DEF Deliver

LEMMA MailInit == Init => MailInv
  <1> SUFFICES ASSUME Init PROVE MailInv
    OBVIOUS
  <1>1. ASSUME NEW u \in Task PROVE Way(u)
    BY DEF Init, Way, OnItsWay, HasNumber, Absent, Idle
  <1> QED BY <1>1, OnceInit DEF MailInv

LEMMA MailStep ==
    ASSUME RetryMidDelivery = FALSE, SessionScans = FALSE, MailInv, [Next]_vars
    PROVE  MailInv'
  <1>0. TypeOK /\ OnceInv /\ OnceInv' /\ scan = "off"
    BY OnceStep DEF MailInv, OnceInv, MarkInv
  <1> SUFFICES ASSUME NEW u \in Task PROVE Way(u)'
    BY <1>0 DEF MailInv
  <1>1. Way(u) /\ Once(u) /\ FlightOwn(u) /\ task[u] \in Record /\ Unmarking(task[u], task[u])
    BY <1>0, UnmarkingChanges DEF MailInv, OnceInv, MarkInv, UnderWay, TypeOK
  <1>2. ASSUME Unmarking(task[u], task'[u]), disk'[u] = disk[u] \/ disk'[u] = task[u],
               UNCHANGED <<flight, bridge, doubt>>
        PROVE  Way(u)'
    BY <1>1, <1>2, WayQuiet
  \* A registration of t: nothing of it is under way.
  <1>3. ASSUME NEW t \in Task, task' = [task EXCEPT ![t] = Fresh(made[t] + 1)],
               UNCHANGED <<disk, flight, bridge, doubt>>
        PROVE  Way(u)'
    <2>1. CASE u = t
      <3>1. task'[u] = Fresh(made[u] + 1) /\ made[u] \in Nat
        BY <1>0, <1>3, <2>1 DEF TypeOK
      <3> QED BY <1>1, <1>3, <3>1 DEF Way, OnItsWay, HasNumber, Fresh
    <2>2. CASE u # t
      BY <1>0, <1>1, <1>2, <1>3, <2>2 DEF TypeOK
    <2> QED BY <2>1, <2>2
  <1>4. ASSUME NEW t \in Task, Defer(t) PROVE Way(u)'
    <2>1. made[t] = 0
      BY <1>4 DEF Defer
    <2>2. made[t] + 1 = 1
      BY <2>1
    <2> QED BY <1>3, <1>4, <2>2 DEF Defer
  <1>5. ASSUME NEW t \in Task, Retry(t) PROVE Way(u)'
    BY <1>3, <1>5 DEF Retry
  <1>6. ASSUME NEW t \in Task, NEW s \in Settled, Settle(t, s) PROVE Way(u)'
    <2> DEFINE r == [status |-> s, attempt |-> task[t].attempt,
                     delivered |-> task[t].delivered, fenced |-> task[t].fenced]
               tk == [task EXCEPT ![t] = r]
    <2>1. /\ task[t] \in Record /\ task[t].status = "pending" /\ r \in Record
          /\ Way(t) /\ Once(t)
      BY <1>0, <1>6 DEF TypeOK, Settle, MaySettle, Record, Status, MailInv, OnceInv
    <2>2. tk \in [Task -> Record] /\ Unmarking(task[u], tk[u])
      <3>1. tk \in [Task -> Record] /\ tk[u] = IF u = t THEN r ELSE task[u]
        BY <1>0, <2>1 DEF TypeOK
      <3>2. Unmarking(task[t], r)
        BY <2>1 DEF Unmarking, Settled
      <3> QED BY <1>1, <3>1, <3>2
    <2>3. CASE Deliver(tk, t) /\ UNCHANGED bridge
      BY <1>0, <1>1, <1>6, <2>2, <2>3, WayDeliver DEF Settle
    <2>4. CASE t \in Bridge /\ task' = tk /\ BridgeEvent(t, r.attempt) /\ UNCHANGED flight
      <3>1. CASE UNCHANGED <<bridge, told, doubt, twice>>
        BY <1>2, <1>6, <2>2, <2>4, <3>1 DEF Settle
      <3>2. CASE /\ bridge' = [bridge EXCEPT ![t] = [stage |-> "sending", attempt |-> r.attempt]]
                 /\ TellOne(t, r.attempt)
        <4>1. CASE u = t
          <5>1. /\ bridge'[u] = [stage |-> "sending", attempt |-> task[u].attempt]
                /\ doubt'[u] = doubt[u] \ {task[u].attempt}
            BY <1>0, <3>2, <4>1, TellOneDoubt DEF TypeOK
          <5>2. /\ task'[u].attempt = task[u].attempt /\ ~task'[u].delivered
                /\ task[u].attempt \in Nat /\ task[u].attempt > 0 /\ flight'[u] = Idle
            BY <1>0, <2>1, <2>4, <4>1 DEF TypeOK, Once, PendingUntold, Way, HasNumber, Record
          <5> HIDE DEF r, tk
          <5> QED BY <1>1, <1>6, <2>2, <2>4, <4>1, <5>1, <5>2, WayStarts DEF Settle
        <4>2. CASE u # t
          <5>1. bridge'[u] = bridge[u] /\ doubt'[u] = doubt[u]
            BY <1>0, <3>2, <4>2, TellOneDoubt DEF TypeOK
          <5> QED BY <1>1, <1>6, <2>2, <2>4, <5>1, WayQuiet DEF Settle
        <4> QED BY <4>1, <4>2
      <3> QED BY <2>4, <3>1, <3>2 DEF BridgeEvent
    <2> QED BY <1>6, <2>3, <2>4 DEF Settle
  <1>7. ASSUME NEW t \in Task, Cleanup(t) PROVE Way(u)'
    <2>1. Unmarking(task[u], task'[u])
      BY <1>0, <1>1, <1>7, UnmarkingChanges DEF Cleanup, TypeOK
    <2> QED BY <1>2, <1>7, <2>1 DEF Cleanup
  <1>8. ASSUME NEW t \in Task, Tick(t) PROVE Way(u)'
    BY <1>0, <1>1, <1>8, WayDeliver DEF Tick, TypeOK
  <1>9. ASSUME NEW t \in Task, LoadFail(t) PROVE Way(u)'
    <2>1. flight'[u] = flight[u] \/ flight'[u] = Idle
      BY <1>0, <1>9 DEF LoadFail, TypeOK
    <2> QED BY <1>1, <1>9, <2>1, WayQuiet DEF LoadFail
  <1>10. ASSUME NEW t \in Task, LoadOk(t) PROVE Way(u)'
    <2> DEFINE a == flight[t].attempt
    <2>1. CASE MaySend(t) /\ StartSending(t, a)
      <3>1. CASE u = t
        <4>1. /\ flight'[u] = [stage |-> "sending", attempt |-> a]
              /\ doubt'[u] = doubt[u] \ {a}
          BY <1>0, <2>1, <3>1, TellOneDoubt DEF StartSending, TypeOK
        <4>2. /\ flight[u].stage = "loading" /\ a = flight[u].attempt /\ a \in Nat /\ a > 0
              /\ task' = task /\ disk' = disk /\ bridge' = bridge
          BY <1>0, <1>1, <1>10, <3>1 DEF LoadOk, TypeOK, Flight, Way, OnItsWay
        <4>3. /\ task'[u].delivered => task'[u].fenced \/ task'[u].status = "absent"
              /\ bridge'[u].stage # "sending"
          BY <1>1, <4>2 DEF Way, OnItsWay, Once, Idle
        <4> HIDE DEF a
        <4> QED BY <1>1, <4>1, <4>2, <4>3, WayStarts
      <3>2. CASE u # t
        <4>1. flight'[u] = flight[u] /\ doubt'[u] = doubt[u]
          BY <1>0, <2>1, <3>2, TellOneDoubt DEF StartSending, TypeOK
        <4> QED BY <1>1, <1>10, <4>1, WayQuiet DEF LoadOk
      <3> QED BY <3>1, <3>2
    <2>2. CASE flight' = [flight EXCEPT ![t] = Idle] /\ UNCHANGED <<told, doubt, twice>>
      <3>1. flight'[u] = flight[u] \/ flight'[u] = Idle
        BY <1>0, <2>2 DEF TypeOK
      <3> QED BY <1>1, <1>10, <2>2, <3>1, WayQuiet DEF LoadOk
    <2> QED BY <1>10, <2>1, <2>2 DEF LoadOk
  \* A delivery that ends marks its task, and none of it is under way any more.
  <1>11. ASSUME task' = MarkIfPresent(u), flight'[u] = Idle, bridge'[u].stage # "sending",
                disk' = disk
         PROVE  Way(u)'
    <2>1. /\ task'[u].status = task[u].status /\ task'[u].attempt = task[u].attempt
          /\ task[u].status = "absent" => task'[u] = task[u]
      BY <1>0, <1>11 DEF MarkIfPresent, Marked, TypeOK
    <2> QED BY <1>1, <1>11, <2>1 DEF Way, OnItsWay, HasNumber, Idle
  <1>12. ASSUME NEW t \in Task, task' = MarkIfPresent(t), u # t PROVE task'[u] = task[u]
    BY <1>0, <1>12 DEF MarkIfPresent, TypeOK
  <1>13. ASSUME NEW t \in Task, SendOk(t) PROVE Way(u)'
    <2>1. flight'[u] = IF u = t THEN Idle ELSE flight[u]
      BY <1>0, <1>13 DEF SendOk, TypeOK
    <2>2. CASE u = t
      <3>1. bridge'[u].stage # "sending"
        BY <1>1, <1>13, <2>2 DEF SendOk, Way, OnItsWay, Once, Idle
      <3> QED BY <1>11, <1>13, <2>1, <2>2, <3>1 DEF SendOk
    <2>3. CASE u # t
      BY <1>1, <1>12, <1>13, <2>1, <2>3, WayQuiet DEF SendOk
    <2> QED BY <2>2, <2>3
  <1>14. ASSUME NEW t \in Task, SendFail(t) PROVE Way(u)'
    <2>1. /\ flight'[u] = IF u = t THEN Idle ELSE flight[u]
          /\ u # t => doubt'[u] = doubt[u]
          /\ bridge' = bridge /\ task' = task /\ disk' = disk
      BY <1>0, <1>14 DEF SendFail, Doubt, TypeOK
    <2>2. u = t => flight'[u].stage # "sending" /\ bridge'[u].stage # "sending"
      BY <1>1, <1>14, <2>1 DEF SendFail, Way, OnItsWay, Once, Idle
    <2> QED BY <1>1, <2>1, <2>2, WayQuiet
  <1>15. ASSUME NEW t \in Task, BridgeOk(t) PROVE Way(u)'
    <2>1. bridge'[u] = IF u = t THEN [stage |-> "done", attempt |-> bridge[u].attempt] ELSE bridge[u]
      BY <1>0, <1>15 DEF BridgeOk, TypeOK
    <2>2. CASE u = t
      <3>1. flight'[u] = Idle
        BY <1>1, <1>15, <2>2 DEF BridgeOk, Way, OnItsWay, Once
      <3> QED BY <1>11, <1>15, <2>1, <2>2, <3>1 DEF BridgeOk
    <2>3. CASE u # t
      BY <1>1, <1>12, <1>15, <2>1, <2>3, WayQuiet DEF BridgeOk
    <2> QED BY <2>2, <2>3
  <1>16. ASSUME NEW t \in Task, BridgeFail(t) PROVE Way(u)'
    <2>1. /\ bridge'[u] = IF u = t THEN Idle ELSE bridge[u]
          /\ u # t => doubt'[u] = doubt[u]
          /\ flight' = flight /\ task' = task /\ disk' = disk
      BY <1>0, <1>16 DEF BridgeFail, Doubt, TypeOK
    <2>2. u = t => flight'[u].stage # "sending" /\ bridge'[u].stage # "sending"
      BY <1>1, <1>16, <2>1 DEF BridgeFail, Way, OnItsWay, Once, Idle
    <2>3. bridge'[u] = bridge[u] \/ bridge'[u].stage # "sending"
      BY <2>1 DEF Idle
    <2> QED BY <1>1, <2>1, <2>2, <2>3, WayQuiet
  <1>17. ASSUME NEW S, \A t \in S : task[t].status # "absent", Suppress(S) PROVE Way(u)'
    <2>1. Unmarking(task[u], task'[u])
      BY <1>1, <1>17, UnmarkingChanges DEF Suppress
    <2> QED BY <1>2, <1>17, <2>1 DEF Suppress
  <1>18. CASE DiscardBranch \/ AbortTurn
    BY <1>17, <1>18 DEF DiscardBranch, AbortTurn, Open, Deliverable, Settled
  <1>19. CASE Flush \/ OpenSession \/ Hibernate \/ ArchiveEnd
    BY <1>0, <1>1, <1>2, <1>19 DEF Flush, OpenSession, Hibernate, ArchiveEnd, TypeOK
  <1>20. CASE ArchiveBegin \/ Unarchive
    <2>1. Unmarking(task[u], task'[u])
      BY <1>1, <1>20, UnmarkingChanges DEF ArchiveBegin, Unarchive, Sweep
    <2> QED BY <1>2, <1>20, <2>1 DEF ArchiveBegin, Unarchive
  <1>21. CASE Crash
    BY <1>1, <1>21 DEF Crash, Way, OnItsWay, HasNumber, Absent, Idle
  <1>22. CASE UNCHANGED vars
    BY <1>1, <1>2, <1>22 DEF vars
  <1> QED
    BY <1>0, <1>4, <1>5, <1>6, <1>7, <1>8, <1>9, <1>10, <1>13, <1>14, <1>15, <1>16, <1>18,
       <1>19, <1>20, <1>21, <1>22
    DEF Next, ScanFire

\* Where a record stands as a letter.
LEMMA Stands ==
    ASSUME NEW r \in Record, Closed(r)
    PROVE  /\ r.status = "absent" <=> Standing(r) = "none"
           /\ r.status = "pending" <=> Standing(r) = "open"
           /\ Deliverable(r) <=> Standing(r) = "due"
           /\ r.status # "absent" /\ r.fenced <=> Standing(r) = "silent"
           /\ Standing(r) = "done" => r.status \in Settled /\ r.delivered /\ ~r.fenced
           /\ r.status # "absent" /\ r.status # "pending" /\ r.delivered
                => Standing(r) \in {"done", "silent"}
  <1>1. r.status \in {"absent", "pending"} \cup Settled /\ r.delivered \in BOOLEAN /\ r.fenced \in BOOLEAN
    BY DEF Record, Status
  <1>2. CASE r.status = "absent"
    BY <1>1, <1>2 DEF Standing, Deliverable, Settled, Closed
  <1>3. CASE r.status = "pending"
    BY <1>1, <1>3 DEF Standing, Deliverable, Settled, Closed
  <1>4. CASE r.status \in Settled /\ ~r.delivered
    BY <1>1, <1>4 DEF Standing, Deliverable, Settled, Closed
  <1>5. CASE r.status \in Settled /\ r.delivered /\ r.fenced
    BY <1>1, <1>5 DEF Standing, Deliverable, Settled, Closed
  <1>6. CASE r.status \in Settled /\ r.delivered /\ ~r.fenced
    BY <1>1, <1>6 DEF Standing, Deliverable, Settled, Closed
  <1> QED BY <1>1, <1>2, <1>3, <1>4, <1>5, <1>6

\* What the operators on records do to the letter.
LEMMA LetterChanges ==
    ASSUME NEW r \in Record, Closed(r)
    PROVE  /\ LetterOf(Absent) = Box!None
           /\ \A a \in 0 .. MaxAttempt : LetterOf(Fresh(a)) = Box!Letter("open", a)
           /\ r.status # "absent" => LetterOf(Fenced(r)) = Box!Letter("silent", r.attempt)
           /\ LetterOf(Swept(r)) \in {LetterOf(r)} \cup
                 {l \in {Box!Letter("silent", r.attempt)} : r.status # "absent"}
           /\ Deliverable(r) => LetterOf(Marked(r)) = Box!Letter("done", r.attempt)
           /\ r.status \notin {"absent", "pending"} /\ ~Deliverable(r)
                => LetterOf(Marked(r)) = LetterOf(r)
  <1>1. LetterOf(Absent) = Box!None
    <2>1. Absent \in Record /\ Closed(Absent) /\ Absent.status = "absent" /\ Absent.attempt = 0
      BY BoundAssumption DEF Absent, Record, Status, Closed
    <2>2. Standing(Absent) = "none"
      BY <2>1, Stands
    <2> QED BY <2>1, <2>2 DEF LetterOf, Box!None
  <1>2. ASSUME NEW a \in 0 .. MaxAttempt PROVE LetterOf(Fresh(a)) = Box!Letter("open", a)
    <2>1. /\ Fresh(a) \in Record /\ Closed(Fresh(a))
          /\ Fresh(a).status = "pending" /\ Fresh(a).attempt = a
      BY FreshType DEF Fresh, Closed
    <2>2. Standing(Fresh(a)) = "open"
      BY <2>1, Stands
    <2> QED BY <2>1, <2>2 DEF LetterOf, Box!Letter
  <1>3. ASSUME r.status # "absent" PROVE LetterOf(Fenced(r)) = Box!Letter("silent", r.attempt)
    <2>1. Fenced(r) \in Record /\ Closed(Fenced(r)) /\ Fenced(r).fenced
          /\ Fenced(r).status # "absent" /\ Fenced(r).attempt = r.attempt
      BY <1>3, RecordTypes, ClosedRecords DEF Fenced
    <2>2. Standing(Fenced(r)) = "silent"
      BY <2>1, Stands
    <2> QED BY <2>1, <2>2 DEF LetterOf, Box!Letter
  <1>4. LetterOf(Swept(r)) = LetterOf(r) \/ (r.status # "absent" /\ Swept(r) = Fenced(r))
    BY DEF Swept, Open, Deliverable, Settled, Fenced
  <1>5. ASSUME r.status \notin {"absent", "pending"}
        PROVE  /\ Deliverable(r) => LetterOf(Marked(r)) = Box!Letter("done", r.attempt)
               /\ ~Deliverable(r) => LetterOf(Marked(r)) = LetterOf(r)
    <2>1. r.status \in Settled /\ r = [status |-> r.status, attempt |-> r.attempt,
                                       delivered |-> r.delivered, fenced |-> r.fenced]
          /\ r.delivered \in BOOLEAN /\ r.fenced \in BOOLEAN
      BY <1>5 DEF Record, Status
    <2>2. CASE Deliverable(r)
      <3>1. Marked(r) = [status |-> r.status, attempt |-> r.attempt, delivered |-> TRUE, fenced |-> FALSE]
        BY <2>1, <2>2 DEF Marked, Deliverable, Closed
      <3> QED BY <2>1, <2>2, <3>1 DEF LetterOf, Standing, Deliverable, Settled, Box!Letter
    <2>3. CASE ~Deliverable(r)
      <3>1. Marked(r) = r
        BY <2>1, <2>3 DEF Marked, Deliverable
      <3> QED BY <2>3, <3>1
    <2> QED BY <2>2, <2>3
  <1>6. Deliverable(r) => r.status \notin {"absent", "pending"}
    BY DEF Deliverable, Settled
  <1> QED BY <1>1, <1>2, <1>3, <1>4, <1>5, <1>6

\* A change of one record is a change of one letter, and of one delivery of what is held.
LEMMA OneLetter ==
    ASSUME TypeOK, NEW t \in Task, NEW r, task' = [task EXCEPT ![t] = r]
    PROVE  LettersOf(task)' = [LettersOf(task) EXCEPT ![t] = LetterOf(r)]
  BY DEF LettersOf, TypeOK

LEMMA OneCourier ==
    ASSUME TypeOK, NEW t \in Task, NEW f, flight' = [flight EXCEPT ![t] = f]
    PROVE  Couriers' = [Couriers EXCEPT ![t] = Loads(f)]
  BY DEF TypeOK, Couriers

\* A delivery that ends or that sends is no courier's.
LEMMA NoCourier ==
    ASSUME TypeOK, NEW t \in Task, NEW f, Loads(f) = Loads(flight[t]),
           flight' = [flight EXCEPT ![t] = f]
    PROVE  UNCHANGED Couriers
  BY DEF TypeOK, Couriers

LEMMA BoxInit == Init => Box!Init
  <1> SUFFICES ASSUME Init PROVE Box!Init
    OBVIOUS
  <1>1. Absent \in Record /\ Closed(Absent)
    BY BoundAssumption DEF Absent, Record, Status, Closed
  <1>2. LetterOf(Absent) = Box!None
    BY <1>1, LetterChanges
  <1>3. LettersOf(task) = [t \in Task |-> Box!None] /\ LettersOf(disk) = LettersOf(task)
    BY <1>2 DEF LettersOf, Init
  <1>4. Couriers = [t \in Task |-> 0]
    BY DEF Couriers, Loads, Init, Idle
  <1> QED BY <1>3, <1>4 DEF Box!Init, Init

\* The start of a delivery of t, from records with the same letters but t's, which is due.
LEMMA BoxDeliver ==
    ASSUME MailInv, NEW t \in Task, NEW r \in Record, r.attempt = task[t].attempt,
           r.status \in Settled, r.fenced = task[t].fenced, r.delivered = task[t].delivered,
           task[t].status # "absent", Deliver([task EXCEPT ![t] = r], t),
           UNCHANGED <<disk, made>>
    PROVE  \/ /\ LettersOf(task)' = [LettersOf(task) EXCEPT ![t] = LetterOf(r)]
              /\ \/ Box!Serve(t) /\ LetterOf(r).state = "due"
                 \/ UNCHANGED <<flight, told, doubt>>
           \/ /\ LettersOf(task)' = [LettersOf(task) EXCEPT ![t] = Box!Letter("silent", r.attempt)]
              /\ LetterOf(r).state = "due"
              /\ UNCHANGED <<flight, told, doubt>>
  <1> DEFINE tk == [task EXCEPT ![t] = r]
             a  == tk[t].attempt
  <1>1. TypeOK /\ Once(t) /\ Way(t) /\ tk[t] = r /\ a = task[t].attempt /\ Closed(r)
    BY DEF MailInv, OnceInv, MarkInv, FenceInv, TypeOK, Closed
  <1>2. LettersOf(task)[t].issue = a
    BY <1>1 DEF LettersOf, LetterOf
  <1>3. ASSUME task' = tk
        PROVE  LettersOf(task)' = [LettersOf(task) EXCEPT ![t] = LetterOf(r)]
    BY <1>1, <1>3, OneLetter
  <1>4. CASE task' = tk /\ Refused
    BY <1>3, <1>4 DEF Refused
  <1>5. ASSUME ~Skips(tk, t)
        PROVE  /\ LetterOf(r).state = "due" /\ flight[t] = Idle /\ a \notin Heard(t)
               /\ Couriers[t] = 0
    <2>1. flight[t] = Idle /\ Deliverable(r) /\ t \notin Bridge
      BY <1>1, <1>5 DEF Skips
    <2>2. LetterOf(r).state = "due"
      BY <1>1, <2>1, Stands DEF LetterOf
    <2>3. a \notin Heard(t)
      BY <1>1, <2>1 DEF Deliverable, Once, HeardIsMarked, Idle
    <2>4. Couriers[t] = 0
      BY <2>1 DEF Couriers, Loads, Idle
    <2> QED BY <2>1, <2>2, <2>3, <2>4
  <1>6. CASE ~Skips(tk, t) /\ task' = [tk EXCEPT ![t] = Fenced(tk[t])] /\ Refused
    <2>1. task' = [task EXCEPT ![t] = Fenced(r)]
      BY <1>1, <1>6 DEF TypeOK
    <2>2. LetterOf(Fenced(r)) = Box!Letter("silent", r.attempt)
      BY <1>1, LetterChanges DEF Settled
    <2>3. LettersOf(task)' = [LettersOf(task) EXCEPT ![t] = Box!Letter("silent", r.attempt)]
      BY <1>1, <2>1, <2>2, OneLetter
    <2> QED BY <1>5, <1>6, <2>3, SMTT(30) DEF Refused
  <1>7. CASE ~Skips(tk, t) /\ task' = tk /\ StartLoading(t, a)
    <2> DEFINE f == [stage |-> "loading", attempt |-> a]
    <2>1. Loads(f) = a /\ flight' = [flight EXCEPT ![t] = f]
      BY <1>7 DEF Loads, StartLoading
    <2> HIDE DEF f, a, tk
    <2>a. TypeOK /\ flight' = [flight EXCEPT ![t] = f]
      BY <1>1, <2>1
    <2>b. Couriers' = [Couriers EXCEPT ![t] = Loads(f)]
      BY <2>a, OneCourier, Zenon
    <2>2. Couriers' = [Couriers EXCEPT ![t] = a]
      BY <2>1, <2>b
    <2> USE DEF a, tk
    <2>3. Box!Serve(t)
      BY <1>2, <1>5, <1>7, <2>2 DEF Box!Serve, StartLoading
    <2>4. LettersOf(task)' = [LettersOf(task) EXCEPT ![t] = LetterOf(r)]
      BY <1>3, <1>7
    <2>5. LetterOf(r).state = "due"
      BY <1>5, <1>7
    <2> HIDE DEF a, tk
    <2> QED BY <2>3, <2>4, <2>5
  <1>8. CASE ~Skips(tk, t) /\ task' = tk /\ StartSending(t, a)
    <2>1. Loads([stage |-> "sending", attempt |-> a]) = Loads(flight[t])
      BY <1>5, <1>8 DEF Loads, Idle
    <2>2. UNCHANGED Couriers
      BY <1>1, <1>8, <2>1, NoCourier DEF StartSending
    <2>3. Box!HandOver(t, a)
      BY <1>1, <1>5, <1>8, TellOneDoubt DEF StartSending, Box!HandOver, Box!Heard, Heard
    <2>4. Box!Serve(t)
      BY <1>2, <1>5, <1>8, <2>2, <2>3 DEF Box!Serve
    <2> QED BY <1>3, <1>5, <1>8, <2>4
  <1> QED BY <1>1, <1>4, <1>6, <1>7, <1>8 DEF Deliver

\* Records that are swept or suppressed are letters that are silenced.
LEMMA BoxSilence ==
    ASSUME UNCHANGED <<disk, flight, made, told, doubt>>,
           \A t \in Task : \/ LetterOf(task[t])' = LetterOf(task[t])
                           \/ /\ LetterOf(task[t]).state # "none"
                              /\ LetterOf(task[t])' = Box!Letter("silent", task[t].attempt)
    PROVE  Box!Silence
  <1>1. /\ \A t \in Task : LettersOf(task)[t] = LetterOf(task[t]) /\ LetterOf(task[t]).issue = task[t].attempt
        /\ \A t \in Task : LettersOf(task)'[t] = LetterOf(task[t])'
    BY DEF LettersOf, LetterOf
  <1>2. UNCHANGED <<LettersOf(disk), Couriers>>
    BY DEF LettersOf, Couriers
  <1> QED BY <1>1, <1>2 DEF Box!Silence

\* A delivery that was sending, by the coordinator or the bridge, and has arrived.
LEMMA BoxClose ==
    ASSUME MailInv, NEW t \in Task, task' = MarkIfPresent(t),
           flight[t].stage = "sending" \/ bridge[t].stage = "sending",
           UNCHANGED <<disk, made, told, doubt, Couriers>>
    PROVE  Box!Close(t) \/ UNCHANGED Box!vars
  <1>1. /\ TypeOK /\ Once(t) /\ Way(t) /\ UnderWay(t) /\ task[t] \in Record /\ Closed(task[t])
        /\ UNCHANGED LettersOf(disk)
    BY DEF MailInv, OnceInv, MarkInv, FenceInv, TypeOK, LettersOf
  <1>2. CASE task[t].status = "absent"
    BY <1>1, <1>2 DEF MarkIfPresent, LettersOf, Box!vars
  <1>3. CASE task[t].status # "absent"
    <2>1. task' = [task EXCEPT ![t] = Marked(task[t])] /\ task[t].status # "pending"
      BY <1>1, <1>3 DEF MarkIfPresent, Once, PendingUntold, Idle
    <2>2. LettersOf(task)' = [LettersOf(task) EXCEPT ![t] = LetterOf(Marked(task[t]))]
      BY <1>1, <2>1, OneLetter
    <2>3. CASE ~Deliverable(task[t])
      <3>1. LetterOf(Marked(task[t])) = LetterOf(task[t])
        BY <1>1, <1>3, <2>1, <2>3, LetterChanges
      <3>2. UNCHANGED LettersOf(task)
        BY <2>2, <3>1 DEF LettersOf
      <3> QED BY <1>1, <3>2 DEF Box!vars
    <2>4. CASE Deliverable(task[t])
      <3>1. LetterOf(Marked(task[t])) = Box!Letter("done", task[t].attempt)
        BY <1>1, <2>4, LetterChanges
      <3>2. LettersOf(task)[t] = Box!Letter("due", task[t].attempt)
        BY <1>1, <2>4, Stands DEF LettersOf, LetterOf, Box!Letter
      <3>3. task[t].attempt \in Heard(t)
        BY <1>1, <1>3 DEF UnderWay, FlightOwn, FlightTold, BridgeOwn, BridgeTold, Way, OnItsWay,
                          Heard, Idle
      <3>4. Box!Becomes(t, "done")
        BY <2>2, <3>1, <3>2 DEF Box!Becomes, Box!Letter
      <3>5. LettersOf(task)[t].state = "due" /\ LettersOf(task)[t].issue \in Box!Heard(t)
        BY <3>2, <3>3 DEF Box!Letter, Box!Heard, Heard
      <3> QED BY <1>1, <3>4, <3>5 DEF Box!Close
    <2> QED BY <2>3, <2>4
  <1> QED BY <1>2, <1>3

\* One that has not, or may not have.
LEMMA BoxFail ==
    ASSUME MailInv, NEW t \in Task, NEW a, Doubt(t, a), a \in told[t],
           task[t].status # "absent" /\ task[t].delivered => task[t].fenced,
           UNCHANGED <<task, disk, made, Couriers>>
    PROVE  Box!Fail(t)
  <1>1. task[t] \in Record /\ Closed(task[t])
    BY DEF MailInv, OnceInv, FenceInv, TypeOK
  <1>2. LettersOf(task)[t].state # "done"
    <2>1. ~(task[t].status \in Settled /\ task[t].delivered /\ ~task[t].fenced)
      BY DEF Settled
    <2> QED BY <1>1, <2>1, Stands DEF LettersOf, LetterOf
  <1>3. LettersOf(task)[t] # Box!Letter("done", a)
    BY <1>2 DEF Box!Letter
  <1>4. UNCHANGED <<LettersOf(task), LettersOf(disk)>>
    BY DEF LettersOf
  <1> QED BY <1>3, <1>4 DEF Box!Fail, Doubt

LEMMA BoxStep ==
    ASSUME RetryMidDelivery = FALSE, SessionScans = FALSE, MailInv, [Next]_vars
    PROVE  [Box!Next]_Box!vars
  <1>0. /\ TypeOK /\ scan = "off"
        /\ \A t \in Task : /\ task[t] \in Record /\ disk[t] \in Record /\ flight[t] \in Flight
                           /\ Closed(task[t]) /\ Closed(disk[t])
                           /\ Way(t) /\ Once(t) /\ UnderWay(t)
    BY DEF MailInv, OnceInv, MarkInv, FenceInv, TypeOK
  <1>1. disk' = disk => UNCHANGED LettersOf(disk)
    BY DEF LettersOf
  <1>2. task' = task => UNCHANGED LettersOf(task)
    BY DEF LettersOf
  <1>3. flight' = flight => UNCHANGED Couriers
    BY DEF Couriers
  <1>4. ASSUME UNCHANGED <<task, disk, flight, made, told, doubt>> PROVE UNCHANGED Box!vars
    BY <1>1, <1>2, <1>3, <1>4 DEF Box!vars
  \* A registration, of a task with nothing under way.
  <1>5. ASSUME NEW t \in Task, flight[t] = Idle, made[t] + 1 \in 0 .. MaxAttempt,
               task' = [task EXCEPT ![t] = Fresh(made[t] + 1)],
               made' = [made EXCEPT ![t] = made[t] + 1],
               UNCHANGED <<disk, flight, told, doubt>>
        PROVE  Box!Issue(t)
    <2>1. LetterOf(Fresh(made[t] + 1)) = Box!Letter("open", made[t] + 1)
      BY <1>0, <1>5, LetterChanges
    <2>2. LettersOf(task)' = [LettersOf(task) EXCEPT ![t] = Box!Letter("open", made[t] + 1)]
      BY <1>0, <1>5, <2>1, OneLetter
    <2>3. Couriers[t] = 0
      BY <1>5 DEF Couriers, Loads, Idle
    <2> QED BY <1>1, <1>3, <1>5, <2>2, <2>3 DEF Box!Issue
  <1>6. ASSUME NEW t \in Task, Defer(t) PROVE Box!Issue(t)
    <2>1. flight[t] = Idle /\ made[t] = 0
      BY <1>0, <1>6 DEF Defer, UnderWay, FlightOwn
    <2>2. made[t] + 1 = 1 /\ 1 \in 0 .. MaxAttempt
      BY <1>6, <2>1, BoundAssumption DEF Defer
    <2> QED BY <1>5, <1>6, <2>1, <2>2 DEF Defer
  <1>7. ASSUME NEW t \in Task, Retry(t) PROVE Box!Issue(t)
    <2>1. made[t] + 1 \in 0 .. MaxAttempt /\ made' = [made EXCEPT ![t] = made[t] + 1]
      BY <1>0, <1>7, BoundAssumption DEF Retry, TypeOK
    <2> QED BY <1>5, <1>7, <2>1 DEF Retry, RetryAllowed
  <1>8. ASSUME NEW t \in Task, NEW s \in Settled, Settle(t, s) PROVE Box!Settle(t)
    <2> DEFINE r == [status |-> s, attempt |-> task[t].attempt,
                     delivered |-> task[t].delivered, fenced |-> task[t].fenced]
               L == LettersOf(task)
    <2>1. /\ task[t].status = "pending" /\ ~task[t].delivered /\ r \in Record /\ Closed(r)
          /\ flight[t] = Idle /\ task[t].attempt \notin Heard(t)
      BY <1>0, <1>8 DEF Settle, MaySettle, Once, PendingUntold, HeardIsMarked, Record, Status,
                        Closed, Idle
    <2>2. L[t] = Box!Letter("open", task[t].attempt) /\ L[t].state = "open"
          /\ L[t].issue = task[t].attempt
      BY <1>0, <2>1, Stands DEF LettersOf, LetterOf, Box!Letter
    <2>3. LetterOf(r) = Box!Letter("due", task[t].attempt)
      <3>1. Deliverable(r)
        BY <2>1 DEF Deliverable
      <3> QED BY <2>1, <3>1, Stands DEF LetterOf, Box!Letter
    <2>4. /\ L' = [L EXCEPT ![t] = LetterOf(r)] => Box!Becomes(t, "due")
          /\ L' = [L EXCEPT ![t] = Box!Letter("silent", r.attempt)] => Box!Becomes(t, "silent")
      <3>1. r.attempt = task[t].attempt
        OBVIOUS
      <3> HIDE DEF r
      <3> QED BY <2>2, <2>3, <3>1 DEF Box!Becomes
    <2>5. disk' = disk /\ made' = made
      BY <1>8 DEF Settle
    <2>6. CASE Deliver([task EXCEPT ![t] = r], t)
      <3>1. \/ /\ L' = [L EXCEPT ![t] = LetterOf(r)]
               /\ Box!Serve(t) \/ UNCHANGED <<flight, told, doubt>>
            \/ /\ L' = [L EXCEPT ![t] = Box!Letter("silent", r.attempt)]
               /\ UNCHANGED <<flight, told, doubt>>
        BY <2>1, <2>5, <2>6, BoxDeliver
      <3>2. UNCHANGED <<flight, told, doubt>> => Box!Serve(t)
        BY <1>3 DEF Box!Serve
      <3> HIDE DEF r
      <3> QED BY <1>1, <1>3, <2>2, <2>4, <2>5, <3>1, <3>2 DEF Box!Settle
    <2>7. CASE t \in Bridge /\ task' = [task EXCEPT ![t] = r] /\ BridgeEvent(t, r.attempt) /\ UNCHANGED flight
      <3>1. L' = [L EXCEPT ![t] = LetterOf(r)]
        BY <1>0, <2>7, OneLetter
      <3>2. ASSUME UNCHANGED <<bridge, told, doubt, twice>> PROVE Box!Serve(t)
        BY <1>3, <2>7, <3>2 DEF Box!Serve
      <3>3. ASSUME TellOne(t, r.attempt) PROVE Box!Serve(t)
        <4>1. Box!HandOver(t, L[t].issue)
          BY <1>0, <2>1, <2>2, <3>3, TellOneDoubt DEF Box!HandOver, Box!Heard, Heard
        <4>2. Couriers[t] = 0
          BY <2>1 DEF Couriers, Loads, Idle
        <4> QED BY <1>3, <2>7, <4>1, <4>2 DEF Box!Serve
      <3>4. Box!Serve(t)
        BY <2>7, <3>2, <3>3 DEF BridgeEvent
      <3> HIDE DEF r
      <3> QED BY <1>1, <2>2, <2>4, <2>5, <3>1, <3>4 DEF Box!Settle
    <2> QED BY <1>8, <2>6, <2>7 DEF Settle
  <1>9. ASSUME NEW t \in Task, Cleanup(t) PROVE Box!ThrowAway(t)
    <2>1. LettersOf(task)' = [LettersOf(task) EXCEPT ![t] = Box!None]
      <3>1. LetterOf(Absent) = Box!None
        BY <1>0, LetterChanges
      <3>2. LettersOf(task)' = [LettersOf(task) EXCEPT ![t] = LetterOf(Absent)]
        BY <1>0, <1>9, OneLetter DEF Cleanup
      <3> QED BY <3>1, <3>2
    <2>2. UNCHANGED <<LettersOf(disk), Couriers, made, told, doubt>>
      BY <1>1, <1>3, <1>9 DEF Cleanup
    <2>3. task[t].delivered /\ task[t].status # "pending"
      BY <1>0, <1>9 DEF Cleanup, Once, PendingUntold
    <2>4. LettersOf(task)[t].state \in {"done", "silent"}
      BY <1>0, <1>9, <2>3, Stands DEF Cleanup, Way, HasNumber, LettersOf, LetterOf
    <2> QED BY <2>1, <2>2, <2>4 DEF Box!ThrowAway, Box!Finished
  <1>10. ASSUME NEW t \in Task, Tick(t) PROVE Box!Next \/ UNCHANGED Box!vars
    <2> DEFINE L == LettersOf(task)
    <2>1. /\ Deliverable(task[t]) /\ task[t].status \in Settled
          /\ task = [task EXCEPT ![t] = task[t]]
          /\ disk' = disk /\ made' = made
      BY <1>0, <1>10 DEF Tick, Deliverable, TypeOK
    <2>2. \/ /\ L' = [L EXCEPT ![t] = LetterOf(task[t])]
             /\ Box!Serve(t) \/ UNCHANGED <<flight, told, doubt>>
          \/ /\ L' = [L EXCEPT ![t] = Box!Letter("silent", task[t].attempt)]
             /\ UNCHANGED <<flight, told, doubt>>
      BY <1>0, <1>10, <2>1, BoxDeliver DEF Tick, Settled
    <2>3. L[t] = LetterOf(task[t]) /\ L[t] = Box!Letter("due", task[t].attempt) /\ L[t].state = "due"
      BY <1>0, <2>1, Stands DEF LettersOf, LetterOf, Box!Letter
    <2>4. L = [L EXCEPT ![t] = LetterOf(task[t])]
      BY <2>3 DEF LettersOf
    <2>5. CASE L' = L /\ Box!Serve(t)
      BY <1>1, <2>1, <2>3, <2>5 DEF Box!Attend, Box!Next
    <2>6. CASE L' = L /\ UNCHANGED <<flight, told, doubt>>
      BY <1>1, <1>3, <2>1, <2>6 DEF Box!vars
    <2>7. CASE /\ L' = [L EXCEPT ![t] = Box!Letter("silent", task[t].attempt)]
               /\ UNCHANGED <<flight, told, doubt>>
      <3>1. \A u \in Task : \/ L'[u] = L[u]
                            \/ /\ L[u].state # "none"
                               /\ L'[u] = Box!Letter("silent", L[u].issue)
        <4>1. L[t].issue = task[t].attempt
          BY <2>3 DEF LetterOf
        <4>2. t \in DOMAIN L
          BY DEF LettersOf
        <4> HIDE DEF L
        <4> QED BY <2>3, <2>7, <4>1, <4>2
      <3> QED BY <1>1, <1>3, <2>1, <2>7, <3>1 DEF Box!Silence, Box!Next
    <2> QED BY <2>2, <2>4, <2>5, <2>6, <2>7
  \* A load ends.
  <1>11. ASSUME NEW t \in Task, flight[t].stage = "loading", NEW f,
                flight' = [flight EXCEPT ![t] = f], Loads(f) = 0,
                UNCHANGED <<task, disk, made>>
         PROVE  /\ Couriers[t] # 0 /\ Couriers[t] = flight[t].attempt
                /\ Couriers' = [Couriers EXCEPT ![t] = 0]
    <2>1. Couriers[t] = flight[t].attempt /\ flight[t].attempt \in Nat /\ flight[t].attempt > 0
      BY <1>0, <1>11 DEF Couriers, Loads, Way, OnItsWay, Flight
    <2>2. Couriers' = [Couriers EXCEPT ![t] = Loads(f)]
      BY <1>0, <1>11, OneCourier
    <2> QED BY <1>11, <2>1, <2>2
  <1>12. ASSUME NEW t \in Task, flight[t].stage = "loading",
                flight' = [flight EXCEPT ![t] = Idle], UNCHANGED <<task, disk, made, told, doubt>>
         PROVE  Box!ComeBack(t)
    <2>1. Loads(Idle) = 0
      BY DEF Loads, Idle
    <2> QED BY <1>1, <1>2, <1>11, <1>12, <2>1 DEF Box!ComeBack
  <1>13. ASSUME NEW t \in Task, LoadOk(t) PROVE Box!Next
    <2> DEFINE a == flight[t].attempt
    <2>1. CASE MaySend(t) /\ StartSending(t, a)
      <3> DEFINE f == [stage |-> "sending", attempt |-> a]
      <3>1. flight' = [flight EXCEPT ![t] = f] /\ Loads(f) = 0
        BY <2>1 DEF StartSending, Loads
      <3>2. /\ Couriers[t] # 0 /\ Couriers[t] = a
            /\ Couriers' = [Couriers EXCEPT ![t] = 0]
        <4> HIDE DEF f
        <4> QED BY <1>11, <1>13, <3>1 DEF LoadOk
      <3>3. LettersOf(task)[t] = Box!Letter("due", a) \/ LettersOf(task)[t].state = "none"
        <4>1. CASE task[t].status = "absent"
          BY <1>0, <4>1, Stands DEF LettersOf, LetterOf
        <4>2. CASE task[t].status # "absent"
          <5>1. /\ task[t].attempt = a /\ task[t].status # "pending" /\ ~task[t].delivered
            BY <1>0, <1>13, <2>1, <4>2 DEF LoadOk, MaySend, UnderWay, FlightOwn, Once,
               PendingUntold, Way, OnItsWay, Idle
          <5>2. Deliverable(task[t])
            BY <1>0, <4>2, <5>1 DEF Deliverable, Record, Status
          <5> QED BY <1>0, <5>1, <5>2, Stands DEF LettersOf, LetterOf, Box!Letter
        <4> QED BY <4>1, <4>2
      <3>4. Box!HandOver(t, a)
        BY <1>0, <1>13, <2>1, TellOneDoubt DEF LoadOk, StartSending, Once, LoadsUnheard,
           Box!HandOver, Box!Heard, Heard
      <3> QED BY <1>1, <1>2, <1>13, <3>2, <3>3, <3>4 DEF LoadOk, Box!Arrive, Box!Next
    <2>2. CASE flight' = [flight EXCEPT ![t] = Idle] /\ UNCHANGED <<told, doubt, twice>>
      BY <1>12, <1>13, <2>2 DEF LoadOk, Box!Next
    <2> QED BY <1>13, <2>1, <2>2 DEF LoadOk
  <1>14. ASSUME NEW t \in Task, LoadFail(t) PROVE Box!ComeBack(t)
    BY <1>12, <1>14 DEF LoadFail
  \* A send ends, which no courier has.
  <1>15. ASSUME NEW t \in Task, flight[t].stage = "sending", flight' = [flight EXCEPT ![t] = Idle]
         PROVE  UNCHANGED Couriers
    <2>1. Loads(Idle) = Loads(flight[t])
      BY <1>15 DEF Loads, Idle
    <2> QED BY <1>0, <1>15, <2>1, NoCourier
  <1>16. ASSUME NEW t \in Task, SendOk(t) PROVE Box!Close(t) \/ UNCHANGED Box!vars
    BY <1>15, <1>16, BoxClose DEF SendOk
  <1>17. ASSUME NEW t \in Task, BridgeOk(t) PROVE Box!Close(t) \/ UNCHANGED Box!vars
    BY <1>3, <1>17, BoxClose DEF BridgeOk
  <1>18. ASSUME NEW t \in Task, SendFail(t) PROVE Box!Fail(t)
    <2>1. UNCHANGED Couriers
      BY <1>15, <1>18 DEF SendFail
    <2> QED BY <1>0, <1>18, <2>1, BoxFail DEF SendFail, UnderWay, FlightTold, Way, OnItsWay, Idle
  <1>19. ASSUME NEW t \in Task, BridgeFail(t) PROVE Box!Fail(t)
    <2>1. UNCHANGED Couriers
      BY <1>3, <1>19 DEF BridgeFail
    <2> QED BY <1>0, <1>19, <2>1, BoxFail DEF BridgeFail, UnderWay, BridgeTold, Way, OnItsWay
  <1>20. ASSUME NEW S, \A t \in S : task[t].status # "absent", Suppress(S) PROVE Box!Silence
    <2>1. ASSUME NEW t \in Task
          PROVE  \/ LetterOf(task[t])' = LetterOf(task[t])
                 \/ /\ LetterOf(task[t]).state # "none"
                    /\ LetterOf(task[t])' = Box!Letter("silent", task[t].attempt)
      <3>1. CASE t \in S
        <4>1. task'[t] = Fenced(task[t]) /\ task[t].status # "absent"
          BY <1>20, <3>1 DEF Suppress
        <4> QED BY <1>0, <4>1, LetterChanges, Stands DEF LetterOf
      <3>2. CASE t \notin S
        BY <1>20, <3>2 DEF Suppress
      <3> QED BY <3>1, <3>2
    <2> QED BY <1>20, <2>1, BoxSilence DEF Suppress
  <1>21. CASE DiscardBranch \/ AbortTurn
    <2>1. Box!Silence
      BY <1>20, <1>21 DEF DiscardBranch, AbortTurn, Open, Deliverable, Settled
    <2> QED BY <2>1 DEF Box!Next
  <1>22. CASE ArchiveBegin \/ Unarchive
    <2>1. ASSUME NEW t \in Task
          PROVE  \/ LetterOf(task[t])' = LetterOf(task[t])
                 \/ /\ LetterOf(task[t]).state # "none"
                    /\ LetterOf(task[t])' = Box!Letter("silent", task[t].attempt)
      <3>1. task'[t] = task[t] \/ task'[t] = Swept(task[t])
        BY <1>22 DEF ArchiveBegin, Unarchive, Sweep
      <3>2. CASE task'[t] = Swept(task[t])
        BY <1>0, <3>2, LetterChanges, Stands DEF LetterOf
      <3> QED BY <3>1, <3>2
    <2>2. Box!Silence
      BY <1>22, <2>1, BoxSilence DEF ArchiveBegin, Unarchive
    <2> QED BY <2>2 DEF Box!Next
  <1>23. CASE Flush
    <2>1. LettersOf(disk)' = LettersOf(task)
      BY <1>23 DEF Flush, LettersOf
    <2>2. Box!Save
      BY <1>2, <1>3, <1>23, <2>1 DEF Flush, Box!Save
    <2> QED BY <2>2 DEF Box!Next
  <1>24. CASE Crash
    <2>1. Couriers' = [t \in Task |-> 0]
      BY <1>24 DEF Crash, Couriers, Loads, Idle
    <2>2. ASSUME NEW t \in Task
          PROVE  /\ Box!Finished(LettersOf(disk)[t]) <=> disk[t].delivered
                 /\ LettersOf(disk)[t].issue = disk[t].attempt
                 /\ \/ LettersOf(task)'[t] = LettersOf(disk)[t]
                    \/ Box!Finished(LettersOf(disk)[t]) /\ LettersOf(task)'[t] = Box!None
      <3>1. disk[t].delivered => disk[t].status # "absent" /\ disk[t].status # "pending"
        BY <1>0 DEF Way, HasNumber, Once, PendingUntold
      <3>2. Standing(disk[t]) \in {"done", "silent"} <=> disk[t].delivered
        BY <1>0, <3>1, Stands DEF Closed
      <3>3. /\ LettersOf(disk)[t] = LetterOf(disk[t]) /\ LettersOf(task)'[t] = LetterOf(task'[t])
            /\ LetterOf(disk[t]).state = Standing(disk[t]) /\ LetterOf(disk[t]).issue = disk[t].attempt
        BY DEF LettersOf, LetterOf
      <3>4. task'[t] = disk[t] \/ (disk[t].delivered /\ task'[t] = Absent)
        BY <1>24 DEF Crash
      <3>5. LetterOf(Absent) = Box!None
        BY <1>0, LetterChanges
      <3> QED BY <3>2, <3>3, <3>4, <3>5 DEF Box!Finished
    <2>3. doubt' = [t \in Task |-> told[t] \ (IF Box!Finished(LettersOf(disk)[t])
                                              THEN {LettersOf(disk)[t].issue} ELSE {})]
      BY <1>24, <2>2 DEF Crash
    <2>4. Box!Crash
      BY <1>1, <1>24, <2>1, <2>2, <2>3 DEF Crash, Box!Crash
    <2> QED BY <2>4 DEF Box!Next
  <1>25. CASE OpenSession \/ Hibernate \/ ArchiveEnd \/ UNCHANGED vars
    BY <1>4, <1>25 DEF OpenSession, Hibernate, ArchiveEnd, vars
  <1> QED
    BY <1>0, <1>6, <1>7, <1>8, <1>9, <1>10, <1>13, <1>14, <1>16, <1>17, <1>18, <1>19, <1>21,
       <1>22, <1>23, <1>24, <1>25
    DEF Next, ScanFire, Box!Next

(* If plugins only retry a task that is not being delivered, and the SDK    *)
(* does not start the fallback's scan, the store, the coordinator and the   *)
(* bridge together keep what a mailbox promises: an outcome is handed over  *)
(* when it is due and not twice without a reason, what is closed was handed *)
(* over beyond doubt or fenced, and what is fenced is not handed over,      *)
(* whatever fails, dies or is archived in between.                          *)
THEOREM MailboxImplemented ==
    ASSUME RetryMidDelivery = FALSE, SessionScans = FALSE
    PROVE  Spec => ImplementsMailbox
  <1>1. MailInv /\ [Next]_vars => MailInv'
    BY MailStep
  <1>2. MailInv /\ [Next]_vars => [Box!Next]_Box!vars
    BY BoxStep
  <1> QED BY <1>1, <1>2, MailInit, BoxInit, PTL DEF Spec, ImplementsMailbox, Box!Spec
=============================================================================
