---------------------------- MODULE BackgroundProofs ----------------------------
(* Proofs about the components that work in the background of the sessions: the *)
(* automations, the registry of tasks and schedules, the review turns and the    *)
(* subagents.  They share no state, and each has an invariant of its own.        *)
EXTENDS Automations, TaskRegistry, AgentReview, SubagentRuns, FiniteSetTheorems, TLAPS

-----------------------------------------------------------------------------
(* AUTOMATIONS, for any number of jobs, revisions, crashes and lost lines.  That  *)
(* an edit stands, and that a cursor is not run again, is inductive only with     *)
(* what is known of the revision that is awaited: it is the one on file or an     *)
(* earlier one, an earlier one when an edit is to stand.                          *)

AwaitedRecords == [id : Jobs, rev : Nat]
PastRecords == [trouble : 0..MaxTrouble, runs : [Jobs -> Nat],
                cause : [Jobs -> SUBSET {"edited", "crashed"}], edited : [Jobs -> BOOLEAN]]
Listed == [id : Jobs, due : BOOLEAN]
Awaitings == {<<>>} \cup {<<a>> : a \in AwaitedRecords}
CheckRecords == [on : BOOLEAN, left : SUBSET Listed, awaited : Awaitings]
NobodyAwaited == check.awaited = <<>>

\* The shape of the state; an execution that is awaited is of a check under way, and of
\* a job that still has its turn there.
AutomationShape ==
    /\ job \in [Jobs -> JobRecords]
    /\ check \in CheckRecords
    /\ lock \in [Jobs -> BOOLEAN] /\ exec \in [Jobs -> Nat]
    /\ past \in PastRecords
    /\ ~NobodyAwaited => check.on /\ \E e \in check.left : Awaits(e.id)

\* Only the last revision a user makes leaves a job disabled for good; a job that was
\* never created has no history.
RevsKept(r) ==
    /\ r.enabled => r.there /\ r.rev <= MaxRev
    /\ r.there => r.rev > 0

\* The lock of a job is the execution in progress.
LockTells(j) == exec[j] = IF lock[j] THEN 1 ELSE 0

\* A job that was never created has nothing.
Unborn(j) ==
    job[j].rev = 0 => past.runs[j] = 0 /\ ~past.edited[j] /\ ~Awaits(j)

\* The execution that is awaited is of the revision on file or of an earlier one; of an
\* earlier one when an edit is to stand.
RevAwaited(j) ==
    Awaits(j) => /\ job[j].there => check.awaited[1].rev <= job[j].rev
                 /\ past.edited[j] => check.awaited[1].rev < job[j].rev

\* What a user's edit left stands.
EditKept(j) == past.edited[j] => job[j].enabled /\ job[j].cursor # "none"

\* A cursor that has been run and that nothing disturbed is run just now, at the
\* revision on file, or its job is gone.
RunOnce(j) ==
    past.runs[j] > 0 /\ past.cause[j] = {} =>
        /\ past.runs[j] = 1
        /\ job[j].there => Awaits(j) /\ check.awaited[1].rev = job[j].rev

JobKept(j) ==
    /\ RevsKept(job[j]) /\ LockTells(j) /\ Unborn(j)
    /\ RevAwaited(j) /\ EditKept(j) /\ RunOnce(j)

AutomationInv == AutomationShape /\ \A j \in Jobs : JobKept(j)

-----------------------------------------------------------------------------

\* One job put on file leaves the others.
LEMMA JobPut ==
    ASSUME job \in [Jobs -> JobRecords], NEW j \in Jobs, NEW r \in JobRecords,
           job' = [job EXCEPT ![j] = r]
    PROVE  /\ job' \in [Jobs -> JobRecords] /\ job'[j] = r
           /\ \A k \in Jobs : k # j => job'[k] = job[k]
OBVIOUS

\* What each note m of the history h changes.
LEMMA MovedIs ==
    ASSUME NEW h \in PastRecords, NEW j \in Jobs, NEW m, m = Moved(h, j)
    PROVE  /\ m \in PastRecords /\ m.trouble = h.trouble
           /\ m.runs[j] = 0 /\ m.cause[j] = {}
           /\ \A k \in Jobs : k # j => m.runs[k] = h.runs[k] /\ m.cause[k] = h.cause[k]
           /\ \A k \in Jobs : m.edited[k] = h.edited[k]
<1>1. /\ m \in PastRecords /\ m.trouble = h.trouble /\ m.runs = [h.runs EXCEPT ![j] = 0]
      /\ m.cause = [h.cause EXCEPT ![j] = {}] /\ m.edited = h.edited
  BY DEF PastRecords, Moved
<1> QED
  BY <1>1 DEF PastRecords

LEMMA ForgottenIs ==
    ASSUME NEW h \in PastRecords, NEW j \in Jobs, NEW m, m = Forgotten(h, j)
    PROVE  /\ m \in PastRecords /\ m.trouble = h.trouble /\ m.runs = h.runs
           /\ m.cause = h.cause /\ ~m.edited[j]
           /\ \A k \in Jobs : k # j => m.edited[k] = h.edited[k]
<1>1. /\ m \in PastRecords /\ m.trouble = h.trouble /\ m.runs = h.runs /\ m.cause = h.cause
      /\ m.edited = [h.edited EXCEPT ![j] = FALSE]
  BY DEF PastRecords, Forgotten
<1> QED
  BY <1>1 DEF PastRecords

LEMMA MetIs ==
    ASSUME NEW h \in PastRecords, NEW j \in Jobs, NEW m, m = Met(h, j),
           job' \in [Jobs -> JobRecords]
    PROVE  /\ m \in PastRecords /\ m.trouble = h.trouble /\ m.runs = h.runs
           /\ \A k \in Jobs : k # j => m.cause[k] = h.cause[k] /\ m.edited[k] = h.edited[k]
           /\ m.cause[j] = {} => ~Awaits(j) /\ h.cause[j] = {}
           /\ m.edited[j] => \/ job'[j].enabled /\ job'[j].cursor # "none"
                             \/ ~Awaits(j) /\ h.edited[j]
<1>1. job'[j].enabled \in BOOLEAN
  BY DEF JobRecords
<1>2. CASE ~Awaits(j)
  BY <1>2 DEF Met
<1>3. CASE Awaits(j)
  <2>1. PICK b \in BOOLEAN : b = (job'[j].enabled /\ job'[j].cursor # "none")
    BY <1>1
  <2>2. m = [h EXCEPT !.cause[j] = @ \cup {"edited"}, !.edited[j] = b]
    BY <1>3, <2>1 DEF Met
  <2>a. PICK c : c = [h.cause EXCEPT ![j] = @ \cup {"edited"}]
    OBVIOUS
  <2>b. PICK e : e = [h.edited EXCEPT ![j] = b]
    OBVIOUS
  <2>c. c \in [Jobs -> SUBSET {"edited", "crashed"}] /\ e \in [Jobs -> BOOLEAN]
    BY <2>a, <2>b DEF PastRecords
  <2>d. m = [h EXCEPT !.cause = c, !.edited = e]
    BY <2>2, <2>a, <2>b DEF PastRecords
  <2>3. /\ m \in PastRecords /\ m.trouble = h.trouble /\ m.runs = h.runs
        /\ m.cause = [h.cause EXCEPT ![j] = @ \cup {"edited"}]
        /\ m.edited = [h.edited EXCEPT ![j] = b]
    BY <2>a, <2>b, <2>c, <2>d DEF PastRecords
  <2>4. /\ \A k \in Jobs : k # j => m.cause[k] = h.cause[k] /\ m.edited[k] = h.edited[k]
        /\ m.cause[j] # {} /\ m.edited[j] = b
    BY <2>3 DEF PastRecords
  <2> QED
    BY <2>1, <2>3, <2>4
<1> QED
  BY <1>2, <1>3

\* What does not concern a job leaves what is known of it.
LEMMA JobUntouched ==
    ASSUME NEW k \in Jobs, JobKept(k), job'[k] = job[k], lock'[k] = lock[k],
           exec'[k] = exec[k], past'.runs[k] = past.runs[k], past'.cause[k] = past.cause[k],
           past'.edited[k] = past.edited[k], Awaits(k)' = Awaits(k),
           Awaits(k) => check'.awaited[1].rev = check.awaited[1].rev
    PROVE  JobKept(k)'
BY DEF JobKept, RevsKept, LockTells, Unborn, RevAwaited, EditKept, RunOnce

LEMMA UnawaitedUntouched ==
    ASSUME NEW k \in Jobs, JobKept(k), job'[k] = job[k], lock'[k] = lock[k],
           exec'[k] = exec[k], past'.runs[k] = past.runs[k], past'.cause[k] = past.cause[k],
           past'.edited[k] = past.edited[k], ~Awaits(k), ~Awaits(k)'
    PROVE  JobKept(k)'
BY DEF JobKept, RevsKept, LockTells, Unborn, RevAwaited, EditKept, RunOnce

\* A write of the user to job j leaves the shape of the state, and the other jobs.
LEMMA WriteOfOne ==
    ASSUME AutomationInv, NEW j \in Jobs, NEW r \in JobRecords,
           job' = [job EXCEPT ![j] = r], past' \in PastRecords,
           \A k \in Jobs : k # j => /\ past'.runs[k] = past.runs[k]
                                    /\ past'.cause[k] = past.cause[k]
                                    /\ past'.edited[k] = past.edited[k],
           UNCHANGED <<check, lock, exec>>, JobKept(j)'
    PROVE  AutomationInv'
<1>1. /\ job' \in [Jobs -> JobRecords] /\ job'[j] = r
      /\ \A k \in Jobs : k # j => job'[k] = job[k]
  BY JobPut DEF AutomationInv, AutomationShape
<1>2. AutomationShape'
  BY <1>1 DEF AutomationInv, AutomationShape, NobodyAwaited, Awaits
<1>3. \A k \in Jobs : Awaits(k)' = Awaits(k)
  BY DEF Awaits
<1>4. ASSUME NEW k \in Jobs, k # j PROVE JobKept(k)'
  BY <1>1, <1>3, <1>4, JobUntouched DEF AutomationInv
<1> QED
  BY <1>2, <1>4 DEF AutomationInv

\* A change of the configuration: a new revision, and in the history the edit that the
\* execution met, or a cursor that has not been run.
LEMMA RevisionKeeps ==
    ASSUME AutomationInv, NEW j \in Jobs, NEW r \in JobRecords,
           job[j].there, job[j].rev < MaxRev,
           job' = [job EXCEPT ![j] = r], r.there, r.rev = job[j].rev + 1,
           past' \in PastRecords,
           \A k \in Jobs : k # j => /\ past'.runs[k] = past.runs[k]
                                    /\ past'.cause[k] = past.cause[k]
                                    /\ past'.edited[k] = past.edited[k],
           past'.edited[j] => r.enabled /\ r.cursor # "none",
           \/ past'.runs[j] = 0
           \/ /\ past'.runs[j] = past.runs[j]
              /\ past'.cause[j] = {} => ~Awaits(j) /\ past.cause[j] = {},
           UNCHANGED <<check, lock, exec>>
    PROVE  AutomationInv'
<1>1. job \in [Jobs -> JobRecords] /\ job[j] \in JobRecords /\ JobKept(j)
  BY DEF AutomationInv, AutomationShape
<1>2. /\ job[j].rev \in Revisions /\ job[j].rev \in Nat /\ job[j].rev + 1 \in Revisions
      /\ MaxRev \in Nat \ {0}
  <2>1. job[j].rev \in Revisions /\ MaxRev \in Nat \ {0}
    BY <1>1, AutomationsAssumption DEF JobRecords
  <2> QED
    BY <2>1 DEF Revisions
<1>3. Awaits(j) => check.awaited[1].rev \in Nat
  BY DEF AutomationInv, AutomationShape, Awaits, CheckRecords, Awaitings, AwaitedRecords
<1>5. job'[j] = r
  BY <1>1
<1>6. Awaits(j)' = Awaits(j)
  BY DEF Awaits
<1>7. RevsKept(r)
  BY <1>2 DEF RevsKept
<1>8. Awaits(j) => check.awaited[1].rev < r.rev
  BY <1>1, <1>2, <1>3 DEF JobKept, RevAwaited
<1>9. LockTells(j)' /\ Unborn(j)'
  BY <1>1, <1>2, <1>5 DEF JobKept, LockTells, Unborn
<1>10. RevAwaited(j)' /\ EditKept(j)'
  BY <1>2, <1>3, <1>5, <1>6, <1>8 DEF RevAwaited, EditKept
<1>11. RunOnce(j)'
  BY <1>1, <1>5, <1>6 DEF JobKept, RunOnce
<1>12. JobKept(j)'
  BY <1>5, <1>7, <1>9, <1>10, <1>11 DEF JobKept
<1> QED
  BY <1>12, WriteOfOne

\* What the user does keeps the invariant.
LEMMA UserStepKeeps ==
    ASSUME AutomationInv, NEW j \in Jobs, UserStep(j)
    PROVE  AutomationInv'
<1>1. /\ job \in [Jobs -> JobRecords] /\ job[j] \in JobRecords /\ past \in PastRecords
      /\ JobKept(j)
  BY DEF AutomationInv, AutomationShape
<1>2. /\ job[j].rev \in Nat /\ job[j].enabled \in BOOLEAN
      /\ job[j].rev < MaxRev => job[j].rev + 1 \in Revisions
      /\ job[j].cursor \in {"none", "ahead", "due"} /\ job[j].over \in BOOLEAN
  <2>1. /\ job[j].rev \in Revisions /\ job[j].enabled \in BOOLEAN
        /\ job[j].cursor \in {"none", "ahead", "due"} /\ job[j].over \in BOOLEAN
    BY <1>1 DEF JobRecords
  <2> QED
    BY <2>1, AutomationsAssumption DEF Revisions
<1>3. 1 \in Revisions /\ MaxRev \in Revisions /\ MaxRev \in Nat /\ 1 <= MaxRev
  BY AutomationsAssumption DEF Revisions
<1>4. CASE AddJob(j)
  <2>1. PICK newer \in BOOLEAN :
            job' = [job EXCEPT ![j] = [there |-> TRUE, enabled |-> TRUE, rev |-> 1,
                                       cursor |-> "ahead", over |-> FALSE, newer |-> newer]]
    BY <1>4 DEF AddJob
  <2>a. PICK r : r = [there |-> TRUE, enabled |-> TRUE, rev |-> 1,
                      cursor |-> "ahead", over |-> FALSE, newer |-> newer]
    OBVIOUS
  <2>2. r \in JobRecords /\ r.there /\ r.enabled /\ r.rev = 1 /\ r.cursor = "ahead"
    <3>1. PICK v \in Revisions : v = 1
      BY <1>3
    <3>2. r = [there |-> TRUE, enabled |-> TRUE, rev |-> v,
               cursor |-> "ahead", over |-> FALSE, newer |-> newer]
      BY <2>a, <3>1
    <3> QED
      BY <3>1, <3>2 DEF JobRecords
  <2>3. job' = [job EXCEPT ![j] = r]
    BY <2>1, <2>a
  <2>4. job'[j] = r
    BY <1>1, <2>3
  <2>5. job[j].rev = 0 /\ UNCHANGED <<check, lock, exec, past>> /\ Awaits(j)' = Awaits(j)
    BY <1>4 DEF AddJob, Awaits
  <2>6. RevsKept(r)
    BY <1>3, <2>2 DEF RevsKept
  <2>7. JobKept(j)'
    BY <1>1, <2>2, <2>4, <2>5, <2>6
       DEF JobKept, LockTells, Unborn, RevAwaited, EditKept, RunOnce, PastRecords
  <2> QED
    BY <1>1, <2>2, <2>3, <2>5, <2>7, WriteOfOne
<1>5. CASE RemoveJob(j)
  <2>a. PICK r : r = [NoJob EXCEPT !.rev = MaxRev]
    OBVIOUS
  <2>1. r \in JobRecords /\ ~r.there /\ ~r.enabled /\ r.rev = MaxRev
    <3>1. r = [there |-> FALSE, enabled |-> FALSE, rev |-> MaxRev, cursor |-> "none",
               over |-> FALSE, newer |-> FALSE]
      BY <2>a DEF NoJob
    <3>2. PICK v \in Revisions : v = MaxRev
      BY <1>3
    <3>3. r = [there |-> FALSE, enabled |-> FALSE, rev |-> v, cursor |-> "none",
               over |-> FALSE, newer |-> FALSE]
      BY <3>1, <3>2
    <3> QED
      BY <3>2, <3>3 DEF JobRecords
  <2>2. job' = [job EXCEPT ![j] = r] /\ past' = Forgotten(past, j)
        /\ UNCHANGED <<check, lock, exec>>
    BY <1>5, <2>a DEF RemoveJob
  <2>3. job'[j] = r
    BY <1>1, <2>2
  <2>4. /\ past' \in PastRecords /\ past'.runs = past.runs /\ past'.cause = past.cause
        /\ ~past'.edited[j] /\ \A k \in Jobs : k # j => past'.edited[k] = past.edited[k]
    BY <1>1, <2>2, ForgottenIs
  <2>5. JobKept(j)'
    <3>1. Awaits(j)' = Awaits(j) /\ ~past'.edited[j]
      BY <2>2, <2>4 DEF Awaits
    <3>2. RevsKept(r)
      BY <2>1 DEF RevsKept
    <3>3. r.rev # 0
      BY <1>3, <2>1
    <3>4. LockTells(j)' /\ Unborn(j)'
      BY <1>1, <2>2, <2>3, <3>3 DEF JobKept, LockTells, Unborn
    <3>5. RevAwaited(j)' /\ EditKept(j)'
      BY <2>1, <2>3, <3>1 DEF RevAwaited, EditKept
    <3>6. RunOnce(j)'
      BY <1>1, <2>1, <2>3, <2>4 DEF JobKept, RunOnce
    <3> QED
      BY <2>3, <3>2, <3>4, <3>5, <3>6 DEF JobKept
  <2> QED
    BY <2>1, <2>2, <2>4, <2>5, WriteOfOne
<1>6. CASE EditJob(j)
  <2>1. /\ job[j].there /\ job[j].rev < MaxRev /\ UNCHANGED <<check, lock, exec>>
        /\ job' = [job EXCEPT ![j].rev = @ + 1] /\ past' = Met(past, j)
    BY <1>6 DEF EditJob
  <2>a. PICK r : r = [job[j] EXCEPT !.rev = job[j].rev + 1]
    OBVIOUS
  <2>2. job' = [job EXCEPT ![j] = r]
    BY <2>1, <2>a
  <2>3. /\ r \in JobRecords /\ r.there = job[j].there /\ r.enabled = job[j].enabled
        /\ r.rev = job[j].rev + 1 /\ r.cursor = job[j].cursor
    <3>1. PICK v \in Revisions : v = job[j].rev + 1
      BY <1>2, <2>1
    <3>2. PICK q \in JobRecords : q = job[j]
      BY <1>1
    <3>3. r = [q EXCEPT !.rev = v]
      BY <2>a, <3>1, <3>2
    <3>4. /\ r \in JobRecords /\ r.there = q.there /\ r.enabled = q.enabled /\ r.rev = v
          /\ r.cursor = q.cursor
      BY <3>3 DEF JobRecords
    <3> QED
      BY <3>1, <3>2, <3>4
  <2>4. job' \in [Jobs -> JobRecords] /\ job'[j] = r
    BY <1>1, <2>2, <2>3
  <2>5. /\ past' \in PastRecords /\ past'.runs = past.runs
        /\ \A k \in Jobs : k # j => /\ past'.cause[k] = past.cause[k]
                                    /\ past'.edited[k] = past.edited[k]
        /\ past'.cause[j] = {} => ~Awaits(j) /\ past.cause[j] = {}
        /\ past'.edited[j] => \/ r.enabled /\ r.cursor # "none"
                              \/ past.edited[j]
    <3>1. PICK h : h = Met(past, j)
      OBVIOUS
    <3>2. /\ h \in PastRecords /\ h.runs = past.runs
          /\ \A k \in Jobs : k # j => h.cause[k] = past.cause[k] /\ h.edited[k] = past.edited[k]
          /\ h.cause[j] = {} => ~Awaits(j) /\ past.cause[j] = {}
      BY <1>1, <2>4, <3>1, MetIs
    <3>3. h.edited[j] => \/ r.enabled /\ r.cursor # "none"
                         \/ past.edited[j]
      BY <1>1, <2>4, <3>1, MetIs
    <3>4. past' = h
      BY <2>1, <3>1
    <3> QED
      BY <3>2, <3>3, <3>4
  <2>6. past'.edited[j] => r.enabled /\ r.cursor # "none"
    BY <1>1, <2>3, <2>5 DEF JobKept, EditKept
  <2> QED
    BY <2>1, <2>2, <2>3, <2>5, <2>6, RevisionKeeps
<1>7. CASE RescheduleJob(j)
  <2>1. /\ job[j].there /\ job[j].rev < MaxRev /\ UNCHANGED <<check, lock, exec>>
        /\ job' = [job EXCEPT ![j].rev = @ + 1, ![j].cursor = "ahead", ![j].over = FALSE]
        /\ past' = Moved(Met(past, j), j)
    BY <1>7 DEF RescheduleJob
  <2>a. PICK r : r = [job[j] EXCEPT !.rev = job[j].rev + 1, !.cursor = "ahead", !.over = FALSE]
    OBVIOUS
  <2>2. job' = [job EXCEPT ![j] = r]
    BY <1>1, <2>1, <2>a
  <2>3. /\ r \in JobRecords /\ r.there = job[j].there /\ r.enabled = job[j].enabled
        /\ r.rev = job[j].rev + 1 /\ r.cursor = "ahead"
    <3>1. PICK v \in Revisions : v = job[j].rev + 1
      BY <1>2, <2>1
    <3>2. PICK q \in JobRecords : q = job[j]
      BY <1>1
    <3>3. r = [q EXCEPT !.rev = v, !.cursor = "ahead", !.over = FALSE]
      BY <2>a, <3>1, <3>2
    <3>4. /\ r \in JobRecords /\ r.there = q.there /\ r.enabled = q.enabled /\ r.rev = v
          /\ r.cursor = "ahead"
      BY <3>3 DEF JobRecords
    <3> QED
      BY <3>1, <3>2, <3>4
  <2>4. job' \in [Jobs -> JobRecords] /\ job'[j] = r
    BY <1>1, <2>2, <2>3
  <2>5. PICK h : h = Met(past, j)
    OBVIOUS
  <2>6. /\ h \in PastRecords /\ h.runs = past.runs
        /\ \A k \in Jobs : k # j => h.cause[k] = past.cause[k] /\ h.edited[k] = past.edited[k]
        /\ h.edited[j] => \/ r.enabled /\ r.cursor # "none"
                          \/ past.edited[j]
    <3>1. past \in PastRecords
      BY <1>1
    <3>2. h \in PastRecords /\ h.runs = past.runs
      BY <2>4, <2>5, <3>1, MetIs
    <3>3. \A k \in Jobs : k # j => h.cause[k] = past.cause[k] /\ h.edited[k] = past.edited[k]
      BY <2>4, <2>5, <3>1, MetIs
    <3>4. h.edited[j] => \/ r.enabled /\ r.cursor # "none"
                         \/ past.edited[j]
      BY <2>4, <2>5, <3>1, MetIs
    <3> QED
      BY <3>2, <3>3, <3>4
  <2>7. past' = Moved(h, j)
    BY <2>1, <2>5
  <2>8. /\ past' \in PastRecords /\ past'.runs[j] = 0
        /\ \A k \in Jobs : k # j => past'.runs[k] = h.runs[k] /\ past'.cause[k] = h.cause[k]
        /\ \A k \in Jobs : past'.edited[k] = h.edited[k]
    BY <2>6, <2>7, MovedIs
  <2>9. past'.edited[j] => r.enabled /\ r.cursor # "none"
    BY <1>1, <2>3, <2>6, <2>8 DEF JobKept, EditKept
  <2>10. /\ job[j].there /\ job[j].rev < MaxRev /\ UNCHANGED <<check, lock, exec>>
    BY <2>1
  <2> QED
    <3>1. \A k \in Jobs : k # j => /\ past'.runs[k] = past.runs[k]
                                  /\ past'.cause[k] = past.cause[k]
                                  /\ past'.edited[k] = past.edited[k]
      BY <2>6, <2>8
    <3> QED
      BY <2>2, <2>3, <2>8, <2>9, <2>10, <3>1, RevisionKeeps
<1>8. CASE ToggleJob(j)
  <2>0. PICK c : c = IF job[j].enabled THEN job[j].cursor ELSE NextCursor(j, job[j].over)
    OBVIOUS
  <2>1. /\ job[j].there /\ job[j].rev < MaxRev /\ UNCHANGED <<check, lock, exec>>
        /\ job' = [job EXCEPT ![j].rev = @ + 1, ![j].enabled = ~@, ![j].cursor = c]
        /\ past' = Forgotten(IF job[j].enabled THEN Met(past, j) ELSE Moved(past, j), j)
    BY <1>1, <1>8, <2>0 DEF ToggleJob
  <2>a. PICK r : r = [job[j] EXCEPT !.rev = job[j].rev + 1, !.enabled = ~job[j].enabled,
                                    !.cursor = c]
    OBVIOUS
  <2>2. job' = [job EXCEPT ![j] = r]
    BY <1>1, <2>1, <2>a
  <2>3. r \in JobRecords /\ r.there = job[j].there /\ r.rev = job[j].rev + 1
    <3>1. PICK v \in Revisions : v = job[j].rev + 1
      BY <1>2, <2>1
    <3>2. PICK q \in JobRecords : q = job[j]
      BY <1>1
    <3>3. c \in {"none", "ahead", "due"}
      BY <1>2, <2>0 DEF NextCursor
    <3>4. PICK b \in BOOLEAN : b = ~job[j].enabled
      BY <1>2
    <3>5. r = [q EXCEPT !.rev = v, !.enabled = b, !.cursor = c]
      BY <2>a, <3>1, <3>2, <3>4
    <3>6. r \in JobRecords /\ r.there = q.there /\ r.rev = v
      BY <3>3, <3>5 DEF JobRecords
    <3> QED
      BY <3>1, <3>2, <3>6
  <2>4. job' \in [Jobs -> JobRecords]
    BY <1>1, <2>2, <2>3
  <2>5. PICK h \in PastRecords :
            /\ past' = Forgotten(h, j)
            /\ \A k \in Jobs : k # j => /\ h.runs[k] = past.runs[k]
                                        /\ h.cause[k] = past.cause[k]
                                        /\ h.edited[k] = past.edited[k]
            /\ \/ h.runs[j] = 0
               \/ /\ h.runs[j] = past.runs[j]
                  /\ h.cause[j] = {} => ~Awaits(j) /\ past.cause[j] = {}
    <3>1. CASE job[j].enabled
      <4>1. PICK h : h = Met(past, j)
        OBVIOUS
      <4>2. /\ h \in PastRecords /\ h.runs = past.runs
            /\ \A k \in Jobs : k # j => /\ h.cause[k] = past.cause[k]
                                        /\ h.edited[k] = past.edited[k]
            /\ h.cause[j] = {} => ~Awaits(j) /\ past.cause[j] = {}
        BY <1>1, <2>4, <4>1, MetIs
      <4>3. past' = Forgotten(h, j)
        BY <2>1, <3>1, <4>1
      <4> QED
        BY <4>2, <4>3
    <3>2. CASE ~job[j].enabled
      <4>1. PICK h : h = Moved(past, j)
        OBVIOUS
      <4>2. /\ h \in PastRecords /\ h.runs[j] = 0
            /\ \A k \in Jobs : k # j => /\ h.runs[k] = past.runs[k]
                                        /\ h.cause[k] = past.cause[k]
                                        /\ h.edited[k] = past.edited[k]
        BY <1>1, <4>1, MovedIs
      <4>3. past' = Forgotten(h, j)
        BY <2>1, <3>2, <4>1
      <4> QED
        BY <4>2, <4>3
    <3> QED
      BY <3>1, <3>2
  <2>6. /\ past' \in PastRecords /\ past'.runs = h.runs /\ past'.cause = h.cause
        /\ ~past'.edited[j] /\ \A k \in Jobs : k # j => past'.edited[k] = h.edited[k]
    BY <2>5, ForgottenIs
  <2>7. job[j].there /\ job[j].rev < MaxRev /\ UNCHANGED <<check, lock, exec>>
    BY <2>1
  <2> QED
    <3>1. \A k \in Jobs : k # j => /\ past'.runs[k] = past.runs[k]
                                  /\ past'.cause[k] = past.cause[k]
                                  /\ past'.edited[k] = past.edited[k]
      BY <2>5, <2>6
    <3>2. \/ past'.runs[j] = 0
          \/ /\ past'.runs[j] = past.runs[j]
             /\ past'.cause[j] = {} => ~Awaits(j) /\ past.cause[j] = {}
      BY <2>5, <2>6
    <3> QED
      BY <2>2, <2>3, <2>6, <2>7, <3>1, <3>2, RevisionKeeps
<1>9. CASE SwitchJob(j)
  <2>0. PICK c : c = IF ~job[j].enabled /\ job[j].cursor = "none"
                     THEN NextCursor(j, job[j].over) ELSE job[j].cursor
    OBVIOUS
  <2>1. /\ job[j].there /\ job[j].rev < MaxRev /\ UNCHANGED <<check, lock, exec>>
        /\ job' = [job EXCEPT ![j].rev = @ + 1, ![j].enabled = ~@, ![j].cursor = c]
        /\ past' = Forgotten(Met(past, j), j)
    BY <1>1, <1>9, <2>0 DEF SwitchJob
  <2>a. PICK r : r = [job[j] EXCEPT !.rev = job[j].rev + 1, !.enabled = ~job[j].enabled,
                                    !.cursor = c]
    OBVIOUS
  <2>2. job' = [job EXCEPT ![j] = r]
    BY <1>1, <2>1, <2>a
  <2>3. r \in JobRecords /\ r.there = job[j].there /\ r.rev = job[j].rev + 1
    <3>1. PICK v \in Revisions : v = job[j].rev + 1
      BY <1>2, <2>1
    <3>2. PICK q \in JobRecords : q = job[j]
      BY <1>1
    <3>3. c \in {"none", "ahead", "due"}
      BY <1>2, <2>0 DEF NextCursor
    <3>4. PICK b \in BOOLEAN : b = ~job[j].enabled
      BY <1>2
    <3>5. r = [q EXCEPT !.rev = v, !.enabled = b, !.cursor = c]
      BY <2>a, <3>1, <3>2, <3>4
    <3>6. r \in JobRecords /\ r.there = q.there /\ r.rev = v
      BY <3>3, <3>5 DEF JobRecords
    <3> QED
      BY <3>1, <3>2, <3>6
  <2>4. job' \in [Jobs -> JobRecords]
    BY <1>1, <2>2, <2>3
  <2>5. PICK h : h = Met(past, j)
    OBVIOUS
  <2>6. /\ h \in PastRecords /\ h.runs = past.runs
        /\ \A k \in Jobs : k # j => h.cause[k] = past.cause[k] /\ h.edited[k] = past.edited[k]
        /\ h.cause[j] = {} => ~Awaits(j) /\ past.cause[j] = {}
    BY <1>1, <2>4, <2>5, MetIs
  <2>7. past' = Forgotten(h, j)
    BY <2>1, <2>5
  <2>8. /\ past' \in PastRecords /\ past'.runs = h.runs /\ past'.cause = h.cause
        /\ ~past'.edited[j] /\ \A k \in Jobs : k # j => past'.edited[k] = h.edited[k]
    BY <2>6, <2>7, ForgottenIs
  <2>9. job[j].there /\ job[j].rev < MaxRev /\ UNCHANGED <<check, lock, exec>>
    BY <2>1
  <2> QED
    <3>1. \A k \in Jobs : k # j => /\ past'.runs[k] = past.runs[k]
                                  /\ past'.cause[k] = past.cause[k]
                                  /\ past'.edited[k] = past.edited[k]
      BY <2>6, <2>8
    <3>2. /\ past'.runs[j] = past.runs[j]
          /\ past'.cause[j] = {} => ~Awaits(j) /\ past.cause[j] = {}
      BY <2>6, <2>8
    <3> QED
      BY <2>2, <2>3, <2>8, <2>9, <3>1, <3>2, RevisionKeeps
<1> QED
  BY <1>4, <1>5, <1>6, <1>7, <1>8, <1>9 DEF UserStep

-----------------------------------------------------------------------------

\* What is known of job j while the end of its run of revision rev is written down.
Pending(o, j, rev) ==
    /\ o.job \in [Jobs -> JobRecords] /\ o.past \in PastRecords
    /\ RevsKept(o.job[j])
    /\ o.job[j].rev = 0 => o.past.runs[j] = 0 /\ ~o.past.edited[j]
    /\ o.past.edited[j] =>
           /\ o.job[j].enabled /\ o.job[j].cursor # "none" /\ o.job[j].rev # rev
    /\ o.past.runs[j] > 0 /\ o.past.cause[j] = {} =>
           /\ o.past.runs[j] = 1
           /\ o.job[j].there => o.job[j].rev = rev

\* And of a job that is not awaited.
Settled(o, j) ==
    /\ o.job \in [Jobs -> JobRecords] /\ o.past \in PastRecords
    /\ RevsKept(o.job[j])
    /\ o.job[j].rev = 0 => o.past.runs[j] = 0 /\ ~o.past.edited[j]
    /\ o.past.edited[j] => o.job[j].enabled /\ o.job[j].cursor # "none"
    /\ o.past.runs[j] > 0 /\ o.past.cause[j] = {} => o.past.runs[j] = 1 /\ ~o.job[j].there

\* From o to m only job j changes.
OnlyOf(o, m, j) ==
    \A k \in Jobs : k # j => /\ m.job[k] = o.job[k] /\ m.past.runs[k] = o.past.runs[k]
                             /\ m.past.cause[k] = o.past.cause[k]
                             /\ m.past.edited[k] = o.past.edited[k]

\* A mark settles the job, and may be made again.
LEMMA MarkedSettles ==
    ASSUME NEW o, NEW j \in Jobs, NEW s \in BOOLEAN, NEW rev \in Nat, Pending(o, j, rev),
           NEW m, m = Marked(o, j, s, rev)
    PROVE  Pending(m, j, rev) /\ Settled(m, j) /\ OnlyOf(o, m, j)
<1>1. CASE ~o.job[j].there \/ o.job[j].rev # rev
  <2>1. m = o
    BY <1>1 DEF Marked
  <2> QED
    BY <1>1, <2>1 DEF Pending, Settled, OnlyOf
<1>2. CASE o.job[j].there /\ o.job[j].rev = rev
  <2>1. /\ o.job \in [Jobs -> JobRecords] /\ o.job[j] \in JobRecords /\ o.past \in PastRecords
        /\ o.job[j].enabled \in BOOLEAN /\ o.job[j].over \in BOOLEAN
        /\ o.job[j].rev \in Revisions
    BY DEF Pending, JobRecords
  <2>2. PICK last \in BOOLEAN : last = (j \in OneTime /\ o.job[j].enabled)
    OBVIOUS
  <2>3. PICK c \in {"none", "ahead", "due"} :
            c = IF s THEN NextCursor(j, o.job[j].over) ELSE "ahead"
    BY DEF NextCursor
  <2>4. PICK e \in BOOLEAN : e = (o.job[j].enabled /\ ~last)
    OBVIOUS
  <2>5. PICK v \in Revisions : v = IF last THEN o.job[j].rev + 1 ELSE o.job[j].rev
    <3>1. last => o.job[j].enabled
      BY <2>2
    <3>2. last => o.job[j].rev <= MaxRev
      BY <3>1 DEF Pending, RevsKept
    <3>3. o.job[j].rev \in 0 .. MaxRev + 1 /\ MaxRev \in Nat
      BY <2>1, AutomationsAssumption DEF Revisions
    <3>4. (IF last THEN o.job[j].rev + 1 ELSE o.job[j].rev) \in Revisions
      BY <3>2, <3>3 DEF Revisions
    <3> QED
      BY <3>4
  <2>6. PICK q \in JobRecords : q = o.job[j]
    BY <2>1
  <2>7. PICK r : r = [q EXCEPT !.cursor = c, !.enabled = e, !.rev = v]
    OBVIOUS
  <2>8. r \in JobRecords /\ r.there = q.there /\ r.enabled = e /\ r.rev = v
    BY <2>7 DEF JobRecords
  <2>9. m = [job |-> [o.job EXCEPT ![j] = r], past |-> Moved(o.past, j)]
    BY <1>2, <2>1, <2>2, <2>3, <2>4, <2>5, <2>6, <2>7 DEF Marked
  <2>10. m.job = [o.job EXCEPT ![j] = r] /\ m.past = Moved(o.past, j)
    BY <2>9
  <2>11. /\ m.job \in [Jobs -> JobRecords] /\ m.job[j] = r
         /\ \A k \in Jobs : k # j => m.job[k] = o.job[k]
    BY <2>1, <2>8, <2>10
  <2>12. PICK h : h = m.past
    OBVIOUS
  <2>13. /\ h \in PastRecords /\ h.runs[j] = 0
         /\ \A k \in Jobs : k # j => h.runs[k] = o.past.runs[k] /\ h.cause[k] = o.past.cause[k]
         /\ \A k \in Jobs : h.edited[k] = o.past.edited[k]
    BY <2>1, <2>10, <2>12, MovedIs
  <2>14. ~o.past.edited[j]
    BY <1>2 DEF Pending
  <2>15. RevsKept(r)
    <3>1. e => v = o.job[j].rev /\ o.job[j].enabled
      BY <2>2, <2>4, <2>5
    <3>2. v > 0
      BY <1>2, <2>1, <2>5, AutomationsAssumption DEF Pending, RevsKept, Revisions
    <3> QED
      BY <1>2, <2>6, <2>8, <3>1, <3>2 DEF Pending, RevsKept
  <2> QED
    BY <2>11, <2>12, <2>13, <2>14, <2>15 DEF Pending, Settled, OnlyOf
<1> QED
  BY <1>1, <1>2

\* What is left of a check once a job has had its turn, and of one that ends.
LEMMA CheckLeft ==
    ASSUME check \in CheckRecords, NEW j, check' = NoCheck \/ check' = Behind(j)
    PROVE  check' \in CheckRecords /\ check'.awaited = <<>>
<1>1. <<>> \in Awaitings
  BY DEF Awaitings
<1>2. CASE check' = NoCheck
  BY <1>1, <1>2 DEF CheckRecords, NoCheck
<1>3. CASE check' = Behind(j)
  <2>1. PICK s \in SUBSET Listed : s = {e \in check.left : e.id # j}
    BY DEF CheckRecords
  <2>2. check' = [check EXCEPT !.left = s, !.awaited = <<>>]
    BY <1>3, <2>1 DEF Behind
  <2> QED
    BY <1>1, <2>2 DEF CheckRecords
<1> QED
  BY <1>2, <1>3

\* A job that is settled and not awaited is kept.
LEMMA SettledIsKept ==
    ASSUME NEW j \in Jobs, Settled([job |-> job', past |-> past'], j), LockTells(j)',
           ~Awaits(j)'
    PROVE  JobKept(j)'
<1> DEFINE o == [job |-> job', past |-> past']
<1>1. o.job = job' /\ o.past = past'
  OBVIOUS
<1> HIDE DEF o
<1>2. Settled(o, j)
  BY DEF o
<1>3. RevsKept(job'[j]) /\ Unborn(j)' /\ EditKept(j)' /\ RunOnce(j)'
  BY <1>1, <1>2 DEF Settled, Unborn, EditKept, RunOnce
<1>4. RevAwaited(j)'
  BY DEF RevAwaited
<1> QED
  BY <1>3, <1>4 DEF JobKept

\* What the end of a run writes keeps the invariant.
LEMMA RecordedKeeps ==
    ASSUME AutomationInv, NEW j \in Jobs, NEW outcome \in {"right", "failed", "skipped"},
           NEW rev \in Nat, NEW lost \in Nat, Recorded(j, outcome, rev, lost),
           \/ Awaits(j) /\ outcome # "skipped" /\ rev = check.awaited[1].rev
           \/ NobodyAwaited /\ job[j].there /\ (outcome = "skipped" \/ rev = job[j].rev),
           lock' \in [Jobs -> BOOLEAN], exec' \in [Jobs -> Nat],
           \A k \in Jobs : LockTells(k)'
    PROVE  AutomationInv'
<1> DEFINE h == IF Awaits(j) THEN past ELSE Forgotten(past, j)
           g == [h EXCEPT !.trouble = @ + lost]
           o == [job |-> job, past |-> g]
           first == IF outcome = "skipped" THEN o ELSE Marked(o, j, outcome = "right", rev)
           again == outcome = "right" /\ lost > 0
           end == IF again THEN Marked(first, j, FALSE, rev) ELSE first
<1>1. /\ past.trouble + lost <= MaxTrouble
      /\ job' = end.job /\ past' = end.past
      /\ check' = NoCheck \/ check' = Behind(j)
  BY DEF Recorded
<1>2. job \in [Jobs -> JobRecords] /\ past \in PastRecords /\ JobKept(j)
  BY DEF AutomationInv, AutomationShape
<1>3. /\ h \in PastRecords /\ h.trouble = past.trouble /\ h.runs = past.runs
      /\ h.cause = past.cause /\ (h.edited[j] => Awaits(j) /\ past.edited[j])
      /\ \A k \in Jobs : k # j => h.edited[k] = past.edited[k]
  <2>1. CASE Awaits(j)
    BY <1>2, <2>1
  <2>2. CASE ~Awaits(j)
    <3>1. h = Forgotten(past, j)
      BY <2>2
    <3> HIDE DEF h
    <3> QED
      BY <1>2, <3>1, ForgottenIs
  <2> QED
    BY <2>1, <2>2
<1> HIDE DEF h
<1>4. /\ g \in PastRecords /\ g.runs = h.runs /\ g.cause = h.cause /\ g.edited = h.edited
  <2>1. past.trouble + lost \in 0 .. MaxTrouble
    BY <1>1, <1>2, AutomationsAssumption DEF PastRecords
  <2>2. PICK t \in 0 .. MaxTrouble : t = h.trouble + lost
    BY <1>3, <2>1
  <2>3. g = [h EXCEPT !.trouble = t]
    BY <1>3, <2>2 DEF PastRecords
  <2> HIDE DEF g
  <2> QED
    BY <1>3, <2>3 DEF PastRecords
<1> HIDE DEF g
<1>5. o.job = job /\ o.past = g
  OBVIOUS
<1> HIDE DEF o
<1>6. OnlyOf([job |-> job, past |-> past], o, j)
  BY <1>3, <1>4, <1>5 DEF OnlyOf
<1>7. Settled(end, j) /\ OnlyOf(o, end, j)
  <2>1. CASE outcome = "skipped"
    <3>1. end = o
      BY <2>1
    <3>2. NobodyAwaited /\ ~Awaits(j) /\ job[j].there
      BY <2>1 DEF NobodyAwaited, Awaits
    <3>3. Settled(o, j)
      BY <1>2, <1>3, <1>4, <1>5, <3>2
         DEF Settled, JobKept, Unborn, EditKept, RunOnce
    <3> HIDE DEF end
    <3> QED
      BY <3>1, <3>3 DEF OnlyOf
  <2>2. CASE outcome # "skipped"
    <3>1. Pending(o, j, rev)
      <4>1. CASE Awaits(j) /\ rev = check.awaited[1].rev
        <5>1. job[j].rev \in Nat /\ rev \in Nat
          BY <1>2 DEF JobRecords, Revisions
        <5>2. past.edited[j] => job[j].rev # rev
          BY <1>2, <4>1, <5>1 DEF JobKept, RevAwaited
        <5> QED
          BY <1>2, <1>3, <1>4, <1>5, <4>1, <5>2
             DEF Pending, JobKept, Unborn, EditKept, RunOnce
      <4>2. CASE NobodyAwaited /\ job[j].there /\ rev = job[j].rev
        <5>1. ~Awaits(j)
          BY <4>2 DEF NobodyAwaited, Awaits
        <5> QED
          BY <1>2, <1>3, <1>4, <1>5, <4>2, <5>1
             DEF Pending, JobKept, Unborn, EditKept, RunOnce
      <4> QED
        BY <2>2, <4>1, <4>2
    <3>2. PICK s \in BOOLEAN : s = (outcome = "right")
      OBVIOUS
    <3>3. PICK f : f = Marked(o, j, s, rev)
      OBVIOUS
    <3>4. first = f
      BY <2>2, <3>2, <3>3
    <3>5. Pending(f, j, rev) /\ Settled(f, j) /\ OnlyOf(o, f, j)
      BY <3>1, <3>3, MarkedSettles
    <3>6. CASE again
      <4>1. PICK l : l = Marked(f, j, FALSE, rev)
        OBVIOUS
      <4>2. end = l
        BY <3>4, <3>6, <4>1
      <4>3. Settled(l, j) /\ OnlyOf(f, l, j)
        BY <3>5, <4>1, MarkedSettles
      <4>4. OnlyOf(o, l, j)
        BY <3>5, <4>3 DEF OnlyOf
      <4> HIDE DEF end
      <4> QED
        BY <4>2, <4>3, <4>4
    <3>7. CASE ~again
      <4>1. end = f
        BY <3>4, <3>7
      <4> HIDE DEF end
      <4> QED
        BY <3>5, <4>1
    <3> QED
      BY <3>6, <3>7
  <2> QED
    BY <2>1, <2>2
<1> HIDE DEF end
<1>8. /\ job' \in [Jobs -> JobRecords] /\ past' \in PastRecords
      /\ Settled([job |-> job', past |-> past'], j)
      /\ \A k \in Jobs : k # j => /\ job'[k] = job[k] /\ past'.runs[k] = past.runs[k]
                                  /\ past'.cause[k] = past.cause[k]
                                  /\ past'.edited[k] = past.edited[k]
  <2>1. job' \in [Jobs -> JobRecords] /\ past' \in PastRecords
    BY <1>1, <1>7 DEF Settled
  <2>2. Settled([job |-> job', past |-> past'], j)
    BY <1>1, <1>7 DEF Settled
  <2> QED
    BY <1>1, <1>6, <1>7, <2>1, <2>2 DEF OnlyOf
<1>9. check' \in CheckRecords /\ check'.awaited = <<>>
  BY <1>1, CheckLeft DEF AutomationInv, AutomationShape
<1>10. \A k \in Jobs : ~Awaits(k)'
  BY <1>9 DEF Awaits
<1>11. \A k \in Jobs : k # j => ~Awaits(k)
  BY DEF NobodyAwaited, Awaits
<1>12. AutomationShape'
  BY <1>8, <1>9 DEF AutomationShape, NobodyAwaited
<1>13. JobKept(j)'
  BY <1>8, <1>10, SettledIsKept
<1>14. ASSUME NEW k \in Jobs, k # j PROVE JobKept(k)'
  <2>1. JobKept(k)
    BY DEF AutomationInv
  <2> QED
    BY <1>8, <1>10, <1>11, <1>14, <2>1
       DEF JobKept, RevsKept, LockTells, Unborn, RevAwaited, EditKept, RunOnce
<1> QED
  BY <1>12, <1>13, <1>14 DEF AutomationInv

-----------------------------------------------------------------------------

\* The one that is awaited.
LEMMA AwaitedIs ==
    ASSUME AutomationShape, check.awaited # <<>>
    PROVE  /\ check.awaited[1].id \in Jobs /\ check.awaited[1].rev \in Nat
           /\ Awaits(check.awaited[1].id)
<1>1. check.awaited \in Awaitings
  BY DEF AutomationShape, CheckRecords
<1>2. PICK a \in AwaitedRecords : check.awaited = <<a>>
  BY <1>1 DEF Awaitings
<1> QED
  BY <1>2 DEF AwaitedRecords, Awaits

LEMMA TimeComesKeeps ==
    ASSUME AutomationInv, NEW j \in Jobs, TimeComes(j)
    PROVE  AutomationInv'
<1>1. /\ job \in [Jobs -> JobRecords] /\ job[j] \in JobRecords /\ JobKept(j)
      /\ past \in PastRecords
  BY DEF AutomationInv, AutomationShape
<1>2. PICK b \in BOOLEAN : b <=> j \in OneTime
  <2>1. CASE j \in OneTime
    BY <2>1
  <2>2. CASE j \notin OneTime
    BY <2>2
  <2> QED
    BY <2>1, <2>2
<1>3. PICK q \in JobRecords : q = job[j]
  BY <1>1
<1>4. PICK r : r = [q EXCEPT !.cursor = "due", !.over = b]
  OBVIOUS
<1>5. /\ r \in JobRecords /\ r.there = q.there /\ r.enabled = q.enabled /\ r.rev = q.rev
      /\ r.cursor = "due"
  BY <1>4 DEF JobRecords
<1>6. job' = [job EXCEPT ![j] = r]
  BY <1>1, <1>2, <1>3, <1>4 DEF TimeComes
<1>7. UNCHANGED <<check, lock, exec, past>> /\ Awaits(j)' = Awaits(j) /\ job'[j] = r
  BY <1>1, <1>6 DEF TimeComes, Awaits
<1>8. JobKept(j)'
  BY <1>1, <1>3, <1>5, <1>7
     DEF JobKept, RevsKept, LockTells, Unborn, RevAwaited, EditKept, RunOnce
<1> QED
  BY <1>1, <1>5, <1>6, <1>7, <1>8, WriteOfOne

\* A step of the check that awaits nobody before or after.
LEMMA IdleCheckKeeps ==
    ASSUME AutomationInv, NobodyAwaited, check' \in CheckRecords, check'.awaited = <<>>,
           UNCHANGED <<job, lock, exec, past>>
    PROVE  AutomationInv'
<1>1. AutomationShape'
  BY DEF AutomationInv, AutomationShape, NobodyAwaited
<1>2. \A k \in Jobs : ~Awaits(k) /\ ~Awaits(k)'
  BY DEF Awaits, NobodyAwaited
<1>3. ASSUME NEW k \in Jobs PROVE JobKept(k)'
  BY <1>2, UnawaitedUntouched DEF AutomationInv
<1> QED
  BY <1>1, <1>3 DEF AutomationInv

LEMMA CheckStepKeeps ==
    ASSUME AutomationInv, CheckStep
    PROVE  AutomationInv'
<1>0. /\ AutomationShape /\ check \in CheckRecords /\ lock \in [Jobs -> BOOLEAN]
      /\ exec \in [Jobs -> Nat] /\ job \in [Jobs -> JobRecords] /\ past \in PastRecords
      /\ \A k \in Jobs : JobKept(k) /\ LockTells(k)
  BY DEF AutomationInv, AutomationShape, JobKept
<1>1. CASE CheckStarts
  <2>1. NobodyAwaited
    BY <1>0, <1>1 DEF CheckStarts, AutomationShape
  <2>2. \A j \in Jobs : Ready(job[j]) \in BOOLEAN
    BY DEF Ready
  <2>3. PICK s : s = {[id |-> j, due |-> Ready(job[j])] : j \in {i \in Jobs : job[i].there}}
    OBVIOUS
  <2>4. s \subseteq Listed
    BY <2>2, <2>3 DEF Listed
  <2>5. check' = [on |-> TRUE, awaited |-> <<>>, left |-> s]
    BY <1>1, <2>3 DEF CheckStarts
  <2>6. check' \in CheckRecords /\ check'.awaited = <<>>
    BY <2>4, <2>5 DEF CheckRecords, Awaitings
  <2>7. UNCHANGED <<job, lock, exec, past>>
    BY <1>1 DEF CheckStarts
  <2> QED
    BY <2>1, <2>6, <2>7, IdleCheckKeeps
<1>2. CASE CheckEnds
  <2>1. NobodyAwaited
    BY <1>0, <1>2 DEF CheckEnds, AutomationShape
  <2>2. check' \in CheckRecords /\ check'.awaited = <<>>
    BY <1>0, <1>2, CheckLeft DEF CheckEnds
  <2> QED
    BY <1>2, <2>1, <2>2, IdleCheckKeeps DEF CheckEnds
<1>3. CASE TimesOut
  <2>1. PICK a : a = check.awaited[1]
    OBVIOUS
  <2>2. a.id \in Jobs /\ a.rev \in Nat /\ Awaits(a.id)
    BY <1>0, <1>3, <2>1, AwaitedIs DEF TimesOut
  <2>3. PICK lost \in 0..1 : Recorded(a.id, "failed", a.rev, lost)
    BY <1>3, <2>1 DEF TimesOut
  <2>4. UNCHANGED <<lock, exec>>
    BY <1>3 DEF TimesOut
  <2>5. \A k \in Jobs : LockTells(k)'
    BY <1>0, <2>4 DEF LockTells
  <2> QED
    BY <1>0, <2>1, <2>2, <2>3, <2>4, <2>5, RecordedKeeps
<1>4. ASSUME NEW e \in check.left, PassesOver(e) PROVE AutomationInv'
  <2>1. NobodyAwaited
    BY <1>4 DEF PassesOver, Turn, NobodyAwaited
  <2>2. check' \in CheckRecords /\ check'.awaited = <<>>
    BY <1>0, <1>4, CheckLeft DEF PassesOver
  <2> QED
    BY <1>4, <2>1, <2>2, IdleCheckKeeps DEF PassesOver
<1>5. ASSUME NEW e \in check.left, Refuses(e) PROVE AutomationInv'
  <2>1. e.id \in Jobs
    BY <1>0 DEF CheckRecords, Listed
  <2>2. NobodyAwaited /\ job[e.id].there /\ UNCHANGED <<lock, exec>>
    BY <1>5 DEF Refuses, Turn, NobodyAwaited, DueAsReread, Ready
  <2>3. PICK rev \in Nat : rev = job[e.id].rev
    BY <1>0, <2>1 DEF JobRecords, Revisions
  <2>4. PICK lost \in 0..1 : \/ Recorded(e.id, "skipped", 0, lost)
                             \/ Recorded(e.id, "failed", rev, lost)
    BY <1>5, <2>3 DEF Refuses
  <2>5. \A k \in Jobs : LockTells(k)'
    BY <1>0, <2>2 DEF LockTells
  <2>6. CASE Recorded(e.id, "skipped", 0, lost)
    BY <1>0, <2>1, <2>2, <2>5, <2>6, RecordedKeeps
  <2>7. CASE Recorded(e.id, "failed", rev, lost)
    BY <1>0, <2>1, <2>2, <2>3, <2>5, <2>7, RecordedKeeps
  <2> QED
    BY <2>4, <2>6, <2>7
<1>6. ASSUME NEW e \in check.left, Starts(e) PROVE AutomationInv'
  <2> DEFINE j == e.id
  <2>1. j \in Jobs
    BY <1>0 DEF CheckRecords, Listed
  <2>2. /\ NobodyAwaited /\ check.on /\ job[j].there /\ ~lock[j] /\ UNCHANGED job
        /\ lock' = [lock EXCEPT ![j] = TRUE] /\ exec' = [exec EXCEPT ![j] = @ + 1]
        /\ check' = [check EXCEPT !.awaited = <<[id |-> j, rev |-> job[j].rev]>>]
        /\ past' = Forgotten([past EXCEPT !.runs[j] = @ + 1], j)
    BY <1>6 DEF Starts, Turn, NobodyAwaited, DueAsReread, Ready
  <2> HIDE DEF j
  <2>3. PICK rev \in Nat : rev = job[j].rev
    BY <1>0, <2>1 DEF JobRecords, Revisions
  <2>4. PICK a : a = [id |-> j, rev |-> rev]
    OBVIOUS
  <2>5. a \in AwaitedRecords /\ a.id = j /\ a.rev = rev
    BY <2>1, <2>4 DEF AwaitedRecords
  <2>6. check' = [check EXCEPT !.awaited = <<a>>]
    BY <2>2, <2>3, <2>4
  <2>7. PICK w \in Awaitings : w = <<a>>
    BY <2>5 DEF Awaitings
  <2>8. check' = [check EXCEPT !.awaited = w]
    BY <2>6, <2>7
  <2>9. /\ check' \in CheckRecords /\ check'.on = check.on /\ check'.left = check.left
        /\ check'.awaited = w
    BY <1>0, <2>8 DEF CheckRecords
  <2>10. \A k \in Jobs : (Awaits(k)' <=> k = j)
    BY <2>5, <2>7, <2>9 DEF Awaits
  <2>11. check'.awaited[1].rev = rev
    BY <2>5, <2>7, <2>9
  <2>12. AutomationShape'
    <3>1. \E x \in check'.left : Awaits(x.id)'
      BY <2>1, <2>9, <2>10 DEF j
    <3>2. past' \in PastRecords
      <4>1. PICK h : h = [past EXCEPT !.runs[j] = @ + 1]
        OBVIOUS
      <4>2. h \in PastRecords
        BY <1>0, <2>1, <4>1 DEF PastRecords
      <4>3. past' = Forgotten(h, j)
        BY <2>2, <4>1
      <4> QED
        BY <2>1, <4>2, <4>3, ForgottenIs
    <3>3. lock' \in [Jobs -> BOOLEAN] /\ exec' \in [Jobs -> Nat] /\ job' = job
      BY <1>0, <2>1, <2>2
    <3> QED
      BY <1>0, <2>2, <2>9, <3>1, <3>2, <3>3 DEF AutomationShape
  <2>13. /\ past'.runs = [past.runs EXCEPT ![j] = @ + 1] /\ past'.cause = past.cause
         /\ ~past'.edited[j] /\ \A k \in Jobs : k # j => past'.edited[k] = past.edited[k]
    <3>1. PICK h : h = [past EXCEPT !.runs[j] = @ + 1]
      OBVIOUS
    <3>2. h \in PastRecords /\ h.runs = [past.runs EXCEPT ![j] = @ + 1]
          /\ h.cause = past.cause /\ h.edited = past.edited
      BY <1>0, <2>1, <3>1 DEF PastRecords
    <3>3. past' = Forgotten(h, j)
      BY <2>2, <3>1
    <3> QED
      BY <2>1, <3>2, <3>3, ForgottenIs
  <2>14. \A k \in Jobs : ~Awaits(k)
    BY <2>2 DEF NobodyAwaited, Awaits
  <2>15. past.runs \in [Jobs -> Nat]
    BY <1>0 DEF PastRecords
  <2>16. JobKept(j)'
    <3>1. JobKept(j)
      BY <1>0, <2>1
    <3>2. RevsKept(job'[j]) /\ job[j].rev # 0
      BY <2>2, <2>3, <3>1 DEF JobKept, RevsKept
    <3>3. LockTells(j)'
      BY <1>0, <2>1, <2>2 DEF LockTells
    <3>4. Unborn(j)' /\ EditKept(j)'
      BY <2>2, <2>13, <3>2 DEF Unborn, EditKept
    <3>5. RevAwaited(j)'
      BY <2>2, <2>3, <2>11, <2>13 DEF RevAwaited
    <3>6. RunOnce(j)'
      BY <2>1, <2>2, <2>3, <2>10, <2>11, <2>13, <2>14, <2>15, <3>1 DEF JobKept, RunOnce
    <3> QED
      BY <3>2, <3>3, <3>4, <3>5, <3>6 DEF JobKept
  <2>17. ASSUME NEW k \in Jobs, k # j PROVE JobKept(k)'
    <3>1. /\ job'[k] = job[k] /\ lock'[k] = lock[k] /\ exec'[k] = exec[k]
          /\ past'.runs[k] = past.runs[k] /\ past'.cause[k] = past.cause[k]
          /\ past'.edited[k] = past.edited[k]
      BY <1>0, <2>1, <2>2, <2>13, <2>15, <2>17
    <3> QED
      BY <1>0, <2>10, <2>14, <2>17, <3>1, UnawaitedUntouched
  <2> QED
    BY <2>12, <2>16, <2>17 DEF AutomationInv
<1> QED
  BY <1>1, <1>2, <1>3, <1>4, <1>5, <1>6 DEF CheckStep

LEMMA RunEndsKeeps ==
    ASSUME AutomationInv, NEW j \in Jobs, RunEnds(j)
    PROVE  AutomationInv'
<1>0. /\ AutomationShape /\ lock \in [Jobs -> BOOLEAN] /\ exec \in [Jobs -> Nat]
      /\ \A k \in Jobs : JobKept(k) /\ LockTells(k)
  BY DEF AutomationInv, AutomationShape, JobKept
<1>1. exec[j] > 0 /\ exec' = [exec EXCEPT ![j] = @ - 1] /\ lock' = [lock EXCEPT ![j] = FALSE]
  BY DEF RunEnds
<1>2. exec[j] = 1
  BY <1>0, <1>1 DEF LockTells
<1>3. /\ lock' \in [Jobs -> BOOLEAN] /\ exec' \in [Jobs -> Nat] /\ LockTells(j)'
      /\ \A k \in Jobs : k # j => exec'[k] = exec[k] /\ lock'[k] = lock[k]
  BY <1>0, <1>1, <1>2 DEF LockTells
<1>4. \A k \in Jobs : LockTells(k)'
  BY <1>0, <1>3 DEF LockTells
<1>5. CASE Awaits(j)
  <2>1. PICK outcome \in {"right", "failed"}, lost \in 0..2 :
            Recorded(j, outcome, check.awaited[1].rev, lost)
    BY <1>5 DEF RunEnds
  <2>2. PICK rev : rev = check.awaited[1].rev
    OBVIOUS
  <2>3. rev \in Nat
    BY <1>0, <1>5, <2>2, AwaitedIs DEF Awaits
  <2>4. Recorded(j, outcome, rev, lost) /\ outcome # "skipped" /\ lost \in Nat
    BY <2>1, <2>2
  <2> QED
    BY <1>3, <1>4, <1>5, <2>2, <2>3, <2>4, RecordedKeeps
<1>6. CASE ~Awaits(j)
  <2>1. UNCHANGED <<job, check, past>>
    BY <1>6 DEF RunEnds
  <2>2. AutomationShape'
    BY <1>0, <1>3, <2>1 DEF AutomationShape, NobodyAwaited, Awaits
  <2>3. \A k \in Jobs : Awaits(k)' = Awaits(k)
    BY <2>1 DEF Awaits
  <2>4. ASSUME NEW k \in Jobs PROVE JobKept(k)'
    BY <1>0, <1>4, <2>1, <2>3
       DEF JobKept, RevsKept, Unborn, RevAwaited, EditKept, RunOnce
  <2> QED
    BY <2>2, <2>4 DEF AutomationInv
<1> QED
  BY <1>5, <1>6

LEMMA SchedulerCrashKeeps ==
    ASSUME AutomationInv, SchedulerCrash
    PROVE  AutomationInv'
<1>0. /\ past \in PastRecords /\ \A k \in Jobs : JobKept(k) /\ past.cause[k] \in SUBSET {"edited", "crashed"}
  BY DEF AutomationInv, AutomationShape, PastRecords
<1>1. PICK c : c = [k \in Jobs |-> IF Awaits(k) THEN past.cause[k] \cup {"crashed"}
                                   ELSE past.cause[k]]
  OBVIOUS
<1>2. PICK t \in 0 .. MaxTrouble : t = past.trouble + 1
  BY <1>0, AutomationsAssumption DEF SchedulerCrash, PastRecords
<1>3. c \in [Jobs -> SUBSET {"edited", "crashed"}]
  BY <1>0, <1>1
<1>4. past' = [past EXCEPT !.trouble = t, !.cause = c]
  BY <1>1, <1>2 DEF SchedulerCrash
<1>5. /\ past' \in PastRecords /\ past'.runs = past.runs /\ past'.cause = c
      /\ past'.edited = past.edited
  BY <1>0, <1>3, <1>4 DEF PastRecords
<1>6. /\ check' = NoCheck /\ job' = job
      /\ lock' = [k \in Jobs |-> FALSE] /\ exec' = [k \in Jobs |-> 0]
  BY DEF SchedulerCrash
<1>7. check' \in CheckRecords /\ check'.awaited = <<>>
  BY <1>6 DEF CheckRecords, NoCheck, Awaitings
<1>8. AutomationShape'
  BY <1>5, <1>6, <1>7 DEF AutomationInv, AutomationShape, NobodyAwaited
<1>9. ASSUME NEW k \in Jobs PROVE JobKept(k)'
  <2>1. ~Awaits(k)' /\ LockTells(k)'
    BY <1>6, <1>7 DEF Awaits, LockTells
  <2>2. past'.cause[k] = {} => ~Awaits(k) /\ past.cause[k] = {}
    BY <1>1, <1>5
  <2> QED
    BY <1>0, <1>5, <1>6, <2>1, <2>2
       DEF JobKept, RevsKept, Unborn, RevAwaited, EditKept, RunOnce
<1> QED
  BY <1>8, <1>9 DEF AutomationInv

LEMMA AutomationsBegin ==
    ASSUME InitAutomations
    PROVE  AutomationInv
<1>1. 0 \in Revisions /\ 0 \in 0 .. MaxTrouble
  BY AutomationsAssumption DEF Revisions
<1>2. PICK z \in Revisions : z = 0
  BY <1>1
<1>3. PICK n : n = NoJob
  OBVIOUS
<1>4. n = [there |-> FALSE, enabled |-> FALSE, rev |-> z, cursor |-> "none",
           over |-> FALSE, newer |-> FALSE]
  BY <1>2, <1>3 DEF NoJob
<1>5. n \in JobRecords /\ ~n.there /\ ~n.enabled
  BY <1>4 DEF JobRecords
<1>6. job = [j \in Jobs |-> n]
  BY <1>3 DEF InitAutomations
<1>7. check \in CheckRecords /\ check.awaited = <<>>
  BY DEF InitAutomations, CheckRecords, NoCheck, Awaitings
<1>8. /\ past \in PastRecords /\ past.runs = [j \in Jobs |-> 0]
      /\ past.edited = [j \in Jobs |-> FALSE]
  BY <1>1 DEF InitAutomations, PastRecords
<1>9. AutomationShape
  BY <1>5, <1>6, <1>7, <1>8 DEF InitAutomations, AutomationShape, NobodyAwaited
<1>10. ASSUME NEW k \in Jobs PROVE JobKept(k)
  BY <1>5, <1>6, <1>7, <1>8
     DEF InitAutomations, JobKept, RevsKept, LockTells, Unborn, RevAwaited, EditKept, RunOnce,
         Awaits
<1> QED
  BY <1>9, <1>10 DEF AutomationInv

LEMMA AutomationsKeep ==
    ASSUME AutomationInv, [NextAutomations]_automationVars
    PROVE  AutomationInv'
<1>1. CASE UNCHANGED automationVars
  <2>1. \A k \in Jobs : Awaits(k)' = Awaits(k)
    BY <1>1 DEF automationVars, Awaits
  <2>2. AutomationShape'
    BY <1>1 DEF automationVars, AutomationInv, AutomationShape, NobodyAwaited, Awaits
  <2>3. ASSUME NEW k \in Jobs PROVE JobKept(k)'
    BY <1>1, <2>1, JobUntouched DEF automationVars, AutomationInv
  <2> QED
    BY <2>2, <2>3 DEF AutomationInv
<1>2. CASE NextAutomations
  BY <1>2, UserStepKeeps, TimeComesKeeps, RunEndsKeeps, CheckStepKeeps, SchedulerCrashKeeps
     DEF NextAutomations
<1> QED
  BY <1>1, <1>2

\* The inductive invariant holds throughout, whatever the jobs, the revisions, the
\* crashes and the log lines lost.
THEOREM AutomationsInvariant == SpecAutomations => []AutomationInv
<1>1. InitAutomations => AutomationInv
  BY AutomationsBegin
<1>2. AutomationInv /\ [NextAutomations]_automationVars => AutomationInv'
  BY AutomationsKeep
<1> QED
  BY <1>1, <1>2, PTL DEF SpecAutomations

\* The variables keep their types (the scheduler of cron-scheduler.ts and the store of
\* cron-store.ts).
THEOREM AutomationsAreTyped == SpecAutomations => []AutomationsTypeOK
<1>1. AutomationInv => AutomationsTypeOK
  <2> SUFFICES ASSUME AutomationInv PROVE AutomationsTypeOK
    OBVIOUS
  <2>1. /\ job \in [Jobs -> JobRecords] /\ check \in CheckRecords /\ past \in PastRecords
        /\ lock \in [Jobs -> BOOLEAN] /\ exec \in [Jobs -> Nat]
    BY DEF AutomationInv, AutomationShape
  <2>2. check.on \in BOOLEAN /\ check.left \subseteq Listed /\ check.awaited \in Awaitings
    BY <2>1 DEF CheckRecords
  <2>3. check.awaited \in Seq(AwaitedRecords)
    <3>1. CASE check.awaited = <<>>
      BY <3>1
    <3>2. CASE \E a \in AwaitedRecords : check.awaited = <<a>>
      <4>1. PICK a \in AwaitedRecords : check.awaited = <<a>>
        BY <3>2
      <4> QED
        BY <4>1
    <3> QED
      BY <2>2, <3>1, <3>2 DEF Awaitings
  <2> QED
    BY <2>1, <2>2, <2>3 DEF AutomationsTypeOK, Listed, AwaitedRecords, PastRecords
<1> QED
  BY <1>1, AutomationsInvariant, PTL

\* No job executes beside itself, however long an execution outlives its timeout
\* (_executingJobs of scheduler.ts).
THEOREM NoJobTwiceAtOnce == SpecAutomations => []OneExecution
<1>1. AutomationInv => OneExecution
  BY DEF AutomationInv, JobKept, LockTells, OneExecution
<1> QED
  BY <1>1, AutomationsInvariant, PTL

\* A cursor is executed again only if its job was edited, or the process died, while the
\* run was awaited (markRun of cron-store.ts after every outcome of _doCheck).
THEOREM AgainForACause == SpecAutomations => []RunsAgainForACause
<1>1. AutomationInv => RunsAgainForACause
  <2> SUFFICES ASSUME AutomationInv, NEW j \in Jobs, past.runs[j] > 1, past.cause[j] = {}
               PROVE  FALSE
    BY DEF RunsAgainForACause
  <2>1. past.runs[j] \in Nat /\ RunOnce(j)
    BY DEF AutomationInv, AutomationShape, PastRecords, JobKept
  <2> QED
    BY <2>1 DEF RunOnce
<1> QED
  BY <1>1, AutomationsInvariant, PTL

\* What an edit made during a run leaves to do still stands when the run ends (the
\* revision that markRun of cron-store.ts compares).
THEOREM EditsStand == SpecAutomations => []EditStands
<1>1. AutomationInv => EditStands
  BY DEF AutomationInv, JobKept, EditKept, EditStands
<1> QED
  BY <1>1, AutomationsInvariant, PTL

\* An execution that begins is of a job that is due when it begins, whatever the user did
\* since the check listed it (the job read again in _doCheck).
THEOREM OnlyTheDueStarts == SpecAutomations => StartsWhatIsDue
<1>1. ASSUME AutomationInv, [NextAutomations]_automationVars, NEW j \in Jobs, exec'[j] > exec[j]
      PROVE  Ready(job[j])
  <2>0. exec \in [Jobs -> Nat] /\ check \in CheckRecords
    BY <1>1 DEF AutomationInv, AutomationShape
  <2>1. exec' # exec
    BY <1>1, <2>0
  <2>2. CASE \E i \in Jobs : UserStep(i)
    BY <2>1, <2>2 DEF UserStep, AddJob, RemoveJob, EditJob, RescheduleJob, ToggleJob, SwitchJob
  <2>3. CASE \E i \in Jobs : TimeComes(i)
    BY <2>1, <2>3 DEF TimeComes
  <2>4. CASE \E i \in Jobs : RunEnds(i)
    <3>1. PICK i \in Jobs : exec' = [exec EXCEPT ![i] = @ - 1]
      BY <2>4 DEF RunEnds
    <3> QED
      BY <1>1, <2>0, <3>1
  <2>5. CASE CheckStarts \/ CheckEnds \/ TimesOut
    BY <2>1, <2>5 DEF CheckStarts, CheckEnds, TimesOut
  <2>6. CASE \E e \in check.left : PassesOver(e) \/ Refuses(e)
    BY <2>1, <2>6 DEF PassesOver, Refuses
  <2>7. CASE \E e \in check.left : Starts(e)
    <3>1. PICK e \in check.left : Starts(e)
      BY <2>7
    <3>2. e.id \in Jobs /\ exec' = [exec EXCEPT ![e.id] = @ + 1] /\ Ready(job[e.id])
      BY <2>0, <3>1 DEF Starts, DueAsReread, CheckRecords, Listed
    <3> QED
      BY <1>1, <2>0, <3>2
  <2>8. CASE SchedulerCrash
    <3>1. exec'[j] = 0
      BY <2>8 DEF SchedulerCrash
    <3> QED
      BY <1>1, <2>0, <3>1
  <2>9. CASE UNCHANGED automationVars
    BY <2>1, <2>9 DEF automationVars
  <2> QED
    BY <1>1, <2>2, <2>3, <2>4, <2>5, <2>6, <2>7, <2>8, <2>9 DEF NextAutomations, CheckStep
<1>2. AutomationInv /\ [NextAutomations]_automationVars =>
          [\A j \in Jobs : exec'[j] > exec[j] => Ready(job[j])]_automationVars
  BY <1>1
<1> QED
  BY <1>2, AutomationsInvariant, PTL DEF SpecAutomations, StartsWhatIsDue

-----------------------------------------------------------------------------
(* THE TASK REGISTRY, for any number of tasks, schedules, runs and faults.  What *)
(* the properties say of the runs of a schedule is inductive only with what a    *)
(* timer tells: while a run is in flight that nothing disturbed there is no      *)
(* timer, and no timer is ever left without a record.                            *)

\* The values of the variables.
RunCounts == [once : 0..MaxRuns, every : 0..MaxRuns]
Files == [task : [Tasks -> TaskRecords], sched : [Schedules -> ScheduleRecords]]
Stories == [faults : 0..MaxFaults, revived : [Tasks -> BOOLEAN],
            gone : [Schedules -> {"asked", "removed", "met a run", "unsaved"}],
            runs : [Schedules -> Nat], cause : [Schedules -> BOOLEAN]]

RegistryShape ==
    /\ handler \in {"none", "abort", "run"}
    /\ task \in [Tasks -> TaskRecords]
    /\ sched \in [Schedules -> ScheduleRecords]
    /\ timer \in [Schedules -> {"none", "set", "cut"}]
    /\ running \in [Schedules -> RunCounts]
    /\ saved \in Files
    /\ story \in Stories

\* A timer belongs to a record; a schedule that was removed while nothing ran has none,
\* in memory or on file, and no run.
NoOrphan(s) ==
    /\ timer[s] # "none" => sched[s].there
    /\ story.gone[s] = "removed" =>
           ~sched[s].there /\ ~saved.sched[s].there /\ InFlight(s) = 0

\* An undisturbed run is alone and has no timer beside it.
RunsAlone(s) ==
    InFlight(s) > 0 /\ ~story.cause[s] => InFlight(s) = 1 /\ timer[s] = "none"

\* An undisturbed schedule that has run as one of a single run does so no more: it has
\* no timer, and is off once its run is over.
RunsNoMore(s) ==
    story.runs[s] > 0 /\ ~story.cause[s] =>
        /\ story.runs[s] = 1 /\ timer[s] = "none" /\ running[s].every = 0
        /\ running[s].once > 0 \/ ~sched[s].enabled

ScheduleInv(s) == NoOrphan(s) /\ RunsAlone(s) /\ RunsNoMore(s)

RegistryInv ==
    /\ RegistryShape
    /\ ActiveCanBeStopped
    /\ \A s \in Schedules : ScheduleInv(s)

-----------------------------------------------------------------------------

\* An armed schedule is there and enabled.
LEMMA ArmedIsOn ==
    ASSUME NEW r \in ScheduleRecords
    PROVE  /\ Armed(r) \in {"none", "set", "cut"}
           /\ Armed(r) # "none" => r.enabled /\ r.there
           /\ ~r.there => ~r.enabled
<1>1. CASE r = NoSchedule
      BY <1>1 DEF Armed, NoSchedule
<1>2. CASE r \in [there : {TRUE}, kind : {"once", "every"}, enabled : BOOLEAN,
                  next : {"none", "due", "ahead", "far"}]
      BY <1>2 DEF Armed
<1> QED
    BY <1>1, <1>2 DEF ScheduleRecords

\* The fields of a task.
LEMMA TaskFields ==
    ASSUME NEW r \in TaskRecords
    PROVE  r.status \in {"gone", "active", "recovering", "final"} /\ r.aborted \in BOOLEAN
<1>1. CASE r = NoTask
      BY <1>1 DEF NoTask
<1>2. CASE r \in [status : {"active", "recovering", "final"}, aborted : BOOLEAN]
      BY <1>2
<1> QED
    BY <1>1, <1>2 DEF TaskRecords

\* The fields of a schedule.
LEMMA ScheduleFields ==
    ASSUME NEW r \in ScheduleRecords
    PROVE  /\ r.there \in BOOLEAN /\ r.enabled \in BOOLEAN /\ r.kind \in {"once", "every"}
           /\ ~r.there => r.next = "none" /\ ~r.enabled
           /\ r.there => r \in [there : {TRUE}, kind : {"once", "every"}, enabled : BOOLEAN,
                                next : {"none", "due", "ahead", "far"}]
<1>1. CASE r = NoSchedule
      BY <1>1 DEF NoSchedule
<1>2. CASE r \in [there : {TRUE}, kind : {"once", "every"}, enabled : BOOLEAN,
                  next : {"none", "due", "ahead", "far"}]
      BY <1>2
<1> QED
    BY <1>1, <1>2 DEF ScheduleRecords

\* The runs in flight are counted.
LEMMA InFlightIsCount ==
    ASSUME RegistryShape, NEW s \in Schedules
    PROVE  InFlight(s) \in Nat /\ (InFlight(s) > 0) \in BOOLEAN
BY TaskRegistryAssumption DEF RegistryShape, InFlight, RunCounts

\* A save leaves the causes and the counts as they were to be, and the file has what
\* memory has or what it had; a removal it did not get is no longer taken for one.
LEMMA PersistKeeps ==
    ASSUME NEW h \in Stories, RegistryShape, task' \in [Tasks -> TaskRecords],
           sched' \in [Schedules -> ScheduleRecords], Persist(h)
    PROVE  /\ saved' \in Files /\ story' \in Stories
           /\ story'.cause = h.cause /\ story'.runs = h.runs /\ story'.revived = h.revived
           /\ \A s \in Schedules : story'.gone[s] = "removed" =>
                  /\ h.gone[s] = "removed"
                  /\ \/ saved'.sched[s] = sched'[s]
                     \/ /\ saved'.sched[s] = saved.sched[s]
                        /\ sched[s].there => sched'[s].there
<1>1. CASE saved' = [task |-> task', sched |-> sched'] /\ story' = h
      BY <1>1 DEF Files
<1>2. CASE /\ h.faults < MaxFaults /\ UNCHANGED saved
           /\ story' = [h EXCEPT !.faults = @ + 1, !.gone = [s \in Schedules |->
                            IF sched[s].there /\ ~sched'[s].there THEN "unsaved" ELSE @[s]]]
      <2> DEFINE gone == [s \in Schedules |->
                            IF sched[s].there /\ ~sched'[s].there THEN "unsaved" ELSE h.gone[s]]
      <2>3. gone \in [Schedules -> {"asked", "removed", "met a run", "unsaved"}]
            BY DEF Stories
      <2>4. story' = [h EXCEPT !.faults = h.faults + 1, !.gone = gone]
            BY <1>2, Zenon
      <2>5. h.faults + 1 \in 0..MaxFaults
            <3>1. h.faults < MaxFaults
                  BY <1>2, Zenon
            <3>2. h.faults \in 0..MaxFaults /\ MaxFaults \in Nat
                  BY TaskRegistryAssumption DEF Stories
            <3> QED
                BY <3>1, <3>2
      <2> HIDE DEF gone
      <2>1. /\ story' \in Stories
            /\ story'.cause = h.cause /\ story'.runs = h.runs /\ story'.revived = h.revived
            /\ story'.gone = gone
            BY <2>3, <2>4, <2>5 DEF Stories
      <2>2. \A s \in Schedules : story'.gone[s] =
                IF sched[s].there /\ ~sched'[s].there THEN "unsaved" ELSE h.gone[s]
            BY <2>1 DEF gone
      <2> QED
          BY <1>2, <2>1, <2>2 DEF RegistryShape
<1> QED
    BY <1>1, <1>2, Zenon DEF Persist

\* A step that leaves the schedules alone, and only saves, keeps what holds of them.
LEMMA TaskStepKeepsSchedules ==
    ASSUME RegistryInv, NEW h \in Stories, task' \in [Tasks -> TaskRecords], Persist(h),
           h.cause = story.cause, h.runs = story.runs, h.gone = story.gone,
           UNCHANGED <<handler, sched, timer, running>>
    PROVE  RegistryShape' /\ \A s \in Schedules : ScheduleInv(s)'
<1>1. RegistryShape'
      BY PersistKeeps DEF RegistryInv, RegistryShape
<1>2. ASSUME NEW s \in Schedules PROVE ScheduleInv(s)'
      BY <1>2, PersistKeeps DEF RegistryInv, RegistryShape, ScheduleInv, NoOrphan, RunsAlone, RunsNoMore, InFlight
<1> QED
    BY <1>1, <1>2

\* What each task of such a step becomes keeps the tasks stoppable.
LEMMA TaskStepKeeps ==
    ASSUME RegistryInv, NEW t \in Tasks, TaskStep(t)
    PROVE  RegistryInv'
<1> USE DEF RegistryInv
<1>0. /\ story \in Stories /\ task \in [Tasks -> TaskRecords]
      /\ UNCHANGED <<handler, sched, timer, running>>
      BY DEF RegistryShape, TaskStep, RegisterTask, UpdateTask, EndTask, AbortTask, CancelTask, RemoveTask
<1>1. PICK h \in Stories :
          /\ Persist(h) /\ task' \in [Tasks -> TaskRecords]
          /\ h.cause = story.cause /\ h.runs = story.runs /\ h.gone = story.gone
          /\ \A q \in Tasks : task'[q].status \in {"active", "recovering"} /\ task'[q].aborted
                                  => h.revived[q]
      <2>1. CASE RegisterTask(t)
            <3> DEFINE h == [story EXCEPT !.revived[t] = @ /\ Active(t)]
            <3>1. h \in Stories /\ h.revived = [story.revived EXCEPT ![t] = @ /\ Active(t)]
                  /\ h.cause = story.cause /\ h.runs = story.runs /\ h.gone = story.gone
                  BY <1>0 DEF Stories, Active
            <3>2. task' \in [Tasks -> TaskRecords]
                  BY <1>0, <2>1 DEF RegisterTask, Registered, TaskRecords
            <3>3. \A q \in Tasks : task'[q].status \in {"active", "recovering"} /\ task'[q].aborted
                                  => h.revived[q]
                  BY <1>0, <2>1, <3>1 DEF RegisterTask, Registered, Active, ActiveCanBeStopped, Stories
            <3> QED
                BY <2>1, <3>1, <3>2, <3>3, Zenon DEF RegisterTask
      <2>2. CASE UpdateTask(t)
            <3>0. /\ task[t].aborted \in BOOLEAN
                  /\ \A q \in Tasks : story.revived[q] \in BOOLEAN
                  BY <1>0, TaskFields DEF Stories
            <3>1. PICK b \in BOOLEAN : b = (story.revived[t] \/ task[t].aborted)
                  BY Zenon
            <3> DEFINE h == [story EXCEPT !.revived[t] = b]
            <3>2. h \in Stories /\ h.revived = [story.revived EXCEPT ![t] = b]
                  /\ h.cause = story.cause /\ h.runs = story.runs /\ h.gone = story.gone
                  BY <1>0 DEF Stories
            <3>3. task' \in [Tasks -> TaskRecords]
                  BY <1>0, <2>2 DEF UpdateTask, TaskRecords, NoTask
            <3>4. task[t].aborted => b
                  BY <3>1
            <3>5. story.revived[t] => b
                  BY <3>1
            <3>6. \A q \in Tasks : task'[q].status \in {"active", "recovering"} /\ task'[q].aborted
                                  => h.revived[q]
                  <4>1. task'[t].aborted = task[t].aborted
                        BY <1>0, <2>2 DEF UpdateTask, TaskRecords, NoTask
                  <4>2. \A q \in Tasks \ {t} : task'[q] = task[q]
                        BY <1>0, <2>2 DEF UpdateTask
                  <4>3. h.revived[t] = b /\ \A q \in Tasks \ {t} : h.revived[q] = story.revived[q]
                        BY <1>0, <3>2 DEF Stories
                  <4> HIDE DEF h
                  <4> QED
                      BY <3>4, <3>5, <4>1, <4>2, <4>3 DEF ActiveCanBeStopped, Active
            <3>7. Persist(h)
                  BY <2>2, <3>1, Zenon DEF UpdateTask
            <3> QED
                BY <3>2, <3>3, <3>6, <3>7, Zenon
      <2>3. CASE EndTask(t)
            <3>1. task' \in [Tasks -> TaskRecords]
                  BY <1>0, <2>3 DEF EndTask, TaskRecords, NoTask
            <3>2. \A q \in Tasks : task'[q].status \in {"active", "recovering"} /\ task'[q].aborted
                                  => story.revived[q]
                  BY <1>0, <2>3 DEF EndTask, ActiveCanBeStopped, Active
            <3>3. Persist(story)
                  BY <2>3 DEF EndTask
            <3> QED
                BY <1>0, <3>1, <3>2, <3>3
      <2>4. CASE AbortTask(t)
            <3>1. task' \in [Tasks -> TaskRecords]
                  BY <1>0, <2>4 DEF AbortTask, TaskRecords, NoTask
            <3>2. \A q \in Tasks : task'[q].status \in {"active", "recovering"} /\ task'[q].aborted
                                  => story.revived[q]
                  BY <1>0, <2>4 DEF AbortTask, ActiveCanBeStopped, Active
            <3>3. Persist(story)
                  BY <2>4 DEF AbortTask
            <3> QED
                BY <1>0, <3>1, <3>2, <3>3
      <2>5. CASE CancelTask(t)
            <3>1. task' \in [Tasks -> TaskRecords]
                  BY <1>0, <2>5 DEF CancelTask, TaskRecords, NoTask
            <3>2. \A q \in Tasks : task'[q].status \in {"active", "recovering"} /\ task'[q].aborted
                                  => story.revived[q]
                  BY <1>0, <2>5 DEF CancelTask, ActiveCanBeStopped, Active
            <3>3. Persist(story)
                  BY <2>5 DEF CancelTask
            <3> QED
                BY <1>0, <3>1, <3>2, <3>3
      <2>6. CASE RemoveTask(t)
            <3> DEFINE h == [story EXCEPT !.revived[t] = FALSE]
            <3>1. h \in Stories /\ h.revived = [story.revived EXCEPT ![t] = FALSE]
                  /\ h.cause = story.cause /\ h.runs = story.runs /\ h.gone = story.gone
                  BY <1>0 DEF Stories
            <3>2. task' \in [Tasks -> TaskRecords]
                  BY <1>0, <2>6 DEF RemoveTask, TaskRecords, NoTask
            <3>3. \A q \in Tasks : task'[q].status \in {"active", "recovering"} /\ task'[q].aborted
                                  => h.revived[q]
                  BY <1>0, <2>6, <3>1 DEF RemoveTask, Active, ActiveCanBeStopped, Stories, NoTask
            <3> QED
                BY <2>6, <3>1, <3>2, <3>3, Zenon DEF RemoveTask
      <2> QED
          BY <2>1, <2>2, <2>3, <2>4, <2>5, <2>6 DEF TaskStep
<1>2. RegistryShape' /\ \A s \in Schedules : ScheduleInv(s)'
      BY <1>0, <1>1, TaskStepKeepsSchedules
<1>3. story'.revived = h.revived
      BY <1>0, <1>1, PersistKeeps DEF RegistryShape
<1>4. ActiveCanBeStopped'
      BY <1>1, <1>3 DEF ActiveCanBeStopped, Active
<1> QED
    BY <1>2, <1>4

\* A stop of the session ends its tasks and leaves the schedules alone.
LEMMA StopSessionKeeps ==
    ASSUME RegistryInv, StopSession
    PROVE  RegistryInv'
<1>1. /\ story \in Stories /\ task \in [Tasks -> TaskRecords] /\ Persist(story)
      /\ UNCHANGED <<handler, sched, timer, running>>
      BY DEF RegistryInv, RegistryShape, StopSession
<1>2. \A t \in Tasks : task'[t] = IF Active(t) /\ ~task[t].aborted
                                  THEN [task[t] EXCEPT !.status = "final", !.aborted = TRUE]
                                  ELSE task[t]
      BY DEF StopSession
<1>3. ASSUME NEW t \in Tasks, Active(t), ~task[t].aborted
      PROVE  task'[t] \in TaskRecords /\ task'[t].status = "final"
      <2>1. task[t] \in [status : {"active", "recovering", "final"}, aborted : BOOLEAN]
            BY <1>1, <1>3 DEF TaskRecords, NoTask, Active
      <2> QED
          BY <1>2, <1>3, <2>1 DEF TaskRecords
<1>4. task' \in [Tasks -> TaskRecords]
      <2>1. \A t \in Tasks : task'[t] \in TaskRecords
            BY <1>1, <1>2, <1>3
      <2>2. task' = [t \in Tasks |-> task'[t]]
            BY DEF StopSession
      <2> QED
          BY <2>1, <2>2
<1>5. RegistryShape' /\ \A s \in Schedules : ScheduleInv(s)'
      BY <1>1, <1>4, TaskStepKeepsSchedules
<1>6. story'.revived = story.revived
      BY <1>1, <1>4, PersistKeeps DEF RegistryInv, RegistryShape
<1>7. ActiveCanBeStopped'
      BY <1>2, <1>3, <1>6 DEF RegistryInv, ActiveCanBeStopped, Active
<1> QED
    BY <1>5, <1>7 DEF RegistryInv

-----------------------------------------------------------------------------

\* A schedule that a step does not touch stays as it is, saved or not.
LEMMA OthersKeep ==
    ASSUME RegistryInv, NEW q \in Schedules,
           sched'[q] = sched[q], timer'[q] = timer[q], running'[q] = running[q],
           story'.cause[q] = story.cause[q], story'.runs[q] = story.runs[q],
           story'.gone[q] = "removed" =>
               story.gone[q] = "removed" /\ saved'.sched[q] \in {sched[q], saved.sched[q]}
    PROVE  ScheduleInv(q)'
BY DEF RegistryInv, ScheduleInv, NoOrphan, RunsAlone, RunsNoMore, InFlight

\* The tasks stay stoppable when a step leaves them and their history alone.
LEMMA TasksKeep ==
    ASSUME RegistryInv, task' = task, story'.revived = story.revived
    PROVE  ActiveCanBeStopped'
BY DEF RegistryInv, ActiveCanBeStopped, Active

\* A step that changes the record, the timer and the runs of one schedule, and saves.
LEMMA OneScheduleKeeps ==
    ASSUME RegistryInv, NEW s \in Schedules, NEW h \in Stories, Persist(h),
           UNCHANGED <<handler, task>>,
           sched' \in [Schedules -> ScheduleRecords],
           timer' \in [Schedules -> {"none", "set", "cut"}],
           running' \in [Schedules -> RunCounts],
           \A q \in Schedules \ {s} :
               /\ sched'[q] = sched[q] /\ timer'[q] = timer[q] /\ running'[q] = running[q]
               /\ h.cause[q] = story.cause[q] /\ h.runs[q] = story.runs[q]
               /\ h.gone[q] = story.gone[q],
           h.revived = story.revived
    PROVE  /\ RegistryShape' /\ ActiveCanBeStopped'
           /\ \A q \in Schedules \ {s} : ScheduleInv(q)'
           /\ story'.cause[s] = h.cause[s] /\ story'.runs[s] = h.runs[s]
           /\ story'.gone[s] = "removed" =>
                  /\ h.gone[s] = "removed"
                  /\ \/ saved'.sched[s] = sched'[s]
                     \/ /\ saved'.sched[s] = saved.sched[s]
                        /\ sched[s].there => sched'[s].there
<1>1. RegistryShape /\ task' \in [Tasks -> TaskRecords]
      BY DEF RegistryInv, RegistryShape
<1>2. /\ saved' \in Files /\ story' \in Stories
      /\ story'.cause = h.cause /\ story'.runs = h.runs /\ story'.revived = h.revived
      /\ \A q \in Schedules : story'.gone[q] = "removed" =>
                  /\ h.gone[q] = "removed"
                  /\ \/ saved'.sched[q] = sched'[q]
                     \/ /\ saved'.sched[q] = saved.sched[q]
                        /\ sched[q].there => sched'[q].there
      BY <1>1, PersistKeeps
<1>3. RegistryShape'
      BY <1>1, <1>2 DEF RegistryShape
<1>4. ActiveCanBeStopped'
      BY <1>2, TasksKeep
<1>5. ASSUME NEW q \in Schedules \ {s} PROVE ScheduleInv(q)'
      BY <1>2, <1>5, OthersKeep
<1> QED
    BY <1>2, <1>3, <1>4, <1>5

\* schedule: the cause says whether a run was in flight, and the count starts anew.
LEMMA ScheduleKeeps ==
    ASSUME RegistryInv, NEW s \in Schedules, Schedule(s)
    PROVE  RegistryInv'
<1>0. /\ story \in Stories /\ sched \in [Schedules -> ScheduleRecords]
      /\ timer \in [Schedules -> {"none", "set", "cut"}] /\ running \in [Schedules -> RunCounts]
      BY DEF RegistryInv, RegistryShape
<1>1. PICK c \in BOOLEAN : c = (InFlight(s) > 0)
      BY InFlightIsCount DEF RegistryInv
<1> DEFINE h == [story EXCEPT !.gone[s] = "asked", !.runs[s] = 0, !.cause[s] = c]
<1>2. Persist(h) /\ UNCHANGED <<handler, task, running>>
      BY <1>1, Zenon DEF Schedule
<1>3. /\ h \in Stories /\ h.revived = story.revived
      /\ h.gone[s] = "asked" /\ h.runs[s] = 0 /\ h.cause[s] = c
      /\ \A q \in Schedules \ {s} : /\ h.cause[q] = story.cause[q] /\ h.runs[q] = story.runs[q]
                                    /\ h.gone[q] = story.gone[q]
      BY <1>0 DEF Stories
<1> HIDE DEF h
<1>4. PICK r : r \in ScheduleRecords /\ r.there /\ sched' = [sched EXCEPT ![s] = r]
               /\ timer' = [timer EXCEPT ![s] = Armed(r)]
      <2>1. PICK kind \in {"once", "every"}, enabled \in BOOLEAN, time \in {"due", "ahead", "far"} :
                LET next == IF ~enabled THEN "none"
                            ELSE IF sched[s].next \in {"ahead", "far"} THEN sched[s].next ELSE time
                    r == [there |-> TRUE, kind |-> kind, enabled |-> enabled, next |-> next]
                IN  /\ sched' = [sched EXCEPT ![s] = r]
                    /\ timer' = [timer EXCEPT ![s] = Armed(r)]
            BY Zenon DEF Schedule
      <2> DEFINE next == IF ~enabled THEN "none"
                         ELSE IF sched[s].next \in {"ahead", "far"} THEN sched[s].next ELSE time
                 r == [there |-> TRUE, kind |-> kind, enabled |-> enabled, next |-> next]
      <2>2. next \in {"none", "due", "ahead", "far"}
            OBVIOUS
      <2> HIDE DEF next
      <2>3. r \in ScheduleRecords /\ r.there
            BY <2>2 DEF ScheduleRecords
      <2>4. sched' = [sched EXCEPT ![s] = r] /\ timer' = [timer EXCEPT ![s] = Armed(r)]
            BY <2>1, Zenon DEF next
      <2> QED
          BY <2>3, <2>4
<1>5. /\ sched' \in [Schedules -> ScheduleRecords] /\ sched'[s] = r /\ timer'[s] = Armed(r)
      /\ timer' \in [Schedules -> {"none", "set", "cut"}]
      /\ \A q \in Schedules \ {s} : sched'[q] = sched[q] /\ timer'[q] = timer[q]
      BY <1>0, <1>4, ArmedIsOn
<1>6. /\ RegistryShape' /\ ActiveCanBeStopped'
      /\ \A q \in Schedules \ {s} : ScheduleInv(q)'
      /\ story'.cause[s] = h.cause[s] /\ story'.runs[s] = h.runs[s]
      /\ story'.gone[s] = "removed" => h.gone[s] = "removed"
      BY <1>0, <1>2, <1>3, <1>5, OneScheduleKeeps
<1>7. ScheduleInv(s)'
      <2>1. InFlight(s)' = InFlight(s) /\ InFlight(s) \in Nat /\ (c <=> InFlight(s) > 0)
            BY <1>1, <1>2, InFlightIsCount DEF InFlight, RegistryInv
      <2> QED
          BY <1>3, <1>4, <1>5, <1>6, <2>1, ArmedIsOn
          DEF ScheduleInv, NoOrphan, RunsAlone, RunsNoMore, InFlight
<1> QED
    BY <1>6, <1>7 DEF RegistryInv

\* unschedule: a removal is one while nothing runs only when nothing did.
LEMMA UnscheduleKeeps ==
    ASSUME RegistryInv, NEW s \in Schedules, Unschedule(s)
    PROVE  RegistryInv'
<1>0. /\ story \in Stories /\ sched \in [Schedules -> ScheduleRecords]
      /\ timer \in [Schedules -> {"none", "set", "cut"}] /\ running \in [Schedules -> RunCounts]
      BY DEF RegistryInv, RegistryShape
<1> DEFINE g == IF InFlight(s) > 0 THEN "met a run" ELSE "removed"
           h == [story EXCEPT !.gone[s] = g]
<1>1. Persist(h) /\ UNCHANGED <<handler, task, running>>
      BY Zenon DEF Unschedule
<1>2. g \in {"met a run", "removed"} /\ (g = "removed" => InFlight(s) = 0)
      BY InFlightIsCount DEF RegistryInv
<1> HIDE DEF g
<1>3. /\ h \in Stories /\ h.revived = story.revived
      /\ h.gone[s] = g /\ h.runs[s] = story.runs[s] /\ h.cause[s] = story.cause[s]
      /\ \A q \in Schedules \ {s} : /\ h.cause[q] = story.cause[q] /\ h.runs[q] = story.runs[q]
                                    /\ h.gone[q] = story.gone[q]
      BY <1>0, <1>2 DEF Stories
<1> HIDE DEF h
<1>4. /\ sched' \in [Schedules -> ScheduleRecords] /\ sched'[s] = NoSchedule
      /\ timer' \in [Schedules -> {"none", "set", "cut"}] /\ timer'[s] = "none"
      /\ \A q \in Schedules \ {s} : sched'[q] = sched[q] /\ timer'[q] = timer[q]
      BY <1>0 DEF Unschedule, ScheduleRecords
<1>5. sched[s].there /\ ~NoSchedule.there /\ ~NoSchedule.enabled
      BY DEF Unschedule, NoSchedule
<1>6. /\ RegistryShape' /\ ActiveCanBeStopped'
      /\ \A q \in Schedules \ {s} : ScheduleInv(q)'
      /\ story'.cause[s] = h.cause[s] /\ story'.runs[s] = h.runs[s]
      /\ story'.gone[s] = "removed" =>
             /\ h.gone[s] = "removed"
             /\ \/ saved'.sched[s] = sched'[s]
                \/ /\ saved'.sched[s] = saved.sched[s]
                   /\ sched[s].there => sched'[s].there
      BY <1>0, <1>1, <1>3, <1>4, OneScheduleKeeps
<1>7. ScheduleInv(s)'
      BY <1>1, <1>2, <1>3, <1>4, <1>5, <1>6, ZenonT(60)
      DEF RegistryInv, ScheduleInv, NoOrphan, RunsAlone, RunsNoMore, InFlight
<1> QED
    BY <1>6, <1>7 DEF RegistryInv

\* Time changes when a schedule is due, and not whether it is there or on.
LEMMA TimePassesKeeps ==
    ASSUME RegistryInv, NEW s \in Schedules, TimePasses(s)
    PROVE  RegistryInv'
<1>0. /\ sched \in [Schedules -> ScheduleRecords]
      /\ UNCHANGED <<handler, task, timer, running, saved, story>>
      BY DEF RegistryInv, RegistryShape, TimePasses
<1>1. PICK next \in {"due", "ahead"} : sched' = [sched EXCEPT ![s].next = next]
      BY DEF TimePasses
<1>2. sched[s] \in [there : {TRUE}, kind : {"once", "every"}, enabled : BOOLEAN,
                    next : {"none", "due", "ahead", "far"}]
      BY <1>0, ScheduleFields DEF TimePasses
<1>3. /\ [sched[s] EXCEPT !.next = next] \in ScheduleRecords
      /\ [sched[s] EXCEPT !.next = next].there = sched[s].there
      /\ [sched[s] EXCEPT !.next = next].enabled = sched[s].enabled
      BY <1>2 DEF ScheduleRecords
<1>4. /\ sched' \in [Schedules -> ScheduleRecords]
      /\ sched'[s].there = sched[s].there /\ sched'[s].enabled = sched[s].enabled
      /\ \A q \in Schedules \ {s} : sched'[q] = sched[q]
      BY <1>0, <1>1, <1>3
<1>5. RegistryShape'
      BY <1>0, <1>4 DEF RegistryInv, RegistryShape
<1>6. ASSUME NEW q \in Schedules PROVE ScheduleInv(q)'
      BY <1>0, <1>4 DEF RegistryInv, ScheduleInv, NoOrphan, RunsAlone, RunsNoMore, InFlight
<1> QED
    BY <1>0, <1>5, <1>6, TasksKeep DEF RegistryInv

\* A timer fires: it is gone by then, and if nothing disturbed the schedule no run was
\* in flight, and none counted.
LEMMA TimerFiresKeeps ==
    ASSUME RegistryInv, NEW s \in Schedules, TimerFires(s)
    PROVE  RegistryInv'
<1>0. /\ story \in Stories /\ sched \in [Schedules -> ScheduleRecords]
      /\ timer \in [Schedules -> {"none", "set", "cut"}] /\ running \in [Schedules -> RunCounts]
      /\ UNCHANGED <<handler, task, sched, saved>>
      /\ timer[s] # "none" /\ sched[s].there /\ InFlight(s) < MaxRuns
      BY DEF RegistryInv, RegistryShape, TimerFires, Rings, ScheduleInv, NoOrphan
<1>1. sched[s].kind \in {"once", "every"}
      BY <1>0, ScheduleFields
<1>2. /\ timer' \in [Schedules -> {"none", "set", "cut"}] /\ timer'[s] = "none"
      /\ \A q \in Schedules \ {s} : timer'[q] = timer[q]
      BY <1>0 DEF TimerFires, Spent
<1>3. /\ running' \in [Schedules -> RunCounts] /\ InFlight(s)' = InFlight(s) + 1
      /\ sched[s].kind = "once" => running'[s].once = running[s].once + 1
                                   /\ running'[s].every = running[s].every
      /\ \A q \in Schedules \ {s} : running'[q] = running[q]
      <2>1. running[s] \in RunCounts /\ MaxRuns \in Nat
            BY <1>0, TaskRegistryAssumption
      <2>2. running' = [running EXCEPT ![s] =
                [running[s] EXCEPT ![sched[s].kind] = running[s][sched[s].kind] + 1]]
            BY DEF TimerFires
      <2>3. PICK c \in RunCounts : /\ running' = [running EXCEPT ![s] = c]
                                   /\ c.once + c.every = InFlight(s) + 1
                                   /\ sched[s].kind = "once" => c.once = running[s].once + 1
                                                                /\ c.every = running[s].every
            <3>1. CASE sched[s].kind = "once"
                  <4> DEFINE c == [running[s] EXCEPT !.once = running[s].once + 1]
                  <4>0. running[s].once + 1 \in 0..MaxRuns /\ running[s].once \in Nat /\ running[s].every \in 0..MaxRuns
                        BY <1>0, <2>1 DEF InFlight, RunCounts
                  <4>1. c \in RunCounts /\ c.once = running[s].once + 1 /\ c.every = running[s].every
                        BY <2>1, <4>0 DEF RunCounts
                  <4>2. running' = [running EXCEPT ![s] = c]
                        BY <2>2, <3>1, Zenon
                  <4> HIDE DEF c
                  <4>3. c.once + c.every = InFlight(s) + 1
                        BY <2>1, <4>0, <4>1 DEF InFlight
                  <4> QED
                      BY <4>1, <4>2, <4>3
            <3>2. CASE sched[s].kind = "every"
                  <4> DEFINE c == [running[s] EXCEPT !.every = running[s].every + 1]
                  <4>0. running[s].every + 1 \in 0..MaxRuns /\ running[s].every \in Nat /\ running[s].once \in 0..MaxRuns
                        BY <1>0, <2>1 DEF InFlight, RunCounts
                  <4>1. c \in RunCounts /\ c.once = running[s].once /\ c.every = running[s].every + 1
                        BY <2>1, <4>0 DEF RunCounts
                  <4>2. running' = [running EXCEPT ![s] = c]
                        BY <2>2, <3>2, Zenon
                  <4> HIDE DEF c
                  <4>3. c.once + c.every = InFlight(s) + 1
                        BY <2>1, <4>0, <4>1 DEF InFlight
                  <4> QED
                      BY <3>2, <4>1, <4>2, <4>3
            <3> QED
                BY <1>1, <3>1, <3>2
      <2> QED
          BY <1>0, <2>3 DEF InFlight
<1>4. /\ story' \in Stories /\ story'.revived = story.revived
      /\ story'.gone = story.gone /\ story'.cause = story.cause
      /\ story'.runs[s] = IF sched[s].kind = "once" THEN story.runs[s] + 1 ELSE story.runs[s]
      /\ \A q \in Schedules \ {s} : story'.runs[q] = story.runs[q]
      <2>1. story' = [story EXCEPT !.runs[s] = IF sched[s].kind = "once" THEN @ + 1 ELSE @]
            BY Zenon DEF TimerFires
      <2>2. PICK n \in Nat : n = IF sched[s].kind = "once" THEN story.runs[s] + 1 ELSE story.runs[s]
            <3>1. story.runs[s] \in Nat
                  BY <1>0 DEF Stories
            <3>2. story.runs[s] + 1 \in Nat
                  BY <3>1
            <3> QED
                BY <3>1, <3>2, Zenon
      <2> DEFINE h == [story EXCEPT !.runs[s] = n]
      <2>3. story' = h
            BY <2>1, <2>2, Zenon
      <2>4. /\ h \in Stories /\ h.revived = story.revived
            /\ h.gone = story.gone /\ h.cause = story.cause /\ h.runs[s] = n
            /\ \A q \in Schedules \ {s} : h.runs[q] = story.runs[q]
            BY <1>0 DEF Stories
      <2> HIDE DEF h
      <2> QED
          BY <2>2, <2>3, <2>4
<1>5. RegistryShape'
      BY <1>0, <1>2, <1>3, <1>4 DEF RegistryInv, RegistryShape
<1>6. ASSUME NEW q \in Schedules \ {s} PROVE ScheduleInv(q)'
      BY <1>0, <1>2, <1>3, <1>4, <1>6, OthersKeep
<1>7. ScheduleInv(s)'
      <2>1. InFlight(s) \in Nat /\ story.runs[s] \in Nat
            BY <1>0, InFlightIsCount DEF RegistryInv, Stories
      <2>2. story.gone[s] # "removed"
            BY <1>0 DEF RegistryInv, ScheduleInv, NoOrphan
      <2>3. ~story.cause[s] => InFlight(s) = 0 /\ story.runs[s] = 0
            BY <1>0, <2>1 DEF RegistryInv, ScheduleInv, RunsAlone, RunsNoMore
      <2>4. InFlight(s) = 0 => running[s].once = 0 /\ running[s].every = 0
            BY <1>0 DEF InFlight, RunCounts
      <2> QED
          BY <1>0, <1>1, <1>2, <1>3, <1>4, <2>1, <2>2, <2>3, <2>4
          DEF ScheduleInv, NoOrphan, RunsAlone, RunsNoMore
<1> QED
    BY <1>0, <1>4, <1>5, <1>6, <1>7, TasksKeep DEF RegistryInv

\* A timer that finds no runner only goes.
LEMMA NoRunnerKeeps ==
    ASSUME RegistryInv, NEW s \in Schedules, NoRunner(s)
    PROVE  RegistryInv'
<1>0. /\ story \in Stories /\ sched \in [Schedules -> ScheduleRecords]
      /\ timer \in [Schedules -> {"none", "set", "cut"}] /\ running \in [Schedules -> RunCounts]
      /\ Persist(story) /\ UNCHANGED <<handler, task, sched, running>>
      BY DEF RegistryInv, RegistryShape, NoRunner
<1>1. /\ timer' \in [Schedules -> {"none", "set", "cut"}] /\ timer'[s] = "none"
      /\ \A q \in Schedules \ {s} : timer'[q] = timer[q]
      BY <1>0 DEF NoRunner
<1>2. /\ RegistryShape' /\ ActiveCanBeStopped'
      /\ \A q \in Schedules \ {s} : ScheduleInv(q)'
      /\ story'.cause[s] = story.cause[s] /\ story'.runs[s] = story.runs[s]
      /\ story'.gone[s] = "removed" =>
             story.gone[s] = "removed" /\ saved'.sched[s] \in {sched[s], saved.sched[s]}
      BY <1>0, <1>1, OneScheduleKeeps
<1>3. ScheduleInv(s)'
      BY <1>0, <1>1, <1>2 DEF RegistryInv, ScheduleInv, NoOrphan, RunsAlone, RunsNoMore, InFlight
<1> QED
    BY <1>2, <1>3 DEF RegistryInv

\* What is left of the runs of a schedule when one is over.
LEMMA OneRunLess ==
    ASSUME NEW c \in RunCounts, NEW kind \in {"once", "every"}, c[kind] > 0,
           NEW d, d = [c EXCEPT ![kind] = c[kind] - 1]
    PROVE  /\ d \in RunCounts /\ d.once + d.every = c.once + c.every - 1
           /\ c.once \in Nat /\ c.every \in Nat
           /\ kind = "once" => d.every = c.every
           /\ kind = "every" => c.every > 0
<1>1. MaxRuns \in Nat /\ c.once \in 0..MaxRuns /\ c.every \in 0..MaxRuns
      BY TaskRegistryAssumption DEF RunCounts
<1>2. CASE kind = "once"
      <2>1. c.once > 0 /\ d = [c EXCEPT !.once = c.once - 1]
            BY <1>2
      <2>2. c.once - 1 \in 0..MaxRuns
            BY <1>1, <2>1
      <2>3. d \in RunCounts /\ d.once = c.once - 1 /\ d.every = c.every
            BY <2>1, <2>2 DEF RunCounts
      <2> QED
          BY <1>1, <1>2, <2>3
<1>3. CASE kind = "every"
      <2>1. c.every > 0 /\ d = [c EXCEPT !.every = c.every - 1]
            BY <1>3
      <2>2. c.every - 1 \in 0..MaxRuns
            BY <1>1, <2>1
      <2>3. d \in RunCounts /\ d.once = c.once /\ d.every = c.every - 1
            BY <2>1, <2>2 DEF RunCounts
      <2> QED
          BY <1>1, <1>3, <2>1, <2>3
<1> QED
    BY <1>2, <1>3

\* A run that is over was the only one, if nothing disturbed it; a schedule of a single
\* run is off then, whatever was made of it, and one at an interval starts anew.
LEMMA RunIsOverKeeps ==
    ASSUME RegistryInv, NEW s \in Schedules, RunIsOver(s)
    PROVE  RegistryInv'
<1>0. /\ story \in Stories /\ sched \in [Schedules -> ScheduleRecords]
      /\ timer \in [Schedules -> {"none", "set", "cut"}] /\ running \in [Schedules -> RunCounts]
      BY DEF RegistryInv, RegistryShape
<1>1. PICK kind \in {"once", "every"}, right \in BOOLEAN, next \in {"due", "ahead", "far"} :
        /\ running[s][kind] > 0
        /\ LET r == Advanced(s, kind, right, next) IN
            /\ sched' = [sched EXCEPT ![s] = r]
            /\ timer' = [timer EXCEPT ![s] = Armed(r)]
        /\ running' = [running EXCEPT ![s][kind] = @ - 1]
        /\ UNCHANGED <<handler, task>>
        /\ Persist(IF kind = "every" /\ InFlight(s) = 1
                   THEN [story EXCEPT !.runs[s] = 0, !.cause[s] = FALSE] ELSE story)
      BY Zenon DEF RunIsOver
<1> DEFINE r == Advanced(s, kind, right, next)
           d == [running[s] EXCEPT ![kind] = running[s][kind] - 1]
           anew == kind = "every" /\ InFlight(s) = 1
           h == IF anew THEN [story EXCEPT !.runs[s] = 0, !.cause[s] = FALSE] ELSE story
<1>2. r \in ScheduleRecords /\ r.there /\ (kind = "once" => Armed(r) = "none" /\ ~r.enabled)
      BY DEF Advanced, ScheduleRecords, Armed
<1>3. /\ sched' = [sched EXCEPT ![s] = r] /\ timer' = [timer EXCEPT ![s] = Armed(r)]
      /\ running' = [running EXCEPT ![s] = d] /\ Persist(h) /\ UNCHANGED <<handler, task>>
      /\ running[s][kind] > 0
      BY <1>1
<1>4. /\ d \in RunCounts /\ d.once + d.every = InFlight(s) - 1 /\ InFlight(s) > 0
      /\ kind = "once" => d.every = running[s].every
      /\ kind = "every" => running[s].every > 0
      <2>1. running[s] \in RunCounts /\ running[s][kind] > 0
            BY <1>0, <1>3
      <2>2. /\ d \in RunCounts /\ d.once + d.every = running[s].once + running[s].every - 1
            /\ running[s].once \in Nat /\ running[s].every \in Nat
            /\ kind = "once" => d.every = running[s].every
            /\ kind = "every" => running[s].every > 0
            BY <2>1, OneRunLess
      <2>3. running[s].once > 0 \/ running[s].every > 0
            BY <2>1
      <2> HIDE DEF d
      <2> QED
          BY <2>2, <2>3 DEF InFlight
<1>5. /\ h \in Stories /\ h.revived = story.revived /\ h.gone = story.gone
      /\ anew => h.runs[s] = 0
      /\ ~anew => h.runs[s] = story.runs[s] /\ h.cause[s] = story.cause[s]
      /\ \A q \in Schedules \ {s} : h.cause[q] = story.cause[q] /\ h.runs[q] = story.runs[q]
      <2>1. CASE anew
            <3> DEFINE g == [story EXCEPT !.runs[s] = 0, !.cause[s] = FALSE]
            <3>1. /\ g \in Stories /\ g.revived = story.revived /\ g.gone = story.gone
                  /\ g.runs[s] = 0
                  /\ \A q \in Schedules \ {s} : g.cause[q] = story.cause[q] /\ g.runs[q] = story.runs[q]
                  BY <1>0 DEF Stories
            <3>2. h = g
                  BY <2>1
            <3> HIDE DEF g, h, anew
            <3> QED
                BY <2>1, <3>1, <3>2
      <2>2. CASE ~anew
            BY <1>0, <2>2
      <2> QED
          BY <2>1, <2>2
<1> HIDE DEF r, d, h
<1>6. /\ sched' \in [Schedules -> ScheduleRecords] /\ sched'[s] = r
      /\ timer' \in [Schedules -> {"none", "set", "cut"}] /\ timer'[s] = Armed(r)
      /\ running' \in [Schedules -> RunCounts] /\ running'[s] = d
      /\ \A q \in Schedules \ {s} : /\ sched'[q] = sched[q] /\ timer'[q] = timer[q]
                                    /\ running'[q] = running[q]
      BY <1>0, <1>2, <1>3, <1>4, ArmedIsOn
<1>7. /\ RegistryShape' /\ ActiveCanBeStopped'
      /\ \A q \in Schedules \ {s} : ScheduleInv(q)'
      /\ story'.cause[s] = h.cause[s] /\ story'.runs[s] = h.runs[s]
      /\ story'.gone[s] = "removed" => story.gone[s] = "removed"
      BY <1>3, <1>5, <1>6, OneScheduleKeeps
<1>8. ScheduleInv(s)'
      <2>1. InFlight(s) \in Nat /\ InFlight(s)' = InFlight(s) - 1 /\ story.gone[s] # "removed"
            BY <1>4, <1>6, InFlightIsCount DEF RegistryInv, ScheduleInv, NoOrphan, InFlight
      <2>2. CASE anew
            BY <1>2, <1>5, <1>6, <1>7, <2>1, <2>2
            DEF ScheduleInv, NoOrphan, RunsAlone, RunsNoMore
      <2>3. CASE ~anew
            BY <1>2, <1>4, <1>5, <1>6, <1>7, <2>1, <2>3
            DEF RegistryInv, ScheduleInv, NoOrphan, RunsAlone, RunsNoMore
      <2> QED
          BY <2>2, <2>3
<1> QED
    BY <1>7, <1>8 DEF RegistryInv

-----------------------------------------------------------------------------

\* A new handler arms every schedule: one whose run is in flight has its cause then, and
\* one that is off gets no timer.
LEMMA RegisterHandlerKeeps ==
    ASSUME RegistryInv, NEW with \in {"abort", "run"}, RegisterHandler(with)
    PROVE  RegistryInv'
<1>0. /\ story \in Stories /\ sched \in [Schedules -> ScheduleRecords]
      /\ UNCHANGED <<task, sched, running, saved>> /\ handler' = with
      /\ timer' = [s \in Schedules |-> Armed(sched[s])]
      BY DEF RegistryInv, RegistryShape, RegisterHandler
<1> DEFINE cause == [s \in Schedules |-> story.cause[s] \/ InFlight(s) > 0]
<1>1. cause \in [Schedules -> BOOLEAN]
      BY Zenon
<1>2. \A s \in Schedules : cause[s] <=> story.cause[s] \/ InFlight(s) > 0
      OBVIOUS
<1>3. story' = [story EXCEPT !.cause = cause]
      BY Zenon DEF RegisterHandler
<1> HIDE DEF cause
<1>4. /\ story' \in Stories /\ story'.revived = story.revived /\ story'.gone = story.gone
      /\ story'.runs = story.runs /\ story'.cause = cause
      BY <1>0, <1>1, <1>3 DEF Stories
<1>5. /\ timer' \in [Schedules -> {"none", "set", "cut"}]
      /\ \A s \in Schedules : timer'[s] # "none" => sched[s].enabled /\ sched[s].there
      BY <1>0, ArmedIsOn
<1>6. RegistryShape'
      BY <1>0, <1>4, <1>5 DEF RegistryInv, RegistryShape
<1>7. ASSUME NEW s \in Schedules PROVE ScheduleInv(s)'
      <2>1. InFlight(s) \in Nat /\ InFlight(s)' = InFlight(s)
            BY <1>0, InFlightIsCount DEF RegistryInv, InFlight
      <2>2. InFlight(s) = 0 => running[s].once = 0
            BY DEF RegistryInv, RegistryShape, RunCounts, InFlight
      <2> QED
          BY <1>0, <1>2, <1>4, <1>5, <2>1, <2>2
          DEF RegistryInv, ScheduleInv, NoOrphan, RunsAlone, RunsNoMore
<1> QED
    BY <1>0, <1>4, <1>6, <1>7, TasksKeep DEF RegistryInv

LEMMA UnregisterHandlerKeeps ==
    ASSUME RegistryInv, UnregisterHandler
    PROVE  RegistryInv'
<1>1. UNCHANGED <<task, sched, timer, running, saved, story>> /\ handler' = "none"
      BY DEF UnregisterHandler
<1>2. ASSUME NEW s \in Schedules PROVE ScheduleInv(s)'
      BY <1>1, OthersKeep DEF RegistryInv
<1> QED
    BY <1>1, <1>2, TasksKeep DEF RegistryInv, RegistryShape

\* A restart arms what the file has: nothing that was removed, and for an undisturbed
\* schedule what memory had, with no run in flight.
LEMMA RestartKeeps ==
    ASSUME RegistryInv, Restart
    PROVE  RegistryInv'
<1>0. /\ story \in Stories /\ saved \in Files /\ UNCHANGED saved /\ handler' = "none"
      /\ saved.sched \in [Schedules -> ScheduleRecords] /\ saved.task \in [Tasks -> TaskRecords]
      /\ sched' = saved.sched
      /\ timer' = [s \in Schedules |-> Armed(saved.sched[s])]
      /\ running' = [s \in Schedules |-> [once |-> 0, every |-> 0]]
      BY DEF RegistryInv, RegistryShape, Files, Restart
<1> DEFINE cause == [s \in Schedules |->
                        story.cause[s] \/ InFlight(s) > 0 \/ saved.sched # sched]
           revived == [t \in Tasks |-> story.revived[t] \/ saved.task[t].aborted]
<1>1. cause \in [Schedules -> BOOLEAN] /\ revived \in [Tasks -> BOOLEAN]
      BY Zenon
<1>2. /\ \A s \in Schedules : cause[s] <=> story.cause[s] \/ InFlight(s) > 0 \/ saved.sched # sched
      /\ \A t \in Tasks : saved.task[t].aborted => revived[t]
      OBVIOUS
<1>3. /\ story' = [story EXCEPT !.faults = story.faults + 1, !.revived = revived, !.cause = cause]
      /\ story.faults < MaxFaults
      BY Zenon DEF Restart
<1> HIDE DEF cause, revived
<1>4. /\ story' \in Stories /\ story'.revived = revived /\ story'.gone = story.gone
      /\ story'.runs = story.runs /\ story'.cause = cause
      <2>1. story.faults + 1 \in 0..MaxFaults
            <3>1. story.faults \in 0..MaxFaults /\ MaxFaults \in Nat
                  BY <1>0, TaskRegistryAssumption DEF Stories
            <3>2. story.faults < MaxFaults
                  BY <1>3, Zenon
            <3> QED
                BY <3>1, <3>2
      <2> QED
          BY <1>0, <1>1, <1>3, <2>1 DEF Stories
<1>5. \A t \in Tasks : task'[t] = IF saved.task[t].status = "active"
                                  THEN [saved.task[t] EXCEPT !.status = "recovering"]
                                  ELSE saved.task[t]
      BY DEF Restart
<1>6. ASSUME NEW t \in Tasks
      PROVE  task'[t] \in TaskRecords /\ task'[t].aborted = saved.task[t].aborted
      <2>1. CASE saved.task[t].status = "active"
            <3>1. saved.task[t] \in [status : {"active", "recovering", "final"}, aborted : BOOLEAN]
                  BY <1>0, <2>1 DEF TaskRecords, NoTask
            <3> QED
                BY <1>5, <2>1, <3>1 DEF TaskRecords
      <2>2. CASE saved.task[t].status # "active"
            BY <1>0, <1>5, <2>2
      <2> QED
          BY <2>1, <2>2
<1>7. task' \in [Tasks -> TaskRecords]
      <2>1. task' = [t \in Tasks |-> task'[t]]
            BY DEF Restart
      <2> QED
          BY <1>6, <2>1
<1>8. ActiveCanBeStopped'
      BY <1>2, <1>4, <1>6 DEF ActiveCanBeStopped
<1>9. /\ timer' \in [Schedules -> {"none", "set", "cut"}]
      /\ \A s \in Schedules : timer'[s] # "none" => saved.sched[s].enabled /\ saved.sched[s].there
      BY <1>0, ArmedIsOn
<1>10. RegistryShape'
       <2>1. running' \in [Schedules -> RunCounts]
             BY <1>0, TaskRegistryAssumption DEF RunCounts
       <2> QED
           BY <1>0, <1>4, <1>7, <1>9, <2>1 DEF RegistryShape
<1>11. ASSUME NEW s \in Schedules PROVE ScheduleInv(s)'
       <2>1. InFlight(s) \in Nat /\ InFlight(s)' = 0 /\ running'[s].every = 0
             BY <1>0, InFlightIsCount DEF RegistryInv, InFlight
       <2>2. NoOrphan(s)'
             BY <1>0, <1>4, <1>9, <2>1 DEF RegistryInv, ScheduleInv, NoOrphan
       <2>3. RunsAlone(s)'
             BY <2>1 DEF RunsAlone
       <2>4. RunsNoMore(s)'
             <3>1. InFlight(s) = 0 => running[s].once = 0
                   BY DEF RegistryInv, RegistryShape, RunCounts, InFlight
             <3> QED
                 BY <1>0, <1>2, <1>4, <1>9, <2>1, <3>1 DEF RegistryInv, ScheduleInv, RunsNoMore
       <2> QED
           BY <2>2, <2>3, <2>4 DEF ScheduleInv
<1> QED
    BY <1>8, <1>10, <1>11 DEF RegistryInv

-----------------------------------------------------------------------------

\* The first state has no task, no schedule, no timer and no run.
LEMMA RegistryBegins == InitTaskRegistry => RegistryInv
<1> SUFFICES ASSUME InitTaskRegistry PROVE RegistryInv
    OBVIOUS
<1>1. RegistryShape
      BY TaskRegistryAssumption
      DEF InitTaskRegistry, RegistryShape, RunCounts, Files, Stories, TaskRecords, ScheduleRecords
<1>2. ActiveCanBeStopped
      BY DEF InitTaskRegistry, ActiveCanBeStopped, Active, NoTask
<1>3. ASSUME NEW s \in Schedules PROVE ScheduleInv(s)
      BY DEF InitTaskRegistry, ScheduleInv, NoOrphan, RunsAlone, RunsNoMore, InFlight
<1> QED
    BY <1>1, <1>2, <1>3 DEF RegistryInv

\* Every step of the registry, and a stutter, keeps the invariant.
LEMMA RegistryKeeps == RegistryInv /\ [NextTaskRegistry]_registryVars => RegistryInv'
<1> SUFFICES ASSUME RegistryInv, [NextTaskRegistry]_registryVars PROVE RegistryInv'
    OBVIOUS
<1>1. ASSUME NEW t \in Tasks, TaskStep(t) PROVE RegistryInv'
      BY <1>1, TaskStepKeeps
<1>2. ASSUME NEW s \in Schedules, ScheduleStep(s) PROVE RegistryInv'
      BY <1>2, ScheduleKeeps, UnscheduleKeeps, TimePassesKeeps, TimerFiresKeeps, NoRunnerKeeps,
         RunIsOverKeeps DEF ScheduleStep
<1>3. ASSUME NEW with \in {"abort", "run"}, RegisterHandler(with) PROVE RegistryInv'
      BY <1>3, RegisterHandlerKeeps
<1>4. CASE UnregisterHandler
      BY <1>4, UnregisterHandlerKeeps
<1>5. CASE StopSession
      BY <1>5, StopSessionKeeps
<1>6. CASE Restart
      BY <1>6, RestartKeeps
<1>7. CASE UNCHANGED registryVars
      <2>1. UNCHANGED <<handler, task, sched, timer, running, saved, story>>
            BY <1>7 DEF registryVars
      <2>2. ASSUME NEW s \in Schedules PROVE ScheduleInv(s)'
            BY <2>1, OthersKeep DEF RegistryInv
      <2> QED
          BY <2>1, <2>2, TasksKeep DEF RegistryInv, RegistryShape
<1> QED
    BY <1>1, <1>2, <1>3, <1>4, <1>5, <1>6, <1>7 DEF NextTaskRegistry

LEMMA RegistryInvariant == SpecTaskRegistry => []RegistryInv
<1> QED
    BY RegistryBegins, RegistryKeeps, PTL DEF SpecTaskRegistry

\* The types of the registry's state, and of what is counted of it.
THEOREM TaskRegistryTyped == SpecTaskRegistry => []TaskRegistryTypeOK
<1>1. RegistryInv => TaskRegistryTypeOK
      BY DEF RegistryInv, RegistryShape, RunCounts, Files, Stories, TaskRegistryTypeOK
<1> QED
    BY <1>1, RegistryInvariant, PTL

\* A task under way can be aborted, whatever was registered, aborted, lost or restarted
\* before, unless an update wrote over its abort.
THEOREM ActiveTasksCanBeStopped == SpecTaskRegistry => []ActiveCanBeStopped
<1>1. RegistryInv => ActiveCanBeStopped
      BY DEF RegistryInv
<1> QED
    BY <1>1, RegistryInvariant, PTL

\* A schedule that nobody touched while it ran does not run beside itself.
THEOREM SchedulesRunAlone == SpecTaskRegistry => []OneRunAtATime
<1>1. RegistryInv => OneRunAtATime
      <2> SUFFICES ASSUME RegistryInv, NEW s \in Schedules, InFlight(s) > 1, ~story.cause[s]
                   PROVE  FALSE
          BY DEF OneRunAtATime
      <2>1. InFlight(s) \in Nat
            BY InFlightIsCount DEF RegistryInv
      <2> QED
          BY <2>1 DEF RegistryInv, ScheduleInv, RunsAlone
<1> QED
    BY <1>1, RegistryInvariant, PTL

\* A schedule of a single run, undisturbed, runs once.
THEOREM OnceMeansOnce == SpecTaskRegistry => []OnceRunsOnce
<1>1. RegistryInv => OnceRunsOnce
      <2> SUFFICES ASSUME RegistryInv, NEW s \in Schedules, story.runs[s] > 1, ~story.cause[s]
                   PROVE  FALSE
          BY DEF OnceRunsOnce
      <2>1. story.runs[s] \in Nat
            BY DEF RegistryInv, RegistryShape, Stories
      <2> QED
          BY <2>1 DEF RegistryInv, ScheduleInv, RunsNoMore
<1> QED
    BY <1>1, RegistryInvariant, PTL

\* A schedule that was removed while nothing ran stays removed, over restarts too.
THEOREM RemovedStaysRemoved == SpecTaskRegistry => []GoneStaysGone
<1>1. RegistryInv => GoneStaysGone
      BY DEF RegistryInv, ScheduleInv, NoOrphan, GoneStaysGone
<1> QED
    BY <1>1, RegistryInvariant, PTL

-----------------------------------------------------------------------------
(* THE REVIEW TURNS, for any number of reviews, stops, plain turns and throws.   *)
(* That a review which goes on holds the session is not inductive: several       *)
(* steps delete the entry unasked, and only those that hold it, or were known    *)
(* to linger when it was taken, may be left to do so.                            *)

\* The records there are.
ReviewRecords == [stage : Stages, state : States, reviewer : BOOLEAN]
SlotRecords == [of : {"none", "plain"} \cup Reviews, streams : BOOLEAN]
TaleRecords == [stops : 0..MaxStops, plain : 0..MaxPlain, throws : 0..MaxThrows,
                early : SUBSET Reviews, met : SUBSET Reviews, told : SUBSET Reviews,
                heard : SUBSET Reviews]

\* The shape of the state.
ReviewShape ==
    /\ pending \in Reviews \cup {NoReview}
    /\ review \in [Reviews -> ReviewRecords]
    /\ stopping \in [Reviews -> Nat]
    /\ slot \in SlotRecords
    /\ tale \in TaleRecords

\* No review awaits more aborts than there were stops, and none that was not stopped.
StopsCounted ==
    \A r \in Reviews : /\ stopping[r] <= tale.stops
                       /\ stopping[r] > 0 \/ review[r].stage = "aborting" => Cancelled(r)

\* The slot is with the review that submits, and with no other; when it is free,
\* nothing streams.
SlotIsHeld ==
    /\ \A r \in Reviews :
        /\ review[r].stage = "submitting" => review[r].state \in {"completed", "cancelled"}
        /\ review[r].stage = "submitting" <=> slot.of = r
    /\ slot.of = "none" => ~slot.streams

\* While a review holds the session and did not meet one that lingered, nobody but
\* itself has the entry to delete.
EntryIsSafe ==
    pending # NoReview /\ pending \notin tale.met => Lingering \subseteq {pending}

\* A review that was stopped early stays cancelled and does not submit; one that was
\* heard is over.
EarlyAndHeard ==
    /\ \A r \in tale.early : Cancelled(r) /\ review[r].stage # "submitting"
    /\ \A r \in tale.heard : review[r].stage = "over" /\ review[r].state # "running"
    /\ tale.early \cap tale.heard = {}

ReviewInv ==
    /\ ReviewShape
    /\ StopsCounted
    /\ SlotIsHeld
    /\ EntryIsSafe
    /\ HoldsTheSession
    /\ EarlyAndHeard
    /\ EndsWithAnOutcome

-----------------------------------------------------------------------------

\* A field set to a value of its type keeps the type of the record.
LEMMA SlotSet ==
    ASSUME NEW x \in SlotRecords
    PROVE  [x EXCEPT !.streams = TRUE] \in SlotRecords
BY DEF SlotRecords

LEMMA ReviewSet ==
    ASSUME NEW f \in [Reviews -> ReviewRecords], NEW r
    PROVE  /\ \A v \in Stages : [f EXCEPT ![r].stage = v] \in [Reviews -> ReviewRecords]
           /\ \A v \in States : [f EXCEPT ![r].state = v] \in [Reviews -> ReviewRecords]
           /\ \A v \in Stages, w \in States :
                  [f EXCEPT ![r].stage = v, ![r].state = w] \in [Reviews -> ReviewRecords]
BY ZenonT(60) DEF ReviewRecords, Stages, States

LEMMA TaleSet ==
    ASSUME NEW x \in TaleRecords, NEW r \in Reviews
    PROVE  /\ [x EXCEPT !.told = @ \cup {r}] \in TaleRecords
           /\ [x EXCEPT !.heard = @ \cup {r}] \in TaleRecords
           /\ \A n \in 0..MaxStops, e \in SUBSET Reviews :
                  [x EXCEPT !.stops = n, !.early = e] \in TaleRecords
BY DEF TaleRecords

\* A review that ends or fails keeps the types of its record and of the history.
LEMMA EndsTyped ==
    ASSUME ReviewShape, NEW r \in Reviews, Ends(r)
    PROVE  review' \in [Reviews -> ReviewRecords]
BY ReviewSet, "over" \in Stages DEF Ends, ReviewShape, Stages

LEMMA FailsTyped ==
    ASSUME ReviewShape, NEW r \in Reviews, Fails(r)
    PROVE  review' \in [Reviews -> ReviewRecords] /\ tale' \in TaleRecords
<1>1. CASE Cancelled(r)
      <2>1. Ends(r) /\ UNCHANGED tale
            BY <1>1 DEF Fails
      <2> QED
          BY <2>1, EndsTyped DEF ReviewShape
<1>2. CASE ~Cancelled(r)
      <2>1. /\ review' = [review EXCEPT ![r].stage = "over", ![r].state = "failed"]
            /\ tale' = [tale EXCEPT !.told = @ \cup {r}]
            BY <1>2 DEF Fails
      <2>2. "over" \in Stages /\ "failed" \in States
            BY DEF Stages, States
      <2> QED
          BY <2>1, <2>2, ReviewSet, TaleSet DEF ReviewShape
<1> QED
    BY <1>1, <1>2

\* The first state has no review, no stop and no submission.
LEMMA ReviewsBegin == InitAgentReview => ReviewInv
BY AgentReviewAssumption, SMTT(30)
   DEF InitAgentReview, ReviewInv, ReviewShape, StopsCounted, SlotIsHeld, EntryIsSafe, HoldsTheSession,
       EarlyAndHeard, EndsWithAnOutcome, FreeSlot, ReviewRecords, SlotRecords, TaleRecords,
       Stages, States, Cancelled, Lingering

\* A review that starts takes the entry that nobody holds, and notes who lingers.
LEMMA StartKeeps ==
    ASSUME ReviewInv, NEW r \in Reviews, StartsReview(r)
    PROVE  ReviewInv'
<1> USE DEF ReviewInv
<1>1. ReviewShape'
      BY DEF StartsReview, ReviewShape, ReviewRecords, Stages, TaleRecords
<1>2. StopsCounted'
      BY DEF StartsReview, StopsCounted, Cancelled
<1>3. SlotIsHeld'
      BY DEF StartsReview, SlotIsHeld
<1>4. EntryIsSafe'
      BY DEF StartsReview, EntryIsSafe, Lingering, Cancelled
<1>5. HoldsTheSession'
      BY AgentReviewAssumption DEF StartsReview, HoldsTheSession, Cancelled
<1>6. EarlyAndHeard'
      BY DEF StartsReview, EarlyAndHeard, Cancelled
<1>7. EndsWithAnOutcome'
      BY DEF StartsReview, EndsWithAnOutcome, Cancelled
<1> QED
    BY <1>1, <1>2, <1>3, <1>4, <1>5, <1>6, <1>7 DEF ReviewInv

\* A reviewer that is made changes where its review has got to, and nothing else.
LEMMA CreatedKeeps ==
    ASSUME ReviewInv, NEW r \in Reviews, ReviewerCreated(r)
    PROVE  ReviewInv'
<1> USE DEF ReviewInv
<1>1. ReviewShape'
      BY DEF ReviewerCreated, ReviewShape, ReviewRecords
<1>2. StopsCounted'
      BY DEF ReviewerCreated, StopsCounted, Cancelled, ReviewShape
<1>3. SlotIsHeld'
      BY DEF ReviewerCreated, SlotIsHeld, ReviewShape
<1>4. EntryIsSafe'
      BY DEF ReviewerCreated, EntryIsSafe, Lingering, Cancelled, ReviewShape
<1>5. HoldsTheSession'
      BY DEF ReviewerCreated, HoldsTheSession, Cancelled, ReviewShape
<1>6. EarlyAndHeard'
      BY DEF ReviewerCreated, EarlyAndHeard, ReviewShape, ReviewRecords
<1>7. EndsWithAnOutcome'
      BY DEF ReviewerCreated, EndsWithAnOutcome, Cancelled, ReviewShape
<1> QED
    BY <1>1, <1>2, <1>3, <1>4, <1>5, <1>6, <1>7 DEF ReviewInv

\* A review that fails releases the entry: it holds it, met one that lingered, or lingers
\* itself, so that no other review held it safely.
LEMMA FailsKeeps ==
    ASSUME ReviewInv, NEW r \in Reviews, ReviewFails(r)
    PROVE  ReviewInv'
<1> USE DEF ReviewInv
<1>1. ReviewShape'
      BY DEF ReviewFails, Fails, Ends, ReviewShape, ReviewRecords, Stages, TaleRecords
<1>2. StopsCounted'
      BY SMTT(30) DEF ReviewFails, Fails, Ends, StopsCounted, Cancelled, ReviewShape, ReviewRecords,
         TaleRecords
<1>3. SlotIsHeld'
      BY DEF ReviewFails, Fails, Ends, SlotIsHeld, ReviewShape, ReviewRecords
<1>4. EntryIsSafe'
      BY DEF ReviewFails, Fails, Ends, EntryIsSafe, Lingering, Cancelled, ReviewShape,
         ReviewRecords
<1>5. HoldsTheSession'
      BY DEF ReviewFails, Fails, Ends, HoldsTheSession, Lingering, Cancelled, ReviewShape,
         EntryIsSafe, ReviewRecords, TaleRecords
<1>6. EarlyAndHeard'
      BY DEF ReviewFails, Fails, Ends, EarlyAndHeard, Cancelled, ReviewShape, ReviewRecords,
         TaleRecords
<1>7. EndsWithAnOutcome'
      BY DEF ReviewFails, Fails, Ends, EndsWithAnOutcome, Cancelled, ReviewShape, ReviewRecords,
         TaleRecords
<1> QED
    BY <1>1, <1>2, <1>3, <1>4, <1>5, <1>6, <1>7 DEF ReviewInv

\* A late abort ends a review that was cancelled.
LEMMA LateAbortKeeps ==
    ASSUME ReviewInv, NEW r \in Reviews, LateAbortReturns(r)
    PROVE  ReviewInv'
<1> USE DEF ReviewInv
<1>1. ReviewShape'
      BY DEF LateAbortReturns, Ends, ReviewShape, ReviewRecords, Stages
<1>2. StopsCounted'
      BY DEF LateAbortReturns, Ends, StopsCounted, Cancelled
<1>3. SlotIsHeld'
      BY DEF LateAbortReturns, Ends, SlotIsHeld
<1>4. EntryIsSafe'
      BY DEF LateAbortReturns, Ends, EntryIsSafe, Lingering, Cancelled
<1>5. HoldsTheSession'
      BY DEF LateAbortReturns, Ends, HoldsTheSession, Cancelled
<1>6. EarlyAndHeard'
      BY DEF LateAbortReturns, Ends, EarlyAndHeard, Cancelled
<1>7. EndsWithAnOutcome'
      BY DEF LateAbortReturns, Ends, EndsWithAnOutcome, Cancelled, StopsCounted
<1> QED
    BY <1>1, <1>2, <1>3, <1>4, <1>5, <1>6, <1>7 DEF ReviewInv

\* An answer ends a cancelled review, submits, or fails as above.
LEMMA AnswersKeeps ==
    ASSUME ReviewInv, NEW r \in Reviews, ReviewerAnswers(r)
    PROVE  ReviewInv'
<1> USE DEF ReviewInv
<1>1. ReviewShape'
      <2>1. \/ Ends(r) /\ UNCHANGED <<slot, tale>>
            \/ /\ review' = [review EXCEPT ![r].stage = "submitting", ![r].state = "completed"]
               /\ slot' = [of |-> r, streams |-> FALSE] /\ UNCHANGED tale
            \/ /\ review' = [review EXCEPT ![r].stage = "over", ![r].state = "failed"]
               /\ tale' = [tale EXCEPT !.told = @ \cup {r}] /\ UNCHANGED slot
            BY Zenon DEF ReviewerAnswers
      <2>2. review' \in [Reviews -> ReviewRecords]
            BY <2>1, SMTT(30) DEF Ends, ReviewShape, ReviewRecords, Stages, States
      <2>3. tale' \in TaleRecords
            BY <2>1, TaleSet, ZenonT(60) DEF ReviewShape
      <2>4. slot' \in SlotRecords
            <3>1. slot' = slot \/ slot' = [of |-> r, streams |-> FALSE]
                  BY <2>1, Zenon
            <3>2. [of |-> r, streams |-> FALSE] \in SlotRecords
                  BY DEF SlotRecords
            <3> QED
                BY <3>1, <3>2 DEF ReviewShape
      <2> QED
          BY <2>2, <2>3, <2>4 DEF ReviewerAnswers, ReviewShape
<1>2. StopsCounted'
      BY SMTT(30) DEF ReviewerAnswers, Ends, StopsCounted, Cancelled, ReviewShape, ReviewRecords,
         TaleRecords
<1>3. SlotIsHeld'
      BY AgentReviewAssumption DEF ReviewerAnswers, Ends, FreeSlot, SlotIsHeld, ReviewShape,
         ReviewRecords
<1>4. EntryIsSafe'
      BY DEF ReviewerAnswers, GoesOn, Ends, EntryIsSafe, Lingering, Cancelled, ReviewShape,
         ReviewRecords
<1>5. HoldsTheSession'
      BY DEF ReviewerAnswers, Ends, HoldsTheSession, Lingering, Cancelled, ReviewShape,
         EntryIsSafe, ReviewRecords, TaleRecords
<1>6. EarlyAndHeard'
      BY DEF ReviewerAnswers, Ends, FreeSlot, EarlyAndHeard, Cancelled, ReviewShape,
         ReviewRecords, TaleRecords
<1>7. EndsWithAnOutcome'
      BY AgentReviewAssumption DEF ReviewerAnswers, GoesOn, Ends, EndsWithAnOutcome,
         Cancelled, ReviewShape, ReviewRecords, TaleRecords
<1> QED
    BY <1>1, <1>2, <1>3, <1>4, <1>5, <1>6, <1>7 DEF ReviewInv

\* The turn of a review ends: it is heard or fails, and releases the entry as above.
LEMMA TurnEndsKeeps ==
    ASSUME ReviewInv, NEW r \in Reviews, ReviewedTurnEnds(r)
    PROVE  ReviewInv'
<1> USE DEF ReviewInv
<1>1. ReviewShape'
      <2>1. \/ Ends(r) /\ tale' = [tale EXCEPT !.heard = @ \cup {r}] /\ pending' = NoReview
            \/ Fails(r)
            BY Zenon DEF ReviewedTurnEnds
      <2>2. review' \in [Reviews -> ReviewRecords]
            BY <2>1, EndsTyped, FailsTyped
      <2>3. tale' \in TaleRecords
            BY <2>1, TaleSet, FailsTyped DEF ReviewShape
      <2>4. slot' \in SlotRecords
            BY DEF ReviewedTurnEnds, FreeSlot, SlotRecords
      <2>5. pending' \in Reviews \cup {NoReview}
            BY <2>1 DEF Fails, ReviewShape
      <2> QED
          BY <2>2, <2>3, <2>4, <2>5 DEF ReviewedTurnEnds, ReviewShape
<1>2. StopsCounted'
      BY SMTT(30) DEF ReviewedTurnEnds, Fails, Ends, StopsCounted, Cancelled, ReviewShape, ReviewRecords,
         TaleRecords
<1>3. SlotIsHeld'
      BY AgentReviewAssumption DEF ReviewedTurnEnds, Fails, Ends, FreeSlot, SlotIsHeld,
         ReviewShape, ReviewRecords
<1>4. EntryIsSafe'
      BY DEF ReviewedTurnEnds, Fails, Ends, EntryIsSafe, Lingering, Cancelled, ReviewShape
<1>5. HoldsTheSession'
      BY SMTT(30) DEF ReviewedTurnEnds, Fails, Ends, HoldsTheSession, Lingering, Cancelled, ReviewShape,
         EntryIsSafe, ReviewRecords, TaleRecords
<1>6. EarlyAndHeard'
      BY DEF ReviewedTurnEnds, Fails, Ends, EarlyAndHeard, Cancelled, ReviewShape, SlotIsHeld,
         ReviewRecords, TaleRecords
<1>7. EndsWithAnOutcome'
      <2> SUFFICES ASSUME NEW q \in Reviews, review'[q].stage = "over"
                   PROVE  q \in tale'.heard \cup tale'.told \/ Cancelled(q)'
          BY DEF EndsWithAnOutcome
      <2>1. CASE q # r
            <3>1. review'[q] = review[q]
                  BY <2>1 DEF ReviewedTurnEnds, Fails, Ends, ReviewShape
            <3>2. tale.heard \subseteq tale'.heard /\ tale.told \subseteq tale'.told
                  BY DEF ReviewedTurnEnds, Fails, ReviewShape, TaleRecords
            <3> QED
                BY <3>1, <3>2 DEF EndsWithAnOutcome, Cancelled
      <2>2. CASE q = r
            <3>1. CASE tale' = [tale EXCEPT !.heard = @ \cup {r}]
                  BY <2>2, <3>1 DEF ReviewShape, TaleRecords
            <3>2. CASE Fails(r) /\ Cancelled(r)
                  BY <2>2, <3>2 DEF Fails, Ends, Cancelled, ReviewShape, ReviewRecords
            <3>3. CASE Fails(r) /\ ~Cancelled(r)
                  BY <2>2, <3>3 DEF Fails, ReviewShape, TaleRecords
            <3> QED
                BY <3>1, <3>2, <3>3, Zenon DEF ReviewedTurnEnds
      <2> QED
          BY <2>1, <2>2
<1> QED
    BY <1>1, <1>2, <1>3, <1>4, <1>5, <1>6, <1>7 DEF ReviewInv

\* The abort of a cancelled review returns: it lingers, so no other held the entry safely.
LEMMA StopReturnsKeeps ==
    ASSUME ReviewInv, NEW r \in Reviews, StopReturns(r)
    PROVE  ReviewInv'
<1> USE DEF ReviewInv
<1>1. ReviewShape'
      BY DEF StopReturns, ReviewShape
<1>2. StopsCounted'
      BY DEF StopReturns, StopsCounted, Cancelled, ReviewShape, TaleRecords
<1>3. SlotIsHeld'
      BY DEF StopReturns, SlotIsHeld
<1>4. EntryIsSafe'
      BY DEF StopReturns, EntryIsSafe
<1>5. HoldsTheSession'
      BY DEF StopReturns, HoldsTheSession, Lingering, Cancelled, StopsCounted, EntryIsSafe
<1>6. EarlyAndHeard'
      BY DEF StopReturns, EarlyAndHeard, Cancelled
<1>7. EndsWithAnOutcome'
      BY DEF StopReturns, EndsWithAnOutcome, Cancelled
<1> QED
    BY <1>1, <1>2, <1>3, <1>4, <1>5, <1>6, <1>7 DEF ReviewInv

\* An abort that throws leaves the entry where it was.
LEMMA StopThrowsKeeps ==
    ASSUME ReviewInv, NEW r \in Reviews, StopThrows(r)
    PROVE  ReviewInv'
<1> USE DEF ReviewInv
<1>1. ReviewShape'
      BY AgentReviewAssumption DEF StopThrows, ReviewShape, TaleRecords
<1>2. StopsCounted'
      BY DEF StopThrows, StopsCounted, Cancelled, ReviewShape, TaleRecords
<1>3. SlotIsHeld'
      BY DEF StopThrows, SlotIsHeld
<1>4. EntryIsSafe'
      BY DEF StopThrows, EntryIsSafe, Lingering, Cancelled
<1>5. HoldsTheSession'
      BY DEF StopThrows, HoldsTheSession, Cancelled
<1>6. EarlyAndHeard'
      BY DEF StopThrows, EarlyAndHeard, Cancelled
<1>7. EndsWithAnOutcome'
      BY DEF StopThrows, EndsWithAnOutcome, Cancelled
<1> QED
    BY <1>1, <1>2, <1>3, <1>4, <1>5, <1>6, <1>7 DEF ReviewInv

\* The turns of others use the slot when it is free.
LEMMA PlainStartsKeeps ==
    ASSUME ReviewInv, PlainTurnStarts
    PROVE  ReviewInv'
<1> USE DEF ReviewInv
<1>1. ReviewShape'
      BY AgentReviewAssumption DEF PlainTurnStarts, ReviewShape, SlotRecords, TaleRecords
<1>2. StopsCounted'
      BY DEF PlainTurnStarts, StopsCounted, Cancelled
<1>3. SlotIsHeld'
      BY AgentReviewAssumption DEF PlainTurnStarts, FreeSlot, SlotIsHeld
<1>4. EntryIsSafe'
      BY DEF PlainTurnStarts, EntryIsSafe, Lingering, Cancelled
<1>5. HoldsTheSession'
      BY DEF PlainTurnStarts, HoldsTheSession, Cancelled
<1>6. EarlyAndHeard'
      BY DEF PlainTurnStarts, EarlyAndHeard, Cancelled
<1>7. EndsWithAnOutcome'
      BY DEF PlainTurnStarts, EndsWithAnOutcome, Cancelled
<1> QED
    BY <1>1, <1>2, <1>3, <1>4, <1>5, <1>6, <1>7 DEF ReviewInv

\* A prompt that is prepared keeps the slot.
LEMMA StreamsKeeps ==
    ASSUME ReviewInv, TurnStreams
    PROVE  ReviewInv'
<1> USE DEF ReviewInv
<1>1. ReviewShape'
      BY SlotSet DEF TurnStreams, ReviewShape
<1>2. StopsCounted'
      BY DEF TurnStreams, StopsCounted, Cancelled
<1>3. SlotIsHeld'
      BY DEF TurnStreams, FreeSlot, SlotIsHeld, ReviewShape, SlotRecords
<1>4. EntryIsSafe'
      BY DEF TurnStreams, EntryIsSafe, Lingering, Cancelled
<1>5. HoldsTheSession'
      BY DEF TurnStreams, HoldsTheSession, Cancelled
<1>6. EarlyAndHeard'
      BY DEF TurnStreams, EarlyAndHeard, Cancelled
<1>7. EndsWithAnOutcome'
      BY DEF TurnStreams, EndsWithAnOutcome, Cancelled
<1> QED
    BY <1>1, <1>2, <1>3, <1>4, <1>5, <1>6, <1>7 DEF ReviewInv

\* The end of another's turn frees the slot no review had.
LEMMA PlainEndsKeeps ==
    ASSUME ReviewInv, PlainTurnEnds
    PROVE  ReviewInv'
<1> USE DEF ReviewInv
<1>1. ReviewShape'
      BY DEF PlainTurnEnds, FreeSlot, ReviewShape, SlotRecords
<1>2. StopsCounted'
      BY DEF PlainTurnEnds, StopsCounted, Cancelled
<1>3. SlotIsHeld'
      BY AgentReviewAssumption DEF PlainTurnEnds, FreeSlot, SlotIsHeld
<1>4. EntryIsSafe'
      BY DEF PlainTurnEnds, EntryIsSafe, Lingering, Cancelled
<1>5. HoldsTheSession'
      BY DEF PlainTurnEnds, HoldsTheSession, Cancelled
<1>6. EarlyAndHeard'
      BY DEF PlainTurnEnds, EarlyAndHeard, Cancelled
<1>7. EndsWithAnOutcome'
      BY DEF PlainTurnEnds, EndsWithAnOutcome, Cancelled
<1> QED
    BY <1>1, <1>2, <1>3, <1>4, <1>5, <1>6, <1>7 DEF ReviewInv

\* A stop cancels the review that holds the session; it keeps the entry while its abort
\* is under way.
LEMMA StopsReviewKeeps ==
    ASSUME ReviewInv, StopsReview
    PROVE  ReviewInv'
<1> USE DEF ReviewInv
<1>1. ReviewShape'
      <2>1. tale.stops + 1 \in 0..MaxStops /\ tale.early \cup {pending} \in SUBSET Reviews
            BY AgentReviewAssumption DEF StopsReview, ReviewShape, TaleRecords
      <2>2. tale' \in TaleRecords
            BY <2>1, TaleSet DEF StopsReview, ReviewShape, TaleRecords
      <2>3. review' \in [Reviews -> ReviewRecords]
            BY ReviewSet DEF StopsReview, ReviewShape, States
      <2>4. stopping' \in [Reviews -> Nat]
            BY DEF StopsReview, ReviewShape
      <2> QED
          BY <2>2, <2>3, <2>4 DEF StopsReview, ReviewShape
<1>2. StopsCounted'
      BY DEF StopsReview, StopsCounted, Cancelled, ReviewShape, TaleRecords
<1>3. SlotIsHeld'
      BY DEF StopsReview, SlotIsHeld
<1>4. EntryIsSafe'
      BY DEF StopsReview, EntryIsSafe, Lingering, Cancelled, ReviewShape
<1>5. HoldsTheSession'
      BY DEF StopsReview, HoldsTheSession, Cancelled, ReviewShape
<1>6. EarlyAndHeard'
      BY DEF StopsReview, EarlyAndHeard, Cancelled, ReviewShape, SlotIsHeld
<1>7. EndsWithAnOutcome'
      BY DEF StopsReview, EndsWithAnOutcome, Cancelled
<1> QED
    BY <1>1, <1>2, <1>3, <1>4, <1>5, <1>6, <1>7 DEF ReviewInv

\* A stop of the turn that has the slot ends it, for a review as its own end would.
LEMMA StopsTurnKeeps ==
    ASSUME ReviewInv, StopsTurn
    PROVE  ReviewInv'
<1> USE DEF ReviewInv
<1>1. ReviewShape'
      <2>1. slot' \in SlotRecords
            BY DEF StopsTurn, FreeSlot, SlotRecords
      <2>2. slot.of # "plain" => slot.of \in Reviews
            BY DEF StopsTurn, SlotIsHeld, ReviewShape, SlotRecords, FreeSlot
      <2>3. \/ UNCHANGED <<review, tale>>
            \/ /\ slot.of # "plain" /\ Ends(slot.of)
               /\ tale' = [tale EXCEPT !.heard = @ \cup {slot.of}]
            \/ slot.of # "plain" /\ Fails(slot.of)
            BY Zenon DEF StopsTurn
      <2>4. review' \in [Reviews -> ReviewRecords]
            BY <2>2, <2>3, EndsTyped, FailsTyped DEF ReviewShape
      <2>5. tale' \in TaleRecords
            BY <2>2, <2>3, TaleSet, FailsTyped DEF ReviewShape
      <2> QED
          BY <2>1, <2>4, <2>5 DEF StopsTurn, Fails, ReviewShape
<1>2. StopsCounted'
      BY DEF StopsTurn, Fails, Ends, StopsCounted, Cancelled, ReviewShape, ReviewRecords,
         TaleRecords
<1>3. SlotIsHeld'
      BY AgentReviewAssumption DEF StopsTurn, Fails, Ends, FreeSlot, SlotIsHeld, ReviewShape,
         ReviewRecords
<1>4. EntryIsSafe'
      BY DEF StopsTurn, Fails, EntryIsSafe
<1>5. HoldsTheSession'
      BY DEF StopsTurn, Fails, Ends, HoldsTheSession, Cancelled, ReviewShape, ReviewRecords,
         TaleRecords
<1>6. EarlyAndHeard'
      BY DEF StopsTurn, Fails, Ends, EarlyAndHeard, Cancelled, ReviewShape, SlotIsHeld,
         ReviewRecords, SlotRecords, TaleRecords
<1>7. EndsWithAnOutcome'
      BY DEF StopsTurn, Fails, Ends, EndsWithAnOutcome, Cancelled, ReviewShape, ReviewRecords,
         TaleRecords
<1> QED
    BY <1>1, <1>2, <1>3, <1>4, <1>5, <1>6, <1>7 DEF ReviewInv

-----------------------------------------------------------------------------

\* Every step of the component, and a stutter, keeps the invariant.
LEMMA ReviewsKeep == ReviewInv /\ [NextAgentReview]_reviewVars => ReviewInv'
<1> SUFFICES ASSUME ReviewInv, [NextAgentReview]_reviewVars PROVE ReviewInv'
    OBVIOUS
<1>1. ASSUME NEW r \in Reviews, StartsReview(r) PROVE ReviewInv'
      BY <1>1, StartKeeps
<1>2. ASSUME NEW r \in Reviews, ReviewStep(r) PROVE ReviewInv'
      BY <1>2, CreatedKeeps, FailsKeeps, LateAbortKeeps, AnswersKeeps, TurnEndsKeeps,
         StopReturnsKeeps, StopThrowsKeeps DEF ReviewStep
<1>3. CASE PlainTurnStarts
      BY <1>3, PlainStartsKeeps
<1>4. CASE TurnStep
      BY <1>4, StreamsKeeps, PlainEndsKeeps DEF TurnStep
<1>5. CASE StopsReview
      BY <1>5, StopsReviewKeeps
<1>6. CASE StopsTurn
      BY <1>6, StopsTurnKeeps
<1>7. CASE UNCHANGED reviewVars
      BY <1>7, SMTT(30)
         DEF reviewVars, ReviewInv, ReviewShape, StopsCounted, SlotIsHeld, EntryIsSafe, HoldsTheSession,
             EarlyAndHeard, EndsWithAnOutcome, Cancelled, Lingering
<1> QED
    BY <1>1, <1>2, <1>3, <1>4, <1>5, <1>6, <1>7 DEF NextAgentReview

LEMMA ReviewInvariant == SpecAgentReview => []ReviewInv
<1> QED
    BY ReviewsBegin, ReviewsKeep, PTL DEF SpecAgentReview

\* The types: above all, the slot is with a review only while that review submits.
THEOREM AgentReviewTyped == SpecAgentReview => []AgentReviewTypeOK
<1>1. ReviewInv => AgentReviewTypeOK
      BY AgentReviewAssumption, SMTT(30)
         DEF ReviewInv, ReviewShape, ReviewRecords, SlotRecords, TaleRecords, StopsCounted, SlotIsHeld,
             AgentReviewTypeOK
<1> QED
    BY <1>1, ReviewInvariant, PTL

\* A review that goes on, and met no lingering one at its start, has the entry that
\* keeps prompts away from the session.
THEOREM ReviewsHoldTheSession == SpecAgentReview => []HoldsTheSession
<1>1. ReviewInv => HoldsTheSession
      BY DEF ReviewInv
<1> QED
    BY <1>1, ReviewInvariant, PTL

\* A review stopped before its answer never speaks in the reviewed session.
THEOREM StoppedReviewsAreSilent == SpecAgentReview => []StoppedIsSilent
<1>1. ReviewInv => StoppedIsSilent
      BY DEF ReviewInv, ReviewShape, ReviewRecords, SlotRecords, TaleRecords, SlotIsHeld,
             EarlyAndHeard, StoppedIsSilent
<1> QED
    BY <1>1, ReviewInvariant, PTL

\* A review that is over was heard, told to have failed, or stopped.
THEOREM ReviewsEndWithAnOutcome == SpecAgentReview => []EndsWithAnOutcome
<1>1. ReviewInv => EndsWithAnOutcome
      BY DEF ReviewInv
<1> QED
    BY <1>1, ReviewInvariant, PTL

-----------------------------------------------------------------------------
(* SUBAGENTS, for any number of runs, limits and upsets.  That one run at a time *)
(* works in a thread follows from the order of its line, which the code keeps     *)
(* nowhere: each run only knows the one before it, and the chain only the last.   *)
(* The proof numbers the runs of each line, and what it says of a number is that  *)
(* a run with a smaller one in line still waits for somebody.                     *)

\* The values of the variables.
RunRecords == [stage : RunStages, of : Runs \cup {Nobody}, prev : Runs \cup {Nobody, Gate},
               signal : BOOLEAN, told : BOOLEAN, right : BOOLEAN]
ThreadRecords == [status : {"none", "open", "closed"}, child : BOOLEAN,
                  last : {"pending"} \cup Outcomes]
Records == [deferred : {"none", "pending"} \cup Outcomes,
            store : {"none", "pending"} \cup Outcomes,
            task : {"none", "active", "recovering", "aborted"}]
Accounts == [upsets : 0..MaxUpsets, stopped : SUBSET Runs, gone : SUBSET Runs,
             late : SUBSET Runs, torn : SUBSET Runs, stuck : SUBSET Runs]
Disks == [deferred : [Runs -> {"none", "pending"} \cup Outcomes],
          store : [Runs -> {"none", "pending"} \cup Outcomes],
          thread : [Runs -> ThreadRecords]]

Shape ==
    /\ run \in [Runs -> RunRecords]
    /\ thread \in [Runs -> ThreadRecords]
    /\ chain \in [Runs -> Runs \cup {Nobody, Gate}]
    /\ copying \subseteq Runs
    /\ record \in [Runs -> Records]
    /\ disk \in Disks
    /\ account \in Accounts

-----------------------------------------------------------------------------
(* The lines.                                                                *)

\* Runs that have been taken up and not settled.
Unsettled(r) == Flying(r) \/ run[r].stage = "ending"

\* The end of each line is in it, and a line with somebody in it has an end.
Chained ==
    /\ \A t \in Runs : chain[t] \in Runs => Flying(chain[t]) /\ run[chain[t]].of = t
    /\ \A r \in Runs : Unsettled(r) => run[r].of \in Runs
    /\ \A r \in Runs : Flying(r) => chain[run[r].of] \in Runs

\* The numbers of a line: the last run has the greatest, and one with a smaller number
\* before it waits for a run whose number is not below that.
InOrder(f) ==
    \A p, q \in Runs :
        Flying(p) /\ Flying(q) /\ run[p].of = run[q].of /\ p # q =>
            /\ f[p] # f[q]
            /\ q # chain[run[q].of] => f[q] < f[chain[run[q].of]]
            /\ f[p] < f[q] => /\ run[q].stage = "queued" /\ run[q].prev \in Runs
                              /\ Flying(run[q].prev) /\ run[run[q].prev].of = run[q].of
                              /\ f[p] <= f[run[q].prev]
Line == \E f \in [Runs -> Nat] : InOrder(f)

\* Who is in the line of a thread that is copied waits, the first for the copy.
Copied ==
    /\ \A t \in copying : t \in Runs /\ chain[t] # Nobody
    /\ \A q \in Runs : Flying(q) /\ run[q].of \in copying =>
        /\ run[q].stage = "queued" /\ run[q].prev \in Runs \cup {Gate}
        /\ run[q].prev \in Runs => Flying(run[q].prev) /\ run[run[q].prev].of = run[q].of

Lines == Chained /\ Line /\ Copied

-----------------------------------------------------------------------------
(* The records.                                                              *)

\* A run under way is pending in both stores, or aborted in both by a stop that its task
\* knows; the two say the same of a run whose outcome was not lost, unless its deferred
\* result never got to the disk, and an outcome of one that is over.
Agrees(r) ==
    /\ run[r].stage = "new" => record[r] = NewRecord /\ r \notin account.stopped
    /\ Unsettled(r) =>
           /\ record[r].task \in {"active", "aborted"}
           /\ record[r].deferred \in {"pending", "aborted"}
           /\ record[r].store = record[r].deferred
           /\ record[r].deferred = "aborted" \/ r \in account.stopped => record[r].task = "aborted"
    /\ r \in account.torn => run[r].stage \in {"over", "lost"}
    /\ r \notin account.torn =>
           /\ record[r].deferred # "none" => record[r].store = record[r].deferred
           /\ run[r].stage = "over" => record[r].deferred \in Outcomes

\* The files say what the stores said before; none says that a stopped run succeeded.
Trails(r) ==
    /\ disk.deferred[r] \in {"none", "pending", record[r].deferred}
    /\ record[r].deferred = "none" => disk.deferred[r] = "none"
    /\ record[r].store = "none" => disk.store[r] = "none"
    /\ record[r].store = "pending" => disk.store[r] \in {"none", "pending"}
    /\ r \in account.stopped =>
           "resolved" \notin {record[r].deferred, record[r].store, disk.deferred[r], disk.store[r]}

ToldAlike == \A r \in Runs : Agrees(r) /\ Trails(r)

-----------------------------------------------------------------------------
(* The threads.                                                              *)

\* A thread that is or was there has had its first turn, as has one that runs of others
\* stand in line for.
Begun ==
    /\ \A t \in Runs : thread[t].status # "none" \/ t \in account.gone =>
                           run[t].stage \notin {"new", "queued"}
    /\ \A r \in Runs : Unsettled(r) /\ (run[r].stage # "queued" \/ run[r].of # r) =>
                           run[run[r].of].stage \notin {"new", "queued"}

\* Nobody is in the line of a thread that is closed.
ClosedIsQuiet ==
    \A r \in Runs : Unsettled(r) => thread[run[r].of].status # "closed"

\* What the file of the threads says would be as good: of those that have begun, of those
\* that were put away, and of those that are closed.
Filed ==
    \A t \in Runs :
        /\ disk.thread[t].status # "none" => run[t].stage \notin {"new", "queued"}
        /\ t \in account.gone \ account.late => disk.thread[t].status = "none"
        /\ disk.thread[t].status = "closed" /\ t \notin account.stuck
               => disk.thread[t].last # "pending"

\* What holds of the threads in memory.
Threaded ==
    /\ Begun
    /\ ClosedIsQuiet
    /\ PutAwayStaysAway
    /\ IdleIsSettled

SubagentInv ==
    /\ Shape
    /\ Lines
    /\ ToldAlike
    /\ Threaded
    /\ Filed

-----------------------------------------------------------------------------
(* What the steps do to the lines.                                           *)

Same(q) == /\ run'[q].stage = run[q].stage
           /\ run'[q].of = run[q].of /\ run'[q].prev = run[q].prev
OthersSame(r) == \A q \in Runs \ {r} : Same(q)

\* A run at work, or whose turn it is, is the first of its line.
LEMMA HeadOfLine ==
    ASSUME NEW f \in [Runs -> Nat], InOrder(f), NEW r \in Runs, NEW p \in Runs,
           run[r].stage \in InHand \/ Due(r),
           Flying(p), run[p].of = run[r].of, p # r
    PROVE  f[r] < f[p]
<1>1. Flying(r)
      BY DEF Due, Flying, InLine
<1>2. CASE run[r].stage \in InHand
      <2>1. run[r].stage # "queued"
            BY <1>2 DEF InHand
      <2> QED
          BY <1>1, <2>1 DEF InOrder
<1>3. CASE Due(r)
      <2>1. ~(run[r].prev \in Runs /\ Flying(run[r].prev))
            BY <1>3, SubagentAssumption DEF Due, Flying, InLine, InHand
      <2> QED
          BY <1>1, <2>1 DEF InOrder
<1> QED
    BY <1>2, <1>3

\* A step that leaves who stands where alone leaves the lines alone.
LEMMA SameLines ==
    ASSUME Lines, \A q \in Runs : Same(q), UNCHANGED <<chain, copying>>
    PROVE  Lines'
<1>1. \A q \in Runs : /\ Flying(q)' = Flying(q) /\ Unsettled(q)' = Unsettled(q)
                      /\ run'[q].of = run[q].of
      BY DEF Same, Flying, Unsettled
<1>2. Chained'
      BY <1>1 DEF Lines, Chained
<1>3. Line'
      <2>1. PICK f \in [Runs -> Nat] : InOrder(f)
            BY DEF Lines, Line
      <2>2. InOrder(f)'
            BY <1>1, <2>1 DEF InOrder, Same
      <2> QED
          BY <2>2 DEF Line
<1>4. Copied'
      BY <1>1 DEF Lines, Copied, Same
<1> QED
    BY <1>2, <1>3, <1>4 DEF Lines

\* The first of a line goes on with its work.
LEMMA MovesInLine ==
    ASSUME Lines, NEW r \in Runs, run[r].stage \in InHand \/ Due(r), OthersSame(r),
           run'[r].stage \in InHand, run'[r].of = run[r].of, run'[r].prev = run[r].prev,
           UNCHANGED <<chain, copying>>
    PROVE  Lines'
<1>1. Flying(r)
      BY DEF Due, Flying, InLine
<1>2. /\ \A q \in Runs : /\ Flying(q)' = Flying(q) /\ Unsettled(q)' = Unsettled(q)
                         /\ run'[q].of = run[q].of /\ run'[q].prev = run[q].prev
      /\ \A q \in Runs \ {r} : run'[q].stage = run[q].stage
      BY <1>1 DEF OthersSame, Same, Flying, InLine, InHand, Unsettled
<1>3. Chained'
      BY <1>2 DEF Lines, Chained
<1>4. Line'
      <2>1. PICK f \in [Runs -> Nat] : InOrder(f)
            BY DEF Lines, Line
      <2>2. \A p \in Runs : Flying(p) /\ run[p].of = run[r].of /\ p # r => f[r] < f[p]
            BY <2>1, HeadOfLine
      <2>3. InOrder(f)'
            BY <1>2, <2>1, <2>2 DEF InOrder
      <2> QED
          BY <2>3 DEF Line
<1>5. Copied'
      <2>1. run[r].of \notin copying
            BY <1>1, SubagentAssumption DEF Lines, Copied, Due, InHand, Flying, InLine
      <2> QED
          BY <1>2, <2>1 DEF Lines, Copied
<1> QED
    BY <1>3, <1>4, <1>5 DEF Lines

\* The first of a line leaves it.
LEMMA ReturnsFromLine ==
    ASSUME Lines, NEW r \in Runs, run[r].stage \in InHand \/ Due(r), OthersSame(r),
           run'[r].stage = "ending", run'[r].of = run[r].of,
           chain \in [Runs -> Runs \cup {Nobody, Gate}], chain' = Unchained(r), UNCHANGED copying
    PROVE  Lines'
<1>1. Flying(r) /\ run[r].of \in Runs
      BY DEF Due, Flying, InLine, Lines, Chained, Unsettled
<1>2. /\ ~Flying(r)' /\ Unsettled(r)' /\ run'[r].of = run[r].of
      /\ \A q \in Runs \ {r} : /\ Flying(q)' = Flying(q) /\ Unsettled(q)' = Unsettled(q)
                               /\ run'[q].of = run[q].of /\ run'[q].prev = run[q].prev
                               /\ run'[q].stage = run[q].stage
      BY DEF OthersSame, Same, Flying, InLine, InHand, Unsettled
<1>3. /\ \A t \in Runs : chain'[t] = chain[t] \/ (t = run[r].of /\ chain[t] = r /\ chain'[t] = Nobody)
      /\ chain[run[r].of] = r => chain'[run[r].of] = Nobody
      BY <1>1 DEF Unchained
<1>4. PICK f \in [Runs -> Nat] : InOrder(f)
      BY DEF Lines, Line
<1>5. \A p \in Runs : Flying(p) /\ run[p].of = run[r].of /\ p # r => f[r] < f[p]
      BY <1>4, HeadOfLine
<1>6. chain[run[r].of] = r => \A p \in Runs : Flying(p) /\ p # r => run[p].of # run[r].of
      <2> SUFFICES ASSUME chain[run[r].of] = r, NEW p \in Runs, Flying(p), p # r,
                          run[p].of = run[r].of
                   PROVE  FALSE
          OBVIOUS
      <2>1. f[r] < f[p] /\ f[p] < f[r] /\ f[r] \in Nat /\ f[p] \in Nat
            BY <1>1, <1>4, <1>5 DEF InOrder
      <2> QED
          BY <2>1
<1>7. Chained'
      <2>1. ASSUME NEW t \in Runs, chain'[t] \in Runs
            PROVE  (Flying(chain[t]) /\ run[chain[t]].of = t)'
            <3>1. chain'[t] = chain[t] /\ Flying(chain[t]) /\ run[chain[t]].of = t
                  BY <1>3, <2>1, SubagentAssumption DEF Lines, Chained
            <3>2. chain[t] # r
                  BY <1>3, <2>1, <3>1, SubagentAssumption
            <3> QED
                BY <1>2, <2>1, <3>1, <3>2
      <2>2. ASSUME NEW q \in Runs, Unsettled(q)' PROVE run'[q].of \in Runs
            BY <1>1, <1>2, <2>2 DEF Lines, Chained
      <2>3. ASSUME NEW q \in Runs, Flying(q)' PROVE chain'[run'[q].of] \in Runs
            <3>1. q # r /\ Flying(q) /\ run[q].of \in Runs
                  BY <1>2, <2>3 DEF Lines, Chained, Unsettled
            <3> QED
                BY <1>2, <1>3, <1>6, <3>1 DEF Lines, Chained
      <2> QED
          BY <2>1, <2>2, <2>3 DEF Chained
<1>8. InOrder(f)'
      <2> SUFFICES ASSUME NEW p \in Runs, NEW q \in Runs, Flying(p)', Flying(q)',
                          run'[p].of = run'[q].of, p # q
                   PROVE  (/\ f[p] # f[q]
                           /\ q # chain[run[q].of] => f[q] < f[chain[run[q].of]]
                           /\ f[p] < f[q] => /\ run[q].stage = "queued" /\ run[q].prev \in Runs
                                             /\ Flying(run[q].prev)
                                             /\ run[run[q].prev].of = run[q].of
                                             /\ f[p] <= f[run[q].prev])'
          BY DEF InOrder
      <2>1. p # r /\ q # r /\ Flying(p) /\ Flying(q) /\ run[p].of = run[q].of
            BY <1>2
      <2>2. /\ f[p] # f[q]
            /\ q # chain[run[q].of] => f[q] < f[chain[run[q].of]]
            /\ f[p] < f[q] => /\ run[q].stage = "queued" /\ run[q].prev \in Runs
                              /\ Flying(run[q].prev) /\ run[run[q].prev].of = run[q].of
                              /\ f[p] <= f[run[q].prev]
            BY <1>4, <2>1 DEF InOrder
      <2>3. chain'[run'[q].of] = chain[run[q].of]
            BY <1>2, <1>3, <1>6, <2>1 DEF Lines, Chained, Unsettled
      <2>4. f[p] < f[q] => run[q].prev # r
            <3> SUFFICES ASSUME f[p] < f[q], run[q].prev = r PROVE FALSE
                OBVIOUS
            <3>1. f[p] <= f[r] /\ run[p].of = run[r].of
                  BY <2>1, <2>2
            <3>2. f[r] < f[p] /\ f[r] \in Nat /\ f[p] \in Nat
                  BY <1>5, <2>1, <3>1
            <3> QED
                BY <3>1, <3>2
      <2> QED
          BY <1>2, <2>1, <2>2, <2>3, <2>4
<1>9. Copied'
      <2>1. run[r].of \notin copying
            BY <1>1, SubagentAssumption DEF Lines, Copied, Due, InHand, Flying, InLine
      <2>2. ASSUME NEW q \in Runs, Flying(q)', run'[q].of \in copying
            PROVE  (/\ run[q].stage = "queued" /\ run[q].prev \in Runs \cup {Gate}
                    /\ run[q].prev \in Runs =>
                           Flying(run[q].prev) /\ run[run[q].prev].of = run[q].of)'
            <3>1. q # r /\ Flying(q) /\ run[q].of \in copying /\ run[q].of # run[r].of
                  BY <1>2, <2>1, <2>2
            <3>2. /\ run[q].stage = "queued" /\ run[q].prev \in Runs \cup {Gate}
                  /\ run[q].prev \in Runs => Flying(run[q].prev) /\ run[run[q].prev].of = run[q].of
                  BY <3>1 DEF Lines, Copied
            <3>3. run[q].prev \in Runs => run[q].prev # r
                  BY <3>1, <3>2
            <3> QED
                BY <1>2, <3>1, <3>2, <3>3
      <2>3. \A t \in copying' : t \in Runs /\ chain'[t] # Nobody
            BY <1>3, <2>1 DEF Lines, Copied
      <2> QED
          BY <2>2, <2>3 DEF Copied
<1> QED
    BY <1>7, <1>8, <1>9 DEF Lines, Line

\* A settled run stood in no line.
LEMMA SettlesInLine ==
    ASSUME Lines, NEW r \in Runs, run[r].stage \in {"ending", "new"}, OthersSame(r),
           run'[r].stage = "over",
           UNCHANGED <<chain, copying>>
    PROVE  Lines'
<1>1. /\ ~Flying(r) /\ ~Flying(r)' /\ ~Unsettled(r)'
      /\ \A q \in Runs \ {r} : /\ Flying(q)' = Flying(q) /\ Unsettled(q)' = Unsettled(q)
                               /\ run'[q].of = run[q].of /\ run'[q].prev = run[q].prev
                               /\ run'[q].stage = run[q].stage
      BY DEF OthersSame, Same, Flying, InLine, InHand, Unsettled
<1>2. Chained'
      BY <1>1 DEF Lines, Chained
<1>3. Line'
      <2>1. PICK f \in [Runs -> Nat] : InOrder(f)
            BY DEF Lines, Line
      <2>2. InOrder(f)'
            BY <1>1, <2>1 DEF InOrder
      <2> QED
          BY <2>2 DEF Line
<1>4. Copied'
      BY <1>1 DEF Lines, Copied
<1> QED
    BY <1>2, <1>3, <1>4 DEF Lines

\* A run that joins gets a number above that of the one that was last.
LEMMA JoinsLine ==
    ASSUME Lines, NEW r \in Runs, NEW t \in Runs, run[r].stage = "new", OthersSame(r),
           run'[r].stage = "queued", run'[r].of = t, run'[r].prev = chain[t],
           chain \in [Runs -> Runs \cup {Nobody, Gate}], chain' = [chain EXCEPT ![t] = r],
           UNCHANGED copying
    PROVE  Lines'
<1>1. /\ ~Flying(r) /\ Flying(r)'
      /\ \A q \in Runs \ {r} : /\ Flying(q)' = Flying(q) /\ Unsettled(q)' = Unsettled(q)
                               /\ run'[q].of = run[q].of /\ run'[q].prev = run[q].prev
                               /\ run'[q].stage = run[q].stage
      BY DEF OthersSame, Same, Flying, InLine, InHand, Unsettled
<1>2. chain'[t] = r /\ \A u \in Runs \ {t} : chain'[u] = chain[u]
      OBVIOUS
<1>3. chain[t] \in Runs => Flying(chain[t]) /\ run[chain[t]].of = t /\ chain[t] # r
      BY <1>1 DEF Lines, Chained
<1>4. \A q \in Runs : Flying(q) /\ run[q].of = t => chain[t] \in Runs
      BY DEF Lines, Chained
<1>5. Chained'
      <2>1. ASSUME NEW u \in Runs, chain'[u] \in Runs
            PROVE  (Flying(chain[u]) /\ run[chain[u]].of = u)'
            BY <1>1, <1>2, <2>1 DEF Lines, Chained
      <2>2. ASSUME NEW q \in Runs, Unsettled(q)' PROVE run'[q].of \in Runs
            BY <1>1, <2>2 DEF Lines, Chained
      <2>3. ASSUME NEW q \in Runs, Flying(q)' PROVE chain'[run'[q].of] \in Runs
            BY <1>1, <1>2, <2>3 DEF Lines, Chained, Unsettled
      <2> QED
          BY <2>1, <2>2, <2>3 DEF Chained
<1>6. PICK f \in [Runs -> Nat] : InOrder(f)
      BY DEF Lines, Line
<1>7. PICK n \in Nat : chain[t] \in Runs => f[chain[t]] < n
      <2>1. CASE chain[t] \in Runs
            <3>1. f[chain[t]] \in Nat
                  BY <2>1
            <3>2. f[chain[t]] + 1 \in Nat /\ f[chain[t]] < f[chain[t]] + 1
                  BY <3>1
            <3> QED
                BY <3>2
      <2> QED
          BY <2>1
<1> DEFINE g == [f EXCEPT ![r] = n]
<1>8. g \in [Runs -> Nat] /\ g[r] = n /\ \A q \in Runs \ {r} : g[q] = f[q]
      OBVIOUS
<1> HIDE DEF g
<1>9. \A q \in Runs : Flying(q) /\ run[q].of = t => f[q] <= f[chain[t]] /\ f[q] < n
      <2> SUFFICES ASSUME NEW q \in Runs, Flying(q), run[q].of = t
                   PROVE  f[q] <= f[chain[t]] /\ f[q] < n
          OBVIOUS
      <2>1. chain[t] \in Runs /\ (q = chain[t] \/ f[q] < f[chain[t]])
            BY <1>3, <1>4, <1>6 DEF InOrder
      <2>2. f[q] \in Nat /\ f[chain[t]] \in Nat
            BY <2>1
      <2> QED
          BY <1>7, <2>1, <2>2
<1>10. InOrder(g)'
      <2> SUFFICES ASSUME NEW p \in Runs, NEW q \in Runs, Flying(p)', Flying(q)',
                          run'[p].of = run'[q].of, p # q
                   PROVE  (/\ g[p] # g[q]
                           /\ q # chain[run[q].of] => g[q] < g[chain[run[q].of]]
                           /\ g[p] < g[q] => /\ run[q].stage = "queued" /\ run[q].prev \in Runs
                                             /\ Flying(run[q].prev)
                                             /\ run[run[q].prev].of = run[q].of
                                             /\ g[p] <= g[run[q].prev])'
          BY DEF InOrder
      <2>1. CASE q = r
            <3>1. Flying(p) /\ run[p].of = t /\ chain[t] \in Runs /\ g[p] = f[p]
                  BY <1>1, <1>4, <1>8, <2>1
            <3>2. g[p] < n /\ f[p] <= f[chain[t]] /\ g[chain[t]] = f[chain[t]]
                  BY <1>3, <1>8, <1>9, <3>1
            <3>3. chain'[run'[q].of] = q /\ run'[q].prev = chain[t] /\ run'[q].of = t
                  BY <1>2, <2>1
            <3>4. PICK c \in Runs : c = chain[t] /\ Flying(c)' /\ run'[c].of = t
                  BY <1>1, <1>3, <3>1
            <3>5. g[p] \in Nat /\ g[q] = n
                  BY <1>8, <2>1
            <3>6. g[p] # g[q] /\ g[p] <= g[chain[t]]
                  BY <3>1, <3>2, <3>5
            <3> QED
                BY <2>1, <3>1, <3>3, <3>4, <3>6
      <2>2. CASE p = r
            <3>1. Flying(q) /\ run[q].of = t /\ g[q] = f[q] /\ g[p] = n
                  BY <1>1, <1>8, <2>2
            <3>2. g[q] < n /\ g[q] \in Nat
                  BY <1>8, <1>9, <3>1
            <3>3. chain'[run'[q].of] = r /\ g[r] = n
                  BY <1>1, <1>2, <1>8, <2>2
            <3> QED
                BY <3>1, <3>2, <3>3
      <2>3. CASE p # r /\ q # r
            <3>1. Flying(p) /\ Flying(q) /\ run[p].of = run[q].of /\ run[q].of \in Runs
                  BY <1>1, <2>3 DEF Lines, Chained, Unsettled
            <3>2. /\ f[p] # f[q]
                  /\ q # chain[run[q].of] => f[q] < f[chain[run[q].of]]
                  /\ f[p] < f[q] => /\ run[q].stage = "queued" /\ run[q].prev \in Runs
                                    /\ Flying(run[q].prev) /\ run[run[q].prev].of = run[q].of
                                    /\ f[p] <= f[run[q].prev]
                  BY <1>6, <3>1 DEF InOrder
            <3>3. g[p] = f[p] /\ g[q] = f[q]
                  BY <1>8, <2>3
            <3>4. CASE run[q].of = t
                  <4>1. chain'[run'[q].of] = r /\ g[q] < g[r]
                        BY <1>1, <1>2, <1>8, <1>9, <2>3, <3>1, <3>3, <3>4
                  <4> QED
                      BY <1>1, <1>8, <2>3, <3>2, <3>3, <4>1
            <3>5. CASE run[q].of # t
                  <4>1. chain'[run'[q].of] = chain[run[q].of] /\ chain[run[q].of] # r
                        /\ chain[run[q].of] \in Runs
                        BY <1>1, <1>2, <2>3, <3>1, <3>5 DEF Lines, Chained
                  <4> QED
                      BY <1>1, <1>8, <2>3, <3>2, <3>3, <4>1
            <3> QED
                BY <3>4, <3>5
      <2> QED
          BY <2>1, <2>2, <2>3
<1>11. Copied'
      <2>3. \A u \in copying' : u \in Runs /\ chain'[u] # Nobody
            BY <1>2, SubagentAssumption DEF Lines, Copied
      <2> SUFFICES ASSUME NEW q \in Runs, Flying(q)', run'[q].of \in copying'
                   PROVE  (/\ run[q].stage = "queued" /\ run[q].prev \in Runs \cup {Gate}
                           /\ run[q].prev \in Runs =>
                                  Flying(run[q].prev) /\ run[run[q].prev].of = run[q].of)'
          BY <2>3 DEF Copied
      <2>1. CASE q = r
            BY <1>1, <1>3, <2>1 DEF Lines, Copied
      <2>2. CASE q # r
            <3>1. /\ run[q].stage = "queued" /\ run[q].prev \in Runs \cup {Gate}
                  /\ run[q].prev \in Runs => Flying(run[q].prev) /\ run[run[q].prev].of = run[q].of
                  BY <1>1, <2>2 DEF Lines, Copied
            <3> QED
                BY <1>1, <2>2, <3>1
      <2> QED
          BY <2>1, <2>2
<1> QED
    BY <1>5, <1>8, <1>10, <1>11 DEF Lines, Line

\* A fork's gate stands only where nobody else does.
LEMMA GatesKeepLines ==
    ASSUME Lines, \A q \in Runs : Same(q),
           \A t \in Runs : chain'[t] = chain[t] \/ (chain[t] \notin Runs /\ chain'[t] \notin Runs),
           \A t \in copying' : /\ t \in Runs /\ chain'[t] # Nobody
                               /\ t \in copying \/ chain[t] \notin Runs
    PROVE  Lines'
<1>1. \A q \in Runs : /\ Flying(q)' = Flying(q) /\ Unsettled(q)' = Unsettled(q)
                      /\ run'[q].of = run[q].of /\ run'[q].prev = run[q].prev
                      /\ run'[q].stage = run[q].stage
      BY DEF Same, Flying, Unsettled
<1>2. \A q \in Runs : Flying(q) => chain[run[q].of] \in Runs /\ run[q].of \in Runs
                                   /\ chain'[run[q].of] = chain[run[q].of]
      BY DEF Lines, Chained, Unsettled
<1>3. Chained'
      <2>1. ASSUME NEW u \in Runs, chain'[u] \in Runs
            PROVE  (Flying(chain[u]) /\ run[chain[u]].of = u)'
            BY <1>1, <2>1 DEF Lines, Chained
      <2>2. ASSUME NEW q \in Runs, Unsettled(q)' PROVE run'[q].of \in Runs
            BY <1>1, <2>2 DEF Lines, Chained
      <2>3. ASSUME NEW q \in Runs, Flying(q)' PROVE chain'[run'[q].of] \in Runs
            BY <1>1, <1>2, <2>3
      <2> QED
          BY <2>1, <2>2, <2>3 DEF Chained
<1>4. PICK f \in [Runs -> Nat] : InOrder(f)
      BY DEF Lines, Line
<1>5. InOrder(f)'
      BY <1>1, <1>2, <1>4 DEF InOrder
<1>6. Copied'
      BY <1>1, <1>2 DEF Lines, Copied
<1> QED
    BY <1>3, <1>5, <1>6 DEF Lines, Line

\* When nothing is under way, the lines are empty.
LEMMA EmptyLines ==
    ASSUME \A q \in Runs : ~Unsettled(q), chain = [t \in Runs |-> Nobody], copying = {}
    PROVE  Lines
<1>1. \A q \in Runs : ~Flying(q)
      BY DEF Unsettled
<1>2. [r \in Runs |-> 0] \in [Runs -> Nat]
      OBVIOUS
<1>3. InOrder([r \in Runs |-> 0])
      BY <1>1 DEF InOrder
<1> QED
    BY <1>1, <1>2, <1>3, SubagentAssumption DEF Lines, Chained, Line, Copied

LEMMA ClearedLines ==
    ASSUME \A q \in Runs : ~Unsettled(q)', chain' = [t \in Runs |-> Nobody], copying' = {}
    PROVE  Lines'
<1>1. \A q \in Runs : ~Flying(q)'
      BY DEF Unsettled
<1>2. [r \in Runs |-> 0] \in [Runs -> Nat]
      OBVIOUS
<1>3. InOrder([r \in Runs |-> 0])'
      BY <1>1 DEF InOrder
<1> QED
    BY <1>1, <1>2, <1>3, SubagentAssumption DEF Lines, Chained, Line, Copied

-----------------------------------------------------------------------------
(* What the steps do to the records of the runs.                             *)

\* A run of which only some fields change.
LEMMA StageSet ==
    ASSUME Shape, NEW r \in Runs, NEW v \in RunStages, NEW w \in BOOLEAN,
           \/ run' = [run EXCEPT ![r].stage = v]
           \/ run' = [run EXCEPT ![r].stage = v, ![r].right = w]
           \/ run' = [run EXCEPT ![r].stage = v, ![r].told = w]
    PROVE  /\ run' \in [Runs -> RunRecords]
           /\ run'[r].stage = v /\ run'[r].of = run[r].of /\ run'[r].prev = run[r].prev
           /\ OthersSame(r) /\ \A q \in Runs \ {r} : run'[q] = run[q]
BY DEF Shape, RunRecords, OthersSame, Same

LEMMA ReturnFacts ==
    ASSUME Shape, NEW r \in Runs, NEW right \in BOOLEAN, Returns(r, right)
    PROVE  /\ run' \in [Runs -> RunRecords]
           /\ run'[r].stage = "ending" /\ run'[r].of = run[r].of
           /\ OthersSame(r) /\ \A q \in Runs \ {r} : run'[q] = run[q]
           /\ chain' = Unchained(r)
<1>1. "ending" \in RunStages
      BY DEF RunStages
<1>2. run' = [run EXCEPT ![r].stage = "ending", ![r].right = right] /\ chain' = Unchained(r)
      BY Zenon DEF Returns
<1> QED
    BY <1>1, <1>2, StageSet, Zenon

LEMMA StageFacts ==
    ASSUME Shape, NEW r \in Runs, NEW v \in RunStages, Stage(r, v)
    PROVE  /\ run' \in [Runs -> RunRecords]
           /\ run'[r].stage = v /\ run'[r].of = run[r].of /\ run'[r].prev = run[r].prev
           /\ OthersSame(r) /\ \A q \in Runs \ {r} : run'[q] = run[q]
<1>1. run' = [run EXCEPT ![r].stage = v]
      BY Zenon DEF Stage
<1> QED
    BY <1>1, StageSet, Zenon

\* A signal leaves a run where it is.
LEMMA SignalFacts ==
    ASSUME Shape, NEW r \in Runs
    PROVE  /\ Signalled(r) \in RunRecords
           /\ Signalled(r).stage = run[r].stage
           /\ Signalled(r).of = run[r].of /\ Signalled(r).prev = run[r].prev
<1>1. run[r] \in RunRecords /\ (run[r].told \/ run[r].stage = "running") \in BOOLEAN
      BY DEF Shape, RunRecords
<1>2. CASE Flying(r)
      <2> DEFINE told == run[r].told \/ run[r].stage = "running"
                 x == [run[r] EXCEPT !.signal = TRUE, !.told = told]
      <2>1. Signalled(r) = x
            BY <1>2, Zenon DEF Signalled
      <2> HIDE DEF told
      <2>2. told \in BOOLEAN
            BY <1>1 DEF told
      <2>3. x \in RunRecords /\ x.stage = run[r].stage /\ x.of = run[r].of /\ x.prev = run[r].prev
            BY <1>1, <2>2 DEF RunRecords
      <2> QED
          BY <2>1, <2>3
<1>3. CASE ~Flying(r)
      BY <1>1, <1>3 DEF Signalled
<1> QED
    BY <1>2, <1>3

\* A run that joins is queued behind the last, and its records are made.
LEMMA JoinFacts ==
    ASSUME Shape, NEW r \in Runs, NEW t \in Runs, Joins(r, t)
    PROVE  /\ run' \in [Runs -> RunRecords]
           /\ run'[r].stage = "queued" /\ run'[r].of = t /\ run'[r].prev = chain[t]
           /\ OthersSame(r) /\ \A q \in Runs \ {r} : run'[q] = run[q]
           /\ chain' = [chain EXCEPT ![t] = r] /\ chain' \in [Runs -> Runs \cup {Nobody, Gate}]
           /\ record' \in [Runs -> Records]
           /\ record'[r].deferred = "pending" /\ record'[r].store = "pending"
           /\ record'[r].task = "active"
           /\ \A q \in Runs \ {r} : record'[q] = record[q]
           /\ UNCHANGED <<thread, copying, account>> /\ Writes({"store"})
<1> DEFINE x == [NewRun EXCEPT !.stage = "queued", !.of = t, !.prev = chain[t]]
           y == [deferred |-> "pending", store |-> "pending", task |-> "active"]
<1>1. x \in RunRecords /\ x.stage = "queued" /\ x.of = t /\ x.prev = chain[t]
      BY DEF Shape, NewRun, RunRecords, RunStages, InLine
<1>2. y \in Records
      BY DEF Records
<1>3. /\ run' = [run EXCEPT ![r] = x] /\ chain' = [chain EXCEPT ![t] = r]
      /\ record' = [record EXCEPT ![r] = y]
      /\ UNCHANGED <<thread, copying, account>> /\ Writes({"store"})
      BY Zenon DEF Joins
<1> HIDE DEF x
<1>4. /\ run' \in [Runs -> RunRecords] /\ run'[r] = x /\ \A q \in Runs \ {r} : run'[q] = run[q]
      BY <1>1, <1>3 DEF Shape
<1>5. /\ record' \in [Runs -> Records] /\ record'[r] = y
      /\ \A q \in Runs \ {r} : record'[q] = record[q]
      BY <1>2, <1>3 DEF Shape
<1>6. chain' \in [Runs -> Runs \cup {Nobody, Gate}]
      BY <1>3 DEF Shape
<1> QED
    BY <1>1, <1>3, <1>4, <1>5, <1>6 DEF OthersSame, Same

-----------------------------------------------------------------------------
(* What keeps the rest.                                                      *)

\* Each file stays as it was, or has what is in memory after the step.
Saves ==
    /\ disk' \in Disks
    /\ \A q \in Runs : /\ disk'.deferred[q] \in {disk.deferred[q], record'[q].deferred}
                       /\ disk'.store[q] \in {disk.store[q], record'[q].store}
    /\ disk'.thread \in {disk.thread, thread'}

LEMMA WriteFacts ==
    ASSUME disk \in Disks, record' \in [Runs -> Records], thread' \in [Runs -> ThreadRecords],
           NEW files, Writes(files)
    PROVE  /\ Saves
           /\ "deferred" \notin files => disk'.deferred = disk.deferred
           /\ "store" \in files => \A q \in Runs : disk'.store[q] = record'[q].store
           /\ disk'.thread = IF "thread" \in files THEN thread' ELSE disk.thread
<1> DEFINE d == IF "deferred" \in files THEN DeferredOf(record') ELSE disk.deferred
           s == IF "store" \in files THEN StoreOf(record') ELSE disk.store
           th == IF "thread" \in files THEN thread' ELSE disk.thread
<1>1. disk' = [deferred |-> d, store |-> s, thread |-> th]
      BY Zenon DEF Writes
<1>2. /\ d \in [Runs -> {"none", "pending"} \cup Outcomes]
      /\ \A q \in Runs : d[q] \in {disk.deferred[q], record'[q].deferred}
      BY DEF Disks, Records, DeferredOf
<1>3. /\ s \in [Runs -> {"none", "pending"} \cup Outcomes]
      /\ \A q \in Runs : s[q] \in {disk.store[q], record'[q].store}
      /\ "store" \in files => \A q \in Runs : s[q] = record'[q].store
      BY DEF Disks, Records, StoreOf
<1>4. th \in [Runs -> ThreadRecords] /\ th \in {disk.thread, thread'}
      BY DEF Disks
<1>5. "deferred" \notin files => d = disk.deferred
      OBVIOUS
<1> HIDE DEF d, s
<1> QED
    BY <1>1, <1>2, <1>3, <1>4, <1>5 DEF Saves, Disks

LEMMA UnwrittenFacts ==
    ASSUME disk \in Disks, UNCHANGED disk
    PROVE  Saves /\ disk'.thread = disk.thread
BY DEF Saves

\* The records stay right when they stay as they are and nobody is taken up or settled.
LEMMA ToldAlikeKeeps ==
    ASSUME ToldAlike, Saves, UNCHANGED record,
           account'.stopped = account.stopped, account'.torn = account.torn,
           \A q \in Runs : run'[q].stage = run[q].stage \/ (Unsettled(q) /\ Unsettled(q)')
    PROVE  ToldAlike'
<1> SUFFICES ASSUME NEW q \in Runs PROVE Agrees(q)' /\ Trails(q)'
    BY DEF ToldAlike
<1>1. Agrees(q) /\ Trails(q)
      BY DEF ToldAlike
<1>2. Agrees(q)'
      BY <1>1 DEF Agrees, Unsettled, Flying, InLine, InHand
<1>3. Trails(q)'
      BY <1>1 DEF Trails, Saves
<1> QED
    BY <1>2, <1>3

\* The file of the threads stays right.
LEMMA FiledKeeps ==
    ASSUME SubagentInv, Threaded', disk'.thread \in {disk.thread, thread'},
           \A t \in Runs : run[t].stage \notin {"new", "queued"}
                               => run'[t].stage \notin {"new", "queued"},
           account'.gone = account.gone \/ disk'.thread = thread',
           account.late \subseteq account'.late, account.stuck \subseteq account'.stuck
    PROVE  Filed'
<1>1. CASE disk'.thread = thread'
      <2> SUFFICES ASSUME NEW t \in Runs
                   PROVE  /\ thread'[t].status # "none" => run'[t].stage \notin {"new", "queued"}
                          /\ t \in account'.gone \ account'.late => thread'[t].status = "none"
                          /\ thread'[t].status = "closed" /\ t \notin account'.stuck
                                 => thread'[t].last # "pending"
          BY <1>1 DEF Filed
      <2>1. thread'[t].status # "none" => run'[t].stage \notin {"new", "queued"}
            BY DEF Threaded, Begun
      <2>2. t \in account'.gone \ account'.late => thread'[t].status = "none"
            BY DEF Threaded, PutAwayStaysAway
      <2>3. ASSUME thread'[t].status = "closed", t \notin account'.stuck,
                   thread'[t].last = "pending"
            PROVE  FALSE
            <3>1. PICK q \in Runs : run'[q].of = t /\ run'[q].stage \in InHand \cup {"ending"}
                  BY <2>3 DEF Threaded, IdleIsSettled
            <3>2. Unsettled(q)'
                  BY <3>1 DEF Unsettled, Flying, InLine
            <3> QED
                BY <2>3, <3>1, <3>2 DEF Threaded, ClosedIsQuiet
      <2> QED
          BY <2>1, <2>2, <2>3
<1>2. CASE disk'.thread = disk.thread /\ account'.gone = account.gone
      BY <1>2 DEF SubagentInv, Filed
<1> QED
    BY <1>1, <1>2

\* The first of a line goes on or returns, and its thread with it.
LEMMA WorkKeeps ==
    ASSUME SubagentInv, NEW r \in Runs, run[r].stage \in InHand \/ Due(r), OthersSame(r),
           run' \in [Runs -> RunRecords], thread' \in [Runs -> ThreadRecords],
           account' \in Accounts, run'[r].of = run[r].of,
           \/ run'[r].stage \in InHand /\ run'[r].prev = run[r].prev /\ UNCHANGED chain
           \/ run'[r].stage = "ending" /\ chain' = Unchained(r),
           UNCHANGED <<copying, record>>, Saves,
           \A t \in Runs \ {run[r].of} : thread'[t] = thread[t],
           thread'[run[r].of].status = "closed" => thread[run[r].of].status = "closed",
           account'.stopped = account.stopped, account'.torn = account.torn,
           account'.gone = account.gone, account'.stuck = account.stuck,
           account.late \subseteq account'.late, PutAwayStaysAway'
    PROVE  SubagentInv'
<1>1. Unsettled(r) /\ Unsettled(r)' /\ run[r].of \in Runs
      BY DEF SubagentInv, Lines, Chained, Due, Unsettled, Flying, InLine, InHand
<1>2. /\ \A q \in Runs : Unsettled(q)' = Unsettled(q) /\ run'[q].of = run[q].of
      /\ \A q \in Runs \ {r} : run'[q].stage = run[q].stage
      /\ run'[r].stage \in InHand \cup {"ending"} /\ run'[r].stage \notin {"new", "queued"}
      BY <1>1 DEF OthersSame, Same, Unsettled, Flying, InHand
<1>3. Lines'
      BY MovesInLine, ReturnsFromLine DEF SubagentInv, Shape
<1>4. chain' \in [Runs -> Runs \cup {Nobody, Gate}]
      BY DEF SubagentInv, Shape, Unchained
<1>5. ToldAlike'
      BY <1>1, <1>2, ToldAlikeKeeps DEF SubagentInv
<1>6. run'[run[r].of].stage \notin {"new", "queued"}
      <2>1. CASE run[r].of = r
            BY <1>2, <2>1
      <2>2. CASE run[r].of # r
            <3>1. run[run[r].of].stage \notin {"new", "queued"}
                  BY <1>1, <2>2 DEF SubagentInv, Threaded, Begun
            <3> QED
                BY <1>1, <1>2, <2>2, <3>1
      <2> QED
          BY <2>1, <2>2
<1>7. Begun'
      <2>1. ASSUME NEW t \in Runs, thread'[t].status # "none" \/ t \in account'.gone
            PROVE  run'[t].stage \notin {"new", "queued"}
            <3>1. CASE t \in {r, run[r].of}
                  BY <1>2, <1>6, <3>1
            <3>2. CASE t \notin {r, run[r].of}
                  <4>1. thread'[t] = thread[t] /\ run'[t].stage = run[t].stage
                        BY <1>2, <3>2
                  <4> QED
                      BY <2>1, <4>1 DEF SubagentInv, Threaded, Begun
            <3> QED
                BY <3>1, <3>2
      <2>2. ASSUME NEW q \in Runs, Unsettled(q)', run'[q].stage # "queued" \/ run'[q].of # q
            PROVE  run'[run'[q].of].stage \notin {"new", "queued"}
            <3>1. CASE run[q].of \in {r, run[r].of} \/ q = r
                  BY <1>2, <1>6, <3>1
            <3>2. CASE ~(run[q].of \in {r, run[r].of} \/ q = r)
                  <4>1. Unsettled(q) /\ run'[q].stage = run[q].stage /\ run'[q].of = run[q].of
                        /\ run[q].of \in Runs
                        BY <1>2, <2>2, <3>2 DEF SubagentInv, Lines, Chained
                  <4>2. run[run[q].of].stage \notin {"new", "queued"}
                        BY <2>2, <4>1 DEF SubagentInv, Threaded, Begun
                  <4> QED
                      BY <1>2, <3>2, <4>1, <4>2
            <3> QED
                BY <3>1, <3>2
      <2> QED
          BY <2>1, <2>2 DEF Begun
<1>8. ClosedIsQuiet'
      <2> SUFFICES ASSUME NEW q \in Runs, Unsettled(q)'
                   PROVE  thread'[run'[q].of].status # "closed"
          BY DEF ClosedIsQuiet
      <2>1. Unsettled(q) /\ run'[q].of = run[q].of /\ run[q].of \in Runs
            BY <1>2 DEF SubagentInv, Lines, Chained
      <2>2. thread[run[q].of].status # "closed"
            BY <2>1 DEF SubagentInv, Threaded, ClosedIsQuiet
      <2>3. CASE run[q].of = run[r].of
            BY <2>1, <2>2, <2>3
      <2>4. CASE run[q].of # run[r].of
            BY <2>1, <2>2, <2>4
      <2> QED
          BY <2>3, <2>4
<1>9. IdleIsSettled'
      <2> SUFFICES ASSUME NEW t \in Runs \ account.stuck, thread'[t].status # "none",
                          thread'[t].last = "pending"
                   PROVE  \E q \in Runs : run'[q].of = t /\ run'[q].stage \in InHand \cup {"ending"}
          BY DEF IdleIsSettled
      <2>1. CASE t = run[r].of
            BY <1>2, <2>1
      <2>2. CASE t # run[r].of
            <3>1. PICK q \in Runs : run[q].of = t /\ run[q].stage \in InHand \cup {"ending"}
                  BY <2>2 DEF SubagentInv, Threaded, IdleIsSettled
            <3> QED
                BY <1>2, <2>2, <3>1
      <2> QED
          BY <2>1, <2>2
<1>10. Threaded'
       BY <1>7, <1>8, <1>9 DEF Threaded
<1>11. Filed'
       <2>1. disk'.thread \in {disk.thread, thread'}
             BY DEF Saves
       <2>2. \A t \in Runs : run[t].stage \notin {"new", "queued"}
                                 => run'[t].stage \notin {"new", "queued"}
             BY <1>2
       <2> QED
           BY <1>10, <2>1, <2>2, FiledKeeps
<1>12. Shape'
       BY <1>4 DEF SubagentInv, Shape, Saves
<1> QED
    BY <1>3, <1>5, <1>10, <1>11, <1>12 DEF SubagentInv

\* Every run stays where it is.
LEMMA StillKeeps ==
    ASSUME SubagentInv, \A q \in Runs : Same(q), Shape', Lines', ToldAlike', PutAwayStaysAway',
           \A t \in Runs :
               /\ thread'[t].status # "none" => thread[t].status # "none"
               /\ t \in account'.gone => thread[t].status # "none" \/ t \in account.gone
               /\ thread'[t].status = "closed" =>
                      \/ thread[t].status = "closed"
                      \/ \A q \in Runs : Unsettled(q) => run[q].of # t
               /\ thread'[t].status # "none" => thread'[t].last = thread[t].last,
           disk'.thread \in {disk.thread, thread'},
           account'.gone = account.gone \/ disk'.thread = thread',
           account'.late = account.late, account'.stuck = account.stuck
    PROVE  SubagentInv'
<1>1. /\ \A q \in Runs : Unsettled(q)' = Unsettled(q) /\ run'[q].of = run[q].of
      /\ \A q \in Runs : run'[q].stage = run[q].stage
      BY DEF Same, Unsettled, Flying
<1>2. \A q \in Runs : Unsettled(q) => run[q].of \in Runs
      BY DEF SubagentInv, Lines, Chained
<1>3. Begun'
      BY <1>1, <1>2 DEF SubagentInv, Threaded, Begun
<1>4. ClosedIsQuiet'
      BY <1>1, <1>2 DEF SubagentInv, Threaded, ClosedIsQuiet
<1>5. IdleIsSettled'
      BY <1>1, <1>2 DEF SubagentInv, Threaded, IdleIsSettled
<1>6. Threaded'
      BY <1>3, <1>4, <1>5 DEF Threaded
<1>7. Filed'
      BY <1>1, <1>6, FiledKeeps
<1> QED
    BY <1>6, <1>7 DEF SubagentInv

\* A run is over, before it joined a line or after its settlement.
LEMMA OverKeeps ==
    ASSUME SubagentInv, NEW r \in Runs, NEW t \in Runs, run[r].stage \in {"ending", "new"},
           run[r].stage = "ending" => run[r].of = t, run'[r].stage = "over",
           \A q \in Runs \ {r} : run'[q] = run[q],
           \A u \in Runs \ {t} : thread'[u] = thread[u],
           thread'[t].status = "none" <=> thread[t].status = "none",
           thread'[t].status = "closed" => thread[t].status = "closed",
           \/ run[r].stage = "new" /\ UNCHANGED thread
           \/ t \in account'.stuck
           \/ thread'[t].status # "none" => thread'[t].last # "pending",
           UNCHANGED <<chain, copying>>, Shape', ToldAlike',
           disk'.thread \in {disk.thread, thread'}, account'.gone = account.gone,
           account'.late = account.late, account.stuck \subseteq account'.stuck
    PROVE  SubagentInv'
<1>1. /\ ~Unsettled(r)' /\ OthersSame(r)
      /\ \A q \in Runs \ {r} : Unsettled(q)' = Unsettled(q)
      BY DEF Unsettled, Flying, InLine, InHand, OthersSame, Same
<1>2. Lines'
      BY <1>1, SettlesInLine DEF SubagentInv
<1>3. Begun'
      <2>1. ASSUME NEW u \in Runs, thread'[u].status # "none" \/ u \in account'.gone
            PROVE  run'[u].stage \notin {"new", "queued"}
            <3>1. thread[u].status # "none" \/ u \in account.gone
                  BY <2>1
            <3>2. run[u].stage \notin {"new", "queued"}
                  BY <3>1 DEF SubagentInv, Threaded, Begun
            <3> QED
                BY <3>2
      <2>2. ASSUME NEW q \in Runs, Unsettled(q)', run'[q].stage # "queued" \/ run'[q].of # q
            PROVE  run'[run'[q].of].stage \notin {"new", "queued"}
            <3>1. q # r /\ Unsettled(q) /\ run'[q] = run[q] /\ run[q].of \in Runs
                  BY <1>1, <2>2 DEF SubagentInv, Lines, Chained
            <3>2. run[run[q].of].stage \notin {"new", "queued"}
                  BY <2>2, <3>1 DEF SubagentInv, Threaded, Begun
            <3> QED
                BY <3>1, <3>2
      <2> QED
          BY <2>1, <2>2 DEF Begun
<1>4. ClosedIsQuiet'
      <2> SUFFICES ASSUME NEW q \in Runs, Unsettled(q)'
                   PROVE  thread'[run'[q].of].status # "closed"
          BY DEF ClosedIsQuiet
      <2>1. Unsettled(q) /\ run'[q] = run[q] /\ run[q].of \in Runs
            BY <1>1 DEF SubagentInv, Lines, Chained
      <2>2. thread[run[q].of].status # "closed"
            BY <2>1 DEF SubagentInv, Threaded, ClosedIsQuiet
      <2> QED
          BY <2>1, <2>2
<1>5. IdleIsSettled'
      <2> SUFFICES ASSUME NEW u \in Runs \ account'.stuck, thread'[u].status # "none",
                          thread'[u].last = "pending"
                   PROVE  \E q \in Runs : run'[q].of = u /\ run'[q].stage \in InHand \cup {"ending"}
          BY DEF IdleIsSettled
      <2>1. u # t \/ (run[r].stage = "new" /\ UNCHANGED thread)
            OBVIOUS
      <2>2. thread'[u] = thread[u]
            BY <2>1
      <2>3. PICK q \in Runs : run[q].of = u /\ run[q].stage \in InHand \cup {"ending"}
            BY <2>2 DEF SubagentInv, Threaded, IdleIsSettled
      <2>4. q # r
            BY <2>1, <2>3 DEF InHand
      <2> QED
          BY <2>3, <2>4
<1>6. PutAwayStaysAway'
      BY DEF SubagentInv, Threaded, PutAwayStaysAway, Shape, Accounts
<1>7. Threaded'
      BY <1>3, <1>4, <1>5, <1>6 DEF Threaded
<1>8. Filed'
      <2>1. \A u \in Runs : run[u].stage \notin {"new", "queued"}
                                => run'[u].stage \notin {"new", "queued"}
            OBVIOUS
      <2> QED
          BY <1>7, <2>1, FiledKeeps
<1> QED
    BY <1>2, <1>7, <1>8 DEF SubagentInv

\* There is room for the upsets of a step.
LEMMA UpsetRoom ==
    ASSUME Shape, NEW n \in Nat, Upset(n)
    PROVE  account.upsets + n \in 0..MaxUpsets
BY SubagentAssumption DEF Shape, Accounts, Upset

-----------------------------------------------------------------------------
(* The steps.                                                                *)

\* A run joins the line of the thread it makes, or of one that is open.
LEMMA JoinKeeps ==
    ASSUME SubagentInv, NEW r \in Runs, NEW t \in Runs, run[r].stage = "new", Joins(r, t),
           t = r \/ thread[t].status = "open"
    PROVE  SubagentInv'
<1>1. /\ run' \in [Runs -> RunRecords]
      /\ run'[r].stage = "queued" /\ run'[r].of = t /\ run'[r].prev = chain[t]
      /\ OthersSame(r) /\ \A q \in Runs \ {r} : run'[q] = run[q]
      /\ chain' = [chain EXCEPT ![t] = r] /\ chain' \in [Runs -> Runs \cup {Nobody, Gate}]
      /\ record' \in [Runs -> Records]
      /\ record'[r].deferred = "pending" /\ record'[r].store = "pending"
      /\ record'[r].task = "active"
      /\ \A q \in Runs \ {r} : record'[q] = record[q]
      /\ UNCHANGED <<thread, copying, account>> /\ Writes({"store"})
      BY JoinFacts DEF SubagentInv
<1>2. \A q \in Runs \ {r} : Unsettled(q)' = Unsettled(q)
      BY <1>1 DEF Unsettled, Flying
<1>3. ~Unsettled(r) /\ Unsettled(r)'
      BY <1>1 DEF Unsettled, Flying, InLine, InHand
<1>4. thread[r].status = "none" /\ r \notin account.gone
      BY DEF SubagentInv, Threaded, Begun
<1>5. t # r => run[t].stage \notin {"new", "queued"}
      BY DEF SubagentInv, Threaded, Begun
<1>6. Saves /\ disk'.deferred = disk.deferred /\ disk'.thread = disk.thread
      <2> DEFINE files == {"store"}
      <2>1. disk \in Disks /\ thread' \in [Runs -> ThreadRecords] /\ record' \in [Runs -> Records]
            BY <1>1 DEF SubagentInv, Shape
      <2>2. Writes(files) /\ "deferred" \notin files /\ "thread" \notin files
            BY <1>1
      <2> HIDE DEF files
      <2> QED
          BY <2>1, <2>2, WriteFacts
<1>7. Shape'
      BY <1>1, <1>6 DEF SubagentInv, Shape, Saves
<1>8. Lines'
      BY <1>1, JoinsLine DEF SubagentInv, Shape
<1>9. ToldAlike'
      <2> SUFFICES ASSUME NEW q \in Runs PROVE Agrees(q)' /\ Trails(q)'
          BY DEF ToldAlike
      <2>1. Agrees(q) /\ Trails(q)
            BY DEF SubagentInv, ToldAlike
      <2>2. CASE q = r
            <3>1. /\ record[r] = NewRecord /\ r \notin account.stopped /\ r \notin account.torn
                  /\ disk.deferred[r] = "none" /\ disk.store[r] = "none"
                  BY <2>1, <2>2 DEF Agrees, Trails, NewRecord
            <3>2. Agrees(q)'
                  BY <1>1, <2>2, <3>1 DEF Agrees
            <3>3. Trails(q)'
                  BY <1>1, <1>6, <2>2, <3>1 DEF Trails, Saves
            <3> QED
                BY <3>2, <3>3
      <2>3. CASE q # r
            <3>1. Agrees(q)'
                  BY <1>1, <1>2, <2>1, <2>3 DEF Agrees
            <3>2. Trails(q)'
                  BY <1>1, <1>6, <2>1, <2>3 DEF Trails, Saves
            <3> QED
                BY <3>1, <3>2
      <2> QED
          BY <2>2, <2>3
<1>10. Begun'
      <2>1. ASSUME NEW u \in Runs, thread'[u].status # "none" \/ u \in account'.gone
            PROVE  run'[u].stage \notin {"new", "queued"}
            BY <1>1, <1>4, <2>1 DEF SubagentInv, Threaded, Begun
      <2>2. ASSUME NEW q \in Runs, Unsettled(q)', run'[q].stage # "queued" \/ run'[q].of # q
            PROVE  run'[run'[q].of].stage \notin {"new", "queued"}
            <3>1. CASE q = r
                  BY <1>1, <1>5, <2>2, <3>1
            <3>2. CASE q # r
                  <4>1. Unsettled(q) /\ run'[q] = run[q] /\ run[q].of \in Runs
                        BY <1>1, <1>2, <2>2, <3>2 DEF SubagentInv, Lines, Chained
                  <4>2. run[run[q].of].stage \notin {"new", "queued"}
                        BY <2>2, <4>1 DEF SubagentInv, Threaded, Begun
                  <4> QED
                      BY <1>1, <4>1, <4>2
            <3> QED
                BY <3>1, <3>2
      <2> QED
          BY <2>1, <2>2 DEF Begun
<1>11. ClosedIsQuiet'
       BY <1>1, <1>2, <1>4 DEF SubagentInv, Threaded, ClosedIsQuiet
<1>12. IdleIsSettled'
       BY <1>1 DEF SubagentInv, Threaded, IdleIsSettled, InHand
<1>13. Threaded'
       BY <1>1, <1>10, <1>11, <1>12 DEF SubagentInv, Threaded, PutAwayStaysAway
<1>14. Filed'
       BY <1>1, <1>6 DEF SubagentInv, Filed
<1> QED
    BY <1>7, <1>8, <1>9, <1>13, <1>14 DEF SubagentInv

\* A run whose registration throws is over before it joins a line.
LEMMA GoesNowhereKeeps ==
    ASSUME SubagentInv, NEW r \in Runs, run[r].stage = "new", GoesNowhere(r)
    PROVE  SubagentInv'
<1> DEFINE y == [deferred |-> "pending", store |-> "pending", task |-> "none"]
           torn == account.torn \cup {r}
           n == account.upsets + 1
<1>1. /\ Upset(1) /\ run' = [run EXCEPT ![r].stage = "over"]
      /\ record' = [record EXCEPT ![r] = y]
      /\ account' = [account EXCEPT !.upsets = n, !.torn = torn]
      /\ UNCHANGED <<thread, chain, copying, disk>>
      BY Zenon DEF GoesNowhere
<1>2. n \in 0..MaxUpsets
      BY <1>1, UpsetRoom DEF SubagentInv
<1>3. torn \in SUBSET Runs /\ torn = account.torn \cup {r}
      BY DEF SubagentInv, Shape, Accounts
<1>4. y \in Records /\ y.deferred = "pending" /\ y.store = "pending"
      BY DEF Records
<1> HIDE DEF n, torn, y
<1>5. /\ account' \in Accounts /\ account'.torn = torn /\ account'.stopped = account.stopped
      /\ account'.gone = account.gone /\ account'.late = account.late
      /\ account'.stuck = account.stuck
      BY <1>1, <1>2, <1>3 DEF SubagentInv, Shape, Accounts
<1>6. /\ run' \in [Runs -> RunRecords] /\ run'[r].stage = "over"
      /\ \A q \in Runs \ {r} : run'[q] = run[q]
      <2>1. "over" \in RunStages
            BY DEF RunStages
      <2> QED
          BY <1>1, <2>1, StageSet DEF SubagentInv
<1>7. /\ record' \in [Runs -> Records] /\ record'[r] = y
      /\ \A q \in Runs \ {r} : record'[q] = record[q]
      BY <1>1, <1>4 DEF SubagentInv, Shape
<1>8. Shape'
      BY <1>1, <1>5, <1>6, <1>7 DEF SubagentInv, Shape
<1>9. ToldAlike'
      <2> SUFFICES ASSUME NEW q \in Runs PROVE Agrees(q)' /\ Trails(q)'
          BY DEF ToldAlike
      <2>1. Agrees(q) /\ Trails(q)
            BY DEF SubagentInv, ToldAlike
      <2>2. CASE q = r
            <3>1. /\ record[r] = NewRecord /\ r \notin account.stopped
                  /\ disk.deferred[r] = "none" /\ disk.store[r] = "none"
                  BY <2>1, <2>2 DEF Agrees, Trails, NewRecord
            <3>2. Agrees(q)'
                  BY <1>3, <1>5, <1>6, <2>2 DEF Agrees, Unsettled, Flying, InLine, InHand
            <3>3. Trails(q)'
                  BY <1>1, <1>4, <1>5, <1>7, <2>2, <3>1 DEF Trails
            <3> QED
                BY <3>2, <3>3
      <2>3. CASE q # r
            <3>1. Agrees(q)'
                  BY <1>3, <1>5, <1>6, <1>7, <2>1, <2>3 DEF Agrees, Unsettled, Flying
            <3>2. Trails(q)'
                  BY <1>1, <1>5, <1>7, <2>1, <2>3 DEF Trails
            <3> QED
                BY <3>1, <3>2
      <2> QED
          BY <2>2, <2>3
<1>10. /\ run[r].stage \in {"ending", "new"} /\ (run[r].stage = "ending" => run[r].of = r)
       /\ run[r].stage = "new" /\ UNCHANGED <<thread, chain, copying>>
       /\ disk'.thread \in {disk.thread, thread'} /\ account.stuck \subseteq account'.stuck
       BY <1>1, <1>5
<1> QED
    BY <1>5, <1>6, <1>8, <1>9, <1>10, OverKeeps

\* Nobody is in the line of a thread whose chain is empty.
LEMMA EmptyChainIsQuiet ==
    ASSUME SubagentInv, Calm, NEW t \in Runs, chain[t] \notin Runs
    PROVE  \A q \in Runs : Unsettled(q) => run[q].of # t
BY DEF SubagentInv, Lines, Chained, Calm, Unsettled

LEMMA CloseThreadKeeps ==
    ASSUME SubagentInv, NEW t \in Runs, CloseThread(t)
    PROVE  SubagentInv'
<1>1. PICK written \in {{}, {"thread"}} :
          /\ UNCHANGED record /\ Writes(written)
          /\ IF written = {} THEN Upset(1) /\ account' = [account EXCEPT !.upsets = @ + 1]
             ELSE UNCHANGED account
      BY Zenon DEF CloseThread
<1>2. /\ Calm /\ thread[t].status = "open" /\ chain[t] = Nobody
      /\ thread' = [thread EXCEPT ![t].status = "closed"]
      /\ UNCHANGED <<run, chain, copying, record>>
      BY Zenon DEF CloseThread
<1>3. /\ thread' \in [Runs -> ThreadRecords]
      /\ thread'[t].status = "closed" /\ thread'[t].last = thread[t].last
      /\ \A u \in Runs \ {t} : thread'[u] = thread[u]
      BY <1>2 DEF SubagentInv, Shape, ThreadRecords
<1>4. Saves
      <2>1. disk \in Disks /\ record' \in [Runs -> Records]
            BY <1>2 DEF SubagentInv, Shape
      <2> QED
          BY <1>1, <1>3, <2>1, WriteFacts
<1>5. /\ account' \in Accounts /\ account'.stopped = account.stopped
      /\ account'.torn = account.torn /\ account'.gone = account.gone
      /\ account'.late = account.late /\ account'.stuck = account.stuck
      <2>1. CASE UNCHANGED account
            BY <2>1 DEF SubagentInv, Shape
      <2>2. CASE Upset(1) /\ account' = [account EXCEPT !.upsets = account.upsets + 1]
            <3>1. account.upsets + 1 \in 0..MaxUpsets
                  BY <2>2, UpsetRoom DEF SubagentInv
            <3> QED
                BY <2>2, <3>1 DEF SubagentInv, Shape, Accounts
      <2> QED
          BY <1>1, <2>1, <2>2
<1>6. \A q \in Runs : Unsettled(q) => run[q].of # t
      BY <1>2, EmptyChainIsQuiet, SubagentAssumption
<1>7. Shape'
      BY <1>2, <1>3, <1>4, <1>5 DEF SubagentInv, Shape, Saves
<1>8. \A q \in Runs : Same(q)
      BY <1>2 DEF Same
<1>9. Lines'
      BY <1>2, <1>8, SameLines DEF SubagentInv
<1>10. ToldAlike'
      BY <1>2, <1>4, <1>5, ToldAlikeKeeps DEF SubagentInv
<1>11. PutAwayStaysAway'
      BY <1>2, <1>3, <1>5 DEF SubagentInv, Threaded, PutAwayStaysAway
<1>12. \A u \in Runs :
          /\ thread'[u].status # "none" => thread[u].status # "none"
          /\ u \in account'.gone => thread[u].status # "none" \/ u \in account.gone
          /\ thread'[u].status = "closed" =>
                 \/ thread[u].status = "closed"
                 \/ \A q \in Runs : Unsettled(q) => run[q].of # u
          /\ thread'[u].status # "none" => thread'[u].last = thread[u].last
      BY <1>2, <1>3, <1>5, <1>6
<1>13. disk'.thread \in {disk.thread, thread'}
      BY <1>4 DEF Saves
<1> QED
    BY <1>5, <1>7, <1>8, <1>9, <1>10, <1>11, <1>12, <1>13, StillKeeps

\* A step of the first in line that leaves the threads alone.
LEMMA PlainWorkKeeps ==
    ASSUME SubagentInv, NEW r \in Runs, run[r].stage \in InHand, OthersSame(r),
           run' \in [Runs -> RunRecords], run'[r].of = run[r].of,
           \/ run'[r].stage \in InHand /\ run'[r].prev = run[r].prev /\ UNCHANGED chain
           \/ run'[r].stage = "ending" /\ chain' = Unchained(r),
           UNCHANGED <<thread, copying, record, disk, account>>
    PROVE  SubagentInv'
<1>1. PutAwayStaysAway'
      BY DEF SubagentInv, Threaded, PutAwayStaysAway
<1>2. thread' \in [Runs -> ThreadRecords] /\ account' \in Accounts
      BY DEF SubagentInv, Shape
<1>3. Saves
      BY UnwrittenFacts DEF SubagentInv, Shape
<1> QED
    BY <1>1, <1>2, <1>3, WorkKeeps

LEMMA ChildFailsKeeps ==
    ASSUME SubagentInv, NEW r \in Runs, ChildFails(r)
    PROVE  SubagentInv'
<1>1. /\ run[r].stage \in {"creating", "preparing"} /\ Returns(r, FALSE)
      /\ UNCHANGED <<thread, copying, record, disk, account>>
      BY Zenon DEF ChildFails
<1>2. run[r].stage \in InHand
      BY <1>1 DEF InHand
<1>3. /\ run' \in [Runs -> RunRecords]
      /\ run'[r].stage = "ending" /\ run'[r].of = run[r].of
      /\ OthersSame(r) /\ chain' = Unchained(r)
      BY <1>1, ReturnFacts DEF SubagentInv
<1> QED
    BY <1>1, <1>2, <1>3, PlainWorkKeeps

LEMMA ChildEndsKeeps ==
    ASSUME SubagentInv, NEW r \in Runs, ChildEnds(r) \/ ChildStops(r)
    PROVE  SubagentInv'
<1>1. /\ run[r].stage = "running"
      /\ UNCHANGED <<thread, copying, record, disk, account>>
      BY Zenon DEF ChildEnds, ChildStops
<1>2. PICK right \in BOOLEAN : Returns(r, right)
      BY Zenon DEF ChildEnds, ChildStops
<1>3. run[r].stage \in InHand
      BY <1>1 DEF InHand
<1>4. /\ run' \in [Runs -> RunRecords]
      /\ run'[r].stage = "ending" /\ run'[r].of = run[r].of
      /\ OthersSame(r) /\ chain' = Unchained(r)
      BY <1>2, ReturnFacts DEF SubagentInv
<1> QED
    BY <1>1, <1>3, <1>4, PlainWorkKeeps

LEMMA PromptRunsKeeps ==
    ASSUME SubagentInv, NEW r \in Runs, PromptRuns(r)
    PROVE  SubagentInv'
<1> DEFINE w == run[r].signal
<1>1. /\ run[r].stage = "preparing"
      /\ run' = [run EXCEPT ![r].stage = "running", ![r].told = w]
      /\ UNCHANGED <<thread, chain, copying, record, disk, account>>
      BY Zenon DEF PromptRuns
<1>2. w \in BOOLEAN /\ "running" \in RunStages
      BY DEF SubagentInv, Shape, RunRecords, RunStages, InLine, InHand
<1> HIDE DEF w
<1>3. /\ run' \in [Runs -> RunRecords]
      /\ run'[r].stage = "running" /\ run'[r].of = run[r].of /\ run'[r].prev = run[r].prev
      /\ OthersSame(r)
      BY <1>1, <1>2, StageSet, Zenon DEF SubagentInv
<1>4. run[r].stage \in InHand /\ run'[r].stage \in InHand
      BY <1>1, <1>3 DEF InHand
<1> QED
    BY <1>1, <1>3, <1>4, PlainWorkKeeps

\* A turn that goes on or returns.
LEMMA TurnFacts ==
    ASSUME SubagentInv, NEW r \in Runs, NEW v \in InHand,
           Returns(r, FALSE) \/ (Stage(r, v) /\ UNCHANGED chain)
    PROVE  /\ run' \in [Runs -> RunRecords] /\ OthersSame(r) /\ run'[r].of = run[r].of
           /\ \/ run'[r].stage \in InHand /\ run'[r].prev = run[r].prev /\ UNCHANGED chain
              \/ run'[r].stage = "ending" /\ chain' = Unchained(r)
<1>1. CASE Returns(r, FALSE)
      BY <1>1, ReturnFacts DEF SubagentInv
<1>2. CASE Stage(r, v) /\ UNCHANGED chain
      <2>1. v \in RunStages
            BY SMTT(30) DEF RunStages, InLine
      <2> QED
          BY <1>2, <2>1, StageFacts DEF SubagentInv
<1> QED
    BY <1>1, <1>2

LEMMA ChildReadyKeeps ==
    ASSUME SubagentInv, NEW r \in Runs, ChildReady(r)
    PROVE  SubagentInv'
<1> DEFINE t == run[r].of
           status == IF thread[t].status = "none" THEN "open" ELSE thread[t].status
<1>1. /\ run[r].stage = "creating" /\ UNCHANGED copying
      /\ Returns(r, FALSE) \/ (Stage(r, "preparing") /\ UNCHANGED chain)
      BY Zenon DEF ChildReady
<1>2. PICK written \in {{}, {"store"}, {"store", "thread"}} :
          LET fails == IF "thread" \in written THEN 0 ELSE 1
              learnt == "store" \in written
          IN  /\ Upset(fails)
              /\ thread' = IF learnt THEN [thread EXCEPT ![t].child = TRUE, ![t].status = status]
                           ELSE thread
              /\ account' = [account EXCEPT !.upsets = @ + fails,
                     !.late = IF learnt /\ thread[t].status = "none" THEN @ \cup {t} ELSE @]
              /\ UNCHANGED record /\ Writes(written)
      BY Zenon DEF ChildReady
<1> DEFINE fails == IF "thread" \in written THEN 0 ELSE 1
           learnt == "store" \in written
           late == IF learnt /\ thread[t].status = "none" THEN account.late \cup {t}
                   ELSE account.late
           n == account.upsets + fails
<1>3. /\ Upset(fails)
      /\ thread' = IF learnt THEN [thread EXCEPT ![t].child = TRUE, ![t].status = status]
                   ELSE thread
      /\ account' = [account EXCEPT !.upsets = n, !.late = late]
      /\ UNCHANGED record /\ Writes(written)
      BY <1>2
<1>4. t \in Runs /\ run[r].stage \in InHand
      BY <1>1 DEF SubagentInv, Lines, Chained, Unsettled, Flying, InLine, InHand
<1>5. status \in {"open", "closed"} /\ (status = "closed" => thread[t].status = "closed")
      /\ late \in SUBSET Runs /\ account.late \subseteq late
      /\ (learnt /\ t \notin late => thread[t].status # "none")
      BY <1>4 DEF SubagentInv, Shape, ThreadRecords, Accounts
<1>6. n \in 0..MaxUpsets
      <2>1. fails \in Nat
            OBVIOUS
      <2> HIDE DEF fails
      <2> QED
          BY <1>3, <2>1, UpsetRoom DEF SubagentInv
<1>7. learnt \in BOOLEAN
      OBVIOUS
<1> HIDE DEF late, status, n, learnt, fails
<1>8. /\ thread' \in [Runs -> ThreadRecords]
      /\ thread'[t].status = "closed" => thread[t].status = "closed"
      /\ ~learnt => thread' = thread
      /\ \A u \in Runs \ {t} : thread'[u] = thread[u]
      <2>1. CASE learnt
            <3> DEFINE x == [thread[t] EXCEPT !.child = TRUE, !.status = status]
            <3>1. thread' = [thread EXCEPT ![t].child = TRUE, ![t].status = status]
                  BY <1>3, <2>1
            <3>2. thread \in [Runs -> ThreadRecords]
                  BY DEF SubagentInv, Shape
            <3>3. thread' = [thread EXCEPT ![t] = x]
                  BY <1>4, <3>1, <3>2
            <3> DEFINE th == thread[t]
            <3>4. th \in ThreadRecords
                  BY <1>4, <3>2
            <3>5. x = [th EXCEPT !.child = TRUE, !.status = status]
                  OBVIOUS
            <3> HIDE DEF th, x
            <3>6. x \in ThreadRecords /\ x.status = status
                  BY <1>5, <3>4, <3>5 DEF ThreadRecords
            <3> QED
                BY <1>4, <1>5, <2>1, <3>2, <3>3, <3>6
      <2>2. CASE ~learnt
            BY <1>3, <2>2 DEF SubagentInv, Shape
      <2> QED
          BY <1>7, <2>1, <2>2
<1>9. /\ account' \in Accounts /\ account'.late = late
      /\ account'.stopped = account.stopped /\ account'.torn = account.torn
      /\ account'.gone = account.gone /\ account'.stuck = account.stuck
      BY <1>3, <1>5, <1>6 DEF SubagentInv, Shape, Accounts
<1>10. PutAwayStaysAway'
      <2> SUFFICES ASSUME NEW u \in account'.gone \ account'.late PROVE thread'[u].status = "none"
          BY DEF PutAwayStaysAway
      <2>1. u \in Runs /\ thread[u].status = "none"
            BY <1>5, <1>9 DEF SubagentInv, Threaded, PutAwayStaysAway, Shape, Accounts
      <2>2. learnt => u # t
            BY <1>5, <1>9, <2>1
      <2> QED
          BY <1>7, <1>8, <2>1, <2>2
<1>11. Saves
      <2>1. disk \in Disks /\ record' \in [Runs -> Records]
            BY <1>3 DEF SubagentInv, Shape
      <2> QED
          BY <1>3, <1>8, <2>1, WriteFacts
<1>12. "preparing" \in InHand
      BY DEF InHand
<1>13. /\ run' \in [Runs -> RunRecords] /\ OthersSame(r) /\ run'[r].of = run[r].of
      /\ \/ run'[r].stage \in InHand /\ run'[r].prev = run[r].prev /\ UNCHANGED chain
         \/ run'[r].stage = "ending" /\ chain' = Unchained(r)
      BY <1>1, <1>12, TurnFacts
<1> QED
    BY <1>1, <1>3, <1>4, <1>5, <1>8, <1>9, <1>10, <1>11, <1>13, WorkKeeps

LEMMA ThreadTurnKeeps ==
    ASSUME SubagentInv, NEW r \in Runs, ThreadTurn(r)
    PROVE  SubagentInv'
<1> DEFINE t == run[r].of
<1>1. Due(r) /\ UNCHANGED <<copying, record>>
      BY Zenon DEF ThreadTurn
<1>2. \/ Returns(r, FALSE) /\ UNCHANGED <<thread, disk, account>>
      \/ /\ r = t \/ thread[t].status = "open"
         /\ thread' = [thread EXCEPT ![t].status = "open", ![t].last = "pending"]
         /\ Returns(r, FALSE) \/ (Stage(r, "creating") /\ UNCHANGED chain)
         /\ \E fails \in 0..1 : /\ Upset(fails)
                                /\ account' = [account EXCEPT !.upsets = @ + fails]
                                /\ Writes(IF fails = 1 THEN {} ELSE {"thread"})
      BY Zenon DEF ThreadTurn
<1>3. t \in Runs /\ run[r].stage = "queued"
      BY <1>1 DEF SubagentInv, Lines, Chained, Unsettled, Flying, InLine, Due
<1>4. "creating" \in InHand
      BY DEF InHand
<1>5. /\ run' \in [Runs -> RunRecords] /\ OthersSame(r) /\ run'[r].of = run[r].of
      /\ \/ run'[r].stage \in InHand /\ run'[r].prev = run[r].prev /\ UNCHANGED chain
         \/ run'[r].stage = "ending" /\ chain' = Unchained(r)
      BY <1>2, <1>4, TurnFacts
<1>6. CASE UNCHANGED <<thread, disk, account>>
      <2>1. PutAwayStaysAway'
            BY <1>6 DEF SubagentInv, Threaded, PutAwayStaysAway
      <2>2. thread' \in [Runs -> ThreadRecords] /\ account' \in Accounts /\ Saves
            BY <1>6, UnwrittenFacts DEF SubagentInv, Shape
      <2> QED
          BY <1>1, <1>5, <1>6, <2>1, <2>2, WorkKeeps
<1>7. CASE /\ r = t \/ thread[t].status = "open"
           /\ thread' = [thread EXCEPT ![t].status = "open", ![t].last = "pending"]
           /\ \E fails \in 0..1 : /\ Upset(fails)
                                  /\ account' = [account EXCEPT !.upsets = @ + fails]
                                  /\ Writes(IF fails = 1 THEN {} ELSE {"thread"})
      <2>1. /\ thread' \in [Runs -> ThreadRecords] /\ thread'[t].status = "open"
            /\ \A u \in Runs \ {t} : thread'[u] = thread[u]
            BY <1>3, <1>7 DEF SubagentInv, Shape, ThreadRecords
      <2>2. t \notin account.gone \ account.late
            BY <1>3, <1>7 DEF SubagentInv, Threaded, Begun, PutAwayStaysAway
      <2>3. PICK fails \in 0..1 : /\ Upset(fails)
                                  /\ account' = [account EXCEPT !.upsets = account.upsets + fails]
                                  /\ Writes(IF fails = 1 THEN {} ELSE {"thread"})
            BY <1>7
      <2> DEFINE n == account.upsets + fails
                 files == IF fails = 1 THEN {} ELSE {"thread"}
      <2>4. n \in 0..MaxUpsets
            BY <2>3, UpsetRoom DEF SubagentInv
      <2>5. account' = [account EXCEPT !.upsets = n] /\ Writes(files)
            BY <2>3
      <2> HIDE DEF n, files
      <2>6. /\ account' \in Accounts /\ account'.late = account.late
            /\ account'.stopped = account.stopped /\ account'.torn = account.torn
            /\ account'.gone = account.gone /\ account'.stuck = account.stuck
            BY <2>4, <2>5 DEF SubagentInv, Shape, Accounts
      <2>7. PutAwayStaysAway'
            BY <2>1, <2>2, <2>6 DEF SubagentInv, Threaded, PutAwayStaysAway, Shape, Accounts
      <2>8. Saves
            <3>1. disk \in Disks /\ record' \in [Runs -> Records]
                  BY <1>1 DEF SubagentInv, Shape
            <3> QED
                BY <2>1, <2>5, <3>1, WriteFacts
      <2> QED
          BY <1>1, <1>5, <2>1, <2>6, <2>7, <2>8, WorkKeeps
<1> QED
    BY <1>2, <1>6, <1>7

-----------------------------------------------------------------------------
(* Settlements.                                                              *)

LEMMA ToldFacts ==
    ASSUME NEW rec \in Records, NEW o \in Outcomes
    PROVE  /\ Told(rec, o) \in Records
           /\ Told(rec, o).deferred = IF rec.deferred = "pending" THEN o ELSE rec.deferred
           /\ Told(rec, o).store = o
<1> DEFINE d == IF rec.deferred = "pending" THEN o ELSE rec.deferred
<1>1. Told(rec, o) = [rec EXCEPT !.deferred = d, !.store = o]
      BY Zenon DEF Told
<1>2. d \in {"none", "pending"} \cup Outcomes
      BY DEF Records
<1> HIDE DEF d
<1> QED
    BY <1>1, <1>2 DEF Records, d

\* A thread says nothing of a run that is over.
AtRest(th) == th.status # "none" => th.last # "pending"

LEMMA FinishFacts ==
    ASSUME NEW th \in ThreadRecords, NEW o \in Outcomes
    PROVE  /\ Finished(th, o) \in ThreadRecords
           /\ Finished(th, o).status = "none" <=> th.status = "none"
           /\ Finished(th, o).status # "closed" \/ th.status = "closed"
           /\ AtRest(Finished(th, o))
<1>1. CASE th.status = "none"
      BY <1>1 DEF Finished, AtRest
<1>2. CASE th.status # "none"
      <2>1. Finished(th, o) = [th EXCEPT !.status = "open", !.last = o]
            BY <1>2, Zenon DEF Finished
      <2> QED
          BY <1>2, <2>1 DEF ThreadRecords, Outcomes, AtRest
<1> QED
    BY <1>1, <1>2

LEMMA ThreadAtFacts ==
    ASSUME NEW th \in ThreadRecords, NEW o \in Outcomes, NEW n \in 0..3
    PROVE  /\ ThreadAt(th, o, n) \in ThreadRecords
           /\ ThreadAt(th, o, n).status = "none" <=> th.status = "none"
           /\ ThreadAt(th, o, n).status # "closed" \/ th.status = "closed"
           /\ n >= 2 \/ AtRest(th) => AtRest(ThreadAt(th, o, n))
<1>1. CASE n < 2
      BY <1>1 DEF ThreadAt
<1>2. CASE ~(n < 2)
      BY <1>2, FinishFacts DEF ThreadAt
<1> QED
    BY <1>1, <1>2

\* What a settlement that gets so far leaves of the record of its run.
LEMMA SettledFacts ==
    ASSUME SubagentInv, NEW r \in Runs, run[r].stage = "ending", NEW n \in 0..3, NEW m \in 1..3,
           NEW first, first = RecordAt(record[r], Outcome(r), n),
           NEW end, end = IF n = 3 THEN first ELSE RecordAt(first, Caught(r), m)
    PROVE  /\ Outcome(r) \in Outcomes /\ Caught(r) \in Outcomes
           /\ end \in Records /\ end.deferred \in Outcomes /\ end.store \in Outcomes
           /\ (n \in {1, 2} /\ Outcome(r) # Caught(r)) \/ end.store = end.deferred
           /\ r \in account.stopped =>
                  Outcome(r) = "aborted" /\ end.deferred = "aborted" /\ end.store = "aborted"
           /\ disk.deferred[r] \in {"none", "pending", end.deferred}
<1> DEFINE o == Outcome(r)
           c == Caught(r)
<1>1. /\ record[r] \in Records
      /\ record[r].deferred \in {"pending", "aborted"}
      /\ record[r].store = record[r].deferred
      /\ record[r].deferred = "aborted" \/ r \in account.stopped => record[r].task = "aborted"
      /\ disk.deferred[r] \in {"none", "pending", record[r].deferred}
      BY DEF SubagentInv, Shape, ToldAlike, Agrees, Trails, Unsettled
<1>2. o \in Outcomes /\ c \in Outcomes /\ (record[r].task = "aborted" => o = "aborted" /\ c = "aborted")
      BY DEF Outcome, Caught, Outcomes
<1> HIDE DEF o, c
<1>3. CASE n = 0
      <2>1. end = Told(record[r], c)
            BY <1>3 DEF RecordAt, o, c
      <2> QED
          BY <1>1, <1>2, <2>1, ToldFacts DEF Outcomes, o, c
<1>4. CASE n = 3
      <2>1. end = Told(record[r], o)
            BY <1>4 DEF RecordAt, o, c
      <2> QED
          BY <1>1, <1>2, <2>1, ToldFacts DEF Outcomes, o, c
<1>5. CASE n \in {1, 2}
      <2>1. first = Told(record[r], o) /\ end = Told(first, c)
            BY <1>5 DEF RecordAt, o, c
      <2>2. first \in Records /\ first.deferred = o /\ first.store = o
            BY <1>1, <1>2, <2>1, ToldFacts
      <2>3. end \in Records /\ end.deferred = o /\ end.store = c
            BY <1>2, <2>1, <2>2, ToldFacts DEF Outcomes
      <2> QED
          BY <1>1, <1>2, <1>5, <2>3 DEF Outcomes, o, c
<1> QED
    BY <1>3, <1>4, <1>5

LEMMA SettlesKeeps ==
    ASSUME SubagentInv, NEW r \in Runs, Settles(r)
    PROVE  SubagentInv'
<1> DEFINE t == run[r].of
           o == Outcome(r)
           c == Caught(r)
           w == [NewRun EXCEPT !.stage = "over"]
<1>1. /\ run[r].stage = "ending" /\ run' = [run EXCEPT ![r] = w] /\ UNCHANGED <<chain, copying>>
      BY Zenon DEF Settles
<1>2. PICK n \in 0..3, m \in 1..3 :
          LET first == RecordAt(record[r], o, n)
              then == IF n = 3 THEN first ELSE RecordAt(first, c, m)
              half == ThreadAt(thread[t], o, n)
              threw == n \in {1, 2} \/ (n = 0 /\ run[r].right)
              fails == (IF threw THEN 1 ELSE 0) + (IF m < 3 THEN 1 ELSE 0)
          IN  /\ n = 3 => m = 3
              /\ Upset(fails)
              /\ record' = [record EXCEPT ![r] = [then EXCEPT !.task = "none"]]
              /\ thread' = [thread EXCEPT ![t] = IF n = 3 THEN half ELSE ThreadAt(half, c, m)]
              /\ disk' = [disk EXCEPT
                     !.store = IF m >= 2 THEN StoreOf(record')
                               ELSE IF n = 2 THEN StoreOf([record EXCEPT ![r] = first]) ELSE @,
                     !.thread = IF m = 3 THEN thread' ELSE @]
              /\ account' = [account EXCEPT !.upsets = @ + fails,
                     !.torn = IF n \in {1, 2} /\ o # c THEN @ \cup {r} ELSE @,
                     !.stuck = IF n < 2 /\ m = 1 THEN @ \cup {t} ELSE @]
      BY Zenon DEF Settles
<1> DEFINE first == RecordAt(record[r], o, n)
           end == IF n = 3 THEN first ELSE RecordAt(first, c, m)
           half == ThreadAt(thread[t], o, n)
           z == IF n = 3 THEN half ELSE ThreadAt(half, c, m)
           threw == n \in {1, 2} \/ (n = 0 /\ run[r].right)
           fails == (IF threw THEN 1 ELSE 0) + (IF m < 3 THEN 1 ELSE 0)
           k == account.upsets + fails
           torn == IF n \in {1, 2} /\ o # c THEN account.torn \cup {r} ELSE account.torn
           stuck == IF n < 2 /\ m = 1 THEN account.stuck \cup {t} ELSE account.stuck
           y == [end EXCEPT !.task = "none"]
           files == IF m >= 2 THEN StoreOf(record')
                    ELSE IF n = 2 THEN StoreOf([record EXCEPT ![r] = first]) ELSE disk.store
           threads == IF m = 3 THEN thread' ELSE disk.thread
<1>3. /\ n = 3 => m = 3
      /\ Upset(fails)
      /\ record' = [record EXCEPT ![r] = y]
      /\ thread' = [thread EXCEPT ![t] = z]
      /\ disk' = [disk EXCEPT !.store = files, !.thread = threads]
      /\ account' = [account EXCEPT !.upsets = k, !.torn = torn, !.stuck = stuck]
      BY <1>2
<1>4. k \in 0..MaxUpsets
      <2>1. fails \in Nat
            OBVIOUS
      <2> HIDE DEF fails
      <2> QED
          BY <1>3, <2>1, UpsetRoom DEF SubagentInv
<1> HIDE DEF fails, k
<1>5. t \in Runs /\ Unsettled(r)
      BY <1>1 DEF SubagentInv, Lines, Chained, Unsettled
<1>6. w \in RunRecords /\ w.stage = "over"
      BY DEF RunRecords, RunStages, NewRun
<1>7. /\ o \in Outcomes /\ c \in Outcomes
      /\ end \in Records /\ end.deferred \in Outcomes /\ end.store \in Outcomes
      /\ (n \in {1, 2} /\ o # c) \/ end.store = end.deferred
      /\ r \in account.stopped =>
             o = "aborted" /\ end.deferred = "aborted" /\ end.store = "aborted"
      /\ disk.deferred[r] \in {"none", "pending", end.deferred}
      BY <1>1, SettledFacts
<1>8. n = 2 => first.store = o /\ first \in Records
      <2>1. record[r] \in Records
            BY DEF SubagentInv, Shape
      <2>2. n = 2 => first = Told(record[r], o)
            BY DEF RecordAt
      <2>3. o \in Outcomes
            BY <1>7
      <2> HIDE DEF first, o
      <2> QED
          BY <2>1, <2>2, <2>3, ToldFacts
<1>9. /\ torn \in SUBSET Runs /\ (n \in {1, 2} /\ o # c => r \in torn)
      /\ \A q \in torn : q \in account.torn \/ q = r
      /\ account.torn \subseteq torn
      BY DEF SubagentInv, Shape, Accounts
<1>10. /\ stuck \in SUBSET Runs /\ account.stuck \subseteq stuck
       /\ n < 2 /\ m = 1 => t \in stuck
       BY <1>5 DEF SubagentInv, Shape, Accounts
<1>11. /\ z \in ThreadRecords
       /\ z.status = "none" <=> thread[t].status = "none"
       /\ z.status = "closed" => thread[t].status = "closed"
       /\ ~(n < 2 /\ m = 1) => AtRest(z)
       <2>1. thread[t] \in ThreadRecords /\ o \in Outcomes /\ c \in Outcomes
             /\ m \in 0..3
             BY <1>5, <1>7 DEF SubagentInv, Shape
       <2>2. /\ half \in ThreadRecords /\ (half.status = "none" <=> thread[t].status = "none")
             /\ half.status = "closed" => thread[t].status = "closed"
             /\ n >= 2 => AtRest(half)
             BY <2>1, ThreadAtFacts
       <2> HIDE DEF half, c
       <2>3. /\ ThreadAt(half, c, m) \in ThreadRecords
             /\ ThreadAt(half, c, m).status = "none" <=> half.status = "none"
             /\ ThreadAt(half, c, m).status = "closed" => half.status = "closed"
             /\ m >= 2 \/ AtRest(half) => AtRest(ThreadAt(half, c, m))
             BY <2>1, <2>2, ThreadAtFacts
       <2>4. CASE n = 3
             BY <2>2, <2>4
       <2>5. CASE n # 3
             BY <2>2, <2>3, <2>5
       <2> QED
           BY <2>4, <2>5
<1> HIDE DEF z, half, torn, stuck
<1>12. y \in Records /\ y.deferred = end.deferred /\ y.store = end.store
       <2> HIDE DEF end
       <2> QED
           BY <1>7 DEF Records
<1> HIDE DEF y, end, w
<1>13. /\ run' \in [Runs -> RunRecords] /\ run'[r].stage = "over"
       /\ \A q \in Runs \ {r} : run'[q] = run[q]
       BY <1>1, <1>6 DEF SubagentInv, Shape
<1>14. /\ record' \in [Runs -> Records] /\ record'[r] = y
       /\ \A q \in Runs \ {r} : record'[q] = record[q]
       BY <1>3, <1>12 DEF SubagentInv, Shape
<1>15. /\ thread' \in [Runs -> ThreadRecords] /\ thread'[t] = z
       /\ \A u \in Runs \ {t} : thread'[u] = thread[u]
       BY <1>3, <1>5, <1>11 DEF SubagentInv, Shape
<1>16. /\ files \in [Runs -> {"none", "pending"} \cup Outcomes]
       /\ \A q \in Runs \ {r} : files[q] \in {disk.store[q], record[q].store}
       /\ files[r] \in {disk.store[r], o, end.store}
       <2>1. disk \in Disks /\ record \in [Runs -> Records]
             BY DEF SubagentInv, Shape
       <2>2. CASE m >= 2
             <3>1. files = [q \in Runs |-> record'[q].store]
                   BY <2>2 DEF StoreOf
             <3> HIDE DEF files
             <3> QED
                 BY <1>12, <1>14, <3>1 DEF Records
       <2>3. CASE ~(m >= 2) /\ n = 2
             <3>1. [record EXCEPT ![r] = first] \in [Runs -> Records]
                   BY <1>8, <2>1, <2>3
             <3>2. files = [q \in Runs |-> [record EXCEPT ![r] = first][q].store]
                   BY <2>3 DEF StoreOf
             <3> HIDE DEF first, files
             <3> QED
                 BY <1>8, <2>1, <2>3, <3>1, <3>2 DEF Records
       <2>4. CASE ~(m >= 2) /\ n # 2
             BY <2>1, <2>4 DEF Disks
       <2> QED
           BY <2>2, <2>3, <2>4
<1>17. threads \in [Runs -> ThreadRecords] /\ threads \in {disk.thread, thread'}
       BY <1>15 DEF SubagentInv, Shape, Disks
<1> HIDE DEF files, threads, first, o, c
<1>18. /\ disk' \in Disks /\ disk'.deferred = disk.deferred /\ disk'.store = files
       /\ disk'.thread \in {disk.thread, thread'}
       BY <1>3, <1>16, <1>17 DEF SubagentInv, Shape, Disks
<1>19. /\ account' \in Accounts /\ account'.stopped = account.stopped
       /\ account'.torn = torn /\ account'.stuck = stuck
       /\ account'.gone = account.gone /\ account'.late = account.late
       BY <1>3, <1>4, <1>9, <1>10 DEF SubagentInv, Shape, Accounts
<1>20. Shape'
       BY <1>1, <1>13, <1>14, <1>15, <1>18, <1>19 DEF SubagentInv, Shape
<1>21. ToldAlike'
      <2> SUFFICES ASSUME NEW q \in Runs PROVE Agrees(q)' /\ Trails(q)'
          BY DEF ToldAlike
      <2>1. Agrees(q) /\ Trails(q)
            BY DEF SubagentInv, ToldAlike
      <2>2. CASE q = r
            <3>1. ~Unsettled(r)'
                  BY <1>13 DEF Unsettled, Flying, InLine, InHand
            <3>2. Agrees(q)'
                  BY <1>7, <1>9, <1>12, <1>13, <1>14, <1>19, <2>2, <3>1 DEF Agrees
            <3>3. r \in account.stopped => disk.deferred[r] # "resolved" /\ files[r] # "resolved"
                  BY <1>7, <1>16, <2>1, <2>2 DEF Trails
            <3>4. Trails(q)'
                  BY <1>7, <1>12, <1>14, <1>18, <1>19, <2>2, <3>3 DEF Trails, Outcomes
            <3> QED
                BY <3>2, <3>4
      <2>3. CASE q # r
            <3>1. Agrees(q)'
                  BY <1>9, <1>13, <1>14, <1>19, <2>1, <2>3 DEF Agrees, Unsettled, Flying
            <3>2. Trails(q)'
                  BY <1>14, <1>16, <1>18, <1>19, <2>1, <2>3 DEF Trails
            <3> QED
                BY <3>1, <3>2
      <2> QED
          BY <2>2, <2>3
<1>22. \/ t \in account'.stuck
       \/ thread'[t].status # "none" => thread'[t].last # "pending"
       BY <1>10, <1>11, <1>15, <1>19 DEF AtRest
<1> QED
    BY <1>1, <1>5, <1>10, <1>11, <1>13, <1>15, <1>18, <1>19, <1>20, <1>21, <1>22, OverKeeps

-----------------------------------------------------------------------------
(* The world around.                                                         *)

\* The threads stay or go, and nobody moves.
LEMMA WorldKeeps ==
    ASSUME SubagentInv, \A q \in Runs : Same(q), Shape', Lines', ToldAlike',
           UNCHANGED thread \/ \A t \in Runs : thread'[t] = NoThread,
           \A t \in account'.gone : thread[t].status # "none" \/ t \in account.gone,
           UNCHANGED thread => account'.gone = account.gone,
           disk'.thread \in {disk.thread, thread'},
           account'.gone = account.gone \/ disk'.thread = thread',
           account'.late = account.late, account'.stuck = account.stuck
    PROVE  SubagentInv'
<1>1. CASE UNCHANGED thread
      <2>1. PutAwayStaysAway'
            BY <1>1 DEF SubagentInv, Threaded, PutAwayStaysAway
      <2> QED
          BY <1>1, <2>1, StillKeeps
<1>2. CASE \A t \in Runs : thread'[t] = NoThread
      <2>1. \A t \in Runs : thread'[t].status = "none"
            BY <1>2 DEF NoThread
      <2>2. PutAwayStaysAway'
            BY <2>1 DEF PutAwayStaysAway, Shape, Accounts
      <2> QED
          BY <2>1, <2>2, StillKeeps
<1> QED
    BY <1>1, <1>2

\* A signal to some of the runs.
LEMMA SignalsFacts ==
    ASSUME Shape, NEW S \in SUBSET Runs,
           run' = [r \in Runs |-> IF r \in S THEN Signalled(r) ELSE run[r]]
    PROVE  run' \in [Runs -> RunRecords] /\ \A q \in Runs : Same(q)
<1>1. ASSUME NEW q \in Runs PROVE run'[q] \in RunRecords /\ Same(q)
      BY SignalFacts DEF Same, Shape
<1> QED
    BY <1>1

LEMMA RunTimesOutKeeps ==
    ASSUME SubagentInv, NEW r \in Runs, RunTimesOut(r)
    PROVE  SubagentInv'
<1>1. /\ run' = [run EXCEPT ![r] = Signalled(r)]
      /\ UNCHANGED <<thread, chain, copying, record, disk, account>>
      BY Zenon DEF RunTimesOut
<1>2. run' = [q \in Runs |-> IF q \in {r} THEN Signalled(q) ELSE run[q]]
      BY <1>1 DEF SubagentInv, Shape
<1>3. run' \in [Runs -> RunRecords] /\ \A q \in Runs : Same(q)
      BY <1>2, SignalsFacts DEF SubagentInv
<1>4. Shape' /\ Lines'
      BY <1>1, <1>3, SameLines DEF SubagentInv, Shape
<1>5. Saves
      BY <1>1, UnwrittenFacts DEF SubagentInv, Shape
<1>6. ToldAlike'
      BY <1>1, <1>3, <1>5, ToldAlikeKeeps DEF SubagentInv, Same
<1>7. \A t \in account'.gone : thread[t].status # "none" \/ t \in account.gone
      BY <1>1
<1> QED
    BY <1>1, <1>3, <1>4, <1>6, <1>7, WorldKeeps

LEMMA AbortRunKeeps ==
    ASSUME SubagentInv, NEW r \in Runs, AbortRun(r)
    PROVE  SubagentInv'
<1> DEFINE y == [record[r] EXCEPT !.task = "aborted"]
           stopped == account.stopped \cup Stops({r})
           n == account.upsets + 1
<1>1. /\ record[r].task \in {"active", "recovering"} /\ Upset(1)
      /\ record' = [record EXCEPT ![r] = y]
      /\ run' = [run EXCEPT ![r] = Signalled(r)]
      /\ account' = [account EXCEPT !.upsets = n, !.stopped = stopped]
      /\ UNCHANGED <<thread, chain, copying, disk>>
      <2>1. record' = [record EXCEPT ![r].task = "aborted"]
            BY Zenon DEF AbortRun
      <2>2. record' = [record EXCEPT ![r] = y]
            BY <2>1 DEF SubagentInv, Shape
      <2> QED
          BY <2>2, Zenon DEF AbortRun
<1>2. stopped \in SUBSET Runs /\ account.stopped \subseteq stopped
      /\ \A q \in stopped : q \in account.stopped
             \/ (q = r /\ record[r].deferred = "pending" /\ record[r].store = "pending")
      BY DEF Stops, SubagentInv, Shape, Accounts
<1>3. y \in Records /\ y.task = "aborted" /\ y.deferred = record[r].deferred
      /\ y.store = record[r].store
      BY DEF SubagentInv, Shape, Records
<1>4. n \in 0..MaxUpsets
      BY <1>1, UpsetRoom DEF SubagentInv
<1> HIDE DEF y, stopped, n
<1>5. /\ record' \in [Runs -> Records] /\ record'[r] = y
      /\ \A q \in Runs \ {r} : record'[q] = record[q]
      BY <1>1, <1>3 DEF SubagentInv, Shape
<1>6. /\ account' \in Accounts /\ account'.stopped = stopped
      /\ account'.torn = account.torn /\ account'.gone = account.gone
      /\ account'.late = account.late /\ account'.stuck = account.stuck
      BY <1>1, <1>2, <1>4 DEF SubagentInv, Shape, Accounts
<1>7. run' = [q \in Runs |-> IF q \in {r} THEN Signalled(q) ELSE run[q]]
      BY <1>1 DEF SubagentInv, Shape
<1>8. run' \in [Runs -> RunRecords] /\ \A q \in Runs : Same(q)
      BY <1>7, SignalsFacts DEF SubagentInv
<1>9. Shape' /\ Lines'
      BY <1>1, <1>5, <1>6, <1>8, SameLines DEF SubagentInv, Shape
<1>10. ToldAlike'
      <2> SUFFICES ASSUME NEW q \in Runs PROVE Agrees(q)' /\ Trails(q)'
          BY DEF ToldAlike
      <2>1. Agrees(q) /\ Trails(q)
            BY DEF SubagentInv, ToldAlike
      <2>2. run'[q].stage = run[q].stage /\ Unsettled(q)' = Unsettled(q)
            BY <1>8 DEF Same, Unsettled, Flying
      <2>3. CASE q = r
            <3>1. run[r].stage # "new"
                  BY <1>1, <2>1, <2>3 DEF Agrees, NewRecord
            <3>2. Agrees(q)'
                  BY <1>3, <1>5, <1>6, <2>1, <2>2, <2>3, <3>1 DEF Agrees
            <3>3. Trails(q)'
                  BY <1>1, <1>2, <1>3, <1>5, <1>6, <2>1, <2>3 DEF Trails
            <3> QED
                BY <3>2, <3>3
      <2>4. CASE q # r
            <3>1. Agrees(q)'
                  BY <1>2, <1>5, <1>6, <2>1, <2>2, <2>4 DEF Agrees
            <3>2. Trails(q)'
                  BY <1>1, <1>2, <1>5, <1>6, <2>1, <2>4 DEF Trails
            <3> QED
                BY <3>1, <3>2
      <2> QED
          BY <2>3, <2>4
<1>11. disk'.thread \in {disk.thread, thread'} /\ UNCHANGED thread
       BY <1>1
<1> QED
    BY <1>6, <1>8, <1>9, <1>10, <1>11, WorldKeeps

\* Threads are put away with what is on disk of them, or not for good.
LEMMA PutAwayFacts ==
    ASSUME SubagentInv, NEW written
    PROVE  /\ PutAway(written) \in SUBSET Runs
           /\ \A t \in PutAway(written) : thread[t].status # "none" \/ t \in account.gone
           /\ "thread" \notin written => PutAway(written) = account.gone
           /\ (\A t \in Runs : thread[t].status = "none") => PutAway(written) = account.gone
BY DEF PutAway, SubagentInv, Shape, Accounts

LEMMA StopParentKeeps ==
    ASSUME SubagentInv, StopParent
    PROVE  SubagentInv'
<1>1. PICK written \in SUBSET {"store", "thread"} :
          /\ account' = [account EXCEPT !.upsets = @ + 1, !.stopped = @ \cup Stops(Runs),
                                        !.gone = PutAway(written)]
          /\ Writes(written)
      BY Zenon DEF StopParent
<1> DEFINE stopped == account.stopped \cup Stops(Runs)
           gone == PutAway(written)
           n == account.upsets + 1
           S == {r \in Runs : record[r].task = "active"}
<1>2. /\ Upset(1)
      /\ run' = [r \in Runs |-> IF record[r].task = "active" THEN Signalled(r) ELSE run[r]]
      /\ record' = [r \in Runs |->
             [deferred |-> Aborted(record[r].deferred), store |-> Aborted(record[r].store),
              task |-> IF record[r].task = "none" THEN "none" ELSE "aborted"]]
      /\ thread' = [t \in Runs |-> NoThread]
      /\ UNCHANGED <<chain, copying>>
      BY Zenon DEF StopParent
<1>3. account' = [account EXCEPT !.upsets = n, !.stopped = stopped, !.gone = gone]
      BY <1>1
<1>4. /\ stopped \in SUBSET Runs
      /\ \A q \in stopped : q \in account.stopped
             \/ (record[q].deferred = "pending" /\ record[q].store = "pending")
      BY DEF Stops, SubagentInv, Shape, Accounts
<1>5. /\ gone \in SUBSET Runs
      /\ \A t \in gone : thread[t].status # "none" \/ t \in account.gone
      /\ "thread" \notin written => gone = account.gone
      /\ (\A t \in Runs : thread[t].status = "none") => gone = account.gone
      BY PutAwayFacts
<1>6. n \in 0..MaxUpsets
      BY <1>2, UpsetRoom DEF SubagentInv
<1>7. /\ record' \in [Runs -> Records]
      /\ \A q \in Runs : /\ record'[q].deferred = Aborted(record[q].deferred)
                         /\ record'[q].store = Aborted(record[q].store)
                         /\ record'[q].task = IF record[q].task = "none" THEN "none" ELSE "aborted"
      BY <1>2 DEF SubagentInv, Shape, Records, Aborted, Outcomes
<1>8. thread' \in [Runs -> ThreadRecords] /\ \A t \in Runs : thread'[t] = NoThread
      BY <1>2 DEF ThreadRecords, NoThread
<1>9. Saves /\ ("thread" \in written => disk'.thread = thread')
      <2>1. disk \in Disks
            BY DEF SubagentInv, Shape
      <2> QED
          BY <1>1, <1>7, <1>8, <2>1, WriteFacts
<1> HIDE DEF stopped, gone, n
<1>10. /\ account' \in Accounts /\ account'.stopped = stopped /\ account'.gone = gone
       /\ account'.torn = account.torn /\ account'.late = account.late
       /\ account'.stuck = account.stuck
       BY <1>3, <1>4, <1>5, <1>6 DEF SubagentInv, Shape, Accounts
<1>11. run' = [r \in Runs |-> IF r \in S THEN Signalled(r) ELSE run[r]]
       BY <1>2
<1>12. run' \in [Runs -> RunRecords] /\ \A q \in Runs : Same(q)
       BY <1>11, SignalsFacts DEF SubagentInv
<1>13. Shape' /\ Lines'
       BY <1>2, <1>7, <1>8, <1>9, <1>10, <1>12, SameLines DEF SubagentInv, Shape, Saves
<1>14. ASSUME NEW q \in Runs, record[q] = NewRecord PROVE record'[q] = NewRecord
       BY <1>2, <1>14 DEF NewRecord, Aborted
<1>15. ToldAlike'
      <2> SUFFICES ASSUME NEW q \in Runs PROVE Agrees(q)' /\ Trails(q)'
          BY DEF ToldAlike
      <2>1. Agrees(q) /\ Trails(q) /\ record[q] \in Records
            BY DEF SubagentInv, ToldAlike, Shape
      <2>2. run'[q].stage = run[q].stage /\ Unsettled(q)' = Unsettled(q)
            BY <1>12 DEF Same, Unsettled, Flying
      <2>3. run[q].stage = "new" => record'[q] = NewRecord /\ q \notin account'.stopped
            BY <1>4, <1>10, <1>14, <2>1 DEF Agrees, NewRecord
      <2>4. Agrees(q)'
            BY <1>4, <1>7, <1>10, <2>1, <2>2, <2>3 DEF Agrees, Aborted, Outcomes
      <2>5. Trails(q)'
            BY <1>4, <1>7, <1>9, <1>10, <2>1 DEF Trails, Saves, Aborted, Records, Outcomes
      <2> QED
          BY <2>4, <2>5
<1>16. \A t \in account'.gone : thread[t].status # "none" \/ t \in account.gone
       BY <1>5, <1>10
<1>17. UNCHANGED thread => account'.gone = account.gone
       BY <1>5, <1>8, <1>10 DEF NoThread
<1>18. /\ disk'.thread \in {disk.thread, thread'}
       /\ account'.gone = account.gone \/ disk'.thread = thread'
       BY <1>5, <1>9, <1>10 DEF Saves
<1> QED
    BY <1>8, <1>10, <1>12, <1>13, <1>15, <1>16, <1>17, <1>18, WorldKeeps

LEMMA AgentDeletedKeeps ==
    ASSUME SubagentInv, AgentDeleted
    PROVE  SubagentInv'
<1>1. PICK written \in {{}, {"thread"}} :
          /\ account' = [account EXCEPT !.upsets = @ + 1, !.gone = PutAway(written)]
          /\ UNCHANGED record /\ Writes(written)
      BY Zenon DEF AgentDeleted
<1> DEFINE gone == PutAway(written)
           n == account.upsets + 1
<1>2. /\ Upset(1) /\ thread' = [t \in Runs |-> NoThread]
      /\ UNCHANGED <<run, chain, copying, record>>
      BY <1>1, Zenon DEF AgentDeleted
<1>3. account' = [account EXCEPT !.upsets = n, !.gone = gone]
      BY <1>1
<1>4. /\ gone \in SUBSET Runs
      /\ \A t \in gone : thread[t].status # "none" \/ t \in account.gone
      /\ "thread" \notin written => gone = account.gone
      /\ (\A t \in Runs : thread[t].status = "none") => gone = account.gone
      BY PutAwayFacts
<1>5. n \in 0..MaxUpsets
      BY <1>2, UpsetRoom DEF SubagentInv
<1>6. thread' \in [Runs -> ThreadRecords] /\ \A t \in Runs : thread'[t] = NoThread
      BY <1>2 DEF ThreadRecords, NoThread
<1>7. Saves /\ ("thread" \in written => disk'.thread = thread')
      <2>1. disk \in Disks /\ record' \in [Runs -> Records]
            BY <1>2 DEF SubagentInv, Shape
      <2> QED
          BY <1>1, <1>6, <2>1, WriteFacts
<1> HIDE DEF gone, n
<1>8. /\ account' \in Accounts /\ account'.gone = gone
      /\ account'.stopped = account.stopped /\ account'.stuck = account.stuck
      /\ account'.torn = account.torn /\ account'.late = account.late
      BY <1>3, <1>4, <1>5 DEF SubagentInv, Shape, Accounts
<1>9. \A q \in Runs : Same(q)
      BY <1>2 DEF Same
<1>10. Shape' /\ Lines' /\ ToldAlike'
       BY <1>2, <1>6, <1>7, <1>8, <1>9, SameLines, ToldAlikeKeeps DEF SubagentInv, Shape, Saves
<1>11. UNCHANGED thread => account'.gone = account.gone
       BY <1>4, <1>6, <1>8 DEF NoThread
<1>12. /\ disk'.thread \in {disk.thread, thread'}
       /\ account'.gone = account.gone \/ disk'.thread = thread'
       BY <1>4, <1>7, <1>8 DEF Saves
<1> QED
    BY <1>4, <1>6, <1>8, <1>9, <1>10, <1>11, <1>12, WorldKeeps

LEMMA ForksKeep ==
    ASSUME SubagentInv, NEW t \in Runs, ForkStarts(t) \/ ForkEnds(t)
    PROVE  SubagentInv'
<1>1. /\ \/ chain[t] = Nobody /\ copying' = copying \cup {t}
            /\ chain' = [chain EXCEPT ![t] = Gate]
         \/ copying' = copying \ {t}
            /\ chain' = [chain EXCEPT ![t] = IF chain[t] = Gate THEN Nobody ELSE chain[t]]
      /\ UNCHANGED <<run, thread, record, disk, account>>
      BY Zenon DEF ForkStarts, ForkEnds
<1>2. \A q \in Runs : Same(q)
      BY <1>1 DEF Same
<1>3. /\ chain' \in [Runs -> Runs \cup {Nobody, Gate}]
      /\ copying' \subseteq Runs
      /\ \A u \in Runs \ {t} : chain'[u] = chain[u]
      /\ \A u \in Runs : chain'[u] = chain[u] \/ (chain[u] \notin Runs /\ chain'[u] \notin Runs)
      BY <1>1, SubagentAssumption DEF SubagentInv, Shape
<1>4. \A u \in copying' : u \in Runs /\ chain'[u] # Nobody /\ (u \in copying \/ chain[u] \notin Runs)
      <2>1. \A u \in copying : u \in Runs /\ chain[u] # Nobody
            BY DEF SubagentInv, Lines, Copied
      <2> QED
          BY <1>1, <1>3, <2>1, SubagentAssumption DEF SubagentInv, Shape
<1>5. Lines'
      BY <1>2, <1>3, <1>4, GatesKeepLines DEF SubagentInv
<1>6. Saves
      BY <1>1, UnwrittenFacts DEF SubagentInv, Shape
<1>7. Shape' /\ ToldAlike'
      BY <1>1, <1>3, <1>6, ToldAlikeKeeps DEF SubagentInv, Shape
<1> QED
    BY <1>1, <1>2, <1>5, <1>7, WorldKeeps

\* A file is written, and nothing else happens.
LEMMA FlushKeeps ==
    ASSUME SubagentInv, Flush \/ UNCHANGED subagentVars
    PROVE  SubagentInv'
<1>1. /\ UNCHANGED <<run, thread, chain, copying, record, account>>
      /\ (\E file \in {"deferred", "store", "thread"} : Writes({file})) \/ UNCHANGED disk
      BY Zenon DEF Flush, subagentVars
<1>2. Saves
      <2>1. /\ disk \in Disks /\ record' \in [Runs -> Records]
            /\ thread' \in [Runs -> ThreadRecords]
            BY <1>1 DEF SubagentInv, Shape
      <2>2. ASSUME NEW file, Writes({file}) PROVE Saves
            <3> DEFINE files == {file}
            <3>1. Writes(files)
                  BY <2>2
            <3> HIDE DEF files
            <3> QED
                BY <2>1, <3>1, WriteFacts
      <2> QED
          BY <1>1, <2>1, <2>2, UnwrittenFacts
<1>3. \A q \in Runs : Same(q)
      BY <1>1 DEF Same
<1>4. Shape' /\ Lines' /\ ToldAlike'
      BY <1>1, <1>2, <1>3, SameLines, ToldAlikeKeeps DEF SubagentInv, Shape, Saves
<1>5. disk'.thread \in {disk.thread, thread'}
      BY <1>2 DEF Saves
<1> QED
    BY <1>1, <1>3, <1>4, <1>5, WorldKeeps

\* What the file of the runs says of one when the process dies, and what that of the
\* threads says.
LEMMA StoreLeftFacts ==
    ASSUME SubagentInv, NEW cut \in {Nobody} \cup {r \in Runs : run[r].stage = "ending"},
           NEW q \in Runs
    PROVE  /\ StoreLeft(cut)[q] \in {"none", "pending"} \cup Outcomes
           /\ \/ StoreLeft(cut)[q] \in {disk.store[q], record[q].store}
              \/ run[q].stage = "ending" /\ StoreLeft(cut)[q] = Outcome(q)
<1>1. /\ disk.store[q] \in {"none", "pending"} \cup Outcomes
      /\ record[q].store \in {"none", "pending"} \cup Outcomes
      BY DEF SubagentInv, Shape, Disks, Records
<1>2. CASE cut = Nobody
      BY <1>1, <1>2 DEF StoreLeft
<1>3. CASE cut # Nobody
      <2> DEFINE o == Outcome(cut)
      <2>1. o \in Outcomes
            BY DEF Outcome, Outcomes
      <2>2. StoreLeft(cut) = [[r \in Runs |-> record[r].store] EXCEPT ![cut] = o]
            BY <1>3 DEF StoreLeft, StoreOf
      <2>3. cut \in Runs /\ run[cut].stage = "ending"
            BY <1>3
      <2>4. CASE q = cut
            BY <2>1, <2>2, <2>3, <2>4
      <2>5. CASE q # cut
            <3> HIDE DEF o
            <3> QED
                BY <1>1, <2>2, <2>3, <2>5
      <2> QED
          BY <2>4, <2>5
<1> QED
    BY <1>2, <1>3

LEMMA ThreadsLeftFacts ==
    ASSUME SubagentInv, NEW cut \in {Nobody} \cup {r \in Runs : run[r].stage = "ending"},
           NEW both \in BOOLEAN, NEW t \in Runs
    PROVE  /\ ThreadsLeft(cut, both)[t] \in ThreadRecords
           /\ \/ ThreadsLeft(cut, both)[t] \in {disk.thread[t], thread[t]}
              \/ /\ \E r \in Runs : Unsettled(r) /\ run[r].of = t
                 /\ ThreadsLeft(cut, both)[t].status = "none" <=> thread[t].status = "none"
<1>1. thread \in [Runs -> ThreadRecords] /\ disk.thread \in [Runs -> ThreadRecords]
      BY DEF SubagentInv, Shape, Disks
<1>2. CASE cut = Nobody \/ ~both
      BY <1>1, <1>2 DEF ThreadsLeft
<1>3. CASE ~(cut = Nobody \/ ~both)
      <2> DEFINE u == run[cut].of
                 z == Finished(thread[u], Outcome(cut))
      <2>1. cut \in Runs /\ Unsettled(cut)
            BY <1>3 DEF Unsettled
      <2>2. u \in Runs
            BY <2>1 DEF SubagentInv, Lines, Chained
      <2>3. Outcome(cut) \in Outcomes
            BY DEF Outcome, Outcomes
      <2>4. z \in ThreadRecords /\ (z.status = "none" <=> thread[u].status = "none")
            BY <1>1, <2>2, <2>3, FinishFacts
      <2>5. ThreadsLeft(cut, both) = [thread EXCEPT ![u] = z]
            BY <1>3, Zenon DEF ThreadsLeft
      <2> HIDE DEF z
      <2>6. CASE t = u
            BY <1>1, <2>1, <2>2, <2>4, <2>5, <2>6
      <2>7. CASE t # u
            BY <1>1, <2>2, <2>4, <2>5, <2>7
      <2> QED
          BY <2>6, <2>7
<1> QED
    BY <1>2, <1>3

LEMMA RepairFacts ==
    ASSUME NEW th \in ThreadRecords
    PROVE  /\ Repaired(th) \in ThreadRecords
           /\ Repaired(th).status = "none" <=> th.status = "none"
           /\ AtRest(Repaired(th))
<1>1. CASE th.status # "none" /\ th.last = "pending"
      <2>1. Repaired(th) = [th EXCEPT !.status = "open", !.last = "failed"]
            BY <1>1 DEF Repaired
      <2> QED
          BY <1>1, <2>1 DEF ThreadRecords, Outcomes, AtRest
<1>2. CASE ~(th.status # "none" /\ th.last = "pending")
      BY <1>2 DEF Repaired, AtRest
<1> QED
    BY <1>1, <1>2

LEMMA CrashKeeps ==
    ASSUME SubagentInv, SubagentCrash
    PROVE  SubagentInv'
<1>1. PICK cut \in {Nobody} \cup {r \in Runs : run[r].stage = "ending"}, both \in BOOLEAN :
          /\ record' = [r \in Runs |->
                 [deferred |-> disk.deferred[r], store |-> StoreLeft(cut)[r],
                  task |-> IF record[r].task = "active" THEN "recovering" ELSE record[r].task]]
          /\ thread' = [t \in Runs |-> Repaired(ThreadsLeft(cut, both)[t])]
          /\ account' = [account EXCEPT !.upsets = @ + 1, !.torn = @ \cup Lost(StoreLeft(cut))]
      BY Zenon DEF SubagentCrash
<1>2. /\ Upset(1)
      /\ run' = [r \in Runs |-> IF run[r].stage \in {"new", "over", "lost"} THEN run[r]
                                ELSE [NewRun EXCEPT !.stage = "lost"]]
      /\ chain' = [t \in Runs |-> Nobody]
      /\ copying' = {}
      /\ Writes({"store", "thread"})
      BY Zenon DEF SubagentCrash
<1> DEFINE left == StoreLeft(cut)
           threads == ThreadsLeft(cut, both)
           torn == account.torn \cup Lost(left)
           n == account.upsets + 1
<1>3. n \in 0..MaxUpsets
      BY <1>2, UpsetRoom DEF SubagentInv
<1>4. /\ torn \in SUBSET Runs
      /\ \A q \in Runs : q \in torn <=>
             \/ q \in account.torn \/ left[q] # record[q].store
             \/ record[q].deferred \in Outcomes /\ disk.deferred[q] # record[q].deferred
      BY DEF Lost, SubagentInv, Shape, Accounts
<1>5. account' = [account EXCEPT !.upsets = n, !.torn = torn]
      BY <1>1
<1> HIDE DEF n, torn
<1>6. /\ account' \in Accounts /\ account'.stopped = account.stopped
      /\ account'.gone = account.gone /\ account'.late = account.late
      /\ account'.torn = torn /\ account'.stuck = account.stuck
      BY <1>3, <1>4, <1>5 DEF SubagentInv, Shape, Accounts
<1>7. \A q \in Runs : /\ left[q] \in {"none", "pending"} \cup Outcomes
                      /\ \/ left[q] \in {disk.store[q], record[q].store}
                         \/ run[q].stage = "ending" /\ left[q] = Outcome(q)
      BY StoreLeftFacts
<1>8. \A t \in Runs : /\ threads[t] \in ThreadRecords
                      /\ \/ threads[t] \in {disk.thread[t], thread[t]}
                         \/ /\ \E r \in Runs : Unsettled(r) /\ run[r].of = t
                            /\ threads[t].status = "none" <=> thread[t].status = "none"
      BY ThreadsLeftFacts
<1>9. /\ record' = [r \in Runs |->
                [deferred |-> disk.deferred[r], store |-> left[r],
                 task |-> IF record[r].task = "active" THEN "recovering" ELSE record[r].task]]
      /\ thread' = [t \in Runs |-> Repaired(threads[t])]
      BY <1>1
<1> HIDE DEF left, threads
<1>10. /\ record' \in [Runs -> Records]
       /\ \A q \in Runs : record'[q].deferred = disk.deferred[q] /\ record'[q].store = left[q]
       BY <1>7, <1>9 DEF SubagentInv, Shape, Records, Disks
<1>11. ASSUME NEW q \in Runs, record[q] = NewRecord, disk.deferred[q] = "none", left[q] = "none"
       PROVE  record'[q] = NewRecord
       BY <1>9, <1>11 DEF NewRecord
<1>12. \A t \in Runs : /\ thread'[t] \in ThreadRecords
                       /\ thread'[t].status = "none" <=> threads[t].status = "none"
                       /\ AtRest(thread'[t])
       BY <1>8, <1>9, RepairFacts
<1>13. thread' \in [Runs -> ThreadRecords]
       <2>1. thread' = [t \in Runs |-> thread'[t]]
             BY <1>9
       <2> QED
           BY <1>12, <2>1
<1>14. Saves /\ disk'.deferred = disk.deferred /\ disk'.thread = thread'
       /\ \A q \in Runs : disk'.store[q] = record'[q].store
       <2> DEFINE files == {"store", "thread"}
       <2>1. disk \in Disks
             BY DEF SubagentInv, Shape
       <2>2. Writes(files) /\ "deferred" \notin files /\ "thread" \in files /\ "store" \in files
             BY <1>2
       <2> HIDE DEF files
       <2> QED
           BY <1>10, <1>13, <2>1, <2>2, WriteFacts
<1>15. ASSUME NEW q \in Runs
       PROVE  /\ run'[q] \in RunRecords
              /\ run'[q].stage \in {"new", "over", "lost"}
              /\ run'[q].stage \in {"new", "over"} => run'[q] = run[q]
              /\ run[q].stage \notin {"new", "over"} => run'[q].stage = "lost"
       <2>1. run'[q] = IF run[q].stage \in {"new", "over", "lost"} THEN run[q]
                       ELSE [NewRun EXCEPT !.stage = "lost"]
             BY <1>2
       <2> QED
           BY <2>1 DEF SubagentInv, Shape, RunRecords, RunStages, NewRun
<1>16. run' \in [Runs -> RunRecords]
       <2>1. run' = [r \in Runs |-> run'[r]]
             BY <1>2
       <2> QED
           BY <1>15, <2>1
<1>17. \A q \in Runs : ~Unsettled(q)'
       BY <1>15 DEF Unsettled, Flying, InLine, InHand
<1>18. Shape'
       BY <1>2, <1>6, <1>10, <1>13, <1>14, <1>16 DEF Shape, Saves
<1>19. Lines'
       BY <1>2, <1>17, ClearedLines
<1>20. ToldAlike'
       <2> SUFFICES ASSUME NEW q \in Runs PROVE Agrees(q)' /\ Trails(q)'
           BY DEF ToldAlike
       <2>1. Agrees(q) /\ Trails(q) /\ record[q] \in Records
             BY DEF SubagentInv, ToldAlike, Shape
       <2>2. run[q].stage = "new" => /\ record[q] = NewRecord /\ left[q] = "none"
                                     /\ disk.deferred[q] = "none" /\ q \notin account.stopped
             BY <1>7, <2>1 DEF Agrees, Trails, NewRecord
       <2>3. run'[q].stage = "new" => record'[q] = NewRecord /\ q \notin account'.stopped
             BY <1>6, <1>11, <1>15, <2>2
       <2>4. q \in account'.torn => run'[q].stage \in {"over", "lost"}
             <3>1. run[q].stage = "new" => q \notin torn
                   BY <1>4, <2>1, <2>2 DEF Agrees, NewRecord, Outcomes
             <3> QED
                 BY <1>6, <1>15, <3>1
       <2>5. ASSUME q \notin account'.torn
             PROVE  /\ record'[q].deferred # "none" => record'[q].store = record'[q].deferred
                    /\ run'[q].stage = "over" => record'[q].deferred \in Outcomes
             <3>1. /\ q \notin account.torn /\ left[q] = record[q].store
                   /\ record[q].deferred \in Outcomes => disk.deferred[q] = record[q].deferred
                   BY <1>4, <1>6, <2>5
             <3> QED
                 BY <1>10, <1>15, <2>1, <3>1 DEF Agrees, Trails, Records
       <2>6. Agrees(q)'
             BY <1>17, <2>3, <2>4, <2>5 DEF Agrees
       <2>7. q \in account.stopped => left[q] # "resolved"
             <3>1. run[q].stage = "ending" /\ q \in account.stopped => Outcome(q) = "aborted"
                   BY <2>1 DEF Agrees, Unsettled, Outcome
             <3> QED
                 BY <1>7, <2>1, <3>1 DEF Trails
       <2>8. Trails(q)'
             BY <1>6, <1>10, <1>14, <2>1, <2>7 DEF Trails
       <2> QED
           BY <2>6, <2>8
<1>21. Begun'
       <2>1. ASSUME NEW t \in Runs, thread'[t].status # "none" \/ t \in account'.gone
             PROVE  run'[t].stage \notin {"new", "queued"}
             <3>1. threads[t].status # "none" \/ t \in account.gone
                   BY <1>6, <1>12, <2>1
             <3>2. run[t].stage # "new"
                   BY <1>8, <3>1 DEF SubagentInv, Threaded, Begun, Filed
             <3> QED
                 BY <1>15, <3>2
       <2> QED
           BY <1>17, <2>1 DEF Begun
<1>22. ClosedIsQuiet'
       BY <1>17 DEF ClosedIsQuiet
<1>23. IdleIsSettled'
       BY <1>12 DEF IdleIsSettled, AtRest
<1>24. PutAwayStaysAway'
       <2> SUFFICES ASSUME NEW t \in account.gone \ account.late PROVE thread'[t].status = "none"
           BY <1>6 DEF PutAwayStaysAway
       <2>1. t \in Runs /\ thread[t].status = "none" /\ disk.thread[t].status = "none"
             BY DEF SubagentInv, Shape, Accounts, Threaded, PutAwayStaysAway, Filed
       <2> QED
           BY <1>8, <1>12, <2>1
<1>25. Threaded'
       BY <1>21, <1>22, <1>23, <1>24 DEF Threaded
<1>26. Filed'
       <2>1. \A t \in Runs : run[t].stage \notin {"new", "queued"}
                                 => run'[t].stage \notin {"new", "queued"}
             BY <1>15
       <2> QED
           BY <1>6, <1>14, <1>25, <2>1, FiledKeeps
<1> QED
    BY <1>18, <1>19, <1>20, <1>25, <1>26 DEF SubagentInv

LEMMA InitInv == InitSubagentRuns => SubagentInv
<1> SUFFICES ASSUME InitSubagentRuns PROVE SubagentInv
    OBVIOUS
<1>1. /\ run = [r \in Runs |-> NewRun] /\ thread = [t \in Runs |-> NoThread]
      /\ chain = [t \in Runs |-> Nobody] /\ copying = {}
      /\ record = [r \in Runs |-> NewRecord]
      /\ disk = [deferred |-> [r \in Runs |-> "none"], store |-> [r \in Runs |-> "none"],
                 thread |-> [t \in Runs |-> NoThread]]
      /\ account = [upsets |-> 0, stopped |-> {}, gone |-> {}, late |-> {}, torn |-> {},
                    stuck |-> {}]
      BY DEF InitSubagentRuns
<1>2. /\ NewRun \in RunRecords /\ NoThread \in ThreadRecords /\ NewRecord \in Records
      /\ NewRun.stage = "new" /\ NoThread.status = "none"
      /\ NewRecord.deferred = "none" /\ NewRecord.store = "none"
      BY DEF NewRun, NoThread, NewRecord, RunRecords, ThreadRecords, Records, RunStages
<1>3. Shape
      BY <1>1, <1>2, SubagentAssumption DEF Shape, Accounts, Disks
<1>4. \A q \in Runs : ~Unsettled(q) /\ run[q].stage = "new"
      BY <1>1, <1>2 DEF Unsettled, Flying, InLine, InHand
<1>5. Lines
      BY <1>1, <1>4, EmptyLines
<1>6. ToldAlike
      BY <1>1, <1>2, <1>4 DEF ToldAlike, Agrees, Trails
<1>7. Threaded /\ Filed
      BY <1>1, <1>2, <1>4 DEF Threaded, Begun, ClosedIsQuiet, IdleIsSettled, PutAwayStaysAway, Filed
<1> QED
    BY <1>3, <1>5, <1>6, <1>7 DEF SubagentInv

LEMMA StepInv == SubagentInv /\ [NextSubagentRuns]_subagentVars => SubagentInv'
<1> SUFFICES ASSUME SubagentInv, [NextSubagentRuns]_subagentVars PROVE SubagentInv'
    OBVIOUS
<1>1. ASSUME NEW r \in Runs, Dispatch(r) PROVE SubagentInv'
      BY <1>1, JoinKeeps, GoesNowhereKeeps, Zenon DEF Dispatch
<1>2. ASSUME NEW r \in Runs, NEW t \in Runs, Reply(r, t) PROVE SubagentInv'
      BY <1>2, JoinKeeps, GoesNowhereKeeps, Zenon DEF Reply
<1>3. ASSUME NEW r \in Runs, RunStep(r) \/ ChildEnds(r) \/ RunTimesOut(r) \/ AbortRun(r)
      PROVE  SubagentInv'
      BY <1>3, ThreadTurnKeeps, ChildReadyKeeps, ChildFailsKeeps, PromptRunsKeeps,
         ChildEndsKeeps, SettlesKeeps, RunTimesOutKeeps, AbortRunKeeps, Zenon DEF RunStep
<1>4. ASSUME NEW t \in Runs, CloseThread(t) \/ ForkStarts(t) \/ ForkEnds(t) PROVE SubagentInv'
      BY <1>4, CloseThreadKeeps, ForksKeep, Zenon
<1>5. ASSUME \/ StopParent \/ AgentDeleted \/ SubagentCrash \/ Flush \/ UNCHANGED subagentVars
      PROVE  SubagentInv'
      BY <1>5, StopParentKeeps, AgentDeletedKeeps, CrashKeeps, FlushKeeps, Zenon
<1> QED
    BY <1>1, <1>2, <1>3, <1>4, <1>5, Zenon DEF NextSubagentRuns

-----------------------------------------------------------------------------
(* The theorems.                                                             *)

THEOREM SubagentInvariance == SpecSubagentRuns => []SubagentInv
<1>1. InitSubagentRuns => SubagentInv
      BY InitInv
<1>2. SubagentInv /\ [NextSubagentRuns]_subagentVars => SubagentInv'
      BY StepInv
<1> QED
    BY <1>1, <1>2, PTL DEF SpecSubagentRuns

\* The runs, the threads, the lines and the three records always have their types, and
\* whoever is last in a line is under way.
THEOREM SubagentTyped == SpecSubagentRuns => []SubagentTypeOK
<1>1. SubagentInv => SubagentTypeOK
      BY DEF SubagentInv, Shape, Lines, Chained, SubagentTypeOK, RunRecords, ThreadRecords, Records,
             Accounts, Disks
<1> QED
    BY <1>1, SubagentInvariance, PTL

\* One run at a time works in the child session of a thread, and none while it is
\* copied, however many are queued and whoever is stopped or dies.
THEOREM OneRunAtATimePerThread == SpecSubagentRuns => []OneRunPerThread
<1>1. ASSUME SubagentInv, NEW t \in Runs
      PROVE  LET at == {r \in Runs : run[r].stage \in InHand /\ run[r].of = t}
             IN  Cardinality(at) + (IF t \in copying THEN 1 ELSE 0) <= 1
      <2> DEFINE at == {r \in Runs : run[r].stage \in InHand /\ run[r].of = t}
      <2>1. PICK f \in [Runs -> Nat] : InOrder(f)
            BY <1>1 DEF SubagentInv, Lines, Line
      <2>2. ASSUME NEW p \in at, NEW q \in at PROVE p = q
            <3> SUFFICES ASSUME p # q PROVE FALSE
                OBVIOUS
            <3>1. /\ Flying(p) /\ Flying(q) /\ run[p].of = run[q].of
                  /\ run[p].stage # "queued" /\ run[q].stage # "queued"
                  BY DEF Flying, InLine, InHand
            <3>2. f[p] # f[q] /\ ~(f[p] < f[q]) /\ ~(f[q] < f[p])
                  BY <2>1, <3>1 DEF InOrder
            <3>3. f[p] \in Nat /\ f[q] \in Nat
                  OBVIOUS
            <3> QED
                BY <3>2, <3>3
      <2>3. t \in copying => at = {}
            BY <1>1 DEF SubagentInv, Lines, Copied, Flying, InLine, InHand
      <2>4. CASE at = {}
            <3>1. Cardinality(at) = 0
                  BY <2>4, FS_EmptySet
            <3> QED
                BY <3>1
      <2>5. CASE at # {}
            <3>1. PICK p \in at : TRUE
                  BY <2>5
            <3>2. at = {p}
                  BY <2>2, <3>1
            <3>3. Cardinality(at) = 1
                  BY <3>2, FS_Singleton
            <3>4. t \notin copying
                  BY <2>3, <2>5
            <3> QED
                BY <3>3, <3>4
      <2> QED
          BY <2>4, <2>5
<1>2. SubagentInv => OneRunPerThread
      BY <1>1 DEF OneRunPerThread
<1> QED
    BY <1>2, SubagentInvariance, PTL

\* The deferred result and the run record of a run agree, and one that was settled has
\* both, over restarts too, unless a write of its own threw or the process died before
\* its outcome was on disk.
THEOREM StoresAgree == SpecSubagentRuns => []OutcomesAgree
<1>1. SubagentInv => OutcomesAgree
      BY DEF SubagentInv, ToldAlike, Agrees, OutcomesAgree, Outcomes
<1> QED
    BY <1>1, SubagentInvariance, PTL

\* A run stopped before its end was recorded is told as a success in neither store,
\* whatever was written of it and whenever the process died.
THEOREM StopsHold == SpecSubagentRuns => []StoppedNeverSucceeds
<1>1. SubagentInv => StoppedNeverSucceeds
      BY DEF SubagentInv, ToldAlike, Trails, StoppedNeverSucceeds, Shape, Accounts
<1> QED
    BY <1>1, SubagentInvariance, PTL

\* Threads that were put away, on disk too, stay away, but for those whose child was
\* being made.
THEOREM ThreadsStayAway == SpecSubagentRuns => []PutAwayStaysAway
<1>1. SubagentInv => PutAwayStaysAway
      BY DEF SubagentInv, Threaded
<1> QED
    BY <1>1, SubagentInvariance, PTL

\* A thread says that something runs in it only while it does, over crashes too, but for
\* one that a run left when neither its end nor its failure could be written.
THEOREM IdleThreadsAreSettled == SpecSubagentRuns => []IdleIsSettled
<1>1. SubagentInv => IdleIsSettled
      BY DEF SubagentInv, Threaded
<1> QED
    BY <1>1, SubagentInvariance, PTL

\* What does not touch the state of a thread cannot open it.
LEMMA OnlyTheLineOpens ==
    ASSUME SubagentInv, NEW t \in Runs \ account.stuck, thread[t].status = "closed",
           disk.thread[t].status = "closed", NextSubagentRuns
    PROVE  thread'[t].status # "open"
<1>1. \A q \in Runs : Unsettled(q) => run[q].of # t
      BY DEF SubagentInv, Threaded, ClosedIsQuiet
<1>2. thread[t].last # "pending" /\ disk.thread[t].last # "pending"
      BY <1>1 DEF SubagentInv, Threaded, IdleIsSettled, Filed, Unsettled, Flying, InLine
<1>3. ASSUME NEW r \in Runs, RunStep(r) PROVE thread'[t].status # "open"
      <2>1. CASE ThreadTurn(r)
            <3>1. /\ Unsettled(r)
                  /\ \/ UNCHANGED thread
                     \/ thread' = [thread EXCEPT ![run[r].of].status = "open",
                                                 ![run[r].of].last = "pending"]
                  BY <2>1 DEF ThreadTurn, Due, Unsettled, Flying, InLine
            <3>2. run[r].of # t
                  BY <1>1, <3>1
            <3> QED
                BY <3>1, <3>2 DEF SubagentInv, Shape
      <2>2. CASE ChildReady(r)
            <3> DEFINE status == IF thread[run[r].of].status = "none" THEN "open"
                                 ELSE thread[run[r].of].status
            <3>1. /\ Unsettled(r)
                  /\ \/ UNCHANGED thread
                     \/ thread' = [thread EXCEPT ![run[r].of].child = TRUE,
                                                 ![run[r].of].status = status]
                  BY <2>2, Zenon DEF ChildReady, Unsettled, Flying, InLine, InHand
            <3> HIDE DEF status
            <3>2. run[r].of # t
                  BY <1>1, <3>1
            <3> QED
                BY <3>1, <3>2 DEF SubagentInv, Shape
      <2>3. CASE ChildFails(r) \/ PromptRuns(r) \/ ChildStops(r)
            <3>1. UNCHANGED thread
                  BY <2>3, Zenon DEF ChildFails, PromptRuns, ChildStops
            <3> QED
                BY <3>1
      <2>4. CASE Settles(r)
            <3>1. Unsettled(r) /\ \E z : thread' = [thread EXCEPT ![run[r].of] = z]
                  BY <2>4, Zenon DEF Settles, Unsettled
            <3>2. run[r].of # t
                  BY <1>1, <3>1
            <3> QED
                BY <3>1, <3>2 DEF SubagentInv, Shape
      <2> QED
          BY <1>3, <2>1, <2>2, <2>3, <2>4 DEF RunStep
<1>4. ASSUME SubagentCrash PROVE thread'[t].status # "open"
      <2>1. PICK cut \in {Nobody} \cup {r \in Runs : run[r].stage = "ending"}, both \in BOOLEAN :
                thread' = [u \in Runs |-> Repaired(ThreadsLeft(cut, both)[u])]
            BY <1>4, Zenon DEF SubagentCrash
      <2>2. ThreadsLeft(cut, both)[t] \in {disk.thread[t], thread[t]}
            BY <1>1, ThreadsLeftFacts
      <2>3. thread'[t] = Repaired(ThreadsLeft(cut, both)[t])
            BY <2>1
      <2> QED
          BY <1>2, <2>2, <2>3 DEF Repaired
<1>5. ASSUME StopParent \/ AgentDeleted PROVE thread'[t].status # "open"
      <2>1. thread'[t] = NoThread
            BY <1>5 DEF StopParent, AgentDeleted
      <2> QED
          BY <2>1 DEF NoThread
<1>6. ASSUME NEW u \in Runs, CloseThread(u) PROVE thread'[t].status # "open"
      <2>1. thread' = [thread EXCEPT ![u].status = "closed"]
            BY <1>6, Zenon DEF CloseThread
      <2> QED
          BY <2>1 DEF SubagentInv, Shape
<1>7. ASSUME \/ \E r \in Runs : Dispatch(r) \/ ChildEnds(r) \/ RunTimesOut(r) \/ AbortRun(r)
             \/ \E r, u \in Runs : Reply(r, u)
             \/ \E u \in Runs : ForkStarts(u) \/ ForkEnds(u)
             \/ Flush
      PROVE  thread'[t].status # "open"
      <2>1. UNCHANGED thread
            BY <1>7, Zenon DEF Dispatch, ChildEnds, RunTimesOut, AbortRun, Reply, ForkStarts,
                   ForkEnds, Joins, GoesNowhere, Flush
      <2> QED
          BY <2>1
<1> QED
    BY <1>3, <1>4, <1>5, <1>6, <1>7, Zenon DEF NextSubagentRuns

\* A thread that was closed, on disk too, is not opened again, by no run and no restart,
\* but for one that a run left when neither its end nor its failure could be written.
THEOREM ClosedThreadsStayClosed == SpecSubagentRuns => ClosedStaysClosed
<1>1. SubagentInv /\ [NextSubagentRuns]_subagentVars
          => [\A t \in Runs \ account.stuck :
                  thread[t].status = "closed" /\ disk.thread[t].status = "closed"
                      => thread'[t].status # "open"]_subagentVars
      BY OnlyTheLineOpens
<1> QED
    BY <1>1, SubagentInvariance, PTL DEF SpecSubagentRuns, ClosedStaysClosed
=============================================================================
