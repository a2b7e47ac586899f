--------------------------- MODULE SessionBranches ---------------------------
(* One session's file is a tree that only grows: a turn that is retried stays  *)
(* in it, off the branch that counts.  Which branch counts is said three times *)
(* over: by the leaf of the runtime's manager, by the head in the manifest     *)
(* store (a leaf and the last entry seen when it was written) and by the last  *)
(* entry of the file.  A retry moves all three, and the fences of the tasks it *)
(* discards, in one commit that may fail or die in between.                    *)
(* src/core/session-turn-actions.ts, src/core/session-branch-head.ts,          *)
(* src/lib/session-jsonl.ts and their callers in src/core/session-coordinator.ts. *)
EXTENDS Integers, Sequences

CONSTANTS
    MaxEntries,   \* bound: entries of the file
    MaxMishaps    \* bound: crashes, and writes that fail

ASSUME BranchAssumption == MaxEntries \in Nat /\ MaxMishaps \in Nat

VARIABLES
    file,      \* the entries, in the order they were appended
    head,      \* the head of the session in the manifest store
    runtime,   \* the runtime: its leaf, the last entry its manager knows, its turn
    retry,     \* the retry of a user's turn being prepared
    notice,    \* the outcomes told and those fenced, and the fences not saved yet
    chapter    \* what has happened (history, read by properties and bounds only)
branchVars == <<file, head, runtime, retry, notice, chapter>>

\* Entries are named by their place in the file, 0 is "before the first".  An answer
\* carries the task it starts, named after it; a custom message the task it tells of.
Entries == 0 .. MaxEntries
Kinds == {"user", "custom", "answer", "note"}
NoRetry == [on |-> FALSE, kind |-> "user", task |-> 0, up |-> 0, gone |-> {}, old |-> FALSE,
            leaf |-> 0]

\* createSession writes the head of the empty session.
InitSessionBranches ==
    /\ file = <<>>
    /\ head = [leaf |-> 0, seen |-> 0]
    /\ runtime = [on |-> TRUE, leaf |-> 0, last |-> 0, turn |-> "no"]
    /\ retry = NoRetry
    /\ notice = [told |-> {}, fenced |-> {}, unsaved |-> {}]
    /\ chapter = [mishaps |-> 0, shown |-> {0}, loose |-> "no", elsewhere |-> FALSE, stray |-> {}]

----------------------------------------------------------------------------
(* The tree                                                                  *)

\* lineageToRoot and isDescendantOf
Lineage(log) == LET line[e \in 0 .. Len(log)] == IF e = 0 THEN {} ELSE {e} \cup line[log[e].up]
                IN line
Line(e) == Lineage(file)[e]
Under(e, above) == above = 0 \/ above \in Line(e)

\* projectCurrentSessionBranchEntries: what was appended after the head was written is
\* taken for the continuation of its branch, unless it continues what the head left behind.
Projected ==
    LET tail == Len(file)
        discarded == head.seen # 0 /\ head.leaf # head.seen /\ Under(tail, head.seen)
    IN  IF tail # head.seen /\ Under(tail, head.leaf) /\ ~discarded THEN tail ELSE head.leaf

\* The conversation on a branch, without the records the program keeps for itself.
Conversation(e) == {i \in Line(e) : file[i].kind # "note"}
\* Mutant of TasksOf: entries of no task are not left out.
TasksAndNone(entries) == {file[i].task : i \in entries}
TasksOf(entries) == {file[i].task : i \in entries} \ {0}
Untold == {i \in 1 .. Len(file) : file[i].kind = "answer" /\ file[i].task = i}
        \ (notice.told \cup notice.fenced)

Entry(up, kind, task) == [up |-> up, kind |-> kind, task |-> task]
Room(n) == Len(file) + n <= MaxEntries
AtRest == runtime.on /\ runtime.turn = "no"

\* The manager of the runtime appends to its leaf.
Extends(kind, task) ==
    /\ Room(1)
    /\ file' = Append(file, Entry(runtime.leaf, kind, task))
    /\ runtime' = [runtime EXCEPT !.leaf = Len(file'), !.last = Len(file'),
                                  !.turn = IF @ = "no" /\ kind # "note" THEN kind ELSE @]

----------------------------------------------------------------------------
(* Runtimes, turns and the head                                              *)

Mishap(n) == chapter.mishaps + n <= MaxMishaps
\* Mutant of Synced: the last entry seen is not noted.
SyncedUnseen == [leaf |-> runtime'.leaf, seen |-> head.seen]
Synced == [leaf |-> runtime'.leaf, seen |-> runtime'.last]
\* ... by a manager that may not know the last entry.
Fit == IF runtime'.last = Len(file') THEN "no" ELSE "torn"

\* A manager is opened at the branch the head says; the tasks of what this leaves out are
\* off the branch.
Reopened(at) ==
    [chapter EXCEPT !.loose = "no", !.shown = {at},
         !.stray = @ \cup (Untold \cap UNION {Line(e) \ Line(Projected) : e \in chapter.shown})]

\* createSession of a file (applyStoredSessionBranchHead, "session_restore_ready").
Opens ==
    /\ ~runtime.on
    /\ runtime' = [on |-> TRUE, leaf |-> Projected, last |-> Len(file), turn |-> "no"]
    /\ head' = Synced
    /\ chapter' = Reopened(Projected)
    /\ UNCHANGED <<file, retry, notice>>

\* readManifestSessionBranch: lists and histories read the branch and note the tail.
ReadsBranch ==
    /\ head' = [leaf |-> Projected, seen |-> Len(file)]
    /\ UNCHANGED <<file, runtime, retry, notice, chapter>>

\* An idle runtime is evicted or hibernated; a retry being prepared keeps its manager.
LetsGo ==
    /\ AtRest
    /\ runtime' = [runtime EXCEPT !.on = FALSE]
    /\ retry' = IF retry.on /\ ~retry.old
                THEN [retry EXCEPT !.old = TRUE, !.leaf = runtime.leaf] ELSE retry
    /\ chapter' = [chapter EXCEPT !.shown = {runtime.leaf}]
    /\ UNCHANGED <<file, head, notice>>

UserTurnStarts ==
    /\ AtRest
    /\ Extends("user", 0)
    /\ UNCHANGED <<head, retry, notice, chapter>>

\* The answer of a turn, or one of its answers; its tool call may have started a task.
Answers ==
    /\ runtime.turn # "no"
    /\ \E task \in {0, Len(file) + 1} : Extends("answer", task)
    /\ UNCHANGED <<head, retry, notice, chapter>>

\* syncSessionBranchHeadAfterAppend: a failure is reported and nothing more; a custom
\* message that throws does not come to it.
TurnEnds ==
    /\ runtime.turn # "no"
    /\ runtime' = [runtime EXCEPT !.turn = "no"]
    /\ \/ /\ head' = Synced
          /\ chapter' = [chapter EXCEPT !.loose = "no"]
       \/ /\ Mishap(1)
          /\ chapter' = [chapter EXCEPT !.mishaps = @ + 1]
          /\ UNCHANGED head
    /\ UNCHANGED <<file, retry, notice>>

\* recordCustomEntry and the like, by the runtime or by a manager opened for it.
Records ==
    /\ \/ /\ runtime.on
          /\ Extends("note", 0)
          /\ head' = Synced
          /\ chapter' = [chapter EXCEPT !.loose = "no"]
       \/ /\ ~runtime.on /\ Room(1)
          /\ file' = Append(file, Entry(Projected, "note", 0))
          /\ head' = [leaf |-> Len(file'), seen |-> Len(file')]
          /\ chapter' = Reopened(Len(file'))
          /\ UNCHANGED runtime
    /\ UNCHANGED <<retry, notice>>

\* deliverCustomMessage of an outcome: as a turn of its own, or queued behind the turn
\* under way, when the branch is noted before the message is appended.
Tells(t) ==
    /\ t \in Untold /\ runtime.on
    /\ Extends("custom", t)
    /\ notice' = [notice EXCEPT !.told = @ \cup {t}]
    /\ \/ AtRest /\ UNCHANGED <<head, chapter>>
       \/ /\ ~AtRest
          /\ head' = [leaf |-> runtime.leaf, seen |-> runtime.last]
          /\ chapter' = [chapter EXCEPT !.loose = "no"]
       \/ /\ ~AtRest /\ Mishap(1)
          /\ chapter' = [chapter EXCEPT !.mishaps = @ + 1]
          /\ UNCHANGED head
    /\ UNCHANGED retry

----------------------------------------------------------------------------
(* The retry of a turn                                                       *)

\* Mutant of Discarded: also what a kept entry started and a discarded one speaks of.
DiscardedUnsifted(i, leaf) == TasksOf(Line(leaf) \ Line(file[i].up))
\* The turn is discarded from its input on, the tasks it started with it.
Discarded(i, leaf) == TasksOf(Line(leaf) \ Line(file[i].up)) \ TasksOf(Line(file[i].up))
Plan(i) == [on |-> TRUE, kind |-> file[i].kind, task |-> file[i].task, up |-> file[i].up,
            gone |-> Discarded(i, runtime.leaf), old |-> FALSE, leaf |-> 0]
Inputs(kind) == {i \in Line(runtime.leaf) : file[i].kind = kind}

\* The retry of a user's turn awaits its media, its submission and the preparation of
\* its prompt before the commit; the retry of a custom message awaits nothing.
RetryBegins ==
    /\ AtRest /\ ~retry.on
    /\ \E i \in Inputs("user") : retry' = Plan(i)
    /\ UNCHANGED <<file, head, runtime, notice, chapter>>

\* A file that is missing, a session that is busy, a preflight that fails
RetryGivenUp ==
    /\ retry.on
    /\ retry' = NoRetry
    /\ UNCHANGED <<file, runtime, notice>>
    /\ \/ UNCHANGED <<head, chapter>>
       \/ /\ AtRest   \* in the finally of the prompt
          /\ head' = Synced
          /\ chapter' = [chapter EXCEPT !.loose = Fit]

Plans == IF ~AtRest THEN {} ELSE IF retry.on THEN {retry} ELSE {Plan(i) : i \in Inputs("custom")}

\* The commit works on the manager it was planned with, and writes the head of the
\* session with the last entry the present runtime's manager knows.
Origin(p) == IF p.old THEN p.leaf ELSE runtime.leaf
Rewound(p) == [leaf |-> p.up, seen |-> runtime.last]
ResetOf(p) == Entry(p.up, "note", 0)
\* Mutant of FencedAway: the discarded tasks may still tell.
FencedNot(p) == notice
FencedAway(p) == [notice EXCEPT !.fenced = @ \cup p.gone, !.unsaved = @ \cup p.gone]

\* Every step succeeds, and the input is prompted again.
RetryCommits(p) ==
    /\ Room(2)
    /\ head' = Rewound(p)
    /\ LET log == Append(file, ResetOf(p))
           from == IF p.old THEN runtime.leaf ELSE Len(log)
       IN  file' = Append(log, Entry(from, p.kind, p.task))
    /\ runtime' = [runtime EXCEPT !.leaf = Len(file'), !.last = Len(file'), !.turn = p.kind]
    /\ notice' = FencedAway(p)
    /\ retry' = NoRetry
    /\ chapter' = [chapter EXCEPT !.loose = IF p.old THEN "torn" ELSE "no", !.elsewhere = @ \/ p.old,
           !.stray = IF p.old THEN @
                     ELSE @ \cup (Untold \cap (Line(runtime.leaf) \ (Line(p.up) \cup p.gone)))]

\* A crash loses the fences of the last second or none.
Loses(shown) ==
    \E lost \in {{}, notice.unsaved} :
        /\ notice' = [notice EXCEPT !.fenced = @ \ lost, !.unsaved = {}]
        /\ chapter' = [chapter EXCEPT !.mishaps = @ + 1, !.stray = @ \cup lost, !.shown = shown]

\* The server dies after the head was written, before or after the reset marker; its
\* fences are saved within a second only.
RetryDies(p, marked) ==
    /\ Room(1) /\ Mishap(1)
    /\ head' = Rewound(p)
    /\ file' = IF marked THEN Append(file, ResetOf(p)) ELSE file
    /\ runtime' = [runtime EXCEPT !.on = FALSE]
    /\ retry' = NoRetry
    /\ Loses({runtime.leaf, p.up})

\* A step fails: the fences are lifted, the leaf is put back with a marker of its own
\* ("noted"), then the head ("settled"), and the prompt of a user's turn notes the branch
\* as ever ("synced"); each of these writes may fail too.
Restored(p) == [leaf |-> Origin(p), seen |-> runtime'.last]
RetryIsUndone(p, marked, noted, settled, synced) ==
    /\ Room(2) /\ (settled => noted) /\ (synced => p.kind = "user")
    /\ LET log == IF marked THEN Append(file, ResetOf(p)) ELSE file
       IN  file' = IF noted THEN Append(log, Entry(Origin(p), "note", 0)) ELSE log
    /\ runtime' = IF p.old THEN runtime
                  ELSE [runtime EXCEPT !.leaf = IF noted THEN Len(file') ELSE @, !.last = Len(file')]
    /\ head' = IF synced THEN Synced ELSE IF settled THEN Restored(p) ELSE Rewound(p)
    /\ retry' = NoRetry
    /\ LET hits == 1 + (IF settled THEN 0 ELSE 1) + (IF p.kind = "user" /\ ~synced THEN 1 ELSE 0)
       IN  Mishap(hits) /\ chapter' = [chapter EXCEPT !.mishaps = @ + hits,
               !.loose = IF synced THEN Fit ELSE IF settled /\ ~p.old THEN "undone" ELSE "torn"]
    /\ UNCHANGED notice

\* The very first write fails: the leaf is put back, and that is all.
RetryRefused(p) ==
    /\ Mishap(1)
    /\ UNCHANGED <<file, runtime, notice>>
    /\ head' = IF p.kind = "user" THEN Synced ELSE head
    /\ retry' = NoRetry
    /\ chapter' = [chapter EXCEPT !.mishaps = @ + 1, !.loose = IF p.kind = "user" THEN Fit ELSE @]

BranchCrash ==
    /\ Mishap(1)
    /\ runtime' = [runtime EXCEPT !.on = FALSE, !.turn = "no"]
    /\ retry' = NoRetry
    /\ Loses(IF runtime.on THEN {runtime.leaf} ELSE chapter.shown)
    /\ UNCHANGED <<file, head>>

NextSessionBranches ==
    \/ Opens \/ ReadsBranch \/ LetsGo
    \/ UserTurnStarts \/ Answers \/ TurnEnds \/ Records
    \/ \E t \in Untold : Tells(t)
    \/ RetryBegins \/ RetryGivenUp
    \/ \E p \in Plans :
        \/ RetryCommits(p) \/ RetryRefused(p)
        \/ \E marked \in BOOLEAN : RetryDies(p, marked)
        \/ \E marked, noted, settled, synced \in BOOLEAN :
              RetryIsUndone(p, marked, noted, settled, synced)
    \/ BranchCrash

SpecSessionBranches == InitSessionBranches /\ [][NextSessionBranches]_branchVars

----------------------------------------------------------------------------
BranchesTypeOK ==
    /\ file \in Seq([up : Entries, kind : Kinds, task : Entries]) /\ Len(file) <= MaxEntries
    /\ \A e \in 1 .. Len(file) : file[e].up < e
    /\ head \in [leaf : 0 .. Len(file), seen : 0 .. Len(file)]
    /\ runtime \in [on : BOOLEAN, leaf : 0 .. Len(file), last : 0 .. Len(file),
                    turn : {"no", "user", "custom"}]
    /\ retry.gone \subseteq 1 .. Len(file) /\ retry.leaf \in 0 .. Len(file)
    /\ notice.told \cup notice.fenced \subseteq 1 .. Len(file)

\* What a reopening of the session would show is the conversation the runtime has, turn
\* under way included, or had when it went away; of a retry that died half-way, the
\* conversation with the turn or without it.  The exceptions are those of the code, until
\* the next turn's end: what follows a retry of a custom message that was undone; and a
\* retry that could not be undone as a whole, or whose runtime was let go of meanwhile.
ReopeningShowsTheBranch ==
    LET shown == IF runtime.on THEN {runtime.leaf} ELSE chapter.shown
        excused == \/ chapter.loose = "torn"
                   \/ chapter.loose = "undone" /\ file[Len(file)].kind # "note"
    IN  excused \/ \E e \in shown : Conversation(Projected) = Conversation(e)

\* An outcome is told on a branch that holds the call it answers.  The exceptions: the
\* call was lost with a reopening or a fence with a crash, or it was made while the
\* retry that discards it was being prepared.
OutcomesMeetTheirCall ==
    [][\A t \in notice'.told \ notice.told : t \in Line(runtime.leaf) \cup chapter.stray]_branchVars

\* A fence silences no task whose call is still on the branch, which would wait for it
\* in vain: the fences of a retry that failed are lifted, and a task that a kept entry
\* started is not discarded with an entry that speaks of it.
FencedIsDiscarded ==
    runtime.on /\ ~chapter.elsewhere => notice.fenced \cap Line(runtime.leaf) = {}
=============================================================================
