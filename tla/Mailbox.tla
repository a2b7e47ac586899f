-------------------------------- MODULE Mailbox --------------------------------
(* What the delivery of deferred results promises to who waits for them.  A    *)
(* letter is issued open, becomes due when its outcome is known, is handed     *)
(* over and closed.  It is handed over when it is due and never again, unless  *)
(* the first time is in doubt; it is closed when it was handed over beyond     *)
(* doubt, or silenced; and nothing silenced is handed over.  There is no       *)
(* coordinator here, no bridge, no session and no timer.                       *)
EXTENDS Naturals

CONSTANT Task

VARIABLES
    letter,  \* where the letter of each task stands, and which issue it is
    saved,   \* what a crash leaves of it
    issued,  \* how many letters a task has had
    held,    \* the issue a courier is on its way with, or 0
    told,    \* the issues handed over
    doubt    \* those of them that may not have arrived, or not be known to have
vars == <<letter, saved, issued, held, told, doubt>>

None == [state |-> "none", issue |-> 0]
Letter(s, n) == [state |-> s, issue |-> n]
Finished(l) == l.state \in {"done", "silent"}
Heard(t) == told[t] \ doubt[t]

Init ==
    /\ letter = [t \in Task |-> None] /\ saved = letter
    /\ issued = [t \in Task |-> 0] /\ held = issued
    /\ told = [t \in Task |-> {}] /\ doubt = told

\* A task begins, or begins again whatever became of it.
Issue(t) ==
    /\ held[t] = 0
    /\ issued' = [issued EXCEPT ![t] = @ + 1]
    /\ letter' = [letter EXCEPT ![t] = Letter("open", issued[t] + 1)]
    /\ UNCHANGED <<saved, held, told, doubt>>

Becomes(t, s) == letter' = [letter EXCEPT ![t] = Letter(s, letter[t].issue)]

HandOver(t, n) ==
    /\ n \notin Heard(t)
    /\ told' = [told EXCEPT ![t] = @ \cup {n}]
    /\ doubt' = [doubt EXCEPT ![t] = @ \ {n}]

\* A letter that is due waits, goes with a courier, or is handed over at once.
Serve(t) ==
    \/ UNCHANGED <<held, told, doubt>>
    \/ /\ held[t] = 0 /\ held' = [held EXCEPT ![t] = letter[t].issue]
       /\ UNCHANGED <<told, doubt>>
    \/ held[t] = 0 /\ HandOver(t, letter[t].issue) /\ UNCHANGED held

\* The outcome is there; or it comes too late for a recipient that has gone.
Settle(t) ==
    /\ letter[t].state = "open"
    /\ \/ Becomes(t, "due") /\ Serve(t)
       \/ Becomes(t, "silent") /\ UNCHANGED <<held, told, doubt>>
    /\ UNCHANGED <<saved, issued>>

Attend(t) == letter[t].state = "due" /\ Serve(t) /\ UNCHANGED <<letter, saved, issued>>

\* The courier arrives, with a letter that is still due or was thrown away
\* on the way, or comes back with it.
Arrive(t) ==
    /\ held[t] # 0 /\ held' = [held EXCEPT ![t] = 0]
    /\ \/ letter[t] = Letter("due", held[t]) \/ letter[t].state = "none"
       /\ HandOver(t, held[t])
    /\ UNCHANGED <<letter, saved, issued>>
ComeBack(t) ==
    /\ held[t] # 0 /\ held' = [held EXCEPT ![t] = 0]
    /\ UNCHANGED <<letter, saved, issued, told, doubt>>

\* What was handed over beyond doubt is closed.
Close(t) ==
    /\ letter[t].state = "due" /\ letter[t].issue \in Heard(t)
    /\ Becomes(t, "done")
    /\ UNCHANGED <<saved, issued, held, told, doubt>>

\* What is not closed yet may turn out not to have arrived.
Fail(t) ==
    /\ \E n \in told[t] : /\ letter[t] # Letter("done", n)
                          /\ doubt' = [doubt EXCEPT ![t] = @ \cup {n}]
    /\ UNCHANGED <<letter, saved, issued, held, told>>

Silence ==
    /\ UNCHANGED <<saved, issued, held, told, doubt>>
    /\ \A t \in Task : \/ letter'[t] = letter[t]
                       \/ /\ letter[t].state # "none"
                          /\ letter'[t] = Letter("silent", letter[t].issue)

ThrowAway(t) ==
    /\ Finished(letter[t])
    /\ letter' = [letter EXCEPT ![t] = None]
    /\ UNCHANGED <<saved, issued, held, told, doubt>>

Save == UNCHANGED <<letter, issued, held, told, doubt>> /\ saved' = letter

\* Letters are again what was saved of them; only of those saved as finished is it
\* known that they were handed over.
Crash ==
    /\ UNCHANGED <<saved, issued, told>>
    /\ held' = [t \in Task |-> 0]
    /\ doubt' = [t \in Task |-> told[t] \ (IF Finished(saved[t]) THEN {saved[t].issue} ELSE {})]
    /\ \A t \in Task : letter'[t] = saved[t] \/ (Finished(saved[t]) /\ letter'[t] = None)

Next ==
    \/ Save \/ Silence \/ Crash
    \/ \E t \in Task : \/ Issue(t) \/ Settle(t) \/ Attend(t) \/ Arrive(t) \/ ComeBack(t)
                       \/ Close(t) \/ Fail(t) \/ ThrowAway(t)

Spec == Init /\ [][Next]_vars
=============================================================================
