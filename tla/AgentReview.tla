------------------------------ MODULE AgentReview ------------------------------
(* Review turns: the user's message of a session is first given to another     *)
(* agent, in a session of its own; its answer and the message then become a    *)
(* turn of the reviewed session, which takes no other prompt meanwhile.        *)
(* src/lib/agent-review/turn-coordinator.ts, with the abort and prompt         *)
(* handlers of src/server/routes/chat.ts and the submission slot of            *)
(* src/core/desktop-session-submit.ts, for one reviewed session.               *)
EXTENDS Integers, FiniteSets

CONSTANTS
    Reviews,     \* the review turns that may be asked of the session
    NoReview,    \* stands for no review
    MaxStops,    \* bound: stops that meet a review
    MaxPlain,    \* bound: turns that others submit to the session
    MaxThrows    \* bound: aborts of a reviewer's session that throw

ASSUME AgentReviewAssumption ==
    /\ NoReview \notin Reviews /\ "none" \notin Reviews /\ "plain" \notin Reviews
    /\ MaxStops \in Nat /\ MaxPlain \in Nat /\ MaxThrows \in Nat

VARIABLES
    pending,   \* requestByParentSession of the session
    review,    \* the records, and where runReview has got to with each
    stopping,  \* the cancels of each review that await the abort of its session
    slot,      \* who has a submission to the session under way, and whether it streams
    tale       \* what has happened (history, read by properties and bounds only)
reviewVars == <<pending, review, stopping, slot, tale>>

\* "submitting": its turn of the reviewed session, from the submission to the end.
Stages == {"new", "creating", "aborting", "asking", "submitting", "over"}
States == {"running", "completed", "failed", "cancelled"}
FreeSlot == [of |-> "none", streams |-> FALSE]

InitAgentReview ==
    /\ pending = NoReview
    /\ review = [r \in Reviews |-> [stage |-> "new", state |-> "running", reviewer |-> FALSE]]
    /\ stopping = [r \in Reviews |-> 0]
    /\ slot = FreeSlot
    /\ tale = [stops |-> 0, plain |-> 0, throws |-> 0, early |-> {}, met |-> {}, told |-> {},
               heard |-> {}]

Cancelled(r) == review[r].state = "cancelled"
Ends(r) == review' = [review EXCEPT ![r].stage = "over"]

----------------------------------------------------------------------------
(* start, and runReview from one await to the next.                          *)

\* Reviews that still have a delete of the entry ahead of them and do not hold it: they
\* were cancelled, or lost it to one that was.
Lingering == {q \in Reviews :
    \/ Cancelled(q) /\ (review[q].stage = "submitting" \/ stopping[q] > 0)
    \/ q \in tale.met /\ review[q].stage # "over"}

\* The prompt handler's guard and start's.
StartsReview(r) ==
    /\ review[r].stage = "new" /\ pending = NoReview /\ ~slot.streams
    /\ pending' = r
    /\ review' = [review EXCEPT ![r].stage = "creating"]
    /\ tale' = IF Lingering = {} THEN tale ELSE [tale EXCEPT !.met = @ \cup {r}]
    /\ UNCHANGED <<stopping, slot>>

\* The catch of start: the failure is told and the session released, unless a stop
\* took the review over.
Fails(r) ==
    IF Cancelled(r) THEN Ends(r) /\ UNCHANGED <<pending, tale>>
    ELSE /\ review' = [review EXCEPT ![r].stage = "over", ![r].state = "failed"]
         /\ pending' = NoReview
         /\ tale' = [tale EXCEPT !.told = @ \cup {r}]

\* createDetachedSession returns; a review cancelled meanwhile aborts what it made.
ReviewerCreated(r) ==
    /\ review[r].stage = "creating"
    /\ review' = [review EXCEPT ![r].reviewer = TRUE,
                                ![r].stage = IF Cancelled(r) THEN "aborting" ELSE "asking"]
    /\ UNCHANGED <<pending, stopping, slot, tale>>

\* The session cannot be created, or the reviewer fails or says nothing.
ReviewFails(r) ==
    /\ review[r].stage \in {"creating", "asking"}
    /\ Fails(r)
    /\ UNCHANGED <<stopping, slot>>

\* The abort of a reviewer made for nothing returns or throws: all the same.
LateAbortReturns(r) ==
    /\ review[r].stage = "aborting"
    /\ Ends(r)
    /\ UNCHANGED <<pending, stopping, slot, tale>>

\* Mutant: a stop during the reviewer's turn is not looked at.
GoesOnAnyway(r) == TRUE

\* A review cancelled during the reviewer's turn goes no further.
GoesOn(r) == ~Cancelled(r)

\* The reviewer has answered: the turn of the session is submitted, and refused
\* when another submission has come first.
ReviewerAnswers(r) ==
    /\ review[r].stage = "asking"
    /\ \/ /\ ~GoesOn(r) /\ Ends(r)
          /\ UNCHANGED <<pending, slot, tale>>
       \/ /\ GoesOn(r) /\ slot = FreeSlot
          /\ slot' = [of |-> r, streams |-> FALSE]
          /\ review' = [review EXCEPT ![r].stage = "submitting", ![r].state = "completed"]
          /\ UNCHANGED <<pending, tale>>
       \/ /\ GoesOn(r) /\ slot # FreeSlot
          /\ review' = [review EXCEPT ![r].stage = "over", ![r].state = "failed"]
          /\ pending' = NoReview
          /\ tale' = [tale EXCEPT !.told = @ \cup {r}]
          /\ UNCHANGED slot
    /\ UNCHANGED stopping

\* The turn of the session ends; the entry goes, whoever's it is by now.
ReviewedTurnEnds(r) ==
    /\ review[r].stage = "submitting"
    /\ slot' = FreeSlot
    /\ \/ /\ slot.streams /\ Ends(r) /\ pending' = NoReview
          /\ tale' = [tale EXCEPT !.heard = @ \cup {r}]
       \/ Fails(r)
    /\ UNCHANGED stopping

----------------------------------------------------------------------------
(* The other submissions, and the stop.                                      *)

\* An interjection, a bridge or a delivery submits to the session; a review does not
\* keep these away.
PlainTurnStarts ==
    /\ tale.plain < MaxPlain /\ slot = FreeSlot
    /\ slot' = [of |-> "plain", streams |-> FALSE]
    /\ tale' = [tale EXCEPT !.plain = @ + 1]
    /\ UNCHANGED <<pending, review, stopping>>

\* The prompt has been prepared.
TurnStreams ==
    /\ slot # FreeSlot /\ ~slot.streams
    /\ slot' = [slot EXCEPT !.streams = TRUE]
    /\ UNCHANGED <<pending, review, stopping, tale>>

PlainTurnEnds ==
    /\ slot.of = "plain"
    /\ slot' = FreeSlot
    /\ UNCHANGED <<pending, review, stopping, tale>>

\* Mutant: the entry is kept until the review itself ends.
StopsUnreleased ==
    /\ pending # NoReview /\ tale.stops < MaxStops
    /\ review' = [review EXCEPT ![pending].state = "cancelled"]
    /\ stopping' = IF review[pending].reviewer THEN [stopping EXCEPT ![pending] = @ + 1]
                   ELSE stopping
    /\ UNCHANGED <<pending, slot>>
    /\ tale' = [tale EXCEPT !.stops = @ + 1,
                            !.early = IF review[pending].state = "running"
                                      THEN @ \cup {pending} ELSE @]

\* cancelByParent: the review is cancelled, and released once its session is aborted,
\* at once when it has none yet.
StopsReview ==
    /\ pending # NoReview /\ tale.stops < MaxStops
    /\ review' = [review EXCEPT ![pending].state = "cancelled"]
    /\ IF review[pending].reviewer
       THEN stopping' = [stopping EXCEPT ![pending] = @ + 1] /\ UNCHANGED pending
       ELSE pending' = NoReview /\ UNCHANGED stopping
    /\ tale' = [tale EXCEPT !.stops = @ + 1,
                            !.early = IF review[pending].state = "running"
                                      THEN @ \cup {pending} ELSE @]
    /\ UNCHANGED slot

\* The abort of the reviewer's session returns: the entry goes, whoever's it is.
StopReturns(r) ==
    /\ stopping[r] > 0
    /\ stopping' = [stopping EXCEPT ![r] = @ - 1]
    /\ pending' = NoReview
    /\ UNCHANGED <<review, slot, tale>>

\* It throws: the handler forgets it, and the entry stays.
StopThrows(r) ==
    /\ stopping[r] > 0 /\ tale.throws < MaxThrows
    /\ stopping' = [stopping EXCEPT ![r] = @ - 1]
    /\ tale' = [tale EXCEPT !.throws = @ + 1]
    /\ UNCHANGED <<pending, review, slot>>

\* A stop of a session without a review ends its turn, or the prompt that is being
\* prepared, which then throws.
StopsTurn ==
    /\ pending = NoReview /\ slot # FreeSlot
    /\ slot' = FreeSlot
    /\ \/ slot.of = "plain" /\ UNCHANGED <<pending, review, tale>>
       \/ /\ slot.of # "plain" /\ slot.streams
          /\ Ends(slot.of) /\ tale' = [tale EXCEPT !.heard = @ \cup {slot.of}]
          /\ UNCHANGED pending
       \/ slot.of # "plain" /\ ~slot.streams /\ Fails(slot.of)
    /\ UNCHANGED stopping

ReviewStep(r) ==
    ReviewerCreated(r) \/ ReviewFails(r) \/ LateAbortReturns(r) \/ ReviewerAnswers(r)
    \/ ReviewedTurnEnds(r) \/ StopReturns(r) \/ StopThrows(r)
TurnStep == TurnStreams \/ PlainTurnEnds

NextAgentReview ==
    \/ \E r \in Reviews : StartsReview(r) \/ ReviewStep(r)
    \/ PlainTurnStarts \/ TurnStep \/ StopsReview \/ StopsTurn

\* Sessions are created or not, agents answer or fail, turns end, aborts return.
AgentReviewFairness ==
    /\ \A r \in Reviews : WF_reviewVars(ReviewStep(r))
    /\ WF_reviewVars(TurnStep)

SpecAgentReview == InitAgentReview /\ [][NextAgentReview]_reviewVars
FairAgentReview == SpecAgentReview /\ AgentReviewFairness

----------------------------------------------------------------------------
(* Properties.                                                               *)

AgentReviewTypeOK ==
    /\ pending \in Reviews \cup {NoReview}
    /\ review \in [Reviews -> [stage : Stages, state : States, reviewer : BOOLEAN]]
    /\ stopping \in [Reviews -> 0..MaxStops]
    /\ slot \in [of : {"none", "plain"} \cup {r \in Reviews : review[r].stage = "submitting"},
                 streams : BOOLEAN]
    /\ tale \in [stops : 0..MaxStops, plain : 0..MaxPlain, throws : 0..MaxThrows,
                 early : SUBSET Reviews, met : SUBSET Reviews, told : SUBSET Reviews,
                 heard : SUBSET Reviews]

\* A review that goes on holds the session: prompts are refused until it ends.  One
\* that started while the release of a cancelled review was still to come can lose
\* the session to it.
HoldsTheSession ==
    \A r \in Reviews \ tale.met :
        (review[r].stage \in {"creating", "asking", "submitting"} /\ ~Cancelled(r)) => pending = r

\* A review stopped before its answer was there never speaks in the reviewed session.
StoppedIsSilent == \A r \in tale.early : slot.of # r /\ r \notin tale.heard

\* A review that ends was heard in the session, told to have failed, or stopped: the
\* user's message, which travels with it, is not lost in silence.
EndsWithAnOutcome ==
    \A r \in Reviews : review[r].stage = "over" => r \in tale.heard \cup tale.told \/ Cancelled(r)

\* The session is released in the end, however stops, failures and answers meet,
\* unless the abort of a reviewer's session threw.
SessionReleased == pending # NoReview ~> pending = NoReview \/ tale.throws > 0
=============================================================================
