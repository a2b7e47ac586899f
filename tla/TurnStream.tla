----------------------------- MODULE TurnStream -----------------------------
(* How the transcript of one session reaches the window that shows it: the   *)
(* server numbers the events of each turn, keeps the last of them and        *)
(* broadcasts them; the client remembers what it consumed and, after a lost  *)
(* connection, asks for the rest or rebuilds the transcript from the session *)
(* file.  One session, the one on screen; one window.  src/server/           *)
(* session-stream-store.ts, src/server/routes/chat.ts and, of the client,    *)
(* src/desktop/src/react/services/stream-resume.ts, ws-message-handler.ts    *)
(* and websocket.ts.                                                         *)
EXTENDS Integers, Sequences, FiniteSets

CONSTANTS
    MaxEvents,   \* events a stream keeps (maxEvents; bytes are counted as events)
    MaxSeq,      \* bound: text events of one turn
    MaxStreams,  \* bound: streams begun
    MaxNotices,  \* bound: outcomes of background tasks
    MaxDrops,    \* bound: connections lost
    MaxFaults    \* bound: states evicted, restarts and failed fetches, together

ASSUME BoundsAssumption ==
    /\ MaxEvents \in Nat \ {0} /\ MaxSeq \in Nat /\ MaxStreams \in Nat
    /\ MaxNotices \in Nat /\ MaxDrops \in Nat /\ MaxFaults \in Nat

VARIABLES
    run,      \* the prompt under way on the server
    store,    \* the stream state the server keeps for the session
    disk,     \* the events whose turn is in the session file
    wire,     \* the connection and the messages on it
    client,   \* the client's stream meta and streaming mark
    screen,   \* the transcript the client shows
    rebuild,  \* the rebuild the client is in
    harm,     \* what has gone wrong so far (history, read by properties only)
    used      \* streams, outcomes, drops and faults so far
vars == <<run, store, disk, wire, client, screen, rebuild, harm, used>>

Streams == 1..MaxStreams

NoStore == [id |-> 0, next |-> 1, first |-> 1, live |-> FALSE]
NoMeta == [id |-> 0, last |-> 0, got |-> {}]
Unmarked == [on |-> FALSE, id |-> 0]

Status(on, id) == [kind |-> "status", on |-> on, id |-> id]
Event(id, seq) == [kind |-> "event", id |-> id, seq |-> seq]

Replies == [kind : {"resume"}, id : 0..MaxStreams, from : Nat, next : Nat,
            live : BOOLEAN, reset : BOOLEAN, truncated : BOOLEAN, busy : BOOLEAN]
Requests == [id : 0..MaxStreams, since : Nat]
Messages == [kind : {"status"}, on : BOOLEAN, id : 0..MaxStreams]
            \cup [kind : {"event"}, id : Streams, seq : Nat] \cup Replies
NoReply == [kind |-> "resume", id |-> 0, from |-> 1, next |-> 1, live |-> FALSE,
            reset |-> FALSE, truncated |-> FALSE, busy |-> FALSE]
NoRebuild == [at |-> "none", reply |-> NoReply, found |-> {}, touched |-> FALSE]

Harms == {"answer_lost", "start_unseen", "outcome_unseen", "status_discarded",
          "stream_forgotten", "turn_cut", "fetch_failed", "drop_while_rebuilding"}

Init ==
    /\ run = [at |-> "idle", active |-> FALSE, held |-> FALSE]
    /\ store = NoStore /\ disk = {}
    /\ wire = [up |-> TRUE, stale |-> FALSE, ask |-> <<>>, down |-> <<>>]
    /\ client = [meta |-> NoMeta, mark |-> Unmarked]
    /\ screen = [shown |-> {}, twice |-> {}]
    /\ rebuild = NoRebuild /\ harm = {}
    /\ used = [streams |-> 0, drops |-> 0, faults |-> 0, notices |-> 0]

----------------------------------------------------------------------------
(* The server's stream store.  "o" is what a handler works on: the state of  *)
(* the stream, the streams begun so far and the messages it broadcasts.      *)

Begun(o) == [st |-> [id |-> o.streams + 1, next |-> 1, first |-> 1, live |-> TRUE],
             streams |-> o.streams + 1, out |-> o.out]

Kept(s) == IF s.next - s.first > MaxEvents THEN [s EXCEPT !.first = s.next - MaxEvents] ELSE s

Emitted(o) ==
    LET p == IF o.st.id = 0 THEN Begun(o) ELSE o
    IN  [p EXCEPT !.st = Kept([p.st EXCEPT !.next = @ + 1]),
                  !.out = Append(@, Event(p.st.id, p.st.next))]

Finished(o) == [o EXCEPT !.st.live = FALSE, !.st.first = o.st.next]

Said(o, on) == [o EXCEPT !.out = Append(@, Status(on, o.st.id))]

\* Mutant: a reply that starts later than asked does not say so.
ResumedSilently(s, asked) ==
    IF s.id = 0
    THEN [NoReply EXCEPT !.busy = run.at = "run"]
    ELSE LET other == asked.id # 0 /\ asked.id # s.id
             short == ~other /\ asked.since < s.first - 1
         IN  [kind |-> "resume", id |-> s.id, next |-> s.next, live |-> s.live,
              from |-> IF other \/ short THEN s.first ELSE asked.since + 1,
              reset |-> other, truncated |-> FALSE, busy |-> run.at = "run"]

\* The reply to a request: what the client lacks, or the whole of another stream.
Resumed(s, asked) ==
    IF s.id = 0
    THEN [NoReply EXCEPT !.busy = run.at = "run"]
    ELSE LET other == asked.id # 0 /\ asked.id # s.id
             short == ~other /\ asked.since < s.first - 1
         IN  [kind |-> "resume", id |-> s.id, next |-> s.next, live |-> s.live,
              from |-> IF other \/ short THEN s.first ELSE asked.since + 1,
              reset |-> other, truncated |-> short, busy |-> run.at = "run"]

Now == [st |-> store, streams |-> used.streams, out |-> <<>>]

\* The end of a handler: its state is kept, its messages reach an open connection.
Handled(o) ==
    /\ store' = o.st
    /\ used' = [used EXCEPT !.streams = o.streams]
    /\ wire' = IF wire.up THEN [wire EXCEPT !.down = @ \o o.out] ELSE wire

----------------------------------------------------------------------------
(* The server: a prompt, the turns of its loop, a background outcome.        *)

\* session_status true: the held content goes to the old stream, a new one begins.
StartPrompt ==
    /\ run.at = "idle" /\ used.streams < MaxStreams - 1
    /\ Handled(Said(Begun(IF run.held THEN Emitted(Now) ELSE Now), TRUE))
    /\ run' = [at |-> "run", active |-> TRUE, held |-> FALSE]
    /\ harm' = IF wire.up \/ client.mark.on THEN harm ELSE harm \cup {"start_unseen"}
    /\ UNCHANGED <<disk, client, screen, rebuild>>

\* turn_start of a later turn of the same prompt.
TurnStart ==
    /\ run.at = "run" /\ ~run.active /\ used.streams < MaxStreams - 1
    /\ Handled(Said(Begun(Now), TRUE))
    /\ run' = [run EXCEPT !.active = TRUE]
    /\ harm' = IF wire.up \/ client.mark.on THEN harm ELSE harm \cup {"start_unseen"}
    /\ UNCHANGED <<disk, client, screen, rebuild>>

Emit ==
    /\ run.at = "run" /\ run.active /\ store.next <= MaxSeq
    /\ Handled(Emitted(Now))
    /\ UNCHANGED <<run, disk, client, screen, rebuild, harm>>

\* turn_end: the turn is in the session file, its last event goes out, the kept
\* events are dropped, and the held content follows on the finished stream.
TurnEnd ==
    /\ run.at = "run" /\ run.active
    /\ LET o == Finished(Emitted(Now)) IN Handled(IF run.held THEN Emitted(o) ELSE o)
    /\ run' = [run EXCEPT !.active = FALSE, !.held = FALSE]
    /\ disk' = disk \cup {<<store.id, q>> : q \in 1..store.next}
    /\ UNCHANGED <<client, screen, rebuild, harm>>

\* The SDK's run is over; the submission has still to say so.
SdkStops ==
    /\ run.at = "run"
    /\ run' = [run EXCEPT !.at = "over"]
    /\ UNCHANGED <<store, disk, wire, client, screen, rebuild, harm, used>>

\* session_status false: also ends a turn that never came to its turn_end.
EndPrompt ==
    /\ run.at = "over"
    /\ LET o == Said(IF store.live THEN Finished(Now) ELSE Now, FALSE)
       IN  Handled(IF run.held THEN Emitted(o) ELSE o)
    /\ run' = [at |-> "idle", active |-> FALSE, held |-> FALSE]
    /\ UNCHANGED <<disk, client, screen, rebuild, harm>>

\* deferred_result: its event goes out at once, its files wait for the turn's end.
Notice ==
    /\ used.notices < MaxNotices /\ (store.id # 0 \/ used.streams < MaxStreams)
    /\ \E files \in BOOLEAN :
        LET o == Emitted(Now)
            c == IF files /\ ~run.active THEN Emitted(o) ELSE o
        IN  /\ store' = c.st
            /\ used' = [used EXCEPT !.streams = c.streams, !.notices = @ + 1]
            /\ wire' = IF wire.up THEN [wire EXCEPT !.down = @ \o c.out] ELSE wire
            /\ run' = [run EXCEPT !.held = @ \/ (files /\ run.active)]
    /\ harm' = IF wire.up \/ client.mark.on THEN harm ELSE harm \cup {"outcome_unseen"}
    /\ UNCHANGED <<disk, client, screen, rebuild>>

\* resume_stream is answered from the store.
Answer ==
    /\ wire.up /\ wire.ask # <<>>
    /\ wire' = [wire EXCEPT !.ask = Tail(@), !.down = Append(@, Resumed(store, Head(wire.ask)))]
    /\ UNCHANGED <<run, store, disk, client, screen, rebuild, harm, used>>

----------------------------------------------------------------------------
(* Faults: a lost connection, a state forgotten, a restart.                  *)

Forgotten == IF store.id = 0 THEN {} ELSE {"stream_forgotten"}

Answering == wire.ask # <<>> \/ \E i \in DOMAIN wire.down : wire.down[i].kind = "resume"

\* What a lost connection takes with it that nothing asks for again.
Lost ==
    (IF Answering THEN {"answer_lost"} ELSE {})
    \cup (IF rebuild.at # "none" THEN {"drop_while_rebuilding"} ELSE {})
    \cup (IF ~client.mark.on /\ \E i \in DOMAIN wire.down : wire.down[i].kind = "status"
          THEN {"start_unseen"} ELSE {})
    \cup (IF ~client.mark.on /\ \E i \in DOMAIN wire.down : wire.down[i].kind = "event"
          THEN {"outcome_unseen"} ELSE {})

\* The connection is lost with everything on it; the server need not know yet.
Drop ==
    /\ wire.up /\ used.drops < MaxDrops
    /\ wire' = [up |-> FALSE, stale |-> TRUE, ask |-> <<>>, down |-> <<>>]
    /\ harm' = harm \cup Lost
    /\ used' = [used EXCEPT !.drops = @ + 1]
    /\ UNCHANGED <<run, store, disk, client, screen, rebuild>>

\* onClose: with no other client, a state that is not streaming is let go.  Once the
\* window is back there is another client, and the close lets nothing go.
ServerNotices ==
    /\ wire.stale /\ ~wire.up
    /\ wire' = [wire EXCEPT !.stale = FALSE]
    /\ IF store.live
       THEN UNCHANGED <<run, store, harm>>
       ELSE /\ store' = NoStore /\ harm' = harm \cup Forgotten
            /\ run' = [run EXCEPT !.active = FALSE, !.held = FALSE]
    /\ UNCHANGED <<disk, client, screen, rebuild, used>>

\* getState makes room for another session: a state that is not streaming goes.
Evict ==
    /\ ~store.live /\ store.id # 0 /\ used.faults < MaxFaults
    /\ store' = NoStore /\ harm' = harm \cup Forgotten
    /\ run' = [run EXCEPT !.active = FALSE, !.held = FALSE]
    /\ used' = [used EXCEPT !.faults = @ + 1]
    /\ UNCHANGED <<disk, wire, client, screen, rebuild>>

\* The server process ends and starts anew.
Restart ==
    /\ used.faults < MaxFaults
    /\ run' = [at |-> "idle", active |-> FALSE, held |-> FALSE]
    /\ store' = NoStore /\ harm' = harm \cup Forgotten \cup (IF wire.up THEN Lost ELSE {})
    /\ wire' = [up |-> FALSE, stale |-> FALSE, ask |-> <<>>, down |-> <<>>]
    /\ used' = [used EXCEPT !.faults = @ + 1]
    /\ UNCHANGED <<disk, client, screen, rebuild>>

----------------------------------------------------------------------------
(* The client.  "c" is its meta and mark, "s" the transcript.                *)

\* Mutant: asks from the event before the last one.
AskedEarly(m) == [id |-> m.id, since |-> m.last - 1]

Asked(m) == [id |-> m.id, since |-> m.last]

\* Mutant: nothing is asked for.
ReconnectSilently ==
    /\ ~wire.up
    /\ wire' = [wire EXCEPT !.up = TRUE, !.stale = FALSE]
    /\ UNCHANGED <<run, store, disk, client, screen, rebuild, harm, used>>

\* onopen: a session marked as streaming asks for what it missed.
Reconnect ==
    /\ ~wire.up
    /\ wire' = [wire EXCEPT !.up = TRUE, !.stale = FALSE,
                            !.ask = IF client.mark.on THEN <<Asked(client.meta)>> ELSE <<>>]
    /\ UNCHANGED <<run, store, disk, client, screen, rebuild, harm, used>>

\* The meta turns to a stream: another one starts it from zero.
Turned(m, id) ==
    IF id = 0 \/ m.id = id THEN m
    ELSE IF m.id = 0 THEN [m EXCEPT !.id = id] ELSE [NoMeta EXCEPT !.id = id]

Consumed(m, seqs, upto) ==
    [m EXCEPT !.got = @ \cup seqs, !.last = IF upto > @ THEN upto ELSE @]

Showing(s, events) == [shown |-> s.shown \cup events, twice |-> s.twice \cup (s.shown \cap events)]

MarkedOn(k, id) == [on |-> TRUE, id |-> IF id = 0 THEN k.id ELSE id]

\* A status ends the mark of its own stream only; a resume ends whatever is marked.
MarkedOff(k, id) == IF k.id \in {0, id} THEN Unmarked ELSE k

\* Mutant: a resume, too, ends the mark of its own stream only.
MarkedAsMatched(k, reply) ==
    IF reply.busy THEN MarkedOn(k, reply.id) ELSE MarkedOff(k, reply.id)

MarkedAs(k, reply) == IF reply.busy THEN MarkedOn(k, reply.id) ELSE Unmarked

Front(kind) == wire.up /\ wire.down # <<>> /\ Head(wire.down).kind = kind
Taken == wire' = [wire EXCEPT !.down = Tail(@)]

ReceiveStatus ==
    /\ Front("status") /\ Taken
    /\ LET m == Head(wire.down) IN
        IF rebuild.at # "none"
        THEN /\ harm' = harm \cup {"status_discarded"}
             /\ UNCHANGED client
        ELSE /\ client' = [meta |-> Turned(client.meta, m.id),
                           mark |-> IF m.on THEN MarkedOn(client.mark, m.id)
                                    ELSE MarkedOff(client.mark, m.id)]
             /\ UNCHANGED harm
    /\ UNCHANGED <<run, store, disk, screen, rebuild, used>>

ReceiveEvent ==
    /\ Front("event") /\ Taken
    /\ LET m == Head(wire.down)
           meta == Turned(client.meta, m.id)
       IN  IF rebuild.at # "none" THEN UNCHANGED <<client, screen>>
           ELSE IF m.seq \in meta.got
                THEN client' = [client EXCEPT !.meta = meta] /\ UNCHANGED screen
                ELSE /\ client' = [client EXCEPT !.meta = Consumed(meta, {m.seq}, m.seq)]
                     /\ screen' = Showing(screen, {<<m.id, m.seq>>})
    /\ UNCHANGED <<run, store, disk, rebuild, harm, used>>

\* Mutant: events the server no longer keeps are not rebuilt from the file.
RebuildsIfReset(m) == m.reset

Rebuilds(m) ==
    \/ m.reset \/ m.truncated
    \/ ~m.live /\ m.id # 0 /\ m.from >= m.next /\ m.next > 1

\* The events of a reply that the meta has not consumed, shown and consumed.
\* Mutant: all of them, consumed or not.
ReplayedAll(meta, m) == m.from .. m.next - 1

Replayed(meta, m) == {q \in m.from .. m.next - 1 : q \notin meta.got}
AfterReplay(meta, m) == Consumed(meta, Replayed(meta, m), m.next - 1)

\* stream_resume: a rebuild starts from an empty chat, or the events are replayed.
ReceiveResume ==
    /\ Front("resume") /\ Taken
    /\ LET m == Head(wire.down)
           meta == Turned(client.meta, m.id)
       IN  IF Rebuilds(m)
           THEN /\ rebuild' = [NoRebuild EXCEPT !.at = "asked", !.reply = m]
                /\ client' = [client EXCEPT !.meta = NoMeta]
                /\ screen' = [screen EXCEPT !.shown = {}]
           ELSE /\ client' = [meta |-> AfterReplay(meta, m), mark |-> MarkedAs(client.mark, m)]
                /\ screen' = Showing(screen, {m.id} \X Replayed(meta, m))
                /\ rebuild' = [rebuild EXCEPT !.touched =
                                  @ \/ (rebuild.at # "none" /\ Replayed(meta, m) # {})]
    /\ harm' = LET m == Head(wire.down) IN
               IF m.live /\ Rebuilds(m) /\ m.from > 1 THEN harm \cup {"turn_cut"} ELSE harm
    /\ UNCHANGED <<run, store, disk, used>>

\* loadMessages: the server reads the session file for it.
FetchReads ==
    /\ rebuild.at = "asked"
    /\ rebuild' = [rebuild EXCEPT !.at = "read", !.found = disk]
    /\ UNCHANGED <<run, store, disk, wire, client, screen, harm, used>>

\* loadMessages swallows a failed fetch: the rebuild goes on without the history.
FetchFails ==
    /\ rebuild.at = "asked" /\ used.faults < MaxFaults
    /\ rebuild' = [rebuild EXCEPT !.at = "read", !.touched = TRUE]
    /\ harm' = harm \cup {"fetch_failed"}
    /\ used' = [used EXCEPT !.faults = @ + 1]
    /\ UNCHANGED <<run, store, disk, wire, client, screen>>

\* The rest of the rebuild: history, unless something live came in between, then
\* the reply's events, then its mark; a stream still going is asked for once more.
RebuildEnds ==
    /\ rebuild.at = "read"
    /\ LET m == rebuild.reply
           meta == [Turned(client.meta, m.id) EXCEPT !.last = 0, !.got = {}]
           base == IF rebuild.touched THEN screen ELSE [screen EXCEPT !.shown = rebuild.found]
       IN  /\ client' = [meta |-> AfterReplay(meta, m), mark |-> MarkedAs(client.mark, m)]
           /\ screen' = Showing(base, {m.id} \X Replayed(meta, m))
           /\ wire' = IF wire.up /\ m.live
                      THEN [wire EXCEPT !.ask = Append(@, Asked(client'.meta))] ELSE wire
    /\ rebuild' = NoRebuild
    /\ UNCHANGED <<run, store, disk, harm, used>>

Receive == ReceiveStatus \/ ReceiveEvent \/ ReceiveResume

Server == StartPrompt \/ TurnStart \/ Emit \/ TurnEnd \/ SdkStops \/ EndPrompt \/ Notice \/ Answer
Fault == Drop \/ ServerNotices \/ Evict \/ Restart
Client == Reconnect \/ ReceiveStatus \/ ReceiveEvent \/ ReceiveResume
          \/ FetchReads \/ FetchFails \/ RebuildEnds

Next == Server \/ Fault \/ Client

\* The socket reconnects for ever (scheduleReconnect), the queues of a socket that
\* is up are served in turn, and a fetch comes back; runs need not end.
Fairness ==
    /\ WF_vars(Answer) /\ WF_vars(Receive) /\ WF_vars(Reconnect)
    /\ WF_vars(FetchReads \/ FetchFails) /\ WF_vars(RebuildEnds) /\ WF_vars(EndPrompt)

Spec == Init /\ [][Next]_vars
FairSpec == Spec /\ Fairness

----------------------------------------------------------------------------
(* Properties.                                                               *)

TypeOK ==
    /\ run \in [at : {"idle", "run", "over"}, active : BOOLEAN, held : BOOLEAN]
    /\ store \in [id : 0..MaxStreams, next : Nat \ {0}, first : Nat \ {0}, live : BOOLEAN]
    /\ disk \subseteq Streams \X Nat
    /\ wire \in [up : BOOLEAN, stale : BOOLEAN, ask : Seq(Requests), down : Seq(Messages)]
    /\ client \in [meta : [id : 0..MaxStreams, last : Nat, got : SUBSET Nat],
                   mark : [on : BOOLEAN, id : 0..MaxStreams]]
    /\ screen \in [shown : SUBSET (Streams \X Nat), twice : SUBSET (Streams \X Nat)]
    /\ rebuild \in [at : {"none", "asked", "read"}, reply : Replies,
                    found : SUBSET (Streams \X Nat), touched : BOOLEAN]
    /\ harm \subseteq Harms
    /\ used \in [streams : 0..MaxStreams, drops : 0..MaxDrops, faults : 0..MaxFaults,
                notices : 0..MaxNotices]

Quiet == wire.up /\ wire.ask = <<>> /\ wire.down = <<>> /\ rebuild.at = "none"

\* What the client let pass though the server can still give it.
Hole ==
    /\ rebuild.at = "none"
    /\ \E q \in 1..client.meta.last :
        LET e == <<client.meta.id, q>>
        IN  /\ e \notin screen.shown
            /\ e \in disk \/ (store.live /\ store.id = e[1] /\ q >= store.first)

\* A gap below the last event the client has seen is never silent: while it is
\* there, a request for it or its answer is on the wire, or one of the named
\* things has happened (updateSessionStreamMeta takes a later event for granted).
HoleIsBeingClosed == Hole /\ wire.up => Answering \/ harm # {}

\* When all is quiet the window shows every turn of the session file, whatever was
\* lost on the way, unless one of the named things has happened.
TranscriptComplete == Quiet /\ run.at = "idle" => disk \subseteq screen.shown \/ harm # {}

\* When all is quiet the window says "thinking" exactly while a run is under way.
MarkHonest ==
    Quiet => \/ run.at = "over"
             \/ client.mark.on = (run.at = "run")
             \/ harm \cap {"status_discarded", "start_unseen", "stream_forgotten",
                          "drop_while_rebuilding"} # {}

\* No event of a turn still going is ever shown twice, live and from a replay.
ShownOnce == screen.twice \subseteq disk \/ "drop_while_rebuilding" \in harm

\* A window that says "thinking" after the run has ended stops saying so, unless
\* another run begins or the end of the run was discarded or forgotten.
ThinkingEnds ==
    (client.mark.on /\ run.at = "idle")
        ~> \/ ~client.mark.on \/ run.at # "idle"
           \/ harm \cap {"status_discarded", "stream_forgotten", "drop_while_rebuilding"} # {}

\* As the comment of applyStreamingStatus has it: after a reconnection a session the
\* server says has ended is never left marked.
NeverStuckThinking == Quiet /\ run.at = "idle" => ~client.mark.on
=============================================================================
