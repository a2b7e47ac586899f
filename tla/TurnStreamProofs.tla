-------------------------- MODULE TurnStreamProofs --------------------------
(***************************************************************************)
(* What is proved of the stream of a session and the window that reads it, *)
(* for every number of events kept and every bound on turns and faults.    *)
(***************************************************************************)
EXTENDS TurnStream, SequenceTheorems, TLAPS

-----------------------------------------------------------------------------
(* What a handler of the server works on.                                  *)

Stores == [id : 0..MaxStreams, next : Nat \ {0}, first : Nat \ {0}, live : BOOLEAN]
Works == [st : Stores, streams : 0..MaxStreams, out : Seq(Messages)]

\* A message that may be on the wire: only a stream that is known is replayed.
Told(m) ==
  m \in Messages /\ (m.kind = "resume" /\ m.id = 0 => m.from >= m.next)
Letters == {m \in Messages : Told(m)}

Runs == [at : {"idle", "run", "over"}, active : BOOLEAN, held : BOOLEAN]
Wires == [up : BOOLEAN, stale : BOOLEAN, ask : Seq(Requests), down : Seq(Letters)]
Metas == [id : 0..MaxStreams, last : Nat, got : SUBSET Nat]
Marks == [on : BOOLEAN, id : 0..MaxStreams]
Clients == [meta : Metas, mark : Marks]
Screens == [shown : SUBSET (Streams \X Nat), twice : SUBSET (Streams \X Nat)]
Answers == {m \in Replies : Told(m)}
Rebuilding == [at : {"none", "asked", "read"}, reply : Answers,
               found : SUBSET (Streams \X Nat), touched : BOOLEAN]
Uses == [streams : 0..MaxStreams, drops : 0..MaxDrops, faults : 0..MaxFaults,
         notices : 0..MaxNotices]

\* The types, and what they need to be kept: the stream the store keeps is the
\* newest one, and a turn that is under way or has content held has a stream.
StreamTyped ==
  /\ run \in Runs /\ store \in Stores /\ disk \subseteq Streams \X Nat
  /\ wire \in Wires /\ client \in Clients /\ screen \in Screens
  /\ rebuild \in Rebuilding /\ harm \subseteq Harms /\ used \in Uses
  /\ store.id \in {0, used.streams}
  /\ run.active \/ run.held => store.id # 0

LEMMA LettersAreMessages == Letters \subseteq Messages /\ Answers \subseteq Letters
  BY DEF Letters, Answers, Messages

LEMMA StreamTypes == StreamTyped => TypeOK
  <1> SUFFICES ASSUME StreamTyped PROVE TypeOK
    OBVIOUS
  <1>1. wire.down \in Seq(Messages)
    BY LettersAreMessages, SeqMonotonic DEF StreamTyped, Wires
  <1>2. wire \in [up : BOOLEAN, stale : BOOLEAN, ask : Seq(Requests), down : Seq(Messages)]
    BY <1>1 DEF StreamTyped, Wires
  <1>3. rebuild \in [at : {"none", "asked", "read"}, reply : Replies,
                     found : SUBSET (Streams \X Nat), touched : BOOLEAN]
    BY DEF StreamTyped, Rebuilding, Answers
  <1> QED
    BY <1>2, <1>3
    DEF StreamTyped, TypeOK, Runs, Stores, Clients, Metas, Marks, Screens, Uses

-----------------------------------------------------------------------------
(* What the steps of a handler do to what it works on.                     *)

Working(o) == o \in [st : Stores, streams : 0..MaxStreams, out : Seq(Letters)]
              /\ o.st.id \in {0, o.streams}

LEMMA StatusTold ==
  ASSUME NEW on \in BOOLEAN, NEW id \in 0..MaxStreams
  PROVE  Status(on, id) \in Letters /\ Status(on, id).kind = "status"
         /\ Status(on, id).on = on /\ Status(on, id).id = id
  BY DEF Status, Letters, Told, Messages

LEMMA EventTold ==
  ASSUME NEW id \in Streams, NEW q \in Nat
  PROVE  Event(id, q) \in Letters /\ Event(id, q).kind = "event"
         /\ Event(id, q).id = id /\ Event(id, q).seq = q
  BY DEF Event, Letters, Told, Messages

LEMMA NowWorks ==
  ASSUME StreamTyped
  PROVE  Working(Now) /\ Now.st = store /\ Now.streams = used.streams /\ Now.out = <<>>
  BY EmptySeq DEF StreamTyped, Working, Now, Uses

LEMMA BegunWorks ==
  ASSUME NEW o, Working(o), o.streams < MaxStreams
  PROVE  /\ Working(Begun(o)) /\ Begun(o).st.id = o.streams + 1
         /\ Begun(o).st.id # 0 /\ Begun(o).st.id \in Streams
         /\ Begun(o).st.live = TRUE /\ Begun(o).st.next = 1 /\ Begun(o).st.first = 1
         /\ Begun(o).streams = o.streams + 1 /\ Begun(o).out = o.out
  <1> PICK n : n = o.streams + 1
    OBVIOUS
  <1> PICK s : s = [id |-> n, next |-> 1, first |-> 1, live |-> TRUE]
    OBVIOUS
  <1>1. n \in 0..MaxStreams /\ n \in Streams /\ n # 0
    BY BoundsAssumption DEF Working, Streams
  <1>2. s \in Stores /\ s.id = n /\ s.live = TRUE /\ s.next = 1 /\ s.first = 1
    BY <1>1 DEF Stores
  <1>5. Begun(o) = [st |-> s, streams |-> n, out |-> o.out]
    BY DEF Begun
  <1>6. o.out \in Seq(Letters)
    BY DEF Working
  <1> QED
    BY <1>1, <1>2, <1>5, <1>6 DEF Working

LEMMA KeptStore ==
  ASSUME NEW s \in Stores
  PROVE  /\ Kept([s EXCEPT !.next = @ + 1]) \in Stores
         /\ Kept([s EXCEPT !.next = @ + 1]).id = s.id
         /\ Kept([s EXCEPT !.next = @ + 1]).live = s.live
         /\ Kept([s EXCEPT !.next = @ + 1]).next = s.next + 1
  <1> PICK t : t = [s EXCEPT !.next = @ + 1]
    OBVIOUS
  <1>1. t \in Stores /\ t.id = s.id /\ t.live = s.live /\ t.next = s.next + 1
        /\ t.first = s.first
    BY DEF Stores
  <1>2. Kept(t) \in Stores /\ Kept(t).id = t.id /\ Kept(t).live = t.live /\ Kept(t).next = t.next
    <2> PICK f : f = t.next - MaxEvents
      OBVIOUS
    <2>1. CASE t.next - t.first > MaxEvents
      <3>1. f \in Nat \ {0}
        <4>1. t.next \in Nat /\ t.first \in Nat \ {0}
          BY <1>1 DEF Stores
        <4> QED
          BY <4>1, <2>1, BoundsAssumption
      <3>2. Kept(t) = [t EXCEPT !.first = f]
        BY <2>1 DEF Kept
      <3> QED
        BY <1>1, <3>1, <3>2 DEF Stores
    <2>2. CASE ~(t.next - t.first > MaxEvents)
      BY <1>1, <2>2 DEF Kept
    <2> QED
      BY <2>1, <2>2
  <1> QED
    BY <1>1, <1>2

LEMMA EmittedWorks ==
  ASSUME NEW o, Working(o), o.st.id # 0 \/ o.streams < MaxStreams
  PROVE  LET e == Emitted(o)
         IN  /\ Working(e) /\ e.st.id \in Streams
             /\ e.st.id = IF o.st.id = 0 THEN o.streams + 1 ELSE o.st.id
             /\ e.streams = IF o.st.id = 0 THEN o.streams + 1 ELSE o.streams
             /\ e.st.live = (o.st.live \/ o.st.id = 0)
             /\ e.st.next = IF o.st.id = 0 THEN 2 ELSE o.st.next + 1
             /\ e.out = Append(o.out, Event(e.st.id, e.st.next - 1))
  <1> PICK p : p = IF o.st.id = 0 THEN Begun(o) ELSE o
    OBVIOUS
  <1>1. /\ Working(p) /\ p.st.id \in Streams /\ p.out = o.out
        /\ p.st.id = IF o.st.id = 0 THEN o.streams + 1 ELSE o.st.id
        /\ p.streams = IF o.st.id = 0 THEN o.streams + 1 ELSE o.streams
        /\ p.st.live = (o.st.live \/ o.st.id = 0)
        /\ p.st.next = IF o.st.id = 0 THEN 1 ELSE o.st.next
    <2>1. CASE o.st.id = 0
      BY <2>1, BegunWorks DEF Working, Stores
    <2>2. CASE o.st.id # 0
      BY <2>2 DEF Working, Streams, Stores
    <2> QED
      BY <2>1, <2>2
  <1> PICK s : s = Kept([p.st EXCEPT !.next = @ + 1])
    OBVIOUS
  <1>2. s \in Stores /\ s.id = p.st.id /\ s.live = p.st.live /\ s.next = p.st.next + 1
    BY <1>1, KeptStore DEF Working
  <1> PICK m : m = Event(p.st.id, p.st.next)
    OBVIOUS
  <1>3. m \in Letters
    BY <1>1, EventTold DEF Working, Stores
  <1>4. Emitted(o) = [p EXCEPT !.st = s, !.out = Append(@, m)]
    BY DEF Emitted
  <1>5. Append(p.out, m) \in Seq(Letters)
    BY <1>1, <1>3, AppendProperties DEF Working
  <1>6. Emitted(o) = [st |-> s, streams |-> p.streams, out |-> Append(o.out, m)]
    <2>1. p \in [st : Stores, streams : 0..MaxStreams, out : Seq(Letters)] /\ p.out = o.out
      BY <1>1 DEF Working
    <2>2. Append(p.out, m) = Append(o.out, m)
      BY <2>1
    <2> PICK a : a = Append(p.out, m)
      OBVIOUS
    <2>3. Emitted(o) = [p EXCEPT !.st = s, !.out = a]
      BY <1>4
    <2> QED
      BY <2>1, <2>2, <2>3
  <1>7. s.next - 1 = p.st.next
    BY <1>1, <1>2 DEF Working, Stores
  <1>8. Working(Emitted(o)) /\ Emitted(o).st = s /\ Emitted(o).streams = p.streams
        /\ Emitted(o).out = Append(o.out, m)
    BY <1>1, <1>2, <1>5, <1>6 DEF Working
  <1>9. s.next = IF o.st.id = 0 THEN 2 ELSE o.st.next + 1
    BY <1>1, <1>2
  <1> HIDE DEF Working
  <1> QED
    BY <1>1, <1>2, <1>7, <1>8, <1>9

LEMMA FinishedWorks ==
  ASSUME NEW o, Working(o)
  PROVE  /\ Working(Finished(o)) /\ Finished(o).st.id = o.st.id
         /\ Finished(o).st.live = FALSE /\ Finished(o).st.next = o.st.next
         /\ Finished(o).streams = o.streams /\ Finished(o).out = o.out
  <1> PICK s : s = [o.st EXCEPT !.live = FALSE, !.first = o.st.next]
    OBVIOUS
  <1>1. s \in Stores /\ s.id = o.st.id /\ s.live = FALSE /\ s.next = o.st.next
    BY DEF Working, Stores
  <1>2. Finished(o) = [o EXCEPT !.st = s]
    BY DEF Finished, Working, Stores
  <1> QED
    BY <1>1, <1>2 DEF Working

LEMMA SaidWorks ==
  ASSUME NEW o, Working(o), NEW on \in BOOLEAN
  PROVE  /\ Working(Said(o, on)) /\ Said(o, on).st = o.st /\ Said(o, on).streams = o.streams
         /\ Said(o, on).out = Append(o.out, Status(on, o.st.id))
  <1> PICK m : m = Status(on, o.st.id)
    OBVIOUS
  <1>1. m \in Letters
    BY StatusTold DEF Working, Stores
  <1>2. Append(o.out, m) \in Seq(Letters)
    BY <1>1, AppendProperties DEF Working
  <1>3. Said(o, on) = [o EXCEPT !.out = Append(@, m)]
    BY DEF Said
  <1> QED
    BY <1>2, <1>3 DEF Working

LEMMA ConcatAppend ==
  ASSUME NEW d \in Seq(Letters), NEW s \in Seq(Letters), NEW m \in Letters
  PROVE  d \o Append(s, m) = Append(d \o s, m)
  <1>1. Append(s, m) = s \o <<m>> /\ <<m>> \in Seq(Letters)
    BY AppendIsConcat
  <1>2. d \o (s \o <<m>>) = (d \o s) \o <<m>>
    BY <1>1, ConcatAssociative
  <1>3. d \o s \in Seq(Letters)
    BY ConcatProperties
  <1>4. Append(d \o s, m) = (d \o s) \o <<m>>
    BY <1>3, AppendIsConcat
  <1> QED
    BY <1>1, <1>2, <1>4

LEMMA WireFields ==
  ASSUME NEW w \in Wires
  PROVE  /\ w.up \in BOOLEAN /\ w.stale \in BOOLEAN
         /\ w.ask \in Seq(Requests) /\ w.down \in Seq(Letters)
  BY DEF Wires

LEMMA WireDown ==
  ASSUME NEW w \in Wires, NEW d \in Seq(Letters)
  PROVE  /\ [w EXCEPT !.down = d] \in Wires /\ [w EXCEPT !.down = d].down = d
         /\ [w EXCEPT !.down = d].up = w.up /\ [w EXCEPT !.down = d].stale = w.stale
         /\ [w EXCEPT !.down = d].ask = w.ask
  BY DEF Wires

\* A handler over: the store is what it left, the wire has its messages.
Posted(o) ==
  /\ wire' \in Wires /\ used' \in Uses /\ store' = o.st /\ store' \in Stores
  /\ store'.id \in {0, used'.streams}
  /\ used'.streams = o.streams /\ used'.drops = used.drops /\ used'.faults = used.faults
  /\ used'.notices = used.notices
  /\ wire'.up = wire.up /\ wire'.stale = wire.stale /\ wire'.ask = wire.ask
  /\ wire'.down = IF wire.up THEN wire.down \o o.out ELSE wire.down

LEMMA HandledPosts ==
  ASSUME StreamTyped, NEW o, Working(o), Handled(o)
  PROVE  Posted(o)
  <1>1. /\ o.st \in Stores /\ o.streams \in 0..MaxStreams /\ o.out \in Seq(Letters)
        /\ o.st.id \in {0, o.streams}
    BY DEF Working
  <1>2. wire \in Wires /\ used \in Uses
    BY DEF StreamTyped
  <1>3. wire.down \o o.out \in Seq(Letters)
    BY <1>1, <1>2, WireFields, ConcatProperties
  <1>4. used' = [used EXCEPT !.streams = o.streams] /\ store' = o.st
        /\ wire' = IF wire.up THEN [wire EXCEPT !.down = @ \o o.out] ELSE wire
    BY DEF Handled
  <1>5. used' \in Uses /\ used'.streams = o.streams /\ used'.drops = used.drops
        /\ used'.faults = used.faults /\ used'.notices = used.notices
    BY <1>1, <1>2, <1>4 DEF Uses
  <1>6. wire' \in Wires /\ wire'.up = wire.up /\ wire'.stale = wire.stale /\ wire'.ask = wire.ask
        /\ wire'.down = IF wire.up THEN wire.down \o o.out ELSE wire.down
    <2>1. CASE wire.up
      <3> PICK d : d = wire.down \o o.out
        OBVIOUS
      <3>1. wire' = [wire EXCEPT !.down = d] /\ d \in Seq(Letters)
        BY <1>3, <1>4, <2>1
      <3>2. wire' \in Wires /\ wire'.down = d /\ wire'.up = wire.up
            /\ wire'.stale = wire.stale /\ wire'.ask = wire.ask
        BY <3>1, <1>2, WireDown
      <3> QED
        BY <3>2, <2>1
    <2>2. CASE ~wire.up
      BY <1>2, <1>4, <2>2
    <2> QED
      BY <2>1, <2>2
  <1> QED
    BY <1>1, <1>4, <1>5, <1>6 DEF Posted

-----------------------------------------------------------------------------
(* What each step of the server does to the store and to the wire.         *)

\* e is d, with an event of stream id at its end.
WithEvent(d, e, id) ==
  \E q \in Nat : id \in Streams /\ e \in Seq(Letters) /\ e = Append(d, Event(id, q))

\* e is d, with a status at its end.
WithStatus(d, e, on, id) == e \in Seq(Letters) /\ e = Append(d, Status(on, id))

SaidOn(d, e, id) == WithStatus(d, e, TRUE, id)
SaidOff(d, e, id) == WithStatus(d, e, FALSE, id)

LEMMA EventPosts ==
  ASSUME StreamTyped, NEW o, Working(o), o.st.id # 0 \/ o.streams < MaxStreams
  PROVE  WithEvent(wire.down \o o.out, wire.down \o Emitted(o).out, Emitted(o).st.id)
  <1> PICK e : e = Emitted(o)
    OBVIOUS
  <1>1. /\ Working(e) /\ e.st.id \in Streams
        /\ e.out = Append(o.out, Event(e.st.id, e.st.next - 1))
    BY EmittedWorks
  <1> PICK q : q = e.st.next - 1
    OBVIOUS
  <1>2. q \in Nat /\ o.out \in Seq(Letters) /\ e.out \in Seq(Letters)
    BY <1>1, SMTT(30) DEF Working, Stores
  <1> PICK m : m = Event(e.st.id, q)
    OBVIOUS
  <1>3. m \in Letters /\ wire.down \in Seq(Letters)
    BY <1>1, <1>2, EventTold DEF StreamTyped, Wires
  <1>4. wire.down \o Append(o.out, m) = Append(wire.down \o o.out, m)
    BY <1>2, <1>3, ConcatAppend
  <1>5. wire.down \o e.out \in Seq(Letters)
    BY <1>2, <1>3, ConcatProperties
  <1> QED
    BY <1>1, <1>2, <1>4, <1>5 DEF WithEvent

LEMMA StatusPosts ==
  ASSUME StreamTyped, NEW o, Working(o), NEW on \in BOOLEAN
  PROVE  WithStatus(wire.down \o o.out, wire.down \o Said(o, on).out, on, o.st.id)
  <1> PICK e : e = Said(o, on)
    OBVIOUS
  <1>1. Working(e) /\ e.out = Append(o.out, Status(on, o.st.id))
    BY SaidWorks
  <1>2. o.out \in Seq(Letters) /\ e.out \in Seq(Letters) /\ o.st.id \in 0..MaxStreams
    BY <1>1 DEF Working, Stores
  <1> PICK m : m = Status(on, o.st.id)
    OBVIOUS
  <1>3. m \in Letters /\ wire.down \in Seq(Letters)
    BY <1>2, StatusTold DEF StreamTyped, Wires
  <1>4. wire.down \o Append(o.out, m) = Append(wire.down \o o.out, m)
    BY <1>2, <1>3, ConcatAppend
  <1>5. wire.down \o e.out \in Seq(Letters)
    BY <1>2, <1>3, ConcatProperties
  <1> QED
    BY <1>1, <1>4, <1>5 DEF WithStatus

\* The wire after a handler: as it was, or with more at its end.
Sent(d) == wire'.down = IF wire.up THEN d ELSE wire.down

\* Everything but the store, the wire and the count of streams that a handler keeps.
Serving ==
  /\ wire' \in Wires /\ used' \in Uses /\ store' \in Stores
  /\ store'.id \in {0, used'.streams}
  /\ used'.drops = used.drops /\ used'.faults = used.faults
  /\ wire'.up = wire.up /\ wire'.stale = wire.stale /\ wire'.ask = wire.ask

LEMMA PostedServes ==
  ASSUME NEW o, Posted(o)
  PROVE  Serving /\ Sent(wire.down \o o.out) /\ store' = o.st /\ used'.streams = o.streams
         /\ used'.notices = used.notices
  BY DEF Posted, Serving, Sent

LEMMA NowOut ==
  ASSUME StreamTyped
  PROVE  wire.down \o Now.out = wire.down /\ wire.down \in Seq(Letters)
  <1>1. wire.down \in Seq(Letters)
    BY DEF StreamTyped, Wires
  <1> QED
    BY <1>1, NowWorks, ConcatEmptySeq

\* e is d, or d with an event of the store's stream at its end.
PerhapsEvent(d, e, id) == (e = d /\ d \in Seq(Letters)) \/ WithEvent(d, e, id)

LEMMA StartPromptDoes ==
  ASSUME StreamTyped, StartPrompt
  PROVE  /\ Serving /\ used'.notices = used.notices
         /\ store'.id = used.streams + 1 /\ used'.streams = used.streams + 1
         /\ store'.live = TRUE
         /\ \E e, d : /\ PerhapsEvent(wire.down, e, used.streams)
                      /\ SaidOn(e, d, store'.id) /\ Sent(d)
  <1> PICK a : a = IF run.held THEN Emitted(Now) ELSE Now
    OBVIOUS
  <1>1. used.streams < MaxStreams - 1 /\ Handled(Said(Begun(a), TRUE))
    BY DEF StartPrompt
  <1>2. used.streams \in Nat /\ store.id \in {0, used.streams} /\ (run.held => store.id # 0)
    BY DEF StreamTyped, Uses
  <1>3. used.streams < MaxStreams
    BY <1>1, <1>2, BoundsAssumption
  <1>4. Working(a) /\ a.streams = used.streams
        /\ PerhapsEvent(wire.down, wire.down \o a.out, used.streams)
    <2>1. CASE run.held
      <3>1. a = Emitted(Now)
        BY <2>1
      <3>2. Now.st.id = used.streams /\ Now.st.id # 0 /\ Working(Now) /\ Now.streams = used.streams
        BY <1>2, <2>1, NowWorks
      <3>3. Working(a) /\ a.streams = used.streams /\ a.st.id = used.streams
        BY <3>1, <3>2, EmittedWorks
      <3>4. WithEvent(wire.down \o Now.out, wire.down \o a.out, a.st.id)
        BY <3>1, <3>2, EventPosts
      <3> QED
        BY <3>3, <3>4, NowOut DEF PerhapsEvent
    <2>2. CASE ~run.held
      BY <2>2, NowWorks, NowOut DEF PerhapsEvent
    <2> QED
      BY <2>1, <2>2
  <1> PICK b : b = Begun(a)
    OBVIOUS
  <1>5. Working(b) /\ b.st.id = used.streams + 1 /\ b.streams = used.streams + 1
        /\ b.st.live = TRUE /\ b.out = a.out
    <2>1. Working(a) /\ a.streams < MaxStreams /\ a.streams = used.streams
      BY <1>3, <1>4
    <2>2. Working(b) /\ b.st.id = a.streams + 1 /\ b.streams = a.streams + 1
          /\ b.st.live = TRUE /\ b.out = a.out
      BY <2>1, BegunWorks
    <2> QED
      BY <2>1, <2>2
  <1> PICK c : c = Said(b, TRUE)
    OBVIOUS
  <1>6. Working(c) /\ c.st = b.st /\ c.streams = b.streams
    BY <1>5, SaidWorks
  <1>7. SaidOn(wire.down \o b.out, wire.down \o c.out, b.st.id)
    BY <1>5, StatusPosts DEF SaidOn, SaidOff
  <1>8. Posted(c)
    BY <1>1, <1>6, HandledPosts
  <1>9. Serving /\ Sent(wire.down \o c.out) /\ store' = c.st /\ used'.streams = c.streams
        /\ used'.notices = used.notices
    BY <1>8, PostedServes
  <1> QED
    BY <1>4, <1>5, <1>6, <1>7, <1>9

LEMMA TurnStartDoes ==
  ASSUME StreamTyped, TurnStart
  PROVE  /\ Serving /\ used'.notices = used.notices
         /\ store'.id = used.streams + 1 /\ used'.streams = used.streams + 1
         /\ store'.live = TRUE
         /\ \E d : SaidOn(wire.down, d, store'.id) /\ Sent(d)
  <1>1. used.streams < MaxStreams - 1 /\ Handled(Said(Begun(Now), TRUE))
    BY DEF TurnStart
  <1>2. used.streams < MaxStreams
    BY <1>1, BoundsAssumption DEF StreamTyped, Uses
  <1> PICK b : b = Begun(Now)
    OBVIOUS
  <1>3. Working(b) /\ b.st.id = used.streams + 1 /\ b.streams = used.streams + 1
        /\ b.st.live = TRUE /\ b.out = Now.out
    <2> PICK a : a = Now
      OBVIOUS
    <2>1. Working(a) /\ a.streams < MaxStreams /\ a.streams = used.streams
      BY <1>2, NowWorks
    <2>2. Working(b) /\ b.st.id = a.streams + 1 /\ b.streams = a.streams + 1
          /\ b.st.live = TRUE /\ b.out = a.out
      BY <2>1, BegunWorks
    <2> QED
      BY <2>1, <2>2
  <1> PICK c : c = Said(b, TRUE)
    OBVIOUS
  <1>4. Working(c) /\ c.st = b.st /\ c.streams = b.streams
    BY <1>3, SaidWorks
  <1>5. SaidOn(wire.down \o b.out, wire.down \o c.out, b.st.id)
    BY <1>3, StatusPosts DEF SaidOn, SaidOff
  <1>6. Posted(c)
    BY <1>1, <1>4, HandledPosts
  <1>7. Serving /\ Sent(wire.down \o c.out) /\ store' = c.st /\ used'.streams = c.streams
        /\ used'.notices = used.notices
    BY <1>6, PostedServes
  <1>8. SaidOn(wire.down, wire.down \o c.out, b.st.id)
    BY <1>3, <1>5, NowOut
  <1> QED
    BY <1>3, <1>4, <1>7, <1>8

LEMMA EmitDoes ==
  ASSUME StreamTyped, Emit
  PROVE  /\ Serving /\ used'.notices = used.notices
         /\ store'.id = store.id /\ store.id # 0 /\ used'.streams = used.streams
         /\ store'.live = store.live /\ store'.next = store.next + 1
         /\ \E d : WithEvent(wire.down, d, store.id) /\ Sent(d)
  <1>1. store.id # 0 /\ Handled(Emitted(Now))
    BY DEF Emit, StreamTyped
  <1> PICK c : c = Emitted(Now)
    OBVIOUS
  <1>2. Working(c) /\ c.st.id = store.id /\ c.streams = used.streams
        /\ c.st.live = store.live /\ c.st.next = store.next + 1
    BY <1>1, NowWorks, EmittedWorks DEF StreamTyped, Stores
  <1>3. WithEvent(wire.down \o Now.out, wire.down \o c.out, c.st.id)
    BY <1>1, NowWorks, EventPosts
  <1>4. Posted(c)
    BY <1>1, <1>2, HandledPosts
  <1>5. Serving /\ Sent(wire.down \o c.out) /\ store' = c.st /\ used'.streams = c.streams
        /\ used'.notices = used.notices
    BY <1>4, PostedServes
  <1>6. WithEvent(wire.down, wire.down \o c.out, store.id)
    BY <1>2, <1>3, NowOut
  <1> QED
    BY <1>1, <1>2, <1>5, <1>6

\* What is held follows on the same stream.
LEMMA HeldFollows ==
  ASSUME StreamTyped, NEW o, Working(o), o.st.id = store.id, o.st.live = FALSE,
         o.streams = used.streams, store.id # 0,
         Handled(IF run.held THEN Emitted(o) ELSE o)
  PROVE  /\ Serving /\ used'.notices = used.notices
         /\ store'.id = store.id /\ used'.streams = used.streams /\ store'.live = FALSE
         /\ \E d : PerhapsEvent(wire.down \o o.out, d, store.id) /\ Sent(d)
  <1> PICK c : c = IF run.held THEN Emitted(o) ELSE o
    OBVIOUS
  <1>1. Working(c) /\ c.st.id = store.id /\ c.streams = used.streams /\ c.st.live = FALSE
        /\ PerhapsEvent(wire.down \o o.out, wire.down \o c.out, store.id)
    <2>1. CASE run.held
      BY <2>1, EmittedWorks, EventPosts DEF PerhapsEvent
    <2>2. CASE ~run.held
      <3>1. wire.down \o o.out \in Seq(Letters)
        BY ConcatProperties, WireFields DEF StreamTyped, Working
      <3> QED
        BY <2>2, <3>1 DEF PerhapsEvent
    <2> QED
      BY <2>1, <2>2
  <1>2. Posted(c)
    BY <1>1, HandledPosts
  <1>3. Serving /\ Sent(wire.down \o c.out) /\ store' = c.st /\ used'.streams = c.streams
        /\ used'.notices = used.notices
    BY <1>2, PostedServes
  <1> QED
    BY <1>1, <1>3

LEMMA TurnEndDoes ==
  ASSUME StreamTyped, TurnEnd
  PROVE  /\ Serving /\ used'.notices = used.notices /\ store.id # 0
         /\ store'.id = store.id /\ used'.streams = used.streams /\ store'.live = FALSE
         /\ \E e, d : /\ WithEvent(wire.down, e, store.id)
                      /\ PerhapsEvent(e, d, store.id) /\ Sent(d)
  <1> PICK a : a = Emitted(Now)
    OBVIOUS
  <1> PICK o : o = Finished(a)
    OBVIOUS
  <1>1. store.id # 0 /\ Handled(IF run.held THEN Emitted(o) ELSE o)
    BY DEF TurnEnd, StreamTyped
  <1>2. Working(a) /\ a.st.id = store.id /\ a.streams = used.streams
    BY <1>1, NowWorks, EmittedWorks DEF StreamTyped, Stores
  <1>3. WithEvent(wire.down \o Now.out, wire.down \o a.out, a.st.id)
    BY <1>1, NowWorks, EventPosts
  <1>4. Working(o) /\ o.st.id = store.id /\ o.streams = used.streams /\ o.st.live = FALSE
        /\ o.out = a.out
    BY <1>2, FinishedWorks
  <1>5. WithEvent(wire.down, wire.down \o o.out, store.id)
    BY <1>2, <1>3, <1>4, NowOut
  <1> QED
    BY <1>1, <1>4, <1>5, HeldFollows

LEMMA EndPromptDoes ==
  ASSUME StreamTyped, EndPrompt
  PROVE  /\ Serving /\ used'.notices = used.notices
         /\ store'.id = store.id /\ used'.streams = used.streams /\ store'.live = FALSE
         /\ \E e, d : /\ SaidOff(wire.down, e, store.id)
                      /\ PerhapsEvent(e, d, store.id) /\ Sent(d)
  <1> PICK a : a = IF store.live THEN Finished(Now) ELSE Now
    OBVIOUS
  <1> PICK o : o = Said(a, FALSE)
    OBVIOUS
  <1>1. Handled(IF run.held THEN Emitted(o) ELSE o)
    BY DEF EndPrompt
  <1>2. Working(a) /\ a.st.id = store.id /\ a.streams = used.streams /\ a.out = Now.out
        /\ a.st.live = FALSE
    <2>1. CASE store.live
      BY <2>1, NowWorks, FinishedWorks
    <2>2. CASE ~store.live
      <3>1. Working(Now) /\ Now.st = store /\ store.live \in BOOLEAN /\ Now.streams = used.streams
        BY NowWorks DEF StreamTyped, Stores
      <3> QED
        BY <2>2, <3>1
    <2> QED
      BY <2>1, <2>2
  <1>3. Working(o) /\ o.st = a.st /\ o.streams = a.streams
    BY <1>2, SaidWorks
  <1>4. SaidOff(wire.down \o a.out, wire.down \o o.out, a.st.id)
    BY <1>2, StatusPosts DEF SaidOn, SaidOff
  <1>5. SaidOff(wire.down, wire.down \o o.out, store.id)
    BY <1>2, <1>4, NowOut
  <1>6. CASE store.id # 0
    <2>1. o.st.id = store.id /\ o.st.live = FALSE /\ o.streams = used.streams
      BY <1>2, <1>3
    <2>2. /\ Serving /\ used'.notices = used.notices
          /\ store'.id = store.id /\ used'.streams = used.streams /\ store'.live = FALSE
          /\ \E d : PerhapsEvent(wire.down \o o.out, d, store.id) /\ Sent(d)
      BY <1>1, <1>3, <1>6, <2>1, HeldFollows
    <2> QED
      BY <1>5, <2>2
  <1>7. CASE store.id = 0
    <2>1. ~run.held
      BY <1>7 DEF StreamTyped
    <2>2. Posted(o)
      BY <1>1, <1>3, <2>1, HandledPosts
    <2>3. Serving /\ Sent(wire.down \o o.out) /\ store' = o.st /\ used'.streams = o.streams
          /\ used'.notices = used.notices
      BY <2>2, PostedServes
    <2>4. PerhapsEvent(wire.down \o o.out, wire.down \o o.out, store.id)
      BY <1>5 DEF PerhapsEvent, SaidOff, WithStatus
    <2> QED
      BY <1>2, <1>3, <1>5, <2>3, <2>4
  <1> QED
    BY <1>6, <1>7

LEMMA NoticeDoes ==
  ASSUME StreamTyped, Notice
  PROVE  /\ wire' \in Wires /\ used' \in Uses /\ store' \in Stores
         /\ store'.id = used'.streams /\ store'.id # 0 /\ (store.id # 0 => store'.id = store.id)
         /\ used'.streams = used.streams + (IF store.id = 0 THEN 1 ELSE 0)
         /\ used'.drops = used.drops /\ used'.faults = used.faults
         /\ wire'.up = wire.up /\ wire'.stale = wire.stale /\ wire'.ask = wire.ask
         /\ \E e, d : /\ WithEvent(wire.down, e, store'.id)
                      /\ PerhapsEvent(e, d, store'.id) /\ Sent(d)
  <1> PICK o : o = Emitted(Now)
    OBVIOUS
  <1>1. /\ store.id # 0 \/ used.streams < MaxStreams
        /\ used.notices < MaxNotices
    BY DEF Notice
  <1> PICK c : /\ c = o \/ c = Emitted(o)
               /\ store' = c.st
               /\ used' = [used EXCEPT !.streams = c.streams, !.notices = @ + 1]
               /\ wire' = IF wire.up THEN [wire EXCEPT !.down = @ \o c.out] ELSE wire
    BY DEF Notice
  <1>2. /\ Working(o) /\ o.st.id \in Streams /\ o.st.id # 0 /\ o.st.id = o.streams
        /\ (store.id # 0 => o.st.id = store.id)
        /\ o.streams = used.streams + (IF store.id = 0 THEN 1 ELSE 0)
    <2>1. Working(o) /\ o.st.id \in Streams
          /\ o.st.id = (IF store.id = 0 THEN used.streams + 1 ELSE store.id)
          /\ o.streams = (IF store.id = 0 THEN used.streams + 1 ELSE used.streams)
      BY <1>1, NowWorks, EmittedWorks
    <2> QED
      BY <2>1 DEF Streams, Working, StreamTyped, Uses
  <1>3. WithEvent(wire.down, wire.down \o o.out, o.st.id)
    BY <1>1, NowWorks, EventPosts, NowOut
  <1>4. Working(c) /\ c.st.id = o.st.id /\ c.streams = o.streams
        /\ PerhapsEvent(wire.down \o o.out, wire.down \o c.out, o.st.id)
    <2>1. CASE c = o
      BY <2>1, <1>2, <1>3 DEF PerhapsEvent, WithEvent
    <2>2. CASE c = Emitted(o)
      BY <2>2, <1>2, EmittedWorks, EventPosts DEF PerhapsEvent
    <2> QED
      BY <2>1, <2>2
  <1>5. store' \in Stores /\ store'.id = o.st.id /\ c.out \in Seq(Letters)
    BY <1>1, <1>4 DEF Working
  <1>6. used' \in Uses /\ used'.streams = o.streams
        /\ used'.drops = used.drops /\ used'.faults = used.faults
    <2>1. used \in Uses /\ o.streams \in 0..MaxStreams /\ c.streams = o.streams
      BY <1>2, <1>4 DEF StreamTyped, Working
    <2> PICK u : u = [used EXCEPT !.streams = c.streams]
      OBVIOUS
    <2>2. u \in Uses /\ u.streams = o.streams /\ u.drops = used.drops /\ u.faults = used.faults
          /\ u.notices = used.notices
      BY <2>1 DEF Uses
    <2> PICK n : n = used.notices + 1
      OBVIOUS
    <2>3. used' = [u EXCEPT !.notices = n] /\ n \in 0..MaxNotices
      BY <1>1, <2>1, <2>2, BoundsAssumption, SMTT(30) DEF Uses
    <2> QED
      BY <2>2, <2>3 DEF Uses
  <1>7. wire' \in Wires /\ wire'.up = wire.up /\ wire'.stale = wire.stale /\ wire'.ask = wire.ask
        /\ Sent(wire.down \o c.out)
    <2>0. wire \in Wires /\ wire.up \in BOOLEAN /\ wire.down \o c.out \in Seq(Letters)
      BY <1>5, WireFields, ConcatProperties DEF StreamTyped
    <2> PICK d : d = wire.down \o c.out
      OBVIOUS
    <2>1. CASE wire.up
      BY <2>0, <2>1, <1>1, WireDown DEF Sent
    <2>2. CASE ~wire.up
      BY <2>0, <2>2, <1>1 DEF Sent
    <2> QED
      BY <2>1, <2>2
  <1> QED
    BY <1>2, <1>3, <1>4, <1>5, <1>6, <1>7

\* A reply is a letter; it speaks for the run and for the stream there is.
LEMMA ResumedTold ==
  ASSUME StreamTyped, NEW asked \in Requests
  PROVE  LET m == Resumed(store, asked)
         IN  /\ m \in Answers /\ m \in Letters /\ m.kind = "resume" /\ m.id = store.id
             /\ m.busy = (run.at = "run")
  <1> PICK m : m = Resumed(store, asked)
    OBVIOUS
  <1>1. store \in Stores /\ asked.since \in Nat /\ (run.at = "run") \in BOOLEAN
    BY DEF StreamTyped, Requests
  <1>2. CASE store.id = 0
    <2>1. m = [NoReply EXCEPT !.busy = run.at = "run"]
      BY <1>2 DEF Resumed
    <2>2. m \in Replies /\ m.kind = "resume" /\ m.id = 0 /\ m.from >= m.next
          /\ m.busy = (run.at = "run")
      <3> PICK b : b = (run.at = "run")
        OBVIOUS
      <3>1. b \in BOOLEAN /\ 0 \in 0..MaxStreams
        BY BoundsAssumption
      <3>2. NoReply \in Replies /\ NoReply.kind = "resume" /\ NoReply.id = 0
            /\ NoReply.from = 1 /\ NoReply.next = 1
        BY <3>1 DEF NoReply, Replies
      <3>3. m = [NoReply EXCEPT !.busy = b]
        BY <2>1
      <3>4. m \in Replies /\ m.busy = b /\ m.kind = NoReply.kind /\ m.id = NoReply.id
            /\ m.from = NoReply.from /\ m.next = NoReply.next
        BY <3>1, <3>2, <3>3 DEF Replies
      <3>5. m.from >= m.next
        BY <3>2, <3>4
      <3> QED
        BY <3>2, <3>4, <3>5, Zenon
    <2>3. m \in Answers
      BY <2>2 DEF Answers, Told, Messages
    <2> QED
      BY <1>2, <2>2, <2>3, LettersAreMessages
  <1>3. CASE store.id # 0
    <2> PICK other : other = (asked.id # 0 /\ asked.id # store.id)
      OBVIOUS
    <2> PICK short : short = (~other /\ asked.since < store.first - 1)
      OBVIOUS
    <2> PICK from : from = IF other \/ short THEN store.first ELSE asked.since + 1
      OBVIOUS
    <2>1. other \in BOOLEAN /\ short \in BOOLEAN /\ from \in Nat
      BY <1>1 DEF Stores
    <2>2. m = [kind |-> "resume", id |-> store.id, next |-> store.next, live |-> store.live,
               from |-> from, reset |-> other, truncated |-> short, busy |-> run.at = "run"]
      BY <1>3 DEF Resumed
    <2>3. m \in Replies /\ m.kind = "resume" /\ m.id = store.id /\ m.busy = (run.at = "run")
      BY <1>1, <2>1, <2>2 DEF Replies, Stores
    <2>4. m \in Answers
      BY <1>3, <2>3 DEF Answers, Told, Messages
    <2> QED
      BY <2>3, <2>4, LettersAreMessages
  <1> QED
    BY <1>2, <1>3

LEMMA AnswerDoes ==
  ASSUME StreamTyped, Answer
  PROVE  /\ wire' \in Wires /\ wire.up /\ wire'.up = wire.up /\ wire'.stale = wire.stale
         /\ wire.ask # <<>> /\ wire'.ask = Tail(wire.ask)
         /\ \E m \in Answers : /\ m \in Letters /\ m.kind = "resume" /\ m.id = store.id
                               /\ m.busy = (run.at = "run")
                               /\ wire'.down = Append(wire.down, m)
  <1>1. wire \in Wires /\ wire.up /\ wire.ask # <<>>
        /\ wire.ask \in Seq(Requests) /\ wire.down \in Seq(Letters)
    BY WireFields DEF StreamTyped, Answer
  <1>2. Head(wire.ask) \in Requests /\ Tail(wire.ask) \in Seq(Requests)
    BY <1>1, HeadTailProperties
  <1> PICK m : m = Resumed(store, Head(wire.ask))
    OBVIOUS
  <1>3. m \in Answers /\ m \in Letters /\ m.kind = "resume" /\ m.id = store.id
        /\ m.busy = (run.at = "run")
    BY <1>2, ResumedTold
  <1> PICK d : d = Append(wire.down, m)
    OBVIOUS
  <1>4. d \in Seq(Letters)
    BY <1>1, <1>3, AppendProperties
  <1> PICK t : t = Tail(wire.ask)
    OBVIOUS
  <1> PICK w : w = [wire EXCEPT !.ask = t]
    OBVIOUS
  <1>5. w \in Wires /\ w.up = wire.up /\ w.stale = wire.stale /\ w.ask = t /\ w.down = wire.down
    BY <1>1, <1>2 DEF Wires
  <1>6. wire' = [w EXCEPT !.down = d]
    BY <1>5 DEF Answer
  <1>7. wire' \in Wires /\ wire'.up = w.up /\ wire'.stale = w.stale /\ wire'.ask = w.ask
        /\ wire'.down = d
    BY <1>4, <1>5, <1>6, WireDown
  <1> QED
    BY <1>1, <1>3, <1>5, <1>7

-----------------------------------------------------------------------------
(* What the client does with its meta, its transcript and its mark.        *)

LEMMA MetaIds == NoMeta \in Metas /\ NoMeta.id = 0 /\ NoMeta.got = {} /\ NoMeta.last = 0
  BY BoundsAssumption DEF NoMeta, Metas

LEMMA MetaId ==
  ASSUME NEW m \in Metas, NEW id \in 0..MaxStreams
  PROVE  /\ [m EXCEPT !.id = id] \in Metas /\ [m EXCEPT !.id = id].id = id
         /\ [m EXCEPT !.id = id].got = m.got /\ [m EXCEPT !.id = id].last = m.last
  BY DEF Metas

LEMMA TurnedMeta ==
  ASSUME NEW m \in Metas, NEW id \in 0..MaxStreams
  PROVE  LET t == Turned(m, id)
         IN  /\ t \in Metas /\ t.id = (IF id = 0 THEN m.id ELSE id)
             /\ (id = 0 \/ m.id = id) => t = m
  <1>1. CASE id = 0 \/ m.id = id
    BY <1>1 DEF Turned, Metas
  <1>2. CASE ~(id = 0 \/ m.id = id) /\ m.id = 0
    <2>1. Turned(m, id) = [m EXCEPT !.id = id]
      BY <1>2 DEF Turned
    <2> QED
      BY <1>2, <2>1, MetaId
  <1>3. CASE ~(id = 0 \/ m.id = id) /\ m.id # 0
    <2>1. Turned(m, id) = [NoMeta EXCEPT !.id = id]
      BY <1>3 DEF Turned
    <2>2. Turned(m, id) \in Metas /\ Turned(m, id).id = id
      BY <2>1, MetaIds, MetaId
    <2> QED
      BY <1>3, <2>2
  <1> QED
    BY <1>1, <1>2, <1>3

LEMMA ConsumedMeta ==
  ASSUME NEW m \in Metas, NEW seqs \in SUBSET Nat, NEW upto \in Int
  PROVE  LET c == Consumed(m, seqs, upto)
         IN  c \in Metas /\ c.id = m.id /\ c.got = m.got \cup seqs
             /\ c.last = IF upto > m.last THEN upto ELSE m.last
  <1> PICK a : a = [m EXCEPT !.got = @ \cup seqs]
    OBVIOUS
  <1>1. a \in Metas /\ a.id = m.id /\ a.got = m.got \cup seqs /\ a.last = m.last
    BY DEF Metas
  <1> PICK l : l = IF upto > m.last THEN upto ELSE m.last
    OBVIOUS
  <1>2. l \in Nat
    BY DEF Metas
  <1>3. Consumed(m, seqs, upto) = [a EXCEPT !.last = l]
    BY <1>1 DEF Consumed
  <1> QED
    BY <1>1, <1>2, <1>3 DEF Metas

LEMMA ReplyFields ==
  ASSUME NEW m \in Answers
  PROVE  /\ m.kind = "resume" /\ m.id \in 0..MaxStreams /\ m.from \in Nat /\ m.next \in Nat
         /\ m.live \in BOOLEAN /\ m.busy \in BOOLEAN /\ m.reset \in BOOLEAN
         /\ m.truncated \in BOOLEAN
         /\ (m.id = 0 => m.from >= m.next)
  BY DEF Answers, Replies, Told

LEMMA ReplayedOnes ==
  ASSUME NEW m \in Answers, NEW meta \in Metas
  PROVE  /\ Replayed(meta, m) \in SUBSET Nat
         /\ {m.id} \X Replayed(meta, m) \in SUBSET (Streams \X Nat)
         /\ \A q \in Replayed(meta, m) : q \notin meta.got
  <1>1. Replayed(meta, m) \in SUBSET Nat /\ \A q \in Replayed(meta, m) : q \notin meta.got
    BY ReplyFields DEF Replayed
  <1>2. m.id = 0 => Replayed(meta, m) = {}
    BY ReplyFields DEF Replayed
  <1>3. m.id # 0 => m.id \in Streams
    BY ReplyFields DEF Streams
  <1> QED
    BY <1>1, <1>2, <1>3

LEMMA AfterReplayMeta ==
  ASSUME NEW m \in Answers, NEW meta \in Metas
  PROVE  LET c == AfterReplay(meta, m)
         IN  c \in Metas /\ c.id = meta.id /\ c.got = meta.got \cup Replayed(meta, m)
             /\ c.last = IF m.next - 1 > meta.last THEN m.next - 1 ELSE meta.last
  <1>1. Replayed(meta, m) \in SUBSET Nat /\ m.next - 1 \in Int
    BY ReplayedOnes, ReplyFields
  <1> QED
    BY <1>1, ConsumedMeta DEF AfterReplay

LEMMA ShowingScreen ==
  ASSUME NEW s \in Screens, NEW events \in SUBSET (Streams \X Nat)
  PROVE  /\ Showing(s, events) \in Screens
         /\ Showing(s, events).shown = s.shown \cup events
         /\ Showing(s, events).twice = s.twice \cup (s.shown \cap events)
  BY DEF Showing, Screens

LEMMA ShownOf ==
  ASSUME NEW s \in Screens, NEW events \in SUBSET (Streams \X Nat)
  PROVE  /\ [s EXCEPT !.shown = events] \in Screens
         /\ [s EXCEPT !.shown = events].shown = events
         /\ [s EXCEPT !.shown = events].twice = s.twice
  BY DEF Screens

LEMMA UnmarkedMark == Unmarked \in Marks /\ Unmarked.on = FALSE /\ Unmarked.id = 0
  BY BoundsAssumption DEF Unmarked, Marks

LEMMA MarksOn ==
  ASSUME NEW k \in Marks, NEW id \in 0..MaxStreams
  PROVE  MarkedOn(k, id) \in Marks /\ MarkedOn(k, id).on = TRUE
         /\ (id # 0 => MarkedOn(k, id).id = id)
  BY DEF MarkedOn, Marks

LEMMA MarksOff ==
  ASSUME NEW k \in Marks, NEW id \in 0..MaxStreams
  PROVE  MarkedOff(k, id) \in Marks
         /\ MarkedOff(k, id) = IF k.id \in {0, id} THEN Unmarked ELSE k
  BY UnmarkedMark DEF MarkedOff

LEMMA MarksAs ==
  ASSUME NEW k \in Marks, NEW m \in Answers
  PROVE  MarkedAs(k, m) \in Marks
  BY UnmarkedMark, MarksOn, ReplyFields DEF MarkedAs

LEMMA ClientOf ==
  ASSUME NEW m \in Metas, NEW k \in Marks
  PROVE  LET c == [meta |-> m, mark |-> k] IN c \in Clients /\ c.meta = m /\ c.mark = k
  BY DEF Clients

LEMMA ClientFields ==
  ASSUME NEW c \in Clients, NEW m \in Metas
  PROVE  /\ c.meta \in Metas /\ c.mark \in Marks
         /\ [c EXCEPT !.meta = m] \in Clients /\ [c EXCEPT !.meta = m].meta = m
         /\ [c EXCEPT !.meta = m].mark = c.mark
  BY DEF Clients

-----------------------------------------------------------------------------
(* What each step of the client and each fault does.                       *)

LEMMA LetterFields ==
  ASSUME NEW m \in Letters
  PROVE  /\ m.kind \in {"status", "event", "resume"} /\ m.id \in 0..MaxStreams
         /\ m.kind = "status" => m.on \in BOOLEAN
         /\ m.kind = "event" => m.id \in Streams /\ m.seq \in Nat /\ m.id # 0
         /\ m.kind = "resume" => m \in Answers
  <1>1. m \in Messages /\ Told(m)
    BY DEF Letters
  <1>2. CASE m \in [kind : {"status"}, on : BOOLEAN, id : 0..MaxStreams]
    BY <1>2
  <1>3. CASE m \in [kind : {"event"}, id : Streams, seq : Nat]
    BY <1>3, BoundsAssumption DEF Streams
  <1>4. CASE m \in Replies
    BY <1>1, <1>4 DEF Replies, Answers
  <1> QED
    BY <1>1, <1>2, <1>3, <1>4 DEF Messages

\* The message at the front is taken off the wire.
TookOff ==
  /\ wire' \in Wires /\ wire.up = TRUE /\ wire'.up = TRUE /\ wire'.stale = wire.stale
  /\ wire'.ask = wire.ask /\ wire.down \in Seq(Letters) /\ wire.down # <<>>
  /\ wire'.down = Tail(wire.down) /\ Head(wire.down) = wire.down[1]

LEMMA FrontTaken ==
  ASSUME StreamTyped, NEW kind, Front(kind), Taken
  PROVE  TookOff /\ Head(wire.down) \in Letters /\ Head(wire.down).kind = kind
  <1>1. wire \in Wires /\ wire.down \in Seq(Letters) /\ wire.up \in BOOLEAN
    BY WireFields DEF StreamTyped
  <1>2. wire.up /\ wire.down # <<>> /\ Head(wire.down).kind = kind
    BY DEF Front
  <1>3. Head(wire.down) \in Letters /\ Tail(wire.down) \in Seq(Letters)
        /\ Head(wire.down) = wire.down[1]
    BY <1>1, <1>2, HeadTailProperties
  <1> PICK d : d = Tail(wire.down)
    OBVIOUS
  <1>4. wire' = [wire EXCEPT !.down = d]
    BY DEF Taken
  <1>5. wire' \in Wires /\ wire'.down = d /\ wire'.up = wire.up /\ wire'.stale = wire.stale
        /\ wire'.ask = wire.ask
    <2>1. wire \in Wires /\ d \in Seq(Letters)
      BY <1>1, <1>3
    <2> QED
      BY <1>4, <2>1, WireDown
  <1> QED
    BY <1>1, <1>2, <1>3, <1>5 DEF TookOff

LEMMA ReceiveStatusDoes ==
  ASSUME StreamTyped, ReceiveStatus
  PROVE  LET m == Head(wire.down)
         IN  /\ TookOff /\ m \in Letters /\ m.kind = "status"
             /\ rebuild.at # "none" =>
                  harm' = harm \cup {"status_discarded"} /\ client' = client
             /\ rebuild.at = "none" =>
                  /\ harm' = harm /\ client' \in Clients
                  /\ client'.meta = Turned(client.meta, m.id)
                  /\ client'.mark = IF m.on THEN MarkedOn(client.mark, m.id)
                                    ELSE MarkedOff(client.mark, m.id)
  <1> PICK m : m = Head(wire.down)
    OBVIOUS
  <1>1. TookOff /\ m \in Letters /\ m.kind = "status"
    BY FrontTaken DEF ReceiveStatus
  <1>2. m.id \in 0..MaxStreams /\ m.on \in BOOLEAN
    BY <1>1, LetterFields
  <1>3. CASE rebuild.at = "none"
    <2> PICK t : t = Turned(client.meta, m.id)
      OBVIOUS
    <2> PICK k : k = IF m.on THEN MarkedOn(client.mark, m.id) ELSE MarkedOff(client.mark, m.id)
      OBVIOUS
    <2>1. t \in Metas /\ k \in Marks
      <3>1. client.meta \in Metas /\ client.mark \in Marks
        BY DEF StreamTyped, Clients
      <3> QED
        BY <3>1, <1>2, TurnedMeta, MarksOn, MarksOff
    <2>2. client' = [meta |-> t, mark |-> k] /\ harm' = harm
      BY <1>3 DEF ReceiveStatus
    <2> QED
      BY <2>1, <2>2, <1>1, <1>3, ClientOf
  <1>4. CASE rebuild.at # "none"
    BY <1>1, <1>4 DEF ReceiveStatus
  <1> QED
    BY <1>3, <1>4

LEMMA ReceiveEventDoes ==
  ASSUME StreamTyped, ReceiveEvent
  PROVE  LET m == Head(wire.down)
             t == Turned(client.meta, m.id)
         IN  /\ TookOff /\ m \in Letters /\ m.kind = "event" /\ m.id \in Streams /\ m.seq \in Nat
             /\ rebuild.at # "none" => UNCHANGED <<client, screen>>
             /\ rebuild.at = "none" /\ m.seq \in t.got =>
                  client' \in Clients /\ client'.meta = t /\ client'.mark = client.mark
                  /\ screen' = screen
             /\ rebuild.at = "none" /\ m.seq \notin t.got =>
                  /\ client' \in Clients /\ client'.meta = Consumed(t, {m.seq}, m.seq)
                  /\ client'.mark = client.mark
                  /\ screen' \in Screens /\ screen' = Showing(screen, {<<m.id, m.seq>>})
  <1> PICK m : m = Head(wire.down)
    OBVIOUS
  <1> PICK t : t = Turned(client.meta, m.id)
    OBVIOUS
  <1>1. TookOff /\ m \in Letters /\ m.kind = "event"
    BY FrontTaken DEF ReceiveEvent
  <1>2. m.id \in 0..MaxStreams /\ m.id \in Streams /\ m.seq \in Nat
    BY <1>1, LetterFields
  <1>3. client \in Clients /\ client.meta \in Metas /\ client.mark \in Marks /\ screen \in Screens
    BY DEF StreamTyped, Clients
  <1>4. t \in Metas
    BY <1>2, <1>3, TurnedMeta
  <1>5. ASSUME rebuild.at = "none", m.seq \in t.got
        PROVE  client' \in Clients /\ client'.meta = t /\ client'.mark = client.mark
               /\ screen' = screen
    <2>1. client' = [client EXCEPT !.meta = t] /\ screen' = screen
      BY <1>5 DEF ReceiveEvent
    <2> QED
      BY <2>1, <1>3, <1>4, ClientFields
  <1>6. ASSUME rebuild.at = "none", m.seq \notin t.got
        PROVE  /\ client' \in Clients /\ client'.meta = Consumed(t, {m.seq}, m.seq)
               /\ client'.mark = client.mark
               /\ screen' \in Screens /\ screen' = Showing(screen, {<<m.id, m.seq>>})
    <2>1. client' = [client EXCEPT !.meta = Consumed(t, {m.seq}, m.seq)]
          /\ screen' = Showing(screen, {<<m.id, m.seq>>})
      BY <1>6 DEF ReceiveEvent
    <2>2. Consumed(t, {m.seq}, m.seq) \in Metas
      <3>1. {m.seq} \in SUBSET Nat /\ m.seq \in Int
        BY <1>2
      <3> QED
        BY <3>1, <1>4, ConsumedMeta
    <2>3. {<<m.id, m.seq>>} \in SUBSET (Streams \X Nat)
      BY <1>2
    <2> QED
      BY <2>1, <2>2, <2>3, <1>3, ClientFields, ShowingScreen
  <1>7. rebuild.at # "none" => UNCHANGED <<client, screen>>
    BY DEF ReceiveEvent
  <1> QED
    BY <1>1, <1>2, <1>5, <1>6, <1>7

LEMMA RebuildFields ==
  ASSUME StreamTyped
  PROVE  /\ rebuild.at \in {"none", "asked", "read"} /\ rebuild.reply \in Answers
         /\ rebuild.found \in SUBSET (Streams \X Nat) /\ rebuild.touched \in BOOLEAN
  BY DEF StreamTyped, Rebuilding

LEMMA ReplyNone == NoReply \in Answers /\ NoRebuild \in Rebuilding /\ NoRebuild.at = "none"
  <1>1. NoReply \in Replies /\ NoReply.from >= NoReply.next
    BY BoundsAssumption DEF NoReply, Replies
  <1>2. NoReply \in Answers
    BY <1>1 DEF Answers, Told, Messages
  <1>3. NoRebuild = [at |-> "none", reply |-> NoReply, found |-> {}, touched |-> FALSE]
    BY DEF NoRebuild
  <1> QED
    BY <1>2, <1>3 DEF Rebuilding

LEMMA ReceiveResumeDoes ==
  ASSUME StreamTyped, ReceiveResume
  PROVE  LET m == Head(wire.down)
             t == Turned(client.meta, m.id)
         IN  /\ TookOff /\ m \in Letters /\ m \in Answers /\ m.kind = "resume"
             /\ client' \in Clients /\ screen' \in Screens /\ rebuild' \in Rebuilding
             /\ Rebuilds(m) =>
                  /\ rebuild'.at = "asked" /\ rebuild'.reply = m /\ rebuild'.found = {}
                  /\ client'.meta = NoMeta /\ client'.mark = client.mark
                  /\ screen'.shown = {} /\ screen'.twice = screen.twice
             /\ ~Rebuilds(m) =>
                  /\ client'.meta = AfterReplay(t, m) /\ client'.mark = MarkedAs(client.mark, m)
                  /\ screen' = Showing(screen, {m.id} \X Replayed(t, m))
                  /\ rebuild'.at = rebuild.at /\ rebuild'.reply = rebuild.reply
                  /\ rebuild'.found = rebuild.found
             /\ harm' \in {harm, harm \cup {"turn_cut"}}
  <1> PICK m : m = Head(wire.down)
    OBVIOUS
  <1> PICK t : t = Turned(client.meta, m.id)
    OBVIOUS
  <1>1. TookOff /\ m \in Letters /\ m.kind = "resume"
    BY FrontTaken DEF ReceiveResume
  <1>2. m \in Answers /\ m.id \in 0..MaxStreams
    BY <1>1, LetterFields
  <1>3. client \in Clients /\ client.meta \in Metas /\ client.mark \in Marks /\ screen \in Screens
        /\ rebuild \in Rebuilding
    BY DEF StreamTyped, Clients
  <1>4. t \in Metas
    BY <1>2, <1>3, TurnedMeta
  <1>5. ASSUME Rebuilds(m)
        PROVE  /\ client' \in Clients /\ screen' \in Screens /\ rebuild' \in Rebuilding
               /\ rebuild'.at = "asked" /\ rebuild'.reply = m /\ rebuild'.found = {}
               /\ client'.meta = NoMeta /\ client'.mark = client.mark
               /\ screen'.shown = {} /\ screen'.twice = screen.twice
    <2>1. /\ rebuild' = [NoRebuild EXCEPT !.at = "asked", !.reply = m]
          /\ client' = [client EXCEPT !.meta = NoMeta]
          /\ screen' = [screen EXCEPT !.shown = {}]
      BY <1>5 DEF ReceiveResume
    <2>2. client' \in Clients /\ client'.meta = NoMeta /\ client'.mark = client.mark
      BY <2>1, <1>3, MetaIds, ClientFields
    <2>3. screen' \in Screens /\ screen'.shown = {} /\ screen'.twice = screen.twice
      BY <2>1, <1>3, ShownOf
    <2>4. rebuild' = [at |-> "asked", reply |-> m, found |-> {}, touched |-> FALSE]
      BY <2>1 DEF NoRebuild
    <2>5. rebuild' \in Rebuilding /\ rebuild'.at = "asked" /\ rebuild'.reply = m
          /\ rebuild'.found = {}
      BY <2>4, <1>2 DEF Rebuilding
    <2> QED
      BY <2>2, <2>3, <2>5
  <1>6. ASSUME ~Rebuilds(m)
        PROVE  /\ client' \in Clients /\ screen' \in Screens /\ rebuild' \in Rebuilding
               /\ client'.meta = AfterReplay(t, m) /\ client'.mark = MarkedAs(client.mark, m)
               /\ screen' = Showing(screen, {m.id} \X Replayed(t, m))
               /\ rebuild'.at = rebuild.at /\ rebuild'.reply = rebuild.reply
               /\ rebuild'.found = rebuild.found
    <2> PICK k : k = MarkedAs(client.mark, m)
      OBVIOUS
    <2> PICK a : a = AfterReplay(t, m)
      OBVIOUS
    <2> PICK b : b = (rebuild.touched \/ (rebuild.at # "none" /\ Replayed(t, m) # {}))
      OBVIOUS
    <2>1. /\ client' = [meta |-> a, mark |-> k]
          /\ screen' = Showing(screen, {m.id} \X Replayed(t, m))
          /\ rebuild' = [rebuild EXCEPT !.touched = b]
      BY <1>6 DEF ReceiveResume
    <2>2. a \in Metas /\ k \in Marks /\ {m.id} \X Replayed(t, m) \in SUBSET (Streams \X Nat)
          /\ b \in BOOLEAN
      BY <1>2, <1>3, <1>4, AfterReplayMeta, MarksAs, ReplayedOnes, RebuildFields
    <2>3. client' \in Clients /\ client'.meta = a /\ client'.mark = k
      BY <2>1, <2>2, ClientOf
    <2>4. screen' \in Screens
      BY <2>1, <2>2, <1>3, ShowingScreen
    <2>5. rebuild' \in Rebuilding /\ rebuild'.at = rebuild.at /\ rebuild'.reply = rebuild.reply
          /\ rebuild'.found = rebuild.found
      BY <2>1, <2>2, <1>3 DEF Rebuilding
    <2> QED
      BY <2>1, <2>3, <2>4, <2>5
  <1>7. harm' \in {harm, harm \cup {"turn_cut"}}
    BY DEF ReceiveResume
  <1> QED
    BY <1>1, <1>2, <1>5, <1>6, <1>7

LEMMA FetchReadsDoes ==
  ASSUME StreamTyped, FetchReads
  PROVE  /\ rebuild' \in Rebuilding /\ rebuild.at = "asked" /\ rebuild'.at = "read"
         /\ rebuild'.reply = rebuild.reply /\ rebuild'.found = disk
  <1>1. rebuild \in Rebuilding /\ disk \in SUBSET (Streams \X Nat)
    BY DEF StreamTyped
  <1> PICK r : r = [rebuild EXCEPT !.at = "read"]
    OBVIOUS
  <1>2. r \in Rebuilding /\ r.at = "read" /\ r.reply = rebuild.reply
    BY <1>1 DEF Rebuilding
  <1>3. rebuild' = [r EXCEPT !.found = disk] /\ rebuild.at = "asked"
    BY DEF FetchReads
  <1> QED
    BY <1>1, <1>2, <1>3 DEF Rebuilding

LEMMA FetchFailsDoes ==
  ASSUME StreamTyped, FetchFails
  PROVE  /\ rebuild' \in Rebuilding /\ rebuild.at = "asked" /\ rebuild'.at = "read"
         /\ rebuild'.reply = rebuild.reply /\ rebuild'.found = rebuild.found
         /\ used' \in Uses /\ used'.streams = used.streams
  <1>1. rebuild \in Rebuilding /\ used \in Uses
    BY DEF StreamTyped
  <1> PICK r : r = [rebuild EXCEPT !.at = "read"]
    OBVIOUS
  <1>2. r \in Rebuilding /\ r.at = "read" /\ r.reply = rebuild.reply /\ r.found = rebuild.found
    BY <1>1 DEF Rebuilding
  <1>3. rebuild' = [r EXCEPT !.touched = TRUE] /\ rebuild.at = "asked"
        /\ used' = [used EXCEPT !.faults = @ + 1] /\ used.faults < MaxFaults
    BY DEF FetchFails
  <1>4. used' \in Uses /\ used'.streams = used.streams
    BY <1>1, <1>3, BoundsAssumption DEF Uses
  <1> QED
    BY <1>2, <1>3, <1>4 DEF Rebuilding

LEMMA RebuildEndsDoes ==
  ASSUME StreamTyped, RebuildEnds
  PROVE  LET m == rebuild.reply
             t == [Turned(client.meta, m.id) EXCEPT !.last = 0, !.got = {}]
         IN  /\ rebuild.at = "read" /\ rebuild' = NoRebuild /\ m \in Answers
             /\ t \in Metas /\ t.id = (IF m.id = 0 THEN client.meta.id ELSE m.id)
             /\ t.got = {} /\ t.last = 0
             /\ client' \in Clients /\ client'.meta = AfterReplay(t, m)
             /\ client'.mark = MarkedAs(client.mark, m)
             /\ screen' \in Screens
             /\ \E base \in {screen.shown, rebuild.found} :
                  /\ screen'.shown = base \cup ({m.id} \X Replayed(t, m))
                  /\ screen'.twice = screen.twice \cup (base \cap ({m.id} \X Replayed(t, m)))
             /\ wire' \in Wires /\ wire'.up = wire.up /\ wire'.stale = wire.stale
             /\ wire'.down = wire.down
             /\ \/ wire'.ask = wire.ask
                \/ wire.up /\ \E r \in Requests : wire'.ask = Append(wire.ask, r)
  <1> PICK m : m = rebuild.reply
    OBVIOUS
  <1> PICK u : u = Turned(client.meta, m.id)
    OBVIOUS
  <1> PICK t : t = [u EXCEPT !.last = 0, !.got = {}]
    OBVIOUS
  <1>0. wire \in Wires /\ screen \in Screens /\ rebuild.found \in SUBSET (Streams \X Nat)
        /\ client.meta \in Metas /\ client.mark \in Marks /\ m \in Answers
        /\ m.id \in 0..MaxStreams
    BY RebuildFields, ReplyFields DEF StreamTyped, Clients
  <1>1. u \in Metas /\ u.id = IF m.id = 0 THEN client.meta.id ELSE m.id
    BY <1>0, TurnedMeta
  <1>2. t \in Metas /\ t.id = u.id /\ t.got = {} /\ t.last = 0
    <2> PICK v : v = [u EXCEPT !.last = 0]
      OBVIOUS
    <2>1. v \in Metas /\ v.id = u.id /\ v.last = 0
      BY <1>1 DEF Metas
    <2>2. t = [v EXCEPT !.got = {}]
      OBVIOUS
    <2> QED
      BY <2>1, <2>2 DEF Metas
  <1> PICK events : events = {m.id} \X Replayed(t, m)
    OBVIOUS
  <1> PICK a : a = AfterReplay(t, m)
    OBVIOUS
  <1> PICK k : k = MarkedAs(client.mark, m)
    OBVIOUS
  <1>3. a \in Metas /\ k \in Marks /\ events \in SUBSET (Streams \X Nat)
    BY <1>0, <1>2, AfterReplayMeta, MarksAs, ReplayedOnes
  <1>4. PICK base \in Screens : /\ base.shown \in {screen.shown, rebuild.found}
                                /\ base.twice = screen.twice
                                /\ screen' = Showing(base, events)
    <2>1. CASE rebuild.touched
      BY <1>0, <2>1 DEF RebuildEnds
    <2>2. CASE ~rebuild.touched
      <3> PICK b : b = [screen EXCEPT !.shown = rebuild.found]
        OBVIOUS
      <3>1. b \in Screens /\ b.shown = rebuild.found /\ b.twice = screen.twice
        BY <1>0, ShownOf
      <3>2. screen' = Showing(b, events)
        BY <2>2 DEF RebuildEnds
      <3> QED
        BY <3>1, <3>2
    <2> QED
      BY <2>1, <2>2
  <1>5. /\ rebuild.at = "read" /\ rebuild' = NoRebuild
        /\ client' = [meta |-> a, mark |-> k]
        /\ wire' = IF wire.up /\ m.live
                   THEN [wire EXCEPT !.ask = Append(@, Asked(client'.meta))] ELSE wire
    BY DEF RebuildEnds
  <1>6. client' \in Clients /\ client'.meta = a /\ client'.mark = k
    BY <1>3, <1>5, ClientOf
  <1>7. screen' \in Screens /\ screen'.shown = base.shown \cup events
        /\ screen'.twice = screen.twice \cup (base.shown \cap events)
    <2>1. base \in Screens /\ events \in SUBSET (Streams \X Nat)
      BY <1>3, <1>4
    <2>2. /\ Showing(base, events) \in Screens
          /\ Showing(base, events).shown = base.shown \cup events
          /\ Showing(base, events).twice = base.twice \cup (base.shown \cap events)
      BY <2>1, ShowingScreen
    <2>3. screen' = Showing(base, events) /\ base.twice = screen.twice
      BY <1>4
    <2> QED
      BY <2>2, <2>3
  <1>8. /\ wire' \in Wires /\ wire'.up = wire.up /\ wire'.stale = wire.stale
        /\ wire'.down = wire.down
        /\ \/ wire'.ask = wire.ask
           \/ wire.up /\ \E r \in Requests : wire'.ask = Append(wire.ask, r)
    <2>1. CASE wire.up /\ m.live
      <3> PICK r : r = Asked(a)
        OBVIOUS
      <3> PICK q : q = Append(wire.ask, r)
        OBVIOUS
      <3>1. r \in Requests
        BY <1>3 DEF Asked, Requests, Metas
      <3>2. q \in Seq(Requests)
        BY <3>1, <1>0, WireFields, AppendProperties
      <3>3. wire' = [wire EXCEPT !.ask = q]
        BY <1>5, <1>6, <2>1
      <3>4. wire' \in Wires /\ wire'.up = wire.up /\ wire'.stale = wire.stale
            /\ wire'.down = wire.down /\ wire'.ask = q
        BY <3>2, <3>3, <1>0 DEF Wires
      <3> QED
        BY <3>1, <3>4, <2>1
    <2>2. CASE ~(wire.up /\ m.live)
      BY <1>0, <1>5, <2>2
    <2> QED
      BY <2>1, <2>2
  <1>9. \E b \in {screen.shown, rebuild.found} :
          /\ screen'.shown = b \cup events
          /\ screen'.twice = screen.twice \cup (b \cap events)
    BY <1>4, <1>7
  <1>10. /\ rebuild.at = "read" /\ rebuild' = NoRebuild /\ m \in Answers
         /\ t \in Metas /\ t.id = (IF m.id = 0 THEN client.meta.id ELSE m.id)
         /\ t.got = {} /\ t.last = 0
         /\ client' \in Clients /\ client'.meta = AfterReplay(t, m)
         /\ client'.mark = MarkedAs(client.mark, m) /\ screen' \in Screens
    <2>1. t.id = (IF m.id = 0 THEN client.meta.id ELSE m.id)
      BY <1>1, <1>2
    <2> QED
      BY <2>1, <1>0, <1>2, <1>5, <1>6, <1>7
  <1> QED
    BY <1>8, <1>9, <1>10, ZenonT(60)

LEMMA NoStoreTyped == NoStore \in Stores /\ NoStore.id = 0 /\ NoStore.live = FALSE
  BY BoundsAssumption DEF NoStore, Stores

LEMMA LostHarms == Lost \subseteq Harms /\ Forgotten \subseteq Harms
  BY DEF Lost, Forgotten, Harms

\* A connection that is down, with nothing on it.
Down ==
  /\ wire' \in Wires /\ wire'.up = FALSE /\ wire'.ask = <<>> /\ wire'.down = <<>>

LEMMA WireDowned ==
  ASSUME NEW b \in BOOLEAN,
         wire' = [up |-> FALSE, stale |-> b, ask |-> <<>>, down |-> <<>>]
  PROVE  Down /\ wire'.stale = b
  BY EmptySeq DEF Wires, Down

LEMMA DropDoes ==
  ASSUME StreamTyped, Drop
  PROVE  Down /\ used' \in Uses /\ used'.streams = used.streams /\ harm' = harm \cup Lost
  <1>1. used \in Uses /\ used.drops < MaxDrops /\ used' = [used EXCEPT !.drops = @ + 1]
    BY DEF StreamTyped, Drop
  <1>2. used' \in Uses /\ used'.streams = used.streams
    BY <1>1, BoundsAssumption DEF Uses
  <1> QED
    BY <1>2, WireDowned DEF Drop

\* A fault that may take the stream state away.
RunForgot ==
  run' \in Runs /\ run'.at = run.at /\ run'.active = FALSE /\ run'.held = FALSE

LEMMA RunForgets ==
  ASSUME run \in Runs, run' = [run EXCEPT !.active = FALSE, !.held = FALSE]
  PROVE  RunForgot
  <1> PICK r : r = [run EXCEPT !.active = FALSE]
    OBVIOUS
  <1>1. r \in Runs /\ r.at = run.at /\ r.active = FALSE
    BY DEF Runs
  <1>2. run' = [r EXCEPT !.held = FALSE]
    OBVIOUS
  <1> QED
    BY <1>1, <1>2 DEF Runs, RunForgot

LEMMA ServerNoticesDoes ==
  ASSUME StreamTyped, ServerNotices
  PROVE  /\ wire' \in Wires /\ wire'.up = wire.up /\ wire'.ask = wire.ask
         /\ wire'.down = wire.down
         /\ \/ UNCHANGED <<run, store, harm>>
            \/ /\ ~wire.up /\ RunForgot /\ store' = NoStore /\ harm' = harm \cup Forgotten
  <1>1. wire \in Wires /\ wire' = [wire EXCEPT !.stale = FALSE] /\ run \in Runs
    BY DEF ServerNotices, StreamTyped
  <1>2. wire' \in Wires /\ wire'.up = wire.up /\ wire'.ask = wire.ask
        /\ wire'.down = wire.down
    BY <1>1 DEF Wires
  <1> QED
    BY <1>1, <1>2, RunForgets DEF ServerNotices

LEMMA EvictDoes ==
  ASSUME StreamTyped, Evict
  PROVE  /\ RunForgot /\ store' = NoStore /\ store.id # 0 /\ harm' = harm \cup Forgotten
         /\ used' \in Uses /\ used'.streams = used.streams
  <1>1. used \in Uses /\ used.faults < MaxFaults /\ used' = [used EXCEPT !.faults = @ + 1]
        /\ run \in Runs
    BY DEF StreamTyped, Evict
  <1>2. used' \in Uses /\ used'.streams = used.streams
    BY <1>1, BoundsAssumption DEF Uses
  <1> QED
    BY <1>1, <1>2, RunForgets DEF Evict

LEMMA RestartDoes ==
  ASSUME StreamTyped, Restart
  PROVE  /\ Down /\ used' \in Uses /\ used'.streams = used.streams
         /\ store' = NoStore /\ run' \in Runs
         /\ run'.at = "idle" /\ run'.active = FALSE /\ run'.held = FALSE
         /\ harm' = harm \cup Forgotten \cup (IF wire.up THEN Lost ELSE {})
  <1>1. used \in Uses /\ used.faults < MaxFaults /\ used' = [used EXCEPT !.faults = @ + 1]
    BY DEF StreamTyped, Restart
  <1>2. used' \in Uses /\ used'.streams = used.streams
    BY <1>1, BoundsAssumption DEF Uses
  <1>3. run' \in Runs /\ run'.at = "idle" /\ run'.active = FALSE /\ run'.held = FALSE
    BY DEF Restart, Runs
  <1> QED
    BY <1>2, <1>3, WireDowned DEF Restart

LEMMA ReconnectDoes ==
  ASSUME StreamTyped, Reconnect
  PROVE  /\ wire' \in Wires /\ ~wire.up /\ wire'.up = TRUE /\ wire'.down = wire.down
         /\ IF client.mark.on THEN \E r \in Requests : wire'.ask = <<r>> ELSE wire'.ask = <<>>
  <1> PICK q : q = IF client.mark.on THEN <<Asked(client.meta)>> ELSE <<>>
    OBVIOUS
  <1>1. wire \in Wires /\ Asked(client.meta) \in Requests
    BY DEF StreamTyped, Clients, Metas, Asked, Requests
  <1>2. q \in Seq(Requests)
    BY <1>1, EmptySeq
  <1> PICK v : v = [wire EXCEPT !.up = TRUE]
    OBVIOUS
  <1> PICK w : w = [v EXCEPT !.stale = FALSE]
    OBVIOUS
  <1>3. w \in Wires /\ w.up = TRUE /\ w.down = wire.down
    BY <1>1 DEF Wires
  <1>4. ~wire.up /\ wire' = [w EXCEPT !.ask = q]
    BY DEF Reconnect
  <1>5. wire' \in Wires /\ wire'.up = TRUE /\ wire'.down = wire.down /\ wire'.ask = q
    BY <1>2, <1>3, <1>4 DEF Wires
  <1> QED
    BY <1>1, <1>4, <1>5

-----------------------------------------------------------------------------
(* The types are kept.                                                     *)

LEMMA StreamBegins == Init => StreamTyped
  <1> SUFFICES ASSUME Init PROVE StreamTyped
    OBVIOUS
  <1>1. run \in Runs /\ run.active = FALSE /\ run.held = FALSE
    BY DEF Init, Runs
  <1>2. wire \in Wires
    BY EmptySeq DEF Init, Wires
  <1>3. client \in Clients
    BY MetaIds, UnmarkedMark, ClientOf DEF Init
  <1>4. screen \in Screens /\ used \in Uses /\ used.streams = 0
    BY BoundsAssumption DEF Init, Screens, Uses
  <1>5. store \in Stores /\ store.id = 0 /\ rebuild \in Rebuilding /\ disk = {} /\ harm = {}
    BY NoStoreTyped, ReplyNone DEF Init
  <1> QED
    BY <1>1, <1>2, <1>3, <1>4, <1>5 DEF StreamTyped

\* The parts that a step of the server leaves alone.
ClientSame == UNCHANGED <<client, screen, rebuild>>

LEMMA ServedTyped ==
  ASSUME StreamTyped, ClientSame, wire' \in Wires, used' \in Uses, store' \in Stores,
         store'.id \in {0, used'.streams}, run' \in Runs, harm' \subseteq Harms,
         disk' \subseteq Streams \X Nat, run'.active \/ run'.held => store'.id # 0
  PROVE  StreamTyped'
  BY DEF StreamTyped, ClientSame

LEMMA RunActive ==
  ASSUME run \in Runs, NEW b \in BOOLEAN
  PROVE  /\ [run EXCEPT !.active = b] \in Runs /\ [run EXCEPT !.active = b].held = run.held
         /\ [run EXCEPT !.held = b] \in Runs /\ [run EXCEPT !.held = b].active = run.active
         /\ [run EXCEPT !.active = b].at = run.at /\ [run EXCEPT !.held = b].at = run.at
         /\ [run EXCEPT !.held = b].held = b /\ [run EXCEPT !.active = b].active = b
  BY DEF Runs

LEMMA ServerTyped == StreamTyped /\ Server => StreamTyped'
  <1> SUFFICES ASSUME StreamTyped, Server PROVE StreamTyped'
    OBVIOUS
  <1>0. run \in Runs /\ harm \subseteq Harms /\ disk \subseteq Streams \X Nat
        /\ store \in Stores /\ used \in Uses /\ (run.active \/ run.held => store.id # 0)
        /\ harm \cup {"start_unseen"} \subseteq Harms
    BY DEF StreamTyped, Harms
  <1>1. CASE StartPrompt
    <2>1. run' \in Runs /\ harm' \subseteq Harms /\ disk' = disk /\ ClientSame
      BY <1>0, <1>1 DEF StartPrompt, Runs, ClientSame
    <2>2. Serving /\ store'.id = used.streams + 1 /\ used.streams \in Nat
      BY <1>0, <1>1, StartPromptDoes DEF Uses
    <2>3. store'.id # 0
      BY <2>2
    <2> QED
      BY <1>0, <2>1, <2>2, <2>3, ServedTyped DEF Serving
  <1>2. CASE TurnStart
    <2>1. run' \in Runs /\ harm' \subseteq Harms /\ disk' = disk /\ ClientSame
      BY <1>0, <1>2, RunActive DEF TurnStart, ClientSame
    <2>2. Serving /\ store'.id = used.streams + 1 /\ used.streams \in Nat
      BY <1>0, <1>2, TurnStartDoes DEF Uses
    <2>3. store'.id # 0
      BY <2>2
    <2> QED
      BY <1>0, <2>1, <2>2, <2>3, ServedTyped DEF Serving
  <1>3. CASE Emit
    <2>1. run' = run /\ harm' = harm /\ disk' = disk /\ ClientSame
      BY <1>3 DEF Emit, ClientSame
    <2>2. Serving /\ store'.id = store.id /\ store.id # 0
      BY <1>3, EmitDoes
    <2> QED
      BY <1>0, <2>1, <2>2, ServedTyped DEF Serving
  <1>4. CASE TurnEnd
    <2>1. /\ run' = [run EXCEPT !.active = FALSE, !.held = FALSE] /\ harm' = harm /\ ClientSame
          /\ disk' = disk \cup {<<store.id, q>> : q \in 1..store.next}
      BY <1>4 DEF TurnEnd, ClientSame
    <2>2. Serving /\ store'.id = store.id /\ store.id # 0
      BY <1>4, TurnEndDoes
    <2>3. RunForgot
      BY <1>0, <2>1, RunForgets
    <2>4. store.id \in Streams /\ store.next \in Nat
      BY <1>0, <2>2 DEF Stores, Streams
    <2>5. disk' \subseteq Streams \X Nat
      BY <1>0, <2>1, <2>4
    <2> QED
      BY <1>0, <2>1, <2>2, <2>3, <2>5, ServedTyped DEF Serving, RunForgot
  <1>5. CASE SdkStops
    <2>1. UNCHANGED <<store, disk, wire, client, screen, rebuild, harm, used>>
          /\ run' = [run EXCEPT !.at = "over"]
      BY <1>5 DEF SdkStops
    <2>2. run' \in Runs /\ run'.active = run.active /\ run'.held = run.held
      BY <1>0, <2>1 DEF Runs
    <2> QED
      BY <2>1, <2>2 DEF StreamTyped
  <1>6. CASE EndPrompt
    <2>1. harm' = harm /\ disk' = disk /\ ClientSame /\ run' \in Runs
          /\ run'.active = FALSE /\ run'.held = FALSE
      BY <1>6 DEF EndPrompt, ClientSame, Runs
    <2>2. Serving
      BY <1>6, EndPromptDoes
    <2> QED
      BY <1>0, <2>1, <2>2, ServedTyped DEF Serving
  <1>7. CASE Notice
    <2>1. harm' \subseteq Harms /\ disk' = disk /\ ClientSame
          /\ \E held \in BOOLEAN : run' = [run EXCEPT !.held = held]
      BY <1>0, <1>7 DEF Notice, ClientSame, Harms, Runs
    <2>2. run' \in Runs /\ run'.active = run.active
      BY <1>0, <2>1 DEF Runs
    <2>3. wire' \in Wires /\ used' \in Uses /\ store' \in Stores
          /\ store'.id = used'.streams /\ store'.id # 0
      BY <1>7, NoticeDoes
    <2> QED
      BY <1>0, <2>1, <2>2, <2>3, ServedTyped
  <1>8. CASE Answer
    <2>1. UNCHANGED <<run, store, disk, client, screen, rebuild, harm, used>>
      BY <1>8 DEF Answer
    <2>2. wire' \in Wires
      BY <1>8, AnswerDoes
    <2> QED
      BY <2>1, <2>2 DEF StreamTyped
  <1> QED
    BY <1>1, <1>2, <1>3, <1>4, <1>5, <1>6, <1>7, <1>8 DEF Server

LEMMA FaultTyped == StreamTyped /\ Fault => StreamTyped'
  <1> SUFFICES ASSUME StreamTyped, Fault PROVE StreamTyped'
    OBVIOUS
  <1>0. harm \subseteq Harms /\ Lost \subseteq Harms /\ Forgotten \subseteq Harms
        /\ disk \subseteq Streams \X Nat /\ used.streams \in 0..MaxStreams
    BY LostHarms DEF StreamTyped, Uses
  <1>1. CASE Drop
    <2>1. UNCHANGED <<run, store, disk, client, screen, rebuild>>
      BY <1>1 DEF Drop
    <2>2. wire' \in Wires /\ used' \in Uses /\ used'.streams = used.streams /\ harm' \subseteq Harms
      BY <1>0, <1>1, DropDoes DEF Down
    <2> QED
      BY <2>1, <2>2 DEF StreamTyped
  <1>2. CASE ServerNotices
    <2>1. UNCHANGED <<disk, client, screen, rebuild, used>>
      BY <1>2 DEF ServerNotices
    <2>2. wire' \in Wires /\ (UNCHANGED <<run, store, harm>>
             \/ (RunForgot /\ store' = NoStore /\ harm' \subseteq Harms))
      BY <1>0, <1>2, ServerNoticesDoes
    <2> QED
      BY <2>1, <2>2, NoStoreTyped DEF StreamTyped, RunForgot
  <1>3. CASE Evict
    <2>1. UNCHANGED <<disk, wire, client, screen, rebuild>>
      BY <1>3 DEF Evict
    <2>2. RunForgot /\ store' = NoStore /\ harm' \subseteq Harms
          /\ used' \in Uses /\ used'.streams = used.streams
      BY <1>0, <1>3, EvictDoes
    <2> QED
      BY <2>1, <2>2, NoStoreTyped DEF StreamTyped, RunForgot
  <1>4. CASE Restart
    <2>1. UNCHANGED <<disk, client, screen, rebuild>>
      BY <1>4 DEF Restart
    <2>2. /\ wire' \in Wires /\ used' \in Uses /\ used'.streams = used.streams
          /\ store' = NoStore /\ run' \in Runs
          /\ run'.active = FALSE /\ run'.held = FALSE
          /\ harm' \subseteq Harms
      BY <1>0, <1>4, RestartDoes DEF Down
    <2> QED
      BY <2>1, <2>2, NoStoreTyped DEF StreamTyped
  <1> QED
    BY <1>1, <1>2, <1>3, <1>4 DEF Fault

LEMMA ClientTyped == StreamTyped /\ Client => StreamTyped'
  <1> SUFFICES ASSUME StreamTyped, Client PROVE StreamTyped'
    OBVIOUS
  <1>0. harm \subseteq Harms /\ {"status_discarded", "turn_cut", "fetch_failed"} \subseteq Harms
    BY DEF StreamTyped, Harms
  <1>1. CASE Reconnect
    <2>1. UNCHANGED <<run, store, disk, client, screen, rebuild, harm, used>>
      BY <1>1 DEF Reconnect
    <2>2. wire' \in Wires
      BY <1>1, ReconnectDoes
    <2> QED
      BY <2>1, <2>2 DEF StreamTyped
  <1>2. CASE ReceiveStatus
    <2>1. UNCHANGED <<run, store, disk, screen, rebuild, used>>
      BY <1>2 DEF ReceiveStatus
    <2>2. wire' \in Wires /\ client' \in Clients
      BY <1>2, ReceiveStatusDoes DEF StreamTyped, TookOff
    <2>3. harm' \subseteq Harms
      BY <1>0, <1>2, ReceiveStatusDoes
    <2> QED
      BY <2>1, <2>2, <2>3 DEF StreamTyped
  <1>3. CASE ReceiveEvent
    <2>1. UNCHANGED <<run, store, disk, rebuild, harm, used>>
      BY <1>3 DEF ReceiveEvent
    <2>2. wire' \in Wires /\ client' \in Clients /\ screen' \in Screens
      BY <1>3, ReceiveEventDoes DEF StreamTyped, TookOff
    <2> QED
      BY <2>1, <2>2 DEF StreamTyped
  <1>4. CASE ReceiveResume
    <2>1. UNCHANGED <<run, store, disk, used>>
      BY <1>4 DEF ReceiveResume
    <2>2. wire' \in Wires /\ client' \in Clients /\ screen' \in Screens /\ rebuild' \in Rebuilding
          /\ harm' \in {harm, harm \cup {"turn_cut"}}
      BY <1>4, ReceiveResumeDoes DEF TookOff
    <2>3. harm' \subseteq Harms
      BY <1>0, <2>2
    <2> QED
      BY <2>1, <2>2, <2>3 DEF StreamTyped
  <1>5. CASE FetchReads
    <2>1. UNCHANGED <<run, store, disk, wire, client, screen, harm, used>>
      BY <1>5 DEF FetchReads
    <2> QED
      BY <1>5, <2>1, FetchReadsDoes DEF StreamTyped
  <1>6. CASE FetchFails
    <2>1. UNCHANGED <<run, store, disk, wire, client, screen>>
          /\ harm' = harm \cup {"fetch_failed"}
      BY <1>6 DEF FetchFails
    <2>2. harm' \subseteq Harms
      BY <1>0, <2>1
    <2> QED
      BY <1>6, <2>1, <2>2, FetchFailsDoes DEF StreamTyped
  <1>7. CASE RebuildEnds
    <2>1. UNCHANGED <<run, store, disk, harm, used>>
      BY <1>7 DEF RebuildEnds
    <2>2. rebuild' \in Rebuilding /\ client' \in Clients /\ screen' \in Screens /\ wire' \in Wires
      BY <1>7, RebuildEndsDoes, ReplyNone
    <2> QED
      BY <2>1, <2>2 DEF StreamTyped
  <1> QED
    BY <1>1, <1>2, <1>3, <1>4, <1>5, <1>6, <1>7 DEF Client

LEMMA StreamKept == StreamTyped /\ [Next]_vars => StreamTyped'
  <1>1. StreamTyped /\ UNCHANGED vars => StreamTyped'
    BY DEF StreamTyped, vars
  <1> QED
    BY <1>1, ServerTyped, FaultTyped, ClientTyped DEF Next

LEMMA StreamInvariant == Spec => []StreamTyped
  BY StreamBegins, StreamKept, PTL DEF Spec

\* The stream, the wire and the window stay within their types: no event is counted
\* below zero, shown without a stream, or replayed from one that is not known.
THEOREM StreamIsTyped == Spec => []TypeOK
  BY StreamInvariant, StreamTypes, PTL

-----------------------------------------------------------------------------
(* The order of the messages on the wire.                                  *)

Resuming(d) == \E i \in 1..Len(d) : d[i].kind = "resume"
Once(d) == \A i, j \in 1..Len(d) : d[i].kind = "resume" /\ d[j].kind = "resume" => i = j

\* Messages that speak of a stream speak of streams in the order they began.
Ordered(d, low, high) ==
  /\ \A i \in 1..Len(d) : d[i].id # 0 => low <= d[i].id /\ d[i].id <= high
  /\ \A i, j \in 1..Len(d) : i < j /\ d[i].id # 0 /\ d[j].id # 0 => d[i].id <= d[j].id

\* e is d with more at its end: no reply, and no stream older than the newest.
Grows(d, e, high, top) ==
  /\ e \in Seq(Letters) /\ (Once(d) => Once(e)) /\ (Resuming(e) => Resuming(d))
  /\ \A low \in Nat : low <= high /\ Ordered(d, low, high) => Ordered(e, low, top)

LEMMA Appended ==
  ASSUME NEW d \in Seq(Letters), NEW m \in Letters
  PROVE  LET e == Append(d, m)
         IN  /\ e \in Seq(Letters) /\ Len(d) \in Nat /\ Len(e) = Len(d) + 1
             /\ \A i \in 1..Len(d) : e[i] = d[i]
             /\ e[Len(d) + 1] = m
             /\ \A i \in 1..Len(e) : i \in 1..Len(d) \/ i = Len(d) + 1
             /\ \A i \in 1..Len(d) : d[i] \in Letters
  <1>1. Len(d) \in Nat /\ \A i \in 1..Len(d) : d[i] \in Letters
    BY LenProperties, ElementOfSeq
  <1> QED
    BY <1>1, AppendProperties

LEMMA OrderedAppend ==
  ASSUME NEW d \in Seq(Letters), NEW m \in Letters, NEW low \in Nat, NEW high \in Nat,
         NEW top \in Nat, low <= high, high <= top, Ordered(d, low, high),
         m.id # 0 => high <= m.id /\ m.id <= top
  PROVE  Ordered(Append(d, m), low, top)
  <1> PICK e : e = Append(d, m)
    OBVIOUS
  <1> PICK n : n = Len(d)
    OBVIOUS
  <1>1. /\ n \in Nat /\ Len(e) = n + 1 /\ e[n + 1] = m
        /\ \A i \in 1..n : e[i] = d[i]
        /\ \A i \in 1..Len(e) : i \in 1..n \/ i = n + 1
        /\ \A i \in 1..n : d[i].id \in Nat
    BY Appended, LetterFields
  <1>2. m.id \in Nat
    BY LetterFields
  <1>3. ASSUME NEW i \in 1..Len(e), e[i].id # 0
        PROVE  low <= e[i].id /\ e[i].id <= top
    <2>1. CASE i \in 1..n
      BY <1>1, <1>3, <2>1 DEF Ordered
    <2>2. CASE i = n + 1
      BY <1>1, <1>2, <1>3, <2>2
    <2> QED
      BY <1>1, <2>1, <2>2
  <1>4. ASSUME NEW i \in 1..Len(e), NEW j \in 1..Len(e), i < j, e[i].id # 0, e[j].id # 0
        PROVE  e[i].id <= e[j].id
    <2>1. i \in 1..n
      BY <1>1, <1>4
    <2>2. CASE j \in 1..n
      BY <1>1, <1>4, <2>1, <2>2 DEF Ordered
    <2>3. CASE j = n + 1
      <3>1. d[i].id <= high /\ e[i].id = d[i].id /\ e[j].id = m.id
        BY <1>1, <1>4, <2>1, <2>3 DEF Ordered
      <3> QED
        BY <3>1, <1>1, <1>2, <1>4, <2>1
    <2> QED
      BY <1>1, <2>2, <2>3
  <1> QED
    BY <1>3, <1>4 DEF Ordered

LEMMA OnceAppend ==
  ASSUME NEW d \in Seq(Letters), NEW m \in Letters
  PROVE  /\ m.kind # "resume" =>
              /\ Once(d) => Once(Append(d, m))
              /\ Resuming(Append(d, m)) => Resuming(d)
         /\ ~Resuming(d) => Once(Append(d, m))
  <1> PICK e : e = Append(d, m)
    OBVIOUS
  <1> PICK n : n = Len(d)
    OBVIOUS
  <1>1. /\ n \in Nat /\ Len(e) = n + 1 /\ e[n + 1] = m
        /\ \A i \in 1..n : e[i] = d[i]
        /\ \A i \in 1..Len(e) : i \in 1..n \/ i = n + 1
    BY Appended
  <1>2. m.kind # "resume" => (Once(d) => Once(e)) /\ (Resuming(e) => Resuming(d))
    BY <1>1 DEF Once, Resuming
  <1>3. ~Resuming(d) => Once(e)
    BY <1>1 DEF Once, Resuming
  <1> QED
    BY <1>2, <1>3

LEMMA GrowsBy ==
  ASSUME NEW d \in Seq(Letters), NEW m \in Letters, NEW high \in Nat, NEW top \in Nat,
         high <= top, m.kind # "resume", m.id # 0 => high <= m.id /\ m.id <= top
  PROVE  Grows(d, Append(d, m), high, top)
  <1>1. Append(d, m) \in Seq(Letters)
    BY Appended
  <1>2. \A low \in Nat : low <= high /\ Ordered(d, low, high) => Ordered(Append(d, m), low, top)
    BY OrderedAppend
  <1> QED
    BY <1>1, <1>2, OnceAppend DEF Grows

LEMMA GrowsEvent ==
  ASSUME NEW d \in Seq(Letters), NEW e, NEW id \in Nat, NEW high \in Nat, NEW top \in Nat,
         WithEvent(d, e, id), high <= id, id <= top
  PROVE  Grows(d, e, high, top)
  <1> PICK q \in Nat : id \in Streams /\ e = Append(d, Event(id, q))
    BY DEF WithEvent
  <1> PICK m : m = Event(id, q)
    OBVIOUS
  <1>1. m \in Letters /\ m.kind # "resume" /\ m.id = id
    BY EventTold
  <1> QED
    BY <1>1, GrowsBy

KnownIds == 0..MaxStreams

LEMMA GrowsStatus ==
  ASSUME NEW d \in Seq(Letters), NEW e, NEW id \in KnownIds,
         NEW high \in Nat, NEW top \in Nat, high <= top,
         SaidOn(d, e, id) \/ SaidOff(d, e, id),
         id # 0 => high <= id /\ id <= top
  PROVE  Grows(d, e, high, top)
  <1> PICK on \in BOOLEAN : WithStatus(d, e, on, id)
    BY DEF SaidOn, SaidOff
  <1> PICK m : m = Status(on, id)
    OBVIOUS
  <1>1. m \in Letters /\ m.kind # "resume" /\ m.id = id /\ e = Append(d, m)
    BY StatusTold DEF WithStatus, KnownIds
  <1> QED
    BY <1>1, GrowsBy

LEMMA GrowsPerhaps ==
  ASSUME NEW d \in Seq(Letters), NEW e, NEW id \in Nat, NEW high \in Nat,
         PerhapsEvent(d, e, id), id # 0 => id = high
  PROVE  Grows(d, e, high, high)
  <1>1. CASE e = d
    BY <1>1 DEF Grows
  <1>2. CASE WithEvent(d, e, id)
    <2>1. id # 0
      BY <1>2, BoundsAssumption DEF WithEvent, Streams
    <2> QED
      BY <1>2, <2>1, GrowsEvent
  <1> QED
    BY <1>1, <1>2 DEF PerhapsEvent

LEMMA GrowsAgain ==
  ASSUME NEW d, NEW e, NEW f, NEW high \in Nat, NEW top \in Nat, NEW last \in Nat,
         high <= top, Grows(d, e, high, top), Grows(e, f, top, last)
  PROVE  Grows(d, f, high, last)
  BY DEF Grows

\* What a step of the server leaves of the wire.
Growth ==
  /\ wire'.up = wire.up /\ wire'.ask = wire.ask
  /\ used.streams <= used'.streams
  /\ IF wire.up THEN Grows(wire.down, wire'.down, used.streams, used'.streams)
     ELSE wire'.down = wire.down

LEMMA SentGrows ==
  ASSUME StreamTyped, NEW d, Sent(d), wire'.up = wire.up, wire'.ask = wire.ask,
         used.streams <= used'.streams, Grows(wire.down, d, used.streams, used'.streams)
  PROVE  Growth
  BY DEF Growth, Sent

LEMMA ServerGrows ==
  ASSUME StreamTyped, StreamTyped', Server
  PROVE  Answer \/ Growth
  <1>0. /\ used.streams \in Nat /\ used'.streams \in Nat /\ wire.down \in Seq(Letters)
        /\ store.id \in {0, used.streams}
        /\ store.id \in Nat /\ store'.id \in Nat
        /\ store.id \in KnownIds /\ store'.id \in KnownIds
    BY WireFields DEF StreamTyped, Uses, Stores, KnownIds
  <1>1. CASE StartPrompt
    <2>1. PICK e, d : /\ PerhapsEvent(wire.down, e, used.streams)
                      /\ SaidOn(e, d, store'.id) /\ Sent(d)
                      /\ store'.id = used.streams + 1 /\ used'.streams = used.streams + 1
                      /\ Serving
      BY <1>1, StartPromptDoes
    <2>2. Grows(wire.down, e, used.streams, used.streams)
      BY <1>0, <2>1, GrowsPerhaps
    <2>3. Grows(e, d, used.streams, used'.streams)
      <3>1. e \in Seq(Letters)
        BY <2>2 DEF Grows
      <3> QED
        BY <1>0, <2>1, <3>1, GrowsStatus
    <2>4. Grows(wire.down, d, used.streams, used'.streams)
      BY <1>0, <2>2, <2>3, GrowsAgain
    <2> QED
      BY <1>0, <2>1, <2>4, SentGrows DEF Serving
  <1>2. CASE TurnStart
    <2>1. PICK d : /\ SaidOn(wire.down, d, store'.id) /\ Sent(d)
                   /\ store'.id = used.streams + 1 /\ used'.streams = used.streams + 1
                   /\ Serving
      BY <1>2, TurnStartDoes
    <2>2. Grows(wire.down, d, used.streams, used'.streams)
      BY <1>0, <2>1, GrowsStatus
    <2> QED
      BY <1>0, <2>1, <2>2, SentGrows DEF Serving
  <1>3. CASE Emit
    <2>1. PICK d : WithEvent(wire.down, d, store.id) /\ Sent(d) /\ Serving
                   /\ store.id # 0 /\ used'.streams = used.streams
      BY <1>3, EmitDoes
    <2>2. Grows(wire.down, d, used.streams, used'.streams)
      BY <1>0, <2>1, GrowsEvent
    <2> QED
      BY <1>0, <2>1, <2>2, SentGrows DEF Serving
  <1>4. CASE TurnEnd
    <2>1. PICK e, d : /\ WithEvent(wire.down, e, store.id)
                      /\ PerhapsEvent(e, d, store.id) /\ Sent(d) /\ Serving
                      /\ store.id # 0 /\ used'.streams = used.streams
      BY <1>4, TurnEndDoes
    <2>2. Grows(wire.down, e, used.streams, used.streams)
      BY <1>0, <2>1, GrowsEvent
    <2>3. Grows(e, d, used.streams, used.streams)
      BY <1>0, <2>1, <2>2, GrowsPerhaps DEF Grows
    <2>4. Grows(wire.down, d, used.streams, used'.streams)
      BY <1>0, <2>1, <2>2, <2>3, GrowsAgain
    <2> QED
      BY <1>0, <2>1, <2>4, SentGrows DEF Serving
  <1>5. CASE SdkStops
    <2>1. wire' = wire /\ used' = used
      BY <1>5 DEF SdkStops
    <2>2. Grows(wire.down, wire.down, used.streams, used.streams)
      BY <1>0 DEF Grows
    <2> QED
      BY <1>0, <2>1, <2>2 DEF Growth
  <1>6. CASE EndPrompt
    <2>1. PICK e, d : /\ SaidOff(wire.down, e, store.id)
                      /\ PerhapsEvent(e, d, store.id) /\ Sent(d) /\ Serving
                      /\ used'.streams = used.streams
      BY <1>6, EndPromptDoes
    <2>2. Grows(wire.down, e, used.streams, used.streams)
      BY <1>0, <2>1, GrowsStatus
    <2>3. Grows(e, d, used.streams, used.streams)
      BY <1>0, <2>1, <2>2, GrowsPerhaps DEF Grows
    <2>4. Grows(wire.down, d, used.streams, used'.streams)
      BY <1>0, <2>1, <2>2, <2>3, GrowsAgain
    <2> QED
      BY <1>0, <2>1, <2>4, SentGrows DEF Serving
  <1>7. CASE Notice
    <2>1. PICK e, d : /\ WithEvent(wire.down, e, store'.id)
                      /\ PerhapsEvent(e, d, store'.id) /\ Sent(d)
                      /\ store'.id = used'.streams /\ used.streams <= used'.streams
                      /\ wire'.up = wire.up /\ wire'.ask = wire.ask
      <3>1. used'.streams = used.streams + (IF store.id = 0 THEN 1 ELSE 0)
        BY <1>7, NoticeDoes
      <3>2. used.streams <= used'.streams
        BY <1>0, <3>1
      <3> QED
        BY <1>7, <3>2, NoticeDoes
    <2>2. Grows(wire.down, e, used.streams, used'.streams)
      BY <1>0, <2>1, GrowsEvent
    <2>3. Grows(e, d, used'.streams, used'.streams)
      BY <1>0, <2>1, <2>2, GrowsPerhaps DEF Grows
    <2>4. Grows(wire.down, d, used.streams, used'.streams)
      BY <1>0, <2>1, <2>2, <2>3, GrowsAgain
    <2> QED
      BY <1>0, <2>1, <2>4, SentGrows
  <1>8. CASE Answer
    BY <1>8
  <1> QED
    BY <1>1, <1>2, <1>3, <1>4, <1>5, <1>6, <1>7, <1>8 DEF Server

LEMMA TailOrder ==
  ASSUME NEW d \in Seq(Letters), d # <<>>, NEW low \in Nat, NEW high \in Nat,
         Ordered(d, low, high), Once(d)
  PROVE  /\ Once(Tail(d)) /\ (Resuming(Tail(d)) => Resuming(d))
         /\ Head(d).kind = "resume" => Resuming(d) /\ ~Resuming(Tail(d))
         /\ Ordered(Tail(d), low, high)
         /\ Head(d).id # 0 => /\ low <= Head(d).id /\ Head(d).id <= high
                              /\ Ordered(Tail(d), Head(d).id, high)
  <1> PICK t : t = Tail(d)
    OBVIOUS
  <1> PICK n : n = Len(t)
    OBVIOUS
  <1>1. /\ n \in Nat /\ Len(d) = n + 1 /\ Head(d) = d[1]
        /\ \A i \in 1..n : t[i] = d[i + 1]
        /\ \A i \in 1..n : i + 1 \in 1..Len(d) /\ 1 < i + 1
        /\ 1 \in 1..Len(d)
        /\ \A i \in 1..n, j \in 1..n : i < j <=> i + 1 < j + 1
    <2>1. t \in Seq(Letters) /\ Len(d) \in Nat
      BY HeadTailProperties, LenProperties
    <2>2. n \in Nat /\ n = Len(d) - 1 /\ Head(d) = d[1] /\ \A i \in 1..n : t[i] = d[i + 1]
      BY <2>1, HeadTailProperties, LenProperties
    <2> QED
      BY <2>1, <2>2
  <1>2. \A i \in 1..Len(d) : d[i].id \in Nat
    BY ElementOfSeq, LetterFields
  <1>3. Once(t)
    BY <1>1 DEF Once
  <1>4. Resuming(t) => Resuming(d)
    BY <1>1 DEF Resuming
  <1>5. Head(d).kind = "resume" => Resuming(d) /\ ~Resuming(t)
    BY <1>1 DEF Once, Resuming
  <1>6. Ordered(t, low, high)
    BY <1>1 DEF Ordered
  <1>7. ASSUME Head(d).id # 0
        PROVE  /\ low <= Head(d).id /\ Head(d).id <= high /\ Ordered(t, Head(d).id, high)
    BY <1>1, <1>7 DEF Ordered
  <1> QED
    BY <1>3, <1>4, <1>5, <1>6, <1>7

-----------------------------------------------------------------------------
(* Nothing of a turn still going is shown twice.                           *)

\* The newest stream whose events the window may have.
Floor == IF rebuild.at = "none" THEN client.meta.id ELSE rebuild.reply.id

\* One request at most is under way: asked, answered or being rebuilt from.
OneRequest ==
  /\ ~wire.up => wire.ask = <<>> /\ wire.down = <<>> /\ rebuild.at = "none"
  /\ wire.ask # <<>> => Len(wire.ask) = 1 /\ ~Resuming(wire.down)
  /\ Once(wire.down)
  /\ rebuild.at # "none" => wire.ask = <<>> /\ ~Resuming(wire.down)

InOrder ==
  /\ Ordered(wire.down, Floor, used.streams) /\ Floor <= used.streams
  /\ rebuild.at # "none" => client.meta.id = 0

\* What is shown and not in the session file is consumed, or of an earlier stream.
Consumption ==
  /\ screen.twice \subseteq disk
  /\ IF rebuild.at = "none"
     THEN \A e \in screen.shown : \/ e \in disk \/ e[1] < client.meta.id
                                  \/ e[1] = client.meta.id /\ e[2] \in client.meta.got
     ELSE screen.shown \subseteq disk /\ rebuild.found \subseteq disk

Interrupted == "drop_while_rebuilding" \in harm

ShownInv == StreamTyped /\ (Interrupted \/ (OneRequest /\ InOrder /\ Consumption))

LEMMA ShownBegins == Init => ShownInv
  <1> SUFFICES ASSUME Init PROVE ShownInv
    OBVIOUS
  <1>1. wire.down = <<>> /\ wire.ask = <<>> /\ wire.up /\ Len(wire.down) = 0
    BY EmptySeq DEF Init
  <1>2. rebuild.at = "none" /\ client.meta.id = 0 /\ screen.shown = {} /\ screen.twice = {}
        /\ used.streams = 0
    BY ReplyNone DEF Init, NoMeta
  <1>3. \A i : i \notin 1..Len(wire.down)
    BY <1>1
  <1>4. OneRequest
    BY <1>1, <1>2, <1>3 DEF OneRequest, Once, Resuming
  <1>5. InOrder
    BY <1>2, <1>3, SMTT(30) DEF InOrder, Ordered, Floor
  <1> QED
    BY <1>2, <1>4, <1>5, StreamBegins DEF ShownInv, Consumption

LEMMA HarmStays == Next => harm \subseteq harm'
  BY DEF Next, Server, Fault, Client, StartPrompt, TurnStart, Emit, TurnEnd, SdkStops,
     EndPrompt, Notice, Answer, Drop, ServerNotices, Evict, Restart, Reconnect,
     ReceiveStatus, ReceiveEvent, ReceiveResume, FetchReads, FetchFails, RebuildEnds

LEMMA FloorNat ==
  ASSUME StreamTyped
  PROVE  /\ Floor \in Nat /\ client.meta \in Metas /\ client.meta.id \in Nat
         /\ rebuild.reply.id \in Nat /\ used.streams \in Nat /\ wire.down \in Seq(Letters)
         /\ client \in Clients /\ screen \in Screens /\ wire.ask \in Seq(Requests)
         /\ wire.up \in BOOLEAN
  <1>1. client \in Clients /\ client.meta \in Metas /\ client.meta.id \in Nat
    BY DEF StreamTyped, Clients, Metas
  <1>2. rebuild.reply.id \in Nat
    BY RebuildFields, ReplyFields, SMTT(30)
  <1> QED
    BY <1>1, <1>2, WireFields DEF StreamTyped, Uses, Floor

LEMMA DiskGrows == Server => disk \subseteq disk' /\ ClientSame
  BY DEF Server, StartPrompt, TurnStart, Emit, TurnEnd, SdkStops, EndPrompt, Notice, Answer,
     ClientSame

\* A step of the server that only sends more keeps the invariant.
LEMMA GrowthKeepsShown ==
  ASSUME StreamTyped, StreamTyped', OneRequest, InOrder, Consumption, ClientSame, Growth,
         disk \subseteq disk'
  PROVE  OneRequest' /\ InOrder' /\ Consumption'
  <1>0. /\ wire.up \in BOOLEAN /\ Floor \in Nat /\ used.streams \in Nat /\ used'.streams \in Nat
        /\ wire.down \in Seq(Letters)
    BY FloorNat DEF StreamTyped, Uses
  <1>1. Floor' = Floor /\ rebuild' = rebuild /\ client' = client /\ screen' = screen
    BY DEF ClientSame, Floor
  <1>2. wire'.up = wire.up /\ wire'.ask = wire.ask /\ used.streams <= used'.streams
    BY DEF Growth
  <1>3. Once(wire.down)' /\ (Resuming(wire'.down) => Resuming(wire.down))
    <2>1. CASE wire.up
      BY <2>1 DEF Growth, Grows, OneRequest
    <2>2. CASE ~wire.up
      BY <2>2 DEF Growth, OneRequest
    <2> QED
      BY <1>0, <2>1, <2>2
  <1>4. Ordered(wire'.down, Floor, used'.streams) /\ Floor <= used'.streams
    <2>1. CASE wire.up
      BY <1>0, <1>2, <2>1 DEF Growth, Grows, InOrder
    <2>2. CASE ~wire.up
      <3>1. wire'.down = <<>> /\ \A i : i \notin 1..Len(wire'.down)
        BY <2>2, EmptySeq DEF Growth, OneRequest
      <3> QED
        BY <1>0, <1>2, <3>1 DEF Ordered, InOrder
    <2> QED
      BY <1>0, <2>1, <2>2
  <1>5. OneRequest'
    BY <1>1, <1>2, <1>3, <1>0 DEF OneRequest, Growth
  <1>6. InOrder'
    BY <1>1, <1>4 DEF InOrder
  <1>7. Consumption'
    BY <1>1 DEF Consumption
  <1> QED
    BY <1>5, <1>6, <1>7

LEMMA TailOfOne ==
  ASSUME NEW S, NEW q \in Seq(S), q # <<>>, Len(q) = 1
  PROVE  Tail(q) = <<>>
  <1>1. Tail(q) \in Seq(S) /\ Len(Tail(q)) = 0
    BY HeadTailProperties
  <1> QED
    BY <1>1, EmptySeq

LEMMA AnswerKeepsShown ==
  ASSUME StreamTyped, OneRequest, InOrder, Consumption, Answer
  PROVE  OneRequest' /\ InOrder' /\ Consumption'
  <1>0. UNCHANGED <<run, store, disk, client, screen, rebuild, harm, used>>
    BY DEF Answer
  <1>1. PICK m \in Letters : /\ wire.up /\ wire'.up = wire.up /\ wire.ask # <<>>
                             /\ wire'.ask = Tail(wire.ask) /\ m.id = store.id
                             /\ wire'.down = Append(wire.down, m)
    BY AnswerDoes
  <1>2. Len(wire.ask) = 1 /\ ~Resuming(wire.down) /\ rebuild.at = "none" /\ wire'.ask = <<>>
    BY <1>1, FloorNat, TailOfOne DEF OneRequest
  <1>3. Once(wire'.down)
    BY <1>1, <1>2, OnceAppend, FloorNat
  <1>4. Ordered(wire'.down, Floor, used.streams)
    <2>1. m.id # 0 => m.id = used.streams
      BY <1>1 DEF StreamTyped
    <2>2. m.id # 0 => used.streams <= m.id /\ m.id <= used.streams
      BY <2>1, FloorNat
    <2>3. Floor \in Nat /\ used.streams \in Nat /\ Floor <= used.streams /\ used.streams <= used.streams
          /\ Ordered(wire.down, Floor, used.streams) /\ wire.down \in Seq(Letters)
      BY FloorNat DEF InOrder
    <2> QED
      BY <1>1, <2>2, <2>3, OrderedAppend
  <1>5. OneRequest'
    BY <1>0, <1>1, <1>2, <1>3 DEF OneRequest
  <1>6. InOrder'
    BY <1>0, <1>4 DEF InOrder, Floor
  <1>7. Consumption'
    BY <1>0 DEF Consumption
  <1> QED
    BY <1>5, <1>6, <1>7

\* A connection that goes down outside a rebuild.
LEMMA DownKeepsShown ==
  ASSUME StreamTyped, OneRequest, InOrder, Consumption, Down, rebuild.at = "none",
         UNCHANGED <<disk, client, screen, rebuild>>, used'.streams = used.streams
  PROVE  OneRequest' /\ InOrder' /\ Consumption'
  <1>1. Floor' = Floor
    BY DEF Floor
  <1>2. \A i : i \notin 1..Len(wire'.down)
    BY EmptySeq DEF Down
  <1>3. OneRequest'
    BY <1>2 DEF OneRequest, Down, Once, Resuming
  <1>4. InOrder'
    BY <1>1, <1>2 DEF InOrder, Ordered
  <1>5. Consumption'
    BY DEF Consumption
  <1> QED
    BY <1>3, <1>4, <1>5

LEMMA SameKeepsShown ==
  ASSUME OneRequest, InOrder, Consumption, wire'.up = wire.up, wire'.ask = wire.ask,
         wire'.down = wire.down, used'.streams = used.streams,
         UNCHANGED <<disk, client, screen, rebuild>>
  PROVE  OneRequest' /\ InOrder' /\ Consumption'
  BY DEF OneRequest, InOrder, Consumption, Floor, Ordered, Once, Resuming

LEMMA FaultKeepsShown ==
  ASSUME StreamTyped, OneRequest, InOrder, Consumption, Fault, ~Interrupted'
  PROVE  OneRequest' /\ InOrder' /\ Consumption'
  <1>1. CASE Drop
    <2>1. Down /\ used'.streams = used.streams /\ harm' = harm \cup Lost
          /\ UNCHANGED <<disk, client, screen, rebuild>>
      BY <1>1, DropDoes DEF Drop
    <2>2. rebuild.at = "none"
      BY <2>1 DEF Lost, Interrupted
    <2> QED
      BY <2>1, <2>2, DownKeepsShown
  <1>2. CASE ServerNotices
    <2>1. wire'.up = wire.up /\ wire'.ask = wire.ask /\ wire'.down = wire.down
          /\ UNCHANGED <<disk, client, screen, rebuild, used>>
      BY <1>2, ServerNoticesDoes DEF ServerNotices
    <2> QED
      BY <2>1, SameKeepsShown
  <1>3. CASE Evict
    <2>1. UNCHANGED <<disk, client, screen, rebuild, wire>> /\ used'.streams = used.streams
      BY <1>3, EvictDoes DEF Evict
    <2> QED
      BY <2>1, SameKeepsShown
  <1>4. CASE Restart
    <2>1. Down /\ used'.streams = used.streams
          /\ harm' = harm \cup Forgotten \cup (IF wire.up THEN Lost ELSE {})
          /\ UNCHANGED <<disk, client, screen, rebuild>>
      BY <1>4, RestartDoes DEF Restart
    <2>2. rebuild.at = "none"
      BY <2>1 DEF Lost, Interrupted, OneRequest
    <2> QED
      BY <2>1, <2>2, DownKeepsShown
  <1> QED
    BY <1>1, <1>2, <1>3, <1>4 DEF Fault

LEMMA ReconnectKeepsShown ==
  ASSUME StreamTyped, OneRequest, InOrder, Consumption, Reconnect
  PROVE  OneRequest' /\ InOrder' /\ Consumption'
  <1>1. /\ ~wire.up /\ wire'.up = TRUE /\ wire'.down = wire.down
        /\ wire'.ask = <<>> \/ Len(wire'.ask) = 1
        /\ UNCHANGED <<run, store, disk, client, screen, rebuild, harm, used>>
    <2>1. (\E r \in Requests : wire'.ask = <<r>>) => Len(wire'.ask) = 1
      OBVIOUS
    <2> QED
      BY <2>1, ReconnectDoes DEF Reconnect
  <1>2. wire.down = <<>> /\ rebuild.at = "none" /\ \A i : i \notin 1..Len(wire.down)
    BY <1>1, EmptySeq DEF OneRequest
  <1>3. OneRequest'
    BY <1>1, <1>2 DEF OneRequest, Once, Resuming
  <1>4. InOrder'
    BY <1>1 DEF InOrder, Ordered, Floor
  <1>5. Consumption'
    BY <1>1 DEF Consumption
  <1> QED
    BY <1>3, <1>4, <1>5

\* What a message at the front tells of those behind it.
LEMMA FrontOrder ==
  ASSUME StreamTyped, OneRequest, InOrder, TookOff
  PROVE  LET m == Head(wire.down)
         IN  /\ Once(wire'.down) /\ (Resuming(wire'.down) => Resuming(wire.down))
             /\ m.kind = "resume" => /\ ~Resuming(wire'.down) /\ wire.ask = <<>>
                                     /\ rebuild.at = "none"
             /\ Ordered(wire'.down, Floor, used.streams)
             /\ m.id # 0 => /\ Floor <= m.id /\ m.id <= used.streams
                            /\ Ordered(wire'.down, m.id, used.streams)
  <1>1. wire.down \in Seq(Letters) /\ wire.down # <<>> /\ wire'.down = Tail(wire.down)
        /\ Floor \in Nat /\ used.streams \in Nat
    BY FloorNat DEF TookOff
  <1>2. Ordered(wire.down, Floor, used.streams) /\ Once(wire.down)
    BY DEF InOrder, OneRequest
  <1>3. Resuming(wire.down) => wire.ask = <<>> /\ rebuild.at = "none"
    BY DEF OneRequest
  <1> QED
    BY <1>1, <1>2, <1>3, TailOrder

LEMMA OneRequestTaken ==
  ASSUME StreamTyped, OneRequest, InOrder, TookOff, rebuild'.at = rebuild.at
  PROVE  OneRequest'
  BY FrontOrder DEF OneRequest, TookOff

\* What is shown is in the session file, of an earlier stream, or consumed.
Accounted(shown, meta) ==
  \A e \in shown : \/ e \in disk \/ e[1] < meta.id
                   \/ e[1] = meta.id /\ e[2] \in meta.got

LEMMA TurnedAccounts ==
  ASSUME NEW meta \in Metas, NEW id \in 0..MaxStreams, NEW shown \in SUBSET (Streams \X Nat),
         Accounted(shown, meta), id # 0 => meta.id <= id
  PROVE  Accounted(shown, Turned(meta, id))
  <1> PICK t : t = Turned(meta, id)
    OBVIOUS
  <1>1. t \in Metas /\ t.id = (IF id = 0 THEN meta.id ELSE id)
        /\ ((id = 0 \/ meta.id = id) => t = meta)
    BY TurnedMeta
  <1>2. CASE id = 0 \/ meta.id = id
    BY <1>1, <1>2
  <1>3. CASE ~(id = 0 \/ meta.id = id)
    <2>1. meta.id \in Nat /\ id \in Nat /\ meta.id < id /\ t.id = id
      BY <1>1, <1>3 DEF Metas
    <2>2. ASSUME NEW e \in shown, e \notin disk PROVE e[1] < t.id
      <3>1. e[1] \in Nat
        BY DEF Streams
      <3>2. e[1] <= meta.id
        BY <2>1, <2>2, <3>1 DEF Accounted
      <3> QED
        BY <2>1, <3>1, <3>2
    <2> QED
      BY <2>2 DEF Accounted
  <1> QED
    BY <1>2, <1>3

\* The events new of stream id are the ones that c has consumed and meta had not.
Consumes(new, id, seqs, meta, c) ==
  /\ new = {id} \X seqs /\ (id = meta.id \/ seqs = {}) /\ \A q \in seqs : q \notin meta.got
  /\ c.id = meta.id /\ c.got = meta.got \cup seqs

\* New events that the meta has not consumed are not among those shown.
LEMMA ShowingAccounts ==
  ASSUME NEW meta \in Metas, NEW c, NEW id, NEW seqs, NEW shown, NEW new,
         Accounted(shown, meta), Consumes(new, id, seqs, meta, c)
  PROVE  Accounted(shown \cup new, c) /\ shown \cap new \subseteq disk
  <1>1. ASSUME NEW e \in shown \cup new
        PROVE  e \in disk \/ e[1] < c.id \/ (e[1] = c.id /\ e[2] \in c.got)
    BY DEF Accounted, Consumes
  <1>2. ASSUME NEW e \in shown, e \in new
        PROVE  e \in disk
    <2>1. e[1] = meta.id /\ e[2] \notin meta.got /\ meta.id \in Nat
      BY <1>2 DEF Metas, Consumes
    <2> QED
      BY <2>1 DEF Accounted
  <1>3. Accounted(shown \cup new, c)
    BY <1>1 DEF Accounted
  <1> QED
    BY <1>2, <1>3

LEMMA ConsumptionIs ==
  Consumption <=> /\ screen.twice \subseteq disk
                  /\ rebuild.at = "none" => Accounted(screen.shown, client.meta)
                  /\ rebuild.at # "none" => screen.shown \subseteq disk
                                            /\ rebuild.found \subseteq disk
  BY DEF Consumption, Accounted

LEMMA AccountedSame ==
  ASSUME disk' = disk, rebuild'.at = "none", Accounted(screen'.shown, client'.meta),
         screen'.twice \subseteq disk
  PROVE  Consumption'
  BY DEF Consumption, Accounted

LEMMA ReceiveStatusKeepsShown ==
  ASSUME StreamTyped, OneRequest, InOrder, Consumption, ReceiveStatus
  PROVE  OneRequest' /\ InOrder' /\ Consumption'
  <1> PICK m : m = Head(wire.down)
    OBVIOUS
  <1>0. UNCHANGED <<run, store, disk, screen, rebuild, used>> /\ TookOff /\ m \in Letters
    BY ReceiveStatusDoes DEF ReceiveStatus
  <1>1. OneRequest'
    BY <1>0, OneRequestTaken
  <1>2. /\ Ordered(wire'.down, Floor, used.streams)
        /\ m.id # 0 => /\ Floor <= m.id /\ m.id <= used.streams
                       /\ Ordered(wire'.down, m.id, used.streams)
    BY <1>0, FrontOrder
  <1>3. CASE rebuild.at # "none"
    <2>1. client' = client
      BY <1>3, ReceiveStatusDoes
    <2> QED
      BY <1>0, <1>1, <1>2, <2>1 DEF InOrder, Consumption, Floor
  <1>4. CASE rebuild.at = "none"
    <2> PICK t : t = Turned(client.meta, m.id)
      OBVIOUS
    <2>1. client'.meta = t
      BY <1>4, ReceiveStatusDoes
    <2>2. m.id \in 0..MaxStreams /\ client.meta \in Metas /\ Floor = client.meta.id
          /\ screen.shown \in SUBSET (Streams \X Nat)
      BY <1>0, <1>4, LetterFields, FloorNat DEF Floor, Screens
    <2>3. t.id = (IF m.id = 0 THEN client.meta.id ELSE m.id)
      BY <2>2, TurnedMeta
    <2>4. Accounted(screen.shown, t)
      BY <1>2, <1>4, <2>2, ConsumptionIs, TurnedAccounts
    <2>5. Floor' = t.id
      BY <1>0, <1>4, <2>1 DEF Floor
    <2>6. InOrder'
      BY <1>0, <1>2, <1>4, <2>2, <2>3, <2>5 DEF InOrder
    <2>7. Consumption'
      BY <1>0, <1>4, <2>1, <2>4, ConsumptionIs, AccountedSame
    <2> QED
      BY <1>1, <2>6, <2>7
  <1> QED
    BY <1>3, <1>4

LEMMA ReceiveEventKeepsShown ==
  ASSUME StreamTyped, OneRequest, InOrder, Consumption, ReceiveEvent
  PROVE  OneRequest' /\ InOrder' /\ Consumption'
  <1> PICK m : m = Head(wire.down)
    OBVIOUS
  <1> PICK t : t = Turned(client.meta, m.id)
    OBVIOUS
  <1>0. UNCHANGED <<run, store, disk, rebuild, harm, used>> /\ TookOff /\ m \in Letters
        /\ m.id \in Streams /\ m.seq \in Nat
    BY ReceiveEventDoes DEF ReceiveEvent
  <1>1. OneRequest'
    BY <1>0, OneRequestTaken
  <1>2. m.id # 0 /\ m.id \in Nat /\ m.id \in 0..MaxStreams /\ client.meta \in Metas
        /\ screen.shown \in SUBSET (Streams \X Nat)
    BY <1>0, FloorNat, BoundsAssumption DEF Streams, Screens
  <1>3. /\ Ordered(wire'.down, Floor, used.streams)
        /\ Floor <= m.id /\ m.id <= used.streams
        /\ Ordered(wire'.down, m.id, used.streams)
    BY <1>0, <1>2, FrontOrder
  <1>4. CASE rebuild.at # "none"
    <2>1. client' = client /\ screen' = screen
      BY <1>4, ReceiveEventDoes
    <2> QED
      BY <1>0, <1>1, <1>3, <2>1 DEF InOrder, Consumption, Floor
  <1>5. CASE rebuild.at = "none"
    <2>1. t \in Metas /\ t.id = m.id
      BY <1>2, TurnedMeta
    <2>2. Accounted(screen.shown, t)
      <3>1. Floor = client.meta.id
        BY <1>5 DEF Floor
      <3> QED
        BY <3>1, <1>2, <1>3, <1>5, ConsumptionIs, TurnedAccounts
    <2>3. client'.meta.id = m.id /\ Accounted(screen'.shown, client'.meta)
          /\ screen'.twice \subseteq disk
      <3>1. CASE m.seq \in t.got
        <4>1. client'.meta = t /\ screen' = screen
          BY <1>5, <3>1, ReceiveEventDoes
        <4> QED
          BY <2>1, <2>2, <4>1, ConsumptionIs
      <3>2. CASE m.seq \notin t.got
        <4>a. PICK one : one = {m.seq}
          OBVIOUS
        <4>b. PICK c : c = Consumed(t, one, m.seq)
          OBVIOUS
        <4>c. PICK new : new = {m.id} \X one
          OBVIOUS
        <4>1. client'.meta = c /\ screen' = Showing(screen, new)
          <5>1. client'.meta = Consumed(t, {m.seq}, m.seq)
                /\ screen' = Showing(screen, {<<m.id, m.seq>>})
            BY <1>5, <3>2, ReceiveEventDoes
          <5>2. {<<m.id, m.seq>>} = {m.id} \X {m.seq}
            OBVIOUS
          <5> QED
            BY <5>1, <5>2, <4>a, <4>b, <4>c
        <4>2. one \in SUBSET Nat /\ m.seq \in Int
          BY <1>0, <4>a
        <4>3. c \in Metas /\ c.id = t.id /\ c.got = t.got \cup one
          BY <2>1, <4>2, <4>b, ConsumedMeta
        <4>5. new \in SUBSET (Streams \X Nat) /\ screen \in Screens
          BY <1>0, <4>a, <4>c, FloorNat
        <4>6. screen'.shown = screen.shown \cup new
              /\ screen'.twice = screen.twice \cup (screen.shown \cap new)
          BY <4>1, <4>5, ShowingScreen
        <4>7. /\ Accounted(screen.shown \cup new, c)
              /\ screen.shown \cap new \subseteq disk
          <5>1. \A q \in one : q \notin t.got
            BY <3>2, <4>a
          <5>2. Consumes(new, m.id, one, t, c)
            BY <5>1, <2>1, <4>3, <4>c DEF Consumes
          <5> QED
            BY <5>2, <2>1, <2>2, ShowingAccounts
        <4>8. screen.twice \subseteq disk
          BY ConsumptionIs
        <4> QED
          BY <2>1, <4>1, <4>3, <4>6, <4>7, <4>8
      <3> QED
        BY <3>1, <3>2
    <2>4. InOrder'
      BY <1>0, <1>3, <1>5, <2>3 DEF InOrder, Floor
    <2>5. Consumption'
      BY <1>0, <1>5, <2>3, AccountedSame
    <2> QED
      BY <1>1, <2>4, <2>5
  <1> QED
    BY <1>4, <1>5

LEMMA OrderedLower ==
  ASSUME NEW d \in Seq(Letters), NEW low \in Nat, NEW high \in Nat, Ordered(d, low, high)
  PROVE  Ordered(d, 0, high)
  <1>1. \A i \in 1..Len(d) : d[i].id \in Nat
    BY ElementOfSeq, LetterFields
  <1> QED
    BY <1>1 DEF Ordered

LEMMA ReplayConsumes ==
  ASSUME NEW m \in Answers, NEW t \in Metas, m.id # 0 => t.id = m.id
  PROVE  Consumes({m.id} \X Replayed(t, m), m.id, Replayed(t, m), t, AfterReplay(t, m))
  <1>1. m.id = 0 => Replayed(t, m) = {}
    BY ReplyFields DEF Replayed
  <1> QED
    BY <1>1, ReplayedOnes, AfterReplayMeta DEF Consumes

LEMMA ReceiveResumeKeepsShown ==
  ASSUME StreamTyped, OneRequest, InOrder, Consumption, ReceiveResume
  PROVE  OneRequest' /\ InOrder' /\ Consumption'
  <1> PICK m : m = Head(wire.down)
    OBVIOUS
  <1> PICK t : t = Turned(client.meta, m.id)
    OBVIOUS
  <1>0. UNCHANGED <<run, store, disk, used>> /\ TookOff /\ m \in Letters /\ m \in Answers
        /\ m.kind = "resume"
    BY ReceiveResumeDoes DEF ReceiveResume
  <1>1. /\ Once(wire'.down) /\ ~Resuming(wire'.down) /\ wire.ask = <<>> /\ rebuild.at = "none"
        /\ Ordered(wire'.down, Floor, used.streams)
        /\ m.id # 0 => /\ Floor <= m.id /\ m.id <= used.streams
                       /\ Ordered(wire'.down, m.id, used.streams)
    BY <1>0, FrontOrder
  <1>2. OneRequest'
    BY <1>0, <1>1 DEF OneRequest, TookOff
  <1>3. m.id \in 0..MaxStreams /\ client.meta \in Metas /\ Floor = client.meta.id
        /\ wire'.down \in Seq(Letters) /\ screen \in Screens /\ used.streams \in Nat
        /\ Floor \in Nat
    <2>1. wire'.down \in Seq(Letters)
      BY <1>0, WireFields DEF TookOff
    <2> QED
      BY <2>1, <1>0, <1>1, LetterFields, FloorNat DEF Floor
  <1>4. CASE Rebuilds(m)
    <2>1. /\ rebuild'.at = "asked" /\ rebuild'.reply = m /\ rebuild'.found = {}
          /\ client'.meta = NoMeta /\ screen'.shown = {} /\ screen'.twice = screen.twice
      BY <1>4, ReceiveResumeDoes
    <2>2. Ordered(wire'.down, m.id, used.streams) /\ m.id <= used.streams
      BY <1>1, <1>3, OrderedLower
    <2>3. InOrder'
      BY <1>0, <2>1, <2>2, MetaIds DEF InOrder, Floor
    <2>4. Consumption'
      BY <1>0, <2>1, ConsumptionIs DEF Consumption
    <2> QED
      BY <1>2, <2>3, <2>4
  <1>5. CASE ~Rebuilds(m)
    <2> PICK c : c = AfterReplay(t, m)
      OBVIOUS
    <2> PICK new : new = {m.id} \X Replayed(t, m)
      OBVIOUS
    <2>1. /\ client'.meta = c /\ screen' = Showing(screen, new) /\ rebuild'.at = rebuild.at
      BY <1>5, ReceiveResumeDoes
    <2>2. t \in Metas /\ t.id = (IF m.id = 0 THEN client.meta.id ELSE m.id)
      BY <1>3, TurnedMeta
    <2>3. c.id = t.id /\ new \in SUBSET (Streams \X Nat)
      BY <1>0, <2>2, AfterReplayMeta, ReplayedOnes
    <2>4. Consumes(new, m.id, Replayed(t, m), t, c)
      BY <1>0, <2>2, ReplayConsumes
    <2>5. Accounted(screen.shown, t)
      <3>1. screen.shown \in SUBSET (Streams \X Nat)
        BY <1>3 DEF Screens
      <3>2. Accounted(screen.shown, client.meta) /\ (m.id # 0 => client.meta.id <= m.id)
        BY <1>1, <1>3, ConsumptionIs
      <3> QED
        BY <3>1, <3>2, <1>3, TurnedAccounts
    <2>6. Accounted(screen.shown \cup new, c) /\ screen.shown \cap new \subseteq disk
      <3>a. PICK s : s = screen.shown
        OBVIOUS
      <3>b. PICK q : q = Replayed(t, m)
        OBVIOUS
      <3>1. Accounted(s, t) /\ Consumes(new, m.id, q, t, c)
        BY <2>4, <2>5, <3>a, <3>b
      <3>2. Accounted(s \cup new, c) /\ s \cap new \subseteq disk
        BY <2>2, <3>1, ShowingAccounts
      <3> QED
        BY <3>2, <3>a
    <2>7. screen'.shown = screen.shown \cup new
          /\ screen'.twice = screen.twice \cup (screen.shown \cap new)
      BY <2>1, <2>3, <1>3, ShowingScreen
    <2>8. Consumption'
      BY <1>0, <1>1, <2>1, <2>6, <2>7, ConsumptionIs, AccountedSame
    <2>9. InOrder'
      BY <1>0, <1>1, <1>3, <2>1, <2>2, <2>3 DEF InOrder, Floor
    <2> QED
      BY <1>2, <2>8, <2>9
  <1> QED
    BY <1>4, <1>5

LEMMA FetchKeepsShown ==
  ASSUME StreamTyped, OneRequest, InOrder, Consumption, FetchReads \/ FetchFails
  PROVE  OneRequest' /\ InOrder' /\ Consumption'
  <1>1. /\ rebuild.at = "asked" /\ rebuild'.at = "read" /\ rebuild'.reply = rebuild.reply
        /\ rebuild'.found \in {rebuild.found, disk} /\ used'.streams = used.streams
        /\ UNCHANGED <<run, store, disk, wire, client, screen>>
    <2>1. CASE FetchReads
      BY <2>1, FetchReadsDoes DEF FetchReads
    <2>2. CASE FetchFails
      BY <2>2, FetchFailsDoes DEF FetchFails
    <2> QED
      BY <2>1, <2>2
  <1>2. OneRequest'
    BY <1>1 DEF OneRequest, Once, Resuming
  <1>3. InOrder'
    BY <1>1 DEF InOrder, Ordered, Floor
  <1>4. Consumption'
    BY <1>1 DEF Consumption
  <1> QED
    BY <1>2, <1>3, <1>4

LEMMA RebuildEndsKeepsShown ==
  ASSUME StreamTyped, OneRequest, InOrder, Consumption, RebuildEnds
  PROVE  OneRequest' /\ InOrder' /\ Consumption'
  <1> PICK m : m = rebuild.reply
    OBVIOUS
  <1> PICK t : t = [Turned(client.meta, m.id) EXCEPT !.last = 0, !.got = {}]
    OBVIOUS
  <1> PICK c : c = AfterReplay(t, m)
    OBVIOUS
  <1> PICK new : new = {m.id} \X Replayed(t, m)
    OBVIOUS
  <1>0. UNCHANGED <<run, store, disk, used, harm>>
    BY DEF RebuildEnds
  <1>1. /\ rebuild.at = "read" /\ rebuild' = NoRebuild /\ m \in Answers
        /\ t \in Metas /\ t.id = (IF m.id = 0 THEN client.meta.id ELSE m.id)
        /\ client'.meta = c
        /\ wire'.up = wire.up /\ wire'.down = wire.down
        /\ \/ wire'.ask = wire.ask
           \/ wire.up /\ \E r \in Requests : wire'.ask = Append(wire.ask, r)
    BY RebuildEndsDoes
  <1>2. \E base \in {screen.shown, rebuild.found} :
          /\ screen'.shown = base \cup new /\ screen'.twice = screen.twice \cup (base \cap new)
    BY RebuildEndsDoes
  <1>3. wire.ask = <<>> /\ ~Resuming(wire.down) /\ Once(wire.down) /\ client.meta.id = 0
        /\ screen.shown \subseteq disk /\ rebuild.found \subseteq disk /\ screen.twice \subseteq disk
        /\ Floor = m.id /\ m.id \in 0..MaxStreams
    BY <1>1, ReplyFields DEF OneRequest, InOrder, Consumption, Floor
  <1>4. c.id = t.id /\ t.id = m.id
    <2>1. t \in Metas /\ m \in Answers
      BY <1>1
    <2>2. AfterReplay(t, m).id = t.id
      BY <2>1, AfterReplayMeta
    <2>3. t.id = m.id
      BY <1>1, <1>3
    <2> QED
      BY <2>2, <2>3
  <1>5. OneRequest'
    <2>1. wire'.ask = <<>> \/ (wire.up /\ Len(wire'.ask) = 1)
      <3>1. \A r \in Requests : Len(Append(<<>>, r)) = 1
        OBVIOUS
      <3> QED
        BY <3>1, <1>1, <1>3
    <2> QED
      BY <1>1, <1>3, <2>1, ReplyNone DEF OneRequest, Once, Resuming
  <1>6. InOrder'
    BY <1>0, <1>1, <1>3, <1>4, ReplyNone DEF InOrder, Floor
  <1>7. Accounted(screen'.shown, c) /\ screen'.twice \subseteq disk
    <2>1. PICK base : /\ base \in {screen.shown, rebuild.found}
                      /\ screen'.shown = base \cup new
                      /\ screen'.twice = screen.twice \cup (base \cap new)
      BY <1>2
    <2>2. base \subseteq disk /\ Accounted(base, t)
      BY <1>3, <2>1 DEF Accounted
    <2>3. Consumes(new, m.id, Replayed(t, m), t, c)
      BY <1>1, <1>4, ReplayConsumes
    <2>4. Accounted(base \cup new, c) /\ base \cap new \subseteq disk
      BY <1>1, <2>2, <2>3, ShowingAccounts
    <2> QED
      BY <1>3, <2>1, <2>4
  <1>8. Consumption'
    BY <1>0, <1>1, <1>7, ReplyNone, AccountedSame
  <1> QED
    BY <1>5, <1>6, <1>8

LEMMA ShownKept == ShownInv /\ [Next]_vars => ShownInv'
  <1> SUFFICES ASSUME ShownInv, [Next]_vars PROVE ShownInv'
    OBVIOUS
  <1>1. StreamTyped /\ StreamTyped'
    BY StreamKept DEF ShownInv
  <1>2. CASE Interrupted'
    BY <1>1, <1>2 DEF ShownInv
  <1>3. CASE ~Interrupted' /\ UNCHANGED vars
    <2>1. ~Interrupted /\ wire' = wire /\ used' = used
          /\ UNCHANGED <<disk, client, screen, rebuild>>
      BY <1>3 DEF vars, Interrupted
    <2> QED
      BY <1>1, <2>1, SameKeepsShown DEF ShownInv
  <1>4. CASE ~Interrupted' /\ Next
    <2>1. ~Interrupted
      BY <1>4, HarmStays DEF Interrupted
    <2>2. OneRequest /\ InOrder /\ Consumption
      BY <2>1 DEF ShownInv
    <2>3. OneRequest' /\ InOrder' /\ Consumption'
      <3>1. CASE Server
        <4>1. CASE Answer
          BY <1>1, <2>2, <4>1, AnswerKeepsShown
        <4>2. CASE ~Answer
          BY <1>1, <2>2, <3>1, <4>2, ServerGrows, DiskGrows, GrowthKeepsShown
        <4> QED
          BY <4>1, <4>2
      <3>2. CASE Fault
        BY <1>1, <1>4, <2>2, <3>2, FaultKeepsShown
      <3>3. CASE Client
        BY <1>1, <2>2, <3>3, ReconnectKeepsShown, ReceiveStatusKeepsShown, ReceiveEventKeepsShown,
           ReceiveResumeKeepsShown, FetchKeepsShown, RebuildEndsKeepsShown DEF Client
      <3> QED
        BY <1>4, <3>1, <3>2, <3>3 DEF Next
    <2> QED
      BY <1>1, <2>3 DEF ShownInv
  <1> QED
    BY <1>2, <1>3, <1>4

\* The event numbers the client keeps, and the order of a connection, are enough:
\* nothing of a turn still going is shown twice, live and from a replay, by
\* whatever drops, restarts and rebuilds, unless a rebuild was cut by a drop.
THEOREM NothingShownTwice == Spec => []ShownOnce
  <1>1. ShownInv => ShownOnce
    BY DEF ShownInv, ShownOnce, Interrupted, Consumption
  <1> QED
    BY <1>1, ShownBegins, ShownKept, PTL DEF Spec

-----------------------------------------------------------------------------
(* What the messages on the wire say of the run.                           *)

Words == {"status", "resume"}
Statuses == {"status"}

\* The mark that a message calls for.
WordOf(m) ==
  IF (IF m.kind = "status" THEN m.on ELSE m.busy) THEN [on |-> TRUE, id |-> m.id] ELSE Unmarked

\* w is the last thing said before place j, by a message of these kinds or else by b.
Before(kinds, b, d, j, w) ==
  \/ w = b /\ \A k \in 1..Len(d) : k < j => d[k].kind \notin kinds
  \/ \E i \in 1..Len(d) : /\ i < j /\ d[i].kind \in kinds /\ w = WordOf(d[i])
                          /\ \A k \in 1..Len(d) : i < k /\ k < j => d[k].kind \notin kinds

\* A word that is true of the run, or of what is left of it.
Agrees(w, at, id) ==
  /\ at = "run" => w.on /\ w.id = id
  /\ at = "over" => (w.on => w.id = id)
  /\ at = "idle" => ~w.on

\* The last word is true.
Tells(b, d, at, id) == \A w : Before(Words, b, d, Len(d) + 1, w) => Agrees(w, at, id)

\* A status that ends a stream follows the word that began it, or is corrected later.
Ends(m, w) == m.kind = "status" /\ ~m.on /\ w.on /\ w.id # m.id
Matches(b, d, ask) ==
  \A w : \A j \in 1..Len(d) :
    Before(Words, b, d, j, w) /\ Ends(d[j], w) =>
      ask # <<>> \/ \E k \in 1..Len(d) : k > j /\ d[k].kind = "resume"

\* No status says that a run under way has ended.
Stands(b, d, at) ==
  \A w : Before(Statuses, b, d, Len(d) + 1, w) /\ ~w.on => at # "run"

\* What speaks of a stream names it.
Named(d) ==
  \A i \in 1..Len(d) :
    d[i].kind = "status" \/ (d[i].kind = "resume" /\ d[i].busy) => d[i].id # 0

LEMMA BeforeAppend ==
  ASSUME NEW d \in Seq(Letters), NEW m \in Letters, NEW kinds, NEW b, NEW w
  PROVE  LET e == Append(d, m)
         IN  /\ \A j \in 1..Len(d) + 1 : Before(kinds, b, e, j, w) => Before(kinds, b, d, j, w)
             /\ Before(kinds, b, e, Len(e) + 1, w) =>
                  \/ m.kind \in kinds /\ w = WordOf(m)
                  \/ m.kind \notin kinds /\ Before(kinds, b, d, Len(d) + 1, w)
  <1> PICK e : e = Append(d, m)
    OBVIOUS
  <1> PICK n : n = Len(d)
    OBVIOUS
  <1>1. /\ n \in Nat /\ Len(e) = n + 1 /\ e[n + 1] = m
        /\ \A i \in 1..n : e[i] = d[i]
        /\ \A i \in 1..Len(e) : i \in 1..n \/ i = n + 1
        /\ \A i \in 1..n : i \in 1..Len(e)
        /\ n + 1 \in 1..Len(e)
    BY Appended
  <1>2. ASSUME NEW j \in 1..n + 1, Before(kinds, b, e, j, w)
        PROVE  Before(kinds, b, d, j, w)
    BY <1>1, <1>2 DEF Before
  <1>3. ASSUME Before(kinds, b, e, n + 2, w)
        PROVE  \/ m.kind \in kinds /\ w = WordOf(m)
               \/ m.kind \notin kinds /\ Before(kinds, b, d, n + 1, w)
    <2>1. CASE m.kind \in kinds
      <3>1. ~(\A k \in 1..Len(e) : k < n + 2 => e[k].kind \notin kinds)
        BY <1>1, <2>1
      <3>2. PICK i \in 1..Len(e) : /\ i < n + 2 /\ e[i].kind \in kinds /\ w = WordOf(e[i])
                                   /\ \A k \in 1..Len(e) : i < k /\ k < n + 2 => e[k].kind \notin kinds
        BY <1>3, <3>1 DEF Before
      <3>3. i = n + 1
        BY <1>1, <2>1, <3>2
      <3> QED
        BY <1>1, <2>1, <3>2, <3>3
    <2>2. CASE m.kind \notin kinds
      <3>1. CASE w = b /\ \A k \in 1..Len(e) : k < n + 2 => e[k].kind \notin kinds
        BY <1>1, <2>2, <3>1 DEF Before
      <3>2. CASE \E i \in 1..Len(e) :
                   /\ i < n + 2 /\ e[i].kind \in kinds /\ w = WordOf(e[i])
                   /\ \A k \in 1..Len(e) : i < k /\ k < n + 2 => e[k].kind \notin kinds
        <4>1. PICK i \in 1..Len(e) :
                   /\ i < n + 2 /\ e[i].kind \in kinds /\ w = WordOf(e[i])
                   /\ \A k \in 1..Len(e) : i < k /\ k < n + 2 => e[k].kind \notin kinds
          BY <3>2
        <4>2. i \in 1..n /\ d[i].kind \in kinds /\ w = WordOf(d[i])
          BY <1>1, <2>2, <4>1
        <4>3. \A k \in 1..n : i < k /\ k < n + 1 => d[k].kind \notin kinds
          BY <1>1, <4>1
        <4> QED
          BY <1>1, <2>2, <4>2, <4>3 DEF Before
      <3> QED
        BY <1>3, <3>1, <3>2 DEF Before
    <2> QED
      BY <2>1, <2>2
  <1> QED
    BY <1>1, <1>2, <1>3

LEMMA BeforeTail ==
  ASSUME NEW d \in Seq(Letters), d # <<>>, NEW kinds, NEW b, NEW c, NEW w
  PROVE  LET t == Tail(d)
         IN  /\ t \in Seq(Letters) /\ Len(t) \in Nat /\ Len(d) = Len(t) + 1
             /\ \A i \in 1..Len(t) : t[i] = d[i + 1] /\ i + 1 \in 1..Len(d)
             /\ \A j \in 1..Len(t) + 1 : Before(kinds, c, t, j, w) =>
                  \/ Before(kinds, b, d, j + 1, w)
                  \/ w = c /\ \A k \in 1..Len(t) : k < j => t[k].kind \notin kinds
             /\ (c = IF Head(d).kind \in kinds THEN WordOf(Head(d)) ELSE b) =>
                  \A j \in 1..Len(t) + 1 : Before(kinds, c, t, j, w) => Before(kinds, b, d, j + 1, w)
  <1> PICK t : t = Tail(d)
    OBVIOUS
  <1> PICK n : n = Len(t)
    OBVIOUS
  <1>1. /\ n \in Nat /\ Len(d) = n + 1 /\ Head(d) = d[1] /\ t \in Seq(Letters)
        /\ \A i \in 1..n : t[i] = d[i + 1] /\ i + 1 \in 1..Len(d)
        /\ \A i \in 1..Len(d) : i = 1 \/ (i - 1 \in 1..n /\ t[i - 1] = d[i])
        /\ 1 \in 1..Len(d)
    <2>1. t \in Seq(Letters) /\ Len(d) \in Nat
      BY HeadTailProperties, LenProperties
    <2>2. n \in Nat /\ n = Len(d) - 1 /\ Head(d) = d[1] /\ \A i \in 1..n : t[i] = d[i + 1]
      BY <2>1, HeadTailProperties, LenProperties
    <2>3. \A i \in 1..n + 1 : i = 1 \/ i - 1 \in 1..n
      BY <2>2
    <2>4. \A i \in 1..n + 1 : i = 1 \/ (i - 1 \in 1..n /\ t[i - 1] = d[(i - 1) + 1])
      BY <2>2, <2>3
    <2>5. \A i \in 1..n + 1 : (i - 1) + 1 = i
      BY <2>2
    <2> QED
      BY <2>1, <2>2, <2>4, <2>5
  <1>2. ASSUME NEW j \in 1..n + 1, NEW i \in 1..n, i < j, t[i].kind \in kinds, w = WordOf(t[i]),
               \A k \in 1..n : i < k /\ k < j => t[k].kind \notin kinds
        PROVE  Before(kinds, b, d, j + 1, w)
    <2>1. i + 1 \in 1..Len(d) /\ i + 1 < j + 1 /\ d[i + 1].kind \in kinds /\ w = WordOf(d[i + 1])
      BY <1>1, <1>2
    <2>2. ASSUME NEW k \in 1..Len(d), i + 1 < k, k < j + 1
          PROVE  d[k].kind \notin kinds
      <3>1. k - 1 \in 1..n /\ t[k - 1] = d[k]
        BY <1>1, <2>2
      <3>2. i < k - 1 /\ k - 1 < j
        BY <1>1, <2>2
      <3> QED
        BY <1>2, <3>1, <3>2
    <2> QED
      BY <2>1, <2>2 DEF Before
  <1>3. ASSUME NEW j \in 1..n + 1, Before(kinds, c, t, j, w)
        PROVE  \/ Before(kinds, b, d, j + 1, w)
               \/ w = c /\ \A k \in 1..n : k < j => t[k].kind \notin kinds
    BY <1>2, <1>3 DEF Before
  <1>4. ASSUME c = IF Head(d).kind \in kinds THEN WordOf(Head(d)) ELSE b,
               NEW j \in 1..n + 1, Before(kinds, c, t, j, w)
        PROVE  Before(kinds, b, d, j + 1, w)
    <2>1. CASE w = c /\ \A k \in 1..n : k < j => t[k].kind \notin kinds
      <3>1. \A k \in 1..Len(d) : 1 < k /\ k < j + 1 => d[k].kind \notin kinds
        BY <1>1, <2>1
      <3>2. CASE Head(d).kind \in kinds
        BY <1>1, <1>4, <2>1, <3>1, <3>2 DEF Before
      <3>3. CASE Head(d).kind \notin kinds
        <4>1. \A k \in 1..Len(d) : k < j + 1 => d[k].kind \notin kinds
          BY <1>1, <3>1, <3>3
        <4> QED
          BY <1>4, <2>1, <3>3, <4>1 DEF Before
      <3> QED
        BY <3>2, <3>3
    <2> QED
      BY <1>3, <1>4, <2>1
  <1> QED
    BY <1>1, <1>3, <1>4

LEMMA MatchesAppend ==
  ASSUME NEW d \in Seq(Letters), NEW m \in Letters, NEW b, NEW ask, Matches(b, d, ask),
         \A w : Before(Words, b, d, Len(d) + 1, w) /\ Ends(m, w) => ask # <<>>
  PROVE  Matches(b, Append(d, m), ask)
  <1> PICK e : e = Append(d, m)
    OBVIOUS
  <1>1. /\ Len(d) \in Nat /\ Len(e) = Len(d) + 1
        /\ \A i \in 1..Len(d) : e[i] = d[i] /\ i \in 1..Len(e)
        /\ e[Len(d) + 1] = m
        /\ \A i \in 1..Len(e) : i \in 1..Len(d) \/ i = Len(d) + 1
    BY Appended
  <1>2. SUFFICES ASSUME NEW j \in 1..Len(e), NEW w, Before(Words, b, e, j, w), Ends(e[j], w)
                 PROVE  ask # <<>> \/ \E k \in 1..Len(e) : k > j /\ e[k].kind = "resume"
    BY DEF Matches
  <1>3. Before(Words, b, d, j, w)
    BY <1>1, <1>2, BeforeAppend
  <1>4. CASE j \in 1..Len(d)
    <2>1. Ends(d[j], w)
      BY <1>1, <1>2, <1>4
    <2>2. ask # <<>> \/ \E k \in 1..Len(d) : k > j /\ d[k].kind = "resume"
      BY <1>3, <1>4, <2>1 DEF Matches
    <2> QED
      BY <1>1, <2>2
  <1>5. CASE j = Len(d) + 1
    BY <1>1, <1>2, <1>3, <1>5
  <1> QED
    BY <1>1, <1>4, <1>5

LEMMA NamedAppend ==
  ASSUME NEW d \in Seq(Letters), NEW m \in Letters, Named(d),
         m.kind = "status" \/ (m.kind = "resume" /\ m.busy) => m.id # 0
  PROVE  Named(Append(d, m))
  BY Appended DEF Named

\* An event says nothing of the run.
LEMMA EventSpeaks ==
  ASSUME NEW d \in Seq(Letters), NEW e, NEW id, WithEvent(d, e, id),
         NEW b, NEW ask, NEW at, NEW s
  PROVE  /\ Named(d) => Named(e)
         /\ Matches(b, d, ask) => Matches(b, e, ask)
         /\ Tells(b, d, at, s) => Tells(b, e, at, s)
         /\ Stands(b, d, at) => Stands(b, e, at)
  <1> PICK q \in Nat : id \in Streams /\ e = Append(d, Event(id, q))
    BY DEF WithEvent
  <1> PICK m : m = Event(id, q)
    OBVIOUS
  <1>1. m \in Letters /\ m.kind = "event" /\ e = Append(d, m)
    BY EventTold DEF Event
  <1>2. Named(d) => Named(e)
    BY <1>1, NamedAppend
  <1>3. Matches(b, d, ask) => Matches(b, e, ask)
    BY <1>1, MatchesAppend DEF Ends
  <1>4. m.kind \notin Words /\ m.kind \notin Statuses
    BY <1>1 DEF Words, Statuses
  <1>5. \A w : Before(Words, b, e, Len(e) + 1, w) => Before(Words, b, d, Len(d) + 1, w)
    BY <1>1, <1>4, BeforeAppend
  <1>6. \A w : Before(Statuses, b, e, Len(e) + 1, w) => Before(Statuses, b, d, Len(d) + 1, w)
    BY <1>1, <1>4, BeforeAppend
  <1> QED
    BY <1>2, <1>3, <1>5, <1>6 DEF Tells, Stands

LEMMA PerhapsSpeaks ==
  ASSUME NEW d \in Seq(Letters), NEW e, NEW id, PerhapsEvent(d, e, id),
         NEW b, NEW ask, NEW at, NEW s
  PROVE  /\ e \in Seq(Letters)
         /\ Named(d) => Named(e)
         /\ Matches(b, d, ask) => Matches(b, e, ask)
         /\ Tells(b, d, at, s) => Tells(b, e, at, s)
         /\ Stands(b, d, at) => Stands(b, e, at)
  <1>1. CASE e = d
    BY <1>1
  <1>2. CASE WithEvent(d, e, id)
    <2>1. e \in Seq(Letters)
      BY <1>2 DEF WithEvent
    <2> QED
      BY <1>2, <2>1, EventSpeaks
  <1> QED
    BY <1>1, <1>2 DEF PerhapsEvent

\* A status says all there is to say.
LEMMA OnSpeaks ==
  ASSUME NEW d \in Seq(Letters), NEW e, NEW id \in KnownIds, id # 0, SaidOn(d, e, id),
         NEW b, NEW ask
  PROVE  /\ e \in Seq(Letters) /\ Tells(b, e, "run", id) /\ Stands(b, e, "run")
         /\ Named(d) => Named(e)
         /\ Matches(b, d, ask) => Matches(b, e, ask)
  <1> PICK m : m = Status(TRUE, id)
    OBVIOUS
  <1>1. m \in Letters /\ m.kind = "status" /\ m.on = TRUE /\ m.id = id
    BY StatusTold DEF Status, KnownIds
  <1>2. e \in Seq(Letters) /\ e = Append(d, m)
    BY DEF SaidOn, WithStatus
  <1>3. m.kind \in Words /\ m.kind \in Statuses
    BY <1>1 DEF Words, Statuses
  <1>4. \A w : Before(Words, b, e, Len(e) + 1, w) => w = WordOf(m)
    BY <1>1, <1>2, <1>3, BeforeAppend
  <1>5. \A w : Before(Statuses, b, e, Len(e) + 1, w) => w = WordOf(m)
    BY <1>1, <1>2, <1>3, BeforeAppend
  <1>6. WordOf(m).on = TRUE /\ WordOf(m).id = id
    BY <1>1 DEF WordOf
  <1> PICK r : r = WordOf(m)
    OBVIOUS
  <1>a. r.on = TRUE /\ r.id = id
    BY <1>6
  <1>b. Agrees(r, "run", id)
    BY <1>a DEF Agrees
  <1>7. Tells(b, e, "run", id)
    BY <1>4, <1>b DEF Tells
  <1>8. Stands(b, e, "run")
    <2>1. ASSUME NEW w, Before(Statuses, b, e, Len(e) + 1, w), ~w.on
          PROVE  FALSE
      <3>1. w = r
        BY <1>5, <2>1
      <3> QED
        BY <1>a, <2>1, <3>1
    <2> QED
      BY <2>1 DEF Stands
  <1>9. Named(d) => Named(e)
    BY <1>1, <1>2, NamedAppend
  <1>10. Matches(b, d, ask) => Matches(b, e, ask)
    BY <1>1, <1>2, MatchesAppend DEF Ends
  <1> QED
    BY <1>2, <1>7, <1>8, <1>9, <1>10

LEMMA OffSpeaks ==
  ASSUME NEW d \in Seq(Letters), NEW e, NEW id \in KnownIds, id # 0, SaidOff(d, e, id),
         NEW b, NEW ask
  PROVE  /\ e \in Seq(Letters) /\ Tells(b, e, "idle", id)
         /\ Named(d) => Named(e)
         /\ Matches(b, d, ask) /\ (ask = <<>> => Tells(b, d, "over", id)) => Matches(b, e, ask)
  <1> PICK m : m = Status(FALSE, id)
    OBVIOUS
  <1>1. m \in Letters /\ m.kind = "status" /\ m.on = FALSE /\ m.id = id
    BY StatusTold DEF Status, KnownIds
  <1>2. e \in Seq(Letters) /\ e = Append(d, m)
    BY DEF SaidOff, WithStatus
  <1>3. m.kind \in Words
    BY <1>1 DEF Words
  <1>4. \A w : Before(Words, b, e, Len(e) + 1, w) => w = WordOf(m)
    BY <1>1, <1>2, <1>3, BeforeAppend
  <1>5. WordOf(m) = Unmarked
    BY <1>1 DEF WordOf
  <1>6. Tells(b, e, "idle", id)
    BY <1>4, <1>5, UnmarkedMark DEF Tells, Agrees
  <1>7. Named(d) => Named(e)
    BY <1>1, <1>2, NamedAppend
  <1>8. ASSUME Matches(b, d, ask), ask = <<>> => Tells(b, d, "over", id)
        PROVE  Matches(b, e, ask)
    <2>1. ASSUME NEW w, Before(Words, b, d, Len(d) + 1, w), Ends(m, w)
          PROVE  ask # <<>>
      <3>1. CASE ask = <<>>
        <4>1. Agrees(w, "over", id)
          BY <1>8, <2>1, <3>1 DEF Tells
        <4> QED
          BY <1>1, <2>1, <4>1 DEF Agrees, Ends
      <3> QED
        BY <3>1
    <2> QED
      BY <1>1, <1>2, <1>8, <2>1, MatchesAppend
  <1> QED
    BY <1>2, <1>6, <1>7, <1>8

\* So does a reply; it also corrects whatever was said before it.
LEMMA ReplySpeaks ==
  ASSUME NEW d \in Seq(Letters), NEW m \in Letters, NEW at \in {"idle", "run", "over"}, NEW id,
         m.kind = "resume", m.id = id, m.busy = (at = "run"), at # "idle" => id # 0,
         NEW b, NEW ask
  PROVE  LET e == Append(d, m)
         IN  /\ Tells(b, e, at, id)
             /\ Named(d) => Named(e)
             /\ Matches(b, e, ask)
             /\ Stands(b, d, at) => Stands(b, e, at)
  <1> PICK e : e = Append(d, m)
    OBVIOUS
  <1>1. /\ Len(d) \in Nat /\ Len(e) = Len(d) + 1 /\ e[Len(d) + 1] = m
        /\ Len(d) + 1 \in 1..Len(e)
        /\ \A i \in 1..Len(e) : i \in 1..Len(d) \/ i = Len(d) + 1
    BY Appended
  <1>2. m.kind \in Words /\ m.kind \notin Statuses
    BY DEF Words, Statuses
  <1>3. \A w : Before(Words, b, e, Len(e) + 1, w) => w = WordOf(m)
    BY <1>2, BeforeAppend
  <1>4. WordOf(m) = IF at = "run" THEN [on |-> TRUE, id |-> id] ELSE Unmarked
    BY DEF WordOf
  <1>5. Tells(b, e, at, id)
    <2>1. CASE at = "run"
      BY <1>3, <1>4, <2>1 DEF Tells, Agrees
    <2>2. CASE at # "run"
      BY <1>3, <1>4, <2>2, UnmarkedMark DEF Tells, Agrees
    <2> QED
      BY <2>1, <2>2
  <1>6. Named(d) => Named(e)
    BY NamedAppend
  <1>7. Matches(b, e, ask)
    <2>1. ASSUME NEW j \in 1..Len(e), NEW w, Ends(e[j], w)
          PROVE  \E k \in 1..Len(e) : k > j /\ e[k].kind = "resume"
      <3>1. j \in 1..Len(d)
        BY <1>1, <2>1 DEF Ends
      <3> QED
        BY <1>1, <3>1
    <2> QED
      BY <2>1 DEF Matches
  <1>8. \A w : Before(Statuses, b, e, Len(e) + 1, w) => Before(Statuses, b, d, Len(d) + 1, w)
    BY <1>2, BeforeAppend
  <1> QED
    BY <1>5, <1>6, <1>7, <1>8 DEF Stands

LEMMA NamedTaken ==
  ASSUME NEW d \in Seq(Letters), d # <<>>, Named(d)
  PROVE  /\ Named(Tail(d)) /\ Tail(d) \in Seq(Letters)
         /\ Head(d).kind = "status" \/ (Head(d).kind = "resume" /\ Head(d).busy) => Head(d).id # 0
  <1> PICK t : t = Tail(d)
    OBVIOUS
  <1>1. t \in Seq(Letters) /\ \A i \in 1..Len(t) : t[i] = d[i + 1] /\ i + 1 \in 1..Len(d)
    BY BeforeTail
  <1>2. Head(d) = d[1] /\ 1 \in 1..Len(d)
    BY HeadTailProperties, LenProperties, EmptySeq
  <1> QED
    BY <1>1, <1>2 DEF Named

\* The word at the front is taken for the last one said.
LEMMA WordTaken ==
  ASSUME NEW d \in Seq(Letters), d # <<>>, NEW b, NEW c, NEW ask, NEW at, NEW s,
         c = IF Head(d).kind \in Words THEN WordOf(Head(d)) ELSE b
  PROVE  /\ Tells(b, d, at, s) => Tells(c, Tail(d), at, s)
         /\ Matches(b, d, ask) => Matches(c, Tail(d), ask)
  <1> PICK t : t = Tail(d)
    OBVIOUS
  <1>1. /\ t \in Seq(Letters) /\ Len(t) \in Nat /\ Len(d) = Len(t) + 1
        /\ \A i \in 1..Len(t) : t[i] = d[i + 1] /\ i + 1 \in 1..Len(d)
    BY BeforeTail
  <1>2. \A w : \A j \in 1..Len(t) + 1 : Before(Words, c, t, j, w) => Before(Words, b, d, j + 1, w)
    BY BeforeTail
  <1>3. ASSUME Tells(b, d, at, s) PROVE Tells(c, t, at, s)
    <2>1. ASSUME NEW w, Before(Words, c, t, Len(t) + 1, w) PROVE Agrees(w, at, s)
      <3>1. Len(t) + 1 \in 1..Len(t) + 1
        BY <1>1
      <3>2. Before(Words, b, d, Len(d) + 1, w)
        BY <1>1, <1>2, <2>1, <3>1
      <3> QED
        BY <1>3, <3>2 DEF Tells
    <2> QED
      BY <2>1 DEF Tells
  <1>4. ASSUME Matches(b, d, ask), ask = <<>>,
               NEW j \in 1..Len(t), NEW w, Before(Words, c, t, j, w), Ends(t[j], w)
        PROVE  \E k \in 1..Len(t) : k > j /\ t[k].kind = "resume"
    <2>1. j + 1 \in 1..Len(d) /\ j \in 1..Len(t) + 1 /\ t[j] = d[j + 1]
      BY <1>1
    <2>2. Before(Words, b, d, j + 1, w) /\ Ends(d[j + 1], w)
      BY <1>2, <1>4, <2>1
    <2>3. PICK k \in 1..Len(d) : k > j + 1 /\ d[k].kind = "resume"
      BY <1>4, <2>1, <2>2 DEF Matches
    <2>4. k - 1 \in 1..Len(t) /\ k - 1 > j /\ (k - 1) + 1 = k
      BY <1>1, <2>3
    <2>5. t[k - 1] = d[(k - 1) + 1]
      BY <1>1, <2>4
    <2> QED
      BY <2>3, <2>4, <2>5
  <1> QED
    BY <1>3, <1>4 DEF Matches

LEMMA StatusTaken ==
  ASSUME NEW d \in Seq(Letters), d # <<>>, NEW b, NEW c, NEW at,
         c = IF Head(d).kind \in Statuses THEN WordOf(Head(d)) ELSE b, Stands(b, d, at)
  PROVE  Stands(c, Tail(d), at)
  <1> PICK t : t = Tail(d)
    OBVIOUS
  <1>1. Len(t) \in Nat /\ Len(d) = Len(t) + 1
    BY BeforeTail
  <1>2. \A w : \A j \in 1..Len(t) + 1 :
          Before(Statuses, c, t, j, w) => Before(Statuses, b, d, j + 1, w)
    BY BeforeTail
  <1>3. ASSUME NEW w, Before(Statuses, c, t, Len(t) + 1, w), ~w.on PROVE at # "run"
    <2>1. Len(t) + 1 \in 1..Len(t) + 1
      BY <1>1
    <2>2. Before(Statuses, b, d, Len(d) + 1, w)
      BY <1>1, <1>2, <1>3, <2>1
    <2> QED
      BY <1>3, <2>2 DEF Stands
  <1> QED
    BY <1>3 DEF Stands

\* The end of a stream that is not the marked one leaves the mark as it is.
LEMMA MarkStays ==
  ASSUME NEW d \in Seq(Letters), d # <<>>, NEW b, NEW ask, NEW at, NEW s,
         Matches(b, d, ask), Ends(Head(d), b)
  PROVE  /\ Matches(b, Tail(d), ask)
         /\ Stands(b, d, at) => Stands(b, Tail(d), at)
         /\ ask = <<>> /\ Tells(b, d, at, s) => Tells(b, Tail(d), at, s)
  <1> PICK t : t = Tail(d)
    OBVIOUS
  <1>1. /\ t \in Seq(Letters) /\ Len(t) \in Nat /\ Len(d) = Len(t) + 1
        /\ \A i \in 1..Len(t) : t[i] = d[i + 1] /\ i + 1 \in 1..Len(d)
        /\ Head(d) = d[1] /\ 1 \in 1..Len(d)
    <2>1. Head(d) = d[1] /\ 1 \in 1..Len(d)
      BY HeadTailProperties, LenProperties, EmptySeq
    <2> QED
      BY <2>1, BeforeTail
  <1>2. \A w : \A j \in 1..Len(t) + 1 : Before(Words, b, t, j, w) =>
          \/ Before(Words, b, d, j + 1, w)
          \/ w = b /\ \A k \in 1..Len(t) : k < j => t[k].kind \notin Words
    BY BeforeTail
  <1>3. \A w : \A j \in 1..Len(t) + 1 : Before(Statuses, b, t, j, w) =>
          \/ Before(Statuses, b, d, j + 1, w)
          \/ w = b /\ \A k \in 1..Len(t) : k < j => t[k].kind \notin Statuses
    BY BeforeTail
  <1>4. ASSUME ask = <<>>
        PROVE  \E k \in 1..Len(t) : t[k].kind = "resume"
    <2>1. Before(Words, b, d, 1, b)
      BY <1>1 DEF Before
    <2>2. PICK k \in 1..Len(d) : k > 1 /\ d[k].kind = "resume"
      BY <1>1, <1>4, <2>1 DEF Matches
    <2>3. k - 1 \in 1..Len(t) /\ (k - 1) + 1 = k
      BY <1>1, <2>2
    <2>4. t[k - 1] = d[(k - 1) + 1]
      BY <1>1, <2>3
    <2> QED
      BY <2>2, <2>3, <2>4
  <1>5. ASSUME ask = <<>>, NEW j \in 1..Len(t), NEW w, Before(Words, b, t, j, w), Ends(t[j], w)
        PROVE  \E k \in 1..Len(t) : k > j /\ t[k].kind = "resume"
    <2>1. j + 1 \in 1..Len(d) /\ j \in 1..Len(t) + 1 /\ t[j] = d[j + 1]
      BY <1>1
    <2>2. CASE Before(Words, b, d, j + 1, w)
      <3>1. PICK k \in 1..Len(d) : k > j + 1 /\ d[k].kind = "resume"
        BY <1>5, <2>1, <2>2 DEF Matches
      <3>2. k - 1 \in 1..Len(t) /\ k - 1 > j /\ (k - 1) + 1 = k
        BY <1>1, <3>1
      <3>3. t[k - 1] = d[(k - 1) + 1]
        BY <1>1, <3>2
      <3> QED
        BY <3>1, <3>2, <3>3
    <2>3. CASE \A k \in 1..Len(t) : k < j => t[k].kind \notin Words
      <3>1. PICK k \in 1..Len(t) : t[k].kind = "resume"
        BY <1>4, <1>5
      <3>2. k # j /\ ~(k < j)
        BY <1>5, <2>3, <3>1 DEF Ends, Words
      <3>3. k > j
        BY <3>2
      <3> QED
        BY <3>1, <3>3
    <2> QED
      BY <1>2, <1>5, <2>1, <2>2, <2>3
  <1>6. ASSUME Stands(b, d, at), NEW w, Before(Statuses, b, t, Len(t) + 1, w), ~w.on
        PROVE  at # "run"
    <2>1. Len(t) + 1 \in 1..Len(t) + 1 /\ Len(d) + 1 = (Len(t) + 1) + 1
      BY <1>1
    <2>2. b.on
      BY DEF Ends
    <2>3. Before(Statuses, b, d, Len(d) + 1, w)
      BY <1>3, <1>6, <2>1, <2>2
    <2> QED
      BY <1>6, <2>3 DEF Stands
  <1>7. ASSUME ask = <<>>, Tells(b, d, at, s), NEW w, Before(Words, b, t, Len(t) + 1, w)
        PROVE  Agrees(w, at, s)
    <2>1. Len(t) + 1 \in 1..Len(t) + 1 /\ Len(d) + 1 = (Len(t) + 1) + 1
      BY <1>1
    <2>2. PICK k \in 1..Len(t) : t[k].kind = "resume"
      BY <1>4, <1>7
    <2>3. k < Len(t) + 1 /\ t[k].kind \in Words
      BY <1>1, <2>2 DEF Words
    <2>4. Before(Words, b, d, Len(d) + 1, w)
      BY <1>2, <1>7, <2>1, <2>3
    <2> QED
      BY <1>7, <2>4 DEF Tells
  <1> QED
    BY <1>5, <1>6, <1>7 DEF Matches, Stands, Tells

\* With no reply on the wire, the last status is the last word.
LEMMA TellingStands ==
  ASSUME NEW d, NEW b, NEW at, NEW s, ~Resuming(d), Tells(b, d, at, s)
  PROVE  Stands(b, d, at)
  <1>1. \A k \in 1..Len(d) : d[k].kind \notin Statuses => d[k].kind \notin Words
    BY DEF Resuming, Words, Statuses
  <1>2. ASSUME NEW w, Before(Statuses, b, d, Len(d) + 1, w) PROVE Before(Words, b, d, Len(d) + 1, w)
    BY <1>1, <1>2 DEF Before, Words, Statuses
  <1> QED
    BY <1>2 DEF Stands, Tells, Agrees

LEMMA NothingSaid ==
  ASSUME NEW d, Len(d) = 0, NEW b, NEW ask, NEW at, NEW s
  PROVE  /\ Named(d) /\ Matches(b, d, ask)
         /\ Tells(b, d, at, s) <=> Agrees(b, at, s)
         /\ Stands(b, d, at) <=> (~b.on => at # "run")
  <1>1. \A i : i \notin 1..Len(d)
    OBVIOUS
  <1>2. \A w, j : Before(Words, b, d, j, w) <=> w = b
    BY <1>1 DEF Before
  <1>3. \A w, j : Before(Statuses, b, d, j, w) <=> w = b
    BY <1>1 DEF Before
  <1>4. Named(d) /\ Matches(b, d, ask)
    BY <1>1 DEF Named, Matches
  <1> QED
    BY <1>2, <1>3, <1>4 DEF Tells, Stands

-----------------------------------------------------------------------------
(* The mark.                                                               *)

\* What MarkHonest excuses.
Excuses == {"status_discarded", "start_unseen", "stream_forgotten", "drop_while_rebuilding"}
Excused == harm \cap Excuses # {}

\* What the client goes by: its mark, or the reply that a rebuild will take it from.
Heard == IF rebuild.at = "none" THEN client.mark ELSE WordOf(rebuild.reply)

\* The last word on its way to the client is true of the run, unless a request is.
Honest ==
  /\ run.at # "idle" => store.id # 0
  /\ ~client.mark.on => client.mark = Unmarked
  /\ Named(wire.down)
  /\ rebuild.at # "none" /\ rebuild.reply.busy => rebuild.reply.id # 0
  /\ Matches(Heard, wire.down, wire.ask)
  /\ wire.up /\ wire.ask = <<>> => Tells(Heard, wire.down, run.at, store.id)
  /\ rebuild.at = "none" => Stands(client.mark, wire.down, run.at)

MarkInv == ShownInv /\ (Excused \/ Honest)

LEMMA MarkBegins == Init => MarkInv
  <1> SUFFICES ASSUME Init PROVE MarkInv
    OBVIOUS
  <1>1. wire.down = <<>> /\ Len(wire.down) = 0 /\ run.at = "idle" /\ client.mark = Unmarked
        /\ rebuild.at = "none" /\ Heard = Unmarked /\ store.id = 0
    BY EmptySeq, ReplyNone, NoStoreTyped DEF Init, Heard
  <1>2. Agrees(Unmarked, "idle", 0)
    BY UnmarkedMark DEF Agrees
  <1>3. Honest
    BY <1>1, <1>2, NothingSaid DEF Honest
  <1> QED
    BY <1>3, ShownBegins DEF MarkInv

\* The step of a handler that has told the client all that it must know.
LEMMA ServedHonest ==
  ASSUME Honest, ClientSame, wire'.up = wire.up, wire'.ask = wire.ask, NEW d, Sent(d),
         run'.at # "idle" => store'.id # 0, Named(d),
         Matches(Heard, wire.down, wire.ask) => Matches(Heard, d, wire.ask),
         wire.up /\ wire.ask = <<>> => Tells(Heard, d, run'.at, store'.id),
         wire.up /\ rebuild.at = "none" => Stands(client.mark, d, run'.at),
         ~wire.up /\ rebuild.at = "none" => Stands(client.mark, wire.down, run'.at)
  PROVE  Honest'
  <1>1. Heard' = Heard /\ client' = client /\ rebuild' = rebuild
    BY DEF ClientSame, Heard
  <1>2. CASE wire.up
    <2>1. wire'.down = d
      BY <1>2 DEF Sent
    <2> QED
      BY <1>1, <1>2, <2>1 DEF Honest
  <1>3. CASE ~wire.up
    <2>1. wire'.down = wire.down
      BY <1>3 DEF Sent
    <2> QED
      BY <1>1, <1>3, <2>1 DEF Honest
  <1> QED
    BY <1>2, <1>3

\* A beginning that no one could hear finds the client marked already.
LEMMA BeginningHonest ==
  ASSUME StreamTyped, OneRequest, Honest, ClientSame, Serving, run'.at = "run",
         store'.id = used.streams + 1, wire.up \/ client.mark.on,
         NEW e, NEW d, PerhapsEvent(wire.down, e, used.streams), SaidOn(e, d, store'.id), Sent(d)
  PROVE  Honest'
  <1>1. store'.id \in KnownIds /\ store'.id # 0 /\ wire.down \in Seq(Letters)
        /\ wire'.up = wire.up /\ wire'.ask = wire.ask
    BY FloorNat DEF Serving, Stores, KnownIds, StreamTyped, Uses
  <1>2. e \in Seq(Letters) /\ Named(e)
        /\ (Matches(Heard, wire.down, wire.ask) => Matches(Heard, e, wire.ask))
    BY <1>1, PerhapsSpeaks DEF Honest
  <1> PICK s : s = store'.id
    OBVIOUS
  <1>3. s \in KnownIds /\ s # 0 /\ SaidOn(e, d, s)
    BY <1>1
  <1>4. Named(d) /\ (Matches(Heard, e, wire.ask) => Matches(Heard, d, wire.ask))
        /\ Tells(Heard, d, "run", s)
    BY <1>2, <1>3, OnSpeaks
  <1>5. Stands(client.mark, d, "run")
    BY <1>2, <1>3, OnSpeaks
  <1>6. ~wire.up => Stands(client.mark, wire.down, "run")
    <2>1. ~wire.up => Len(wire.down) = 0
      BY EmptySeq DEF OneRequest
    <2> QED
      BY <2>1, NothingSaid
  <1> QED
    BY <1>1, <1>2, <1>4, <1>5, <1>6, ServedHonest

LEMMA ServerHonest ==
  ASSUME StreamTyped, OneRequest, Honest, Server, ~Excused'
  PROVE  Honest'
  <1>0. /\ ClientSame /\ wire.down \in Seq(Letters) /\ store.id \in KnownIds
        /\ run.at \in {"idle", "run", "over"} /\ wire.up \in BOOLEAN
    BY DiskGrows, FloorNat DEF StreamTyped, Stores, KnownIds, Runs
  <1>h. /\ run.at # "idle" => store.id # 0
        /\ Named(wire.down) /\ Matches(Heard, wire.down, wire.ask)
        /\ wire.up /\ wire.ask = <<>> => Tells(Heard, wire.down, run.at, store.id)
        /\ rebuild.at = "none" => Stands(client.mark, wire.down, run.at)
    BY DEF Honest
  <1>1. CASE StartPrompt
    <2>1. /\ run'.at = "run" /\ harm' = (IF wire.up \/ client.mark.on THEN harm
                                        ELSE harm \cup {"start_unseen"})
      BY <1>1 DEF StartPrompt
    <2>2. wire.up \/ client.mark.on
      BY <2>1 DEF Excused, Excuses
    <2>3. PICK e, d : /\ PerhapsEvent(wire.down, e, used.streams)
                      /\ SaidOn(e, d, store'.id) /\ Sent(d)
                      /\ store'.id = used.streams + 1 /\ Serving
      BY <1>1, StartPromptDoes
    <2> QED
      BY <1>0, <2>1, <2>2, <2>3, BeginningHonest
  <1>2. CASE TurnStart
    <2>1. /\ run' = [run EXCEPT !.active = TRUE] /\ run.at = "run" /\ run \in Runs
          /\ harm' = (IF wire.up \/ client.mark.on THEN harm ELSE harm \cup {"start_unseen"})
      BY <1>2 DEF TurnStart, StreamTyped
    <2>2. (wire.up \/ client.mark.on) /\ run'.at = "run"
      BY <2>1 DEF Excused, Excuses, Runs
    <2>3. PICK d : /\ SaidOn(wire.down, d, store'.id) /\ Sent(d)
                   /\ store'.id = used.streams + 1 /\ Serving
      BY <1>2, TurnStartDoes
    <2>4. PerhapsEvent(wire.down, wire.down, used.streams)
      BY <1>0 DEF PerhapsEvent
    <2> QED
      BY <1>0, <2>2, <2>3, <2>4, BeginningHonest
  <1>3. CASE Emit
    <2>1. PICK d : WithEvent(wire.down, d, store.id) /\ Sent(d) /\ Serving
                   /\ store.id # 0 /\ store'.id = store.id
      BY <1>3, EmitDoes
    <2>2. run' = run
      BY <1>3 DEF Emit
    <2>3. Named(d) /\ Matches(Heard, d, wire.ask)
          /\ (wire.up /\ wire.ask = <<>> => Tells(Heard, d, run.at, store.id))
      BY <1>0, <1>h, <2>1, EventSpeaks
    <2>4. rebuild.at = "none" => Stands(client.mark, d, run.at)
      BY <1>0, <1>h, <2>1, EventSpeaks
    <2> QED
      BY <1>0, <1>h, <2>1, <2>2, <2>3, <2>4, ServedHonest DEF Serving
  <1>4. CASE TurnEnd
    <2>1. PICK e, d : /\ WithEvent(wire.down, e, store.id)
                      /\ PerhapsEvent(e, d, store.id) /\ Sent(d) /\ Serving
                      /\ store.id # 0 /\ store'.id = store.id
      BY <1>4, TurnEndDoes
    <2>2. run'.at = run.at
      BY <1>4 DEF TurnEnd, StreamTyped, Runs
    <2>0. e \in Seq(Letters)
      BY <2>1 DEF WithEvent
    <2>3. Named(e) /\ Matches(Heard, e, wire.ask)
          /\ (wire.up /\ wire.ask = <<>> => Tells(Heard, e, run.at, store.id))
      BY <1>0, <1>h, <2>1, EventSpeaks
    <2>4. rebuild.at = "none" => Stands(client.mark, e, run.at)
      BY <1>0, <1>h, <2>1, EventSpeaks
    <2>5. Named(d) /\ Matches(Heard, d, wire.ask)
          /\ (wire.up /\ wire.ask = <<>> => Tells(Heard, d, run.at, store.id))
      BY <2>0, <2>1, <2>3, PerhapsSpeaks
    <2>6. rebuild.at = "none" => Stands(client.mark, d, run.at)
      BY <2>0, <2>1, <2>4, PerhapsSpeaks
    <2> QED
      BY <1>0, <1>h, <2>1, <2>2, <2>5, <2>6, ServedHonest DEF Serving
  <1>5. CASE SdkStops
    <2>1. run.at = "run" /\ run'.at = "over"
          /\ UNCHANGED <<store, disk, wire, client, screen, rebuild, harm, used>>
      BY <1>5 DEF SdkStops, StreamTyped, Runs
    <2>2. Tells(Heard, wire.down, "run", store.id) => Tells(Heard, wire.down, "over", store.id)
      BY DEF Tells, Agrees
    <2>3. Stands(client.mark, wire.down, "over")
      BY DEF Stands
    <2>4. Heard' = Heard
      BY <2>1 DEF Heard
    <2> QED
      BY <2>1, <2>2, <2>3, <2>4 DEF Honest
  <1>6. CASE EndPrompt
    <2>0. run.at = "over" /\ run'.at = "idle" /\ store.id # 0
      BY <1>6 DEF EndPrompt, Honest
    <2>1. PICK e, d : /\ SaidOff(wire.down, e, store.id)
                      /\ PerhapsEvent(e, d, store.id) /\ Sent(d) /\ Serving
                      /\ store'.id = store.id
      BY <1>6, EndPromptDoes
    <2>2. e \in Seq(Letters) /\ Named(e) /\ Tells(Heard, e, "idle", store.id)
      BY <1>0, <1>h, <2>0, <2>1, OffSpeaks
    <2>3. wire.up => Matches(Heard, e, wire.ask)
      BY <1>0, <1>h, <2>0, <2>1, OffSpeaks
    <2>4. Named(d) /\ Tells(Heard, d, "idle", store.id)
          /\ (wire.up => Matches(Heard, d, wire.ask))
      BY <2>1, <2>2, <2>3, PerhapsSpeaks
    <2>5. Stands(client.mark, d, "idle") /\ Stands(client.mark, wire.down, "idle")
      BY DEF Stands
    <2>6. Heard' = Heard /\ client' = client /\ rebuild' = rebuild
          /\ wire'.up = wire.up /\ wire'.ask = wire.ask
          /\ wire'.down = IF wire.up THEN d ELSE wire.down
      BY <1>0, <2>1 DEF ClientSame, Heard, Serving, Sent
    <2>7. CASE wire.up
      <3>1. wire'.down = d
        BY <2>6, <2>7
      <3> QED
        BY <2>0, <2>1, <2>4, <2>5, <2>6, <2>7, <3>1 DEF Honest
    <2>8. CASE ~wire.up
      <3>1. wire'.down = wire.down
        BY <2>6, <2>8
      <3> QED
        BY <2>0, <2>1, <2>5, <2>6, <2>8, <3>1 DEF Honest
    <2> QED
      BY <2>7, <2>8
  <1>7. CASE Notice
    <2>1. PICK e, d : /\ WithEvent(wire.down, e, store'.id)
                      /\ PerhapsEvent(e, d, store'.id) /\ Sent(d)
                      /\ store'.id # 0 /\ (store.id # 0 => store'.id = store.id)
                      /\ wire'.up = wire.up /\ wire'.ask = wire.ask
      BY <1>7, NoticeDoes
    <2>2. run'.at = run.at
      BY <1>7 DEF Notice, StreamTyped, Runs
    <2> PICK s : s = store'.id
      OBVIOUS
    <2>3. wire.up /\ wire.ask = <<>> => Tells(Heard, wire.down, run.at, s)
      <3>1. CASE store.id = 0
        <4>1. run.at = "idle"
          BY <1>h, <3>1
        <4>2. Tells(Heard, wire.down, "idle", store.id) => Tells(Heard, wire.down, "idle", s)
          BY DEF Tells, Agrees
        <4> QED
          BY <1>h, <4>1, <4>2
      <3>2. CASE store.id # 0
        BY <1>h, <2>1, <3>2
      <3> QED
        BY <3>1, <3>2
    <2>0. e \in Seq(Letters)
      BY <2>1 DEF WithEvent
    <2>4. Named(e) /\ Matches(Heard, e, wire.ask)
          /\ (wire.up /\ wire.ask = <<>> => Tells(Heard, e, run.at, s))
      BY <1>0, <1>h, <2>1, <2>3, EventSpeaks
    <2>5. rebuild.at = "none" => Stands(client.mark, e, run.at)
      BY <1>0, <1>h, <2>1, EventSpeaks
    <2>6. Named(d) /\ Matches(Heard, d, wire.ask)
          /\ (wire.up /\ wire.ask = <<>> => Tells(Heard, d, run.at, s))
      BY <2>0, <2>1, <2>4, PerhapsSpeaks
    <2>7. rebuild.at = "none" => Stands(client.mark, d, run.at)
      BY <2>0, <2>1, <2>5, PerhapsSpeaks
    <2> QED
      BY <1>0, <1>h, <2>1, <2>2, <2>6, <2>7, ServedHonest
  <1>8. CASE Answer
    <2>1. PICK m \in Letters : /\ wire.up /\ wire'.up = wire.up /\ wire.ask # <<>>
                               /\ m.kind = "resume" /\ m.id = store.id
                               /\ m.busy = (run.at = "run")
                               /\ wire'.down = Append(wire.down, m)
      BY <1>8, AnswerDoes
    <2>2. UNCHANGED <<run, store, disk, client, screen, rebuild, harm, used>>
      BY <1>8 DEF Answer
    <2>3. Heard' = Heard
      BY <2>2 DEF Heard
    <2> PICK e : e = Append(wire.down, m)
      OBVIOUS
    <2> PICK q : q = wire'.ask
      OBVIOUS
    <2>4. Tells(Heard, e, run.at, store.id) /\ Named(e) /\ Matches(Heard, e, q)
      BY <1>0, <1>h, <2>1, ReplySpeaks
    <2>5. rebuild.at = "none" => Stands(client.mark, e, run.at)
      BY <1>0, <1>h, <2>1, ReplySpeaks
    <2> QED
      BY <2>1, <2>2, <2>3, <2>4, <2>5 DEF Honest
  <1> QED
    BY <1>1, <1>2, <1>3, <1>4, <1>5, <1>6, <1>7, <1>8 DEF Server

\* A connection that goes down with nothing on it that only it could say.
LEMMA DownHonest ==
  ASSUME Honest, Down, rebuild.at = "none", UNCHANGED <<client, rebuild>>,
         run'.at # "idle" => store'.id # 0, ~client.mark.on => run'.at # "run"
  PROVE  Honest'
  <1>1. Len(wire'.down) = 0 /\ wire'.up = FALSE
    BY EmptySeq DEF Down
  <1>2. Heard' = Heard
    BY DEF Heard
  <1>3. Named(wire'.down) /\ Matches(Heard, wire'.down, wire'.ask)
        /\ Stands(client.mark, wire'.down, run'.at)
    BY <1>1, NothingSaid
  <1> QED
    BY <1>1, <1>2, <1>3 DEF Honest

LEMMA FaultHonest ==
  ASSUME StreamTyped, OneRequest, Honest, Fault, ~Excused'
  PROVE  Honest'
  <1>1. CASE Drop
    <2>1. Down /\ harm' = harm \cup Lost /\ UNCHANGED <<run, store, client, rebuild>>
      BY <1>1, DropDoes DEF Drop
    <2>2. rebuild.at = "none"
      BY <2>1 DEF Lost, Excused, Excuses
    <2>3. ASSUME ~client.mark.on PROVE run.at # "run"
      <3>1. \A i \in DOMAIN wire.down : wire.down[i].kind # "status"
        BY <2>1, <2>3 DEF Lost, Excused, Excuses
      <3>2. \A i \in 1..Len(wire.down) : wire.down[i].kind # "status"
        <4>1. DOMAIN wire.down = 1..Len(wire.down)
          BY FloorNat, LenProperties
        <4> QED
          BY <3>1, <4>1
      <3>3. Before(Statuses, client.mark, wire.down, Len(wire.down) + 1, client.mark)
        BY <3>2 DEF Before, Statuses
      <3>4. Stands(client.mark, wire.down, run.at)
        BY <2>2 DEF Honest
      <3> QED
        BY <2>3, <3>3, <3>4 DEF Stands
    <2>4. run.at # "idle" => store.id # 0
      BY DEF Honest
    <2> QED
      BY <2>1, <2>2, <2>3, <2>4, DownHonest
  <1>2. CASE ServerNotices
    <2>1. /\ wire'.up = wire.up /\ wire'.ask = wire.ask /\ wire'.down = wire.down
          /\ UNCHANGED <<disk, client, screen, rebuild, used>>
          /\ \/ UNCHANGED <<run, store, harm>>
             \/ ~wire.up /\ RunForgot /\ store' = NoStore /\ harm' = harm \cup Forgotten
      BY <1>2, ServerNoticesDoes DEF ServerNotices
    <2>2. Heard' = Heard
      BY <2>1 DEF Heard
    <2>3. CASE UNCHANGED <<run, store, harm>>
      BY <2>1, <2>2, <2>3 DEF Honest
    <2>4. CASE ~wire.up /\ RunForgot /\ store' = NoStore /\ harm' = harm \cup Forgotten
      <3>1. store.id = 0
        BY <2>4 DEF Forgotten, Excused, Excuses
      <3>2. run.at = "idle" /\ run'.at = "idle"
        BY <2>4, <3>1 DEF Honest, RunForgot
      <3> QED
        BY <2>1, <2>2, <2>4, <3>2 DEF Honest
    <2> QED
      BY <2>1, <2>3, <2>4
  <1>3. CASE Evict
    <2>1. store.id # 0 /\ harm' = harm \cup Forgotten
      BY <1>3, EvictDoes
    <2> QED
      BY <2>1 DEF Forgotten, Excused, Excuses
  <1>4. CASE Restart
    <2>1. Down /\ run'.at = "idle" /\ UNCHANGED <<client, rebuild>>
          /\ harm' = harm \cup Forgotten \cup (IF wire.up THEN Lost ELSE {})
      BY <1>4, RestartDoes DEF Restart
    <2>2. rebuild.at = "none"
      BY <2>1 DEF Lost, Excused, Excuses, OneRequest
    <2> QED
      BY <2>1, <2>2, DownHonest
  <1> QED
    BY <1>1, <1>2, <1>3, <1>4 DEF Fault

LEMMA ReconnectHonest ==
  ASSUME StreamTyped, OneRequest, Honest, Reconnect
  PROVE  Honest'
  <1>1. /\ ~wire.up /\ wire'.up = TRUE /\ wire'.down = wire.down
        /\ ~client.mark.on => wire'.ask = <<>>
        /\ client.mark.on => \E r \in Requests : wire'.ask = <<r>>
        /\ UNCHANGED <<run, store, disk, client, screen, rebuild, harm, used>>
    BY ReconnectDoes DEF Reconnect
  <1>2. rebuild.at = "none" /\ Len(wire.down) = 0
    BY <1>1, EmptySeq DEF OneRequest
  <1>3. Heard' = client.mark
    BY <1>1, <1>2 DEF Heard
  <1>4. CASE client.mark.on
    <2>0. PICK r \in Requests : wire'.ask = <<r>>
      BY <1>1, <1>4
    <2>1. wire'.ask # <<>>
      <3>1. Len(<<r>>) = 1 /\ Len(<<>>) = 0
        OBVIOUS
      <3> QED
        BY <2>0, <3>1
    <2> QED
      BY <1>1, <1>2, <1>3, <2>1, NothingSaid DEF Honest
  <1>5. CASE ~client.mark.on
    <2>1. client.mark = Unmarked /\ run.at # "run"
      BY <1>2, <1>5, NothingSaid DEF Honest
    <2>2. Agrees(client.mark, run.at, store.id)
      BY <2>1, UnmarkedMark DEF Agrees
    <2>3. Named(wire.down) /\ Matches(client.mark, wire.down, wire'.ask)
          /\ Tells(client.mark, wire.down, run.at, store.id)
      BY <1>2, <2>2, NothingSaid
    <2> QED
      BY <1>1, <1>2, <1>3, <2>3 DEF Honest
  <1> QED
    BY <1>4, <1>5

\* A message at the front is taken: what the client goes by now must follow from it.
LEMMA TakenHonest ==
  ASSUME StreamTyped, Honest, TookOff, UNCHANGED <<run, store>>,
         Named(wire'.down), ~client'.mark.on => client'.mark = Unmarked,
         (rebuild.at # "none" /\ rebuild.reply.busy => rebuild.reply.id # 0)',
         Matches(Heard', wire'.down, wire.ask),
         wire.ask = <<>> => Tells(Heard', wire'.down, run.at, store.id),
         rebuild'.at = "none" => Stands(client'.mark, wire'.down, run.at)
  PROVE  Honest'
  BY DEF Honest, TookOff

LEMMA ReceiveStatusHonest ==
  ASSUME StreamTyped, OneRequest, Honest, ReceiveStatus, ~Excused'
  PROVE  Honest'
  <1> PICK m : m = Head(wire.down)
    OBVIOUS
  <1> PICK t : t = Tail(wire.down)
    OBVIOUS
  <1> PICK k : k = client.mark
    OBVIOUS
  <1> PICK c : c = client'.mark
    OBVIOUS
  <1>0. UNCHANGED <<run, store, disk, screen, rebuild, used>> /\ TookOff /\ m \in Letters
        /\ m.kind = "status"
    BY ReceiveStatusDoes DEF ReceiveStatus
  <1>1. rebuild.at = "none"
    BY ReceiveStatusDoes DEF Excused, Excuses
  <1>2. c = (IF m.on THEN MarkedOn(k, m.id) ELSE MarkedOff(k, m.id))
    BY <1>1, ReceiveStatusDoes
  <1>3. wire.down \in Seq(Letters) /\ wire.down # <<>> /\ wire'.down = t /\ wire.up
        /\ m.on \in BOOLEAN
    BY <1>0, LetterFields DEF TookOff
  <1>4. Heard = k /\ Heard' = c
    BY <1>0, <1>1 DEF Heard
  <1>5. Named(t) /\ m.id # 0
    BY <1>0, <1>3, NamedTaken DEF Honest
  <1>6. /\ Matches(k, wire.down, wire.ask)
        /\ wire.ask = <<>> => Tells(k, wire.down, run.at, store.id)
        /\ Stands(k, wire.down, run.at) /\ (~k.on => k = Unmarked)
    BY <1>1, <1>3, <1>4 DEF Honest
  <1>7. CASE c = WordOf(m)
    <2>1. c = IF m.kind \in Words THEN WordOf(m) ELSE k
      BY <1>0, <1>7 DEF Words
    <2>2. c = IF m.kind \in Statuses THEN WordOf(m) ELSE k
      BY <1>0, <1>7 DEF Statuses
    <2>3. Matches(c, t, wire.ask)
          /\ (wire.ask = <<>> => Tells(c, t, run.at, store.id))
      BY <1>3, <1>6, <2>1, WordTaken
    <2>4. Stands(c, t, run.at)
      BY <1>3, <1>6, <2>2, StatusTaken
    <2>5. ~c.on => c = Unmarked
      BY <1>7 DEF WordOf
    <2> QED
      BY <1>0, <1>1, <1>3, <1>4, <1>5, <2>3, <2>4, <2>5, TakenHonest
  <1>8. CASE c # WordOf(m)
    <2>1. ~m.on
      BY <1>0, <1>2, <1>5, <1>8 DEF MarkedOn, WordOf
    <2>2. c = k /\ k.id \notin {0, m.id}
      BY <1>0, <1>2, <1>8, <2>1 DEF MarkedOff, WordOf
    <2>3. Ends(m, k)
      BY <1>0, <1>6, <2>1, <2>2, UnmarkedMark DEF Ends
    <2>4. /\ Matches(k, t, wire.ask) /\ Stands(k, t, run.at)
          /\ wire.ask = <<>> => Tells(k, t, run.at, store.id)
      BY <1>3, <1>6, <2>3, MarkStays
    <2> QED
      BY <1>0, <1>1, <1>3, <1>4, <1>5, <1>6, <2>2, <2>4, TakenHonest
  <1> QED
    BY <1>7, <1>8

LEMMA ReceiveEventHonest ==
  ASSUME StreamTyped, OneRequest, Honest, ReceiveEvent
  PROVE  Honest'
  <1> PICK m : m = Head(wire.down)
    OBVIOUS
  <1> PICK t : t = Tail(wire.down)
    OBVIOUS
  <1>0. UNCHANGED <<run, store, disk, rebuild, harm, used>> /\ TookOff /\ m \in Letters
        /\ m.kind = "event" /\ client'.mark = client.mark
    <2>1. rebuild.at # "none" => client' = client
      BY ReceiveEventDoes
    <2>2. rebuild.at = "none" => client'.mark = client.mark
      BY ReceiveEventDoes
    <2> QED
      BY <2>1, <2>2, ReceiveEventDoes DEF ReceiveEvent
  <1>1. Heard' = Heard
    BY <1>0 DEF Heard
  <1>2. wire.down \in Seq(Letters) /\ wire.down # <<>> /\ wire'.down = t /\ wire.up
    BY <1>0 DEF TookOff
  <1>3. m.kind \notin Words /\ m.kind \notin Statuses
    BY <1>0 DEF Words, Statuses
  <1>4. Named(t)
    BY <1>2, NamedTaken DEF Honest
  <1>5. /\ Matches(Heard, wire.down, wire.ask)
        /\ wire.ask = <<>> => Tells(Heard, wire.down, run.at, store.id)
        /\ rebuild.at = "none" => Stands(client.mark, wire.down, run.at)
    BY <1>2 DEF Honest
  <1> PICK b : b = Heard
    OBVIOUS
  <1>6. Matches(b, t, wire.ask) /\ (wire.ask = <<>> => Tells(b, t, run.at, store.id))
    BY <1>2, <1>3, <1>5, WordTaken
  <1>7. rebuild.at = "none" => Stands(client.mark, t, run.at)
    BY <1>2, <1>3, <1>5, StatusTaken
  <1>8. /\ ~client'.mark.on => client'.mark = Unmarked
        /\ (rebuild.at # "none" /\ rebuild.reply.busy => rebuild.reply.id # 0)'
    BY <1>0 DEF Honest
  <1> QED
    BY <1>0, <1>1, <1>2, <1>4, <1>6, <1>7, <1>8, TakenHonest

LEMMA ReceiveResumeHonest ==
  ASSUME StreamTyped, OneRequest, InOrder, Honest, ReceiveResume
  PROVE  Honest'
  <1> PICK m : m = Head(wire.down)
    OBVIOUS
  <1> PICK t : t = Tail(wire.down)
    OBVIOUS
  <1> PICK c : c = WordOf(m)
    OBVIOUS
  <1>0. UNCHANGED <<run, store, disk, used>> /\ TookOff /\ m \in Letters /\ m.kind = "resume"
    BY ReceiveResumeDoes DEF ReceiveResume
  <1>1. ~Resuming(t) /\ wire.ask = <<>> /\ rebuild.at = "none"
    BY <1>0, FrontOrder DEF TookOff
  <1>2. wire.down \in Seq(Letters) /\ wire.down # <<>> /\ wire'.down = t /\ wire.up
    BY <1>0 DEF TookOff
  <1>3. Named(t) /\ (m.busy => m.id # 0)
    BY <1>0, <1>2, NamedTaken DEF Honest
  <1>4. /\ Matches(client.mark, wire.down, wire.ask)
        /\ Tells(client.mark, wire.down, run.at, store.id)
        /\ ~client.mark.on => client.mark = Unmarked
    BY <1>1, <1>2 DEF Honest, Heard
  <1>5. c = IF m.kind \in Words THEN WordOf(m) ELSE client.mark
    BY <1>0 DEF Words
  <1>6. Matches(c, t, wire.ask) /\ Tells(c, t, run.at, store.id)
    BY <1>2, <1>4, <1>5, WordTaken
  <1>7. CASE Rebuilds(m)
    <2>1. rebuild'.at = "asked" /\ rebuild'.reply = m /\ client'.mark = client.mark
      BY <1>7, ReceiveResumeDoes
    <2>2. Heard' = c
      BY <2>1 DEF Heard
    <2> QED
      BY <1>0, <1>2, <1>3, <1>4, <1>6, <2>1, <2>2, TakenHonest
  <1>8. CASE ~Rebuilds(m)
    <2>1. client'.mark = MarkedAs(client.mark, m) /\ rebuild'.at = "none"
      BY <1>1, <1>8, ReceiveResumeDoes
    <2>2. client'.mark = c
      BY <1>0, <1>3, <2>1 DEF MarkedAs, MarkedOn, WordOf
    <2>3. Heard' = c
      BY <2>1, <2>2 DEF Heard
    <2>4. Stands(c, t, run.at)
      BY <1>1, <1>6, TellingStands
    <2>5. ~c.on => c = Unmarked
      BY DEF WordOf
    <2> QED
      BY <1>0, <1>2, <1>3, <1>6, <2>1, <2>2, <2>3, <2>4, <2>5, TakenHonest
  <1> QED
    BY <1>7, <1>8

LEMMA FetchHonest ==
  ASSUME StreamTyped, Honest, FetchReads \/ FetchFails
  PROVE  Honest'
  <1>1. UNCHANGED <<run, store, wire, client>>
    BY DEF FetchReads, FetchFails
  <1>2. rebuild.at = "asked" /\ rebuild'.at = "read" /\ rebuild'.reply = rebuild.reply
    BY FetchReadsDoes, FetchFailsDoes
  <1>3. Heard' = Heard
    BY <1>2 DEF Heard
  <1> QED
    BY <1>1, <1>2, <1>3 DEF Honest

LEMMA RebuildEndsHonest ==
  ASSUME StreamTyped, OneRequest, Honest, RebuildEnds
  PROVE  Honest'
  <1> PICK m : m = rebuild.reply
    OBVIOUS
  <1> PICK c : c = WordOf(m)
    OBVIOUS
  <1>0. UNCHANGED <<run, store, disk, used, harm>>
    BY DEF RebuildEnds
  <1>1. /\ rebuild.at = "read" /\ rebuild' = NoRebuild /\ m \in Answers
        /\ client'.mark = MarkedAs(client.mark, m)
        /\ wire'.up = wire.up /\ wire'.down = wire.down
    BY RebuildEndsDoes
  <1>2. wire.up /\ wire.ask = <<>> /\ ~Resuming(wire.down)
    BY <1>1, FloorNat DEF OneRequest
  <1>3. m.kind = "resume" /\ (m.busy => m.id # 0)
    BY <1>1 DEF Honest, Answers, Replies
  <1>4. Heard = c /\ client'.mark = c
    BY <1>1, <1>3 DEF Heard, MarkedAs, MarkedOn, WordOf
  <1>5. Heard' = c /\ rebuild'.at = "none"
    BY <1>1, <1>4, ReplyNone DEF Heard
  <1>6. Matches(c, wire.down, wire.ask) /\ Tells(c, wire.down, run.at, store.id)
        /\ Named(wire.down)
    BY <1>2, <1>4 DEF Honest
  <1>7. Stands(c, wire.down, run.at)
    BY <1>2, <1>6, TellingStands
  <1>8. Matches(c, wire.down, wire'.ask)
    BY <1>2, <1>6 DEF Matches
  <1>9. (~c.on => c = Unmarked) /\ (run.at # "idle" => store.id # 0)
    BY DEF WordOf, Honest
  <1> QED
    BY <1>0, <1>1, <1>4, <1>5, <1>6, <1>7, <1>8, <1>9 DEF Honest

LEMMA MarkKept == MarkInv /\ [Next]_vars => MarkInv'
  <1> SUFFICES ASSUME MarkInv, [Next]_vars PROVE MarkInv'
    OBVIOUS
  <1>1. ShownInv /\ ShownInv' /\ StreamTyped
    BY ShownKept DEF MarkInv, ShownInv
  <1>2. CASE Excused'
    BY <1>1, <1>2 DEF MarkInv
  <1>3. CASE ~Excused' /\ UNCHANGED vars
    <2>1. ~Excused /\ UNCHANGED <<run, store, wire, client, rebuild>>
      BY <1>3 DEF vars, Excused
    <2>2. Heard' = Heard
      BY <2>1 DEF Heard
    <2> QED
      BY <1>1, <2>1, <2>2 DEF MarkInv, Honest
  <1>4. CASE ~Excused' /\ Next
    <2>1. ~Excused
      BY <1>4, HarmStays DEF Excused
    <2>2. Honest /\ OneRequest /\ InOrder
      BY <1>1, <2>1 DEF MarkInv, ShownInv, Excused, Excuses, Interrupted
    <2>3. Honest'
      BY <1>1, <1>4, <2>2, ServerHonest, FaultHonest, ReconnectHonest, ReceiveStatusHonest,
         ReceiveEventHonest, ReceiveResumeHonest, FetchHonest, RebuildEndsHonest
      DEF Next, Client
    <2> QED
      BY <1>1, <2>3 DEF MarkInv
  <1> QED
    BY <1>2, <1>3, <1>4

\* When all is quiet the window says "thinking" exactly while a run is under way:
\* the statuses a drop takes with it are made up for by the one request that a
\* window still marked sends, and the end of a stream that is not the marked one
\* is followed by a reply.
THEOREM QuietMarkIsHonest == Spec => []MarkHonest
  <1>1. ASSUME MarkInv PROVE MarkHonest
    <2>1. SUFFICES ASSUME Quiet, ~Excused
                   PROVE  run.at = "over" \/ client.mark.on = (run.at = "run")
      BY DEF MarkHonest, Excused, Excuses
    <2>2. Tells(client.mark, wire.down, run.at, store.id) /\ Len(wire.down) = 0
      BY <1>1, <2>1, EmptySeq DEF MarkInv, Honest, Quiet, Heard
    <2>3. Agrees(client.mark, run.at, store.id)
      BY <2>2, NothingSaid
    <2>4. run.at \in {"idle", "run", "over"} /\ client.mark.on \in BOOLEAN
      BY <1>1 DEF MarkInv, ShownInv, StreamTyped, Runs, Clients, Marks
    <2> QED
      BY <2>3, <2>4 DEF Agrees
  <1> QED
    BY <1>1, MarkBegins, MarkKept, PTL DEF Spec

-----------------------------------------------------------------------------
(* What is due to the window.                                              *)

\* The events of the session file, and those of a turn still going.
Due(s, k) ==
  k \cup {e \in Streams \X Nat : s.live /\ e[1] = s.id /\ 0 < e[2] /\ e[2] < s.next}

OnWire(d, e) == \E i \in 1..Len(d) : d[i].kind = "event" /\ d[i].id = e[1] /\ d[i].seq = e[2]

\* e comes after the event numbered last of stream id.
Newer(e, id, last) == id < e[1] \/ (e[1] = id /\ last < e[2])

InReply(e, m) == e[1] = m.id /\ m.from <= e[2] /\ e[2] < m.next

\* The events of a stream are on the wire in the order of their numbers, a reply
\* standing for the last of its own; all after the window's last, none yet to come.
Rank(m) == IF m.kind = "event" THEN m.seq ELSE m.next - 1
Above(d, id, last) ==
  \A i \in 1..Len(d) : d[i].kind = "event" /\ d[i].id = id => last < d[i].seq
Below(d, s) ==
  \A i \in 1..Len(d) : d[i].kind # "status" /\ d[i].id = s.id => Rank(d[i]) < s.next
Climbs(d) ==
  /\ \A i \in 1..Len(d) : d[i].kind = "event" => 0 < d[i].seq
  /\ \A i, j \in 1..Len(d) :
       i < j /\ d[i].kind # "status" /\ d[j].kind = "event" /\ d[i].id = d[j].id =>
         Rank(d[i]) < d[j].seq

Recorded(s, k) ==
  /\ s.live => s.id # 0
  /\ \A e \in k : 0 < e[2] /\ e[1] <= s.id /\ (e[1] = s.id => e[2] < s.next)

\* What holds of a reply for as long as it is on its way or rebuilt from.
Sound(m, s) ==
  /\ 1 <= m.from /\ 1 <= m.next /\ (Rebuilds(m) => m.id # 0) /\ (m.id = 0 => m.next = 1)
  /\ m.id = s.id /\ s.live => m.live

\* After place i, streams newer than id start with a status; their events are on the wire.
Announced(d, i, id, s, k) ==
  /\ id < s.id => \E n \in 1..Len(d) :
       /\ i < n /\ d[n].kind = "status"
       /\ \A j \in 1..Len(d) : i < j /\ j < n => d[j].id <= id
  /\ \A e \in Due(s, k) : id < e[1] => OnWire(d, e)

\* The client's position in the streams: the last event it has, or is given.
FloorLast == IF rebuild.at = "none" THEN client.meta.last ELSE rebuild.reply.next - 1

Sorted(d, s) ==
  /\ Ordered(d, Floor, s.id) /\ Floor <= s.id
  /\ Above(d, Floor, FloorLast) /\ (Floor = s.id => FloorLast < s.next)
  /\ Below(d, s) /\ Climbs(d)

Replying(d, s, k) ==
  \A i \in 1..Len(d) : d[i].kind = "resume" =>
    Sound(d[i], s) /\ (Rebuilds(d[i]) /\ ~d[i].live => Announced(d, i, d[i].id, s, k))

Restoring(d, s, k) ==
  rebuild.at # "none" =>
    /\ Sound(rebuild.reply, s) /\ rebuild.reply.id # 0 /\ ~rebuild.touched
    /\ rebuild.reply.live => rebuild.reply.from = 1
    /\ ~rebuild.reply.live => Announced(d, 0, rebuild.reply.id, s, k)
    /\ rebuild.at = "read" =>
         \A e \in k : \/ e \in rebuild.found \/ rebuild.reply.id < e[1]
                      \/ e[1] = rebuild.reply.id /\ rebuild.reply.live

\* How an event that is due and not shown comes to the window.
Coming(d, e) ==
  \/ OnWire(d, e)
  \/ ~wire.up /\ client.mark.on /\ Newer(e, client.meta.id, client.meta.last)
  \/ wire.ask # <<>> /\ Newer(e, Head(wire.ask).id, Head(wire.ask).since)
  \/ \E i \in 1..Len(d) : d[i].kind = "resume" /\ (Rebuilds(d[i]) \/ InReply(e, d[i]))

Arriving(d, s, k) ==
  rebuild.at = "none" => \A e \in Due(s, k) : e \in screen.shown \/ Coming(d, e)

\* All of it, for a store, a wire and a session file.
Flow(s, d, k) ==
  /\ s \in Stores /\ d \in Seq(Letters) /\ k \in SUBSET (Streams \X Nat)
  /\ ~wire.up => d = <<>> /\ rebuild.at = "none"
  /\ Sorted(d, s) /\ Recorded(s, k) /\ Replying(d, s, k) /\ Restoring(d, s, k)
  /\ Arriving(d, s, k)

LEMMA StoreFields ==
  ASSUME NEW s \in Stores
  PROVE  s.id \in Nat /\ s.next \in Nat /\ 0 < s.next /\ s.live \in BOOLEAN /\ s.id \in KnownIds
  BY DEF Stores, KnownIds

LEMMA EventFields ==
  ASSUME NEW k \in SUBSET (Streams \X Nat), NEW e \in k
  PROVE  e \in Streams \X Nat /\ e[1] \in Streams /\ e[1] \in Nat /\ e[2] \in Nat
         /\ e = <<e[1], e[2]>>
  BY DEF Streams

LEMMA DueFields ==
  ASSUME NEW s, NEW k \in SUBSET (Streams \X Nat)
  PROVE  Due(s, k) \in SUBSET (Streams \X Nat) /\ k \subseteq Due(s, k)
  BY DEF Due

\* What more at the end of the wire leaves as it was.
LEMMA LongerKeeps ==
  ASSUME NEW d \in Seq(Letters), NEW m \in Letters
  PROVE  LET f == Append(d, m)
         IN  /\ \A e : OnWire(d, e) => OnWire(f, e)
             /\ \A e : Coming(d, e) => Coming(f, e)
             /\ \A i, id, s, k, t, l :
                  /\ Announced(d, i, id, s, k) /\ t.id = s.id
                  /\ \A e \in Due(t, l) : id < e[1] => e \in Due(s, k) \/ OnWire(f, e)
                  => Announced(f, i, id, t, l)
  <1> PICK f : f = Append(d, m)
    OBVIOUS
  <1> PICK n : n = Len(d)
    OBVIOUS
  <1>1. /\ n \in Nat /\ Len(f) = n + 1 /\ f[n + 1] = m
        /\ \A i \in 1..n : f[i] = d[i] /\ i \in 1..Len(f)
        /\ \A i \in 1..Len(f) : i \in 1..n \/ i = n + 1
    BY Appended
  <1>2. ASSUME NEW e, OnWire(d, e) PROVE OnWire(f, e)
    BY <1>1, <1>2 DEF OnWire
  <1>3. ASSUME NEW e, Coming(d, e) PROVE Coming(f, e)
    BY <1>1, <1>2, <1>3 DEF Coming
  <1>4. ASSUME NEW i, NEW id, NEW s, NEW k, NEW t, NEW l, Announced(d, i, id, s, k), t.id = s.id,
               \A e \in Due(t, l) : id < e[1] => e \in Due(s, k) \/ OnWire(f, e)
        PROVE  Announced(f, i, id, t, l)
    <2>1. \A e \in Due(t, l) : id < e[1] => OnWire(f, e)
      BY <1>2, <1>4 DEF Announced
    <2>2. ASSUME id < t.id
          PROVE  \E p \in 1..Len(f) : /\ i < p /\ f[p].kind = "status"
                                      /\ \A j \in 1..Len(f) : i < j /\ j < p => f[j].id <= id
      <3>1. PICK p \in 1..n : /\ i < p /\ d[p].kind = "status"
                              /\ \A j \in 1..n : i < j /\ j < p => d[j].id <= id
        BY <1>4, <2>2 DEF Announced
      <3>2. \A j \in 1..Len(f) : j < p => j \in 1..n
        BY <1>1, <3>1
      <3> QED
        BY <1>1, <3>1, <3>2
    <2> QED
      BY <2>1, <2>2 DEF Announced
  <1> QED
    BY <1>2, <1>3, <1>4

\* The order is kept by a message at the end that is after all of its stream.
LEMMA SortedAppend ==
  ASSUME StreamTyped, NEW s \in Stores, NEW t \in Stores, NEW d \in Seq(Letters),
         NEW m \in Letters, Sorted(d, s), s.id <= t.id, s.id = t.id => s.next <= t.next,
         s.id <= m.id, m.id <= t.id,
         m.kind = "event" => m.id = s.id /\ m.seq = s.next,
         m.kind # "status" => m.id # t.id \/ Rank(m) < t.next
  PROVE  Sorted(Append(d, m), t)
  <1> PICK f : f = Append(d, m)
    OBVIOUS
  <1> PICK n : n = Len(d)
    OBVIOUS
  <1>1. /\ n \in Nat /\ Len(f) = n + 1 /\ f[n + 1] = m
        /\ \A i \in 1..n : f[i] = d[i] /\ d[i] \in Letters
        /\ \A i \in 1..Len(f) : i \in 1..n \/ i = n + 1
    BY Appended
  <1>2. s.id \in Nat /\ t.id \in Nat /\ s.next \in Nat /\ t.next \in Nat /\ 0 < s.next
        /\ 0 < t.next /\ m.id \in Nat /\ Floor \in Nat
    BY StoreFields, LetterFields, FloorNat
  <1>3. FloorLast \in Int
    BY FloorNat, RebuildFields, ReplyFields DEF FloorLast, Metas
  <1>4. \A i \in 1..n : /\ d[i].id \in Nat /\ d[i].kind \in {"status", "event", "resume"}
                        /\ (d[i].kind # "status" => Rank(d[i]) \in Int)
    <2> TAKE i \in 1..n
    <2>1. d[i] \in Letters
      BY <1>1
    <2> QED
      BY <2>1, LetterFields, ReplyFields DEF Rank
  <1>5. Ordered(f, Floor, t.id) /\ Floor <= t.id
    BY <1>2, OrderedAppend DEF Sorted
  <1>6. Above(f, Floor, FloorLast)
    <2>1. ASSUME m.kind = "event", m.id = Floor
          PROVE  FloorLast < m.seq
      BY <2>1 DEF Sorted
    <2> QED
      BY <1>1, <2>1 DEF Sorted, Above
  <1>7. Floor = t.id => FloorLast < t.next
    <2>1. Floor <= s.id
      BY DEF Sorted
    <2> HAVE Floor = t.id
    <2>2. s.id = t.id /\ FloorLast < s.next
      BY <1>2, <2>1 DEF Sorted
    <2> QED
      BY <1>2, <1>3, <2>2
  <1>8. Below(f, t)
    <2> SUFFICES ASSUME NEW i \in 1..Len(f), f[i].kind # "status", f[i].id = t.id
                 PROVE  Rank(f[i]) < t.next
      BY DEF Below
    <2>1. CASE i = n + 1
      BY <1>1, <2>1
    <2>2. CASE i \in 1..n
      <3>1. d[i].id <= s.id /\ f[i] = d[i]
        BY <1>1, <1>2, <1>4, <2>2 DEF Sorted, Ordered
      <3>2. s.id = t.id
        BY <1>2, <1>4, <3>1
      <3>3. Rank(d[i]) < s.next /\ Rank(d[i]) \in Int
        BY <1>4, <2>2, <3>1, <3>2 DEF Sorted, Below
      <3> QED
        BY <1>2, <3>1, <3>2, <3>3
    <2> QED
      BY <1>1, <2>1, <2>2
  <1>9. Climbs(f)
    <2>1. ASSUME NEW i \in 1..Len(f), f[i].kind = "event"
          PROVE  0 < f[i].seq
      <3>1. CASE i = n + 1
        BY <1>1, <1>2, <2>1, <3>1
      <3>2. CASE i \in 1..n
        BY <1>1, <2>1, <3>2 DEF Sorted, Climbs
      <3> QED
        BY <1>1, <3>1, <3>2
    <2>2. ASSUME NEW i \in 1..Len(f), NEW j \in 1..Len(f), i < j, f[i].kind # "status",
                 f[j].kind = "event", f[i].id = f[j].id
          PROVE  Rank(f[i]) < f[j].seq
      <3>1. i \in 1..n
        BY <1>1, <2>2
      <3>2. CASE j \in 1..n
        BY <1>1, <2>2, <3>1, <3>2 DEF Sorted, Climbs
      <3>3. CASE j = n + 1
        <4>1. f[j] = m /\ f[i] = d[i] /\ d[i].id = s.id /\ m.seq = s.next
          BY <1>1, <2>2, <3>1, <3>3
        <4> QED
          BY <2>2, <3>1, <4>1 DEF Sorted, Below
      <3> QED
        BY <1>1, <3>2, <3>3
    <2> QED
      BY <2>1, <2>2 DEF Climbs
  <1> QED
    BY <1>5, <1>6, <1>7, <1>8, <1>9 DEF Sorted

\* The order says less of a wire that is empty.
LEMMA SortedEmpty ==
  ASSUME NEW s \in Stores, Floor <= s.id, Floor = s.id => FloorLast < s.next
  PROVE  Sorted(<<>>, s)
  <1>1. \A i : i \notin 1..Len(<<>>)
    BY EmptySeq
  <1> QED
    BY <1>1 DEF Sorted, Ordered, Above, Below, Climbs

-----------------------------------------------------------------------------
(* The steps of a handler keep what is due on its way.                     *)

\* A message at the end of the wire, of a store that may have moved on with it.
LEMMA AppendFlows ==
  ASSUME StreamTyped, NEW s \in Stores, NEW t \in Stores, NEW d, NEW k, Flow(s, d, k),
         NEW m \in Letters, wire.up, m.kind # "resume", Sorted(Append(d, m), t),
         t.id = s.id, t.live => s.live, s.next <= t.next,
         \A e \in Due(t, k) : e \in Due(s, k) \/ OnWire(Append(d, m), e)
  PROVE  Flow(t, Append(d, m), k)
  <1> PICK f : f = Append(d, m)
    OBVIOUS
  <1> PICK n : n = Len(d)
    OBVIOUS
  <1>0. d \in Seq(Letters) /\ k \in SUBSET (Streams \X Nat)
    BY DEF Flow
  <1>1. /\ f \in Seq(Letters) /\ n \in Nat /\ f[n + 1] = m
        /\ \A i \in 1..n : f[i] = d[i] /\ d[i] \in Letters
        /\ \A i \in 1..Len(f) : i \in 1..n \/ i = n + 1
    BY <1>0, Appended
  <1>2. \A id, i : Announced(d, i, id, s, k) => Announced(f, i, id, t, k)
    <2>1. \A id : \A e \in Due(t, k) : id < e[1] => e \in Due(s, k) \/ OnWire(f, e)
      OBVIOUS
    <2> QED
      BY <1>0, <2>1, LongerKeeps
  <1>3. \A x : Sound(x, s) => Sound(x, t)
    BY DEF Sound
  <1>4. Replying(f, t, k)
    <2> SUFFICES ASSUME NEW i \in 1..Len(f), f[i].kind = "resume"
                 PROVE  Sound(f[i], t) /\ (Rebuilds(f[i]) /\ ~f[i].live => Announced(f, i, f[i].id, t, k))
      BY DEF Replying
    <2>1. i \in 1..n /\ f[i] = d[i]
      BY <1>1
    <2> QED
      BY <1>2, <1>3, <2>1 DEF Flow, Replying
  <1>5. Restoring(f, t, k)
    BY <1>2, <1>3 DEF Flow, Restoring
  <1>6. Arriving(f, t, k)
    <2> SUFFICES ASSUME rebuild.at = "none", NEW e \in Due(t, k)
                 PROVE  e \in screen.shown \/ Coming(f, e)
      BY DEF Arriving
    <2>1. CASE e \in Due(s, k)
      <3>1. e \in screen.shown \/ Coming(d, e)
        BY <2>1 DEF Flow, Arriving
      <3> QED
        BY <1>0, <3>1, LongerKeeps
    <2>2. CASE OnWire(f, e)
      BY <2>2 DEF Coming
    <2> QED
      BY <2>1, <2>2
  <1>7. Recorded(t, k)
    <2>1. \A e \in k : e[2] \in Nat /\ e[1] \in Nat
      BY <1>0, EventFields
    <2>2. s.next \in Nat /\ t.next \in Nat
      BY StoreFields
    <2> QED
      BY <2>1, <2>2 DEF Flow, Recorded
  <1> QED
    BY <1>0, <1>1, <1>4, <1>5, <1>6, <1>7 DEF Flow

\* Nothing goes out on a connection that is down.
LEMMA SilentFlows ==
  ASSUME StreamTyped, NEW s \in Stores, NEW t \in Stores, NEW d, NEW k,
         NEW l \in SUBSET (Streams \X Nat), Flow(s, d, k), ~wire.up, s.id <= t.id,
         s.id = t.id => s.next <= t.next, Recorded(t, l),
         \A e \in Due(t, l) : \/ e \in Due(s, k)
                              \/ client.mark.on /\ Newer(e, s.id, s.next - 1)
  PROVE  Flow(t, d, l)
  <1>1. d = <<>> /\ d \in Seq(Letters) /\ rebuild.at = "none"
    BY DEF Flow
  <1>2. s.id \in Nat /\ t.id \in Nat /\ s.next \in Nat /\ t.next \in Nat /\ 0 < t.next /\ Floor \in Nat
    BY StoreFields, FloorNat
  <1>3. client.meta.id \in Nat /\ client.meta.last \in Nat /\ Floor = client.meta.id
        /\ FloorLast = client.meta.last
    BY <1>1, FloorNat DEF Metas, Floor, FloorLast
  <1>4. Floor <= s.id /\ (Floor = s.id => FloorLast < s.next)
    BY DEF Flow, Sorted
  <1>5. Sorted(d, t)
    <2>1. Floor <= t.id
      BY <1>2, <1>4
    <2>2. Floor = t.id => FloorLast < t.next
      BY <1>2, <1>3, <1>4
    <2> QED
      BY <1>1, <2>1, <2>2, SortedEmpty
  <1>6. \A i : i \notin 1..Len(d)
    BY <1>1, EmptySeq
  <1>7. Replying(d, t, l) /\ Restoring(d, t, l)
    BY <1>1, <1>6 DEF Replying, Restoring
  <1>8. Arriving(d, t, l)
    <2> SUFFICES ASSUME NEW e \in Due(t, l) PROVE e \in screen.shown \/ Coming(d, e)
      BY DEF Arriving
    <2>1. CASE e \in Due(s, k)
      BY <1>1, <2>1 DEF Flow, Arriving
    <2>2. CASE client.mark.on /\ Newer(e, s.id, s.next - 1)
      <3>1. e[1] \in Nat /\ e[2] \in Nat
        BY DueFields, EventFields
      <3>2. Newer(e, client.meta.id, client.meta.last)
        BY <1>2, <1>3, <1>4, <2>2, <3>1 DEF Newer
      <3> QED
        BY <2>2, <3>2 DEF Coming
    <2> QED
      BY <2>1, <2>2
  <1> QED
    BY <1>1, <1>5, <1>7, <1>8 DEF Flow

LEMMA EmitFlows ==
  ASSUME StreamTyped, NEW s \in Stores, NEW t \in Stores, NEW d, NEW k, Flow(s, d, k),
         s.id \in Streams, t.id = s.id, t.next = s.next + 1, t.live = s.live,
         wire.up \/ client.mark.on \/ ~s.live
  PROVE  Flow(t, IF wire.up THEN Append(d, Event(s.id, s.next)) ELSE d, k)
  <1> PICK m : m = Event(s.id, s.next)
    OBVIOUS
  <1>0. s.id \in Nat /\ s.next \in Nat /\ 0 < s.next /\ d \in Seq(Letters)
        /\ k \in SUBSET (Streams \X Nat)
    BY StoreFields DEF Flow
  <1>1. m \in Letters /\ m.kind = "event" /\ m.id = s.id /\ m.seq = s.next
    BY <1>0, EventTold
  <1>2. \A e \in Due(t, k) : e \in Due(s, k) \/ (s.live /\ e[1] = s.id /\ e[2] = s.next)
    <2> TAKE e \in Due(t, k)
    <2>1. e[2] \in Nat
      BY <1>0, DueFields, EventFields
    <2> QED
      BY <1>0, <2>1 DEF Due
  <1>3. CASE wire.up
    <2>1. OnWire(Append(d, m), <<s.id, s.next>>)
          /\ \A e : e[1] = s.id /\ e[2] = s.next => OnWire(Append(d, m), e)
      <3>1. Append(d, m)[Len(d) + 1] = m /\ Len(d) + 1 \in 1..Len(Append(d, m))
        BY <1>0, <1>1, Appended
      <3> QED
        BY <1>1, <3>1 DEF OnWire
    <2>2. Sorted(Append(d, m), t)
      <3>1. Sorted(d, s) /\ Rank(m) < t.next
        BY <1>0, <1>1 DEF Flow, Rank
      <3> QED
        BY <1>0, <1>1, <3>1, SortedAppend
    <2>3. Flow(t, Append(d, m), k)
      BY <1>0, <1>1, <1>2, <1>3, <2>1, <2>2, AppendFlows
    <2> QED
      BY <1>3, <2>3
  <1>4. CASE ~wire.up
    <2>1. \A e \in Due(t, k) : e \in Due(s, k) \/ (client.mark.on /\ Newer(e, s.id, s.next - 1))
      BY <1>0, <1>2, <1>4 DEF Newer
    <2>2. Recorded(t, k)
      <3>1. \A e \in k : e[2] \in Nat
        BY <1>0, EventFields
      <3> QED
        BY <1>0, <3>1 DEF Flow, Recorded
    <2>3. Flow(t, d, k)
      BY <1>0, <1>4, <2>1, <2>2, SilentFlows
    <2> QED
      BY <1>4, <2>3
  <1> QED
    BY <1>3, <1>4

\* A turn is over: its events are in the session file, or it never came to its end.
LEMMA FinishFlows ==
  ASSUME StreamTyped, NEW s \in Stores, NEW t \in Stores, NEW d, NEW k, Flow(s, d, k),
         NEW l \in SUBSET (Streams \X Nat), t.id = s.id, t.next = s.next, t.live = FALSE,
         k \subseteq l,
         \A e \in l : e \in k \/ (s.live /\ e[1] = s.id /\ 0 < e[2] /\ e[2] < s.next)
  PROVE  Flow(t, d, l)
  <1>0. s.id \in Nat /\ s.next \in Nat /\ k \in SUBSET (Streams \X Nat)
        /\ rebuild.reply.id \in Nat
    BY StoreFields, FloorNat DEF Flow
  <1>1. Due(t, l) = l /\ l \subseteq Due(s, k)
    <2>1. ASSUME NEW e \in l PROVE e \in Due(s, k)
      <3>1. e \in Streams \X Nat
        OBVIOUS
      <3> QED
        BY <3>1 DEF Due
    <2>2. Due(t, l) = l
      BY DEF Due
    <2> QED
      BY <2>1, <2>2
  <1>2. \A id, i : Announced(d, i, id, s, k) => Announced(d, i, id, t, l)
    BY <1>1 DEF Announced
  <1>3. \A x : Sound(x, s) => Sound(x, t)
    BY DEF Sound
  <1>4. Sorted(d, t) /\ Replying(d, t, l) /\ Arriving(d, t, l)
    BY <1>1, <1>2, <1>3 DEF Flow, Sorted, Below, Replying, Arriving
  <1>5. Recorded(t, l)
    BY <1>0 DEF Flow, Recorded
  <1>6. Restoring(d, t, l)
    <2>1. ASSUME rebuild.at = "read", NEW e \in l
          PROVE  \/ e \in rebuild.found \/ rebuild.reply.id < e[1]
                 \/ e[1] = rebuild.reply.id /\ rebuild.reply.live
      <3>1. CASE e \in k
        BY <2>1, <3>1 DEF Flow, Restoring
      <3>2. CASE s.live /\ e[1] = s.id
        <4>1. rebuild.reply.id <= s.id /\ Sound(rebuild.reply, s)
          BY <2>1 DEF Flow, Sorted, Floor, Restoring
        <4> QED
          BY <1>0, <3>2, <4>1 DEF Sound
      <3> QED
        BY <3>1, <3>2
    <2> QED
      BY <1>2, <1>3, <2>1 DEF Flow, Restoring
  <1> QED
    BY <1>4, <1>5, <1>6 DEF Flow

LEMMA SayFlows ==
  ASSUME StreamTyped, NEW s \in Stores, NEW d, NEW k, Flow(s, d, k), NEW on \in BOOLEAN
  PROVE  Flow(s, IF wire.up THEN Append(d, Status(on, s.id)) ELSE d, k)
  <1> PICK m : m = Status(on, s.id)
    OBVIOUS
  <1>0. s.id \in Nat /\ s.next \in Nat /\ d \in Seq(Letters) /\ s.id \in 0..MaxStreams
    BY StoreFields DEF Flow, Stores
  <1>1. m \in Letters /\ m.kind = "status" /\ m.id = s.id
    BY <1>0, StatusTold
  <1>2. Sorted(Append(d, m), s)
    <2>1. Sorted(d, s)
      BY DEF Flow
    <2> QED
      BY <1>0, <1>1, <2>1, SortedAppend
  <1>3. CASE wire.up
    <2>1. Flow(s, Append(d, m), k)
      BY <1>0, <1>1, <1>2, <1>3, AppendFlows
    <2> QED
      BY <1>3, <2>1
  <1> QED
    BY <1>3

\* A turn begins, and says so.
LEMMA BeginFlows ==
  ASSUME StreamTyped, NEW s \in Stores, NEW t \in Stores, NEW d, NEW k, Flow(s, d, k),
         t.id = s.id + 1, t.next = 1, NEW on \in BOOLEAN
  PROVE  Flow(t, IF wire.up THEN Append(d, Status(on, t.id)) ELSE d, k)
  <1> PICK m : m = Status(on, t.id)
    OBVIOUS
  <1> PICK f : f = Append(d, m)
    OBVIOUS
  <1> PICK n : n = Len(d)
    OBVIOUS
  <1>0. /\ s.id \in Nat /\ t.id \in Nat /\ s.next \in Nat /\ d \in Seq(Letters)
        /\ t.id \in 0..MaxStreams /\ k \in SUBSET (Streams \X Nat)
        /\ rebuild.reply.id \in Nat
    BY StoreFields, FloorNat DEF Flow, Stores
  <1>1. m \in Letters /\ m.kind = "status" /\ m.id = t.id
    BY <1>0, StatusTold
  <1>2. Due(t, k) = k /\ k \subseteq Due(s, k)
    <2>1. ASSUME NEW e \in Due(t, k) PROVE e \in k
      <3>1. e[2] \in Nat
        BY <1>0, DueFields, EventFields
      <3> QED
        BY <3>1 DEF Due
    <2> QED
      BY <2>1 DEF Due
  <1>3. Recorded(t, k)
    <2>1. \A e \in k : e[1] \in Nat /\ e[1] <= s.id /\ 0 < e[2]
      BY <1>0, EventFields DEF Flow, Recorded
    <2> QED
      BY <1>0, <2>1 DEF Recorded
  <1>4. CASE ~wire.up
    <2>1. Flow(t, d, k)
      BY <1>0, <1>2, <1>3, <1>4, SilentFlows
    <2> QED
      BY <1>4, <2>1
  <1>5. CASE wire.up
    <2>1. /\ f \in Seq(Letters) /\ n \in Nat /\ f[n + 1] = m /\ Len(f) = n + 1
          /\ \A i \in 1..n : f[i] = d[i] /\ d[i] \in Letters
          /\ \A i \in 1..Len(f) : i \in 1..n \/ i = n + 1
      BY <1>0, <1>1, Appended
    <2>2. \A i \in 1..n : d[i].id \in Nat /\ d[i].id <= s.id
      <3> TAKE i \in 1..n
      <3>1. d[i].id \in Nat
        BY <2>1, LetterFields
      <3> QED
        BY <1>0, <3>1 DEF Flow, Sorted, Ordered
    <2>3. Sorted(f, t)
      <3>1. Sorted(d, s)
        BY DEF Flow
      <3>2. /\ s.id <= t.id /\ s.id # t.id /\ s.id <= m.id /\ m.id <= t.id
            /\ m.kind = "status" /\ m.kind # "event"
        BY <1>0, <1>1
      <3>3. Sorted(Append(d, m), t)
        BY <1>0, <1>1, <3>1, <3>2, SortedAppend
      <3> QED
        BY <1>0, <3>3
    <2>4. ASSUME NEW i \in 0..n, NEW id \in Nat, id <= s.id, Announced(d, i, id, s, k)
          PROVE  Announced(f, i, id, t, k)
      <3>1. \A e \in Due(t, k) : id < e[1] => OnWire(f, e)
        BY <1>0, <1>1, <1>2, <2>4, LongerKeeps DEF Announced
      <3>2. \E p \in 1..Len(f) : /\ i < p /\ f[p].kind = "status"
                                 /\ \A j \in 1..Len(f) : i < j /\ j < p => f[j].id <= id
        <4>1. CASE id = s.id
          <5>1. n + 1 \in 1..Len(f) /\ i < n + 1 /\ f[n + 1].kind = "status"
            BY <1>1, <2>1
          <5>2. \A j \in 1..Len(f) : j < n + 1 => f[j].id <= id
            BY <2>1, <2>2, <4>1
          <5> QED
            BY <5>1, <5>2
        <4>2. CASE id < s.id
          <5>1. PICK p \in 1..n : /\ i < p /\ d[p].kind = "status"
                                  /\ \A j \in 1..n : i < j /\ j < p => d[j].id <= id
            BY <2>4, <4>2 DEF Announced
          <5>2. p \in 1..Len(f) /\ f[p] = d[p] /\ \A j \in 1..Len(f) : j < p => j \in 1..n
            BY <2>1, <5>1
          <5>3. i < p /\ d[p].kind = "status" /\ \A j \in 1..n : i < j /\ j < p => d[j].id <= id
            BY <5>1
          <5>4. ASSUME NEW j \in 1..Len(f), i < j, j < p PROVE f[j].id <= id
            BY <2>1, <5>2, <5>3, <5>4
          <5> QED
            BY <5>2, <5>3, <5>4
        <4> QED
          BY <1>0, <2>4, <4>1, <4>2, SMTT(30)
      <3> QED
        BY <3>1, <3>2 DEF Announced
    <2>5. \A x : x.id <= s.id /\ x.id \in Nat /\ Sound(x, s) => Sound(x, t)
      BY <1>0 DEF Sound
    <2>6. Replying(f, t, k)
      <3> SUFFICES ASSUME NEW i \in 1..Len(f), f[i].kind = "resume"
                   PROVE  /\ Sound(f[i], t)
                          /\ Rebuilds(f[i]) /\ ~f[i].live => Announced(f, i, f[i].id, t, k)
        BY DEF Replying
      <3>1. i \in 1..n /\ f[i] = d[i]
        BY <1>1, <2>1
      <3>2. d[i].id <= s.id /\ d[i].id \in Nat /\ i \in 0..n
        BY <2>1, <2>2, <3>1
      <3> QED
        BY <2>4, <2>5, <3>1, <3>2 DEF Flow, Replying
    <2>7. Restoring(f, t, k)
      <3> SUFFICES ASSUME rebuild.at # "none" PROVE Restoring(f, t, k)
        BY DEF Restoring
      <3>1. rebuild.reply.id <= s.id /\ 0 \in 0..n
        BY <2>1 DEF Flow, Sorted, Floor
      <3> QED
        BY <1>0, <2>4, <2>5, <3>1 DEF Flow, Restoring
    <2>8. Arriving(f, t, k)
      BY <1>0, <1>1, <1>2, LongerKeeps DEF Flow, Arriving
    <2>9. Flow(t, f, k)
      BY <1>0, <1>3, <1>5, <2>1, <2>3, <2>6, <2>7, <2>8 DEF Flow
    <2> QED
      BY <1>5, <2>9
  <1> QED
    BY <1>4, <1>5

\* An outcome that reaches a session without a stream begins one.
LEMMA FirstFlows ==
  ASSUME StreamTyped, NEW s \in Stores, NEW t \in Stores, NEW d, NEW k, Flow(s, d, k),
         s.id = 0, t.id = 1, t.next = 1
  PROVE  Flow(t, d, k)
  <1>0. /\ s.next \in Nat /\ d \in Seq(Letters) /\ k \in SUBSET (Streams \X Nat)
        /\ rebuild.reply.id \in Nat /\ Floor \in Nat
    BY StoreFields, FloorNat DEF Flow
  <1>1. \A i \in 1..Len(d) : d[i].id = 0 /\ d[i].kind # "event"
    <2> TAKE i \in 1..Len(d)
    <2>1. d[i] \in Letters
      BY <1>0, ElementOfSeq
    <2>2. d[i].id \in Nat /\ (d[i].kind = "event" => d[i].id # 0)
      BY <2>1, LetterFields
    <2> QED
      BY <2>2 DEF Flow, Sorted, Ordered
  <1>2. Floor = 0 /\ rebuild.at = "none"
    BY <1>0 DEF Flow, Sorted, Restoring, Floor
  <1>3. Due(t, k) = k /\ k \subseteq Due(s, k)
    <2>1. ASSUME NEW e \in Due(t, k) PROVE e \in k
      <3>1. e[2] \in Nat
        BY <1>0, DueFields, EventFields
      <3> QED
        BY <3>1 DEF Due
    <2> QED
      BY <2>1 DEF Due
  <1>4. Sorted(d, t)
    BY <1>1, <1>2 DEF Flow, Sorted, Ordered, Above, Below
  <1>5. Recorded(t, k)
    <2>1. \A e \in k : e[1] \in Nat /\ e[1] <= 0 /\ 0 < e[2]
      BY <1>0, EventFields DEF Flow, Recorded
    <2> QED
      BY <2>1 DEF Recorded
  <1>6. Replying(d, t, k)
    <2>1. \A i \in 1..Len(d) : d[i].kind = "resume" => Sound(d[i], s)
      BY DEF Flow, Replying
    <2> QED
      BY <1>1, <2>1 DEF Replying, Sound
  <1>7. Restoring(d, t, k) /\ Arriving(d, t, k)
    BY <1>2, <1>3 DEF Flow, Restoring, Arriving
  <1> QED
    BY <1>4, <1>5, <1>6, <1>7 DEF Flow

\* What a handler works on, with what it has said on the wire.
Sending(o) == IF wire.up THEN wire.down \o o.out ELSE wire.down
Flowing(o, k) == Working(o) /\ o.st.id = o.streams /\ Flow(o.st, Sending(o), k)

LEMMA NowFlows ==
  ASSUME StreamTyped, Flow(store, wire.down, disk), store.id = used.streams
  PROVE  Flowing(Now, disk)
  <1>1. Sending(Now) = wire.down /\ Now.st = store
    BY NowOut, NowWorks DEF Sending
  <1> QED
    BY <1>1, NowWorks DEF Flowing

LEMMA SaidMore ==
  ASSUME StreamTyped, NEW o, Working(o), NEW p, NEW m \in Letters, p.out = Append(o.out, m)
  PROVE  Sending(p) = IF wire.up THEN Append(Sending(o), m) ELSE Sending(o)
  <1>1. wire.down \in Seq(Letters) /\ o.out \in Seq(Letters)
    BY WireFields DEF StreamTyped, Working
  <1>2. wire.down \o Append(o.out, m) = Append(wire.down \o o.out, m)
    BY <1>1, ConcatAppend
  <1> QED
    BY <1>2 DEF Sending

LEMMA EmittedFlows ==
  ASSUME StreamTyped, NEW o, NEW k, Flowing(o, k), o.st.id # 0 \/ o.streams < MaxStreams,
         wire.up \/ client.mark.on \/ (o.st.id # 0 /\ ~o.st.live)
  PROVE  Flowing(Emitted(o), k)
  <1> PICK e : e = Emitted(o)
    OBVIOUS
  <1> PICK s : s = o.st
    OBVIOUS
  <1> PICK t : t = e.st
    OBVIOUS
  <1> PICK d : d = Sending(o)
    OBVIOUS
  <1>1. /\ Working(e) /\ t.id \in Streams /\ e.out = Append(o.out, Event(t.id, t.next - 1))
        /\ t.id = (IF s.id = 0 THEN o.streams + 1 ELSE s.id)
        /\ e.streams = (IF s.id = 0 THEN o.streams + 1 ELSE o.streams)
        /\ t.live = (s.live \/ s.id = 0)
        /\ t.next = IF s.id = 0 THEN 2 ELSE s.next + 1
    BY EmittedWorks DEF Flowing
  <1>2. s \in Stores /\ t \in Stores /\ Flow(s, d, k) /\ s.id = o.streams /\ Working(o)
    BY <1>1 DEF Flowing, Working
  <1>3. /\ s.id \in Nat /\ s.next \in Nat /\ t.id \in Nat /\ t.next \in Nat /\ t.next - 1 \in Nat
        /\ s.live \in BOOLEAN
    BY <1>2, StoreFields
  <1>4. Sending(e) = IF wire.up THEN Append(d, Event(t.id, t.next - 1)) ELSE d
    BY <1>1, <1>2, <1>3, EventTold, SaidMore
  <1>5. CASE s.id # 0
    <2>1. t.id = s.id /\ t.next = s.next + 1 /\ t.live = s.live /\ t.next - 1 = s.next
          /\ e.streams = o.streams
      BY <1>1, <1>3, <1>5
    <2>2. Flow(t, Sending(e), k)
      BY <1>1, <1>2, <1>4, <1>5, <2>1, EmitFlows
    <2> QED
      BY <1>1, <1>2, <2>1, <2>2 DEF Flowing
  <1>6. CASE s.id = 0
    <2>1. t.id = 1 /\ t.next = 2 /\ e.streams = 1
      BY <1>1, <1>2, <1>3, <1>6
    <2>0. t.live
      BY <1>1, <1>6
    <2> PICK b : b = [id |-> 1, next |-> 1, first |-> 1, live |-> TRUE]
      OBVIOUS
    <2>2. b \in Stores /\ b.id = 1 /\ b.next = 1 /\ b.live /\ b.id \in Streams
      BY <1>1, <2>1 DEF Stores, Streams
    <2>6. t.live \in BOOLEAN /\ b.live \in BOOLEAN
      BY <1>2, <2>2, StoreFields
    <2>7. t.live = b.live /\ t.id = b.id /\ t.next = b.next + 1
      BY <2>0, <2>1, <2>2, <2>6
    <2>8. wire.up \/ client.mark.on \/ ~b.live
      BY <1>6
    <2>3. Flow(b, d, k)
      BY <1>2, <1>6, <2>2, FirstFlows
    <2>4. Flow(t, IF wire.up THEN Append(d, Event(b.id, b.next)) ELSE d, k)
      BY <1>2, <2>2, <2>3, <2>7, <2>8, EmitFlows
    <2>5. Flow(t, Sending(e), k)
      BY <1>4, <2>1, <2>2, <2>4
    <2> QED
      BY <1>1, <1>2, <2>1, <2>5 DEF Flowing
  <1> QED
    BY <1>5, <1>6

LEMMA FinishedFlows ==
  ASSUME StreamTyped, NEW o, NEW k, Flowing(o, k), NEW l \in SUBSET (Streams \X Nat),
         k \subseteq l,
         \A e \in l : e \in k \/ (o.st.live /\ e[1] = o.st.id /\ 0 < e[2] /\ e[2] < o.st.next)
  PROVE  Flowing(Finished(o), l)
  <1> PICK f : f = Finished(o)
    OBVIOUS
  <1>1. /\ Working(f) /\ f.st.id = o.st.id /\ f.st.live = FALSE /\ f.st.next = o.st.next
        /\ f.streams = o.streams /\ f.out = o.out
    BY FinishedWorks DEF Flowing
  <1>2. f.st \in Stores /\ o.st \in Stores /\ Sending(f) = Sending(o) /\ Flow(o.st, Sending(o), k)
    BY <1>1 DEF Working, Sending, Flowing
  <1>3. Flow(f.st, Sending(f), l)
    BY <1>1, <1>2, FinishFlows
  <1> QED
    BY <1>1, <1>3 DEF Flowing

LEMMA SaidFlows ==
  ASSUME StreamTyped, NEW o, NEW k, Flowing(o, k), NEW on \in BOOLEAN
  PROVE  Flowing(Said(o, on), k)
  <1> PICK p : p = Said(o, on)
    OBVIOUS
  <1>1. /\ Working(o) /\ Working(p) /\ p.st = o.st /\ p.streams = o.streams
        /\ p.out = Append(o.out, Status(on, o.st.id)) /\ o.st \in Stores
        /\ Status(on, o.st.id) \in Letters
    BY SaidWorks, StatusTold DEF Flowing, Working, Stores
  <1>2. Sending(p) = IF wire.up THEN Append(Sending(o), Status(on, o.st.id)) ELSE Sending(o)
    BY <1>1, SaidMore
  <1>3. Flow(p.st, Sending(p), k)
    BY <1>1, <1>2, SayFlows DEF Flowing
  <1> QED
    BY <1>1, <1>3 DEF Flowing

LEMMA BegunFlows ==
  ASSUME StreamTyped, NEW o, NEW k, Flowing(o, k), o.streams < MaxStreams, NEW on \in BOOLEAN
  PROVE  Flowing(Said(Begun(o), on), k)
  <1> PICK b : b = Begun(o)
    OBVIOUS
  <1> PICK p : p = Said(b, on)
    OBVIOUS
  <1>1. /\ Working(o) /\ Working(b) /\ b.st.id = o.streams + 1 /\ b.st.next = 1
        /\ b.streams = o.streams + 1 /\ b.out = o.out /\ o.st.id = o.streams
    BY BegunWorks DEF Flowing
  <1>2. /\ Working(p) /\ p.st = b.st /\ p.streams = b.streams
        /\ p.out = Append(o.out, Status(on, b.st.id)) /\ o.st \in Stores /\ b.st \in Stores
        /\ Status(on, b.st.id) \in Letters
    BY <1>1, SaidWorks, StatusTold DEF Working, Stores
  <1>3. Sending(p) = IF wire.up THEN Append(Sending(o), Status(on, b.st.id)) ELSE Sending(o)
    BY <1>1, <1>2, SaidMore
  <1>4. Flow(p.st, Sending(p), k)
    BY <1>1, <1>2, <1>3, BeginFlows DEF Flowing
  <1> QED
    BY <1>1, <1>2, <1>4 DEF Flowing

LEMMA HandledFlows ==
  ASSUME StreamTyped, NEW o, NEW k, Flowing(o, k), Handled(o)
  PROVE  /\ Flow(store', wire'.down, k) /\ store'.id = used'.streams /\ store' = o.st
         /\ wire'.up = wire.up /\ wire'.ask = wire.ask
  <1>1. Posted(o)
    BY HandledPosts DEF Flowing
  <1> QED
    BY <1>1 DEF Posted, Flowing, Sending

-----------------------------------------------------------------------------
(* What is due comes.                                                      *)

\* What the client has consumed it shows; what it asks for is a stream's.
Taking ==
  /\ client.meta.id = 0 => client.meta.last = 0 /\ client.meta.got = {}
  /\ \A q \in client.meta.got : <<client.meta.id, q>> \in screen.shown
  /\ rebuild.at = "none" /\ client.mark.on => client.meta.id # 0
  /\ wire.ask # <<>> => Head(wire.ask).id # 0

Journey ==
  /\ store.id = used.streams /\ (run.active => store.live)
  /\ Flow(store, wire.down, disk) /\ Taking

JourneyInv == MarkInv /\ (harm = {} => Journey)

LEMMA JourneyBegins == Init => JourneyInv
  <1> SUFFICES ASSUME Init PROVE JourneyInv
    OBVIOUS
  <1>0. MarkInv /\ StreamTyped
    BY MarkBegins DEF MarkInv, ShownInv
  <1>1. /\ wire.down = <<>> /\ wire.ask = <<>> /\ wire.up /\ store = NoStore /\ disk = {}
        /\ run.active = FALSE /\ client.meta = NoMeta /\ used.streams = 0 /\ client.mark = Unmarked
    BY DEF Init
  <1>2. rebuild.at = "none"
    BY ReplyNone DEF Init
  <1>3. store \in Stores /\ store.id = 0 /\ store.live = FALSE /\ store.next = 1
    BY <1>1, NoStoreTyped DEF NoStore
  <1>4. Floor = 0 /\ FloorLast = 0 /\ client.meta.got = {} /\ client.mark.on = FALSE
    BY <1>1, <1>2, MetaIds, UnmarkedMark DEF Floor, FloorLast
  <1>5. Sorted(wire.down, store)
    BY <1>1, <1>3, <1>4, SortedEmpty
  <1>6. Due(store, disk) = {}
    BY <1>1, <1>3 DEF Due
  <1>7. \A i : i \notin 1..Len(wire.down)
    BY <1>1, EmptySeq
  <1>8. Flow(store, wire.down, disk)
    BY <1>1, <1>2, <1>3, <1>5, <1>6, <1>7, EmptySeq
    DEF Flow, Recorded, Replying, Restoring, Arriving
  <1>9. Taking
    BY <1>1, <1>2, <1>4, MetaIds DEF Taking
  <1> QED
    BY <1>0, <1>1, <1>3, <1>8, <1>9 DEF JourneyInv, Journey

LEMMA FlowSame ==
  ASSUME UNCHANGED <<client, screen, rebuild>>, wire'.up = wire.up, wire'.ask = wire.ask,
         Flow(store', wire'.down, disk')
  PROVE  Flow(store, wire.down, disk)'
  <1>1. Sorted(wire.down, store)'
    <2>1. Sorted(wire'.down, store')
      BY DEF Flow
    <2> QED
      BY <2>1 DEF Sorted, Floor, FloorLast, Ordered, Above, Below, Climbs
  <1>2. Recorded(store, disk)'
    BY DEF Flow, Recorded
  <1>3. Replying(wire.down, store, disk)'
    <2>1. Replying(wire'.down, store', disk')
      BY DEF Flow
    <2> QED
      BY <2>1 DEF Replying, Announced, Due, OnWire, Sound
  <1>4. Restoring(wire.down, store, disk)'
    <2>1. Restoring(wire'.down, store', disk')
      BY DEF Flow
    <2> QED
      BY <2>1 DEF Restoring, Announced, Due, OnWire, Sound
  <1>5. Arriving(wire.down, store, disk)'
    <2>1. Arriving(wire'.down, store', disk')
      BY DEF Flow
    <2>2. \A e : Coming(wire'.down, e) => Coming(wire.down, e)'
      BY DEF Coming, OnWire
    <2> QED
      BY <2>1, <2>2 DEF Arriving, Due
  <1>6. /\ store' \in Stores /\ wire'.down \in Seq(Letters)
        /\ disk' \in SUBSET (Streams \X Nat)
        /\ ~wire'.up => wire'.down = <<>> /\ rebuild'.at = "none"
    BY DEF Flow
  <1> QED
    BY <1>1, <1>2, <1>3, <1>4, <1>5, <1>6 DEF Flow

\* A handler that is over, and the run it leaves.
LEMMA ServedJourney ==
  ASSUME StreamTyped, Journey, ClientSame, NEW o, Flowing(o, disk'), Handled(o),
         run'.active => o.st.live
  PROVE  Journey'
  <1>1. /\ Flow(store', wire'.down, disk') /\ store'.id = used'.streams /\ store' = o.st
        /\ wire'.up = wire.up /\ wire'.ask = wire.ask
    BY HandledFlows
  <1>2. Flow(store, wire.down, disk)'
    BY <1>1, FlowSame DEF ClientSame
  <1> QED
    BY <1>1, <1>2 DEF Journey, Taking, ClientSame

\* While a run is under way, a window that has lost its connection is marked.
LEMMA MarkedIfDown ==
  ASSUME OneRequest, Honest, ~wire.up, run.at = "run"
  PROVE  client.mark.on
  <1>1. wire.down = <<>> /\ rebuild.at = "none" /\ \A i : i \notin 1..Len(wire.down)
    BY EmptySeq DEF OneRequest
  <1>2. Before(Statuses, client.mark, wire.down, Len(wire.down) + 1, client.mark)
    BY <1>1 DEF Before
  <1> QED
    BY <1>1, <1>2 DEF Honest, Stands


\* A step of the server, other than an answer, keeps what is due on its way.
LEMMA ServerJourney ==
  ASSUME StreamTyped, StreamTyped', OneRequest, Honest, Journey, Server, harm' = {}, harm = {}
  PROVE  Journey' \/ Answer
  <1>0. /\ Flowing(Now, disk) /\ Now.st = store /\ Now.streams = used.streams /\ Working(Now)
        /\ store.id = used.streams /\ (run.active => store.live /\ store.id # 0)
        /\ (run.held => store.id # 0) /\ used.streams \in Nat /\ store \in Stores
    BY NowFlows, NowWorks DEF Journey, StreamTyped, Uses
  <1>1. CASE StartPrompt
    <2> PICK a : a = IF run.held THEN Emitted(Now) ELSE Now
      OBVIOUS
    <2>1. /\ used.streams < MaxStreams - 1 /\ ClientSame /\ disk' = disk
          /\ wire.up \/ client.mark.on
      BY <1>1 DEF StartPrompt, ClientSame
    <2>2. \E on \in BOOLEAN : Handled(Said(Begun(a), on))
      BY <1>1, Zenon DEF StartPrompt
    <2>3. Flowing(a, disk) /\ Working(a) /\ a.streams = used.streams
      BY <1>0, <2>1, EmittedFlows, EmittedWorks
    <2>4. a.streams < MaxStreams
      BY <1>0, <2>1, <2>3, BoundsAssumption
    <2>5. PICK on \in BOOLEAN : Handled(Said(Begun(a), on))
      BY <2>2
    <2>6. Flowing(Said(Begun(a), on), disk)
      BY <2>3, <2>4, BegunFlows
    <2>7. Said(Begun(a), on).st.live
      <3>1. Working(Begun(a)) /\ Begun(a).st.live = TRUE
        BY <2>3, <2>4, BegunWorks
      <3> QED
        BY <3>1, SaidWorks
    <2> QED
      BY <2>1, <2>5, <2>6, <2>7, ServedJourney
  <1>2. CASE TurnStart
    <2>1. used.streams < MaxStreams - 1 /\ ClientSame /\ disk' = disk
      BY <1>2 DEF TurnStart, ClientSame
    <2>2. \E on \in BOOLEAN : Handled(Said(Begun(Now), on))
      BY <1>2, Zenon DEF TurnStart
    <2>3. Now.streams < MaxStreams
      BY <1>0, <2>1, BoundsAssumption
    <2>4. PICK on \in BOOLEAN : Handled(Said(Begun(Now), on))
      BY <2>2
    <2>5. Flowing(Said(Begun(Now), on), disk)
      BY <1>0, <2>3, BegunFlows
    <2>6. Said(Begun(Now), on).st.live
      BY <1>0, <2>3, BegunWorks, SaidWorks
    <2> QED
      BY <2>1, <2>4, <2>5, <2>6, ServedJourney
  <1>3. CASE Emit
    <2>1. run.at = "run" /\ run.active /\ ClientSame /\ disk' = disk /\ Handled(Emitted(Now))
      BY <1>3 DEF Emit, ClientSame
    <2>2. Flowing(Emitted(Now), disk)
      BY <1>0, <2>1, MarkedIfDown, EmittedFlows
    <2>3. Emitted(Now).st.live
      BY <1>0, <2>1, EmittedWorks
    <2> QED
      BY <2>1, <2>2, <2>3, ServedJourney
  <1>4. CASE TurnEnd
    <2> PICK a : a = Emitted(Now)
      OBVIOUS
    <2> PICK o : o = Finished(a)
      OBVIOUS
    <2>1. /\ run.at = "run" /\ run.active /\ ClientSame
          /\ Handled(IF run.held THEN Emitted(o) ELSE o)
          /\ disk' = disk \cup {<<store.id, q>> : q \in 1..store.next}
      BY <1>4 DEF TurnEnd, ClientSame
    <2>2. ~run'.active
      BY <1>4 DEF TurnEnd, StreamTyped, Runs
    <2>3. Flowing(a, disk) /\ Working(a) /\ a.st.id = store.id /\ a.st.live /\ a.st.next = store.next + 1
          /\ a.streams = used.streams
      BY <1>0, <2>1, MarkedIfDown, EmittedFlows, EmittedWorks
    <2>4. Flowing(o, disk')
      <3>1. store.next \in Nat /\ disk' \in SUBSET (Streams \X Nat)
        BY <1>0, StoreFields DEF StreamTyped
      <3>2. \A e \in disk' : e \in disk \/ (a.st.live /\ e[1] = a.st.id /\ 0 < e[2] /\ e[2] < a.st.next)
        <4> TAKE e \in disk'
        <4>1. CASE e \in disk
          BY <4>1
        <4>2. CASE e \notin disk
          <5>1. PICK q \in 1..store.next : e = <<store.id, q>>
            BY <2>1, <4>2
          <5>2. e[1] = store.id /\ e[2] = q /\ 0 < q /\ q < store.next + 1
            BY <3>1, <5>1
          <5> QED
            BY <2>3, <5>2
        <4> QED
          BY <4>1, <4>2
      <3> QED
        BY <2>1, <2>3, <3>1, <3>2, FinishedFlows
    <2>5. Working(o) /\ o.st.id = store.id /\ o.st.live = FALSE /\ o.streams = used.streams
      BY <2>3, FinishedWorks
    <2>6. Flowing(IF run.held THEN Emitted(o) ELSE o, disk')
      BY <1>0, <2>1, <2>4, <2>5, EmittedFlows
    <2> PICK c : c = IF run.held THEN Emitted(o) ELSE o
      OBVIOUS
    <2> QED
      BY <2>1, <2>2, <2>6, ServedJourney
  <1>5. CASE SdkStops
    <2>1. UNCHANGED <<store, disk, wire, client, screen, rebuild, harm, used>>
          /\ run'.active = run.active
      BY <1>5 DEF SdkStops, StreamTyped, Runs
    <2>2. Flow(store, wire.down, disk)'
      BY <2>1, FlowSame DEF Journey
    <2> QED
      BY <2>1, <2>2 DEF Journey, Taking
  <1>6. CASE EndPrompt
    <2> PICK a : a = IF store.live THEN Finished(Now) ELSE Now
      OBVIOUS
    <2>1. ClientSame /\ disk' = disk /\ ~run'.active
      BY <1>6 DEF EndPrompt, ClientSame
    <2>2. \E on \in BOOLEAN : Handled(IF run.held THEN Emitted(Said(a, on)) ELSE Said(a, on))
      BY <1>6, Zenon DEF EndPrompt
    <2>3. Flowing(a, disk) /\ Working(a) /\ ~a.st.live /\ a.st.id = store.id
          /\ a.streams = used.streams
      <3>1. disk \in SUBSET (Streams \X Nat)
        BY DEF StreamTyped
      <3>2. CASE store.live
        <4>1. Flowing(Finished(Now), disk)
          BY <1>0, <3>1, FinishedFlows
        <4> QED
          BY <1>0, <3>2, <4>1, FinishedWorks
      <3>3. CASE ~store.live
        BY <1>0, <3>3
      <3> QED
        BY <3>2, <3>3
    <2>4. PICK on \in BOOLEAN : Handled(IF run.held THEN Emitted(Said(a, on)) ELSE Said(a, on))
      BY <2>2
    <2> PICK o : o = Said(a, on)
      OBVIOUS
    <2>5. Flowing(o, disk) /\ Working(o) /\ ~o.st.live /\ o.st.id = store.id
          /\ o.streams = used.streams
      BY <2>3, SaidFlows, SaidWorks
    <2>6. Flowing(IF run.held THEN Emitted(o) ELSE o, disk)
      BY <1>0, <2>5, EmittedFlows
    <2> PICK c : c = IF run.held THEN Emitted(o) ELSE o
      OBVIOUS
    <2> QED
      BY <2>1, <2>4, <2>6, ServedJourney
  <1>7. CASE Notice
    <2> PICK o : o = Emitted(Now)
      OBVIOUS
    <2>1. /\ store.id # 0 \/ used.streams < MaxStreams
          /\ ClientSame /\ disk' = disk
          /\ wire.up \/ client.mark.on
      BY <1>7 DEF Notice, ClientSame
    <2>2. PICK c : /\ c = o \/ c = Emitted(o)
                   /\ store' = c.st
                   /\ used' = [used EXCEPT !.streams = c.streams, !.notices = @ + 1]
                   /\ wire' = IF wire.up THEN [wire EXCEPT !.down = @ \o c.out] ELSE wire
      BY <1>7 DEF Notice
    <2>11. PICK held \in BOOLEAN : run' = [run EXCEPT !.held = held]
      BY <1>7 DEF Notice, StreamTyped, Runs
    <2>3. /\ Flowing(o, disk) /\ Working(o) /\ o.st.id # 0
          /\ store.live => o.st.live
      <3>1. o.st.id # 0
        BY <1>0, <2>1, EmittedWorks, BoundsAssumption DEF Streams
      <3> QED
        BY <1>0, <2>1, <3>1, EmittedWorks, EmittedFlows
    <2>12. c = o \/ c = Emitted(o)
      BY <2>2
    <2>4. Flowing(c, disk) /\ Working(c) /\ (store.live => c.st.live)
      <3>1. Flowing(Emitted(o), disk) /\ Working(Emitted(o)) /\ (store.live => Emitted(o).st.live)
        BY <2>1, <2>3, EmittedWorks, EmittedFlows
      <3> QED
        BY <2>3, <2>12, <3>1
    <2>5. wire \in Wires /\ used \in Uses /\ run \in Runs /\ wire.up \in BOOLEAN
      BY WireFields DEF StreamTyped
    <2>6. wire'.up = wire.up /\ wire'.ask = wire.ask /\ wire'.down = Sending(c)
      <3>1. wire.down \o c.out \in Seq(Letters)
        BY <2>4, <2>5, WireFields, ConcatProperties DEF Working
      <3> PICK d : d = wire.down \o c.out
        OBVIOUS
      <3>2. CASE wire.up
        BY <2>2, <2>5, <3>1, <3>2, WireDown DEF Sending
      <3>3. CASE ~wire.up
        BY <2>2, <3>3 DEF Sending
      <3> QED
        BY <2>5, <3>2, <3>3
    <2>7. used'.streams = c.streams
      <3> PICK u : u = [used EXCEPT !.streams = c.streams]
        OBVIOUS
      <3>1. u \in Uses /\ u.streams = c.streams
        BY <2>4, <2>5 DEF Uses, Working
      <3>2. used' = [u EXCEPT !.notices = u.notices + 1]
        BY <2>2, <2>5 DEF Uses
      <3> QED
        BY <3>1, <3>2 DEF Uses
    <2>8. run'.active = run.active
      BY <2>11, <2>5 DEF Runs
    <2>9. Flow(store', wire'.down, disk') /\ store'.id = used'.streams
      BY <2>1, <2>2, <2>4, <2>6, <2>7 DEF Flowing
    <2>10. Flow(store, wire.down, disk)'
      BY <2>1, <2>6, <2>9, FlowSame DEF ClientSame
    <2> QED
      BY <1>0, <2>1, <2>2, <2>4, <2>6, <2>8, <2>9, <2>10 DEF Journey, Taking, ClientSame
  <1> QED
    BY <1>1, <1>2, <1>3, <1>4, <1>5, <1>6, <1>7 DEF Server


\* The order and the rebuild know nothing of the requests.
LEMMA PartsSame ==
  ASSUME UNCHANGED <<client, rebuild>>
  PROVE  /\ Sorted(wire'.down, store') => Sorted(wire.down, store)'
         /\ Recorded(store', disk') => Recorded(store, disk)'
         /\ Replying(wire'.down, store', disk') => Replying(wire.down, store, disk)'
         /\ Restoring(wire'.down, store', disk') => Restoring(wire.down, store, disk)'
  BY DEF Sorted, Floor, FloorLast, Restoring, Ordered, Above, Below, Climbs, Recorded,
     Replying, Announced, Due, OnWire, Sound

\* Nothing due is of a stream newer than the store's.
LEMMA DueOfStore ==
  ASSUME NEW s \in Stores, NEW k \in SUBSET (Streams \X Nat), Recorded(s, k), NEW e \in Due(s, k)
  PROVE  /\ e[1] \in Nat /\ e[2] \in Nat /\ 0 < e[2] /\ e[1] <= s.id
         /\ (e[1] = s.id => e[2] < s.next) /\ e = <<e[1], e[2]>> /\ e \in Streams \X Nat
         /\ e \in k \/ (s.live /\ e[1] = s.id)
  <1>1. e[1] \in Nat /\ e[2] \in Nat /\ e = <<e[1], e[2]>> /\ e \in Streams \X Nat
    BY DueFields, EventFields
  <1>2. s.id \in Nat /\ s.next \in Nat
    BY StoreFields
  <1> QED
    BY <1>1, <1>2 DEF Recorded, Due

\* A reply has what is asked for, or the window rebuilds from it.
LEMMA ResumedGives ==
  ASSUME StreamTyped, Recorded(store, disk), NEW r \in Requests
  PROVE  LET m == Resumed(store, r)
         IN  /\ Sound(m, store) /\ Rank(m) < store.next /\ (m.id # 0 => m.live = store.live)
             /\ \A e \in Due(store, disk) :
                  r.id # 0 /\ Newer(e, r.id, r.since) => Rebuilds(m) \/ InReply(e, m)
  <1> PICK m : m = Resumed(store, r)
    OBVIOUS
  <1>0. /\ store \in Stores /\ disk \in SUBSET (Streams \X Nat)
        /\ store.id \in Nat /\ store.next \in Nat /\ 0 < store.next /\ store.first \in Nat
        /\ 0 < store.first /\ store.live \in BOOLEAN /\ r.id \in Nat /\ r.since \in Nat
    BY StoreFields DEF StreamTyped, Stores, Requests
  <1>1. CASE store.id = 0
    <2>1. m.kind = "resume" /\ m.id = 0 /\ m.from = 1 /\ m.next = 1 /\ m.reset = FALSE
          /\ m.truncated = FALSE
      BY <1>1 DEF Resumed, NoReply
    <2>2. ~Rebuilds(m)
      BY <2>1 DEF Rebuilds
    <2>3. \A e \in Due(store, disk) : FALSE
      <3> SUFFICES ASSUME NEW e \in Due(store, disk) PROVE FALSE
        OBVIOUS
      <3>1. e[1] <= 0 /\ e[1] \in Streams
        BY <1>0, <1>1, DueOfStore, DueFields, EventFields
      <3> QED
        BY <3>1 DEF Streams
    <2> QED
      BY <1>0, <1>1, <2>1, <2>2, <2>3 DEF Sound, Rank, Recorded
  <1>2. CASE store.id # 0
    <2> PICK other \in BOOLEAN : other = (r.id # 0 /\ r.id # store.id)
      OBVIOUS
    <2> PICK short \in BOOLEAN : short = (~other /\ r.since < store.first - 1)
      OBVIOUS
    <2>1. /\ m.kind = "resume" /\ m.id = store.id /\ m.next = store.next /\ m.live = store.live
          /\ m.from = (IF other \/ short THEN store.first ELSE r.since + 1)
          /\ m.reset = other /\ m.truncated = short
      BY <1>2 DEF Resumed
    <2>2. Sound(m, store) /\ Rank(m) < store.next
      BY <1>0, <1>2, <2>1 DEF Sound, Rank
    <2>3. ASSUME NEW e \in Due(store, disk), r.id # 0, Newer(e, r.id, r.since)
          PROVE  Rebuilds(m) \/ InReply(e, m)
      <3>1. CASE other \/ short
        BY <2>1, <3>1 DEF Rebuilds
      <3>2. CASE ~other /\ ~short
        <4>1. r.id = store.id /\ m.from = r.since + 1
          BY <2>1, <2>3, <3>2
        <4>2. e[1] \in Nat /\ e[2] \in Nat /\ e[1] <= store.id /\ (e[1] = store.id => e[2] < store.next)
          BY <1>0, DueOfStore
        <4>3. e[1] = store.id /\ r.since < e[2]
          BY <1>0, <2>3, <4>1, <4>2 DEF Newer
        <4> QED
          BY <1>0, <2>1, <4>1, <4>2, <4>3 DEF InReply
      <3> QED
        BY <3>1, <3>2
    <2> QED
      BY <2>1, <2>2, <2>3
  <1> QED
    BY <1>1, <1>2

LEMMA AnswerJourney ==
  ASSUME StreamTyped, OneRequest, Journey, Answer
  PROVE  Journey'
  <1> PICK r : r = Head(wire.ask)
    OBVIOUS
  <1> PICK m : m = Resumed(store, r)
    OBVIOUS
  <1> PICK d : d = wire.down
    OBVIOUS
  <1> PICK f : f = Append(d, m)
    OBVIOUS
  <1> PICK n : n = Len(d)
    OBVIOUS
  <1>0. UNCHANGED <<run, store, disk, client, screen, rebuild, harm, used>>
    BY DEF Answer
  <1>1. /\ wire.up /\ wire.ask # <<>> /\ wire.ask \in Seq(Requests) /\ Len(wire.ask) = 1
        /\ ~Resuming(d) /\ rebuild.at = "none" /\ wire \in Wires /\ d \in Seq(Letters)
    BY WireFields DEF Answer, OneRequest, StreamTyped
  <1>2. r \in Requests /\ r.id # 0 /\ Tail(wire.ask) = <<>>
    BY <1>1, TailOfOne, HeadTailProperties DEF Journey, Taking
  <1>3. m \in Letters /\ m.kind = "resume" /\ m.id = store.id
    BY <1>2, ResumedTold
  <1>4. wire'.down = f /\ wire'.ask = <<>> /\ wire'.up = wire.up
    <2>1. f \in Seq(Letters)
      BY <1>1, <1>3, Appended
    <2> PICK a : a = Tail(wire.ask)
      OBVIOUS
    <2>2. wire' = [wire EXCEPT !.ask = a, !.down = f]
      BY DEF Answer
    <2> QED
      BY <1>1, <1>2, <2>1, <2>2 DEF Wires
  <1>5. /\ store \in Stores /\ disk \in SUBSET (Streams \X Nat) /\ Recorded(store, disk)
        /\ Sorted(d, store) /\ Replying(d, store, disk) /\ Arriving(d, store, disk)
    BY DEF Journey, Flow
  <1>6. /\ Sound(m, store) /\ Rank(m) < store.next
        /\ \A e \in Due(store, disk) : Newer(e, r.id, r.since) => Rebuilds(m) \/ InReply(e, m)
    BY <1>2, <1>5, ResumedGives
  <1>7. /\ f \in Seq(Letters) /\ n \in Nat /\ f[n + 1] = m /\ n + 1 \in 1..Len(f) /\ Len(f) = n + 1
        /\ \A i \in 1..n : f[i] = d[i]
        /\ \A i \in 1..Len(f) : i \in 1..n \/ i = n + 1
    BY <1>1, <1>3, Appended
  <1>8. Sorted(f, store)
    <2>1. store.id \in Nat /\ store.next \in Nat
      BY <1>5, StoreFields
    <2>2. /\ m.kind # "event" /\ Rank(m) < store.next /\ store.id <= m.id /\ m.id <= store.id
          /\ store.id <= store.id /\ store.next <= store.next /\ m \in Letters
      BY <1>3, <1>6, <2>1
    <2>3. d \in Seq(Letters) /\ store \in Stores /\ Sorted(d, store)
      BY <1>1, <1>5
    <2>4. Sorted(Append(d, m), store)
      BY <2>2, <2>3, SortedAppend
    <2> QED
      BY <2>4
  <1>9. Replying(f, store, disk)
    <2> SUFFICES ASSUME NEW i \in 1..Len(f), f[i].kind = "resume"
                 PROVE  /\ Sound(f[i], store)
                        /\ Announced(f, i, f[i].id, store, disk)
      BY DEF Replying
    <2>1. i = n + 1 /\ f[i] = m
      BY <1>1, <1>7 DEF Resuming
    <2>2. \A e \in Due(store, disk) : ~(store.id < e[1]) /\ ~(store.id < store.id)
      BY <1>5, DueOfStore, StoreFields
    <2> QED
      BY <1>3, <1>6, <2>1, <2>2, <1>5, StoreFields DEF Announced
  <1>10. Restoring(f, store, disk)
    BY <1>1 DEF Restoring
  <1>11. Arriving(wire.down, store, disk)'
    <2> SUFFICES ASSUME NEW e \in Due(store, disk), e \notin screen.shown
                 PROVE  Coming(wire.down, e)'
      BY <1>0 DEF Arriving, Due
    <2>1. Coming(d, e)
      BY <1>1, <1>5 DEF Arriving
    <2>2. CASE OnWire(d, e)
      <3>1. OnWire(f, e)
        BY <1>1, <1>3, <2>2, LongerKeeps
      <3> QED
        BY <1>4, <3>1 DEF Coming, OnWire
    <2>3. CASE Newer(e, r.id, r.since)
      <3>1. Rebuilds(m) \/ InReply(e, m)
        BY <1>6, <2>3
      <3> QED
        BY <1>3, <1>4, <1>7, <3>1 DEF Coming
    <2>4. CASE \E i \in 1..Len(d) : d[i].kind = "resume"
      BY <1>1, <2>4 DEF Resuming
    <2> QED
      BY <1>1, <2>1, <2>2, <2>3, <2>4 DEF Coming
  <1>12. Flow(store, wire.down, disk)'
    <2>1. Sorted(wire.down, store)' /\ Recorded(store, disk)' /\ Replying(wire.down, store, disk)'
          /\ Restoring(wire.down, store, disk)'
      BY <1>0, <1>4, <1>5, <1>8, <1>9, <1>10, PartsSame
    <2> QED
      BY <1>0, <1>1, <1>4, <1>5, <1>7, <1>11, <2>1 DEF Flow
  <1> QED
    BY <1>0, <1>4, <1>12 DEF Journey, Taking

\* The window asks for what comes after the last it has, if it is marked.
LEMMA ReconnectAsks ==
  ASSUME StreamTyped, Reconnect
  PROVE  /\ ~wire.up /\ wire'.up = TRUE /\ wire'.down = wire.down
         /\ \E r \in Requests : /\ r.id = client.meta.id /\ r.since = client.meta.last
                                /\ client.mark.on => wire'.ask # <<>> /\ Head(wire'.ask) = r
         /\ ~client.mark.on => wire'.ask = <<>>
  <1> PICK r : r = Asked(client.meta)
    OBVIOUS
  <1> PICK a : a = <<r>>
    OBVIOUS
  <1>1. r \in Requests /\ r.id = client.meta.id /\ r.since = client.meta.last
    BY DEF StreamTyped, Clients, Metas, Asked, Requests
  <1>2. a # <<>> /\ Head(a) = r
    <2>1. Len(a) = 1 /\ Len(<<>>) = 0 /\ Head(a) = r
      OBVIOUS
    <2> QED
      BY <2>1
  <1>3. wire'.ask = IF client.mark.on THEN a ELSE <<>>
    <2> PICK q : q = IF client.mark.on THEN a ELSE <<>>
      OBVIOUS
    <2> PICK v : v = [wire EXCEPT !.up = TRUE]
      OBVIOUS
    <2> PICK w : w = [v EXCEPT !.stale = FALSE]
      OBVIOUS
    <2>1. wire' = [w EXCEPT !.ask = q]
      BY DEF Reconnect
    <2>2. wire \in Wires
      BY DEF StreamTyped
    <2>3. w \in Wires
      BY <2>2 DEF Wires
    <2>4. q \in Seq(Requests)
      BY <1>1, EmptySeq
    <2> QED
      BY <2>1, <2>3, <2>4 DEF Wires
  <1> QED
    BY <1>1, <1>2, <1>3, ReconnectDoes

LEMMA ReconnectJourney ==
  ASSUME StreamTyped, OneRequest, Journey, Reconnect
  PROVE  Journey'
  <1>0. UNCHANGED <<run, store, disk, client, screen, rebuild, harm, used>>
    BY DEF Reconnect
  <1>1. /\ ~wire.up /\ wire'.up = TRUE /\ wire'.down = wire.down
        /\ ~client.mark.on => wire'.ask = <<>>
    BY ReconnectAsks
  <1>2. PICK r \in Requests : /\ r.id = client.meta.id /\ r.since = client.meta.last
                              /\ client.mark.on => wire'.ask # <<>> /\ Head(wire'.ask) = r
    BY ReconnectAsks
  <1>3. /\ wire.down = <<>> /\ wire.ask = <<>> /\ rebuild.at = "none"
        /\ \A i : i \notin 1..Len(wire.down)
    BY <1>1, EmptySeq DEF OneRequest
  <1>4. Sorted(wire.down, store)' /\ Recorded(store, disk)' /\ Replying(wire.down, store, disk)'
        /\ Restoring(wire.down, store, disk)'
    BY <1>0, <1>1, PartsSame DEF Journey, Flow
  <1>5. Arriving(wire.down, store, disk)'
    <2> SUFFICES ASSUME NEW e \in Due(store, disk), e \notin screen.shown
                 PROVE  Coming(wire.down, e)'
      BY <1>0 DEF Arriving, Due
    <2>1. client.mark.on /\ Newer(e, client.meta.id, client.meta.last)
      BY <1>3 DEF Journey, Flow, Arriving, Coming, OnWire
    <2> QED
      BY <1>2, <2>1 DEF Coming, Newer
  <1>6. Flow(store, wire.down, disk)'
    BY <1>0, <1>1, <1>4, <1>5 DEF Journey, Flow
  <1>7. Taking'
    BY <1>0, <1>1, <1>2, <1>3 DEF Journey, Taking
  <1> QED
    BY <1>0, <1>6, <1>7 DEF Journey

-----------------------------------------------------------------------------
(* A fault that took nothing but what will be asked for.                   *)

\* What is due and not shown, once the connection is gone.
LEMMA NothingLost ==
  ASSUME StreamTyped, OneRequest, Journey, wire.up => Lost = {}
  PROVE  /\ rebuild.at = "none"
         /\ \A e \in Due(store, disk) :
              e \in screen.shown \/ (client.mark.on /\ Newer(e, client.meta.id, client.meta.last))
  <1>1. rebuild.at = "none"
    BY FloorNat DEF Lost, OneRequest
  <1>2. Floor = client.meta.id /\ FloorLast = client.meta.last
    BY <1>1 DEF Floor, FloorLast
  <1>3. /\ store \in Stores /\ disk \in SUBSET (Streams \X Nat) /\ wire.down \in Seq(Letters)
        /\ DOMAIN wire.down = 1..Len(wire.down) /\ client.meta.id \in Nat
    BY FloorNat, LenProperties DEF StreamTyped
  <1> SUFFICES ASSUME NEW e \in Due(store, disk), e \notin screen.shown
               PROVE  client.mark.on /\ Newer(e, client.meta.id, client.meta.last)
    BY <1>1
  <1>4. Coming(wire.down, e)
    BY <1>1 DEF Journey, Flow, Arriving
  <1>5. CASE ~wire.up
    <2>1. wire.ask = <<>> /\ wire.down = <<>> /\ \A i : i \notin 1..Len(wire.down)
      BY <1>5, EmptySeq DEF OneRequest
    <2> QED
      BY <1>4, <2>1 DEF Coming, OnWire
  <1>6. CASE wire.up
    <2>1. ~Answering
      BY <1>6 DEF Lost
    <2>2. wire.ask = <<>> /\ \A i \in 1..Len(wire.down) : wire.down[i].kind # "resume"
      BY <1>3, <2>1 DEF Answering
    <2>3. OnWire(wire.down, e)
      BY <1>4, <1>6, <2>2 DEF Coming
    <2>4. PICK i \in 1..Len(wire.down) : /\ wire.down[i].kind = "event"
                                         /\ wire.down[i].id = e[1] /\ wire.down[i].seq = e[2]
      BY <2>3 DEF OnWire
    <2>5. client.mark.on
      BY <1>3, <1>6, <2>4 DEF Lost
    <2>6. e[1] \in Nat /\ e[1] # 0
      <3>1. wire.down[i] \in Letters
        BY <1>3, ElementOfSeq
      <3> QED
        BY <2>4, <3>1, LetterFields
    <2>7. client.meta.id <= e[1] /\ (e[1] = client.meta.id => client.meta.last < e[2])
      BY <1>2, <2>4, <2>6 DEF Journey, Flow, Sorted, Ordered, Above
    <2> QED
      BY <1>3, <2>5, <2>6, <2>7 DEF Newer
  <1> QED
    BY <1>5, <1>6

\* A connection that is down, and a store that is as it was or of a session without one.
LEMMA DownJourney ==
  ASSUME StreamTyped, OneRequest, Journey, wire.up => Lost = {}, Down,
         UNCHANGED <<disk, client, screen, rebuild>>, used'.streams = used.streams,
         store' = store \/ (store' = NoStore /\ store.id = 0),
         run'.active => run.active /\ store' = store
  PROVE  Journey'
  <1>1. rebuild.at = "none" /\ Floor = client.meta.id /\ FloorLast = client.meta.last
    BY NothingLost DEF Floor, FloorLast
  <1>2. wire'.down = <<>> /\ wire'.ask = <<>> /\ ~wire'.up /\ \A i : i \notin 1..Len(wire'.down)
    BY EmptySeq DEF Down
  <1>3. /\ store \in Stores /\ disk \in SUBSET (Streams \X Nat) /\ store.id = used.streams
        /\ Floor <= store.id /\ (Floor = store.id => FloorLast < store.next) /\ Recorded(store, disk)
        /\ Taking
    BY DEF StreamTyped, Journey, Flow, Sorted
  <1>4. /\ store' \in Stores /\ store'.id = store.id /\ Recorded(store', disk)
        /\ Floor <= store'.id /\ (Floor = store'.id => FloorLast < store'.next)
        /\ Due(store', disk) \subseteq Due(store, disk)
    <2>1. CASE store' = store
      BY <1>3, <2>1
    <2>2. CASE store' = NoStore /\ store.id = 0
      <3>1. store' \in Stores /\ store'.id = 0 /\ store'.live = FALSE /\ store'.next = 1
        BY <2>2, NoStoreTyped DEF NoStore
      <3>2. FloorLast = 0 /\ Floor = 0
        BY <1>1, <1>3, <2>2, FloorNat DEF Taking
      <3>3. disk = {}
        <4> SUFFICES ASSUME NEW e \in disk PROVE FALSE
          OBVIOUS
        <4>1. e[1] \in Streams /\ e[1] <= 0
          BY <1>3, <2>2, EventFields DEF Recorded
        <4> QED
          BY <4>1 DEF Streams
      <3>4. Due(store', disk) = {}
        BY <3>1, <3>3 DEF Due
      <3> QED
        BY <1>3, <2>2, <3>1, <3>2, <3>3, <3>4 DEF Recorded
    <2> QED
      BY <2>1, <2>2
  <1>5. Sorted(wire.down, store)' /\ Recorded(store, disk)' /\ Replying(wire.down, store, disk)'
        /\ Restoring(wire.down, store, disk)'
    <2>1. Sorted(wire'.down, store')
      BY <1>2, <1>4, SortedEmpty
    <2>2. Replying(wire'.down, store', disk') /\ Restoring(wire'.down, store', disk')
      BY <1>1, <1>2 DEF Replying, Restoring
    <2> QED
      BY <1>4, <2>1, <2>2, PartsSame
  <1>6. Arriving(wire.down, store, disk)'
    <2> SUFFICES ASSUME NEW e \in Due(store', disk), e \notin screen.shown
                 PROVE  Coming(wire.down, e)'
      BY DEF Arriving, Due
    <2>1. client.mark.on /\ Newer(e, client.meta.id, client.meta.last)
      BY <1>4, NothingLost
    <2> QED
      BY <1>2, <2>1 DEF Coming, Newer
  <1>7. Flow(store, wire.down, disk)'
    BY <1>1, <1>2, <1>3, <1>4, <1>5, <1>6, EmptySeq DEF Flow
  <1>8. Taking'
    BY <1>1, <1>2, <1>3 DEF Taking
  <1> QED
    BY <1>3, <1>4, <1>7, <1>8 DEF Journey

LEMMA FaultJourney ==
  ASSUME StreamTyped, OneRequest, Journey, Fault, harm' = {}
  PROVE  Journey'
  <1>1. CASE Drop
    <2>1. Down /\ harm' = harm \cup Lost /\ used'.streams = used.streams
          /\ UNCHANGED <<run, store, disk, client, screen, rebuild>>
      BY <1>1, DropDoes DEF Drop
    <2>2. Lost = {}
      BY <2>1
    <2> QED
      BY <2>1, <2>2, DownJourney
  <1>2. CASE ServerNotices
    <2>1. /\ wire'.up = wire.up /\ wire'.ask = wire.ask /\ wire'.down = wire.down
          /\ UNCHANGED <<disk, client, screen, rebuild, used>> /\ ~wire.up /\ wire' \in Wires
          /\ \/ UNCHANGED <<run, store, harm>>
             \/ ~wire.up /\ RunForgot /\ store' = NoStore /\ harm' = harm \cup Forgotten
      BY <1>2, ServerNoticesDoes DEF ServerNotices
    <2>2. Down
      BY <2>1, WireFields DEF Down, OneRequest
    <2>3. CASE UNCHANGED <<run, store, harm>>
      BY <2>1, <2>2, <2>3, DownJourney
    <2>4. CASE RunForgot /\ store' = NoStore /\ harm' = harm \cup Forgotten
      <3>1. store.id = 0 /\ run'.active = FALSE
        BY <2>4 DEF Forgotten, RunForgot
      <3> QED
        BY <2>1, <2>2, <2>4, <3>1, DownJourney
    <2> QED
      BY <2>1, <2>3, <2>4
  <1>3. CASE Evict
    BY <1>3, EvictDoes DEF Forgotten
  <1>4. CASE Restart
    <2>1. /\ Down /\ run'.active = FALSE /\ store' = NoStore /\ used'.streams = used.streams
          /\ UNCHANGED <<disk, client, screen, rebuild>>
          /\ harm' = harm \cup Forgotten \cup (IF wire.up THEN Lost ELSE {})
      BY <1>4, RestartDoes DEF Restart
    <2>2. store.id = 0 /\ (wire.up => Lost = {})
      BY <2>1 DEF Forgotten
    <2> QED
      BY <2>1, <2>2, DownJourney
  <1> QED
    BY <1>1, <1>2, <1>3, <1>4 DEF Fault

-----------------------------------------------------------------------------
(* What is left on the wire when the message at its front is taken.        *)

\* The order, for a window that has the events of stream id up to last.
Placed(d, s, id, last) ==
  /\ Ordered(d, id, s.id) /\ id <= s.id /\ Above(d, id, last) /\ (id = s.id => last < s.next)
  /\ Below(d, s) /\ Climbs(d)

LEMMA SortedPlaced ==
  ASSUME NEW d, NEW s
  PROVE  Sorted(d, s) <=> Placed(d, s, Floor, FloorLast)
  BY DEF Sorted, Placed

LEMMA SortedNext ==
  Sorted(wire.down, store)' <=> Placed(wire'.down, store', Floor', FloorLast')
  BY DEF Sorted, Placed, Ordered, Above, Below, Climbs, Floor, FloorLast

LEMMA TailIs ==
  ASSUME NEW d \in Seq(Letters), d # <<>>
  PROVE  LET t == Tail(d)
             n == Len(t)
         IN  /\ t \in Seq(Letters) /\ n \in Nat /\ Len(d) = n + 1
             /\ Head(d) = d[1] /\ Head(d) \in Letters /\ 1 \in 1..Len(d)
             /\ \A i \in 1..n : t[i] = d[i + 1] /\ i + 1 \in 1..Len(d) /\ 1 < i + 1
             /\ \A i \in 1..n : \A j \in 1..n : i < j => i + 1 < j + 1
             /\ \A i \in 1..Len(d) : i = 1 \/ (i - 1 \in 1..n /\ t[i - 1] = d[i])
             /\ \A i \in 1..Len(d) : d[i] \in Letters
  <1> PICK t : t = Tail(d)
    OBVIOUS
  <1> PICK n : n = Len(t)
    OBVIOUS
  <1>1. t \in Seq(Letters) /\ Len(d) \in Nat /\ n \in Nat /\ n = Len(d) - 1
        /\ \A i \in 1..n : t[i] = d[i + 1]
    BY HeadTailProperties, LenProperties
  <1>2. Head(d) = d[1] /\ Head(d) \in Letters
    BY HeadTailProperties
  <1>3. \A i \in 1..Len(d) : d[i] \in Letters
    BY ElementOfSeq
  <1>4. \A i \in 1..Len(d) : i = 1 \/ (i - 1 \in 1..n /\ t[i - 1] = d[i])
    <2> SUFFICES ASSUME NEW i \in 1..Len(d), i # 1 PROVE i - 1 \in 1..n /\ t[i - 1] = d[i]
      OBVIOUS
    <2>1. i - 1 \in 1..n /\ (i - 1) + 1 = i
      BY <1>1
    <2> QED
      BY <1>1, <2>1
  <1> QED
    BY <1>1, <1>2, <1>3, <1>4

LEMMA TailPlaced ==
  ASSUME NEW d \in Seq(Letters), d # <<>>, Once(d), NEW s \in Stores, NEW id \in Nat, NEW last,
         Placed(d, s, id, last)
  PROVE  LET m == Head(d)
             t == Tail(d)
         IN  /\ Placed(t, s, id, last)
             /\ m.id # 0 => Placed(t, s, m.id, 0) /\ id <= m.id /\ m.id <= s.id
             /\ m.id # 0 /\ m.kind # "status" => Placed(t, s, m.id, Rank(m))
             /\ m.kind = "event" => 0 < m.seq /\ (m.id = id => last < m.seq)
  <1> PICK m : m = Head(d)
    OBVIOUS
  <1> PICK t : t = Tail(d)
    OBVIOUS
  <1> PICK n : n = Len(t)
    OBVIOUS
  <1>0. /\ t \in Seq(Letters) /\ n \in Nat /\ Len(d) = n + 1 /\ m = d[1] /\ 1 \in 1..Len(d)
        /\ \A i \in 1..n : t[i] = d[i + 1] /\ i + 1 \in 1..Len(d) /\ 1 < i + 1
        /\ \A i \in 1..n : \A j \in 1..n : i < j => i + 1 < j + 1
    BY TailIs
  <1>1. s.id \in Nat /\ s.next \in Nat /\ 0 < s.next /\ m.id \in Nat
    BY StoreFields, LetterFields, TailIs
  <1>2. /\ Ordered(d, id, s.id) /\ id <= s.id /\ Above(d, id, last)
        /\ (id = s.id => last < s.next) /\ Below(d, s) /\ Climbs(d)
    BY DEF Placed
  <1>3. /\ Ordered(t, id, s.id)
        /\ m.id # 0 => id <= m.id /\ m.id <= s.id /\ Ordered(t, m.id, s.id)
    BY <1>1, <1>2, TailOrder
  <1>4. Above(t, id, last) /\ Below(t, s)
    BY <1>0, <1>2 DEF Above, Below
  <1>5. Climbs(t)
    <2>1. \A i \in 1..n : t[i].kind = "event" => 0 < t[i].seq
      BY <1>0, <1>2 DEF Climbs
    <2>2. ASSUME NEW i \in 1..n, NEW j \in 1..n, i < j, t[i].kind # "status",
                 t[j].kind = "event", t[i].id = t[j].id
          PROVE  Rank(t[i]) < t[j].seq
      BY <1>0, <1>2, <2>2 DEF Climbs
    <2> QED
      BY <2>1, <2>2 DEF Climbs
  <1>6. \A x : Above(t, x, 0)
    BY <1>5 DEF Climbs, Above
  <1>7. m.kind # "status" => Above(t, m.id, Rank(m)) /\ (m.id = s.id => Rank(m) < s.next)
    BY <1>0, <1>2 DEF Climbs, Above, Below
  <1>8. m.kind = "event" => 0 < m.seq /\ (m.id = id => last < m.seq)
    BY <1>0, <1>2 DEF Climbs, Above
  <1> QED
    BY <1>1, <1>2, <1>3, <1>4, <1>5, <1>6, <1>7, <1>8 DEF Placed

\* A reply still to come, and the rebuild, are told of newer streams as before.
LEMMA TailAnnounced ==
  ASSUME NEW d \in Seq(Letters), d # <<>>, NEW s \in Stores, NEW k \in SUBSET (Streams \X Nat),
         NEW id \in Nat
  PROVE  LET m == Head(d)
             t == Tail(d)
         IN  /\ \A i \in 0..Len(t) :
                  Announced(d, i + 1, id, s, k) /\ m.id <= id => Announced(t, i, id, s, k)
             /\ Announced(d, 0, id, s, k) /\ m.kind # "status" /\ m.id <= s.id =>
                  Announced(t, 0, id, s, k)
  <1> PICK m : m = Head(d)
    OBVIOUS
  <1> PICK t : t = Tail(d)
    OBVIOUS
  <1> PICK n : n = Len(t)
    OBVIOUS
  <1>0. /\ t \in Seq(Letters) /\ n \in Nat /\ Len(d) = n + 1 /\ m = d[1] /\ 1 \in 1..Len(d)
        /\ \A i \in 1..n : t[i] = d[i + 1] /\ i + 1 \in 1..Len(d) /\ 1 < i + 1
        /\ \A i \in 1..Len(d) : i = 1 \/ (i - 1 \in 1..n /\ t[i - 1] = d[i])
        /\ s.id \in Nat /\ m.id \in Nat
    BY TailIs, StoreFields, LetterFields
  <1>1. ASSUME m.id <= id, \A e \in Due(s, k) : id < e[1] => OnWire(d, e)
        PROVE  \A e \in Due(s, k) : id < e[1] => OnWire(t, e)
    <2> SUFFICES ASSUME NEW e \in Due(s, k), id < e[1] PROVE OnWire(t, e)
      OBVIOUS
    <2>1. PICK i \in 1..Len(d) : d[i].kind = "event" /\ d[i].id = e[1] /\ d[i].seq = e[2]
      BY <1>1 DEF OnWire
    <2>2. i # 1
      BY <1>0, <1>1, <2>1
    <2> QED
      <3>1. i - 1 \in 1..n /\ t[i - 1] = d[i]
        BY <1>0, <2>1, <2>2
      <3>2. n = Len(t)
        OBVIOUS
      <3> QED
        BY <2>1, <3>1, <3>2 DEF OnWire
  <1> DEFINE Leads(i, p) == /\ p # 1 /\ i < p - 1 /\ d[p].kind = "status"
                            /\ \A j \in 1..Len(d) : i + 1 < j /\ j < p => d[j].id <= id
  <1> DEFINE Led(i) == \E q \in 1..n : /\ i < q /\ t[q].kind = "status"
                                       /\ \A j \in 1..n : i < j /\ j < q => t[j].id <= id
  <1>2. ASSUME NEW i \in Nat, NEW p \in 1..Len(d), Leads(i, p)
        PROVE  Led(i)
    <2> PICK q : q = p - 1
      OBVIOUS
    <2>1. q \in 1..n /\ i < q /\ t[q].kind = "status"
      BY <1>0, <1>2
    <2>2. ASSUME NEW j \in 1..n, i < j, j < q PROVE t[j].id <= id
      <3>1. i + 1 < j + 1 /\ j + 1 < p
        BY <1>0, <1>2, <2>2
      <3> QED
        BY <1>0, <1>2, <3>1
    <2> QED
      BY <2>1, <2>2
  <1>3. ASSUME NEW i \in 0..n, Announced(d, i + 1, id, s, k), m.id <= id
        PROVE  Announced(t, i, id, s, k)
    <2>1. \A e \in Due(s, k) : id < e[1] => OnWire(t, e)
      BY <1>1, <1>3 DEF Announced
    <2>2. ASSUME id < s.id
          PROVE  Led(i)
      <3>1. PICK p \in 1..Len(d) : /\ i + 1 < p /\ d[p].kind = "status"
                                   /\ \A j \in 1..Len(d) : i + 1 < j /\ j < p => d[j].id <= id
        BY <1>3, <2>2 DEF Announced
      <3>2. i \in Nat /\ Leads(i, p)
        BY <1>0, <3>1
      <3> HIDE DEF Leads, Led
      <3> QED
        BY <1>2, <3>1, <3>2
    <2> QED
      BY <2>1, <2>2 DEF Announced
  <1>4. ASSUME Announced(d, 0, id, s, k), m.kind # "status", m.id <= s.id
        PROVE  Announced(t, 0, id, s, k)
    <2>1. CASE s.id <= id
      <3>1. m.id <= id
        BY <1>0, <1>4, <2>1
      <3> QED
        BY <1>0, <1>1, <1>4, <2>1, <3>1 DEF Announced
    <2>2. CASE id < s.id
      <3>1. PICK p \in 1..Len(d) : /\ d[p].kind = "status"
                                   /\ \A j \in 1..Len(d) : 0 < j /\ j < p => d[j].id <= id
        BY <1>4, <2>2 DEF Announced
      <3>2. p # 1
        BY <1>0, <1>4, <3>1
      <3>3. m.id <= id /\ 0 < p - 1
        BY <1>0, <3>1, <3>2
      <3>4. \A j \in 1..Len(d) : 0 + 1 < j /\ j < p => d[j].id <= id
        BY <3>1
      <3>5. Led(0)
        <4>1. Leads(0, p) /\ 0 \in Nat
          BY <3>1, <3>2, <3>3, <3>4
        <4> HIDE DEF Leads, Led
        <4> QED
          BY <1>2, <3>1, <4>1
      <3> QED
        BY <1>1, <1>4, <3>3, <3>5 DEF Announced
    <2> QED
      BY <1>0, <2>1, <2>2
  <1> QED
    BY <1>3, <1>4

\* What was coming still comes, or came with the message that is taken.
LEMMA ComingTaken ==
  ASSUME TookOff, NEW e, Coming(wire.down, e)
  PROVE  LET m == Head(wire.down)
         IN  \/ Coming(wire.down, e)'
             \/ m.kind = "event" /\ m.id = e[1] /\ m.seq = e[2]
             \/ m.kind = "resume" /\ (Rebuilds(m) \/ InReply(e, m))
  <1> PICK d : d = wire.down
    OBVIOUS
  <1> PICK t : t = Tail(d)
    OBVIOUS
  <1>0. /\ d \in Seq(Letters) /\ d # <<>> /\ wire.up /\ wire'.up /\ wire'.ask = wire.ask
        /\ wire'.down = t
    BY DEF TookOff
  <1>1. /\ Head(d) = d[1]
        /\ \A i \in 1..Len(d) : i = 1 \/ (i - 1 \in 1..Len(t) /\ t[i - 1] = d[i])
    BY <1>0, TailIs
  <1>2. CASE OnWire(d, e)
    <2>1. OnWire(t, e) => Coming(wire.down, e)'
      <3> SUFFICES ASSUME OnWire(t, e) PROVE Coming(wire.down, e)'
        OBVIOUS
      <3>1. OnWire(wire.down, e)'
        BY <1>0 DEF OnWire
      <3> QED
        BY <3>1 DEF Coming
    <2>2. PICK i \in 1..Len(d) : d[i].kind = "event" /\ d[i].id = e[1] /\ d[i].seq = e[2]
      BY <1>2 DEF OnWire
    <2>3. i # 1 => OnWire(t, e)
      BY <1>1, <2>2 DEF OnWire
    <2> QED
      BY <1>1, <2>1, <2>2, <2>3
  <1>3. CASE wire.ask # <<>> /\ Newer(e, Head(wire.ask).id, Head(wire.ask).since)
    BY <1>0, <1>3 DEF Coming, Newer
  <1>4. CASE \E i \in 1..Len(d) : d[i].kind = "resume" /\ (Rebuilds(d[i]) \/ InReply(e, d[i]))
    <2>1. PICK i \in 1..Len(d) : d[i].kind = "resume" /\ (Rebuilds(d[i]) \/ InReply(e, d[i]))
      BY <1>4
    <2>2. CASE i = 1
      BY <1>1, <2>1, <2>2
    <2>3. CASE i # 1
      <3>1. i - 1 \in 1..Len(t) /\ t[i - 1] = d[i]
        BY <1>1, <2>3
      <3>2. \E j \in 1..Len(t) : t[j].kind = "resume" /\ (Rebuilds(t[j]) \/ InReply(e, t[j]))
        BY <2>1, <3>1
      <3> QED
        BY <1>0, <3>2 DEF Coming, Rebuilds, InReply
    <2> QED
      BY <2>2, <2>3
  <1> QED
    BY <1>0, <1>2, <1>3, <1>4 DEF Coming

LEMMA ReplyingTaken ==
  ASSUME StreamTyped, TookOff, UNCHANGED <<store, disk>>, Sorted(wire.down, store),
         Replying(wire.down, store, disk)
  PROVE  Replying(wire.down, store, disk)'
  <1> PICK d : d = wire.down
    OBVIOUS
  <1> PICK t : t = Tail(d)
    OBVIOUS
  <1>0. d \in Seq(Letters) /\ d # <<>> /\ wire'.down = t /\ disk \in SUBSET (Streams \X Nat)
        /\ store \in Stores
    BY DEF TookOff, StreamTyped
  <1>1. Replying(t, store, disk)
    <2> SUFFICES ASSUME NEW i \in 1..Len(t), t[i].kind = "resume"
                 PROVE  /\ Sound(t[i], store)
                        /\ Rebuilds(t[i]) /\ ~t[i].live => Announced(t, i, t[i].id, store, disk)
      BY DEF Replying
    <2>1. /\ t[i] = d[i + 1] /\ i + 1 \in 1..Len(d) /\ 1 < i + 1 /\ Head(d) = d[1]
          /\ 1 \in 1..Len(d) /\ d[1] \in Letters /\ d[i + 1] \in Letters
          /\ i \in 0..Len(t)
      BY <1>0, TailIs
    <2>2. /\ Sound(t[i], store)
          /\ Rebuilds(t[i]) /\ ~t[i].live => Announced(d, i + 1, t[i].id, store, disk)
      BY <2>1 DEF Replying
    <2>3. ASSUME Rebuilds(t[i]), ~t[i].live
          PROVE  Announced(t, i, t[i].id, store, disk)
      <3>1. t[i].id # 0 /\ t[i].id \in Nat /\ d[1].id \in Nat
        BY <2>1, <2>2, <2>3, LetterFields DEF Sound
      <3>2. Head(d).id <= t[i].id
        BY <2>1, <3>1 DEF Sorted, Ordered
      <3> QED
        BY <1>0, <2>1, <2>2, <2>3, <3>1, <3>2, TailAnnounced
    <2> QED
      BY <2>2, <2>3
  <1>2. Replying(wire.down, store, disk)' <=> Replying(wire'.down, store', disk')
    BY DEF Replying, Sound, Announced, Due, OnWire
  <1> QED
    BY <1>0, <1>1, <1>2

-----------------------------------------------------------------------------
(* The client takes what has come.                                         *)

\* A meta that turns to another stream starts it from zero.
LEMMA TurnedTakes ==
  ASSUME NEW meta \in Metas, NEW id \in 0..MaxStreams,
         meta.id = 0 => meta.last = 0 /\ meta.got = {}
  PROVE  LET t == Turned(meta, id)
         IN  /\ t \in Metas /\ t.id = (IF id = 0 THEN meta.id ELSE id)
             /\ t = meta \/ (id # 0 /\ t.last = 0 /\ t.got = {})
             /\ t.got # {} => t = meta
  <1> PICK t : t = Turned(meta, id)
    OBVIOUS
  <1>1. t \in Metas /\ t.id = (IF id = 0 THEN meta.id ELSE id) /\ ((id = 0 \/ meta.id = id) => t = meta)
    BY TurnedMeta
  <1>2. CASE ~(id = 0 \/ meta.id = id) /\ meta.id = 0
    <2>1. t = [meta EXCEPT !.id = id]
      BY <1>2 DEF Turned
    <2>2. t.last = 0 /\ t.got = {}
      BY <1>2, <2>1, MetaId
    <2> QED
      BY <1>1, <1>2, <2>2
  <1>3. CASE ~(id = 0 \/ meta.id = id) /\ meta.id # 0
    <2>1. t = [NoMeta EXCEPT !.id = id]
      BY <1>3 DEF Turned
    <2>2. t.last = 0 /\ t.got = {}
      BY <2>1, MetaIds, MetaId
    <2> QED
      BY <1>1, <1>3, <2>2
  <1> QED
    BY <1>1, <1>2, <1>3

\* What holds of the front of the wire outside a rebuild.
LEMMA FrontPlaced ==
  ASSUME StreamTyped, OneRequest, Journey, TookOff, rebuild.at = "none"
  PROVE  LET m == Head(wire.down)
             t == Turned(client.meta, m.id)
             d == wire'.down
         IN  /\ Placed(d, store, t.id, t.last)
             /\ m.id # 0 => t.id = m.id /\ Placed(d, store, m.id, 0)
             /\ m.id # 0 /\ m.kind # "status" => Placed(d, store, m.id, Rank(m))
             /\ m.kind = "event" => 0 < m.seq /\ t.last < m.seq
             /\ t \in Metas /\ t.id = (IF m.id = 0 THEN client.meta.id ELSE m.id)
             /\ t = client.meta \/ (m.id # 0 /\ t.last = 0 /\ t.got = {})
             /\ t.got # {} => t = client.meta
  <1> PICK m : m = Head(wire.down)
    OBVIOUS
  <1> PICK t : t = Turned(client.meta, m.id)
    OBVIOUS
  <1>0. /\ wire.down \in Seq(Letters) /\ wire.down # <<>> /\ wire'.down = Tail(wire.down)
        /\ Once(wire.down) /\ store \in Stores /\ client.meta \in Metas /\ client.meta.id \in Nat
        /\ Floor = client.meta.id /\ FloorLast = client.meta.last
    BY FloorNat DEF TookOff, OneRequest, StreamTyped, Floor, FloorLast
  <1>1. Placed(wire.down, store, client.meta.id, client.meta.last)
    BY <1>0, SortedPlaced DEF Journey, Flow
  <1>2. m.id \in 0..MaxStreams /\ m.id \in Nat /\ (m.kind = "event" => m.id # 0)
    BY <1>0, TailIs, LetterFields
  <1>3. client.meta.id = 0 => client.meta.last = 0 /\ client.meta.got = {}
    BY DEF Journey, Taking
  <1>4. /\ t \in Metas /\ t.id = (IF m.id = 0 THEN client.meta.id ELSE m.id)
        /\ t = client.meta \/ (m.id # 0 /\ t.last = 0 /\ t.got = {})
        /\ t.got # {} => t = client.meta
    BY <1>0, <1>2, <1>3, TurnedTakes
  <1>5. /\ Placed(wire'.down, store, client.meta.id, client.meta.last)
        /\ m.id # 0 => Placed(wire'.down, store, m.id, 0)
        /\ m.id # 0 /\ m.kind # "status" => Placed(wire'.down, store, m.id, Rank(m))
        /\ m.kind = "event" => 0 < m.seq /\ (m.id = client.meta.id => client.meta.last < m.seq)
    BY <1>0, <1>1, TailPlaced
  <1>6. Placed(wire'.down, store, t.id, t.last)
    BY <1>4, <1>5
  <1>7. m.kind = "event" => t.last < m.seq
    BY <1>2, <1>4, <1>5
  <1> QED
    BY <1>2, <1>4, <1>5, <1>6, <1>7

\* A message that is taken leaves the rest: what it brought must be shown.
LEMMA TakenJourney ==
  ASSUME StreamTyped, OneRequest, Journey, TookOff, UNCHANGED <<run, store, disk, used>>,
         Placed(wire'.down, store, Floor', FloorLast'), Restoring(wire.down, store, disk)',
         rebuild'.at = "none" => rebuild.at = "none" /\ screen.shown \subseteq screen'.shown,
         rebuild'.at = "none" =>
           \A e \in Due(store, disk) : Coming(wire.down, e) =>
             e \in screen'.shown \/ Coming(wire.down, e)',
         Taking'
  PROVE  Journey'
  <1>0. wire.up /\ wire'.up /\ wire'.down \in Seq(Letters)
    BY WireFields DEF TookOff
  <1>1. Sorted(wire.down, store)'
    BY SortedNext
  <1>2. Replying(wire.down, store, disk)'
    BY ReplyingTaken DEF Journey, Flow
  <1>3. Recorded(store, disk)'
    BY DEF Journey, Flow, Recorded
  <1>4. Arriving(wire.down, store, disk)'
    <2> SUFFICES ASSUME rebuild'.at = "none", NEW e \in Due(store, disk), e \notin screen'.shown
                 PROVE  Coming(wire.down, e)'
      BY DEF Arriving, Due
    <2>1. Coming(wire.down, e)
      BY DEF Journey, Flow, Arriving
    <2> QED
      BY <2>1
  <1>5. Flow(store, wire.down, disk)'
    BY <1>0, <1>1, <1>2, <1>3, <1>4 DEF Journey, Flow
  <1> QED
    BY <1>5 DEF Journey

LEMMA ReceiveStatusJourney ==
  ASSUME StreamTyped, OneRequest, Honest, Journey, ReceiveStatus, harm' = {}
  PROVE  Journey'
  <1> PICK m : m = Head(wire.down)
    OBVIOUS
  <1> PICK t : t = Turned(client.meta, m.id)
    OBVIOUS
  <1>0. UNCHANGED <<run, store, disk, screen, rebuild, used>> /\ TookOff /\ m \in Letters
        /\ m.kind = "status"
    BY ReceiveStatusDoes DEF ReceiveStatus
  <1>1. rebuild.at = "none"
    BY ReceiveStatusDoes
  <1>2. client'.meta = t
    BY <1>1, ReceiveStatusDoes
  <1>3. m.id # 0
    <2>1. wire.down \in Seq(Letters) /\ wire.down # <<>>
      BY <1>0 DEF TookOff
    <2>2. m = wire.down[1] /\ 1 \in 1..Len(wire.down)
      BY <2>1, TailIs
    <2> QED
      BY <1>0, <2>2 DEF Honest, Named
  <1>4. /\ Placed(wire'.down, store, t.id, t.last) /\ t.id = m.id
        /\ t = client.meta \/ t.got = {}
    BY <1>0, <1>1, <1>3, FrontPlaced
  <1>5. Floor' = t.id /\ FloorLast' = t.last
    BY <1>0, <1>1, <1>2 DEF Floor, FloorLast
  <1>6. Taking'
    BY <1>0, <1>2, <1>3, <1>4 DEF Journey, Taking, TookOff
  <1>7. Restoring(wire.down, store, disk)'
    BY <1>0, <1>1 DEF Restoring
  <1>8. \A e : Coming(wire.down, e) => Coming(wire.down, e)'
    BY <1>0, ComingTaken
  <1> QED
    BY <1>0, <1>1, <1>4, <1>5, <1>6, <1>7, <1>8, TakenJourney

LEMMA ReceiveEventJourney ==
  ASSUME StreamTyped, OneRequest, Journey, ReceiveEvent
  PROVE  Journey'
  <1> PICK m : m = Head(wire.down)
    OBVIOUS
  <1> PICK t : t = Turned(client.meta, m.id)
    OBVIOUS
  <1>0. UNCHANGED <<run, store, disk, rebuild, harm, used>> /\ TookOff /\ m \in Letters
        /\ m.kind = "event" /\ m.id \in Streams /\ m.seq \in Nat /\ m.id # 0 /\ m.id \in Nat
    <2>1. TookOff /\ m \in Letters /\ m.kind = "event" /\ m.id \in Streams /\ m.seq \in Nat
      BY ReceiveEventDoes
    <2> QED
      BY <2>1, LetterFields DEF ReceiveEvent
  <1>1. CASE rebuild.at # "none"
    <2>1. client' = client /\ screen' = screen
      BY <1>1, ReceiveEventDoes
    <2>2. /\ wire.down \in Seq(Letters) /\ wire.down # <<>> /\ wire'.down = Tail(wire.down)
          /\ Once(wire.down) /\ store \in Stores /\ disk \in SUBSET (Streams \X Nat)
          /\ Floor \in Nat /\ rebuild.reply.id \in Nat
      BY <1>0, FloorNat DEF TookOff, OneRequest, StreamTyped
    <2>3. Placed(wire.down, store, Floor, FloorLast)
      BY SortedPlaced DEF Journey, Flow
    <2>4. Placed(wire'.down, store, Floor, FloorLast) /\ m.id <= store.id
      BY <1>0, <2>2, <2>3, TailPlaced
    <2>5. Floor' = Floor /\ FloorLast' = FloorLast
      BY <1>0, <1>1, <2>1 DEF Floor, FloorLast
    <2>6. Restoring(wire.down, store, disk)'
      <3>1. Restoring(wire.down, store, disk)
        BY DEF Journey, Flow
      <3>2. Announced(wire.down, 0, rebuild.reply.id, store, disk) =>
              Announced(Tail(wire.down), 0, rebuild.reply.id, store, disk)
        BY <1>0, <2>2, <2>4, TailAnnounced
      <3>3. Restoring(wire'.down, store', disk')
        BY <1>0, <2>2, <3>1, <3>2 DEF Restoring
      <3> QED
        BY <1>0, <2>1, <3>3, PartsSame
    <2>7. Taking'
      BY <1>0, <2>1 DEF Journey, Taking, TookOff
    <2> QED
      BY <1>0, <1>1, <2>4, <2>5, <2>6, <2>7, TakenJourney
  <1>2. CASE rebuild.at = "none"
    <2> PICK one : one = {m.seq}
      OBVIOUS
    <2> PICK new : new = {<<m.id, m.seq>>}
      OBVIOUS
    <2>1. /\ Placed(wire'.down, store, t.id, t.last) /\ Placed(wire'.down, store, m.id, Rank(m))
          /\ t \in Metas /\ t.id = m.id /\ t.last < m.seq
          /\ t.got # {} => t = client.meta
      BY <1>0, <1>2, FrontPlaced
    <2>2. client.meta \in Metas /\ screen \in Screens /\ new \in SUBSET (Streams \X Nat)
          /\ one \in SUBSET Nat
      BY <1>0, FloorNat
    <2>3. /\ client'.meta.id = m.id /\ client'.mark = client.mark
          /\ Placed(wire'.down, store, m.id, client'.meta.last)
          /\ screen.shown \subseteq screen'.shown /\ <<m.id, m.seq>> \in screen'.shown
          /\ \A q \in client'.meta.got : <<m.id, q>> \in screen'.shown
      <3>1. \A q \in t.got : <<m.id, q>> \in screen.shown
        BY <2>1 DEF Journey, Taking
      <3>2. CASE m.seq \in t.got
        <4>1. client'.meta = t /\ client'.mark = client.mark /\ screen' = screen
          BY <1>2, <3>2, ReceiveEventDoes, SMTT(30)
        <4> QED
          BY <2>1, <3>1, <3>2, <4>1
      <3>3. CASE m.seq \notin t.got
        <4>1. client'.meta = Consumed(t, one, m.seq) /\ client'.mark = client.mark
              /\ screen' = Showing(screen, new)
          BY <1>2, <3>3, ReceiveEventDoes
        <4>2. client'.meta.id = t.id /\ client'.meta.got = t.got \cup one
              /\ client'.meta.last = m.seq
          <5>1. m.seq \in Int /\ m.seq > t.last
            BY <1>0, <2>1 DEF Metas
          <5> QED
            BY <2>1, <2>2, <4>1, <5>1, ConsumedMeta
        <4>3. screen'.shown = screen.shown \cup new
          BY <2>2, <4>1, ShowingScreen
        <4>4. Rank(m) = m.seq
          BY <1>0 DEF Rank
        <4> QED
          BY <2>1, <3>1, <4>1, <4>2, <4>3, <4>4
      <3> QED
        BY <3>2, <3>3
    <2>4. Floor' = m.id /\ FloorLast' = client'.meta.last
      BY <1>0, <1>2, <2>3 DEF Floor, FloorLast
    <2>5. Taking'
      BY <1>0, <2>3 DEF Journey, Taking, TookOff
    <2>6. Restoring(wire.down, store, disk)'
      BY <1>0, <1>2 DEF Restoring
    <2>7. ASSUME NEW e \in Due(store, disk), Coming(wire.down, e)
          PROVE  e \in screen'.shown \/ Coming(wire.down, e)'
      <3>1. e = <<e[1], e[2]>>
        BY DueFields, EventFields DEF StreamTyped
      <3>2. Coming(wire.down, e)' \/ (m.id = e[1] /\ m.seq = e[2])
        BY <1>0, <2>7, ComingTaken
      <3> QED
        BY <2>3, <3>1, <3>2
    <2> QED
      BY <1>0, <1>2, <2>3, <2>4, <2>5, <2>6, <2>7, TakenJourney
  <1> QED
    BY <1>1, <1>2

LEMMA ReceiveResumeJourney ==
  ASSUME StreamTyped, OneRequest, InOrder, Honest, Journey, ReceiveResume, harm' = {}
  PROVE  Journey'
  <1> PICK m : m = Head(wire.down)
    OBVIOUS
  <1> PICK t : t = Turned(client.meta, m.id)
    OBVIOUS
  <1>0. UNCHANGED <<run, store, disk, used>> /\ TookOff /\ m \in Letters /\ m \in Answers
        /\ m.kind = "resume"
    BY ReceiveResumeDoes DEF ReceiveResume
  <1>1. rebuild.at = "none" /\ wire.ask = <<>> /\ wire'.ask = <<>>
    BY <1>0, FrontOrder DEF TookOff
  <1>2. /\ wire.down \in Seq(Letters) /\ wire.down # <<>> /\ wire'.down = Tail(wire.down)
        /\ m = wire.down[1] /\ 1 \in 1..Len(wire.down) /\ store \in Stores
        /\ disk \in SUBSET (Streams \X Nat) /\ m.id \in Nat /\ m.from \in Nat /\ m.next \in Nat
        /\ m.live \in BOOLEAN /\ m.busy \in BOOLEAN
    BY <1>0, TailIs, ReplyFields DEF TookOff, StreamTyped
  <1>3. /\ Sound(m, store) /\ (m.busy => m.id # 0)
        /\ Rebuilds(m) /\ ~m.live => Announced(wire.down, 1, m.id, store, disk)
    BY <1>0, <1>2 DEF Journey, Flow, Replying, Honest, Named
  <1>4. CASE Rebuilds(m)
    <2>1. /\ rebuild'.at = "asked" /\ rebuild'.reply = m /\ client'.meta = NoMeta
      BY <1>4, ReceiveResumeDoes
    <2>2. m.id # 0
      BY <1>3, <1>4 DEF Sound
    <2>3. Placed(wire'.down, store, m.id, Rank(m))
      BY <1>0, <1>1, <2>2, FrontPlaced
    <2>4. Floor' = m.id /\ FloorLast' = Rank(m)
      BY <1>0, <2>1 DEF Floor, FloorLast, Rank
    <2>5. rebuild'.touched = FALSE
      <3>1. rebuild' = [NoRebuild EXCEPT !.at = "asked", !.reply = m]
        BY <1>4 DEF ReceiveResume
      <3> QED
        BY <3>1 DEF NoRebuild
    <2>6. m.live => m.from = 1
      <3>1. m.live => ~(m.from > 1)
        BY <1>4 DEF ReceiveResume
      <3> QED
        BY <1>2, <1>3, <3>1 DEF Sound
    <2>7. ~m.live => Announced(wire'.down, 0, m.id, store, disk)
      <3>1. 0 \in 0..Len(Tail(wire.down)) /\ 0 + 1 = 1
        BY <1>2, TailIs
      <3>2. \A i \in 0..Len(Tail(wire.down)) :
              Announced(wire.down, i + 1, m.id, store, disk) =>
                Announced(Tail(wire.down), i, m.id, store, disk)
        BY <1>2, TailAnnounced
      <3> QED
        BY <1>2, <1>3, <1>4, <3>1, <3>2
    <2>8. Restoring(wire.down, store, disk)'
      <3> PICK r : r = rebuild'
        OBVIOUS
      <3>1. r.at = "asked" /\ r.reply = m /\ r.touched = FALSE
        BY <2>1, <2>5
      <3>2. Sound(rebuild.reply, store)' <=> Sound(m, store)
        BY <1>0, <2>1 DEF Sound, Rebuilds
      <3>3. Announced(wire.down, 0, rebuild.reply.id, store, disk)' <=>
              Announced(wire'.down, 0, m.id, store, disk)
        BY <1>0, <2>1 DEF Announced, Due, OnWire
      <3> QED
        BY <1>0, <1>3, <2>1, <2>2, <2>5, <2>6, <2>7, <3>2, <3>3 DEF Restoring
    <2>9. Taking'
      BY <1>1, <2>1, MetaIds DEF Taking
    <2> QED
      BY <1>0, <2>1, <2>3, <2>4, <2>8, <2>9, TakenJourney
  <1>5. CASE ~Rebuilds(m)
    <2> PICK c : c = AfterReplay(t, m)
      OBVIOUS
    <2> PICK seqs : seqs = Replayed(t, m)
      OBVIOUS
    <2> PICK new : new = {m.id} \X seqs
      OBVIOUS
    <2>1. /\ client'.meta = c /\ client'.mark = MarkedAs(client.mark, m)
          /\ screen' = Showing(screen, new) /\ rebuild'.at = "none"
      BY <1>1, <1>5, ReceiveResumeDoes
    <2>2. /\ Placed(wire'.down, store, t.id, t.last)
          /\ m.id # 0 => t.id = m.id /\ Placed(wire'.down, store, m.id, 0)
          /\ m.id # 0 => Placed(wire'.down, store, m.id, Rank(m))
          /\ t \in Metas /\ t.id = (IF m.id = 0 THEN client.meta.id ELSE m.id)
          /\ t = client.meta \/ (m.id # 0 /\ t.last = 0 /\ t.got = {})
          /\ t.got # {} => t = client.meta
      BY <1>0, <1>1, FrontPlaced
    <2>3. /\ c.id = t.id /\ c.got = t.got \cup seqs
          /\ c.last = (IF m.next - 1 > t.last THEN m.next - 1 ELSE t.last)
          /\ new \in SUBSET (Streams \X Nat) /\ screen \in Screens
          /\ t.last \in Nat /\ t.id \in Nat
      <3>1. /\ c.id = t.id /\ c.got = t.got \cup seqs
            /\ c.last = (IF m.next - 1 > t.last THEN m.next - 1 ELSE t.last)
        BY <1>0, <2>2, AfterReplayMeta
      <3>2. new \in SUBSET (Streams \X Nat)
        BY <1>0, <2>2, ReplayedOnes
      <3>3. t.last \in Nat /\ t.id \in Nat
        BY <2>2 DEF Metas
      <3>4. screen \in Screens
        BY FloorNat
      <3> QED
        BY <3>1, <3>2, <3>3, <3>4
    <2>4. screen'.shown = screen.shown \cup new
      BY <2>1, <2>3, ShowingScreen
    <2>5. m.id = 0 => c.last = t.last /\ seqs = {}
      <3>1. m.id = 0 => m.next = 1 /\ m.from >= m.next
        BY <1>0, <1>3, ReplyFields DEF Sound
      <3> QED
        BY <1>2, <2>3, <3>1 DEF Replayed
    <2>6. Placed(wire'.down, store, c.id, c.last)
      BY <1>0, <2>2, <2>3, <2>5 DEF Rank
    <2>7. Floor' = c.id /\ FloorLast' = c.last
      BY <2>1 DEF Floor, FloorLast
    <2>8. \A q \in c.got : <<c.id, q>> \in screen'.shown
      <3>1. \A q \in t.got : <<c.id, q>> \in screen.shown
        BY <2>2, <2>3 DEF Journey, Taking
      <3>2. \A q \in seqs : <<c.id, q>> \in new
        BY <2>2, <2>3, <2>5
      <3> QED
        BY <2>3, <2>4, <3>1, <3>2
    <2>9. Taking'
      <3>1. c.id = 0 => c.last = 0 /\ c.got = {}
        BY <2>2, <2>3, <2>5 DEF Journey, Taking
      <3>2. client'.mark.on => c.id # 0
        <4>1. client'.mark.on => m.busy
          BY <1>2, <2>1, UnmarkedMark DEF MarkedAs
        <4> QED
          BY <1>3, <2>2, <2>3, <4>1
      <3> QED
        BY <1>1, <2>1, <2>8, <3>1, <3>2 DEF Taking
    <2>10. Restoring(wire.down, store, disk)'
      BY <2>1 DEF Restoring
    <2>11. ASSUME NEW e \in Due(store, disk), Coming(wire.down, e)
           PROVE  e \in screen'.shown \/ Coming(wire.down, e)'
      <3>1. e = <<e[1], e[2]>> /\ e[1] \in Nat /\ e[2] \in Nat /\ e[1] # 0
        <4>1. Due(store, disk) \in SUBSET (Streams \X Nat)
          BY <1>2, DueFields
        <4>2. e \in Streams \X Nat
          BY <4>1, <2>11
        <4> QED
          BY <4>2 DEF Streams
      <3>2. Coming(wire.down, e)' \/ InReply(e, m)
        BY <1>0, <1>5, <2>11, ComingTaken
      <3>3. CASE InReply(e, m)
        <4>1. e[1] = m.id /\ e[2] \in m.from .. m.next - 1
          BY <1>2, <3>1, <3>3, SMTT(30) DEF InReply
        <4>2. e[2] \in c.got /\ c.id = m.id
          BY <2>2, <2>3, <3>1, <4>1 DEF Replayed
        <4> QED
          BY <2>8, <3>1, <4>1, <4>2
      <3> QED
        BY <3>2, <3>3
    <2> QED
      BY <1>0, <1>1, <2>1, <2>4, <2>6, <2>7, <2>9, <2>10, <2>11, TakenJourney
  <1> QED
    BY <1>4, <1>5

LEMMA FetchReadsJourney ==
  ASSUME StreamTyped, Journey, FetchReads
  PROVE  Journey'
  <1>0. UNCHANGED <<run, store, disk, wire, client, screen, harm, used>>
    BY DEF FetchReads
  <1>1. rebuild.at = "asked" /\ rebuild'.at = "read" /\ rebuild'.reply = rebuild.reply
        /\ rebuild'.found = disk
    BY FetchReadsDoes
  <1>2. rebuild'.touched = rebuild.touched
    <2> PICK r : r = [rebuild EXCEPT !.at = "read"]
      OBVIOUS
    <2>1. rebuild' = [r EXCEPT !.found = disk] /\ rebuild \in Rebuilding
      BY DEF FetchReads, StreamTyped
    <2> QED
      BY <2>1 DEF Rebuilding
  <1>3. Floor' = Floor /\ FloorLast' = FloorLast
    BY <1>0, <1>1 DEF Floor, FloorLast
  <1>4. Sorted(wire.down, store)'
    BY <1>0, <1>3, SortedPlaced, SortedNext DEF Journey, Flow
  <1>5. Restoring(wire.down, store, disk)'
    <2>1. Restoring(wire.down, store, disk)
      BY DEF Journey, Flow
    <2> QED
      BY <1>0, <1>1, <1>2, <2>1 DEF Restoring, Announced, Due, OnWire, Sound
  <1>6. (Recorded(store, disk) /\ Replying(wire.down, store, disk))'
    BY <1>0 DEF Journey, Flow, Recorded, Replying, Announced, Due, OnWire, Sound
  <1>7. Flow(store, wire.down, disk)'
    BY <1>0, <1>1, <1>4, <1>5, <1>6 DEF Journey, Flow, Arriving
  <1>8. Taking'
    BY <1>0, <1>1 DEF Journey, Taking
  <1> QED
    BY <1>0, <1>7, <1>8 DEF Journey

\* A rebuild shows what the file had, and the reply; the rest is asked for or comes.
LEMMA RebuildEndsJourney ==
  ASSUME StreamTyped, OneRequest, Honest, Journey, RebuildEnds
  PROVE  Journey'
  <1> PICK m : m = rebuild.reply
    OBVIOUS
  <1> PICK u : u = Turned(client.meta, m.id)
    OBVIOUS
  <1>a. PICK t : t = [u EXCEPT !.last = 0, !.got = {}]
    OBVIOUS
  <1> PICK c : c = AfterReplay(t, m)
    OBVIOUS
  <1> PICK seqs : seqs = Replayed(t, m)
    OBVIOUS
  <1> PICK new : new = {m.id} \X seqs
    OBVIOUS
  <1>0. UNCHANGED <<run, store, disk, used, harm>>
    BY DEF RebuildEnds
  <1>1. /\ rebuild.at = "read" /\ rebuild' = NoRebuild /\ m \in Answers
        /\ t \in Metas /\ t.id = (IF m.id = 0 THEN client.meta.id ELSE m.id)
        /\ t.got = {} /\ t.last = 0
        /\ client'.meta = c /\ client'.mark = MarkedAs(client.mark, m)
        /\ wire'.up = wire.up /\ wire'.down = wire.down /\ wire' \in Wires
    BY <1>a, RebuildEndsDoes
  <1>2. /\ Sound(m, store) /\ m.id # 0 /\ ~rebuild.touched
        /\ m.live => m.from = 1
        /\ ~m.live => Announced(wire.down, 0, m.id, store, disk)
        /\ \A e \in disk : \/ e \in rebuild.found \/ m.id < e[1] \/ (e[1] = m.id /\ m.live)
    BY <1>1 DEF Journey, Flow, Restoring
  <1>3. wire.up /\ wire.ask = <<>> /\ (m.busy => m.id # 0) /\ m.busy \in BOOLEAN
        /\ m.live \in BOOLEAN /\ m.id \in Nat /\ m.next \in Nat /\ m.from \in Nat /\ 1 <= m.next
        /\ store \in Stores /\ disk \in SUBSET (Streams \X Nat)
    BY <1>1, <1>2, FloorNat, ReplyFields DEF OneRequest, Sound, StreamTyped
  <1>4. c.id = m.id /\ c.got = seqs /\ c.last = m.next - 1 /\ c \in Metas
        /\ new \in SUBSET (Streams \X Nat)
    <2>1. m \in Answers /\ t \in Metas /\ t.got = {} /\ t.last = 0 /\ t.id = m.id
      BY <1>1, <1>2
    <2>2. new \in SUBSET (Streams \X Nat)
      BY <2>1, ReplayedOnes
    <2>3. /\ c.id = t.id /\ c.got = t.got \cup seqs /\ c \in Metas
          /\ c.last = IF m.next - 1 > t.last THEN m.next - 1 ELSE t.last
      BY <2>1, AfterReplayMeta
    <2>4. c.last = m.next - 1
      BY <1>3, <2>1, <2>3
    <2> QED
      BY <2>1, <2>2, <2>3, <2>4
  <1>5. screen'.shown = rebuild.found \cup new
    <2>a. PICK b : b = [screen EXCEPT !.shown = rebuild.found]
      OBVIOUS
    <2>1. b \in Screens /\ b.shown = rebuild.found
      BY <2>a, RebuildFields, FloorNat, ShownOf
    <2>2. screen' = Showing(b, new)
      BY <1>2, <1>a, <2>a DEF RebuildEnds
    <2>3. b \in Screens /\ new \in SUBSET (Streams \X Nat)
      BY <1>4, <2>1
    <2>4. Showing(b, new).shown = b.shown \cup new
      BY <2>3, ShowingScreen
    <2> QED
      BY <2>1, <2>2, <2>4
  <1>6. IF m.live THEN wire'.ask # <<>> /\ Head(wire'.ask).id = m.id /\ Head(wire'.ask).since = m.next - 1
                  ELSE wire'.ask = <<>>
    <2> PICK r : r = Asked(c)
      OBVIOUS
    <2> PICK q : q = Append(wire.ask, r)
      OBVIOUS
    <2>1. r \in Requests /\ r.id = m.id /\ r.since = m.next - 1
      BY <1>4 DEF Asked, Requests, Metas
    <2>2. q # <<>> /\ Head(q) = r /\ q \in Seq(Requests)
      <3> PICK o : o = <<r>>
        OBVIOUS
      <3>1. q = o
        BY <1>3
      <3>2. Len(o) = 1 /\ Len(<<>>) = 0 /\ Head(o) = r /\ o \in Seq(Requests)
        BY <2>1
      <3>3. o # <<>>
        BY <3>2
      <3> QED
        BY <3>1, <3>2, <3>3
    <2>3. wire \in Wires
      BY DEF StreamTyped
    <2>4. wire' = IF m.live THEN [wire EXCEPT !.ask = q] ELSE wire
      <3>1. wire' = IF wire.up /\ m.live
                    THEN [wire EXCEPT !.ask = Append(@, Asked(client'.meta))] ELSE wire
        BY DEF RebuildEnds
      <3> QED
        BY <1>1, <1>3, <3>1
    <2>5. CASE m.live
      <3>1. wire'.ask = q
        BY <2>2, <2>3, <2>4, <2>5 DEF Wires
      <3> QED
        BY <2>1, <2>2, <2>5, <3>1
    <2>6. CASE ~m.live
      BY <1>3, <2>4, <2>6
    <2> QED
      BY <2>5, <2>6
  <1>7. Floor' = Floor /\ FloorLast' = FloorLast /\ rebuild'.at = "none" /\ Floor = m.id
    BY <1>1, <1>4, ReplyNone DEF Floor, FloorLast
  <1>8. Sorted(wire.down, store)' /\ m.id <= store.id
    BY <1>0, <1>1, <1>7, SortedPlaced, SortedNext DEF Journey, Flow, Placed
  <1>9. (Recorded(store, disk) /\ Replying(wire.down, store, disk))'
    BY <1>0, <1>1 DEF Journey, Flow, Recorded, Replying, Announced, Due, OnWire, Sound
  <1>10. Restoring(wire.down, store, disk)'
    BY <1>7 DEF Restoring
  <1>11. Arriving(wire.down, store, disk)'
    <2> SUFFICES ASSUME NEW e \in Due(store, disk), e \notin screen'.shown
                 PROVE  Coming(wire.down, e)'
      BY <1>0 DEF Arriving, Due
    <2>1. /\ e[1] \in Nat /\ e[2] \in Nat /\ 0 < e[2] /\ e[1] <= store.id /\ e = <<e[1], e[2]>>
          /\ e \in disk \/ (store.live /\ e[1] = store.id)
      BY <1>3, DueOfStore DEF Journey, Flow
    <2>2. store.id \in Nat
      BY <1>3, StoreFields
    <2>3. e \in disk => m.id < e[1] \/ (e[1] = m.id /\ m.live)
      BY <1>2, <1>5
    <2>4. e \notin disk => m.id < e[1] \/ (e[1] = m.id /\ m.live)
      BY <1>2, <1>3, <1>8, <2>1, <2>2 DEF Sound
    <2>5. CASE m.live
      <3>1. Newer(e, m.id, m.next - 1)
        <4>1. e[1] = m.id => e[2] \notin seqs
          BY <1>5, <2>1
        <4>2. e[1] = m.id => ~(e[2] \in m.from .. m.next - 1)
          BY <1>1, <4>1 DEF Replayed
        <4> QED
          BY <1>2, <1>3, <2>1, <2>3, <2>4, <2>5, <4>2 DEF Newer
      <3> QED
        BY <1>6, <2>5, <3>1 DEF Coming, Newer
    <2>6. CASE ~m.live
      <3>1. OnWire(wire.down, e)
        BY <1>2, <2>3, <2>4, <2>6 DEF Announced
      <3>2. OnWire(wire.down, e)'
        BY <1>1, <3>1 DEF OnWire
      <3> QED
        BY <3>2 DEF Coming
    <2> QED
      BY <2>5, <2>6
  <1>12. Flow(store, wire.down, disk)'
    BY <1>0, <1>1, <1>3, <1>8, <1>9, <1>10, <1>11 DEF Journey, Flow
  <1>13. Taking'
    <2>1. \A q \in c.got : <<c.id, q>> \in screen'.shown
      BY <1>4, <1>5
    <2>2. wire'.ask # <<>> => Head(wire'.ask).id # 0
      BY <1>2, <1>6
    <2> QED
      BY <1>1, <1>2, <1>4, <1>7, <2>1, <2>2 DEF Taking
  <1> QED
    BY <1>0, <1>12, <1>13 DEF Journey

LEMMA JourneyKept == JourneyInv /\ [Next]_vars => JourneyInv'
  <1> SUFFICES ASSUME JourneyInv, [Next]_vars PROVE JourneyInv'
    OBVIOUS
  <1>1. MarkInv /\ MarkInv' /\ StreamTyped /\ StreamTyped'
    BY MarkKept DEF JourneyInv, MarkInv, ShownInv
  <1>2. CASE harm' # {}
    BY <1>1, <1>2 DEF JourneyInv
  <1>3. CASE harm' = {} /\ UNCHANGED vars
    <2>1. harm = {} /\ UNCHANGED <<run, store, disk, wire, client, screen, rebuild, used>>
      BY <1>3 DEF vars
    <2>2. Journey
      BY <2>1 DEF JourneyInv
    <2>3. Flow(store, wire.down, disk)'
      BY <2>1, <2>2, FlowSame DEF Journey
    <2>4. Taking'
      BY <2>1, <2>2 DEF Journey, Taking
    <2> QED
      BY <1>1, <2>1, <2>2, <2>3, <2>4 DEF JourneyInv, Journey
  <1>4. CASE harm' = {} /\ Next
    <2>1. harm = {}
      BY <1>4, HarmStays
    <2>2. Honest /\ OneRequest /\ InOrder /\ Journey
      BY <1>1, <2>1 DEF JourneyInv, MarkInv, ShownInv, Excused, Interrupted
    <2>3. ~FetchFails
      BY <1>4 DEF FetchFails
    <2>4. Journey'
      BY <1>1, <1>4, <2>1, <2>2, <2>3, ServerJourney, AnswerJourney, FaultJourney,
         ReconnectJourney, ReceiveStatusJourney, ReceiveEventJourney, ReceiveResumeJourney,
         FetchReadsJourney, RebuildEndsJourney
      DEF Next, Client
    <2> QED
      BY <1>1, <2>4 DEF JourneyInv
  <1> QED
    BY <1>2, <1>3, <1>4

\* A gap is never silent: whatever is due to the window and missing from it, below
\* the last event the window has, is asked for or on its way in a reply.  The events
\* on the wire are all after the last one the window has, so that a missing one
\* before it is not among them.
THEOREM HoleIsClosed == Spec => []HoleIsBeingClosed
  <1>1. ASSUME JourneyInv PROVE HoleIsBeingClosed
    <2> SUFFICES ASSUME Hole, wire.up, harm = {} PROVE Answering
      BY DEF HoleIsBeingClosed
    <2>1. StreamTyped /\ Journey
      BY <1>1 DEF JourneyInv, MarkInv, ShownInv
    <2>2. rebuild.at = "none"
      BY DEF Hole
    <2>3. PICK q \in 1..client.meta.last :
            /\ <<client.meta.id, q>> \notin screen.shown
            /\ \/ <<client.meta.id, q>> \in disk
               \/ store.live /\ store.id = client.meta.id /\ q >= store.first
      BY DEF Hole
    <2> PICK e : e = <<client.meta.id, q>>
      OBVIOUS
    <2>4. /\ store \in Stores /\ disk \in SUBSET (Streams \X Nat) /\ wire.down \in Seq(Letters)
          /\ client.meta.id \in Nat /\ client.meta.last \in Nat /\ q \in Nat /\ 0 < q
          /\ q <= client.meta.last /\ e[1] = client.meta.id /\ e[2] = q
          /\ Floor = client.meta.id /\ FloorLast = client.meta.last
      BY <2>1, <2>2, <2>3, FloorNat DEF StreamTyped, Floor, FloorLast, Metas
    <2>5. e \in Due(store, disk)
      <3>1. CASE e \in disk
        BY <3>1 DEF Due
      <3>2. CASE e \notin disk
        <4>1. store.live /\ store.id = e[1]
          BY <2>3, <2>4, <3>2
        <4>2. store.id # 0 /\ store.id \in Streams
          BY <2>1, <2>4, <4>1 DEF Journey, Flow, Recorded, Stores, Streams
        <4>3. q < store.next
          <5>1. client.meta.last < store.next
            BY <2>1, <2>4, <4>1 DEF Journey, Flow, Sorted
          <5> QED
            BY <2>4, <5>1, StoreFields
        <4> QED
          BY <2>4, <4>1, <4>2, <4>3 DEF Due
      <3> QED
        BY <3>1, <3>2
    <2>6. Coming(wire.down, e)
      BY <2>1, <2>2, <2>3, <2>5 DEF Journey, Flow, Arriving
    <2>7. ~OnWire(wire.down, e)
      BY <2>1, <2>4 DEF Journey, Flow, Sorted, Above, OnWire
    <2>8. wire.ask # <<>> \/ \E i \in 1..Len(wire.down) : wire.down[i].kind = "resume"
      BY <2>6, <2>7 DEF Coming
    <2>9. DOMAIN wire.down = 1..Len(wire.down)
      BY <2>4, LenProperties
    <2> QED
      BY <2>8, <2>9 DEF Answering
  <1> QED
    BY <1>1, JourneyBegins, JourneyKept, PTL DEF Spec

\* When all is quiet the window shows every turn of the session file: what a lost
\* connection took is in a reply or in the file a rebuild reads, and what was said
\* meanwhile follows on the wire.
THEOREM TranscriptIsComplete == Spec => []TranscriptComplete
  <1>1. ASSUME JourneyInv PROVE TranscriptComplete
    <2> SUFFICES ASSUME Quiet, harm = {}, NEW e \in disk PROVE e \in screen.shown
      BY DEF TranscriptComplete
    <2>1. Journey /\ rebuild.at = "none" /\ wire.up /\ wire.ask = <<>> /\ wire.down = <<>>
      BY <1>1 DEF JourneyInv, Quiet
    <2>2. e \in Due(store, disk)
      BY DEF Due
    <2>3. e \in screen.shown \/ Coming(wire.down, e)
      BY <2>1, <2>2 DEF Journey, Flow, Arriving
    <2>4. \A i : i \notin 1..Len(wire.down)
      BY <2>1, EmptySeq
    <2> QED
      BY <2>1, <2>3, <2>4 DEF Coming, OnWire
  <1> QED
    BY <1>1, JourneyBegins, JourneyKept, PTL DEF Spec
=============================================================================
