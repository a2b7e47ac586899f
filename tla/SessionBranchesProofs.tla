------------------------- MODULE SessionBranchesProofs -------------------------
(* Proofs about SessionBranches, for files of any length and any number of      *)
(* mishaps.  The line of an entry is a recursive function of the file, and what *)
(* is known of it (where it lies, that it contains the lines of its entries,    *)
(* that a longer file leaves it as it is) is proved first, from a file without  *)
(* the fact that would come first.  The outcomes that are told and the fences   *)
(* are then followed over the three branches: the runtime's, the head's and the *)
(* file's.                                                                      *)
EXTENDS MCSessionBranches, DeferredResultsProofs, WellFoundedInduction

-----------------------------------------------------------------------------
(* Lines.                                                                    *)

Nodes == [up : Entries, kind : Kinds, task : Entries]
Tree(log) == log \in Seq(Nodes) /\ \A e \in 1..Len(log) : log[e].up < e

\* A set of naturals with a member has a least one.
LEMMA LeastOf ==
  ASSUME NEW T, T \subseteq Nat, T # {}
  PROVE  \E x \in T : \A y \in T : ~ (y < x)
  <1>0. PICK R : R = OpToRel(<, Nat)
    OBVIOUS
  <1>1. IsWellFoundedOn(R, Nat)
    BY <1>0, NatLessThanWellFounded
  <1>2. \E x \in T : \A y \in T : ~ (<<y, x>> \in R)
    BY <1>1, WFMin
  <1>3. R = {ss \in Nat \X Nat : ss[1] < ss[2]}
    BY <1>0 DEF OpToRel
  <1>4. \A x, y \in T : y < x => <<y, x>> \in R
    BY <1>3
  <1> QED
    BY <1>2, <1>4

\* What holds of a number when it holds of all smaller ones holds of all.
LEMMA Reaches ==
  ASSUME NEW n \in Nat, NEW T \in SUBSET (0..n),
         \A e \in 0..n : (\A i \in 0..n : i < e => i \in T) => e \in T
  PROVE  T = 0..n
  <1> SUFFICES ASSUME (0..n) \ T # {} PROVE FALSE
    OBVIOUS
  <1> PICK D : D = (0..n) \ T
    OBVIOUS
  <1>1. D \subseteq Nat /\ D # {}
    OBVIOUS
  <1>2. PICK x \in D : \A y \in D : ~ (y < x)
    BY <1>1, LeastOf
  <1> QED
    BY <1>2

LEMMA NodeFields ==
  ASSUME NEW log, Tree(log)
  PROVE  /\ Len(log) \in Nat
         /\ \A e \in 1..Len(log) : /\ log[e] \in Nodes /\ log[e].up \in 0..(e - 1)
                                   /\ log[e].up \in 0..Len(log)
                                   /\ log[e].kind \in Kinds /\ log[e].task \in Nat
  <1>1. Len(log) \in Nat /\ \A e \in 1..Len(log) : log[e] \in Nodes /\ log[e].up < e
    BY DEF Tree
  <1>2. \A x \in Nodes : x.up \in Nat /\ x.kind \in Kinds /\ x.task \in Nat
    BY BranchAssumption DEF Nodes, Entries
  <1> QED
    BY <1>1, <1>2

LineFrom(log, line, n) ==
  line = [e \in 0..n |-> IF e = 0 THEN {} ELSE {e} \cup line[log[e].up]]

LEMMA LineExists ==
  ASSUME NEW log, Tree(log)
  PROVE  \E line : LineFrom(log, line, Len(log))
  <1> PICK T : T = {n \in 0..Len(log) : \E line : LineFrom(log, line, n)}
    OBVIOUS
  <1>0. Len(log) \in Nat /\ \A e \in 1..Len(log) : log[e].up \in 0..(e - 1)
    BY NodeFields
  <1>1. ASSUME NEW n \in 0..Len(log), \A i \in 0..Len(log) : i < n => i \in T
        PROVE  \E line : LineFrom(log, line, n)
    <2>1. CASE n = 0
      <3> PICK line : line = [e \in 0..0 |-> {}]
        OBVIOUS
      <3>1. LineFrom(log, line, 0)
        BY DEF LineFrom
      <3> QED
        BY <2>1, <3>1
    <2>2. CASE n # 0
      <3>1. n - 1 \in 0..Len(log) /\ n - 1 < n /\ n \in 1..Len(log)
        BY <1>0, <2>2
      <3>2. PICK f : LineFrom(log, f, n - 1)
        BY <1>1, <3>1
      <3> PICK g : g = [e \in 0..n |-> IF e = n THEN {e} \cup f[log[e].up] ELSE f[e]]
        OBVIOUS
      <3>3. \A e \in 0..n : g[e] = IF e = 0 THEN {} ELSE {e} \cup g[log[e].up]
        <4> TAKE e \in 0..n
        <4>1. CASE e = 0
          BY <1>0, <2>2, <3>1, <3>2, <4>1 DEF LineFrom
        <4>2. CASE e # 0
          <5>1. log[e].up \in 0..(e - 1) /\ log[e].up \in 0..n /\ log[e].up # n
            BY <1>0, <4>2
          <5>2. g[log[e].up] = f[log[e].up]
            BY <5>1
          <5>3. e # n => f[e] = {e} \cup f[log[e].up]
            BY <1>0, <3>2, <4>2 DEF LineFrom
          <5> QED
            BY <4>2, <5>2, <5>3
        <4> QED
          BY <4>1, <4>2
      <3>4. LineFrom(log, g, n)
        <4>1. g = [e \in 0..n |-> IF e = 0 THEN {} ELSE {e} \cup g[log[e].up]]
          BY <3>3
        <4> QED
          BY <4>1 DEF LineFrom
      <3> QED
        BY <3>4
    <2> QED
      BY <2>1, <2>2
  <1>2. T = 0..Len(log)
    BY <1>0, <1>1, Reaches
  <1> QED
    BY <1>0, <1>2

LEMMA LineIs ==
  ASSUME NEW log, Tree(log)
  PROVE  /\ Lineage(log)[0] = {}
         /\ \A e \in 1..Len(log) : Lineage(log)[e] = {e} \cup Lineage(log)[log[e].up]
  <1> DEFINE L == CHOOSE line : line = [e \in 0..Len(log) |->
                                          IF e = 0 THEN {} ELSE {e} \cup line[log[e].up]]
  <1>1. Lineage(log) = L
    BY DEF Lineage
  <1>2. L = [e \in 0..Len(log) |-> IF e = 0 THEN {} ELSE {e} \cup L[log[e].up]]
    BY LineExists DEF LineFrom
  <1> HIDE DEF L
  <1>3. Len(log) \in Nat
    BY NodeFields
  <1> QED
    BY <1>1, <1>2, <1>3

\* A line goes down from its entry, and holds the line of each of its entries.
LEMMA LineBelow ==
  ASSUME NEW log, Tree(log), NEW e \in 0..Len(log)
  PROVE  /\ Lineage(log)[e] \subseteq 1..e
         /\ e # 0 => e \in Lineage(log)[e]
         /\ \A i \in Lineage(log)[e] : Lineage(log)[i] \subseteq Lineage(log)[e]
  <1> DEFINE Good(n) == /\ Lineage(log)[n] \subseteq 1..n
                        /\ n # 0 => n \in Lineage(log)[n]
                        /\ \A i \in Lineage(log)[n] : Lineage(log)[i] \subseteq Lineage(log)[n]
  <1> PICK T : T = {n \in 0..Len(log) : Good(n)}
    OBVIOUS
  <1>0. Len(log) \in Nat /\ \A n \in 1..Len(log) : log[n].up \in 0..(n - 1) /\ log[n].up \in 0..Len(log)
    BY NodeFields
  <1>1. ASSUME NEW n \in 0..Len(log), \A i \in 0..Len(log) : i < n => i \in T
        PROVE  Good(n)
    <2>1. CASE n = 0
      BY <2>1, LineIs
    <2>2. CASE n # 0
      <3> PICK u : u = log[n].up
        OBVIOUS
      <3>1. u \in 0..(n - 1) /\ u \in 0..Len(log) /\ u < n /\ n \in 1..Len(log)
        BY <1>0, <2>2
      <3>2. Good(u)
        BY <1>1, <3>1
      <3>3. Lineage(log)[n] = {n} \cup Lineage(log)[u]
        BY <3>1, LineIs
      <3>4. Lineage(log)[n] \subseteq 1..n
        BY <1>0, <3>1, <3>2, <3>3
      <3> QED
        BY <3>2, <3>3, <3>4
    <2> QED
      BY <2>1, <2>2
  <1> HIDE DEF Good
  <1>2. T = 0..Len(log)
    BY <1>0, <1>1, Reaches
  <1>3. Good(e)
    BY <1>2
  <1> QED
    BY <1>3 DEF Good

\* One more entry leaves the lines as they are.
LEMMA LineAppend ==
  ASSUME NEW log, Tree(log), NEW x \in Nodes, x.up \in 0..Len(log)
  PROVE  LET f == Append(log, x)
             n == Len(log) + 1
         IN  /\ Tree(f) /\ Len(f) = n /\ f[n] = x
             /\ \A e \in 1..Len(log) : f[e] = log[e]
             /\ \A e \in 0..Len(log) : Lineage(f)[e] = Lineage(log)[e]
             /\ Lineage(f)[n] = {n} \cup Lineage(log)[x.up]
  <1> PICK f : f = Append(log, x)
    OBVIOUS
  <1> PICK n : n = Len(log) + 1
    OBVIOUS
  <1>0. log \in Seq(Nodes) /\ \A e \in 1..Len(log) : log[e].up < e
    BY DEF Tree
  <1>1. /\ f \in Seq(Nodes) /\ Len(f) = n /\ n \in Nat /\ Len(log) \in Nat /\ f[n] = x
        /\ \A e \in 1..Len(log) : f[e] = log[e]
    BY <1>0
  <1>2. Tree(f)
    <2>1. \A e \in 1..n : f[e].up < e
      BY <1>0, <1>1
    <2> QED
      BY <1>1, <2>1 DEF Tree
  <1>3. \A e \in 1..Len(log) : log[e].up \in 0..(e - 1) /\ log[e].up \in 0..Len(log)
    BY NodeFields
  <1> DEFINE Same(e) == Lineage(f)[e] = Lineage(log)[e]
  <1> PICK T : T = {e \in 0..Len(log) : Same(e)}
    OBVIOUS
  <1>4. ASSUME NEW e \in 0..Len(log), \A i \in 0..Len(log) : i < e => i \in T
        PROVE  Same(e)
    <2>1. CASE e = 0
      BY <1>2, <2>1, LineIs
    <2>2. CASE e # 0
      <3>1. e \in 1..Len(log) /\ e \in 1..Len(f)
        BY <1>1, <2>2
      <3>2. log[e].up < e /\ log[e].up \in 0..Len(log)
        BY <1>0, <1>3, <3>1
      <3>3. Same(log[e].up)
        BY <1>4, <3>2
      <3>4. f[e].up = log[e].up
        BY <1>1, <3>1
      <3>5. /\ Lineage(f)[e] = {e} \cup Lineage(f)[f[e].up]
            /\ Lineage(log)[e] = {e} \cup Lineage(log)[log[e].up]
        BY <1>2, <3>1, LineIs
      <3> QED
        BY <3>3, <3>4, <3>5
    <2> QED
      BY <2>1, <2>2
  <1> HIDE DEF Same
  <1>5. T = 0..Len(log)
    <2>1. Len(log) \in Nat /\ T \in SUBSET (0..Len(log))
      BY <1>1
    <2>2. \A e \in 0..Len(log) : (\A i \in 0..Len(log) : i < e => i \in T) => e \in T
      BY <1>4
    <2> QED
      BY <2>1, <2>2, Reaches
  <1>6. \A e \in 0..Len(log) : Lineage(f)[e] = Lineage(log)[e]
    BY <1>5 DEF Same
  <1>7. Lineage(f)[n] = {n} \cup Lineage(log)[x.up]
    <2>1. n \in 1..Len(f) /\ f[n].up = x.up
      BY <1>1
    <2>2. \A e \in 1..Len(f) : Lineage(f)[e] = {e} \cup Lineage(f)[f[e].up]
      BY <1>2, LineIs
    <2>3. Lineage(f)[n] = {n} \cup Lineage(f)[x.up]
      BY <2>1, <2>2
    <2> QED
      BY <1>6, <2>3
  <1> QED
    BY <1>1, <1>2, <1>6, <1>7

\* A file, and one that goes on from it.
Tasked(log) ==
  \A e \in 1..Len(log) :
    log[e].task <= e /\ (log[e].task = 0 \/ log[log[e].task].task = log[e].task)
Longer(log, f) ==
  /\ Tree(f) /\ Tasked(f) /\ Len(log) \in Nat /\ Len(f) \in Nat /\ Len(log) <= Len(f)
  /\ \A e \in 1..Len(log) : f[e] = log[e]
  /\ \A e \in 0..Len(log) : Lineage(f)[e] = Lineage(log)[e]

\* What task an entry may carry: none, its own, or one that some entry started.
MayCarry(log, t) ==
  t \in 0..(Len(log) + 1) /\ (t = 0 \/ t = Len(log) + 1 \/ log[t].task = t)

LEMMA SameLonger ==
  ASSUME NEW log, Tree(log), Tasked(log)
  PROVE  Longer(log, log)
  BY NodeFields DEF Longer

LEMMA EntryNode ==
  ASSUME NEW up \in Entries, NEW kind \in Kinds, NEW t \in Entries
  PROVE  /\ Entry(up, kind, t) \in Nodes /\ Entry(up, kind, t).up = up
         /\ Entry(up, kind, t).kind = kind /\ Entry(up, kind, t).task = t
  BY DEF Entry, Nodes

Adds(log, f, up, kind, t) ==
  /\ f = Append(log, Entry(up, kind, t)) /\ Len(log) + 1 <= MaxEntries
  /\ up \in 0..Len(log) /\ kind \in Kinds /\ MayCarry(log, t)

LEMMA EntryLonger ==
  ASSUME NEW log, Tree(log), Tasked(log),
         NEW f, NEW up, NEW kind, NEW t, Adds(log, f, up, kind, t)
  PROVE  /\ Longer(log, f) /\ Len(f) = Len(log) + 1 /\ Len(f) \in Nat
         /\ f[Len(f)].kind = kind /\ f[Len(f)].task = t /\ f[Len(f)].up = up
         /\ Lineage(f)[Len(f)] = {Len(f)} \cup Lineage(log)[up]
  <1> PICK n : n = Len(log) + 1
    OBVIOUS
  <1> /\ f = Append(log, Entry(up, kind, t)) /\ Len(log) + 1 <= MaxEntries
      /\ up \in 0..Len(log) /\ kind \in Kinds /\ MayCarry(log, t)
    BY DEF Adds
  <1> PICK x : x = Entry(up, kind, t)
    OBVIOUS
  <1>0. Len(log) \in Nat /\ MaxEntries \in Nat /\ t \in 0..n /\ \A e \in 1..Len(log) : log[e].task \in Nat
    BY NodeFields, BranchAssumption DEF MayCarry
  <1>1. x \in Nodes /\ x.up = up /\ x.kind = kind /\ x.task = t
    <2>1. up \in Entries /\ t \in Entries
      BY <1>0 DEF Entries
    <2> QED
      BY <2>1, EntryNode
  <1>2. /\ Tree(f) /\ Len(f) = n /\ f[n] = x
        /\ \A e \in 1..Len(log) : f[e] = log[e]
        /\ \A e \in 0..Len(log) : Lineage(f)[e] = Lineage(log)[e]
        /\ Lineage(f)[n] = {n} \cup Lineage(log)[up]
    <2>1. x.up \in 0..Len(log) /\ x \in Nodes
      BY <1>1
    <2>2. /\ Tree(f) /\ Len(f) = n /\ f[n] = x
          /\ \A e \in 1..Len(log) : f[e] = log[e]
          /\ \A e \in 0..Len(log) : Lineage(f)[e] = Lineage(log)[e]
          /\ Lineage(f)[n] = {n} \cup Lineage(log)[x.up]
      BY <2>1, LineAppend
    <2>3. x.up = up
      BY <1>1
    <2> QED
      BY <2>2, <2>3
  <1>3. Tasked(f)
    <2> SUFFICES ASSUME NEW e \in 1..n
                 PROVE  f[e].task <= e /\ (f[e].task = 0 \/ f[f[e].task].task = f[e].task)
      BY <1>2 DEF Tasked
    <2>1. CASE e \in 1..Len(log)
      <3>1. log[e].task <= e /\ (log[e].task = 0 \/ log[log[e].task].task = log[e].task)
        BY <2>1 DEF Tasked
      <3>2. log[e].task \in Nat /\ (log[e].task # 0 => log[e].task \in 1..Len(log))
        BY <1>0, <2>1, <3>1
      <3> QED
        BY <1>2, <2>1, <3>1, <3>2
    <2>2. CASE e = n
      <3>1. t # 0 /\ t # n => t \in 1..Len(log) /\ log[t].task = t
        BY <1>0 DEF MayCarry
      <3>2. t <= n
        BY <1>0
      <3> QED
        BY <1>1, <1>2, <2>2, <3>1, <3>2
    <2> QED
      <3>1. e \in 1..Len(log) \/ e = n
        BY <1>0
      <3> QED
        BY <2>1, <2>2, <3>1
  <1>4. n \in Nat /\ Len(log) <= Len(f)
    BY <1>0, <1>2
  <1> QED
    BY <1>0, <1>1, <1>2, <1>3, <1>4 DEF Longer

LEMMA LongerTwice ==
  ASSUME NEW a, NEW b, NEW c, Longer(a, b), Longer(b, c)
  PROVE  Longer(a, c)
  <1>1. /\ Len(a) \in Nat /\ Len(b) \in Nat /\ Len(c) \in Nat /\ Len(a) <= Len(b) /\ Len(b) <= Len(c)
        /\ \A e \in 1..Len(a) : b[e] = a[e] /\ e \in 1..Len(b)
        /\ \A e \in 0..Len(a) : Lineage(b)[e] = Lineage(a)[e] /\ e \in 0..Len(b)
    BY DEF Longer
  <1>2. /\ \A e \in 1..Len(b) : c[e] = b[e]
        /\ \A e \in 0..Len(b) : Lineage(c)[e] = Lineage(b)[e]
        /\ Tree(c) /\ Tasked(c)
    BY DEF Longer
  <1>3. Len(a) <= Len(c)
    BY <1>1
  <1>4. \A e \in 1..Len(a) : c[e] = a[e]
    BY <1>1, <1>2
  <1>5. \A e \in 0..Len(a) : Lineage(c)[e] = Lineage(a)[e]
    BY <1>1, <1>2
  <1> QED
    BY <1>1, <1>2, <1>3, <1>4, <1>5 DEF Longer

-----------------------------------------------------------------------------
(* Types, and what the parts know of each other.                             *)

Places == 0..Len(file)
PlanTyped(p) ==
  p \in [on : BOOLEAN, kind : {"user", "custom"}, task : Places, up : Places,
         gone : SUBSET (1..Len(file)), old : BOOLEAN, leaf : Places]

FileShape == Tree(file) /\ Tasked(file) /\ Len(file) <= MaxEntries
HeadShape == head \in [leaf : Places, seen : Places]

\* A runtime knows its own leaf; while it has a turn it knows the last entry.
RuntimeShape ==
  /\ runtime \in [on : BOOLEAN, leaf : Places, last : Places, turn : {"no", "user", "custom"}]
  /\ runtime.leaf <= runtime.last
  /\ runtime.turn # "no" => runtime.on /\ runtime.last = Len(file)

\* What a retry discards is off the branch it goes back to; that branch is the
\* runtime's, below its leaf, as long as the retry has the runtime's manager.
PlanFits(p) ==
  /\ PlanTyped(p)
  /\ p.task = 0 \/ file[p.task].task = p.task
  /\ p.gone \cap Line(p.up) = {}
  /\ ~p.old => /\ runtime.on /\ p.up < runtime.leaf
               /\ Line(p.up) \subseteq Line(runtime.leaf)
RetryShape == PlanTyped(retry) /\ (retry.on => PlanFits(retry))

NoticeShape ==
  notice \in [told : SUBSET (1..Len(file)), fenced : SUBSET (1..Len(file)),
              unsaved : SUBSET (1..Len(file))]
ChapterShape ==
  chapter \in [mishaps : Nat, shown : SUBSET Places, loose : {"no", "undone", "torn"},
               elsewhere : BOOLEAN, stray : SUBSET (1..Len(file))]

BranchShape ==
  FileShape /\ HeadShape /\ RuntimeShape /\ RetryShape /\ NoticeShape /\ ChapterShape

LEMMA ShapeFields ==
  ASSUME BranchShape
  PROVE  /\ Len(file) \in Nat /\ Tree(file) /\ Tasked(file) /\ Len(file) \in Places /\ 0 \in Places
         /\ head.leaf \in Places /\ head.seen \in Places
         /\ runtime.leaf \in Places /\ runtime.last \in Places /\ runtime.on \in BOOLEAN
         /\ \A e \in Places : e \in Nat /\ e <= Len(file) /\ (e # 0 => e \in 1..Len(file))
         /\ \A e \in 1..Len(file) : e \in Places /\ file[e].up \in Places /\ file[e].up < e
                                    /\ file[e].kind \in Kinds /\ file[e].task \in Nat
                                    /\ file[e] \in Nodes
  <1>1. Tree(file) /\ Tasked(file)
    BY DEF BranchShape, FileShape
  <1>2. /\ Len(file) \in Nat
        /\ \A e \in 1..Len(file) : /\ file[e] \in Nodes /\ file[e].up \in 0..(e - 1)
                                   /\ file[e].up \in 0..Len(file)
                                   /\ file[e].kind \in Kinds /\ file[e].task \in Nat
    BY <1>1, NodeFields
  <1>3. Len(file) \in Places /\ 0 \in Places
    BY <1>2 DEF Places
  <1>4. \A e \in Places : e \in Nat /\ e <= Len(file) /\ (e # 0 => e \in 1..Len(file))
    BY <1>2 DEF Places
  <1>5. \A e \in 1..Len(file) : e \in Places /\ file[e].up \in Places /\ file[e].up < e
    BY <1>2 DEF Places
  <1>6. head.leaf \in Places /\ head.seen \in Places
    BY DEF BranchShape, HeadShape
  <1>7. runtime.leaf \in Places /\ runtime.last \in Places /\ runtime.on \in BOOLEAN
    BY DEF BranchShape, RuntimeShape
  <1> QED
    BY <1>1, <1>2, <1>3, <1>4, <1>5, <1>6, <1>7

LEMMA LineFacts ==
  ASSUME BranchShape
  PROVE  /\ Line(0) = {}
         /\ \A e \in Places : /\ Line(e) \subseteq 1..e /\ Line(e) \subseteq 1..Len(file)
                              /\ e # 0 => e \in Line(e)
                              /\ \A i \in Line(e) : Line(i) \subseteq Line(e)
         /\ \A e \in 1..Len(file) : /\ Line(e) = {e} \cup Line(file[e].up)
                                    /\ Line(file[e].up) \subseteq Line(e)
  <1>1. Tree(file) /\ Len(file) \in Nat
    BY ShapeFields
  <1>2. Line(0) = {} /\ \A e \in 1..Len(file) : Line(e) = {e} \cup Line(file[e].up)
    BY <1>1, LineIs DEF Line
  <1>3. ASSUME NEW e \in Places
        PROVE  /\ Line(e) \subseteq 1..e /\ Line(e) \subseteq 1..Len(file)
               /\ e # 0 => e \in Line(e)
               /\ \A i \in Line(e) : Line(i) \subseteq Line(e)
    <2>1. /\ Lineage(file)[e] \subseteq 1..e
          /\ e # 0 => e \in Lineage(file)[e]
          /\ \A i \in Lineage(file)[e] : Lineage(file)[i] \subseteq Lineage(file)[e]
      BY <1>1, LineBelow DEF Places
    <2>2. 1..e \subseteq 1..Len(file)
      BY <1>1 DEF Places
    <2> QED
      BY <2>1, <2>2 DEF Line
  <1> QED
    BY <1>2, <1>3

LEMMA ProjectedPlace ==
  ASSUME BranchShape
  PROVE  Projected \in Places /\ Projected \in {Len(file), head.leaf}
  <1>1. Projected \in {Len(file), head.leaf}
    BY DEF Projected
  <1> QED
    BY <1>1, ShapeFields

\* What a discarded entry started is not on the branch that is kept: there it would
\* have been started by an entry that is kept.
LEMMA PlanMade ==
  ASSUME BranchShape, runtime.on, NEW kind \in {"user", "custom"}, NEW i \in Inputs(kind)
  PROVE  PlanFits(Plan(i)) /\ Plan(i).on /\ ~Plan(i).old
  <1> PICK u : u = file[i].up
    OBVIOUS
  <1>1. i \in Line(runtime.leaf) /\ file[i].kind = kind
    BY DEF Inputs
  <1>2. i \in 1..Len(file) /\ i <= runtime.leaf /\ runtime.leaf \in Nat /\ i \in Places
    BY <1>1, ShapeFields, LineFacts
  <1>3. /\ u \in Places /\ u < i /\ u \in Nat /\ i \in Nat /\ Line(u) \subseteq Line(i)
        /\ Line(i) \subseteq Line(runtime.leaf)
    BY <1>1, <1>2, ShapeFields, LineFacts
  <1>4. /\ Line(runtime.leaf) \subseteq 1..Len(file) /\ Line(u) \subseteq 1..Len(file)
        /\ \A e \in 1..Len(file) : file[e].task \in Nat /\ file[e].task <= e
                                   /\ (file[e].task # 0 => file[file[e].task].task = file[e].task)
    BY <1>3, ShapeFields, LineFacts DEF Tasked
  <1> PICK gone : gone = Discarded(i, runtime.leaf)
    OBVIOUS
  <1>5. \A t \in gone : /\ t # 0 /\ t \notin TasksOf(Line(u))
                        /\ \E e \in 1..Len(file) : t = file[e].task
    BY <1>4 DEF Discarded, TasksOf
  <1>6. gone \subseteq 1..Len(file)
    <2>1. Len(file) \in Nat
      BY ShapeFields
    <2> QED
      BY <1>4, <1>5, <2>1
  <1>7. gone \cap Line(u) = {}
    <2> SUFFICES ASSUME NEW t \in gone, t \in Line(u) PROVE FALSE
      OBVIOUS
    <2>1. file[t].task = t /\ t # 0
      BY <1>4, <1>5
    <2>2. t \in TasksOf(Line(u))
      BY <2>1 DEF TasksOf
    <2> QED
      BY <1>5, <2>2
  <1>8. file[i].task \in Places /\ (file[i].task = 0 \/ file[file[i].task].task = file[i].task)
    <2>1. Len(file) \in Nat /\ file[i].task \in Nat /\ file[i].task <= i
      BY <1>2, <1>4, ShapeFields
    <2> QED
      BY <1>2, <1>4, <2>1 DEF Places
  <1>9. Plan(i) = [on |-> TRUE, kind |-> kind, task |-> file[i].task, up |-> u, gone |-> gone,
                   old |-> FALSE, leaf |-> 0]
    BY <1>1 DEF Plan
  <1>10. PlanTyped(Plan(i))
    BY <1>3, <1>6, <1>8, <1>9, ShapeFields DEF PlanTyped
  <1>11. u < runtime.leaf
    BY <1>2, <1>3
  <1>12. Line(u) \subseteq Line(runtime.leaf)
    BY <1>3
  <1> QED
    BY <1>7, <1>8, <1>9, <1>10, <1>11, <1>12 DEF PlanFits

LEMMA PlanTaken ==
  ASSUME BranchShape, NEW p \in Plans
  PROVE  PlanFits(p) /\ AtRest /\ (p.old => retry.on /\ p = retry)
  <1>1. AtRest
    BY DEF Plans
  <1>2. CASE retry.on
    BY <1>1, <1>2 DEF Plans, BranchShape, RetryShape
  <1>3. CASE ~retry.on
    <2>1. PICK i \in Inputs("custom") : p = Plan(i)
      BY <1>1, <1>3 DEF Plans
    <2>2. PlanFits(Plan(i)) /\ ~Plan(i).old
      BY <1>1, <2>1, PlanMade DEF AtRest
    <2> QED
      BY <1>1, <2>1, <2>2
  <1> QED
    BY <1>2, <1>3

-----------------------------------------------------------------------------
(* The shape is kept by each action.                                         *)

LEMMA Grown ==
  ASSUME BranchShape, Longer(file, file')
  PROVE  /\ Len(file') \in Nat /\ Len(file) <= Len(file') /\ Tree(file') /\ Tasked(file')
         /\ \A e \in Places : e \in Places' /\ Line(e)' = Line(e)
         /\ \A e \in 1..Len(file) : e \in 1..Len(file') /\ file'[e] = file[e]
         /\ Line(0)' = {} /\ \A e \in 1..Len(file') : Line(e)' = {e} \cup Line(file[e].up)'
         /\ 0 \in Places' /\ Len(file') \in Places'
  <1>1. /\ Len(file) \in Nat /\ Len(file') \in Nat /\ Len(file) <= Len(file')
        /\ Tree(file') /\ Tasked(file')
        /\ \A e \in 1..Len(file) : file'[e] = file[e]
        /\ \A e \in 0..Len(file) : Lineage(file')[e] = Lineage(file)[e]
    BY DEF Longer
  <1>2. \A e \in Places : e \in Places' /\ Line(e)' = Line(e)
    BY <1>1 DEF Places, Line
  <1>3. \A e \in 1..Len(file) : e \in 1..Len(file') /\ file'[e] = file[e]
    BY <1>1
  <1>4. Line(0)' = {} /\ \A e \in 1..Len(file') : Line(e)' = {e} \cup Line(file[e].up)'
    <2> PICK f : f = file'
      OBVIOUS
    <2>1. /\ Lineage(f)[0] = {}
          /\ \A e \in 1..Len(f) : Lineage(f)[e] = {e} \cup Lineage(f)[f[e].up]
      BY <1>1, LineIs
    <2> QED
      BY <2>1 DEF Line
  <1>5. 0 \in Places' /\ Len(file') \in Places'
    BY <1>1 DEF Places
  <1> QED
    BY <1>1, <1>2, <1>3, <1>4, <1>5

LEMMA SameFile ==
  ASSUME BranchShape, UNCHANGED file
  PROVE  /\ Longer(file, file') /\ FileShape' /\ Places' = Places
         /\ \A e \in Places : Line(e)' = Line(e)
  <1>1. Longer(file, file')
    BY ShapeFields, SameLonger
  <1> QED
    BY <1>1 DEF BranchShape, FileShape, Places, Line

\* A plan still fits when the runtime it has the manager of goes on from its leaf.
LEMMA PlanKept ==
  ASSUME BranchShape, Longer(file, file'), NEW p, PlanFits(p),
         ~p.old => /\ runtime'.on /\ runtime'.leaf \in Nat /\ runtime.leaf <= runtime'.leaf
                   /\ Line(runtime.leaf) \subseteq Line(runtime.leaf)'
  PROVE  PlanFits(p)'
  <1>1. /\ Len(file) \in Nat /\ Len(file') \in Nat /\ Len(file) <= Len(file')
        /\ \A e \in Places : e \in Places' /\ Line(e)' = Line(e) /\ e \in Nat /\ (e # 0 => e \in 1..Len(file))
        /\ \A e \in 1..Len(file) : e \in 1..Len(file') /\ file'[e] = file[e]
    BY Grown, ShapeFields
  <1>2. /\ p \in [on : BOOLEAN, kind : {"user", "custom"}, task : Places, up : Places,
                  gone : SUBSET (1..Len(file)), old : BOOLEAN, leaf : Places]
        /\ p.task = 0 \/ file[p.task].task = p.task
        /\ p.gone \cap Line(p.up) = {}
        /\ ~p.old => /\ runtime.on /\ p.up < runtime.leaf
                     /\ Line(p.up) \subseteq Line(runtime.leaf)
    BY DEF PlanFits, PlanTyped
  <1>3. p.task \in Places /\ p.up \in Places
    BY <1>2
  <1>4. PlanTyped(p)'
    <2>1. Places \subseteq Places' /\ 1..Len(file) \subseteq 1..Len(file')
      BY <1>1
    <2> QED
      BY <1>2, <2>1 DEF PlanTyped
  <1>5. p.task = 0 \/ file'[p.task].task = p.task
    BY <1>1, <1>2, <1>3
  <1>6. Line(p.up)' = Line(p.up)
    BY <1>1, <1>3
  <1>7. ~p.old => p.up < runtime'.leaf
    <2>1. p.up \in Nat /\ runtime.leaf \in Nat
      BY <1>1, <1>3, ShapeFields
    <2> QED
      BY <1>2, <2>1
  <1>8. ~p.old => Line(p.up)' \subseteq Line(runtime.leaf)'
    BY <1>2, <1>6
  <1>9. p.gone \cap Line(p.up)' = {}
    BY <1>2, <1>6
  <1> QED
    BY <1>4, <1>5, <1>7, <1>8, <1>9 DEF PlanFits

LEMMA NoPlan ==
  ASSUME BranchShape, Longer(file, file'), retry' = NoRetry
  PROVE  RetryShape'
  <1>1. 0 \in Places'
    BY Grown
  <1> QED
    BY <1>1 DEF NoRetry, RetryShape, PlanTyped

LEMMA RetryKept ==
  ASSUME BranchShape, Longer(file, file'), retry' = retry,
         runtime.on => /\ runtime'.on /\ runtime'.leaf \in Nat /\ runtime.leaf <= runtime'.leaf
                       /\ Line(runtime.leaf) \subseteq Line(runtime.leaf)'
  PROVE  RetryShape'
  <1>1. PlanTyped(retry) /\ (retry.on => PlanFits(retry))
    BY DEF BranchShape, RetryShape
  <1>2. PlanTyped(retry)'
    <2>1. Places \subseteq Places' /\ 1..Len(file) \subseteq 1..Len(file')
      BY Grown
    <2> QED
      BY <1>1, <2>1 DEF PlanTyped
  <1>3. ASSUME retry.on PROVE PlanFits(retry)'
    <2>1. ~retry.old => runtime.on
      BY <1>1, <1>3 DEF PlanFits
    <2> PICK p : p = retry
      OBVIOUS
    <2>2. PlanFits(p)'
      BY <1>1, <1>3, <2>1, PlanKept
    <2> QED
      BY <2>2 DEF PlanFits, PlanTyped
  <1> QED
    BY <1>2, <1>3 DEF RetryShape

LEMMA NoticeKept ==
  ASSUME BranchShape, Longer(file, file'), notice' = notice
  PROVE  NoticeShape'
  <1>1. 1..Len(file) \subseteq 1..Len(file')
    BY Grown
  <1> QED
    BY <1>1 DEF BranchShape, NoticeShape

LEMMA ChapterKept ==
  ASSUME BranchShape, Longer(file, file'), NEW n \in Nat, NEW l \in {"no", "undone", "torn"},
         chapter' = [chapter EXCEPT !.mishaps = n, !.loose = l]
  PROVE  ChapterShape'
  <1>1. Places \subseteq Places' /\ 1..Len(file) \subseteq 1..Len(file')
    BY Grown
  <1> QED
    BY <1>1 DEF BranchShape, ChapterShape

LEMMA ChapterSame ==
  ASSUME BranchShape, Longer(file, file'), chapter' = chapter
  PROVE  ChapterShape'
  <1>1. Places \subseteq Places' /\ 1..Len(file) \subseteq 1..Len(file')
    BY Grown
  <1> QED
    BY <1>1 DEF BranchShape, ChapterShape

LEMMA HeadKept ==
  ASSUME BranchShape, Longer(file, file'), head' = head
  PROVE  HeadShape'
  BY Grown DEF BranchShape, HeadShape

\* The runtime's manager appends.
LEMMA ExtendsDoes ==
  ASSUME BranchShape, runtime.on, NEW kind \in Kinds, NEW t, MayCarry(file, t),
         kind = "answer" => runtime.turn # "no", Extends(kind, t),
         NEW n, n = Len(file) + 1
  PROVE  /\ Longer(file, file') /\ FileShape' /\ RuntimeShape' /\ Len(file') = n /\ n \in Nat
         /\ runtime'.on /\ runtime'.leaf = n /\ runtime'.last = n
         /\ runtime.leaf \in Nat /\ runtime.leaf <= n
         /\ Line(n)' = {n} \cup Line(runtime.leaf)
         /\ Line(runtime.leaf) \subseteq Line(runtime.leaf)'
         /\ file'[n].kind = kind /\ file'[n].task = t /\ file'[n].up = runtime.leaf
         /\ n \in Places'
  <1>1. /\ Tree(file) /\ Tasked(file) /\ Len(file) \in Nat /\ Len(file) + 1 <= MaxEntries
        /\ runtime.leaf \in 0..Len(file) /\ runtime.leaf \in Nat
    BY ShapeFields DEF Extends, Room, Places
  <1>2. file' = Append(file, Entry(runtime.leaf, kind, t))
    BY DEF Extends
  <1>3. /\ Longer(file, file') /\ Len(file') = n /\ n \in Nat
        /\ file'[n].kind = kind /\ file'[n].task = t /\ file'[n].up = runtime.leaf
        /\ Lineage(file')[n] = {n} \cup Lineage(file)[runtime.leaf]
    <2> PICK up : up = runtime.leaf
      OBVIOUS
    <2> PICK f : f = file'
      OBVIOUS
    <2>1. Adds(file, f, up, kind, t)
      BY <1>1, <1>2 DEF Adds
    <2>2. /\ Longer(file, f) /\ Len(f) = n /\ n \in Nat
          /\ f[n].kind = kind /\ f[n].task = t /\ f[n].up = up
          /\ Lineage(f)[n] = {n} \cup Lineage(file)[up]
      BY <1>1, <2>1, EntryLonger
    <2> QED
      BY <2>2
  <1>4. FileShape'
    BY <1>1, <1>3 DEF FileShape, Longer
  <1>5. /\ runtime' = [runtime EXCEPT !.leaf = n, !.last = n,
                         !.turn = IF @ = "no" /\ kind # "note" THEN kind ELSE @]
        /\ runtime \in [on : BOOLEAN, leaf : Places, last : Places, turn : {"no", "user", "custom"}]
    BY <1>3 DEF Extends, BranchShape, RuntimeShape
  <1>6. Places \subseteq Places' /\ n \in Places'
    BY <1>3, Grown
  <1>7. /\ runtime'.on /\ runtime'.leaf = n /\ runtime'.last = n
        /\ runtime'.turn \in {"no", "user", "custom"}
    BY <1>5 DEF Kinds
  <1>8. RuntimeShape'
    <2>1. runtime' \in [on : BOOLEAN, leaf : Places', last : Places', turn : {"no", "user", "custom"}]
      BY <1>5, <1>6, <1>7
    <2> QED
      BY <1>3, <1>7, <2>1 DEF RuntimeShape
  <1>9. Line(n)' = {n} \cup Line(runtime.leaf)
    BY <1>3 DEF Line
  <1>10. runtime.leaf <= n
    BY <1>1
  <1>11. Line(runtime.leaf) \subseteq Line(runtime.leaf)'
    <2>1. Line(runtime.leaf)' = Line(n)'
      BY <1>7 DEF Line
    <2> QED
      BY <1>9, <2>1
  <1> QED
    BY <1>1, <1>3, <1>4, <1>6, <1>7, <1>8, <1>9, <1>10, <1>11

\* What the branch of an appending manager does not disturb.
LEMMA ExtendsKeeps ==
  ASSUME BranchShape, runtime.on, NEW kind \in Kinds, NEW t, MayCarry(file, t),
         kind = "answer" => runtime.turn # "no", Extends(kind, t)
  PROVE  /\ FileShape' /\ RuntimeShape'
         /\ retry' = retry => RetryShape'
         /\ notice' = notice => NoticeShape'
         /\ chapter' = chapter => ChapterShape'
         /\ head' = head => HeadShape'
         /\ head' = Synced => HeadShape'
  <1>1. /\ Longer(file, file') /\ FileShape' /\ RuntimeShape' /\ runtime'.on
        /\ runtime.leaf \in Nat /\ runtime.leaf <= runtime'.leaf /\ runtime'.leaf \in Nat
        /\ runtime'.leaf \in Places' /\ runtime'.last \in Places'
        /\ Line(runtime.leaf) \subseteq Line(runtime.leaf)'
    BY ExtendsDoes
  <1>2. head' = Synced => HeadShape'
    BY <1>1 DEF Synced, HeadShape
  <1> QED
    BY <1>1, <1>2, RetryKept, NoticeKept, ChapterSame, HeadKept

LEMMA AddsDoes ==
  ASSUME BranchShape, NEW up, NEW kind, NEW t, Adds(file, file', up, kind, t),
         NEW n, n = Len(file) + 1
  PROVE  /\ Longer(file, file') /\ FileShape' /\ Len(file') = n /\ n \in Nat /\ n \in Places'
         /\ Line(n)' = {n} \cup Line(up)
         /\ file'[n].kind = kind /\ file'[n].task = t /\ file'[n].up = up
  <1> PICK f : f = file'
    OBVIOUS
  <1>1. Tree(file) /\ Tasked(file) /\ Len(file) + 1 <= MaxEntries
    BY ShapeFields DEF Adds
  <1>2. Adds(file, f, up, kind, t)
    OBVIOUS
  <1>3. /\ Longer(file, f) /\ Len(f) = n /\ n \in Nat
        /\ f[n].kind = kind /\ f[n].task = t /\ f[n].up = up
        /\ Lineage(f)[n] = {n} \cup Lineage(file)[up]
    BY <1>1, <1>2, EntryLonger
  <1>4. FileShape'
    BY <1>1, <1>3 DEF FileShape, Longer
  <1>5. n \in Places'
    BY <1>3 DEF Places
  <1> QED
    BY <1>3, <1>4, <1>5 DEF Line

\* One entry more or none, as the writes of a retry that fails leave it.
Noted(log, f, yes, up) == IF yes THEN Adds(log, f, up, "note", 0) ELSE f = log

LEMMA NotedLonger ==
  ASSUME NEW log, Tree(log), Tasked(log), NEW f, NEW yes, NEW up, Noted(log, f, yes, up)
  PROVE  /\ Longer(log, f)
         /\ yes => /\ Len(f) = Len(log) + 1 /\ Len(f) \in Nat
                   /\ f[Len(f)].kind = "note" /\ f[Len(f)].task = 0 /\ f[Len(f)].up = up
                   /\ Lineage(f)[Len(f)] = {Len(f)} \cup Lineage(log)[up]
         /\ ~yes => f = log
  <1>1. CASE yes
    <2>1. Adds(log, f, up, "note", 0)
      BY <1>1 DEF Noted
    <2> QED
      BY <1>1, <2>1, EntryLonger
  <1>2. CASE ~yes
    BY <1>2, SameLonger DEF Noted
  <1> QED
    BY <1>1, <1>2

LEMMA CarriesNone ==
  ASSUME NEW log, Tree(log)
  PROVE  MayCarry(log, 0)
  BY NodeFields DEF MayCarry

LEMMA ReopenedKept ==
  ASSUME BranchShape, Longer(file, file'), NEW at, at \in Places', chapter' = Reopened(at)
  PROVE  ChapterShape'
  <1>1. Places \subseteq Places' /\ 1..Len(file) \subseteq 1..Len(file')
    BY Grown
  <1>2. PICK new \in SUBSET (1..Len(file)) :
          chapter' = [chapter EXCEPT !.loose = "no", !.shown = {at}, !.stray = @ \cup new]
    <2>1. Untold \cap UNION {Line(e) \ Line(Projected) : e \in chapter.shown} \in SUBSET (1..Len(file))
      BY DEF Untold
    <2> QED
      BY <2>1 DEF Reopened
  <1> PICK stray, shown : stray = chapter.stray \cup new /\ shown = {at}
    OBVIOUS
  <1>3. stray \in SUBSET (1..Len(file')) /\ shown \in SUBSET Places'
    BY <1>1, <1>2 DEF BranchShape, ChapterShape
  <1>4. chapter' = [chapter EXCEPT !.loose = "no", !.shown = shown, !.stray = stray]
    BY <1>2
  <1>5. chapter \in [mishaps : Nat, shown : SUBSET Places, loose : {"no", "undone", "torn"},
                    elsewhere : BOOLEAN, stray : SUBSET (1..Len(file))]
    BY DEF BranchShape, ChapterShape
  <1> QED
    BY <1>3, <1>4, <1>5 DEF ChapterShape

LEMMA LosesKept ==
  ASSUME BranchShape, Longer(file, file'), NEW shown \in SUBSET Places', Loses(shown)
  PROVE  NoticeShape' /\ ChapterShape'
  <1>1. Places \subseteq Places' /\ 1..Len(file) \subseteq 1..Len(file')
    BY Grown
  <1>2. PICK lost \in {{}, notice.unsaved} :
          /\ notice' = [notice EXCEPT !.fenced = @ \ lost, !.unsaved = {}]
          /\ chapter' = [chapter EXCEPT !.mishaps = @ + 1, !.stray = @ \cup lost, !.shown = shown]
    BY DEF Loses
  <1>3. lost \subseteq 1..Len(file)
    BY <1>2 DEF BranchShape, NoticeShape
  <1>4. NoticeShape'
    BY <1>1, <1>2, <1>3 DEF BranchShape, NoticeShape
  <1>5. ChapterShape'
    <2> PICK stray, n : stray = chapter.stray \cup lost /\ n = chapter.mishaps + 1
      OBVIOUS
    <2>0. n \in Nat
      BY DEF BranchShape, ChapterShape
    <2>1. stray \in SUBSET (1..Len(file'))
      BY <1>1, <1>3 DEF BranchShape, ChapterShape
    <2>2. chapter \in [mishaps : Nat, shown : SUBSET Places, loose : {"no", "undone", "torn"},
                      elsewhere : BOOLEAN, stray : SUBSET (1..Len(file))]
      BY DEF BranchShape, ChapterShape
    <2>3. chapter' = [chapter EXCEPT !.mishaps = n, !.stray = stray, !.shown = shown]
      BY <1>2
    <2> QED
      BY <2>0, <2>1, <2>2, <2>3 DEF ChapterShape
  <1> QED
    BY <1>4, <1>5

LEMMA OpensShape ==
  ASSUME BranchShape, Opens
  PROVE  BranchShape'
  <1>1. Longer(file, file') /\ FileShape' /\ Places' = Places
    BY SameFile DEF Opens
  <1>2. Projected \in Places /\ Len(file) \in Places /\ Projected <= Len(file)
    BY ProjectedPlace, ShapeFields
  <1>3. RuntimeShape' /\ HeadShape'
    <2>1. runtime' = [on |-> TRUE, leaf |-> Projected, last |-> Len(file), turn |-> "no"] /\ head' = Synced
      BY DEF Opens
    <2> QED
      BY <1>1, <1>2, <2>1 DEF Synced, RuntimeShape, HeadShape
  <1>4. RetryShape' /\ NoticeShape'
    BY <1>1, RetryKept, NoticeKept DEF Opens
  <1>5. ChapterShape'
    <2> PICK at : at = Projected
      OBVIOUS
    <2>1. at \in Places' /\ chapter' = Reopened(at)
      BY <1>1, <1>2 DEF Opens
    <2> QED
      BY <1>1, <2>1, ReopenedKept
  <1> QED
    BY <1>1, <1>3, <1>4, <1>5 DEF BranchShape

LEMMA ReadsBranchShape ==
  ASSUME BranchShape, ReadsBranch
  PROVE  BranchShape'
  <1>1. Longer(file, file') /\ FileShape' /\ Places' = Places
    BY SameFile DEF ReadsBranch
  <1>2. Projected \in Places /\ Len(file) \in Places
    BY ProjectedPlace, ShapeFields
  <1>3. HeadShape'
    BY <1>1, <1>2 DEF ReadsBranch, HeadShape
  <1>4. RuntimeShape'
    BY <1>1 DEF ReadsBranch, BranchShape, RuntimeShape
  <1>5. RetryShape' /\ NoticeShape' /\ ChapterShape'
    <2>1. Line(runtime.leaf)' = Line(runtime.leaf) /\ runtime.leaf \in Nat
      BY SameFile, ShapeFields DEF ReadsBranch, Line
    <2> QED
      BY <1>1, <2>1, RetryKept, NoticeKept, ChapterSame DEF ReadsBranch
  <1> QED
    BY <1>1, <1>3, <1>4, <1>5 DEF BranchShape

LEMMA LetsGoShape ==
  ASSUME BranchShape, LetsGo
  PROVE  BranchShape'
  <1>1. Longer(file, file') /\ FileShape' /\ Places' = Places
    BY SameFile DEF LetsGo
  <1>2. HeadShape' /\ NoticeShape'
    BY <1>1, HeadKept, NoticeKept DEF LetsGo
  <1>3. RuntimeShape'
    BY <1>1 DEF LetsGo, AtRest, BranchShape, RuntimeShape
  <1>4. ChapterShape'
    BY <1>1 DEF LetsGo, BranchShape, RuntimeShape, ChapterShape
  <1>5. RetryShape'
    <2>1. CASE retry.on /\ ~retry.old
      <3> PICK p : p = [retry EXCEPT !.old = TRUE, !.leaf = runtime.leaf]
        OBVIOUS
      <3>1. PlanTyped(retry) /\ PlanFits(retry) /\ runtime.leaf \in Places
        BY <2>1, ShapeFields DEF BranchShape, RetryShape
      <3>2. /\ PlanTyped(p) /\ p.old /\ p.on
            /\ p.task = retry.task /\ p.gone = retry.gone /\ p.up = retry.up
        BY <2>1, <3>1 DEF PlanTyped
      <3>3. PlanFits(p)
        BY <3>1, <3>2 DEF PlanFits
      <3>4. PlanFits(p)'
        BY <1>1, <3>2, <3>3, PlanKept
      <3> QED
        BY <2>1, <3>4 DEF LetsGo, RetryShape, PlanFits, PlanTyped
    <2>2. CASE ~(retry.on /\ ~retry.old)
      <3>1. retry' = retry
        BY <2>2 DEF LetsGo
      <3> PICK p : p = retry
        OBVIOUS
      <3>2. PlanTyped(p) /\ (p.on => PlanFits(p))
        BY DEF BranchShape, RetryShape
      <3>3. p.on => PlanFits(p)'
        BY <1>1, <2>2, <3>2, PlanKept
      <3>4. PlanTyped(p)'
        BY <1>1, <3>2 DEF LetsGo, PlanTyped
      <3> QED
        BY <3>1, <3>3, <3>4 DEF RetryShape, PlanFits, PlanTyped
    <2> QED
      BY <2>1, <2>2
  <1> QED
    BY <1>1, <1>2, <1>3, <1>4, <1>5 DEF BranchShape

\* Actions that leave the file and the runtime's leaf alone.
LEMMA StandsShape ==
  ASSUME BranchShape, UNCHANGED file, UNCHANGED runtime
  PROVE  /\ Longer(file, file') /\ FileShape' /\ Places' = Places /\ RuntimeShape'
         /\ retry' = retry => RetryShape'
         /\ retry' = NoRetry => RetryShape'
         /\ notice' = notice => NoticeShape'
         /\ chapter' = chapter => ChapterShape'
         /\ head' = head => HeadShape'
         /\ head' = Synced => HeadShape'
  <1>1. /\ Longer(file, file') /\ FileShape' /\ Places' = Places
        /\ \A e \in Places : Line(e)' = Line(e)
    BY SameFile
  <1>2. RuntimeShape'
    BY <1>1 DEF BranchShape, RuntimeShape
  <1>3. Line(runtime.leaf)' = Line(runtime.leaf) /\ runtime.leaf \in Nat
    BY ShapeFields DEF Line
  <1>4. head' = Synced => HeadShape'
    <2>1. runtime.leaf \in Places /\ runtime.last \in Places
      BY ShapeFields
    <2> QED
      BY <1>1, <2>1 DEF Synced, HeadShape
  <1> QED
    BY <1>1, <1>2, <1>3, <1>4, RetryKept, NoPlan, NoticeKept, ChapterSame, HeadKept

LEMMA TurnEndsShape ==
  ASSUME BranchShape, TurnEnds
  PROVE  BranchShape'
  <1>1. Longer(file, file') /\ FileShape' /\ Places' = Places
    BY SameFile DEF TurnEnds
  <1>2. runtime.leaf \in Places /\ runtime.last \in Places /\ runtime.leaf \in Nat
    BY ShapeFields
  <1>3. RuntimeShape' /\ runtime'.leaf = runtime.leaf /\ runtime'.last = runtime.last
        /\ (runtime.on => runtime'.on)
    BY <1>1 DEF TurnEnds, BranchShape, RuntimeShape
  <1>4. HeadShape'
    <2>1. CASE head' = head
      BY <1>1, <2>1, HeadKept
    <2>2. CASE head' = Synced
      BY <1>1, <1>2, <1>3, <2>2 DEF Synced, HeadShape
    <2> QED
      BY <2>1, <2>2 DEF TurnEnds
  <1>5. ChapterShape'
    BY <1>1 DEF TurnEnds, BranchShape, ChapterShape
  <1>6. RetryShape' /\ NoticeShape'
    <2>1. Line(runtime.leaf)' = Line(runtime.leaf)
      BY <1>3 DEF TurnEnds, Line
    <2> QED
      BY <1>1, <1>2, <1>3, <2>1, RetryKept, NoticeKept DEF TurnEnds
  <1> QED
    BY <1>1, <1>3, <1>4, <1>5, <1>6 DEF BranchShape

LEMMA TurnShape ==
  ASSUME BranchShape, UserTurnStarts \/ Answers
  PROVE  BranchShape'
  <1>1. \E kind \in Kinds : \E t : /\ MayCarry(file, t) /\ Extends(kind, t) /\ runtime.on
                                   /\ (kind = "answer" => runtime.turn # "no")
    <2>0. Tree(file) /\ Len(file) \in Nat
      BY ShapeFields
    <2>1. CASE UserTurnStarts
      <3>1. MayCarry(file, 0) /\ "user" \in Kinds
        BY <2>0, CarriesNone DEF Kinds
      <3> QED
        BY <2>1, <3>1 DEF UserTurnStarts, AtRest
    <2>2. CASE Answers
      <3>1. PICK t \in {0, Len(file) + 1} : Extends("answer", t)
        BY <2>2 DEF Answers
      <3>2. MayCarry(file, t) /\ "answer" \in Kinds
        BY <2>0 DEF MayCarry, Kinds
      <3>3. runtime.turn # "no" /\ runtime.on
        BY <2>2 DEF Answers, BranchShape, RuntimeShape
      <3> QED
        BY <3>1, <3>2, <3>3
    <2> QED
      BY <2>1, <2>2
  <1>2. retry' = retry /\ notice' = notice /\ chapter' = chapter /\ head' = head
    BY DEF UserTurnStarts, Answers
  <1> QED
    BY <1>1, <1>2, ExtendsKeeps DEF BranchShape

LEMMA RecordsShape ==
  ASSUME BranchShape, Records
  PROVE  BranchShape'
  <1>0. Tree(file) /\ Len(file) \in Nat /\ MayCarry(file, 0) /\ "note" \in Kinds
    BY ShapeFields, CarriesNone DEF Kinds
  <1>1. CASE runtime.on /\ Extends("note", 0) /\ head' = Synced
             /\ chapter' = [chapter EXCEPT !.loose = "no"]
    <2> PICK n : n = Len(file) + 1
      OBVIOUS
    <2>1. Longer(file, file')
      BY <1>0, <1>1, ExtendsDoes
    <2>2. ChapterShape'
      BY <1>1, <2>1, Grown DEF BranchShape, ChapterShape
    <2> QED
      BY <1>0, <1>1, <2>2, ExtendsKeeps DEF Records, BranchShape
  <1>2. CASE /\ ~runtime.on /\ Room(1)
             /\ file' = Append(file, Entry(Projected, "note", 0))
             /\ head' = [leaf |-> Len(file'), seen |-> Len(file')]
             /\ chapter' = Reopened(Len(file'))
             /\ UNCHANGED runtime
    <2> PICK n, up : n = Len(file) + 1 /\ up = Projected
      OBVIOUS
    <2>1. Adds(file, file', up, "note", 0)
      BY <1>0, <1>2, ProjectedPlace DEF Adds, Room, Places
    <2>2. Longer(file, file') /\ FileShape' /\ Len(file') = n /\ n \in Places'
      BY <2>1, AddsDoes
    <2>3. HeadShape'
      BY <1>2, <2>2 DEF HeadShape
    <2>4. RuntimeShape'
      BY <1>2, <2>2, Grown DEF BranchShape, RuntimeShape
    <2>5. ChapterShape'
      BY <1>2, <2>2, ReopenedKept
    <2>6. RetryShape' /\ NoticeShape'
      BY <1>2, <2>2, RetryKept, NoticeKept DEF Records
    <2> QED
      BY <2>2, <2>3, <2>4, <2>5, <2>6 DEF BranchShape
  <1> QED
    BY <1>1, <1>2 DEF Records

LEMMA TellsShape ==
  ASSUME BranchShape, NEW t \in Untold, Tells(t)
  PROVE  BranchShape'
  <1>0. MayCarry(file, t) /\ "custom" \in Kinds /\ t \in 1..Len(file)
    BY ShapeFields DEF MayCarry, Untold, Kinds
  <1> PICK n : n = Len(file) + 1
    OBVIOUS
  <1>1. Longer(file, file')
    BY <1>0, ExtendsDoes DEF Tells
  <1>2. /\ FileShape' /\ RuntimeShape'
        /\ retry' = retry => RetryShape'
        /\ head' = head => HeadShape'
    BY <1>0, ExtendsKeeps DEF Tells
  <1>3. NoticeShape'
    <2> PICK known : known = notice.told \cup {t}
      OBVIOUS
    <2>1. known \in SUBSET (1..Len(file')) /\ 1..Len(file) \subseteq 1..Len(file')
      BY <1>0, <1>1, Grown DEF BranchShape, NoticeShape
    <2>2. notice' = [notice EXCEPT !.told = known]
      BY DEF Tells
    <2> QED
      BY <2>1, <2>2 DEF BranchShape, NoticeShape
  <1>4. ChapterShape'
    BY <1>1, Grown DEF Tells, BranchShape, ChapterShape
  <1>5. HeadShape'
    <2>1. CASE head' = [leaf |-> runtime.leaf, seen |-> runtime.last]
      BY <1>1, <2>1, Grown, ShapeFields DEF HeadShape
    <2> QED
      BY <1>2, <2>1 DEF Tells
  <1> QED
    BY <1>2, <1>3, <1>4, <1>5 DEF Tells, BranchShape

LEMMA RetryBeginsShape ==
  ASSUME BranchShape, RetryBegins
  PROVE  BranchShape'
  <1>1. /\ Longer(file, file') /\ FileShape' /\ Places' = Places /\ RuntimeShape'
        /\ NoticeShape' /\ ChapterShape' /\ HeadShape'
    BY StandsShape DEF RetryBegins
  <1>2. RetryShape'
    <2>1. PICK i \in Inputs("user") : retry' = Plan(i)
      BY DEF RetryBegins
    <2> PICK p : p = Plan(i)
      OBVIOUS
    <2>2. PlanFits(p) /\ runtime.on
      BY PlanMade DEF RetryBegins, AtRest
    <2>3. PlanFits(p)'
      <3>1. runtime.leaf \in Nat /\ runtime' = runtime /\ Line(runtime.leaf)' = Line(runtime.leaf)
        BY ShapeFields DEF RetryBegins, Line
      <3> QED
        BY <1>1, <2>2, <3>1, PlanKept
    <2>4. retry' = p
      BY <2>1
    <2> QED
      BY <2>3, <2>4 DEF RetryShape, PlanFits, PlanTyped
  <1> QED
    BY <1>1, <1>2 DEF BranchShape

LEMMA RetryGivenUpShape ==
  ASSUME BranchShape, RetryGivenUp
  PROVE  BranchShape'
  <1>1. /\ Longer(file, file') /\ FileShape' /\ Places' = Places /\ RuntimeShape'
        /\ RetryShape' /\ NoticeShape'
    BY StandsShape DEF RetryGivenUp
  <1>2. HeadShape'
    BY StandsShape DEF RetryGivenUp
  <1>3. ChapterShape'
    BY <1>1 DEF RetryGivenUp, Fit, BranchShape, ChapterShape
  <1> QED
    BY <1>1, <1>2, <1>3 DEF BranchShape

LEMMA RetryRefusedShape ==
  ASSUME BranchShape, NEW p \in Plans, RetryRefused(p)
  PROVE  BranchShape'
  <1>1. /\ Longer(file, file') /\ FileShape' /\ Places' = Places /\ RuntimeShape'
        /\ RetryShape' /\ NoticeShape'
    BY StandsShape DEF RetryRefused
  <1>2. HeadShape'
    BY StandsShape DEF RetryRefused
  <1>3. ChapterShape'
    <2> PICK n, l : /\ n = chapter.mishaps + 1
                    /\ l = IF p.kind = "user" THEN Fit ELSE chapter.loose
      OBVIOUS
    <2>1. n \in Nat /\ l \in {"no", "undone", "torn"}
      BY DEF Fit, BranchShape, ChapterShape
    <2>2. chapter' = [chapter EXCEPT !.mishaps = n, !.loose = l]
      BY DEF RetryRefused
    <2> QED
      BY <1>1, <2>1, <2>2, ChapterKept
  <1> QED
    BY <1>1, <1>2, <1>3 DEF BranchShape

LEMMA CrashShape ==
  ASSUME BranchShape, BranchCrash
  PROVE  BranchShape'
  <1>1. Longer(file, file') /\ FileShape' /\ Places' = Places
    BY SameFile DEF BranchCrash
  <1>2. HeadShape' /\ RetryShape'
    BY <1>1, HeadKept, NoPlan DEF BranchCrash
  <1>3. RuntimeShape'
    BY <1>1 DEF BranchCrash, BranchShape, RuntimeShape
  <1>4. NoticeShape' /\ ChapterShape'
    <2> PICK shown : shown = IF runtime.on THEN {runtime.leaf} ELSE chapter.shown
      OBVIOUS
    <2>1. shown \in SUBSET Places'
      BY <1>1, ShapeFields DEF BranchShape, ChapterShape
    <2> QED
      BY <1>1, <2>1, LosesKept DEF BranchCrash
  <1> QED
    BY <1>1, <1>2, <1>3, <1>4 DEF BranchShape

LEMMA OriginPlace ==
  ASSUME BranchShape, NEW p \in Plans
  PROVE  Origin(p) \in Places /\ p.up \in Places /\ p.task \in Places
         /\ p.gone \in SUBSET (1..Len(file))
         /\ p.kind \in {"user", "custom"} /\ p.old \in BOOLEAN
  BY PlanTaken, ShapeFields DEF PlanFits, PlanTyped, Origin

\* The marker of the reset, and the input that is prompted again.
LEMMA CommitsDoes ==
  ASSUME BranchShape, NEW p \in Plans, RetryCommits(p),
         NEW n, n = Len(file) + 1, NEW m, m = n + 1,
         NEW from, from = IF p.old THEN runtime.leaf ELSE n
  PROVE  /\ Longer(file, file') /\ FileShape' /\ Len(file') = m /\ n \in Nat /\ m \in Nat
         /\ n \in Places' /\ m \in Places'
         /\ file'[n].kind = "note" /\ file'[n].task = 0 /\ file'[n].up = p.up
         /\ file'[m].kind = p.kind /\ file'[m].task = p.task /\ file'[m].up = from
         /\ Line(n)' = {n} \cup Line(p.up)
         /\ \A e \in 1..Len(file') : e \in 1..Len(file) \/ file'[e].kind # "answer"
         /\ Line(m)' = {m} \cup (IF p.old THEN Line(runtime.leaf) ELSE {n} \cup Line(p.up))
  <1>1. /\ Tree(file) /\ Tasked(file) /\ Len(file) \in Nat /\ MaxEntries \in Nat
        /\ Len(file) + 2 <= MaxEntries /\ Len(file) + 1 <= MaxEntries
        /\ runtime.leaf \in 0..Len(file)
    BY ShapeFields, BranchAssumption DEF RetryCommits, Room, Places
  <1>2. /\ p.up \in 0..Len(file) /\ p.task \in 0..Len(file)
        /\ p.task = 0 \/ file[p.task].task = p.task
        /\ p.kind \in Kinds
    BY OriginPlace, PlanTaken DEF Places, PlanFits, Kinds
  <1>3. /\ file' = Append(Append(file, ResetOf(p)),
                          Entry(IF p.old THEN runtime.leaf ELSE Len(Append(file, ResetOf(p))),
                                p.kind, p.task))
    BY DEF RetryCommits
  <1> PICK log, up : log = Append(file, ResetOf(p)) /\ up = p.up
    OBVIOUS
  <1>4. Adds(file, log, up, "note", 0)
    BY <1>1, <1>2, CarriesNone DEF Adds, ResetOf, Kinds
  <1>5. /\ Longer(file, log) /\ Len(log) = n /\ n \in Nat
        /\ log[n].kind = "note" /\ log[n].task = 0 /\ log[n].up = up
        /\ Lineage(log)[n] = {n} \cup Lineage(file)[up]
    <2>1. /\ Longer(file, log) /\ Len(log) = Len(file) + 1 /\ Len(log) \in Nat
          /\ log[Len(log)].kind = "note" /\ log[Len(log)].task = 0 /\ log[Len(log)].up = up
          /\ Lineage(log)[Len(log)] = {Len(log)} \cup Lineage(file)[up]
      BY <1>1, <1>4, EntryLonger
    <2> QED
      BY <2>1
  <1>6. /\ Tree(log) /\ Tasked(log) /\ Len(log) = n /\ n = Len(file) + 1
        /\ \A e \in 1..Len(file) : log[e] = file[e]
        /\ \A e \in 0..Len(file) : Lineage(log)[e] = Lineage(file)[e]
    BY <1>5 DEF Longer
  <1>7. PICK f, kind, t : f = file' /\ kind = p.kind /\ t = p.task
    OBVIOUS
  <1>8. Adds(log, f, from, kind, t)
    <2>1. f = Append(log, Entry(from, kind, t))
      BY <1>3, <1>6, <1>7
    <2>2. Len(log) + 1 <= MaxEntries /\ from \in 0..Len(log)
      BY <1>1, <1>6, BranchAssumption
    <2>3. MayCarry(log, t)
      <3>1. t # 0 => t \in 1..Len(file)
        BY <1>1, <1>2, <1>7
      <3>2. t # 0 => log[t].task = t
        BY <1>2, <1>6, <1>7, <3>1
      <3>3. t \in 0..(Len(log) + 1)
        BY <1>1, <1>2, <1>6, <1>7
      <3> QED
        BY <3>2, <3>3 DEF MayCarry
    <2> QED
      BY <1>2, <1>7, <2>1, <2>2, <2>3 DEF Adds
  <1>9. /\ Longer(log, f) /\ Len(f) = m /\ m \in Nat
        /\ f[m].kind = kind /\ f[m].task = t /\ f[m].up = from
        /\ Lineage(f)[m] = {m} \cup Lineage(log)[from]
    <2>1. /\ Longer(log, f) /\ Len(f) = Len(log) + 1 /\ Len(f) \in Nat
          /\ f[Len(f)].kind = kind /\ f[Len(f)].task = t /\ f[Len(f)].up = from
          /\ Lineage(f)[Len(f)] = {Len(f)} \cup Lineage(log)[from]
      <3>1. Tree(log) /\ Tasked(log)
        BY <1>6
      <3> QED
        BY <1>8, <3>1, EntryLonger, ZenonT(60)
    <2> QED
      BY <1>6, <2>1
  <1>10. Longer(file, f)
    BY <1>5, <1>9, LongerTwice
  <1>11. FileShape'
    <2>1. Len(f) <= MaxEntries
      BY <1>1, <1>9
    <2> QED
      BY <1>10, <1>7, <2>1 DEF Longer, FileShape
  <1>12. f[n] = log[n] /\ Lineage(f)[n] = Lineage(log)[n]
    <2>1. n \in 1..Len(log) /\ n \in 0..Len(log)
      BY <1>1, <1>6
    <2> QED
      BY <1>9, <2>1 DEF Longer
  <1>13. n \in Places' /\ m \in Places'
    BY <1>1, <1>9, <1>7 DEF Places
  <1>14. Line(n)' = {n} \cup Line(p.up)
    BY <1>5, <1>12, <1>7 DEF Line
  <1>15. Lineage(log)[from] = IF p.old THEN Lineage(file)[runtime.leaf] ELSE {n} \cup Lineage(file)[p.up]
    BY <1>1, <1>5, <1>6
  <1>16. Line(m)' = {m} \cup (IF p.old THEN Line(runtime.leaf) ELSE {n} \cup Line(p.up))
    BY <1>9, <1>15, <1>7 DEF Line
  <1>17. \A e \in 1..m : e \in 1..Len(file) \/ f[e].kind # "answer"
    <2> SUFFICES ASSUME NEW e \in 1..m, e \notin 1..Len(file) PROVE f[e].kind # "answer"
      OBVIOUS
    <2>1. e = n \/ e = m
      BY <1>1
    <2>2. p.kind \in {"user", "custom"}
      BY OriginPlace
    <2> QED
      BY <1>5, <1>7, <1>9, <1>12, <2>1, <2>2
  <1> QED
    BY <1>5, <1>7, <1>9, <1>10, <1>11, <1>12, <1>13, <1>14, <1>16, <1>17

LEMMA CommitsShape ==
  ASSUME BranchShape, NEW p \in Plans, RetryCommits(p)
  PROVE  BranchShape'
  <1> PICK n : n = Len(file) + 1
    OBVIOUS
  <1> PICK m, from : m = n + 1 /\ from = IF p.old THEN runtime.leaf ELSE n
    OBVIOUS
  <1>1. Longer(file, file') /\ FileShape' /\ Len(file') = m /\ m \in Places' /\ m \in Nat
    BY CommitsDoes
  <1>2. /\ Places \subseteq Places' /\ 1..Len(file) \subseteq 1..Len(file')
        /\ p.up \in Places /\ p.gone \in SUBSET (1..Len(file)) /\ p.kind \in {"user", "custom"}
        /\ p.old \in BOOLEAN /\ runtime.last \in Places
    BY <1>1, Grown, OriginPlace, ShapeFields
  <1>3. HeadShape'
    BY <1>1, <1>2 DEF RetryCommits, Rewound, HeadShape
  <1>4. RuntimeShape'
    <2>1. /\ runtime' = [runtime EXCEPT !.leaf = m, !.last = m, !.turn = p.kind]
          /\ runtime.on
      BY <1>1, PlanTaken DEF RetryCommits, AtRest
    <2>2. runtime \in [on : BOOLEAN, leaf : Places, last : Places, turn : {"no", "user", "custom"}]
      BY DEF BranchShape, RuntimeShape
    <2>3. /\ runtime' \in [on : BOOLEAN, leaf : Places', last : Places', turn : {"no", "user", "custom"}]
          /\ runtime'.leaf = m /\ runtime'.last = m /\ runtime'.on
      BY <1>1, <1>2, <2>1, <2>2
    <2> QED
      BY <1>1, <2>3 DEF RuntimeShape
  <1>5. RetryShape'
    BY <1>1, NoPlan DEF RetryCommits
  <1>6. NoticeShape'
    <2> PICK fenced, unsaved : fenced = notice.fenced \cup p.gone /\ unsaved = notice.unsaved \cup p.gone
      OBVIOUS
    <2>1. fenced \in SUBSET (1..Len(file')) /\ unsaved \in SUBSET (1..Len(file'))
      BY <1>2 DEF BranchShape, NoticeShape
    <2>2. notice' = [notice EXCEPT !.fenced = fenced, !.unsaved = unsaved]
      BY DEF RetryCommits, FencedAway
    <2> QED
      BY <1>2, <2>1, <2>2 DEF BranchShape, NoticeShape
  <1>7. ChapterShape'
    <2> PICK l, e, s :
          /\ l = IF p.old THEN "torn" ELSE "no"
          /\ e = (chapter.elsewhere \/ p.old)
          /\ s = IF p.old THEN chapter.stray
                 ELSE chapter.stray \cup (Untold \cap (Line(runtime.leaf) \ (Line(p.up) \cup p.gone)))
      OBVIOUS
    <2>1. l \in {"no", "undone", "torn"} /\ e \in BOOLEAN
      OBVIOUS
    <2>2. s \in SUBSET (1..Len(file'))
      BY <1>2 DEF Untold, BranchShape, ChapterShape
    <2>3. chapter' = [chapter EXCEPT !.loose = l, !.elsewhere = e, !.stray = s]
      BY DEF RetryCommits
    <2>4. chapter \in [mishaps : Nat, shown : SUBSET Places, loose : {"no", "undone", "torn"},
                      elsewhere : BOOLEAN, stray : SUBSET (1..Len(file))]
      BY DEF BranchShape, ChapterShape
    <2> QED
      BY <1>2, <2>1, <2>2, <2>3, <2>4 DEF ChapterShape
  <1> QED
    BY <1>1, <1>3, <1>4, <1>5, <1>6, <1>7 DEF BranchShape

LEMMA DiesDoes ==
  ASSUME BranchShape, NEW p \in Plans, NEW marked, RetryDies(p, marked),
         NEW n, n = Len(file) + 1
  PROVE  /\ Longer(file, file') /\ FileShape' /\ n \in Nat
         /\ marked => /\ Len(file') = n /\ n \in Places' /\ Line(n)' = {n} \cup Line(p.up)
                      /\ file'[n].kind = "note" /\ file'[n].task = 0 /\ file'[n].up = p.up
         /\ ~marked => file' = file
  <1>1. Len(file) \in Nat /\ Tree(file)
    BY ShapeFields
  <1>2. CASE marked
    <2> PICK up : up = p.up
      OBVIOUS
    <2>1. Adds(file, file', up, "note", 0)
      BY <1>1, <1>2, OriginPlace, CarriesNone DEF RetryDies, Room, Adds, ResetOf, Places, Kinds
    <2> QED
      BY <1>1, <1>2, <2>1, AddsDoes
  <1>3. CASE ~marked
    <2>1. UNCHANGED file
      BY <1>3 DEF RetryDies
    <2> QED
      BY <1>1, <1>3, <2>1, SameFile
  <1> QED
    BY <1>2, <1>3

LEMMA DiesShape ==
  ASSUME BranchShape, NEW p \in Plans, NEW marked, RetryDies(p, marked)
  PROVE  BranchShape'
  <1> PICK n : n = Len(file) + 1
    OBVIOUS
  <1>1. Longer(file, file') /\ FileShape'
    BY DiesDoes
  <1>2. /\ Places \subseteq Places' /\ p.up \in Places /\ runtime.last \in Places /\ runtime.leaf \in Places
    BY <1>1, Grown, OriginPlace, ShapeFields
  <1>3. HeadShape'
    BY <1>2 DEF RetryDies, Rewound, HeadShape
  <1>4. RuntimeShape'
    BY <1>2, PlanTaken DEF RetryDies, AtRest, BranchShape, RuntimeShape
  <1>5. RetryShape'
    BY <1>1, NoPlan DEF RetryDies
  <1>6. NoticeShape' /\ ChapterShape'
    <2> PICK shown : shown = {runtime.leaf, p.up}
      OBVIOUS
    <2>1. shown \in SUBSET Places' /\ Loses(shown)
      BY <1>2 DEF RetryDies
    <2> QED
      BY <1>1, <2>1, LosesKept
  <1> QED
    BY <1>1, <1>3, <1>4, <1>5, <1>6 DEF BranchShape

\* What the writes of a retry that is undone leave: a marker of the reset, a marker of
\* the leaf that is put back, both or none.
LEMMA UndoneDoes ==
  ASSUME BranchShape, NEW p \in Plans, NEW marked, NEW noted, NEW settled, NEW synced,
         RetryIsUndone(p, marked, noted, settled, synced), NEW n, n = Len(file')
  PROVE  /\ Longer(file, file') /\ FileShape' /\ n \in Nat /\ n \in Places'
         /\ \A e \in 1..n : e \in 1..Len(file) \/ file'[e].kind # "answer"
         /\ noted => /\ n > Len(file) /\ file'[n].kind = "note" /\ file'[n].up = Origin(p)
                     /\ Line(n)' = {n} \cup Line(Origin(p))
         /\ ~noted /\ marked => /\ n = Len(file) + 1 /\ file'[n].kind = "note"
                                /\ Line(n)' = {n} \cup Line(p.up)
         /\ ~noted /\ ~marked => file' = file
  <1>1. /\ Tree(file) /\ Tasked(file) /\ Len(file) \in Nat /\ MaxEntries \in Nat
        /\ Len(file) + 2 <= MaxEntries /\ Len(file) + 1 <= MaxEntries
    BY ShapeFields, BranchAssumption DEF RetryIsUndone, Room
  <1>2. PICK up, from : up = p.up /\ from = Origin(p)
    OBVIOUS
  <1>3. up \in 0..Len(file) /\ from \in 0..Len(file)
    BY <1>2, OriginPlace DEF Places
  <1>4. PICK log : /\ log = IF marked THEN Append(file, Entry(up, "note", 0)) ELSE file
                   /\ file' = IF noted THEN Append(log, Entry(from, "note", 0)) ELSE log
    BY <1>2 DEF RetryIsUndone, ResetOf
  <1>5. Noted(file, log, marked, up)
    BY <1>1, <1>3, <1>4, CarriesNone DEF Noted, Adds, Kinds
  <1>6. /\ Longer(file, log)
        /\ marked => /\ Len(log) = Len(file) + 1 /\ Len(log) \in Nat
                     /\ log[Len(log)].kind = "note"
                     /\ Lineage(log)[Len(log)] = {Len(log)} \cup Lineage(file)[up]
        /\ ~marked => log = file
    BY <1>1, <1>5, NotedLonger
  <1>7. /\ Tree(log) /\ Tasked(log) /\ Len(log) \in Nat /\ Len(file) <= Len(log)
        /\ Len(log) + 1 <= MaxEntries
        /\ from \in 0..Len(log) /\ Lineage(log)[from] = Lineage(file)[from]
        /\ \A e \in 1..Len(log) : e \in 1..Len(file) \/ log[e].kind # "answer"
    <2>1. Len(log) = Len(file) \/ Len(log) = Len(file) + 1
      BY <1>6
    <2>2. /\ Tree(log) /\ Tasked(log) /\ Len(log) \in Nat /\ Len(file) <= Len(log)
          /\ \A e \in 0..Len(file) : Lineage(log)[e] = Lineage(file)[e]
      BY <1>6 DEF Longer
    <2>3. Len(log) + 1 <= MaxEntries /\ from \in 0..Len(log)
      BY <1>1, <1>3, <2>1
    <2>4. \A e \in 1..Len(log) : e \in 1..Len(file) \/ log[e].kind # "answer"
      BY <1>1, <1>6
    <2> QED
      BY <1>3, <2>2, <2>3, <2>4
  <1>8. PICK f : f = file'
    OBVIOUS
  <1>9. Noted(log, f, noted, from)
    <2>1. MayCarry(log, 0)
      BY <1>7, CarriesNone
    <2> QED
      BY <1>4, <1>7, <1>8, <2>1 DEF Noted, Adds, Kinds
  <1>10. /\ Longer(log, f)
         /\ noted => /\ Len(f) = Len(log) + 1 /\ Len(f) \in Nat
                     /\ f[Len(f)].kind = "note" /\ f[Len(f)].up = from
                     /\ Lineage(f)[Len(f)] = {Len(f)} \cup Lineage(log)[from]
         /\ ~noted => f = log
    <2>1. Tree(log) /\ Tasked(log)
      BY <1>7
    <2> QED
      BY <1>9, <2>1, NotedLonger
  <1>11. Longer(file, f)
    BY <1>6, <1>10, LongerTwice
  <1>12. Len(f) \in Nat /\ Tree(f) /\ Tasked(f) /\ \A e \in 1..Len(log) : f[e] = log[e]
    BY <1>10 DEF Longer
  <1>13. Len(f) = Len(log) \/ Len(f) = Len(log) + 1
    BY <1>10
  <1>14. FileShape' /\ n \in Places'
    <2>1. Len(f) <= MaxEntries
      BY <1>1, <1>7, <1>13
    <2> QED
      BY <1>8, <1>12, <2>1 DEF FileShape, Places
  <1>15. \A e \in 1..Len(f) : e \in 1..Len(file) \/ f[e].kind # "answer"
    <2> SUFFICES ASSUME NEW e \in 1..Len(f) PROVE e \in 1..Len(file) \/ f[e].kind # "answer"
      OBVIOUS
    <2>1. CASE e \in 1..Len(log)
      BY <1>7, <1>12, <2>1
    <2>2. CASE e \notin 1..Len(log)
      <3>1. noted /\ e = Len(f)
        BY <1>7, <1>10, <1>12, <2>2
      <3> QED
        BY <1>10, <3>1
    <2> QED
      BY <2>1, <2>2
  <1>16. noted => /\ n > Len(file) /\ f[n].kind = "note" /\ f[n].up = Origin(p)
                  /\ Line(n)' = {n} \cup Line(Origin(p))
    <2>1. noted => n > Len(file)
      BY <1>1, <1>7, <1>8, <1>10
    <2> QED
      BY <1>2, <1>7, <1>8, <1>10, <2>1 DEF Line
  <1>17. ~noted /\ marked => /\ n = Len(file) + 1 /\ f[n].kind = "note"
                             /\ Line(n)' = {n} \cup Line(p.up)
    BY <1>2, <1>6, <1>8, <1>10 DEF Line
  <1>18. ~noted /\ ~marked => file' = file
    BY <1>6, <1>8, <1>10
  <1> QED
    BY <1>8, <1>11, <1>12, <1>14, <1>15, <1>16, <1>17, <1>18

LEMMA UndoneShape ==
  ASSUME BranchShape, NEW p \in Plans, NEW marked, NEW noted, NEW settled, NEW synced,
         RetryIsUndone(p, marked, noted, settled, synced)
  PROVE  BranchShape'
  <1> PICK n : n = Len(file')
    OBVIOUS
  <1>1. Longer(file, file') /\ FileShape' /\ n \in Nat /\ n \in Places'
    BY UndoneDoes
  <1>2. /\ Places \subseteq Places' /\ p.up \in Places' /\ Origin(p) \in Places' /\ p.old \in BOOLEAN
        /\ runtime.last \in Places' /\ runtime.leaf \in Places' /\ runtime.leaf \in Nat
        /\ Len(file) \in Nat /\ Len(file') \in Nat /\ Len(file) <= Len(file')
        /\ runtime.leaf <= Len(file)
    BY <1>1, Grown, OriginPlace, ShapeFields
  <1>3. RuntimeShape'
    <2>0. /\ runtime \in [on : BOOLEAN, leaf : Places, last : Places, turn : {"no", "user", "custom"}]
          /\ runtime.turn = "no" /\ runtime.leaf <= runtime.last
      BY PlanTaken DEF AtRest, BranchShape, RuntimeShape
    <2>1. CASE p.old
      <3>1. runtime' = runtime
        BY <2>1 DEF RetryIsUndone
      <3> QED
        BY <1>2, <2>0, <3>1 DEF RuntimeShape
    <2>2. CASE ~p.old
      <3>1. PICK leaf : leaf = IF noted THEN n ELSE runtime.leaf
        OBVIOUS
      <3>2. runtime' = [runtime EXCEPT !.leaf = leaf, !.last = n]
        BY <2>2, <3>1 DEF RetryIsUndone
      <3>3. leaf \in Places' /\ leaf <= n
        BY <1>1, <1>2, <3>1
      <3> QED
        BY <1>1, <1>2, <2>0, <3>2, <3>3 DEF RuntimeShape
    <2> QED
      BY <2>1, <2>2
  <1>4. HeadShape'
    <2>1. runtime'.leaf \in Places' /\ runtime'.last \in Places'
      BY <1>3 DEF RuntimeShape
    <2>2. head' = Synced \/ head' = Restored(p) \/ head' = Rewound(p)
      BY DEF RetryIsUndone
    <2> QED
      BY <1>2, <2>1, <2>2 DEF Synced, Restored, Rewound, HeadShape
  <1>5. RetryShape' /\ NoticeShape'
    BY <1>1, NoPlan, NoticeKept DEF RetryIsUndone
  <1>6. ChapterShape'
    <2> PICK hits, l :
          /\ hits = 1 + (IF settled THEN 0 ELSE 1) + (IF p.kind = "user" /\ ~synced THEN 1 ELSE 0)
          /\ l = IF synced THEN Fit ELSE IF settled /\ ~p.old THEN "undone" ELSE "torn"
      OBVIOUS
    <2> PICK k : k = chapter.mishaps + hits
      OBVIOUS
    <2>1. k \in Nat /\ l \in {"no", "undone", "torn"}
      BY DEF Fit, BranchShape, ChapterShape
    <2>2. chapter' = [chapter EXCEPT !.mishaps = k, !.loose = l]
      BY DEF RetryIsUndone
    <2> QED
      BY <1>1, <2>1, <2>2, ChapterKept
  <1> QED
    BY <1>1, <1>3, <1>4, <1>5, <1>6 DEF BranchShape

LEMMA ShapeInit ==
  ASSUME InitSessionBranches
  PROVE  BranchShape
  <1>1. /\ file = <<>> /\ head = [leaf |-> 0, seen |-> 0]
        /\ runtime = [on |-> TRUE, leaf |-> 0, last |-> 0, turn |-> "no"]
        /\ retry = NoRetry
        /\ notice = [told |-> {}, fenced |-> {}, unsaved |-> {}]
        /\ chapter = [mishaps |-> 0, shown |-> {0}, loose |-> "no", elsewhere |-> FALSE, stray |-> {}]
    BY DEF InitSessionBranches
  <1>2. Len(file) = 0 /\ file \in Seq(Nodes) /\ 0 \in Places /\ 0 <= MaxEntries
    BY <1>1, BranchAssumption DEF Places
  <1>3. FileShape
    BY <1>2 DEF FileShape, Tree, Tasked
  <1>4. HeadShape /\ RuntimeShape /\ RetryShape
    BY <1>1, <1>2 DEF HeadShape, RuntimeShape, RetryShape, PlanTyped, NoRetry
  <1>5. NoticeShape /\ ChapterShape
    BY <1>1, <1>2 DEF NoticeShape, ChapterShape
  <1> QED
    BY <1>3, <1>4, <1>5 DEF BranchShape

LEMMA ShapeStep ==
  ASSUME BranchShape, [NextSessionBranches]_branchVars
  PROVE  BranchShape'
  <1>1. CASE Opens
    BY <1>1, OpensShape
  <1>2. CASE ReadsBranch
    BY <1>2, ReadsBranchShape
  <1>3. CASE LetsGo
    BY <1>3, LetsGoShape
  <1>4. CASE UserTurnStarts \/ Answers
    BY <1>4, TurnShape
  <1>5. CASE TurnEnds
    BY <1>5, TurnEndsShape
  <1>6. CASE Records
    BY <1>6, RecordsShape
  <1>7. CASE \E t \in Untold : Tells(t)
    BY <1>7, TellsShape
  <1>8. CASE RetryBegins
    BY <1>8, RetryBeginsShape
  <1>9. CASE RetryGivenUp
    BY <1>9, RetryGivenUpShape
  <1>10. ASSUME NEW p \in Plans, RetryCommits(p)
         PROVE  BranchShape'
    BY <1>10, CommitsShape
  <1>11. ASSUME NEW p \in Plans, RetryRefused(p)
         PROVE  BranchShape'
    BY <1>11, RetryRefusedShape
  <1>12. ASSUME NEW p \in Plans, NEW marked \in BOOLEAN, RetryDies(p, marked)
         PROVE  BranchShape'
    BY <1>12, DiesShape
  <1>13. ASSUME NEW p \in Plans, NEW marked \in BOOLEAN, NEW noted \in BOOLEAN,
                NEW settled \in BOOLEAN, NEW synced \in BOOLEAN,
                RetryIsUndone(p, marked, noted, settled, synced)
         PROVE  BranchShape'
    BY <1>13, UndoneShape
  <1>14. CASE BranchCrash
    BY <1>14, CrashShape
  <1>15. CASE UNCHANGED branchVars
    <2>1. UNCHANGED file /\ UNCHANGED runtime
      BY <1>15 DEF branchVars
    <2>2. head' = head /\ retry' = retry /\ notice' = notice /\ chapter' = chapter
      BY <1>15 DEF branchVars
    <2> QED
      BY <2>1, <2>2, StandsShape DEF BranchShape
  <1> QED
    BY <1>1, <1>2, <1>3, <1>4, <1>5, <1>6, <1>7, <1>8, <1>9, <1>10, <1>11, <1>12, <1>13, <1>14, <1>15
    DEF NextSessionBranches

-----------------------------------------------------------------------------
(* Fences.                                                                   *)

\* The places the session may go on from.
IsHead(e) ==
  \/ e = Len(file) \/ e = head.leaf \/ e = runtime.leaf
  \/ retry.on /\ (e = retry.up \/ (retry.old /\ e = retry.leaf))

\* No fenced task was started on a branch the session may go on from.
CleanBranches ==
  ~chapter.elsewhere => \A e \in Places : IsHead(e) => notice.fenced \cap Line(e) = {}

LEMMA ProjectedHead ==
  ASSUME BranchShape
  PROVE  IsHead(Projected) /\ Projected \in Places
  BY ProjectedPlace DEF IsHead

LEMMA PlanHeads ==
  ASSUME BranchShape, NEW p \in Plans
  PROVE  /\ IsHead(Origin(p)) /\ Origin(p) \in Places /\ p.up \in Places
         /\ \E d \in Places : IsHead(d) /\ Line(p.up) \subseteq Line(d)
  <1>1. Origin(p) \in Places /\ p.up \in Places /\ runtime.leaf \in Places
    BY OriginPlace, ShapeFields
  <1>2. CASE p.old
    <2>1. retry.on /\ p = retry
      BY <1>2, PlanTaken
    <2> QED
      BY <1>1, <1>2, <2>1 DEF IsHead, Origin
  <1>3. CASE ~p.old
    <2>1. Line(p.up) \subseteq Line(runtime.leaf)
      BY <1>3, PlanTaken DEF PlanFits
    <2> QED
      BY <1>1, <1>3, <2>1 DEF IsHead, Origin
  <1> QED
    BY <1>2, <1>3

\* A step that fences nothing keeps the branches clean when every place the session may
\* then go on from continues one it might go on from before.
LEMMA HeadsKept ==
  ASSUME BranchShape, CleanBranches, Longer(file, file'), notice'.fenced \subseteq notice.fenced,
         chapter'.elsewhere = chapter.elsewhere,
         \A e \in Places' : IsHead(e)' =>
            \/ e \in Places /\ IsHead(e)
            \/ \E d \in Places : IsHead(d) /\ Line(e)' \cap (1..Len(file)) \subseteq Line(d)
  PROVE  CleanBranches'
  <1> SUFFICES ASSUME ~chapter'.elsewhere, NEW e \in Places', IsHead(e)',
                      NEW t \in notice'.fenced, t \in Line(e)'
               PROVE  FALSE
    BY DEF CleanBranches
  <1>1. t \in notice.fenced /\ t \in 1..Len(file)
    BY DEF BranchShape, NoticeShape
  <1>2. \A d \in Places : IsHead(d) => t \notin Line(d)
    BY <1>1 DEF CleanBranches
  <1>3. e \in Places => Line(e)' = Line(e)
    BY Grown
  <1> QED
    BY <1>1, <1>2, <1>3

LEMMA PauseClean ==
  ASSUME BranchShape, CleanBranches, UNCHANGED file, notice'.fenced \subseteq notice.fenced,
         chapter'.elsewhere = chapter.elsewhere,
         \A e \in Places : IsHead(e)' => IsHead(e)
  PROVE  CleanBranches'
  <1>1. Longer(file, file') /\ Places' = Places
    BY SameFile
  <1> QED
    BY <1>1, HeadsKept

LEMMA CleanFrom ==
  ASSUME BranchShape
  PROVE  /\ notice.fenced \subseteq 1..Len(file) /\ chapter.elsewhere \in BOOLEAN
         /\ \A shown : Loses(shown) => /\ notice'.fenced \subseteq notice.fenced
                                       /\ chapter'.elsewhere = chapter.elsewhere
         /\ \A at : chapter' = Reopened(at) => chapter'.elsewhere = chapter.elsewhere
  <1>1. ASSUME NEW shown, Loses(shown)
        PROVE  notice'.fenced \subseteq notice.fenced /\ chapter'.elsewhere = chapter.elsewhere
    <2>1. PICK lost \in {{}, notice.unsaved} :
            /\ notice' = [notice EXCEPT !.fenced = @ \ lost, !.unsaved = {}]
            /\ chapter' = [chapter EXCEPT !.mishaps = @ + 1, !.stray = @ \cup lost, !.shown = shown]
      BY <1>1 DEF Loses
    <2> QED
      BY <2>1 DEF BranchShape, NoticeShape, ChapterShape
  <1>2. ASSUME NEW at, chapter' = Reopened(at)
        PROVE  chapter'.elsewhere = chapter.elsewhere
    <2>1. \E s : chapter' = [chapter EXCEPT !.loose = "no", !.shown = {at}, !.stray = s]
      BY <1>2 DEF Reopened
    <2> QED
      BY <2>1 DEF BranchShape, ChapterShape
  <1> QED
    BY <1>1, <1>2 DEF BranchShape, NoticeShape, ChapterShape

LEMMA ExtendsClean ==
  ASSUME BranchShape, CleanBranches, runtime.on, NEW kind \in Kinds, NEW t, MayCarry(file, t),
         kind = "answer" => runtime.turn # "no", Extends(kind, t),
         notice'.fenced \subseteq notice.fenced, chapter'.elsewhere = chapter.elsewhere,
         retry' = retry,
         head'.leaf \in {head.leaf, runtime.leaf, runtime'.leaf}
  PROVE  CleanBranches'
  <1> PICK n : n = Len(file) + 1
    OBVIOUS
  <1>1. /\ Longer(file, file') /\ Len(file') = n /\ n \in Nat
        /\ runtime'.leaf = n /\ Line(n)' = {n} \cup Line(runtime.leaf)
    BY ExtendsDoes
  <1>2. runtime.leaf \in Places /\ IsHead(runtime.leaf) /\ n \notin 1..Len(file)
    BY ShapeFields DEF IsHead
  <1>3. \A e \in Places' : IsHead(e)' => e = n \/ (e \in Places /\ IsHead(e))
    <2>1. /\ head.leaf \in Places /\ runtime.leaf \in Places
          /\ retry.on => retry.up \in Places /\ retry.leaf \in Places
      BY ShapeFields DEF BranchShape, RetryShape, PlanTyped
    <2> QED
      BY <1>1, <2>1 DEF IsHead
  <1>4. Line(n)' \cap (1..Len(file)) \subseteq Line(runtime.leaf)
    BY <1>1, <1>2
  <1> QED
    BY <1>1, <1>2, <1>3, <1>4, HeadsKept

LEMMA RestClean ==
  ASSUME BranchShape, CleanBranches,
         \/ Opens \/ ReadsBranch \/ LetsGo \/ TurnEnds \/ RetryGivenUp \/ BranchCrash
         \/ \E p \in Plans : RetryRefused(p)
         \/ UNCHANGED branchVars
  PROVE  CleanBranches'
  <1>1. UNCHANGED file
    BY DEF Opens, ReadsBranch, LetsGo, TurnEnds, RetryGivenUp, BranchCrash, RetryRefused, branchVars
  <1>2. notice'.fenced \subseteq notice.fenced /\ chapter'.elsewhere = chapter.elsewhere
    <2>1. CASE Opens
      BY <2>1, CleanFrom DEF Opens
    <2>2. CASE BranchCrash
      BY <2>2, CleanFrom DEF BranchCrash
    <2>3. CASE ReadsBranch \/ LetsGo \/ TurnEnds \/ RetryGivenUp \/ UNCHANGED branchVars
      BY <2>3 DEF ReadsBranch, LetsGo, TurnEnds, RetryGivenUp, branchVars, BranchShape, ChapterShape
    <2>4. CASE \E p \in Plans : RetryRefused(p)
      BY <2>4 DEF RetryRefused, BranchShape, ChapterShape
    <2> QED
      BY <2>1, <2>2, <2>3, <2>4
  <1>3. \A e \in Places : IsHead(e)' => IsHead(e)
    <2>0. IsHead(Projected)
      BY ProjectedHead
    <2>1. CASE Opens
      BY <2>0, <2>1 DEF Opens, Synced, IsHead
    <2>2. CASE ReadsBranch
      BY <2>0, <2>2 DEF ReadsBranch, IsHead
    <2>3. CASE LetsGo
      <3>1. /\ file' = file /\ head' = head /\ runtime' = [runtime EXCEPT !.on = FALSE]
            /\ runtime'.leaf = runtime.leaf
            /\ retry' = IF retry.on /\ ~retry.old
                        THEN [retry EXCEPT !.old = TRUE, !.leaf = runtime.leaf] ELSE retry
        BY <2>3 DEF LetsGo, BranchShape, RuntimeShape
      <3>2. /\ retry'.on => retry.on /\ retry'.up = retry.up
            /\ retry'.on /\ retry'.old => retry'.leaf = runtime.leaf \/ (retry.old /\ retry'.leaf = retry.leaf)
        BY <3>1 DEF BranchShape, RetryShape, PlanTyped
      <3> QED
        BY <3>1, <3>2 DEF IsHead
    <2>4. CASE TurnEnds
      <3>1. runtime'.leaf = runtime.leaf /\ file' = file /\ retry' = retry
            /\ (head' = head \/ head'.leaf = runtime.leaf)
        BY <2>4 DEF TurnEnds, Synced, BranchShape, RuntimeShape
      <3> QED
        BY <3>1 DEF IsHead
    <2>5. CASE RetryGivenUp \/ \E p \in Plans : RetryRefused(p)
      <3>1. file' = file /\ runtime' = runtime /\ retry' = NoRetry
            /\ (head' = head \/ head'.leaf = runtime.leaf)
        <4>1. CASE RetryGivenUp
          BY <4>1 DEF RetryGivenUp, Synced
        <4>2. ASSUME NEW p, RetryRefused(p)
              PROVE  /\ file' = file /\ runtime' = runtime /\ retry' = NoRetry
                     /\ (head' = head \/ head'.leaf = runtime.leaf)
          BY <4>2 DEF RetryRefused, Synced
        <4> QED
          BY <2>5, <4>1, <4>2
      <3> QED
        BY <3>1 DEF IsHead, NoRetry
    <2>6. CASE BranchCrash
      <3>1. file' = file /\ runtime'.leaf = runtime.leaf /\ retry' = NoRetry /\ head' = head
        BY <2>6 DEF BranchCrash, BranchShape, RuntimeShape
      <3> QED
        BY <3>1 DEF IsHead, NoRetry
    <2>7. CASE UNCHANGED branchVars
      BY <2>7 DEF branchVars, IsHead
    <2> QED
      BY <2>1, <2>2, <2>3, <2>4, <2>5, <2>6, <2>7
  <1> QED
    BY <1>1, <1>2, <1>3, PauseClean

LEMMA GrowthClean ==
  ASSUME BranchShape, CleanBranches,
         UserTurnStarts \/ Answers \/ Records \/ \E t \in Untold : Tells(t)
  PROVE  CleanBranches'
  <1>0. Tree(file) /\ Len(file) \in Nat /\ MayCarry(file, 0)
        /\ {"user", "answer", "note", "custom"} \subseteq Kinds
        /\ chapter \in [mishaps : Nat, shown : SUBSET Places, loose : {"no", "undone", "torn"},
                        elsewhere : BOOLEAN, stray : SUBSET (1..Len(file))]
    BY ShapeFields, CarriesNone DEF Kinds, BranchShape, ChapterShape
  <1>1. CASE UserTurnStarts
    BY <1>0, <1>1, ExtendsClean DEF UserTurnStarts, AtRest
  <1>2. CASE Answers
    <2>1. PICK t \in {0, Len(file) + 1} : Extends("answer", t)
      BY <1>2 DEF Answers
    <2>2. MayCarry(file, t)
      BY <1>0 DEF MayCarry
    <2>3. runtime.turn # "no" /\ runtime.on
      BY <1>2 DEF Answers, BranchShape, RuntimeShape
    <2> QED
      BY <1>0, <1>2, <2>1, <2>2, <2>3, ExtendsClean DEF Answers
  <1>3. CASE Records /\ runtime.on
    <2>1. /\ Extends("note", 0) /\ head'.leaf = runtime'.leaf /\ chapter'.elsewhere = chapter.elsewhere
          /\ notice' = notice /\ retry' = retry
      BY <1>0, <1>3 DEF Records, Synced
    <2> QED
      BY <1>0, <1>3, <2>1, ExtendsClean
  <1>4. CASE Records /\ ~runtime.on
    <2> PICK n, up : n = Len(file) + 1 /\ up = Projected
      OBVIOUS
    <2>1. /\ file' = Append(file, Entry(up, "note", 0)) /\ Room(1)
          /\ head'.leaf = Len(file') /\ runtime' = runtime /\ retry' = retry /\ notice' = notice
          /\ chapter' = Reopened(Len(file'))
      BY <1>4 DEF Records
    <2>2. IsHead(up) /\ up \in Places /\ n \notin 1..Len(file)
      BY <1>0, ProjectedHead
    <2>3. Adds(file, file', up, "note", 0)
      BY <1>0, <2>1, <2>2 DEF Adds, Room, Places
    <2>4. Longer(file, file') /\ Len(file') = n /\ Line(n)' = {n} \cup Line(up)
      BY <2>3, AddsDoes
    <2>5. \A e \in Places' : IsHead(e)' => e = n \/ (e \in Places /\ IsHead(e))
      <3>1. /\ head.leaf \in Places /\ runtime.leaf \in Places
            /\ retry.on => retry.up \in Places /\ retry.leaf \in Places
        BY ShapeFields DEF BranchShape, RetryShape, PlanTyped
      <3> QED
        BY <2>1, <2>4, <3>1 DEF IsHead
    <2>6. Line(n)' \cap (1..Len(file)) \subseteq Line(up)
      BY <2>2, <2>4
    <2>7. chapter'.elsewhere = chapter.elsewhere
      BY <2>1, CleanFrom
    <2> QED
      BY <2>1, <2>2, <2>4, <2>5, <2>6, <2>7, HeadsKept
  <1>5. ASSUME NEW t \in Untold, Tells(t)
        PROVE  CleanBranches'
    <2>1. /\ runtime.on /\ Extends("custom", t) /\ retry' = retry
          /\ head'.leaf \in {head.leaf, runtime.leaf}
          /\ notice' = [notice EXCEPT !.told = @ \cup {t}]
      BY <1>5 DEF Tells
    <2>2. notice'.fenced = notice.fenced /\ chapter'.elsewhere = chapter.elsewhere
      BY <1>0, <1>5, <2>1 DEF Tells, BranchShape, NoticeShape
    <2>3. MayCarry(file, t)
      BY <1>0 DEF MayCarry, Untold
    <2> QED
      BY <1>0, <2>1, <2>2, <2>3, ExtendsClean
  <1> QED
    BY <1>1, <1>2, <1>3, <1>4, <1>5

LEMMA RetryClean ==
  ASSUME BranchShape, CleanBranches, RetryBegins
  PROVE  CleanBranches'
  <1>1. Longer(file, file') /\ Places' = Places /\ \A e \in Places : Line(e)' = Line(e)
    BY SameFile DEF RetryBegins
  <1>2. PICK i \in Inputs("user") : retry' = Plan(i)
    BY DEF RetryBegins
  <1>3. PlanFits(Plan(i)) /\ ~Plan(i).old
    BY PlanMade DEF RetryBegins, AtRest
  <1>4. PICK u : u = Plan(i).up
    OBVIOUS
  <1>5. u \in Places /\ Line(u) \subseteq Line(runtime.leaf)
    BY <1>3, <1>4 DEF PlanFits, PlanTyped
  <1>6. retry'.up = u /\ ~retry'.old
    BY <1>2, <1>3, <1>4
  <1>7. \A e \in Places : IsHead(e)' => IsHead(e) \/ e = u
    BY <1>6 DEF RetryBegins, IsHead
  <1>8. runtime.leaf \in Places /\ IsHead(runtime.leaf)
    BY ShapeFields DEF IsHead
  <1>9. Line(u)' \cap (1..Len(file)) \subseteq Line(runtime.leaf)
    BY <1>1, <1>5
  <1>10. notice' = notice /\ chapter' = chapter
    BY DEF RetryBegins
  <1> QED
    BY <1>1, <1>7, <1>8, <1>9, <1>10, HeadsKept

LEMMA DiesClean ==
  ASSUME BranchShape, CleanBranches, NEW p \in Plans, NEW marked, RetryDies(p, marked)
  PROVE  CleanBranches'
  <1> PICK n : n = Len(file) + 1
    OBVIOUS
  <1>1. /\ Longer(file, file')
        /\ marked => Len(file') = n /\ Line(n)' = {n} \cup Line(p.up)
        /\ ~marked => file' = file
    BY DiesDoes
  <1>2. notice'.fenced \subseteq notice.fenced /\ chapter'.elsewhere = chapter.elsewhere
    BY CleanFrom DEF RetryDies
  <1>3. /\ head'.leaf = p.up /\ runtime'.leaf = runtime.leaf /\ ~retry'.on
    BY DEF RetryDies, Rewound, NoRetry, BranchShape, RuntimeShape
  <1>4. PICK d \in Places : IsHead(d) /\ Line(p.up) \subseteq Line(d)
    BY PlanHeads
  <1>5. p.up \in Places /\ runtime.leaf \in Places /\ Len(file) \in Places /\ n \notin 1..Len(file)
        /\ Line(p.up)' = Line(p.up)
    BY <1>1, PlanHeads, ShapeFields, Grown
  <1>6. \A e \in Places' : IsHead(e)' => \/ e \in Places /\ IsHead(e)
                                         \/ e = p.up
                                         \/ marked /\ e = n
    BY <1>1, <1>3, <1>5 DEF IsHead
  <1>7. Line(p.up)' \cap (1..Len(file)) \subseteq Line(d)
    BY <1>4, <1>5
  <1>8. marked => Line(n)' \cap (1..Len(file)) \subseteq Line(d)
    BY <1>1, <1>4, <1>5
  <1> PICK u : u = p.up
    OBVIOUS
  <1>9. \A e \in Places' : IsHead(e)' =>
            \/ e \in Places /\ IsHead(e)
            \/ \E c \in Places : IsHead(c) /\ Line(e)' \cap (1..Len(file)) \subseteq Line(c)
    BY <1>4, <1>6, <1>7, <1>8
  <1> QED
    BY <1>1, <1>2, <1>9, HeadsKept

LEMMA UndoneClean ==
  ASSUME BranchShape, CleanBranches, NEW p \in Plans, NEW marked, NEW noted, NEW settled,
         NEW synced, RetryIsUndone(p, marked, noted, settled, synced)
  PROVE  CleanBranches'
  <1> PICK n : n = Len(file')
    OBVIOUS
  <1>1. /\ Longer(file, file') /\ n \in Nat
        /\ noted => n > Len(file) /\ Line(n)' = {n} \cup Line(Origin(p))
        /\ ~noted /\ marked => n = Len(file) + 1 /\ Line(n)' = {n} \cup Line(p.up)
        /\ ~noted /\ ~marked => file' = file
    BY UndoneDoes
  <1>2. notice'.fenced \subseteq notice.fenced /\ chapter'.elsewhere = chapter.elsewhere
    <2>1. notice' = notice /\ \E k, l : chapter' = [chapter EXCEPT !.mishaps = k, !.loose = l]
      BY DEF RetryIsUndone
    <2> QED
      BY <2>1 DEF BranchShape, ChapterShape
  <1>3. /\ head'.leaf \in {runtime'.leaf, Origin(p), p.up}
        /\ runtime'.leaf \in {runtime.leaf, n} /\ ~retry'.on
    <2>1. head' = Synced \/ head' = Restored(p) \/ head' = Rewound(p)
      BY DEF RetryIsUndone
    <2>2. head'.leaf \in {runtime'.leaf, Origin(p), p.up}
      BY <2>1 DEF Synced, Restored, Rewound
    <2>3. runtime'.leaf \in {runtime.leaf, n}
      BY DEF RetryIsUndone, BranchShape, RuntimeShape
    <2>4. ~retry'.on
      BY DEF RetryIsUndone, NoRetry
    <2> QED
      BY <2>2, <2>3, <2>4
  <1>4. PICK d \in Places : IsHead(d) /\ Line(p.up) \subseteq Line(d)
    BY PlanHeads
  <1>5. PICK o : o = Origin(p)
    OBVIOUS
  <1>6. PICK u : u = p.up
    OBVIOUS
  <1>7. /\ u \in Places /\ o \in Places /\ IsHead(o) /\ runtime.leaf \in Places
        /\ Len(file) \in Nat /\ Len(file) \in Places /\ Line(u)' = Line(u)
    BY <1>1, <1>5, <1>6, PlanHeads, ShapeFields, Grown
  <1>8. Line(n)' \cap (1..Len(file)) \subseteq Line(d) \/ Line(n)' \cap (1..Len(file)) \subseteq Line(o)
        \/ n = Len(file)
    <2>1. CASE noted
      <3>1. n \notin 1..Len(file) /\ Line(n)' = {n} \cup Line(o)
        BY <1>1, <1>5, <1>7, <2>1
      <3> QED
        BY <3>1
    <2>2. CASE ~noted /\ marked
      <3>1. n \notin 1..Len(file) /\ Line(n)' = {n} \cup Line(u) /\ Line(u) \subseteq Line(d)
        BY <1>1, <1>4, <1>6, <1>7, <2>2
      <3> QED
        BY <3>1
    <2>3. CASE ~noted /\ ~marked
      BY <1>1, <2>3
    <2> QED
      BY <2>1, <2>2, <2>3
  <1>9. Line(u)' \cap (1..Len(file)) \subseteq Line(d)
    BY <1>4, <1>6, <1>7
  <1>10. \A e \in Places' : IsHead(e)' => e \in {n, u, o, runtime.leaf}
    BY <1>3, <1>5, <1>6 DEF IsHead
  <1>11. IsHead(runtime.leaf) /\ IsHead(Len(file))
    BY DEF IsHead
  <1>12. \A e \in Places' : IsHead(e)' =>
            \/ e \in Places /\ IsHead(e)
            \/ \E c \in Places : IsHead(c) /\ Line(e)' \cap (1..Len(file)) \subseteq Line(c)
    BY <1>4, <1>7, <1>8, <1>9, <1>10, <1>11
  <1> QED
    BY <1>1, <1>2, <1>12, HeadsKept

\* The commit fences what is off the branch it goes back to, and the session goes on
\* from there.
LEMMA CommitsClean ==
  ASSUME BranchShape, CleanBranches, NEW p \in Plans, RetryCommits(p)
  PROVE  CleanBranches'
  <1>1. chapter'.elsewhere = (chapter.elsewhere \/ p.old)
    <2>1. \E l, s : chapter' = [chapter EXCEPT !.loose = l, !.elsewhere = @ \/ p.old, !.stray = s]
      BY DEF RetryCommits
    <2> QED
      BY <2>1 DEF BranchShape, ChapterShape
  <1> SUFFICES ASSUME ~chapter.elsewhere, ~p.old, NEW e \in Places', IsHead(e)'
               PROVE  notice'.fenced \cap Line(e)' = {}
    BY <1>1 DEF CleanBranches
  <1> PICK n : n = Len(file) + 1
    OBVIOUS
  <1> PICK m, from : m = n + 1 /\ from = n
    OBVIOUS
  <1>2. /\ Longer(file, file') /\ Len(file') = m /\ n \in Nat
        /\ Line(m)' = {m} \cup ({n} \cup Line(p.up))
    <2>1. from = IF p.old THEN runtime.leaf ELSE n
      OBVIOUS
    <2> QED
      BY <2>1, CommitsDoes
  <1>3. PlanFits(p)
    BY PlanTaken
  <1>4. PICK u : u = p.up
    OBVIOUS
  <1>5. /\ u \in Places /\ Line(u)' = Line(u) /\ Line(u) \subseteq Line(runtime.leaf)
        /\ p.gone \cap Line(u) = {} /\ p.gone \subseteq 1..Len(file) /\ Len(file) \in Nat
    BY <1>2, <1>3, <1>4, Grown, ShapeFields DEF PlanFits, PlanTyped
  <1>6. notice'.fenced = notice.fenced \cup p.gone /\ notice.fenced \subseteq 1..Len(file)
    BY DEF RetryCommits, FencedAway, BranchShape, NoticeShape
  <1>7. notice.fenced \cap Line(runtime.leaf) = {}
    BY ShapeFields DEF CleanBranches, IsHead
  <1>8. e = m \/ e = u
    BY <1>2, <1>4 DEF IsHead, RetryCommits, Rewound, NoRetry, BranchShape, RuntimeShape
  <1>9. Line(e)' \subseteq {m, n} \cup Line(u)
    <2>1. Line(m)' \subseteq {m, n} \cup Line(u)
      BY <1>2, <1>4
    <2> QED
      BY <1>5, <1>8, <2>1
  <1>10. n \notin 1..Len(file) /\ m \notin 1..Len(file)
    BY <1>5
  <1> QED
    BY <1>5, <1>6, <1>7, <1>9, <1>10

LEMMA CleanStep ==
  ASSUME BranchShape, CleanBranches, [NextSessionBranches]_branchVars
  PROVE  CleanBranches'
  <1>1. CASE Opens \/ ReadsBranch \/ LetsGo \/ TurnEnds \/ RetryGivenUp \/ BranchCrash
             \/ (\E p \in Plans : RetryRefused(p)) \/ UNCHANGED branchVars
    BY <1>1, RestClean
  <1>2. CASE UserTurnStarts \/ Answers \/ Records \/ \E t \in Untold : Tells(t)
    BY <1>2, GrowthClean
  <1>3. CASE RetryBegins
    BY <1>3, RetryClean
  <1>4. ASSUME NEW p \in Plans, RetryCommits(p)
        PROVE  CleanBranches'
    BY <1>4, CommitsClean
  <1>5. ASSUME NEW p \in Plans, NEW marked \in BOOLEAN, RetryDies(p, marked)
        PROVE  CleanBranches'
    BY <1>5, DiesClean
  <1>6. ASSUME NEW p \in Plans, NEW marked \in BOOLEAN, NEW noted \in BOOLEAN,
               NEW settled \in BOOLEAN, NEW synced \in BOOLEAN,
               RetryIsUndone(p, marked, noted, settled, synced)
        PROVE  CleanBranches'
    BY <1>6, UndoneClean
  <1> QED
    BY <1>1, <1>2, <1>3, <1>4, <1>5, <1>6 DEF NextSessionBranches

LEMMA CleanInit ==
  ASSUME InitSessionBranches
  PROVE  CleanBranches
  BY DEF InitSessionBranches, CleanBranches

\* A fence silences no task whose call is on the branch the session is on
\* (suppressDiscardedDeferredTasks of src/core/session-turn-actions.ts): the discarded
\* tasks are off the line the retry goes back to, every place the session may go on from
\* - its file's end, its head, its runtime, the retry that is prepared - stays clear of
\* them, and a retry that fails lifts its own.
THEOREM FencesStayOff == SpecSessionBranches => []FencedIsDiscarded
  <1>1. InitSessionBranches => BranchShape /\ CleanBranches
    BY ShapeInit, CleanInit
  <1>2. BranchShape /\ CleanBranches /\ [NextSessionBranches]_branchVars
        => BranchShape' /\ CleanBranches'
    BY ShapeStep, CleanStep
  <1>3. BranchShape /\ CleanBranches => FencedIsDiscarded
    BY ShapeFields DEF CleanBranches, IsHead, FencedIsDiscarded
  <1> QED
    BY <1>1, <1>2, <1>3, PTL DEF SpecSessionBranches

-----------------------------------------------------------------------------
(* Outcomes and their calls.                                                 *)

\* Is the entry on the branch the session is on, or was on when its runtime went away?
IsHeld(i) ==
  IF runtime.on THEN i \in Line(runtime.leaf) ELSE \E e \in chapter.shown : i \in Line(e)

\* An outcome still to be told has its call there, unless it went astray.
CallsHeld == \A i \in Untold : i \in chapter.stray \/ IsHeld(i)

LEMMA UntoldNext ==
  ASSUME BranchShape, Longer(file, file'),
         \A e \in 1..Len(file') : e \in 1..Len(file) \/ file'[e].kind # "answer"
  PROVE  \A i \in Untold' : \/ i \in Untold
                            \/ i \in (notice.told \cup notice.fenced) \ (notice'.told \cup notice'.fenced)
  <1> SUFFICES ASSUME NEW i \in Untold', i \notin (notice.told \cup notice.fenced) PROVE i \in Untold
    BY DEF Untold
  <1>1. i \in 1..Len(file') /\ file'[i].kind = "answer" /\ file'[i].task = i
    BY DEF Untold
  <1>2. i \in 1..Len(file) /\ file'[i] = file[i]
    BY <1>1, Grown
  <1> QED
    BY <1>1, <1>2 DEF Untold

LEMMA SameAnswers ==
  ASSUME BranchShape, UNCHANGED file
  PROVE  \A e \in 1..Len(file') : e \in 1..Len(file) \/ file'[e].kind # "answer"
  OBVIOUS

LEMMA ExtendsHeld ==
  ASSUME BranchShape, CallsHeld, runtime.on, NEW kind \in Kinds, NEW t, MayCarry(file, t),
         kind = "answer" => runtime.turn # "no", Extends(kind, t),
         notice.told \subseteq notice'.told, notice.fenced \subseteq notice'.fenced,
         chapter.stray \subseteq chapter'.stray
  PROVE  CallsHeld'
  <1> SUFFICES ASSUME NEW i \in Untold' PROVE i \in chapter'.stray \/ IsHeld(i)'
    BY DEF CallsHeld
  <1> PICK n : n = Len(file) + 1
    OBVIOUS
  <1>1. /\ Longer(file, file') /\ Len(file') = n /\ n \in Nat /\ runtime'.on /\ runtime'.leaf = n
        /\ Line(n)' = {n} \cup Line(runtime.leaf)
    BY ExtendsDoes
  <1>2. IsHeld(i)' <=> i \in {n} \cup Line(runtime.leaf)
    <2>1. IsHeld(i)' <=> i \in Line(n)'
      BY <1>1 DEF IsHeld, Line
    <2> QED
      BY <1>1, <2>1
  <1>3. CASE i = n
    BY <1>2, <1>3
  <1>4. CASE i # n
    <2>1. i \in 1..Len(file)
      BY <1>1, <1>4, ShapeFields DEF Untold
    <2>2. i \in Untold
      BY <1>1, <2>1, Grown DEF Untold
    <2> QED
      BY <1>2, <2>2 DEF CallsHeld, IsHeld
  <1> QED
    BY <1>3, <1>4

LEMMA GrowthHeld ==
  ASSUME BranchShape, CallsHeld,
         UserTurnStarts \/ Answers \/ Records \/ \E t \in Untold : Tells(t)
  PROVE  CallsHeld'
  <1>0. Tree(file) /\ Len(file) \in Nat /\ MayCarry(file, 0)
        /\ {"user", "answer", "note", "custom"} \subseteq Kinds
        /\ chapter \in [mishaps : Nat, shown : SUBSET Places, loose : {"no", "undone", "torn"},
                        elsewhere : BOOLEAN, stray : SUBSET (1..Len(file))]
    BY ShapeFields, CarriesNone DEF Kinds, BranchShape, ChapterShape
  <1>1. CASE UserTurnStarts
    BY <1>0, <1>1, ExtendsHeld DEF UserTurnStarts, AtRest
  <1>2. CASE Answers
    <2>1. PICK t \in {0, Len(file) + 1} : Extends("answer", t)
      BY <1>2 DEF Answers
    <2>2. MayCarry(file, t)
      BY <1>0 DEF MayCarry
    <2>3. runtime.turn # "no" /\ runtime.on
      BY <1>2 DEF Answers, BranchShape, RuntimeShape
    <2> QED
      BY <1>0, <1>2, <2>1, <2>2, <2>3, ExtendsHeld DEF Answers
  <1>3. CASE Records /\ runtime.on
    <2>1. /\ Extends("note", 0) /\ chapter'.stray = chapter.stray
          /\ notice' = notice
      BY <1>0, <1>3 DEF Records
    <2> QED
      BY <1>0, <1>3, <2>1, ExtendsHeld
  <1>4. CASE Records /\ ~runtime.on
    <2> SUFFICES ASSUME NEW i \in Untold' PROVE i \in chapter'.stray \/ IsHeld(i)'
      BY DEF CallsHeld
    <2> PICK n, up : n = Len(file) + 1 /\ up = Projected
      OBVIOUS
    <2>1. /\ file' = Append(file, Entry(up, "note", 0)) /\ Room(1)
          /\ runtime' = runtime /\ notice' = notice /\ chapter' = Reopened(Len(file'))
      BY <1>4 DEF Records
    <2>2. up \in Places
      BY <1>0, ProjectedHead
    <2>3. Adds(file, file', up, "note", 0)
      BY <1>0, <2>1, <2>2 DEF Adds, Room, Places
    <2>4. /\ Longer(file, file') /\ Len(file') = n /\ Line(n)' = {n} \cup Line(up)
          /\ file'[n].kind = "note" /\ n \in Nat
      BY <2>3, AddsDoes
    <2>5. \A e \in 1..Len(file') : e \in 1..Len(file) \/ file'[e].kind # "answer"
      <3>1. \A e \in 1..Len(file') : e \in 1..Len(file) \/ e = n
        BY <1>0, <2>4
      <3> QED
        BY <2>4, <3>1
    <2>6. i \in Untold
      BY <2>1, <2>4, <2>5, UntoldNext
    <2>7. i \in chapter.stray \/ \E e \in chapter.shown : i \in Line(e)
      BY <1>4, <2>6 DEF CallsHeld, IsHeld
    <2>8. /\ chapter'.shown = {n}
          /\ chapter'.stray = chapter.stray
                \cup (Untold \cap UNION {Line(c) \ Line(Projected) : c \in chapter.shown})
      BY <1>0, <2>1, <2>4 DEF Reopened
    <2>9. IsHeld(i)' <=> i \in Line(n)'
      BY <1>4, <2>1, <2>8 DEF IsHeld
    <2> QED
      BY <2>4, <2>6, <2>7, <2>8, <2>9
  <1>5. ASSUME NEW t \in Untold, Tells(t)
        PROVE  CallsHeld'
    <2>1. /\ runtime.on /\ Extends("custom", t)
          /\ notice' = [notice EXCEPT !.told = @ \cup {t}]
      BY <1>5 DEF Tells
    <2>2. /\ notice'.fenced = notice.fenced /\ notice.told \subseteq notice'.told
          /\ chapter'.stray = chapter.stray
      BY <1>0, <1>5, <2>1 DEF Tells, BranchShape, NoticeShape
    <2>3. MayCarry(file, t)
      BY <1>0 DEF MayCarry, Untold
    <2> QED
      BY <1>0, <2>1, <2>2, <2>3, ExtendsHeld
  <1> QED
    BY <1>1, <1>2, <1>3, <1>4, <1>5

LEMMA RestHeld ==
  ASSUME BranchShape, CallsHeld,
         \/ ReadsBranch \/ LetsGo \/ TurnEnds \/ RetryBegins \/ RetryGivenUp
         \/ \E p \in Plans : RetryRefused(p)
         \/ UNCHANGED branchVars
  PROVE  CallsHeld'
  <1> SUFFICES ASSUME NEW i \in Untold' PROVE i \in chapter'.stray \/ IsHeld(i)'
    BY DEF CallsHeld
  <1>0. /\ chapter \in [mishaps : Nat, shown : SUBSET Places, loose : {"no", "undone", "torn"},
                        elsewhere : BOOLEAN, stray : SUBSET (1..Len(file))]
        /\ runtime \in [on : BOOLEAN, leaf : Places, last : Places, turn : {"no", "user", "custom"}]
    BY DEF BranchShape, ChapterShape, RuntimeShape
  <1>1. UNCHANGED file /\ notice' = notice
    BY DEF ReadsBranch, LetsGo, TurnEnds, RetryBegins, RetryGivenUp, RetryRefused, branchVars
  <1>2. i \in Untold
    BY <1>1 DEF Untold
  <1>3. i \in chapter.stray \/ IsHeld(i)
    BY <1>2 DEF CallsHeld
  <1>4. \A e : Line(e)' = Line(e)
    BY <1>1 DEF Line
  <1>5. CASE LetsGo
    <2>1. /\ ~runtime'.on /\ runtime.on
          /\ chapter'.shown = {runtime.leaf} /\ chapter'.stray = chapter.stray
      BY <1>0, <1>5 DEF LetsGo, AtRest
    <2> QED
      BY <1>3, <1>4, <2>1 DEF IsHeld
  <1>6. CASE ~LetsGo
    <2>1. /\ runtime'.on = runtime.on /\ runtime'.leaf = runtime.leaf
          /\ chapter'.shown = chapter.shown /\ chapter'.stray = chapter.stray
      <3>1. CASE TurnEnds
        BY <1>0, <3>1 DEF TurnEnds
      <3>2. CASE RetryGivenUp
        BY <1>0, <3>2 DEF RetryGivenUp
      <3>3. ASSUME NEW p \in Plans, RetryRefused(p)
            PROVE  /\ runtime'.on = runtime.on /\ runtime'.leaf = runtime.leaf
                   /\ chapter'.shown = chapter.shown /\ chapter'.stray = chapter.stray
        BY <1>0, <3>3 DEF RetryRefused
      <3>4. CASE ReadsBranch \/ RetryBegins \/ UNCHANGED branchVars
        BY <3>4 DEF ReadsBranch, RetryBegins, branchVars
      <3> QED
        BY <1>6, <3>1, <3>2, <3>3, <3>4
    <2>2. Line(runtime.leaf)' = Line(runtime.leaf)
      BY <1>1, <2>1 DEF Line
    <2> QED
      BY <1>3, <1>4, <2>1, <2>2 DEF IsHeld
  <1> QED
    BY <1>5, <1>6

LEMMA OpensHeld ==
  ASSUME BranchShape, CallsHeld, Opens
  PROVE  CallsHeld'
  <1> SUFFICES ASSUME NEW i \in Untold' PROVE i \in chapter'.stray \/ IsHeld(i)'
    BY DEF CallsHeld
  <1>1. UNCHANGED file /\ notice' = notice /\ ~runtime.on /\ runtime'.on /\ runtime'.leaf = Projected
    BY DEF Opens
  <1>2. i \in Untold
    BY <1>1 DEF Untold
  <1>3. i \in chapter.stray \/ \E e \in chapter.shown : i \in Line(e)
    BY <1>1, <1>2 DEF CallsHeld, IsHeld
  <1>4. chapter'.stray = chapter.stray
          \cup (Untold \cap UNION {Line(e) \ Line(Projected) : e \in chapter.shown})
    BY DEF Opens, Reopened, BranchShape, ChapterShape
  <1>5. IsHeld(i)' <=> i \in Line(Projected)
    BY <1>1 DEF IsHeld, Line
  <1> QED
    BY <1>2, <1>3, <1>4, <1>5

\* A runtime that goes away with a crash, and perhaps a fence that was not saved.
LEMMA LosesHeld ==
  ASSUME BranchShape, CallsHeld, Longer(file, file'), NEW shown \in SUBSET Places, Loses(shown),
         \A e \in 1..Len(file') : e \in 1..Len(file) \/ file'[e].kind # "answer",
         ~runtime'.on,
         IF runtime.on THEN runtime.leaf \in shown ELSE chapter.shown \subseteq shown
  PROVE  CallsHeld'
  <1> SUFFICES ASSUME NEW i \in Untold' PROVE i \in chapter'.stray \/ IsHeld(i)'
    BY DEF CallsHeld
  <1>1. PICK lost \in {{}, notice.unsaved} :
          /\ notice' = [notice EXCEPT !.fenced = @ \ lost, !.unsaved = {}]
          /\ chapter' = [chapter EXCEPT !.mishaps = @ + 1, !.stray = @ \cup lost, !.shown = shown]
    BY DEF Loses
  <1>2. /\ notice'.told = notice.told /\ notice'.fenced = notice.fenced \ lost
        /\ chapter'.stray = chapter.stray \cup lost /\ chapter'.shown = shown
    BY <1>1 DEF BranchShape, NoticeShape, ChapterShape
  <1>3. i \in Untold \/ i \in lost
    BY <1>2, UntoldNext
  <1>4. CASE i \in Untold /\ i \notin chapter.stray
    <2>1. IsHeld(i)
      BY <1>4 DEF CallsHeld
    <2>2. PICK e \in shown : i \in Line(e)
      BY <2>1 DEF IsHeld
    <2>3. i \in Line(e)'
      BY <2>2, Grown
    <2> QED
      BY <1>2, <2>2, <2>3 DEF IsHeld
  <1> QED
    BY <1>2, <1>3, <1>4

LEMMA CrashHeld ==
  ASSUME BranchShape, CallsHeld, BranchCrash
  PROVE  CallsHeld'
  <1>1. Longer(file, file') /\ UNCHANGED file
    BY SameFile DEF BranchCrash
  <1>2. PICK shown : shown = IF runtime.on THEN {runtime.leaf} ELSE chapter.shown
    OBVIOUS
  <1>3. shown \in SUBSET Places /\ Loses(shown) /\ ~runtime'.on
    BY <1>2, ShapeFields DEF BranchCrash, BranchShape, ChapterShape, RuntimeShape
  <1>4. IF runtime.on THEN runtime.leaf \in shown ELSE chapter.shown \subseteq shown
    BY <1>2
  <1>5. \A e \in 1..Len(file') : e \in 1..Len(file) \/ file'[e].kind # "answer"
    BY <1>1
  <1> QED
    BY <1>1, <1>3, <1>4, <1>5, LosesHeld

LEMMA DiesHeld ==
  ASSUME BranchShape, CallsHeld, NEW p \in Plans, NEW marked, RetryDies(p, marked)
  PROVE  CallsHeld'
  <1> PICK n : n = Len(file) + 1
    OBVIOUS
  <1>1. /\ Longer(file, file')
        /\ marked => Len(file') = n /\ file'[n].kind = "note"
        /\ ~marked => file' = file
    BY DiesDoes
  <1>2. \A e \in 1..Len(file') : e \in 1..Len(file) \/ file'[e].kind # "answer"
    <2>1. marked => \A e \in 1..Len(file') : e \in 1..Len(file) \/ e = n
      BY <1>1, ShapeFields
    <2> QED
      BY <1>1, <2>1
  <1>3. PICK shown : shown = {runtime.leaf, p.up}
    OBVIOUS
  <1>4. shown \in SUBSET Places /\ Loses(shown) /\ ~runtime'.on /\ runtime.on
        /\ runtime.leaf \in shown
    BY <1>3, ShapeFields, OriginPlace, PlanTaken
    DEF RetryDies, AtRest, BranchShape, RuntimeShape
  <1> QED
    BY <1>1, <1>2, <1>4, LosesHeld

LEMMA UndoneHeld ==
  ASSUME BranchShape, CallsHeld, NEW p \in Plans, NEW marked, NEW noted, NEW settled,
         NEW synced, RetryIsUndone(p, marked, noted, settled, synced)
  PROVE  CallsHeld'
  <1> SUFFICES ASSUME NEW i \in Untold' PROVE i \in chapter'.stray \/ IsHeld(i)'
    BY DEF CallsHeld
  <1> PICK n : n = Len(file')
    OBVIOUS
  <1>1. /\ Longer(file, file') /\ n \in Nat
        /\ \A e \in 1..n : e \in 1..Len(file) \/ file'[e].kind # "answer"
        /\ noted => Line(n)' = {n} \cup Line(Origin(p))
    BY UndoneDoes
  <1>2. notice' = notice /\ chapter'.stray = chapter.stray
    <2>1. notice' = notice /\ \E k, l : chapter' = [chapter EXCEPT !.mishaps = k, !.loose = l]
      BY DEF RetryIsUndone
    <2> QED
      BY <2>1 DEF BranchShape, ChapterShape
  <1>3. i \in Untold
    BY <1>1, <1>2, UntoldNext
  <1>4. runtime.on
    BY PlanTaken DEF AtRest
  <1>5. i \in chapter.stray \/ i \in Line(runtime.leaf)
    BY <1>3, <1>4 DEF CallsHeld, IsHeld
  <1>6. runtime'.on /\ Line(runtime.leaf) \subseteq Line(runtime.leaf)'
    <2>0. runtime.leaf \in Places /\ runtime.on /\ Line(runtime.leaf) = Line(runtime.leaf)
      BY <1>4, ShapeFields
    <2>1. PICK l : l = runtime.leaf
      OBVIOUS
    <2>2. Line(l)' = Line(l)
      BY <1>1, <2>0, <2>1, Grown
    <2>3. CASE p.old \/ ~noted
      <3>1. runtime'.on /\ runtime'.leaf = l
        BY <2>0, <2>1, <2>3 DEF RetryIsUndone, BranchShape, RuntimeShape
      <3>2. Line(runtime.leaf)' = Line(l)'
        BY <3>1 DEF Line
      <3> QED
        BY <2>1, <2>2, <3>1, <3>2
    <2>4. CASE ~p.old /\ noted
      <3>1. runtime'.on /\ runtime'.leaf = n
        BY <2>0, <2>4 DEF RetryIsUndone, BranchShape, RuntimeShape
      <3>2. Line(runtime.leaf)' = Line(n)'
        BY <3>1 DEF Line
      <3>3. Line(n)' = {n} \cup Line(runtime.leaf)
        BY <1>1, <2>4 DEF Origin
      <3> QED
        BY <3>1, <3>2, <3>3
    <2> QED
      BY <2>3, <2>4
  <1> QED
    BY <1>2, <1>5, <1>6 DEF IsHeld

\* What the commit leaves of the branch it is fenced from is fenced, or astray.
LEMMA CommitsHeld ==
  ASSUME BranchShape, CallsHeld, NEW p \in Plans, RetryCommits(p)
  PROVE  CallsHeld'
  <1> SUFFICES ASSUME NEW i \in Untold' PROVE i \in chapter'.stray \/ IsHeld(i)'
    BY DEF CallsHeld
  <1> PICK n : n = Len(file) + 1
    OBVIOUS
  <1> PICK m, from : m = n + 1 /\ from = IF p.old THEN runtime.leaf ELSE n
    OBVIOUS
  <1>1. /\ Longer(file, file') /\ Len(file') = m /\ n \in Nat
        /\ \A e \in 1..Len(file') : e \in 1..Len(file) \/ file'[e].kind # "answer"
        /\ Line(m)' = {m} \cup (IF p.old THEN Line(runtime.leaf) ELSE {n} \cup Line(p.up))
    BY CommitsDoes
  <1>2. /\ notice'.told = notice.told /\ notice'.fenced = notice.fenced \cup p.gone
        /\ chapter'.stray = IF p.old THEN chapter.stray
             ELSE chapter.stray \cup (Untold \cap (Line(runtime.leaf) \ (Line(p.up) \cup p.gone)))
    BY DEF RetryCommits, FencedAway, BranchShape, NoticeShape, ChapterShape
  <1>3. i \in Untold /\ i \notin p.gone
    <2>1. i \in Untold
      BY <1>1, <1>2, UntoldNext
    <2> QED
      BY <1>2, <2>1 DEF Untold
  <1>4. runtime.on /\ runtime'.on /\ runtime'.leaf = m
    BY <1>1, PlanTaken DEF RetryCommits, AtRest, BranchShape, RuntimeShape
  <1>5. i \in chapter.stray \/ i \in Line(runtime.leaf)
    BY <1>3, <1>4 DEF CallsHeld, IsHeld
  <1>6. IsHeld(i)' <=> i \in Line(m)'
    BY <1>4 DEF IsHeld, Line
  <1> QED
    BY <1>1, <1>2, <1>3, <1>5, <1>6

LEMMA HeldStep ==
  ASSUME BranchShape, CallsHeld, [NextSessionBranches]_branchVars
  PROVE  CallsHeld'
  <1>1. CASE ReadsBranch \/ LetsGo \/ TurnEnds \/ RetryBegins \/ RetryGivenUp
             \/ (\E p \in Plans : RetryRefused(p)) \/ UNCHANGED branchVars
    BY <1>1, RestHeld
  <1>2. CASE UserTurnStarts \/ Answers \/ Records \/ \E t \in Untold : Tells(t)
    BY <1>2, GrowthHeld
  <1>3. CASE Opens
    BY <1>3, OpensHeld
  <1>4. ASSUME NEW p \in Plans, RetryCommits(p)
        PROVE  CallsHeld'
    BY <1>4, CommitsHeld
  <1>5. ASSUME NEW p \in Plans, NEW marked \in BOOLEAN, RetryDies(p, marked)
        PROVE  CallsHeld'
    BY <1>5, DiesHeld
  <1>6. ASSUME NEW p \in Plans, NEW marked \in BOOLEAN, NEW noted \in BOOLEAN,
               NEW settled \in BOOLEAN, NEW synced \in BOOLEAN,
               RetryIsUndone(p, marked, noted, settled, synced)
        PROVE  CallsHeld'
    BY <1>6, UndoneHeld
  <1>7. CASE BranchCrash
    BY <1>7, CrashHeld
  <1> QED
    BY <1>1, <1>2, <1>3, <1>4, <1>5, <1>6, <1>7 DEF NextSessionBranches

LEMMA HeldInit ==
  ASSUME InitSessionBranches
  PROVE  CallsHeld
  BY DEF InitSessionBranches, CallsHeld, Untold

\* Only the delivery of an outcome that waits tells one.
LEMMA TellsOnly ==
  ASSUME BranchShape, [NextSessionBranches]_branchVars
  PROVE  \A t \in notice'.told \ notice.told : t \in Untold /\ runtime.on
  <1>0. notice \in [told : SUBSET (1..Len(file)), fenced : SUBSET (1..Len(file)),
                    unsaved : SUBSET (1..Len(file))]
    BY DEF BranchShape, NoticeShape
  <1>1. ASSUME NEW t \in Untold, Tells(t)
        PROVE  notice'.told = notice.told \cup {t} /\ runtime.on
    BY <1>0, <1>1 DEF Tells
  <1>2. ASSUME NEW shown, Loses(shown)
        PROVE  notice'.told = notice.told
    BY <1>0, <1>2 DEF Loses
  <1>3. ASSUME ~ \E t \in Untold : Tells(t)
        PROVE  notice'.told = notice.told
    <2>1. CASE BranchCrash
      BY <1>2, <2>1 DEF BranchCrash
    <2>2. ASSUME NEW p \in Plans, NEW marked \in BOOLEAN, RetryDies(p, marked)
          PROVE  notice'.told = notice.told
      BY <1>2, <2>2 DEF RetryDies
    <2>3. ASSUME NEW p \in Plans, RetryCommits(p)
          PROVE  notice'.told = notice.told
      BY <1>0, <2>3 DEF RetryCommits, FencedAway
    <2>4. ASSUME NEW p \in Plans, RetryRefused(p)
          PROVE  notice'.told = notice.told
      BY <2>4 DEF RetryRefused
    <2>5. ASSUME NEW p \in Plans, NEW marked \in BOOLEAN, NEW noted \in BOOLEAN,
                 NEW settled \in BOOLEAN, NEW synced \in BOOLEAN,
                 RetryIsUndone(p, marked, noted, settled, synced)
          PROVE  notice'.told = notice.told
      BY <2>5 DEF RetryIsUndone
    <2>6. CASE \/ Opens \/ ReadsBranch \/ LetsGo \/ UserTurnStarts \/ Answers \/ TurnEnds \/ Records
               \/ RetryBegins \/ RetryGivenUp \/ UNCHANGED branchVars
      BY <2>6 DEF Opens, ReadsBranch, LetsGo, UserTurnStarts, Answers, TurnEnds, Records,
                  RetryBegins, RetryGivenUp, branchVars
    <2> QED
      BY <1>3, <2>1, <2>2, <2>3, <2>4, <2>5, <2>6 DEF NextSessionBranches
  <1> QED
    BY <1>1, <1>3

\* The outcome of a task is told on a branch that holds the call that started it
\* (deliverCustomMessage after suppressDiscardedDeferredTasks): an untold and unfenced outcome keeps
\* its call on the runtime's branch through every move of the leaf, or the step that
\* leaves the call behind counts it astray.
THEOREM OutcomesAreMet == SpecSessionBranches => OutcomesMeetTheirCall
  <1>1. InitSessionBranches => BranchShape /\ CallsHeld
    BY ShapeInit, HeldInit
  <1>2. BranchShape /\ CallsHeld /\ [NextSessionBranches]_branchVars
        => BranchShape' /\ CallsHeld'
    BY ShapeStep, HeldStep
  <1>3. BranchShape /\ CallsHeld /\ [NextSessionBranches]_branchVars
        => [\A t \in notice'.told \ notice.told : t \in Line(runtime.leaf) \cup chapter.stray]_branchVars
    BY TellsOnly DEF CallsHeld, IsHeld
  <1> QED
    BY <1>1, <1>2, <1>3, PTL DEF SpecSessionBranches, OutcomesMeetTheirCall

-----------------------------------------------------------------------------
(* What a reopening shows.                                                   *)

\* The head names the runtime's leaf and has seen the last entry; or the runtime went on
\* from the branch the head names, which left nothing behind that it goes on from.
Followed ==
  \/ head = [leaf |-> runtime.leaf, seen |-> Len(file)]
  \/ /\ runtime.leaf = Len(file) /\ head.seen < Len(file) /\ Under(runtime.leaf, head.leaf)
     /\ head.seen = 0 \/ head.leaf = head.seen \/ head.seen \notin Line(runtime.leaf)

BranchShown ==
  /\ runtime.on /\ chapter.loose # "torn" => runtime.last = Len(file)
  /\ runtime.on /\ chapter.loose = "no" => Followed
  /\ runtime.on /\ chapter.loose = "undone" =>
       /\ Len(file) > 0
       /\ file[Len(file)].kind = "note" =>
            head = [leaf |-> file[Len(file)].up, seen |-> Len(file)] /\ runtime.leaf = Len(file)
  /\ ~runtime.on => ReopeningShowsTheBranch

LEMMA SeenAll ==
  ASSUME head.seen = Len(file)
  PROVE  Projected = head.leaf
  BY DEF Projected

LEMMA FollowedProjects ==
  ASSUME BranchShape, Followed
  PROVE  Projected = runtime.leaf
  <1>1. CASE head = [leaf |-> runtime.leaf, seen |-> Len(file)]
    BY <1>1, SeenAll
  <1>2. CASE /\ runtime.leaf = Len(file) /\ head.seen < Len(file) /\ Under(runtime.leaf, head.leaf)
             /\ head.seen = 0 \/ head.leaf = head.seen \/ head.seen \notin Line(runtime.leaf)
    <2>1. Len(file) # head.seen
      BY <1>2, ShapeFields
    <2>2. ~(head.seen # 0 /\ head.leaf # head.seen /\ Under(Len(file), head.seen))
      BY <1>2 DEF Under
    <2> QED
      BY <1>2, <2>1, <2>2 DEF Projected
  <1> QED
    BY <1>1, <1>2 DEF Followed

\* An entry of the program's own adds nothing to the conversation.
LEMMA NoteSilent ==
  ASSUME BranchShape, NEW n \in 1..Len(file), file[n].kind = "note"
  PROVE  Conversation(n) = Conversation(file[n].up)
  BY LineFacts DEF Conversation

LEMMA OnShows ==
  ASSUME BranchShape, BranchShown, runtime.on, chapter.loose # "torn",
         ~(chapter.loose = "undone" /\ file[Len(file)].kind # "note")
  PROVE  Conversation(Projected) = Conversation(runtime.leaf)
  <1>1. chapter.loose \in {"no", "undone", "torn"}
    BY DEF BranchShape, ChapterShape
  <1>2. CASE chapter.loose = "no"
    BY <1>2, FollowedProjects DEF BranchShown
  <1>3. CASE chapter.loose = "undone"
    <2>1. /\ Len(file) > 0 /\ file[Len(file)].kind = "note" /\ runtime.leaf = Len(file)
          /\ head = [leaf |-> file[Len(file)].up, seen |-> Len(file)]
      BY <1>3 DEF BranchShown
    <2>2. Projected = file[Len(file)].up
      BY <2>1, SeenAll
    <2>3. Len(file) \in 1..Len(file)
      BY <2>1, ShapeFields
    <2>4. Conversation(Len(file)) = Conversation(file[Len(file)].up)
      BY <2>1, <2>3, NoteSilent
    <2> QED
      BY <2>1, <2>2, <2>4
  <1> QED
    BY <1>1, <1>2, <1>3

LEMMA ShownBranch ==
  ASSUME BranchShape, BranchShown
  PROVE  ReopeningShowsTheBranch
  <1>1. CASE runtime.on
    BY <1>1, OnShows DEF ReopeningShowsTheBranch
  <1>2. CASE ~runtime.on
    BY <1>2 DEF BranchShown
  <1> QED
    BY <1>1, <1>2

LEMMA ShownInit ==
  ASSUME InitSessionBranches
  PROVE  BranchShown
  BY DEF InitSessionBranches, BranchShown, Followed

\* The head is written with the manager's leaf and the last entry it knows.
LEMMA SyncedShown ==
  ASSUME BranchShape, runtime'.on, head' = Synced, chapter'.loose \in {"no", "torn"},
         chapter'.loose = "no" => runtime'.last = Len(file')
  PROVE  BranchShown'
  BY DEF Synced, BranchShown, Followed

LEMMA TornShown ==
  ASSUME runtime'.on, chapter'.loose = "torn"
  PROVE  BranchShown'
  BY DEF BranchShown

\* The manager appends behind the head.
LEMMA ExtendsFollows ==
  ASSUME BranchShape, runtime.on, NEW kind \in Kinds, NEW t, MayCarry(file, t),
         kind = "answer" => runtime.turn # "no", Extends(kind, t),
         \/ head' = head /\ Followed
         \/ head' = [leaf |-> runtime.leaf, seen |-> Len(file)]
  PROVE  Followed'
  <1> PICK n : n = Len(file) + 1
    OBVIOUS
  <1>1. /\ Longer(file, file') /\ Len(file') = n /\ n \in Nat /\ runtime'.leaf = n
        /\ Line(n)' = {n} \cup Line(runtime.leaf)
    BY ExtendsDoes
  <1>2. /\ Len(file) \in Nat /\ head.leaf \in Nat /\ head.seen \in Nat /\ runtime.leaf \in Nat
        /\ runtime.leaf <= Len(file) /\ runtime.leaf \in Places
        /\ Line(runtime.leaf) \subseteq 1..runtime.leaf
        /\ runtime.leaf # 0 => runtime.leaf \in Line(runtime.leaf)
    BY ShapeFields, LineFacts
  <1>3. Line(runtime.leaf)' = Line(n)'
    BY <1>1 DEF Line
  <1>4. CASE head' = [leaf |-> runtime.leaf, seen |-> Len(file)]
    <2>1. Under(runtime.leaf, head.leaf)'
      BY <1>1, <1>2, <1>3, <1>4 DEF Under
    <2>2. Len(file) \in Line(n)' => runtime.leaf = Len(file)
      BY <1>1, <1>2
    <2> QED
      BY <1>1, <1>2, <1>3, <1>4, <2>1, <2>2 DEF Followed
  <1>5. CASE head' = head /\ Followed
    <2>1. CASE head = [leaf |-> runtime.leaf, seen |-> Len(file)]
      BY <1>4, <1>5, <2>1
    <2>2. CASE /\ runtime.leaf = Len(file) /\ head.seen < Len(file) /\ Under(runtime.leaf, head.leaf)
               /\ head.seen = 0 \/ head.leaf = head.seen \/ head.seen \notin Line(runtime.leaf)
      <3>1. Under(runtime.leaf, head.leaf)'
        BY <1>1, <1>3, <1>5, <2>2 DEF Under
      <3>2. head.seen \in Line(n)' => head.seen \in Line(runtime.leaf)
        BY <1>1, <1>2, <2>2
      <3>3. head.seen < n
        BY <1>2, <2>2
      <3> QED
        BY <1>1, <1>3, <1>5, <2>2, <3>1, <3>2, <3>3 DEF Followed
    <2> QED
      BY <1>5, <2>1, <2>2 DEF Followed
  <1> QED
    BY <1>4, <1>5

LEMMA ExtendsShown ==
  ASSUME BranchShape, BranchShown, runtime.on, NEW kind \in Kinds \ {"note"}, NEW t, MayCarry(file, t),
         kind = "answer" => runtime.turn # "no", Extends(kind, t),
         \/ head' = head /\ chapter'.loose = chapter.loose
         \/ head' = [leaf |-> runtime.leaf, seen |-> Len(file)] /\ chapter'.loose = "no"
  PROVE  BranchShown'
  <1> PICK n : n = Len(file) + 1
    OBVIOUS
  <1>1. /\ Len(file') = n /\ n \in Nat /\ n > 0 /\ runtime'.on /\ runtime'.last = n
        /\ file'[n].kind = kind
    BY ExtendsDoes, ShapeFields
  <1>2. chapter'.loose = "no" => Followed'
    BY ExtendsFollows DEF BranchShown
  <1> QED
    BY <1>1, <1>2 DEF BranchShown

LEMMA GrowthShown ==
  ASSUME BranchShape, BranchShown,
         UserTurnStarts \/ Answers \/ Records \/ \E t \in Untold : Tells(t)
  PROVE  BranchShown'
  <1>0. Tree(file) /\ Len(file) \in Nat /\ MayCarry(file, 0) /\ "note" \in Kinds
        /\ {"user", "answer", "custom"} \subseteq Kinds \ {"note"}
        /\ chapter \in [mishaps : Nat, shown : SUBSET Places, loose : {"no", "undone", "torn"},
                        elsewhere : BOOLEAN, stray : SUBSET (1..Len(file))]
    BY ShapeFields, CarriesNone DEF Kinds, BranchShape, ChapterShape
  <1>1. CASE UserTurnStarts
    BY <1>0, <1>1, ExtendsShown DEF UserTurnStarts, AtRest
  <1>2. CASE Answers
    <2>1. PICK t \in {0, Len(file) + 1} : Extends("answer", t)
      BY <1>2 DEF Answers
    <2>2. MayCarry(file, t)
      BY <1>0 DEF MayCarry
    <2>3. runtime.turn # "no" /\ runtime.on
      BY <1>2 DEF Answers, BranchShape, RuntimeShape
    <2> QED
      BY <1>0, <1>2, <2>1, <2>2, <2>3, ExtendsShown DEF Answers
  <1>3. CASE Records /\ runtime.on
    <2>1. Extends("note", 0) /\ head' = Synced /\ chapter'.loose = "no"
      BY <1>0, <1>3 DEF Records
    <2> PICK n : n = Len(file) + 1
      OBVIOUS
    <2>2. runtime'.on /\ runtime'.last = n /\ Len(file') = n
      BY <1>0, <1>3, <2>1, ExtendsDoes
    <2> QED
      BY <2>1, <2>2, SyncedShown
  <1>4. CASE Records /\ ~runtime.on
    <2>1. /\ ~runtime'.on /\ head' = [leaf |-> Len(file'), seen |-> Len(file')]
          /\ chapter' = Reopened(Len(file'))
      BY <1>4 DEF Records
    <2>2. chapter'.shown = {Len(file')}
      BY <1>0, <2>1 DEF Reopened
    <2>3. Projected' = Len(file')
      BY <2>1 DEF Projected
    <2>4. Conversation(Projected)' = Conversation(Len(file))'
      BY <2>3 DEF Conversation, Line
    <2>5. ReopeningShowsTheBranch'
      BY <2>1, <2>2, <2>4 DEF ReopeningShowsTheBranch, Conversation, Line
    <2> QED
      BY <2>1, <2>5 DEF BranchShown
  <1>5. ASSUME NEW t \in Untold, Tells(t)
        PROVE  BranchShown'
    <2>1. runtime.on /\ Extends("custom", t)
      BY <1>5 DEF Tells
    <2>2. MayCarry(file, t)
      BY <1>0 DEF MayCarry, Untold
    <2>3. \/ head' = head /\ chapter'.loose = chapter.loose
          \/ head' = [leaf |-> runtime.leaf, seen |-> Len(file)] /\ chapter'.loose = "no"
      <3>1. ~AtRest => runtime.last = Len(file)
        BY <2>1 DEF AtRest, BranchShape, RuntimeShape
      <3> QED
        BY <1>0, <1>5, <3>1 DEF Tells
    <2> QED
      BY <1>0, <2>1, <2>2, <2>3, ExtendsShown
  <1> QED
    BY <1>1, <1>2, <1>3, <1>4, <1>5

LEMMA OpensShown ==
  ASSUME BranchShape, BranchShown, Opens
  PROVE  BranchShown'
  <1>1. /\ runtime'.on /\ head' = Synced /\ runtime'.last = Len(file')
    BY DEF Opens
  <1>2. chapter'.loose = "no"
    BY DEF Opens, Reopened, BranchShape, ChapterShape
  <1> QED
    BY <1>1, <1>2, SyncedShown

\* Reading the branch notes the tail, and finds it where it was.
LEMMA ReadsShown ==
  ASSUME BranchShape, BranchShown, ReadsBranch
  PROVE  BranchShown'
  <1>1. /\ head' = [leaf |-> Projected, seen |-> Len(file)]
        /\ file' = file /\ runtime' = runtime /\ chapter' = chapter
    BY DEF ReadsBranch
  <1>2. Projected' = Projected
    BY <1>1 DEF Projected
  <1>3. CASE runtime.on
    <2>1. chapter.loose = "no" => Followed'
      BY <1>1, <1>3, FollowedProjects DEF BranchShown, Followed
    <2>2. ASSUME chapter.loose = "undone", file[Len(file)].kind = "note"
          PROVE  head' = [leaf |-> file[Len(file)].up, seen |-> Len(file)]
      <3>1. head = [leaf |-> file[Len(file)].up, seen |-> Len(file)]
        BY <1>3, <2>2 DEF BranchShown
      <3> QED
        BY <1>1, <3>1, SeenAll
    <2> QED
      BY <1>1, <1>3, <2>1, <2>2 DEF BranchShown
  <1>4. CASE ~runtime.on
    <2>1. ReopeningShowsTheBranch
      BY <1>4 DEF BranchShown
    <2>2. ReopeningShowsTheBranch'
      BY <1>1, <1>2, <1>4, <2>1 DEF ReopeningShowsTheBranch, Conversation, Line
    <2> QED
      BY <1>1, <1>4, <2>2 DEF BranchShown
  <1> QED
    BY <1>3, <1>4

\* A runtime that goes away leaves what a reopening would have shown.
LEMMA LeavesShown ==
  ASSUME BranchShape, BranchShown, file' = file, head' = head, ~runtime'.on,
         chapter'.loose = chapter.loose,
         chapter'.shown = IF runtime.on THEN {runtime.leaf} ELSE chapter.shown
  PROVE  BranchShown'
  <1>1. ReopeningShowsTheBranch
    BY ShownBranch
  <1>2. ReopeningShowsTheBranch'
    BY <1>1 DEF ReopeningShowsTheBranch, Conversation, Line, Projected, Under
  <1> QED
    BY <1>2 DEF BranchShown

LEMMA RestShown ==
  ASSUME BranchShape, BranchShown,
         \/ LetsGo \/ TurnEnds \/ RetryBegins \/ RetryGivenUp \/ BranchCrash
         \/ \E p \in Plans : RetryRefused(p)
         \/ UNCHANGED branchVars
  PROVE  BranchShown'
  <1>0. /\ chapter \in [mishaps : Nat, shown : SUBSET Places, loose : {"no", "undone", "torn"},
                        elsewhere : BOOLEAN, stray : SUBSET (1..Len(file))]
        /\ runtime \in [on : BOOLEAN, leaf : Places, last : Places, turn : {"no", "user", "custom"}]
        /\ runtime.turn # "no" => runtime.on /\ runtime.last = Len(file)
    BY DEF BranchShape, ChapterShape, RuntimeShape
  <1>1. ASSUME file' = file, head' = head, runtime'.on = runtime.on, runtime'.leaf = runtime.leaf,
               runtime'.last = runtime.last, chapter'.loose = chapter.loose,
               chapter'.shown = chapter.shown
        PROVE  BranchShown'
    <2>1. ReopeningShowsTheBranch => ReopeningShowsTheBranch'
      BY <1>1 DEF ReopeningShowsTheBranch, Conversation, Line, Projected, Under
    <2>2. Followed => Followed'
      BY <1>1 DEF Followed, Under, Line
    <2> QED
      BY <1>1, <2>1, <2>2 DEF BranchShown
  <1>2. CASE LetsGo
    <2>1. /\ file' = file /\ head' = head /\ ~runtime'.on /\ runtime.on
          /\ chapter'.loose = chapter.loose /\ chapter'.shown = {runtime.leaf}
      BY <1>0, <1>2 DEF LetsGo, AtRest
    <2> QED
      BY <2>1, LeavesShown
  <1>3. CASE BranchCrash
    <2>1. PICK shown : shown = IF runtime.on THEN {runtime.leaf} ELSE chapter.shown
      OBVIOUS
    <2>2. /\ file' = file /\ head' = head /\ ~runtime'.on /\ Loses(shown)
      BY <1>0, <1>3, <2>1 DEF BranchCrash
    <2>3. chapter'.loose = chapter.loose /\ chapter'.shown = shown
      BY <1>0, <2>2 DEF Loses
    <2> QED
      BY <2>1, <2>2, <2>3, LeavesShown
  <1>4. CASE TurnEnds
    <2>1. /\ file' = file /\ runtime' = [runtime EXCEPT !.turn = "no"]
          /\ runtime.on /\ runtime.last = Len(file)
          /\ \/ head' = Synced /\ chapter' = [chapter EXCEPT !.loose = "no"]
             \/ head' = head /\ chapter' = [chapter EXCEPT !.mishaps = @ + 1]
      BY <1>0, <1>4 DEF TurnEnds
    <2>2. CASE head' = Synced /\ chapter' = [chapter EXCEPT !.loose = "no"]
      <3>1. runtime'.on /\ runtime'.last = Len(file') /\ chapter'.loose = "no"
        BY <1>0, <2>1, <2>2
      <3> QED
        BY <2>2, <3>1, SyncedShown
    <2>3. CASE head' = head /\ chapter' = [chapter EXCEPT !.mishaps = @ + 1]
      BY <1>0, <1>1, <2>1, <2>3
    <2> QED
      BY <2>1, <2>2, <2>3
  <1>5. CASE RetryBegins \/ UNCHANGED branchVars
    BY <1>1, <1>5 DEF RetryBegins, branchVars
  <1>6. CASE RetryGivenUp
    <2>1. CASE UNCHANGED <<head, chapter>>
      BY <1>1, <1>6, <2>1 DEF RetryGivenUp
    <2>2. CASE AtRest /\ head' = Synced /\ chapter' = [chapter EXCEPT !.loose = Fit]
      <3>1. runtime'.on /\ chapter'.loose = Fit
        BY <1>0, <1>6, <2>2 DEF RetryGivenUp, AtRest
      <3>2. chapter'.loose \in {"no", "torn"} /\ (chapter'.loose = "no" => runtime'.last = Len(file'))
        BY <3>1 DEF Fit
      <3> QED
        BY <2>2, <3>1, <3>2, SyncedShown
    <2> QED
      BY <1>6, <2>1, <2>2 DEF RetryGivenUp
  <1>7. ASSUME NEW p \in Plans, RetryRefused(p)
        PROVE  BranchShown'
    <2>1. AtRest /\ file' = file /\ runtime' = runtime
      BY <1>7, PlanTaken DEF RetryRefused
    <2>2. CASE p.kind = "user"
      <3>1. runtime'.on /\ head' = Synced /\ chapter'.loose = Fit
        BY <1>0, <1>7, <2>1, <2>2 DEF RetryRefused, AtRest
      <3>2. chapter'.loose \in {"no", "torn"} /\ (chapter'.loose = "no" => runtime'.last = Len(file'))
        BY <3>1 DEF Fit
      <3> QED
        BY <3>1, <3>2, SyncedShown
    <2>3. CASE p.kind # "user"
      <3>1. head' = head /\ chapter'.loose = chapter.loose /\ chapter'.shown = chapter.shown
        BY <1>0, <1>7, <2>3 DEF RetryRefused
      <3> QED
        BY <1>1, <2>1, <3>1
    <2> QED
      BY <2>2, <2>3
  <1> QED
    BY <1>2, <1>3, <1>4, <1>5, <1>6, <1>7

\* A place a retry goes back to is below everything its runtime knew.
LEMMA SeenLeft ==
  ASSUME BranchShape, NEW p \in Plans, ~p.old
  PROVE  runtime.last \notin Line(p.up)
  <1>1. p.up < runtime.leaf /\ p.up \in Places
    BY PlanTaken, OriginPlace DEF PlanFits
  <1>2. Line(p.up) \subseteq 1..p.up /\ p.up \in Nat /\ runtime.leaf \in Nat /\ runtime.last \in Nat
    BY <1>1, LineFacts, ShapeFields
  <1>3. runtime.leaf <= runtime.last
    BY DEF BranchShape, RuntimeShape
  <1> QED
    BY <1>1, <1>2, <1>3

LEMMA CommitsShown ==
  ASSUME BranchShape, BranchShown, NEW p \in Plans, RetryCommits(p)
  PROVE  BranchShown'
  <1> PICK n : n = Len(file) + 1
    OBVIOUS
  <1> PICK m, from : m = n + 1 /\ from = IF p.old THEN runtime.leaf ELSE n
    OBVIOUS
  <1>1. /\ Longer(file, file') /\ Len(file') = m /\ n \in Nat
        /\ Line(m)' = {m} \cup (IF p.old THEN Line(runtime.leaf) ELSE {n} \cup Line(p.up))
    BY CommitsDoes
  <1>2. runtime'.on /\ runtime'.leaf = m /\ runtime'.last = m
    BY <1>1, PlanTaken DEF RetryCommits, AtRest, BranchShape, RuntimeShape
  <1>3. /\ chapter'.loose = IF p.old THEN "torn" ELSE "no"
        /\ head' = [leaf |-> p.up, seen |-> runtime.last]
    BY DEF RetryCommits, Rewound, BranchShape, ChapterShape
  <1>4. CASE p.old
    BY <1>2, <1>3, <1>4, TornShown
  <1>5. CASE ~p.old
    <2>1. /\ Len(file) \in Nat /\ runtime.last \in Nat /\ runtime.last <= Len(file)
          /\ p.up \in Places /\ (p.up # 0 => p.up \in Line(p.up))
      BY ShapeFields, OriginPlace, LineFacts
    <2>2. Line(runtime.leaf)' = Line(m)' /\ Line(m)' = {m, n} \cup Line(p.up)
      <3>1. Line(m)' = {m, n} \cup Line(p.up)
        BY <1>1, <1>5
      <3> QED
        BY <1>2, <3>1 DEF Line
    <2>3. Under(runtime.leaf, head.leaf)'
      BY <1>3, <2>1, <2>2 DEF Under
    <2>4. head'.seen \notin Line(runtime.leaf)'
      BY <1>3, <1>5, <2>1, <2>2, SeenLeft
    <2>5. head'.seen < Len(file')
      BY <1>1, <1>3, <2>1
    <2>6. Followed'
      BY <1>1, <1>2, <2>3, <2>4, <2>5 DEF Followed
    <2> QED
      BY <1>1, <1>2, <1>3, <1>5, <2>6 DEF BranchShown
  <1> QED
    BY <1>4, <1>5

\* Of a retry that died, the conversation without the turn.
LEMMA DiesShown ==
  ASSUME BranchShape, BranchShown, NEW p \in Plans, NEW marked, RetryDies(p, marked)
  PROVE  BranchShown'
  <1> PICK n : n = Len(file) + 1
    OBVIOUS
  <1>1. /\ Longer(file, file') /\ n \in Nat
        /\ marked => /\ Len(file') = n /\ Line(n)' = {n} \cup Line(p.up)
                     /\ file'[n].kind = "note" /\ file'[n].up = p.up
        /\ ~marked => file' = file
    BY DiesDoes
  <1>2. /\ head' = [leaf |-> p.up, seen |-> runtime.last] /\ ~runtime'.on /\ runtime.on
        /\ Loses({runtime.leaf, p.up})
    BY PlanTaken DEF RetryDies, Rewound, AtRest, BranchShape, RuntimeShape
  <1>3. chapter'.loose = chapter.loose /\ chapter'.shown = {runtime.leaf, p.up}
    BY <1>2 DEF Loses, BranchShape, ChapterShape
  <1>4. BranchShape'
    BY DiesShape
  <1>5. CASE chapter.loose = "torn"
    BY <1>2, <1>3, <1>5 DEF BranchShown, ReopeningShowsTheBranch
  <1>6. CASE chapter.loose # "torn"
    <2>0. runtime.last = Len(file)
      BY <1>2, <1>6 DEF BranchShown
    <2>1. PICK u : u = p.up
      OBVIOUS
    <2>2. /\ u \in Places /\ Line(u) \subseteq 1..u /\ (u # 0 => u \in Line(u)) /\ u \in Nat
          /\ u <= Len(file) /\ Len(file) \in Nat /\ Line(u)' = Line(u)
      BY <1>1, <2>1, OriginPlace, LineFacts, ShapeFields, Grown
    <2>3. Conversation(Projected)' = Conversation(u)'
      <3>1. CASE marked
        <4>1. Under(n, u)' /\ n # head'.seen
          BY <1>1, <1>2, <2>0, <2>1, <2>2, <3>1 DEF Under
        <4>2. ~(head'.seen # 0 /\ u # head'.seen /\ Under(n, head.seen)')
          <5>1. Under(n, head.seen)' <=> Len(file) = 0 \/ Len(file) \in {n} \cup Line(u)
            BY <1>1, <1>2, <2>0, <2>1, <3>1 DEF Under
          <5> QED
            BY <1>2, <2>0, <2>2, <5>1
        <4>3. Projected' = n
          BY <1>1, <1>2, <2>1, <3>1, <4>1, <4>2 DEF Projected, Under
        <4>4. n \in 1..Len(file') /\ file'[n].kind = "note" /\ file'[n].up = u
          BY <1>1, <2>1, <2>2, <3>1
        <4>5. Conversation(n)' = Conversation(u)'
          <5>1. Line(n)' = {n} \cup Line(u)'
            BY <1>1, <2>1, <2>2, <3>1
          <5> QED
            BY <4>4, <5>1 DEF Conversation
        <4> QED
          BY <4>3, <4>5 DEF Conversation, Line
      <3>2. CASE ~marked
        <4>1. Projected' = u
          BY <1>1, <1>2, <2>0, <2>1, <3>2 DEF Projected
        <4> QED
          BY <4>1 DEF Conversation, Line
      <3> QED
        BY <3>1, <3>2
    <2>4. ReopeningShowsTheBranch'
      BY <1>2, <1>3, <2>1, <2>3 DEF ReopeningShowsTheBranch, Conversation, Line
    <2> QED
      BY <1>2, <2>4 DEF BranchShown
  <1> QED
    BY <1>5, <1>6

\* A retry that is undone is at the marker that puts the leaf back, or excused.
LEMMA UndoneShown ==
  ASSUME BranchShape, BranchShown, NEW p \in Plans, NEW marked, NEW noted, NEW settled,
         NEW synced, RetryIsUndone(p, marked, noted, settled, synced)
  PROVE  BranchShown'
  <1> PICK n : n = Len(file')
    OBVIOUS
  <1>1. /\ n \in Nat
        /\ noted => n > Len(file) /\ file'[n].kind = "note" /\ file'[n].up = Origin(p)
    BY UndoneDoes
  <1>2. chapter'.loose = IF synced THEN Fit ELSE IF settled /\ ~p.old THEN "undone" ELSE "torn"
    <2>1. \E k : chapter' = [chapter EXCEPT !.mishaps = k,
                   !.loose = IF synced THEN Fit ELSE IF settled /\ ~p.old THEN "undone" ELSE "torn"]
      BY DEF RetryIsUndone
    <2> QED
      BY <2>1 DEF BranchShape, ChapterShape
  <1>3. /\ runtime'.on
        /\ ~p.old => runtime'.last = n /\ (noted => runtime'.leaf = n)
    BY PlanTaken DEF RetryIsUndone, AtRest, BranchShape, RuntimeShape
  <1>4. CASE synced
    <2>1. head' = Synced /\ chapter'.loose = Fit
      BY <1>2, <1>4 DEF RetryIsUndone
    <2>2. chapter'.loose \in {"no", "torn"} /\ (chapter'.loose = "no" => runtime'.last = Len(file'))
      BY <2>1 DEF Fit
    <2> QED
      BY <1>3, <2>1, <2>2, SyncedShown
  <1>5. CASE ~synced /\ settled /\ ~p.old
    <2>1. noted /\ head' = [leaf |-> Origin(p), seen |-> runtime'.last] /\ chapter'.loose = "undone"
      BY <1>2, <1>5 DEF RetryIsUndone, Restored
    <2>2. n > 0
      BY <1>1, <2>1, ShapeFields
    <2> QED
      BY <1>1, <1>3, <1>5, <2>1, <2>2 DEF BranchShown
  <1>6. CASE ~synced /\ ~(settled /\ ~p.old)
    BY <1>2, <1>3, <1>6, TornShown
  <1> QED
    BY <1>4, <1>5, <1>6

LEMMA ShownStep ==
  ASSUME BranchShape, BranchShown, [NextSessionBranches]_branchVars
  PROVE  BranchShown'
  <1>1. CASE LetsGo \/ TurnEnds \/ RetryBegins \/ RetryGivenUp \/ BranchCrash
             \/ (\E p \in Plans : RetryRefused(p)) \/ UNCHANGED branchVars
    BY <1>1, RestShown
  <1>2. CASE UserTurnStarts \/ Answers \/ Records \/ \E t \in Untold : Tells(t)
    BY <1>2, GrowthShown
  <1>3. CASE Opens
    BY <1>3, OpensShown
  <1>4. CASE ReadsBranch
    BY <1>4, ReadsShown
  <1>5. ASSUME NEW p \in Plans, RetryCommits(p)
        PROVE  BranchShown'
    BY <1>5, CommitsShown
  <1>6. ASSUME NEW p \in Plans, NEW marked \in BOOLEAN, RetryDies(p, marked)
        PROVE  BranchShown'
    BY <1>6, DiesShown
  <1>7. ASSUME NEW p \in Plans, NEW marked \in BOOLEAN, NEW noted \in BOOLEAN,
               NEW settled \in BOOLEAN, NEW synced \in BOOLEAN,
               RetryIsUndone(p, marked, noted, settled, synced)
        PROVE  BranchShown'
    BY <1>7, UndoneShown
  <1> QED
    BY <1>1, <1>2, <1>3, <1>4, <1>5, <1>6, <1>7 DEF NextSessionBranches

\* What a reopening of the session shows is the conversation of its runtime
\* (readManifestSessionBranch and applyStoredSessionBranchHead of
\* src/core/session-branch-head.ts): the head names the runtime's leaf or a place the
\* runtime went on from without the turn that was discarded there, and a retry that dies
\* half-way has left the head at the conversation without the turn.
THEOREM ReopeningIsTrue == SpecSessionBranches => []ReopeningShowsTheBranch
  <1>1. InitSessionBranches => BranchShape /\ BranchShown
    BY ShapeInit, ShownInit
  <1>2. BranchShape /\ BranchShown /\ [NextSessionBranches]_branchVars
        => BranchShape' /\ BranchShown'
    BY ShapeStep, ShownStep
  <1>3. BranchShape /\ BranchShown => ReopeningShowsTheBranch
    BY ShownBranch
  <1> QED
    BY <1>1, <1>2, <1>3, PTL DEF SpecSessionBranches

-----------------------------------------------------------------------------
(* Side by side.                                                             *)

LEMMA ShapeTypes ==
  ASSUME BranchShape
  PROVE  BranchesTypeOK
  <1>1. /\ file \in Seq([up : Entries, kind : Kinds, task : Entries]) /\ Len(file) <= MaxEntries
        /\ \A e \in 1 .. Len(file) : file[e].up < e
    BY DEF BranchShape, FileShape, Tree, Nodes
  <1>2. /\ head \in [leaf : 0 .. Len(file), seen : 0 .. Len(file)]
        /\ runtime \in [on : BOOLEAN, leaf : 0 .. Len(file), last : 0 .. Len(file),
                        turn : {"no", "user", "custom"}]
    BY DEF BranchShape, HeadShape, RuntimeShape, Places
  <1>3. retry.gone \subseteq 1 .. Len(file) /\ retry.leaf \in 0 .. Len(file)
    BY DEF BranchShape, RetryShape, PlanTyped, Places
  <1>4. notice.told \cup notice.fenced \subseteq 1 .. Len(file)
    BY DEF BranchShape, NoticeShape
  <1> QED
    BY <1>1, <1>2, <1>3, <1>4 DEF BranchesTypeOK

\* What is proved of either specification holds of the two side by side.
LEMMA Beside == SpecBeside => Spec /\ SpecSessionBranches
  <1>1. InitBeside => Init /\ InitSessionBranches
    BY DEF InitBeside
  <1>2. [NextBeside]_partVars => [Next]_vars /\ [NextSessionBranches]_branchVars
    BY DEF NextBeside, partVars, vars, branchVars
  <1> QED
    BY <1>1, <1>2, PTL DEF SpecBeside, Spec, SpecSessionBranches

\* Every record of a deferred result (src/lib/deferred-result-store.ts) and every place a
\* session's head, runtime, retry and fences name (src/core/session-branch-head.ts,
\* src/core/session-turn-actions.ts) are of their type: a place is an entry of the file or
\* the one before the first, and an entry continues an earlier one.
THEOREM TypesHold == SpecBeside => []TypesOK
  <1>1. Spec => []TypeOK
    BY DeferredTypes
  <1>2. InitSessionBranches => BranchShape
    BY ShapeInit
  <1>3. BranchShape /\ [NextSessionBranches]_branchVars => BranchShape'
    BY ShapeStep
  <1>4. BranchShape => BranchesTypeOK
    BY ShapeTypes
  <1>5. SpecSessionBranches => []BranchesTypeOK
    BY <1>2, <1>3, <1>4, PTL DEF SpecSessionBranches
  <1> QED
    BY <1>1, <1>5, Beside, PTL DEF TypesOK
=============================================================================
