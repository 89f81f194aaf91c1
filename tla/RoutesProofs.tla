---------------------------- MODULE RoutesProofs ----------------------------
(***************************************************************************)
(* The search for routes on any layouts.  Whatever cells the nodes share,  *)
(* there is an order of the cells in which prev always leads down; prev of *)
(* a node reached that has a cell of its own is moreover the last step of  *)
(* a way to it, a shortest one as far as the search has come.              *)
(***************************************************************************)
EXTENDS Routes, TLAPS

-----------------------------------------------------------------------------
(* Sequences.                                                              *)

Entries(q) == {q[i] : i \in DOMAIN q}

LEMMA TailEntries ==
  ASSUME NEW X, NEW q \in Seq(X), q # <<>>
  PROVE  /\ Tail(q) \in Seq(X) /\ Head(q) \in X /\ Head(q) \in Entries(q)
         /\ Entries(q) \subseteq {Head(q)} \cup Entries(Tail(q))
         /\ Entries(Tail(q)) \subseteq Entries(q)
<1>1. PICK p : p = Tail(q)
  OBVIOUS
<1>2. /\ p \in Seq(X) /\ Head(q) \in X /\ Head(q) = q[1] /\ 1 \in DOMAIN q
      /\ \A i \in DOMAIN p : i + 1 \in DOMAIN q /\ p[i] = q[i + 1]
      /\ \A i \in DOMAIN q : i # 1 => i - 1 \in DOMAIN p /\ p[i - 1] = q[i]
  BY <1>1
<1>3. Head(q) \in Entries(q)
  BY <1>2 DEF Entries
<1>4. Entries(p) \subseteq Entries(q)
  BY <1>2 DEF Entries
<1>5. Entries(q) \subseteq {Head(q)} \cup Entries(p)
  <2>1. SUFFICES ASSUME NEW i \in DOMAIN q PROVE q[i] = Head(q) \/ q[i] \in Entries(p)
    BY DEF Entries
  <2>2. CASE i = 1
    BY <1>2, <2>2
  <2>3. CASE i # 1
    BY <1>2, <2>3 DEF Entries
  <2> QED
    BY <2>2, <2>3
<1> QED
  BY <1>1, <1>2, <1>3, <1>4, <1>5

LEMMA AppendEntries ==
  ASSUME NEW X, NEW q \in Seq(X), NEW x \in X
  PROVE  Append(q, x) \in Seq(X) /\ Entries(Append(q, x)) = Entries(q) \cup {x}
<1>1. PICK p : p = Append(q, x)
  OBVIOUS
<1>2. /\ p \in Seq(X)
      /\ \A i \in DOMAIN q : i \in DOMAIN p /\ p[i] = q[i]
      /\ Len(q) + 1 \in DOMAIN p /\ p[Len(q) + 1] = x
      /\ \A i \in DOMAIN p : i \in DOMAIN q \/ i = Len(q) + 1
  BY <1>1
<1>3. Entries(p) = Entries(q) \cup {x}
  BY <1>2 DEF Entries
<1> QED
  BY <1>1, <1>2, <1>3

LEMMA NoneYet ==
  ASSUME NEW X
  PROVE  <<>> \in Seq(X) /\ DOMAIN <<>> = {} /\ Entries(<<>>) = {}
<1>1. <<>> \in Seq(X) /\ Len(<<>>) = 0
  OBVIOUS
<1>2. DOMAIN <<>> = 1 .. 0
  BY <1>1
<1>3. DOMAIN <<>> = {}
  BY <1>1, <1>2
<1> QED
  BY <1>1, <1>3 DEF Entries

-----------------------------------------------------------------------------
(* The layout.                                                             *)

\* Of the node array and the start of a route nothing changes.
Placed == node \in Layouts /\ start \in DOMAIN node

LEMMA LayoutFacts ==
  ASSUME Placed
  PROVE  /\ DOMAIN node \subseteq Nat /\ Garbage \notin DOMAIN node
         /\ \A i \in DOMAIN node :
              /\ node[i].num \in Nat /\ node[i].type \in 1 .. 5
              /\ node[i].reverse \in DOMAIN node
              /\ node[i].type # EXIT => node[i].straight.dest \in DOMAIN node /\ node[i].straight.dist \in Nat
              /\ node[i].type = BRANCH => node[i].curved.dest \in DOMAIN node /\ node[i].curved.dist \in Nat
BY LayoutsAssumption DEF Placed, Garbage, SENSOR, BRANCH, MERGE, ENTER, EXIT

\* A way on from a node.
LEMMA WayFacts ==
  ASSUME Placed, NEW i \in DOMAIN node, NEW w \in Ways(i)
  PROVE  w.dest \in DOMAIN node /\ w.dist \in Nat
BY LayoutFacts DEF Ways, Edge, SENSOR, BRANCH, EXIT

-----------------------------------------------------------------------------
(* The search, in a state s of it.                                         *)

D(s, i) == s.distance[CellAt(i)]
P(s, i) == s.prev[CellAt(i)]

\* The shape of the search's state.
Shaped(s) ==
  /\ s = [distance |-> s.distance, prev |-> s.prev, queue |-> s.queue, tail |-> s.tail]
  /\ s.distance \in [Cells -> 0 .. Far] /\ s.prev \in [Cells -> DOMAIN node \cup {Garbage}]
  /\ s.queue \in Seq(DOMAIN node) /\ s.tail \in Nat

\* prev of a node reached that has a cell of its own is the last step of a way to it,
\* which may have become shorter since.
Stepped(s) ==
  /\ \A i \in DOMAIN node : i = start => D(s, i) = 0 /\ P(s, i) = Garbage
  /\ \A i, j \in DOMAIN node : Own(i) /\ P(s, i) = j =>
       D(s, j) # Far /\ \E w \in Ways(j) : w.dest = i /\ D(s, j) + w.dist <= D(s, i)
  /\ \A i \in Entries(s.queue) : D(s, i) # Far

\* All ways on from node i are taken into account.
Relaxed(s, i) == \A w \in Ways(i) : D(s, w.dest) <= D(s, i) + w.dist

\* A node reached that has a cell of its own is yet to be expanded, or all its ways
\* are taken into account.
Settled(s, i) == Own(i) /\ D(s, i) # Far => i \in Entries(s.queue) \/ Relaxed(s, i)
Open(s) == \A i \in DOMAIN node : Settled(s, i)

\* Node j comes before node i: it is nearer, or as near and was reached earlier.
Lower(s, time, j, i) ==
  D(s, j) < D(s, i) \/ (D(s, j) = D(s, i) /\ time[CellAt(j)] < time[CellAt(i)])

\* prev leads down.
Downward(s, time) ==
  /\ time \in [Cells -> Nat] /\ \A c \in Cells : time[c] <= s.tail
  /\ \A i, j \in DOMAIN node : P(s, i) = j => Lower(s, time, j, i)

LEMMA FarIsNat == Far \in Nat /\ Far # 0
BY SMT DEF Far

LEMMA CellsOfNodes ==
  ASSUME Placed, NEW i \in DOMAIN node
  PROVE  CellAt(i) \in Cells
BY DEF Cells

LEMMA ShapeOf ==
  ASSUME Placed, NEW s, Shaped(s), NEW i \in DOMAIN node
  PROVE  D(s, i) \in 0 .. Far /\ D(s, i) \in Nat /\ P(s, i) \in DOMAIN node \cup {Garbage}
BY CellsOfNodes, FarIsNat DEF Shaped, D, P

\* The distance of one cell becomes less.
LEMMA ReachedShape ==
  ASSUME Placed, NEW s, Shaped(s), NEW i \in DOMAIN node, NEW to \in DOMAIN node,
         NEW d \in Nat, d < D(s, to)
  PROVE  LET t == Reached(s, i, to, d)
         IN /\ Shaped(t) /\ t.tail = s.tail + 1
            /\ D(t, to) = d /\ P(t, to) = i
            /\ \A k \in DOMAIN node : CellAt(k) # CellAt(to) => D(t, k) = D(s, k) /\ P(t, k) = P(s, k)
            /\ Entries(t.queue) = Entries(s.queue) \cup {to}
<1>1. PICK t : t = Reached(s, i, to, d)
  OBVIOUS
<1>2. /\ t = [distance |-> t.distance, prev |-> t.prev, queue |-> t.queue, tail |-> t.tail]
      /\ t.distance = [s.distance EXCEPT ![CellAt(to)] = d]
      /\ t.prev = [s.prev EXCEPT ![CellAt(to)] = i]
      /\ t.queue = Append(s.queue, to) /\ t.tail = s.tail + 1
  BY <1>1 DEF Reached
<1>3. CellAt(to) \in Cells /\ d \in 0 .. Far /\ \A k \in DOMAIN node : CellAt(k) \in Cells
  BY CellsOfNodes, ShapeOf, FarIsNat
<1>4. /\ t.distance \in [Cells -> 0 .. Far] /\ t.prev \in [Cells -> DOMAIN node \cup {Garbage}]
      /\ t.distance[CellAt(to)] = d /\ t.prev[CellAt(to)] = i
      /\ \A c \in Cells : c # CellAt(to) => t.distance[c] = s.distance[c] /\ t.prev[c] = s.prev[c]
  BY <1>2, <1>3 DEF Shaped
<1>5. t.queue \in Seq(DOMAIN node) /\ Entries(t.queue) = Entries(s.queue) \cup {to}
  BY <1>2, AppendEntries DEF Shaped
<1>6. Shaped(t)
  BY <1>2, <1>4, <1>5 DEF Shaped
<1>7. /\ D(t, to) = d /\ P(t, to) = i
      /\ \A k \in DOMAIN node : CellAt(k) # CellAt(to) => D(t, k) = D(s, k) /\ P(t, k) = P(s, k)
  BY <1>3, <1>4 DEF D, P
<1> QED
  BY <1>1, <1>2, <1>5, <1>6, <1>7

\* It came to be reached last, and from a cell nearer than it or as near.
LEMMA ReachedDown ==
  ASSUME Placed, NEW s, Shaped(s), NEW i \in DOMAIN node, NEW to \in DOMAIN node,
         NEW d \in Nat, D(s, i) <= d, d < D(s, to),
         NEW t, t = Reached(s, i, to, d), NEW time, Downward(s, time)
  PROVE  \E later : Downward(t, later)
<1>1. PICK c \in Cells : c = CellAt(to)
  BY CellsOfNodes
<1>2. /\ Shaped(t) /\ D(t, to) = d /\ P(t, to) = i
      /\ \A k \in DOMAIN node : CellAt(k) # c => D(t, k) = D(s, k) /\ P(t, k) = P(s, k)
      /\ t.tail = s.tail + 1 /\ s.tail \in Nat
  <2>1. s.tail \in Nat
    BY DEF Shaped
  <2> QED
    BY <1>1, <2>1, ReachedShape
<1>3. \A k \in DOMAIN node : CellAt(k) = c => D(t, k) = d /\ P(t, k) = i /\ D(s, k) = D(s, to)
  BY <1>1, <1>2 DEF D, P
<1>4. \A k \in DOMAIN node : D(s, k) \in Nat /\ CellAt(k) \in Cells
  BY ShapeOf, CellsOfNodes
<1>5. \A a \in Cells : time[a] \in Nat /\ time[a] <= s.tail
  BY DEF Downward
<1>6. CellAt(i) # c
  BY <1>3, <1>4
<1>7. PICK later : later = [time EXCEPT ![c] = s.tail + 1]
  OBVIOUS
<1>8. /\ later \in [Cells -> Nat] /\ later[c] = s.tail + 1
      /\ \A a \in Cells : a # c => later[a] = time[a]
  BY <1>2, <1>7 DEF Downward
<1>9. \A a \in Cells : later[a] <= t.tail
  BY <1>2, <1>5, <1>8
<1>10. ASSUME NEW k \in DOMAIN node, NEW j \in DOMAIN node, P(t, k) = j
       PROVE  Lower(t, later, j, k)
  <2>1. CASE CellAt(k) = c
    <3>1. j = i /\ D(t, j) = D(s, i) /\ D(t, k) = d
      BY <1>2, <1>3, <1>6, <1>10, <2>1
    <3>2. later[CellAt(j)] = time[CellAt(i)] /\ later[CellAt(k)] = s.tail + 1
      BY <1>4, <1>6, <1>8, <2>1, <3>1
    <3>3. time[CellAt(i)] < s.tail + 1
      BY <1>2, <1>4, <1>5
    <3>4. D(s, i) < d \/ D(s, i) = d
      BY <1>4
    <3> QED
      BY <3>1, <3>2, <3>3, <3>4 DEF Lower
  <2>2. CASE CellAt(k) # c
    <3>1. P(s, k) = j /\ D(t, k) = D(s, k) /\ later[CellAt(k)] = time[CellAt(k)]
      BY <1>2, <1>4, <1>8, <1>10, <2>2
    <3>2. D(s, j) < D(s, k) \/ (D(s, j) = D(s, k) /\ time[CellAt(j)] < time[CellAt(k)])
      BY <3>1 DEF Downward, Lower
    <3>3. CASE CellAt(j) = c
      <4>1. D(t, j) = d /\ d < D(s, j)
        BY <1>3, <3>3
      <4>2. D(t, j) < D(t, k)
        BY <1>4, <3>1, <3>2, <4>1
      <4> QED
        BY <4>2 DEF Lower
    <3>4. CASE CellAt(j) # c
      <4>1. D(t, j) = D(s, j) /\ later[CellAt(j)] = time[CellAt(j)]
        BY <1>2, <1>4, <1>8, <3>4
      <4> QED
        BY <3>1, <3>2, <4>1 DEF Lower
    <3> QED
      BY <3>3, <3>4
  <2> QED
    BY <2>1, <2>2
<1> QED
  BY <1>8, <1>9, <1>10 DEF Downward

\* Whatever cells the nodes share, a way taken into account leaves the arrays in
\* shape and prev leading down.
Sound(s) == Shaped(s) /\ \E time : Downward(s, time)

LEMMA RelaxSound ==
  ASSUME Placed, NEW s, Sound(s), NEW i \in DOMAIN node, NEW to \in DOMAIN node, NEW dist \in Nat
  PROVE  Sound(Relax(s, i, to, dist))
<1>1. Shaped(s) /\ \E time : Downward(s, time)
  BY DEF Sound
<1>2. PICK d \in Nat : d = D(s, i) + dist
  BY <1>1, ShapeOf
<1>3. PICK t : t = Relax(s, i, to, dist)
  OBVIOUS
<1>4. t = IF D(s, to) > d THEN Reached(s, i, to, d) ELSE s
  BY <1>2, <1>3 DEF Relax, D
<1>5. D(s, to) \in Nat /\ D(s, i) \in Nat
  BY <1>1, ShapeOf
<1>6. CASE D(s, to) > d
  <2>1. t = Reached(s, i, to, d) /\ d < D(s, to) /\ D(s, i) <= d
    BY <1>2, <1>4, <1>5, <1>6
  <2> QED
    BY <1>1, <1>3, <2>1, ReachedShape, ReachedDown DEF Sound
<1>7. CASE ~(D(s, to) > d)
  BY <1>3, <1>4, <1>7
<1> QED
  BY <1>6, <1>7

-----------------------------------------------------------------------------
(* A way taken into account.                                               *)

\* In the midst of expanding node i the ways W are taken into account.
Partial(s, i, W) ==
  /\ Shaped(s) /\ Stepped(s)
  /\ D(s, i) # Far
  /\ \A k \in DOMAIN node : k # i => Settled(s, k)
  /\ \A w \in W : D(s, w.dest) <= D(s, i) + w.dist

\* What a way on from node i that is a shorter one does: only the cell it leads to
\* changes, which is neither that of i nor that of the start.
LEMMA ReachedIs ==
  ASSUME Placed, NEW s, Shaped(s), Stepped(s), NEW i \in DOMAIN node, D(s, i) # Far,
         NEW w \in Ways(i), D(s, i) + w.dist < D(s, w.dest)
  PROVE  LET t == Reached(s, i, w.dest, D(s, i) + w.dist)
         IN /\ Shaped(t) /\ t.tail = s.tail + 1 /\ w.dest \in DOMAIN node
            /\ D(t, w.dest) = D(s, i) + w.dist /\ P(t, w.dest) = i
            /\ \A k \in {i, start} : D(t, k) = D(s, k) /\ P(t, k) = P(s, k)
            /\ \A k \in DOMAIN node : Own(k) /\ k # w.dest => D(t, k) = D(s, k) /\ P(t, k) = P(s, k)
            /\ \A k \in DOMAIN node : D(t, k) <= D(s, k)
            /\ Entries(t.queue) = Entries(s.queue) \cup {w.dest}
<1>1. PICK to \in DOMAIN node, d \in Nat : to = w.dest /\ d = D(s, i) + w.dist /\ w.dist \in Nat
  BY WayFacts, ShapeOf
<1>2. \A k \in DOMAIN node : D(s, k) \in Nat
  BY ShapeOf
<1>3. D(s, i) <= d /\ d < D(s, to)
  BY <1>1, <1>2
<1>4. \A k \in DOMAIN node : CellAt(k) = CellAt(to) => D(s, k) = D(s, to)
  BY DEF D
<1>5. CellAt(i) # CellAt(to)
  BY <1>1, <1>2, <1>3, <1>4
<1>6. start \in DOMAIN node /\ CellAt(start) # CellAt(to)
  <2>1. start \in DOMAIN node /\ D(s, start) = 0
    BY DEF Stepped, Placed
  <2> QED
    BY <1>1, <1>2, <1>3, <1>4, <2>1
<1>7. \A k \in DOMAIN node : Own(k) /\ k # to => CellAt(k) # CellAt(to)
  BY <1>1 DEF Own
<1>8. PICK t : t = Reached(s, i, to, d)
  OBVIOUS
<1>9. /\ Shaped(t) /\ t.tail = s.tail + 1 /\ D(t, to) = d /\ P(t, to) = i
      /\ \A k \in DOMAIN node : CellAt(k) # CellAt(to) => D(t, k) = D(s, k) /\ P(t, k) = P(s, k)
      /\ Entries(t.queue) = Entries(s.queue) \cup {to}
  BY <1>3, <1>8, ReachedShape
<1>10. \A k \in DOMAIN node : D(t, k) <= D(s, k)
  <2>1. \A k \in DOMAIN node : CellAt(k) = CellAt(to) => D(t, k) = d
    BY <1>9 DEF D
  <2> QED
    BY <1>1, <1>2, <1>3, <1>4, <1>9, <2>1
<1> QED
  BY <1>1, <1>5, <1>6, <1>7, <1>8, <1>9, <1>10

LEMMA ReachedSteps ==
  ASSUME Placed, NEW s, Shaped(s), Stepped(s), NEW i \in DOMAIN node, D(s, i) # Far,
         NEW w \in Ways(i), D(s, i) + w.dist < D(s, w.dest),
         NEW t, t = Reached(s, i, w.dest, D(s, i) + w.dist)
  PROVE  Stepped(t)
<1>1. PICK to \in DOMAIN node, d \in Nat : to = w.dest /\ d = D(s, i) + w.dist /\ w.dist \in Nat
  BY WayFacts, ShapeOf
<1>2. /\ Shaped(t) /\ D(t, to) = d /\ P(t, to) = i /\ d < D(s, to)
      /\ \A k \in {i, start} : D(t, k) = D(s, k) /\ P(t, k) = P(s, k)
      /\ \A k \in DOMAIN node : Own(k) /\ k # to => D(t, k) = D(s, k) /\ P(t, k) = P(s, k)
      /\ \A k \in DOMAIN node : D(t, k) <= D(s, k)
      /\ Entries(t.queue) = Entries(s.queue) \cup {to}
  BY <1>1, ReachedIs
<1>3. \A k \in DOMAIN node : /\ D(s, k) \in Nat /\ D(s, k) <= Far /\ D(t, k) \in Nat
                            /\ D(t, k) <= D(s, k) /\ (D(s, k) # Far => D(t, k) # Far)
  BY <1>2, ShapeOf, FarIsNat
<1>4. D(t, to) # Far
  BY <1>1, <1>2, <1>3, FarIsNat
<1>5. \A k \in DOMAIN node : k = start => D(t, k) = 0 /\ P(t, k) = Garbage
  BY <1>2 DEF Stepped
<1>7. ASSUME NEW k \in DOMAIN node, NEW j \in DOMAIN node, Own(k), P(t, k) = j
      PROVE  D(t, j) # Far /\ \E v \in Ways(j) : v.dest = k /\ D(t, j) + v.dist <= D(t, k)
  <2>1. CASE k = to
    <3>1. j = i /\ D(t, j) = D(s, i) /\ D(t, k) = d
      BY <1>2, <1>7, <2>1
    <3> QED
      BY <1>1, <1>2, <1>3, <2>1, <3>1
  <2>2. CASE k # to
    <3>1. P(s, k) = j /\ D(t, k) = D(s, k)
      BY <1>2, <1>7, <2>2
    <3>2. D(s, j) # Far /\ \E v \in Ways(j) : v.dest = k /\ D(s, j) + v.dist <= D(s, k)
      BY <1>7, <3>1 DEF Stepped
    <3>3. PICK v \in Ways(j) : v.dest = k /\ D(s, j) + v.dist <= D(s, k)
      BY <3>2
    <3>4. v.dist \in Nat
      BY WayFacts
    <3>5. D(t, j) + v.dist <= D(t, k)
      BY <1>3, <3>1, <3>3, <3>4
    <3> QED
      BY <1>3, <3>2, <3>3, <3>5
  <2> QED
    BY <2>1, <2>2
<1>8. \A k \in Entries(s.queue) : k \in DOMAIN node /\ D(s, k) # Far
  BY DEF Stepped, Shaped, Entries
<1>9. \A k \in Entries(t.queue) : D(t, k) # Far
  BY <1>2, <1>3, <1>4, <1>8
<1> QED
  BY <1>5, <1>7, <1>9 DEF Stepped

LEMMA RelaxTakes ==
  ASSUME Placed, NEW s, NEW i \in DOMAIN node, NEW W \in SUBSET Ways(i), Partial(s, i, W),
         NEW w \in Ways(i)
  PROVE  Partial(Relax(s, i, w.dest, w.dist), i, W \cup {w})
<1>1. PICK d : d = D(s, i) + w.dist
  OBVIOUS
<1>2. PICK t : t = Relax(s, i, w.dest, w.dist)
  OBVIOUS
<1>3. t = IF D(s, w.dest) > d THEN Reached(s, i, w.dest, d) ELSE s
  BY <1>1, <1>2 DEF Relax, D
<1>4. /\ Shaped(s) /\ Stepped(s) /\ D(s, i) # Far
      /\ \A k \in DOMAIN node : k # i => Settled(s, k)
      /\ \A v \in W : D(s, v.dest) <= D(s, i) + v.dist
  BY DEF Partial
<1>6. /\ w.dest \in DOMAIN node /\ w.dist \in Nat /\ D(s, w.dest) \in Nat /\ D(s, i) \in Nat /\ d \in Nat
  BY <1>1, <1>4, WayFacts, ShapeOf
<1>7. CASE ~(D(s, w.dest) > d)
  <2>1. t = s /\ D(s, w.dest) <= D(s, i) + w.dist
    BY <1>1, <1>3, <1>6, <1>7
  <2> QED
    BY <1>2, <1>4, <2>1 DEF Partial
<1>8. CASE D(s, w.dest) > d
  <2>1. t = Reached(s, i, w.dest, D(s, i) + w.dist) /\ D(s, i) + w.dist < D(s, w.dest)
    BY <1>1, <1>3, <1>6, <1>8
  <2>2. /\ Shaped(t) /\ D(t, w.dest) = d /\ D(t, i) = D(s, i)
        /\ \A k \in DOMAIN node : Own(k) /\ k # w.dest => D(t, k) = D(s, k)
        /\ \A k \in DOMAIN node : D(t, k) <= D(s, k)
        /\ Entries(t.queue) = Entries(s.queue) \cup {w.dest}
    BY <1>1, <1>4, <2>1, ReachedIs
  <2>3. Stepped(t)
    BY <1>4, <2>1, ReachedSteps
  <2>4. D(t, i) = D(s, i)
    BY <2>2
  <2>5. \A k \in DOMAIN node : D(s, k) \in Nat /\ D(t, k) \in Nat /\ D(t, k) <= D(s, k)
    BY <1>4, <1>6, <1>8, <2>2, ShapeOf
  <2>6. \A k \in DOMAIN node : \A v \in Ways(k) :
          D(s, v.dest) <= D(s, k) + v.dist /\ D(t, k) = D(s, k) => D(t, v.dest) <= D(t, k) + v.dist
    BY <2>5, WayFacts
  <2>7. ASSUME NEW k \in DOMAIN node, k # i
        PROVE  Settled(t, k)
    <3>1. CASE k = w.dest
      BY <2>2, <3>1 DEF Settled
    <3>2. CASE k # w.dest
      BY <1>4, <2>2, <2>6, <2>7, <3>2 DEF Settled, Relaxed
    <3> QED
      BY <3>1, <3>2
  <2>8. ASSUME NEW v \in W \cup {w}
        PROVE  D(t, v.dest) <= D(t, i) + v.dist
    <3>1. CASE v = w
      BY <1>1, <1>6, <2>2, <2>4, <3>1
    <3>2. CASE v \in W
      BY <1>4, <2>4, <2>6, <3>2
    <3> QED
      BY <3>1, <3>2
  <2> QED
    BY <1>2, <1>4, <2>2, <2>3, <2>4, <2>7, <2>8 DEF Partial
<1> QED
  BY <1>7, <1>8

-----------------------------------------------------------------------------
(* A node taken from the queue and expanded.                               *)

\* Without its first queued node the state of the search is what it was.
LEMMA TakenOff ==
  ASSUME Placed, NEW s, Shaped(s), s.queue # <<>>, NEW t, t = [s EXCEPT !.queue = Tail(s.queue)]
  PROVE  /\ Shaped(t) /\ t.tail = s.tail /\ t.queue = Tail(s.queue)
         /\ \A k \in DOMAIN node : D(t, k) = D(s, k) /\ P(t, k) = P(s, k)
         /\ Head(s.queue) \in DOMAIN node
<1>1. /\ t = [distance |-> t.distance, prev |-> t.prev, queue |-> t.queue, tail |-> t.tail]
      /\ t.distance = s.distance /\ t.prev = s.prev /\ t.tail = s.tail /\ t.queue = Tail(s.queue)
  BY DEF Shaped
<1>2. Tail(s.queue) \in Seq(DOMAIN node) /\ Head(s.queue) \in DOMAIN node
  BY TailEntries DEF Shaped
<1> QED
  BY <1>1, <1>2 DEF Shaped, D, P

LEMMA TakenStays ==
  ASSUME Placed, NEW s, Shaped(s), s.queue # <<>>, NEW t, t = [s EXCEPT !.queue = Tail(s.queue)],
         Stepped(s), Open(s)
  PROVE  Partial(t, Head(s.queue), {})
<1>1. PICK i : i = Head(s.queue)
  OBVIOUS
<1>2. /\ Shaped(t) /\ t.tail = s.tail /\ i \in DOMAIN node
      /\ \A k \in DOMAIN node : D(t, k) = D(s, k) /\ P(t, k) = P(s, k)
  BY <1>1, TakenOff
<1>3. /\ i \in Entries(s.queue) /\ Entries(t.queue) \subseteq Entries(s.queue)
      /\ \A k \in Entries(s.queue) : k # i => k \in Entries(t.queue)
  BY <1>1, TakenOff, TailEntries DEF Shaped
<1>4. Entries(s.queue) \subseteq DOMAIN node
  BY DEF Entries, Shaped
<1>5. Stepped(t)
  <2>1. \A k \in DOMAIN node : k = start => D(t, k) = 0 /\ P(t, k) = Garbage
    BY <1>2 DEF Stepped
  <2>3. \A k, j \in DOMAIN node : Own(k) /\ P(t, k) = j =>
          D(t, j) # Far /\ \E w \in Ways(j) : w.dest = k /\ D(t, j) + w.dist <= D(t, k)
    BY <1>2 DEF Stepped
  <2>4. \A k \in Entries(t.queue) : D(t, k) # Far
    BY <1>2, <1>3, <1>4 DEF Stepped
  <2> QED
    BY <2>1, <2>3, <2>4 DEF Stepped
<1>7. D(t, i) # Far
  BY <1>2, <1>3 DEF Stepped
<1>8. ASSUME NEW k \in DOMAIN node, k # i
      PROVE  Settled(t, k)
  <2>1. Relaxed(s, k) => Relaxed(t, k)
    BY <1>2, WayFacts DEF Relaxed
  <2> QED
    BY <1>2, <1>3, <1>8, <2>1 DEF Open, Settled
<1> QED
  BY <1>1, <1>2, <1>5, <1>7, <1>8 DEF Partial

\* Expanded, for the state s of the search.
After(s) ==
  LET i == Head(s.queue)
      t == [s EXCEPT !.queue = Tail(s.queue)]
  IN RelaxReverse(RelaxStraight(RelaxCurved(t, i), i), i)

LEMMA ExpandSound ==
  ASSUME Placed, NEW s, Sound(s), s.queue # <<>>
  PROVE  Sound(After(s))
<1>1. PICK t, i : t = [s EXCEPT !.queue = Tail(s.queue)] /\ i = Head(s.queue)
  OBVIOUS
<1>2. Sound(t) /\ i \in DOMAIN node
  <2>1. /\ Shaped(t) /\ t.tail = s.tail /\ i \in DOMAIN node
        /\ \A k \in DOMAIN node : D(t, k) = D(s, k) /\ P(t, k) = P(s, k)
    BY <1>1, TakenOff DEF Sound
  <2>2. \A time : Downward(s, time) => Downward(t, time)
    BY <2>1 DEF Downward, Lower
  <2> QED
    BY <2>1, <2>2 DEF Sound
<1>3. PICK t1 : t1 = RelaxCurved(t, i)
  OBVIOUS
<1>4. Sound(t1)
  BY <1>2, <1>3, LayoutFacts, RelaxSound DEF RelaxCurved
<1>5. PICK t2 : t2 = RelaxStraight(t1, i)
  OBVIOUS
<1>6. Sound(t2)
  BY <1>2, <1>4, <1>5, LayoutFacts, RelaxSound DEF RelaxStraight
<1>7. PICK t3 : t3 = RelaxReverse(t2, i)
  OBVIOUS
<1>8. node[i].type = SENSOR => node[i].type # EXIT
  BY DEF SENSOR, EXIT
<1>9. Sound(t3)
  BY <1>2, <1>6, <1>7, <1>8, LayoutFacts, RelaxSound DEF RelaxReverse
<1> QED
  BY <1>1, <1>3, <1>5, <1>7, <1>9 DEF After

LEMMA ExpandKeeps ==
  ASSUME Placed, NEW s, Shaped(s), s.queue # <<>>, Stepped(s), Open(s)
  PROVE  LET t == After(s) IN Stepped(t) /\ Open(t)
<1>1. PICK t, i : t = [s EXCEPT !.queue = Tail(s.queue)] /\ i = Head(s.queue)
  OBVIOUS
<1>2. i \in DOMAIN node /\ Partial(t, i, {})
  BY <1>1, TakenOff, TakenStays
<1> DEFINE Curved == IF node[i].type = BRANCH THEN {node[i].curved} ELSE {}
           Straight == IF node[i].type # EXIT THEN {node[i].straight} ELSE {}
           Round == IF node[i].type = SENSOR THEN {Edge(node[i].reverse, node[i].straight.dist)} ELSE {}
<1>3. Ways(i) = Straight \cup Curved \cup Round
  BY DEF Ways
<1>4. PICK t1 : t1 = RelaxCurved(t, i)
  OBVIOUS
<1>5. Partial(t1, i, Curved)
  <2>1. CASE node[i].type = BRANCH
    <3>1. PICK w \in Ways(i) : w = node[i].curved /\ Curved = {w}
      BY <1>3, <2>1
    <3>2. t1 = Relax(t, i, w.dest, w.dist)
      BY <1>4, <2>1, <3>1 DEF RelaxCurved
    <3>3. Partial(t1, i, {} \cup {w})
      BY <1>2, <3>2, RelaxTakes
    <3> QED
      BY <3>1, <3>3
  <2>2. CASE node[i].type # BRANCH
    BY <1>2, <1>4, <2>2 DEF RelaxCurved
  <2> QED
    BY <2>1, <2>2
<1>6. PICK t2 : t2 = RelaxStraight(t1, i)
  OBVIOUS
<1>7. Partial(t2, i, Curved \cup Straight)
  <2>1. CASE node[i].type # EXIT
    <3>1. PICK w \in Ways(i) : w = node[i].straight /\ Straight = {w}
      BY <1>3, <2>1
    <3>2. t2 = Relax(t1, i, w.dest, w.dist)
      BY <1>6, <2>1, <3>1 DEF RelaxStraight
    <3>3. Curved \in SUBSET Ways(i)
      BY <1>3
    <3>4. Partial(t2, i, Curved \cup {w})
      BY <1>2, <1>5, <3>2, <3>3, RelaxTakes
    <3> QED
      BY <3>1, <3>4
  <2>2. CASE node[i].type = EXIT
    BY <1>5, <1>6, <2>2 DEF RelaxStraight
  <2> QED
    BY <2>1, <2>2
<1>8. PICK t3 : t3 = RelaxReverse(t2, i)
  OBVIOUS
<1>9. Partial(t3, i, Ways(i))
  <2>1. CASE node[i].type = SENSOR
    <3>1. PICK w \in Ways(i) : w = Edge(node[i].reverse, node[i].straight.dist) /\ Round = {w}
      BY <1>3, <2>1
    <3>2. w.dest = node[i].reverse /\ w.dist = node[i].straight.dist
      BY <3>1 DEF Edge
    <3>3. t3 = Relax(t2, i, w.dest, w.dist)
      BY <1>8, <2>1, <3>2 DEF RelaxReverse
    <3>4. (Curved \cup Straight) \in SUBSET Ways(i)
      BY <1>3
    <3>5. Partial(t3, i, (Curved \cup Straight) \cup {w})
      BY <1>2, <1>7, <3>3, <3>4, RelaxTakes
    <3>6. (Curved \cup Straight) \cup {w} = Ways(i)
      BY <1>3, <3>1
    <3> QED
      BY <3>5, <3>6
  <2>2. CASE node[i].type # SENSOR
    <3>1. Curved \cup Straight = Ways(i)
      BY <1>3, <2>2
    <3> QED
      BY <1>7, <1>8, <2>2, <3>1 DEF RelaxReverse
  <2> QED
    BY <2>1, <2>2
<1>10. t3 = After(s)
  BY <1>1, <1>4, <1>6, <1>8 DEF After
<1>11. Open(t3)
  <2>1. Relaxed(t3, i) /\ \A k \in DOMAIN node : k # i => Settled(t3, k)
    BY <1>9 DEF Partial, Relaxed
  <2> QED
    BY <2>1 DEF Open, Settled
<1> QED
  BY <1>9, <1>10, <1>11 DEF Partial

-----------------------------------------------------------------------------
(* The inductive invariant.                                                *)

\* What the stages of path_switch have reached.
Stages ==
  /\ phase \in {"search", "overrun"} => route = <<>> /\ branches = <<>>
  /\ phase \notin {"search", "overrun"} => queue = <<>> /\ route # <<>>
  /\ phase \in {"set", "done"} => Here = start
  /\ phase = "done" => branches = <<>>

\* The nodes parse_path has passed follow prev, and lead down all the way.
Backward(s) ==
  \A k \in 1 .. Len(route) - 1 : \A i, j \in DOMAIN node :
    route[k] = i /\ route[k + 1] = j => P(s, i) = j
Falling(s, time) ==
  \A a, b \in DOMAIN route : \A i, j \in DOMAIN node :
    a < b /\ route[a] = i /\ route[b] = j => Lower(s, time, j, i)

RouteFalls ==
  \E s, time : s = Searching /\ Downward(s, time) /\ Backward(s) /\ Falling(s, time)

\* What the search keeps of the nodes that have cells of their own.
Searched == \E s : s = Searching /\ Stepped(s) /\ Open(s)

\* The commands still to be sent are those of branches passed, and every branch
\* passed is still to be commanded or lies as the route needs it.
CommandsOfRoute ==
  \A m \in DOMAIN branches : \E k \in 1 .. Len(route) - 1 :
    node[route[k + 1]].type = BRANCH /\ branches[m] = Noted(route[k + 1], route[k])
BranchesCommanded ==
  \A k \in 1 .. Len(route) - 1 : node[route[k + 1]].type = BRANCH =>
    \/ \E m \in DOMAIN branches : branches[m] = Noted(route[k + 1], route[k])
    \/ /\ node[route[k + 1]].num \in DOMAIN solonoid
       /\ solonoid[node[route[k + 1]].num] = Noted(route[k + 1], route[k])[2]

RoutesInv ==
  /\ RoutesTypeOK
  /\ Stages
  /\ RouteFalls
  /\ Searched
  /\ CommandsOfRoute
  /\ BranchesCommanded

LEMMA ShapedNow ==
  ASSUME RoutesTypeOK
  PROVE  Placed /\ Shaped(Searching)
BY DEF RoutesTypeOK, Placed, Shaped, Searching

\* What is said of the track and of a state of the search stays true with them.
LEMMA Unmoved ==
  ASSUME UNCHANGED <<node, start>>, NEW s
  PROVE  /\ Cells' = Cells
         /\ Stepped(s) => Stepped(s)'
         /\ Open(s) => Open(s)'
         /\ \A time : Downward(s, time) => Downward(s, time)'
         /\ Shaped(s) => Shaped(s)'
<1>1. \A i : CellAt(i)' = CellAt(i)
  BY DEF CellAt, Cell
<1>2. /\ \A i : D(s, i)' = D(s, i) /\ P(s, i)' = P(s, i)
  BY <1>1 DEF D, P
<1>3. \A i : Ways(i)' = Ways(i)
  BY DEF Ways, Edge
<1>4. Cells' = Cells
  BY DEF Cells, CellAt, Cell
<1>6. Shaped(s) => Shaped(s)'
  BY <1>4 DEF Shaped
<1>5. \A i \in DOMAIN node : Own(i)' = Own(i)
  BY <1>1 DEF Own
<1>7. Stepped(s) => Stepped(s)'
  BY <1>2, <1>3, <1>5 DEF Stepped
<1>8. Open(s) => Open(s)'
  BY <1>1, <1>2, <1>3, <1>5 DEF Open, Settled, Relaxed
<1>9. \A time : Downward(s, time) => Downward(s, time)'
  BY <1>4 DEF Downward, Lower, D, P, CellAt, Cell
<1> QED
  BY <1>4, <1>6, <1>7, <1>8, <1>9

LEMMA RoutesStart == RoutesInit => RoutesInv
<1> SUFFICES ASSUME RoutesInit PROVE RoutesInv
  OBVIOUS
<1>1. Placed /\ CellAt(start) \in Cells
  BY DEF RoutesInit, Placed, Cells
<1>2. 0 \in 0 .. Far /\ Far \in 0 .. Far /\ 1 \in Nat
  BY FarIsNat
<1>3. PICK s : s = Searching
  OBVIOUS
<1>4. /\ s = [distance |-> s.distance, prev |-> s.prev, queue |-> s.queue, tail |-> s.tail]
      /\ s.distance = [c \in Cells |-> IF c = CellAt(start) THEN 0 ELSE Far]
      /\ s.prev = [c \in Cells |-> Garbage] /\ s.queue = <<start>> /\ s.tail = 1
  BY <1>3 DEF Searching, RoutesInit
<1>5. RoutesTypeOK
  <2>1. distance \in [Cells -> 0 .. Far] /\ prev \in [Cells -> DOMAIN node \cup {Garbage}]
    BY <1>2 DEF RoutesInit
  <2>2. queue \in Seq(DOMAIN node) /\ tail \in Nat /\ route \in Seq(DOMAIN node)
        /\ branches \in Seq({node[i].num : i \in DOMAIN node} \X {"S", "C"})
    BY <1>1 DEF RoutesInit, Placed
  <2>3. DOMAIN solonoid \subseteq {node[i].num : i \in DOMAIN node}
    BY DEF RoutesInit
  <2> QED
    BY <1>1, <2>1, <2>2, <2>3 DEF RoutesInit, RoutesTypeOK, Placed, Phases
<1>6. Stages
  BY DEF RoutesInit, Stages
<1>7. /\ DOMAIN route = {} /\ DOMAIN branches = {} /\ 1 .. Len(route) - 1 = {}
  BY NoneYet DEF RoutesInit
<1>8. \A k \in DOMAIN node : P(s, k) = Garbage
  BY <1>1, <1>4, CellsOfNodes DEF P
<1>9. RouteFalls
  <2>1. PICK time : time = [c \in Cells |-> 0]
    OBVIOUS
  <2>2. Downward(s, time)
    BY <1>1, <1>4, <1>8, <2>1, LayoutFacts DEF Downward
  <2>3. Backward(s) /\ Falling(s, time)
    BY <1>7 DEF Backward, Falling
  <2> QED
    BY <1>3, <2>2, <2>3 DEF RouteFalls
<1>10. Searched /\ CommandsOfRoute /\ BranchesCommanded
  <2>1. D(s, start) = 0 /\ \A k \in DOMAIN node : Own(k) /\ k # start => D(s, k) = Far
    BY <1>1, <1>4, CellsOfNodes DEF D, Placed, Own
  <2>2. Entries(s.queue) = {start}
    BY <1>4 DEF Entries
  <2>3. Stepped(s)
    BY <1>1, <1>8, <2>1, <2>2, FarIsNat, LayoutFacts DEF Stepped, Placed
  <2>4. Open(s)
    BY <2>1, <2>2 DEF Open, Settled
  <2>5. CommandsOfRoute /\ BranchesCommanded
    BY <1>7 DEF CommandsOfRoute, BranchesCommanded
  <2> QED
    BY <1>3, <2>3, <2>4, <2>5 DEF Searched
<1> QED
  BY <1>5, <1>6, <1>9, <1>10 DEF RoutesInv

-----------------------------------------------------------------------------
(* One lemma for each action.                                              *)

LEMMA ExpandStep == RoutesInv /\ Expand => RoutesInv'
<1> SUFFICES ASSUME RoutesInv, Expand PROVE RoutesInv'
  OBVIOUS
<1>1. RoutesTypeOK /\ Placed /\ Shaped(Searching)
  BY ShapedNow DEF RoutesInv
<1>2. PICK s : s = Searching
  OBVIOUS
<1>3. PICK t : t = Searching'
  OBVIOUS
<1>4. s.queue = queue /\ queue # <<>> /\ UNCHANGED <<node, start, route, branches, solonoid>>
  BY <1>2 DEF Searching, Expand
<1>5. PICK a : a = After(s)
  OBVIOUS
<1>6. a = Expanded(Head(queue))
  BY <1>2, <1>4, <1>5 DEF After, Expanded
<1>7. Sound(s) /\ Sound(a) /\ Shaped(s) /\ Shaped(a)
  <2>1. Sound(s)
    BY <1>1, <1>2 DEF Sound, RoutesInv, RouteFalls
  <2> QED
    BY <1>1, <1>4, <1>5, <2>1, ExpandSound DEF Sound
<1>8. /\ distance' = a.distance /\ prev' = a.prev /\ queue' = a.queue /\ tail' = a.tail
      /\ phase = "search" /\ phase' \in {"search", "overrun"}
  BY <1>6 DEF Expand
<1>9. t = a
  BY <1>3, <1>7, <1>8 DEF Searching, Shaped
<1>10. Cells' = Cells
  BY <1>4, Unmoved
<1>11. route = <<>> /\ branches = <<>>
  BY <1>8 DEF RoutesInv, Stages
<1>12. RoutesTypeOK'
  <2>1. /\ distance' \in [Cells -> 0 .. Far] /\ prev' \in [Cells -> DOMAIN node \cup {Garbage}]
        /\ queue' \in Seq(DOMAIN node) /\ tail' \in Nat
    BY <1>7, <1>8 DEF Shaped
  <2> QED
    BY <1>1, <1>4, <1>8, <1>10, <2>1 DEF RoutesTypeOK, Phases
<1>13. Stages'
  BY <1>4, <1>8, <1>11 DEF Stages
<1>14. /\ route' = <<>> /\ branches' = <<>> /\ DOMAIN route' = {} /\ DOMAIN branches' = {}
       /\ 1 .. Len(route') - 1 = {}
  BY <1>4, <1>11, NoneYet
<1>15. RouteFalls'
  <2>1. PICK later : Downward(t, later)
    BY <1>7, <1>9 DEF Sound
  <2>2. Downward(t, later)'
    BY <1>4, <2>1, Unmoved
  <2>3. Backward(t)' /\ Falling(t, later)'
    BY <1>14 DEF Backward, Falling
  <2> QED
    BY <1>3, <2>2, <2>3 DEF RouteFalls
<1>16. Searched' /\ CommandsOfRoute' /\ BranchesCommanded'
  <2>1. Stepped(s) /\ Open(s)
    BY <1>2 DEF RoutesInv, Searched
  <2>2. Stepped(t) /\ Open(t)
    BY <1>1, <1>4, <1>5, <1>7, <1>9, <2>1, ExpandKeeps
  <2>3. Stepped(t)' /\ Open(t)'
    BY <1>4, <2>2, Unmoved
  <2>4. CommandsOfRoute' /\ BranchesCommanded'
    BY <1>14 DEF CommandsOfRoute, BranchesCommanded
  <2> QED
    BY <1>3, <2>3, <2>4 DEF Searched
<1> QED
  BY <1>10, <1>12, <1>13, <1>15, <1>16 DEF RoutesInv

\* After the search nothing of it changes.
LEMMA SearchStays ==
  ASSUME UNCHANGED <<node, start, distance, prev, queue, tail>>
  PROVE  /\ Searching' = Searching /\ Cells' = Cells
         /\ Searched => Searched'
         /\ \A s, i : P(s, i)' = P(s, i)
         /\ \A s, time, i, j : Lower(s, time, j, i)' = Lower(s, time, j, i)
<1>1. Searching' = Searching
  BY DEF Searching
<1>2. Cells' = Cells
  BY Unmoved
<1>3. Searched => Searched'
  BY <1>1, Unmoved DEF Searched
<1>4. \A s, i : P(s, i)' = P(s, i) /\ D(s, i)' = D(s, i) /\ CellAt(i)' = CellAt(i)
  BY DEF P, D, CellAt, Cell
<1>5. \A s, time, i, j : Lower(s, time, j, i)' = Lower(s, time, j, i)
  BY <1>4 DEF Lower
<1> QED
  BY <1>1, <1>2, <1>3, <1>4, <1>5

LEMMA RouteStays ==
  ASSUME UNCHANGED <<node, start, distance, prev, queue, tail, route>>, RouteFalls
  PROVE  RouteFalls'
<1>1. PICK s, time : s = Searching /\ Downward(s, time) /\ Backward(s) /\ Falling(s, time)
  BY DEF RouteFalls
<1>2. s = Searching' /\ Downward(s, time)'
  BY <1>1, SearchStays, Unmoved
<1>3. Backward(s)' /\ Falling(s, time)'
  BY <1>1, SearchStays DEF Backward, Falling
<1> QED
  BY <1>2, <1>3 DEF RouteFalls

\* The steps that only note that a stage is over.
LEMMA StageStep ==
  ASSUME RoutesInv, Stages', phase' \in Phases,
         UNCHANGED <<node, start, distance, prev, queue, tail, route, branches, solonoid>>
  PROVE  RoutesInv'
<1>1. Cells' = Cells
  BY SearchStays
<1>2. RoutesTypeOK'
  BY <1>1 DEF RoutesInv, RoutesTypeOK
<1>3. RouteFalls'
  BY RouteStays DEF RoutesInv
<1>4. Searched' /\ CommandsOfRoute' /\ BranchesCommanded'
  <2>1. Searched'
    BY SearchStays DEF RoutesInv
  <2>2. CommandsOfRoute' /\ BranchesCommanded'
    BY DEF RoutesInv, CommandsOfRoute, BranchesCommanded, Noted
  <2> QED
    BY <2>1, <2>2
<1> QED
  BY <1>1, <1>2, <1>3, <1>4 DEF RoutesInv

LEMMA ParseStep == RoutesInv /\ Parse => RoutesInv'
<1> SUFFICES ASSUME RoutesInv, Parse PROVE RoutesInv'
  OBVIOUS
<1>1. PICK end \in DOMAIN node : route' = <<end>>
  BY DEF Parse
<1>2. /\ phase = "search" /\ phase' = "parse" /\ queue = <<>> /\ branches = <<>>
      /\ UNCHANGED <<node, start, distance, prev, queue, tail, branches, solonoid>>
  BY DEF Parse, RoutesInv, Stages
<1>3. Cells' = Cells
  BY <1>2, SearchStays
<1>4. /\ route' \in Seq(DOMAIN node) /\ Len(route') = 1 /\ route' # <<>> /\ DOMAIN route' = {1}
      /\ 1 .. Len(route') - 1 = {} /\ DOMAIN branches' = {}
  BY <1>1, <1>2, NoneYet
<1>5. RoutesTypeOK'
  BY <1>2, <1>3, <1>4 DEF RoutesInv, RoutesTypeOK, Phases
<1>6. Stages'
  BY <1>2, <1>4 DEF Stages
<1>7. RouteFalls'
  <2>1. PICK s, time : s = Searching /\ Downward(s, time)
    BY DEF RoutesInv, RouteFalls
  <2>2. s = Searching' /\ Downward(s, time)'
    BY <1>2, <2>1, SearchStays, Unmoved
  <2>3. Backward(s)'
    BY <1>4 DEF Backward
  <2>4. Falling(s, time)'
    BY <1>4 DEF Falling
  <2> QED
    BY <2>2, <2>3, <2>4 DEF RouteFalls
<1>8. Searched' /\ CommandsOfRoute' /\ BranchesCommanded'
  <2>1. Searched'
    BY <1>2, SearchStays DEF RoutesInv
  <2>2. CommandsOfRoute' /\ BranchesCommanded'
    BY <1>4 DEF CommandsOfRoute, BranchesCommanded
  <2> QED
    BY <2>1, <2>2
<1> QED
  BY <1>3, <1>5, <1>6, <1>7, <1>8 DEF RoutesInv

LEMMA StartReachedStep == RoutesInv /\ StartReached => RoutesInv'
<1> SUFFICES ASSUME RoutesInv, StartReached PROVE RoutesInv'
  OBVIOUS
<1>1. /\ phase = "parse" /\ phase' = "set" /\ Here = start
      /\ UNCHANGED <<node, start, distance, prev, queue, tail, route, branches, solonoid>>
  BY DEF StartReached
<1>2. Here' = Here
  BY <1>1 DEF Here
<1> QED
  BY <1>1, <1>2, StageStep DEF RoutesInv, Stages, Phases

LEMMA SwitchesSetStep == RoutesInv /\ SwitchesSet => RoutesInv'
<1> SUFFICES ASSUME RoutesInv, SwitchesSet PROVE RoutesInv'
  OBVIOUS
<1>1. /\ phase = "set" /\ phase' = "done" /\ branches = <<>>
      /\ UNCHANGED <<node, start, distance, prev, queue, tail, route, branches, solonoid>>
  BY DEF SwitchesSet
<1>2. Here' = Here
  BY <1>1 DEF Here
<1> QED
  BY <1>1, <1>2, StageStep DEF RoutesInv, Stages, Phases

LEMMA LowerChain ==
  ASSUME Placed, NEW s, Shaped(s), NEW time, Downward(s, time),
         NEW i \in DOMAIN node, NEW j \in DOMAIN node, NEW k \in DOMAIN node,
         Lower(s, time, i, j), Lower(s, time, j, k)
  PROVE  Lower(s, time, i, k)
<1>1. D(s, i) \in Nat /\ D(s, j) \in Nat /\ D(s, k) \in Nat
  BY ShapeOf
<1>2. time[CellAt(i)] \in Nat /\ time[CellAt(j)] \in Nat /\ time[CellAt(k)] \in Nat
  BY CellsOfNodes DEF Downward
<1> QED
  BY <1>1, <1>2 DEF Lower

LEMMA WalkBackStep == RoutesInv /\ WalkBack => RoutesInv'
<1> SUFFICES ASSUME RoutesInv, WalkBack PROVE RoutesInv'
  OBVIOUS
<1>1. RoutesTypeOK /\ Placed /\ Shaped(Searching)
  BY ShapedNow DEF RoutesInv
<1>2. /\ phase = "parse" /\ Here # start /\ route # <<>> /\ queue = <<>>
      /\ UNCHANGED <<node, start, distance, prev, queue, tail, solonoid>>
  BY DEF WalkBack, RoutesInv, Stages
<1>3. Cells' = Cells
  BY <1>2, SearchStays
<1>4. CASE Before = Garbage /\ phase' = "lost" /\ UNCHANGED <<route, branches>>
  BY <1>2, <1>4, StageStep DEF Stages, Phases
<1>5. CASE /\ Before # Garbage /\ route' = Append(route, Before)
           /\ branches' = IF node[Before].type = BRANCH
                          THEN Append(branches, Noted(Before, Here)) ELSE branches
           /\ UNCHANGED phase
  <2>1. PICK b, h, r, n : b = Before /\ h = Here /\ r = route' /\ n = Len(route)
    OBVIOUS
  <2>2. /\ n \in Nat /\ n # 0 /\ DOMAIN route = 1 .. n /\ h = route[n] /\ h \in DOMAIN node
        /\ b \in DOMAIN node /\ b = prev[CellAt(h)]
    <3>1. n \in Nat /\ n # 0 /\ DOMAIN route = 1 .. n /\ h = route[n] /\ h \in DOMAIN node
      BY <1>1, <1>2, <2>1 DEF RoutesTypeOK, Here
    <3>2. b \in DOMAIN node /\ b = prev[CellAt(h)]
      BY <1>1, <1>5, <2>1, <3>1, CellsOfNodes DEF RoutesTypeOK, Before
    <3> QED
      BY <3>1, <3>2
  <2>3. /\ r \in Seq(DOMAIN node) /\ Len(r) = n + 1 /\ DOMAIN r = 1 .. (n + 1) /\ r # <<>>
        /\ r[n + 1] = b /\ \A k \in 1 .. n : r[k] = route[k] /\ r[k] \in DOMAIN node
    BY <1>1, <1>5, <2>1, <2>2 DEF RoutesTypeOK
  <2>4. PICK bs : bs = branches'
    OBVIOUS
  <2>5. PICK c : c = Noted(b, h)
    OBVIOUS
  <2>6. c \in {node[i].num : i \in DOMAIN node} \X {"S", "C"}
    BY <2>2, <2>5 DEF Noted
  <2>7. /\ bs \in Seq({node[i].num : i \in DOMAIN node} \X {"S", "C"})
        /\ \A m \in DOMAIN branches : m \in DOMAIN bs /\ bs[m] = branches[m]
        /\ \A m \in DOMAIN bs : m \in DOMAIN branches \/ (node[b].type = BRANCH /\ bs[m] = c)
        /\ node[b].type = BRANCH => \E m \in DOMAIN bs : bs[m] = c
    <3>1. branches \in Seq({node[i].num : i \in DOMAIN node} \X {"S", "C"})
      BY <1>1 DEF RoutesTypeOK
    <3>2. bs = IF node[b].type = BRANCH THEN Append(branches, c) ELSE branches
      BY <1>5, <2>1, <2>4, <2>5
    <3> QED
      BY <2>6, <3>1, <3>2
  <2>8. RoutesTypeOK'
    BY <1>1, <1>2, <1>3, <1>5, <2>1, <2>3, <2>4, <2>7 DEF RoutesTypeOK
  <2>9. Stages'
    BY <1>2, <1>5, <2>1, <2>3 DEF Stages
  <2>10. RouteFalls'
    <3>1. PICK s, time : s = Searching /\ Downward(s, time) /\ Backward(s) /\ Falling(s, time)
      BY DEF RoutesInv, RouteFalls
    <3>2. /\ s = Searching' /\ Downward(s, time)'
          /\ \A i : P(s, i)' = P(s, i)
          /\ \A i, j : Lower(s, time, j, i)' = Lower(s, time, j, i)
      BY <1>2, <3>1, SearchStays, Unmoved
    <3>3. Shaped(s) /\ P(s, h) = b
      BY <1>1, <2>2, <3>1 DEF P, Searching
    <3>4. \A k \in 1 .. n : \A i, j \in DOMAIN node : r[k] = i /\ r[k + 1] = j => P(s, i) = j
      <4>1. SUFFICES ASSUME NEW k \in 1 .. n PROVE P(s, r[k]) = r[k + 1]
        OBVIOUS
      <4>2. CASE k = n
        BY <2>2, <2>3, <3>3, <4>2
      <4>3. CASE k # n
        <5>1. k \in 1 .. n - 1 /\ k + 1 \in 1 .. n
          BY <2>2, <4>3
        <5>2. P(s, route[k]) = route[k + 1]
          BY <2>1, <2>3, <3>1, <5>1 DEF Backward
        <5> QED
          BY <2>3, <5>1, <5>2
      <4> QED
        BY <4>2, <4>3
    <3>5. \A u, v \in DOMAIN r : \A i, j \in DOMAIN node :
            u < v /\ r[u] = i /\ r[v] = j => Lower(s, time, j, i)
      <4>1. SUFFICES ASSUME NEW u \in DOMAIN r, NEW v \in DOMAIN r, u < v
                     PROVE  Lower(s, time, r[v], r[u])
        OBVIOUS
      <4>2. Lower(s, time, b, h)
        BY <2>2, <3>1, <3>3 DEF Downward
      <4>3. CASE v # n + 1
        <5>1. u \in DOMAIN route /\ v \in DOMAIN route /\ r[u] = route[u] /\ r[v] = route[v]
              /\ r[u] \in DOMAIN node /\ r[v] \in DOMAIN node
          BY <2>2, <2>3, <4>1, <4>3
        <5> QED
          BY <3>1, <4>1, <5>1 DEF Falling
      <4>4. CASE v = n + 1
        <5>1. u \in 1 .. n /\ r[u] = route[u] /\ r[u] \in DOMAIN node /\ r[v] = b
          BY <2>2, <2>3, <4>1, <4>4
        <5>2. CASE u = n
          BY <2>2, <4>2, <5>1, <5>2
        <5>3. CASE u # n
          <6>1. u < n /\ u \in DOMAIN route /\ n \in DOMAIN route
            BY <2>2, <5>1, <5>3
          <6>2. Lower(s, time, h, r[u])
            BY <2>2, <3>1, <5>1, <6>1 DEF Falling
          <6> QED
            BY <1>1, <2>2, <3>1, <3>3, <4>2, <5>1, <6>2, LowerChain
        <5> QED
          BY <5>2, <5>3
      <4> QED
        BY <4>3, <4>4
    <3>6. Backward(s)'
      BY <1>2, <2>1, <2>2, <2>3, <3>2, <3>4 DEF Backward
    <3>7. Falling(s, time)'
      BY <1>2, <2>1, <3>2, <3>5 DEF Falling
    <3> QED
      BY <3>2, <3>6, <3>7 DEF RouteFalls
  <2>11. CommandsOfRoute'
    <3>1. ASSUME NEW m \in DOMAIN bs
          PROVE  \E k \in 1 .. n : node[r[k + 1]].type = BRANCH /\ bs[m] = Noted(r[k + 1], r[k])
      <4>1. CASE m \in DOMAIN branches
        <5>1. PICK k \in 1 .. n - 1 :
                node[route[k + 1]].type = BRANCH /\ branches[m] = Noted(route[k + 1], route[k])
          BY <2>1, <4>1 DEF RoutesInv, CommandsOfRoute
        <5>2. k \in 1 .. n /\ k + 1 \in 1 .. n
          BY <2>2
        <5> QED
          BY <2>3, <2>7, <4>1, <5>1, <5>2
      <4>2. CASE node[b].type = BRANCH /\ bs[m] = c
        <5>1. n \in 1 .. n
          BY <2>2
        <5> QED
          BY <2>2, <2>3, <2>5, <4>2, <5>1
      <4> QED
        BY <2>7, <4>1, <4>2
    <3> QED
      BY <1>2, <2>1, <2>2, <2>3, <2>4, <3>1 DEF CommandsOfRoute, Noted
  <2>12. BranchesCommanded'
    <3>1. ASSUME NEW k \in 1 .. n, node[r[k + 1]].type = BRANCH
          PROVE  \/ \E m \in DOMAIN bs : bs[m] = Noted(r[k + 1], r[k])
                 \/ /\ node[r[k + 1]].num \in DOMAIN solonoid
                    /\ solonoid[node[r[k + 1]].num] = Noted(r[k + 1], r[k])[2]
      <4>1. CASE k = n
        BY <2>2, <2>3, <2>5, <2>7, <3>1, <4>1
      <4>2. CASE k # n
        <5>1. k \in 1 .. n - 1 /\ k + 1 \in 1 .. n
          BY <2>2, <4>2
        <5>2. r[k] = route[k] /\ r[k + 1] = route[k + 1]
          BY <2>3, <5>1
        <5>3. \/ \E m \in DOMAIN branches : branches[m] = Noted(route[k + 1], route[k])
              \/ /\ node[route[k + 1]].num \in DOMAIN solonoid
                 /\ solonoid[node[route[k + 1]].num] = Noted(route[k + 1], route[k])[2]
          BY <2>1, <3>1, <5>1, <5>2 DEF RoutesInv, BranchesCommanded
        <5> QED
          BY <2>7, <5>2, <5>3
      <4> QED
        BY <4>1, <4>2
    <3> QED
      BY <1>2, <2>1, <2>2, <2>3, <2>4, <3>1 DEF BranchesCommanded, Noted
  <2>13. Searched'
    BY <1>2, SearchStays DEF RoutesInv
  <2> QED
    BY <1>3, <2>8, <2>9, <2>10, <2>11, <2>12, <2>13 DEF RoutesInv
<1> QED
  BY <1>4, <1>5 DEF WalkBack

\* A route that leads down all the way comes by no cell twice.
LEMMA DownNeverBack ==
  ASSUME RoutesTypeOK, RouteFalls
  PROVE  /\ \A a, b \in DOMAIN route : a # b => CellAt(route[a]) # CellAt(route[b])
         /\ NoNodeTwice
<1>1. PICK s, time : s = Searching /\ Downward(s, time) /\ Falling(s, time)
  BY DEF RouteFalls
<1>2. Placed /\ Shaped(s)
  BY <1>1, ShapedNow
<1>3. \A i, j \in DOMAIN node : Lower(s, time, j, i) => CellAt(j) # CellAt(i)
  <2>1. \A i \in DOMAIN node : D(s, i) \in Nat /\ time[CellAt(i)] \in Nat
    BY <1>1, <1>2, ShapeOf, CellsOfNodes DEF Downward
  <2>2. \A i, j \in DOMAIN node : CellAt(j) = CellAt(i) => D(s, j) = D(s, i)
    BY DEF D
  <2> QED
    BY <2>1, <2>2 DEF Lower
<1>4. Len(route) \in Nat /\ DOMAIN route = 1 .. Len(route) /\ \A a \in DOMAIN route : route[a] \in DOMAIN node
  BY DEF RoutesTypeOK
<1>5. ASSUME NEW a \in DOMAIN route, NEW b \in DOMAIN route, a < b
      PROVE  CellAt(route[a]) # CellAt(route[b])
  BY <1>1, <1>3, <1>4, <1>5 DEF Falling
<1>6. ASSUME NEW a \in DOMAIN route, NEW b \in DOMAIN route, a # b
      PROVE  CellAt(route[a]) # CellAt(route[b])
  <2>1. a < b \/ b < a
    BY <1>4, <1>6
  <2> QED
    BY <1>5, <2>1
<1> QED
  BY <1>6 DEF NoNodeTwice

LEMMA SetSwitchStep == RoutesInv /\ SetSwitch => RoutesInv'
<1> SUFFICES ASSUME RoutesInv, SetSwitch PROVE RoutesInv'
  OBVIOUS
<1>1. RoutesTypeOK /\ Placed
  BY ShapedNow DEF RoutesInv
<1>2. /\ phase = "set" /\ branches # <<>>
      /\ UNCHANGED <<node, start, phase, distance, prev, queue, tail, route>>
  BY DEF SetSwitch
<1>3. Cells' = Cells
  BY <1>2, Unmoved
<1>4. PICK bs, num, mode, sol : /\ bs = branches' /\ num = Head(branches)[1]
                               /\ mode = Head(branches)[2] /\ sol = solonoid'
  OBVIOUS
<1> DEFINE X == {node[i].num : i \in DOMAIN node} \X {"S", "C"}
<1>5. /\ bs \in Seq(X) /\ branches[1] \in X /\ 1 \in DOMAIN branches
      /\ num = branches[1][1] /\ mode = branches[1][2]
      /\ \A m \in DOMAIN bs : m + 1 \in DOMAIN branches /\ bs[m] = branches[m + 1]
      /\ \A m \in DOMAIN branches : m # 1 => m - 1 \in DOMAIN bs /\ bs[m - 1] = branches[m]
  <2>1. branches \in Seq(X) /\ bs = Tail(branches)
    BY <1>1, <1>4 DEF RoutesTypeOK, SetSwitch
  <2> HIDE DEF X
  <2> QED
    BY <1>2, <1>4, <2>1
<1>6. num \in {node[i].num : i \in DOMAIN node}
  BY <1>5
<1>7. /\ DOMAIN sol = DOMAIN solonoid \cup {num} /\ sol[num] = mode
      /\ \A n \in DOMAIN solonoid : n # num => sol[n] = solonoid[n]
  BY <1>4 DEF SetSwitch
<1>8. RoutesTypeOK'
  BY <1>1, <1>2, <1>3, <1>4, <1>5, <1>6, <1>7 DEF RoutesTypeOK
<1>9. Stages'
  BY <1>2 DEF Stages, RoutesInv, Here
<1>10. RouteFalls'
  BY <1>2, RouteStays DEF RoutesInv
<1>11. \A a, b \in DOMAIN route : a # b => CellAt(route[a]) # CellAt(route[b])
  BY <1>1, DownNeverBack DEF RoutesInv
<1>12. Searched' /\ CommandsOfRoute' /\ BranchesCommanded'
  <2>1. Searched'
    BY <1>2, SearchStays DEF RoutesInv
  <2>2. /\ Len(route) \in Nat /\ DOMAIN route = 1 .. Len(route)
        /\ \A k \in 1 .. Len(route) - 1 : k \in DOMAIN route /\ k + 1 \in DOMAIN route
        /\ \A k \in DOMAIN route : route[k] \in DOMAIN node
    BY <1>1 DEF RoutesTypeOK
  <2>3. \A m \in DOMAIN branches : \E k \in 1 .. Len(route) - 1 :
          node[route[k + 1]].type = BRANCH /\ branches[m] = Noted(route[k + 1], route[k])
    BY DEF RoutesInv, CommandsOfRoute
  <2>4. CommandsOfRoute'
    <3>1. \A m \in DOMAIN bs : \E k \in 1 .. Len(route) - 1 :
            node[route[k + 1]].type = BRANCH /\ bs[m] = Noted(route[k + 1], route[k])
      BY <1>5, <2>3
    <3> QED
      BY <1>2, <1>4, <3>1 DEF CommandsOfRoute, Noted
  <2>5. PICK h \in 1 .. Len(route) - 1 :
          node[route[h + 1]].type = BRANCH /\ branches[1] = Noted(route[h + 1], route[h])
    BY <1>5, <2>3
  <2>6. \A i, j : Noted(i, j)[1] = node[i].num
    BY DEF Noted
  <2>7. ASSUME NEW k \in 1 .. Len(route) - 1, node[route[k + 1]].type = BRANCH
         PROVE  \/ \E m \in DOMAIN bs : bs[m] = Noted(route[k + 1], route[k])
                \/ /\ node[route[k + 1]].num \in DOMAIN sol
                   /\ sol[node[route[k + 1]].num] = Noted(route[k + 1], route[k])[2]
    <3>1. CASE node[route[k + 1]].num = num
      <4>1. num = node[route[h + 1]].num
        BY <1>5, <2>5, <2>6
      <4>2. CellAt(route[k + 1]) = CellAt(route[h + 1])
        BY <2>5, <2>7, <3>1, <4>1 DEF CellAt, Cell
      <4>4. k + 1 = h + 1
        BY <1>11, <2>2, <2>5, <4>2
      <4>5. k = h
        BY <2>5, <4>4
      <4> QED
        BY <1>5, <1>7, <2>5, <3>1, <4>5
    <3>2. CASE node[route[k + 1]].num # num
      <4>1. CASE \E m \in DOMAIN branches : branches[m] = Noted(route[k + 1], route[k])
        <5>1. PICK m \in DOMAIN branches : branches[m] = Noted(route[k + 1], route[k])
          BY <4>1
        <5>2. m # 1
          BY <1>5, <2>6, <3>2, <5>1
        <5> QED
          BY <1>5, <5>1, <5>2
      <4>2. CASE /\ node[route[k + 1]].num \in DOMAIN solonoid
                 /\ solonoid[node[route[k + 1]].num] = Noted(route[k + 1], route[k])[2]
        BY <1>7, <3>2, <4>2
      <4> QED
        BY <2>7, <4>1, <4>2 DEF RoutesInv, BranchesCommanded
    <3> QED
      BY <3>1, <3>2
  <2>8. BranchesCommanded'
    BY <1>2, <1>4, <2>7 DEF BranchesCommanded, Noted
  <2> QED
    BY <2>1, <2>4, <2>8
<1> QED
  BY <1>3, <1>8, <1>9, <1>10, <1>12 DEF RoutesInv

-----------------------------------------------------------------------------
(* The theorems.                                                           *)

\* The inductive invariant: the types, that prev leads down along the route, what the
\* search keeps of the nodes with cells of their own, and that every branch passed is
\* commanded.
THEOREM RoutesInvariance == RoutesSpec => []RoutesInv
<1>1. RoutesInv /\ [RoutesNext]_routeVars => RoutesInv'
  <2> SUFFICES ASSUME RoutesInv, [RoutesNext]_routeVars PROVE RoutesInv'
    OBVIOUS
  <2>1. CASE UNCHANGED routeVars
    <3>1. UNCHANGED <<node, start, phase, distance, prev, queue, tail, route, branches, solonoid>>
      BY <2>1 DEF routeVars
    <3>2. Stages' /\ phase' \in Phases
      BY <3>1 DEF RoutesInv, RoutesTypeOK, Stages, Here
    <3> QED
      BY <3>1, <3>2, StageStep
  <2> QED
    BY <2>1, ExpandStep, ParseStep, WalkBackStep, StartReachedStep, SetSwitchStep, SwitchesSetStep DEF RoutesNext
<1> QED
  BY <1>1, RoutesStart, PTL DEF RoutesSpec

\* parse_path comes by no node twice, so its loop ends, whatever cells the nodes
\* share, though edges may have length 0 and the track has loops.
THEOREM NoLoop == RoutesSpec => []NoNodeTwice
<1>1. RoutesInv => NoNodeTwice
  BY DownNeverBack DEF RoutesInv
<1> QED
  BY <1>1, RoutesInvariance, PTL

\* Where two nodes of a route have cells of their own, the one is a step of a way from
\* the other, of the length their distances tell, and from such a node no way leads on
\* to any node for less than that node's distance.
THEOREM Shortest == RoutesSpec => []ShortestOverOwnCells
<1>1. RoutesInv => ShortestOverOwnCells
  <2> SUFFICES ASSUME RoutesInv, Parsed
               PROVE  /\ distance[CellAt(start)] = 0
                      /\ \A k \in 1 .. Len(route) - 1 : Own(route[k]) /\ Own(route[k + 1]) =>
                           \E w \in Ways(route[k + 1]) :
                             /\ w.dest = route[k]
                             /\ distance[CellAt(route[k])] = distance[CellAt(route[k + 1])] + w.dist
                      /\ \A i \in DOMAIN node : Own(i) /\ distance[CellAt(i)] # Far =>
                           \A w \in Ways(i) : distance[CellAt(w.dest)] <= distance[CellAt(i)] + w.dist
    BY DEF ShortestOverOwnCells
  <2>1. PICK s : s = Searching /\ Stepped(s) /\ Open(s)
    BY DEF RoutesInv, Searched
  <2>2. Placed /\ Shaped(s)
    BY <2>1, ShapedNow DEF RoutesInv
  <2>3. Entries(s.queue) = {}
    BY <2>1, NoneYet DEF RoutesInv, Stages, Parsed, Searching
  <2>4. \A i : D(s, i) = distance[CellAt(i)]
    BY <2>1 DEF D, Searching
  <2>5. D(s, start) = 0
    BY <2>1, <2>2 DEF Stepped, Placed
  <2>6. ASSUME NEW i \in DOMAIN node, Own(i), D(s, i) # Far
        PROVE  \A w \in Ways(i) : D(s, w.dest) <= D(s, i) + w.dist
    BY <2>1, <2>3, <2>6 DEF Open, Settled, Relaxed
  <2>7. ASSUME NEW k \in 1 .. Len(route) - 1, Own(route[k]), Own(route[k + 1])
        PROVE  \E w \in Ways(route[k + 1]) :
                 w.dest = route[k] /\ D(s, route[k]) = D(s, route[k + 1]) + w.dist
    <3>1. PICK i, j : i = route[k] /\ j = route[k + 1]
      OBVIOUS
    <3>2. i \in DOMAIN node /\ j \in DOMAIN node
      BY <3>1 DEF RoutesInv, RoutesTypeOK
    <3>3. P(s, i) = j
      BY <2>1, <3>1, <3>2 DEF RoutesInv, RouteFalls, Backward
    <3>4. D(s, j) # Far /\ \E w \in Ways(j) : w.dest = i /\ D(s, j) + w.dist <= D(s, i)
      BY <2>1, <2>7, <3>1, <3>2, <3>3 DEF Stepped
    <3>5. PICK w \in Ways(j) : w.dest = i /\ D(s, j) + w.dist <= D(s, i)
      BY <3>4
    <3>6. D(s, i) <= D(s, j) + w.dist
      BY <2>6, <2>7, <3>1, <3>2, <3>4, <3>5
    <3>7. D(s, i) = D(s, j) + w.dist
      BY <2>2, <3>2, <3>5, <3>6, ShapeOf, WayFacts
    <3> QED
      BY <3>1, <3>5, <3>7
  <2> QED
    BY <2>4, <2>5, <2>6, <2>7
<1> QED
  BY <1>1, RoutesInvariance, PTL

\* Once all commands are sent, a branch the route passes lies so that it leads to the
\* next node of the route, where that node has a cell of its own.
THEOREM Switches == RoutesSpec => []SwitchesLieForRoute
<1>1. RoutesInv => SwitchesLieForRoute
  <2> SUFFICES ASSUME RoutesInv, phase = "done", NEW k \in 1 .. Len(route) - 1,
                      node[route[k + 1]].type = BRANCH, Own(route[k])
               PROVE  Lies(route[k + 1], route[k])
    BY DEF SwitchesLieForRoute
  <2>1. RoutesTypeOK /\ branches = <<>>
    BY DEF RoutesInv, Stages
  <2>2. PICK i, j : i = route[k + 1] /\ j = route[k]
    OBVIOUS
  <2>3. i \in DOMAIN node /\ j \in DOMAIN node
    BY <2>1, <2>2 DEF RoutesTypeOK
  <2>4. PICK s : s = Searching /\ Stepped(s) /\ Backward(s)
    BY DEF RoutesInv, Searched, RouteFalls
  <2>5. P(s, j) = i
    BY <2>2, <2>3, <2>4 DEF Backward
  <2>6. PICK w \in Ways(i) : w.dest = j
    BY <2>2, <2>3, <2>4, <2>5 DEF Stepped
  <2>7. node[i].num \in DOMAIN solonoid /\ solonoid[node[i].num] = Noted(i, j)[2]
    BY <2>1, <2>2, NoneYet DEF RoutesInv, BranchesCommanded
  <2>8. solonoid[node[i].num] = IF node[i].curved.dest = j THEN "C" ELSE "S"
    BY <2>7 DEF Noted
  <2>9. node[i].straight.dest = j \/ node[i].curved.dest = j
    BY <2>2, <2>6 DEF Ways, BRANCH, SENSOR
  <2> QED
    BY <2>2, <2>7, <2>8, <2>9 DEF Lies
<1> QED
  BY <1>1, RoutesInvariance, PTL

\* Distances, predecessors and the queue stay within the cells of the layout.
THEOREM RoutesTypes == RoutesSpec => []RoutesTypeOK
<1>1. RoutesInv => RoutesTypeOK
  BY DEF RoutesInv
<1> QED
  BY <1>1, RoutesInvariance, PTL

=============================================================================
