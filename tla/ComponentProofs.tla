-------------------------- MODULE ComponentProofs --------------------------
(***************************************************************************)
(* The components that share no variable with any other: the pointers of   *)
(* utilities.c implement sequences, for any lists and any elements; the    *)
(* FIFO implements a bounded queue, for any sizes and any data; the load   *)
(* figure counts turns once or again; the terminal shows the last lines of *)
(* what was printed, for a screen, buffer and picture of any size; itoa    *)
(* and x_strcmp answer rightly for every int and all strings; the UART     *)
(* sends every text whole, for any senders and texts; the keyboard's bit   *)
(* counter reads the code of a frame of any key, from wherever it starts.  *)
(***************************************************************************)
EXTENDS Queues, Fifo, Performance, Terminal, Utilities, Uart, KeyboardFrames,
        SequenceTheorems, FunctionTheorems, FiniteSetTheorems, WellFoundedInduction, TLAPS

(* Induction over the natural numbers, for a set.                          *)
LEMMA LeastMember ==
    ASSUME NEW T \in SUBSET Nat, T # {}
    PROVE  \E m \in T : \A n \in T : m <= n
<1>. DEFINE R == {x \in Nat \X Nat : x[1] < x[2]}
<1>1. IsWellFoundedOn(R, Nat)
  <2>1. OpToRel(<, Nat) = R
    BY DEF OpToRel
  <2>. QED  BY <2>1, NatLessThanWellFounded
<1>. HIDE DEF R
<1>2. PICK m \in T : \A n \in T : ~(<<n, m>> \in R)
  BY <1>1, WFMin
<1>3. ASSUME NEW n \in T PROVE m <= n
  <2>1. ~(<<n, m>> \in R)
    BY <1>2
  <2>2. m \in Nat /\ n \in Nat
    OBVIOUS
  <2>. QED  BY <2>1, <2>2 DEF R
<1>. QED  BY <1>3

LEMMA Induction ==
    ASSUME NEW T \in SUBSET Nat, 0 \in T, \A n \in T : n + 1 \in T
    PROVE  T = Nat
<1>. SUFFICES ASSUME Nat \ T # {} PROVE FALSE
  OBVIOUS
<1>1. PICK m \in Nat \ T : \A n \in Nat \ T : m <= n
  BY LeastMember
<1>2. m # 0 /\ m - 1 \in T
  BY <1>1
<1>. QED  BY <1>1, <1>2

-----------------------------------------------------------------------------
(* The walk of Path, as the recursive function it is defined by.           *)
Following(pointer, c, n, walk) ==
    [k \in 0 .. n |-> IF k = 0 THEN c ELSE pointer[walk[k - 1]]]
At(pointer, c, n) == CHOOSE walk : walk = Following(pointer, c, n, walk)

(* The function exists, ...                                                *)
LEMMA AtExists ==
    ASSUME NEW f, NEW c, NEW n \in Nat
    PROVE  \E walk : walk = Following(f, c, n, walk)
<1>. DEFINE G(walk, m) == Following(f, c, m, walk)
            T == {m \in Nat : \E walk : walk = G(walk, m)}
<1>1. 0 \in T
  <2>1. [k \in 0 .. 0 |-> c] = G([k \in 0 .. 0 |-> c], 0)
    BY DEF Following
  <2>. QED  BY <2>1
<1>2. ASSUME NEW m \in T PROVE m + 1 \in T
  <2>1. PICK walk : walk = G(walk, m)
    OBVIOUS
  <2>2. m \in Nat
    OBVIOUS
  <2>. DEFINE new == [k \in 0 .. m + 1 |-> IF k = m + 1 THEN f[walk[m]] ELSE walk[k]]
  <2>3. \A k \in 0 .. m + 1 : new[k] = IF k = 0 THEN c ELSE f[new[k - 1]]
    BY <2>1, <2>2 DEF Following
  <2>4. new = [k \in 0 .. m + 1 |-> new[k]]
    OBVIOUS
  <2>. HIDE DEF new
  <2>5. new = G(new, m + 1)
    BY <2>3, <2>4 DEF Following
  <2>. QED  BY <2>2, <2>5
<1>. HIDE DEF T
<1>3. T \in SUBSET Nat
  BY DEF T
<1>4. n \in T
  BY <1>1, <1>2, <1>3, Induction
<1>. QED  BY <1>4 DEF T

LEMMA AtIs ==
    ASSUME NEW f, NEW c, NEW n \in Nat
    PROVE  /\ DOMAIN At(f, c, n) = 0 .. n
           /\ At(f, c, n)[0] = c
           /\ \A k \in 1 .. n : At(f, c, n)[k] = f[At(f, c, n)[k - 1]]
<1>. DEFINE walk == At(f, c, n)
<1>1. walk = Following(f, c, n, walk)
  BY AtExists DEF At
<1>. HIDE DEF walk
<1>2. /\ DOMAIN walk = 0 .. n
      /\ walk[0] = c
      /\ \A k \in 1 .. n : walk[k] = f[walk[k - 1]]
  BY <1>1 DEF Following
<1>. QED  BY <1>2 DEF walk

(* ... and a walk w that starts at c, follows the pointer and meets h for  *)
(* the first time after m steps is what Path meets.                        *)
LEMMA PathAlong ==
    ASSUME NEW f, NEW c, NEW h, Cardinality(Link) \in Nat,
           NEW m \in 0 .. Cardinality(Link), NEW w,
           w[0] = c, w[m] = h,
           \A k \in 1 .. m : w[k] = f[w[k - 1]],
           \A k \in 0 .. m - 1 : w[k] # h
    PROVE  Path(f, c, h) = [z \in 1 .. m |-> w[z - 1]]
<1>. DEFINE n == Cardinality(Link)
            walk == At(f, c, n)
            home == {k \in DOMAIN walk : walk[k] = h}
<1>1. Path(f, c, h) = [z \in 1 .. (IF home = {} THEN n ELSE Min(home)) |-> walk[z - 1]]
  BY DEF Path, At, Following
<1>2. /\ DOMAIN walk = 0 .. n /\ walk[0] = c
      /\ \A k \in 1 .. n : walk[k] = f[walk[k - 1]]
  BY AtIs
<1>. HIDE DEF walk
<1>3. \A k \in 0 .. m : walk[k] = w[k]
  <2>. DEFINE T == {k \in Nat : k <= m => walk[k] = w[k]}
  <2>1. 0 \in T
    BY <1>2
  <2>2. ASSUME NEW k \in T PROVE k + 1 \in T
    <3>1. k \in Nat /\ (k + 1) - 1 = k
      OBVIOUS
    <3>2. ASSUME k + 1 <= m PROVE walk[k + 1] = w[k + 1]
      <4>1. k + 1 \in 1 .. m /\ k + 1 \in 1 .. n /\ walk[k] = w[k]
        BY <3>1, <3>2
      <4>. QED  BY <1>2, <3>1, <4>1
    <3>. QED  BY <3>1, <3>2
  <2>. HIDE DEF T
  <2>3. T = Nat
    <3>1. T \in SUBSET Nat
      BY DEF T
    <3>. QED  BY <2>1, <2>2, <3>1, Induction
  <2>. QED  BY <2>3 DEF T
<1>4. m \in home /\ home \subseteq Nat /\ \A k \in home : m <= k
  BY <1>2, <1>3
<1>. HIDE DEF home
<1>5. Min(home) = m
  <2>1. Min(home) \in home /\ \A k \in home : Min(home) <= k
    BY <1>4 DEF Min
  <2>2. Min(home) <= m /\ m <= Min(home) /\ Min(home) \in Nat /\ m \in Nat
    BY <1>4, <2>1
  <2>. QED  BY <2>2
<1>6. Path(f, c, h) = [z \in 1 .. m |-> walk[z - 1]]
  BY <1>1, <1>4, <1>5
<1>7. \A z \in 1 .. m : walk[z - 1] = w[z - 1]
  BY <1>3
<1>. QED  BY <1>6, <1>7

-----------------------------------------------------------------------------
(* The z-th cell of the ring of head h and elements q, the head being the  *)
(* one before the first and after the last element.                        *)
Node(h, q, z) == IF z \in 1 .. Len(q) THEN q[z] ELSE h

(* What the pointers nx and pv of that ring are.                           *)
RingOf(nx, pv, h, q) ==
    /\ q \in Seq(Element)
    /\ \A z, j \in 1 .. Len(q) : q[z] = q[j] => z = j
    /\ \A z \in 0 .. Len(q) : /\ nx[Node(h, q, z)] = Node(h, q, z + 1)
                            /\ pv[Node(h, q, z + 1)] = Node(h, q, z)

Apart(q) ==
    \A g, h \in QueueHead :
        \A z \in 1 .. Len(q[g]), j \in 1 .. Len(q[h]) : q[g][z] = q[h][j] => g = h

RingsOf(nx, pv, q) ==
    /\ q \in [QueueHead -> Seq(Element)]
    /\ nx \in [Link -> Link \cup {NULL}]
    /\ pv \in [Link -> Link \cup {NULL}]
    /\ \A h \in QueueHead : RingOf(nx, pv, h, q[h])
    /\ Apart(q)

LEMMA NodeIs ==
    ASSUME NEW h \in QueueHead, NEW q \in Seq(Element),
           \A z, j \in 1 .. Len(q) : q[z] = q[j] => z = j
    PROVE  /\ Len(q) \in Nat
           /\ \A z \in Int : Node(h, q, z) \in Link
           /\ Node(h, q, 0) = h /\ Node(h, q, Len(q) + 1) = h
           /\ \A z \in 1 .. Len(q) : Node(h, q, z) = q[z] /\ Node(h, q, z) \in Element
                                   /\ Node(h, q, z) # h
           /\ \A z, j \in 0 .. Len(q) : Node(h, q, z) = Node(h, q, j) => z = j
           /\ \A z, j \in 1 .. Len(q) + 1 : Node(h, q, z) = Node(h, q, j) => z = j
<1>1. Len(q) \in Nat /\ \A z \in 1 .. Len(q) : q[z] \in Element
  OBVIOUS
<1>2. \A z \in 1 .. Len(q) : Node(h, q, z) = q[z] /\ q[z] # h
  BY <1>1, LinksAssumption DEF Node
<1>3. \A z \in Int : z \notin 1 .. Len(q) => Node(h, q, z) = h
  BY DEF Node
<1>4. \A z \in Int : Node(h, q, z) \in Link
  BY <1>1, <1>2, <1>3 DEF Link
<1>5. Node(h, q, 0) = h /\ Node(h, q, Len(q) + 1) = h
  BY <1>1, <1>3
<1>6. ASSUME NEW z \in 0 .. Len(q), NEW j \in 0 .. Len(q), Node(h, q, z) = Node(h, q, j)
      PROVE  z = j
  <2>1. z = 0 <=> Node(h, q, z) = h
    BY <1>1, <1>2, <1>5
  <2>2. j = 0 <=> Node(h, q, j) = h
    BY <1>1, <1>2, <1>5
  <2>. QED  BY <1>1, <1>2, <1>6, <2>1, <2>2
<1>7. ASSUME NEW z \in 1 .. Len(q) + 1, NEW j \in 1 .. Len(q) + 1,
             Node(h, q, z) = Node(h, q, j)
      PROVE  z = j
  <2>1. z = Len(q) + 1 <=> Node(h, q, z) = h
    BY <1>1, <1>2, <1>5
  <2>2. j = Len(q) + 1 <=> Node(h, q, j) = h
    BY <1>1, <1>2, <1>5
  <2>. QED  BY <1>1, <1>2, <1>7, <2>1, <2>2
<1>. QED  BY <1>1, <1>2, <1>4, <1>5, <1>6, <1>7

LEMMA LinkIsFinite == Cardinality(Link) \in Nat
BY LinksAssumption, FS_CardinalityType DEF Link

(* The elements of a ring are not more than there are cells.               *)
LEMMA RingIsBounded ==
    ASSUME NEW q \in Seq(Element), \A z, j \in 1 .. Len(q) : q[z] = q[j] => z = j
    PROVE  Len(q) \in 0 .. Cardinality(Link)
<1>. DEFINE n == Len(q)
            f == [z \in 1 .. n |-> q[z]]
<1>1. n \in Nat /\ \A z \in 1 .. n : q[z] \in Link
  BY DEF Link
<1>. HIDE DEF n
<1>2. f \in Injection(1 .. n, Link)
  BY <1>1 DEF Injection, IsInjective, n
<1>3. Cardinality(1 .. n) = n
  BY <1>1, FS_Interval
<1>4. Cardinality(1 .. n) <= Cardinality(Link)
  <2>1. IsFiniteSet(Link)
    BY LinksAssumption DEF Link
  <2>. HIDE DEF f
  <2>. QED  BY <1>2, <2>1, FS_Injection
<1>. QED  BY <1>1, <1>3, <1>4, LinkIsFinite DEF n

(* From the k-th cell of a ring, Path meets the k-th element and those     *)
(* after it.                                                               *)
LEMMA PathInRing ==
    ASSUME NEW nx, NEW pv, NEW h \in QueueHead, NEW q, RingOf(nx, pv, h, q),
           NEW k \in 1 .. Len(q) + 1
    PROVE  Path(nx, Node(h, q, k), h) = SubSeq(q, k, Len(q))
<1>0. /\ q \in Seq(Element) /\ Len(q) \in Nat
      /\ \A z, j \in 1 .. Len(q) : q[z] = q[j] => z = j
      /\ \A z \in 0 .. Len(q) : nx[Node(h, q, z)] = Node(h, q, z + 1)
  BY DEF RingOf
<1>. DEFINE m == Len(q) + 1 - k
            w == [j \in 0 .. m |-> Node(h, q, k + j)]
<1>1. m \in 0 .. Cardinality(Link) /\ m \in Nat /\ k + m = Len(q) + 1
  BY <1>0, RingIsBounded, LinkIsFinite, SMTT(30)
<1>2. w[0] = Node(h, q, k) /\ w[m] = h
  BY <1>0, <1>1, NodeIs
<1>3. \A j \in 1 .. m : w[j] = nx[w[j - 1]]
  <2>1. ASSUME NEW j \in 1 .. m PROVE w[j] = nx[w[j - 1]]
    <3>1. k + j - 1 \in 0 .. Len(q) /\ (k + j - 1) + 1 = k + j /\ k + (j - 1) = k + j - 1
      BY <1>0
    <3>2. w[j] = Node(h, q, k + j) /\ w[j - 1] = Node(h, q, k + j - 1)
      BY <1>1, <3>1
    <3>. QED  BY <1>0, <3>1, <3>2
  <2>. QED  BY <2>1
<1>4. \A j \in 0 .. m - 1 : w[j] = q[k + j] /\ w[j] # h
  <2>1. ASSUME NEW j \in 0 .. m - 1 PROVE w[j] = q[k + j] /\ w[j] # h
    <3>1. k + j \in 1 .. Len(q) /\ w[j] = Node(h, q, k + j)
      BY <1>0
    <3>. QED  BY <1>0, <3>1, NodeIs
  <2>. QED  BY <2>1
<1>. HIDE DEF w, m
<1>5. Path(nx, Node(h, q, k), h) = [z \in 1 .. m |-> w[z - 1]]
  <2>1. /\ Cardinality(Link) \in Nat /\ m \in 0 .. Cardinality(Link)
        /\ w[0] = Node(h, q, k) /\ w[m] = h
        /\ \A j \in 1 .. m : w[j] = nx[w[j - 1]]
        /\ \A j \in 0 .. m - 1 : w[j] # h
    BY <1>1, <1>2, <1>3, <1>4, LinkIsFinite
  <2>. QED  BY <2>1, PathAlong, SMTT(60)
<1>6. \A z \in 1 .. m : w[z - 1] = q[k + z - 1]
  <2>1. ASSUME NEW z \in 1 .. m PROVE w[z - 1] = q[k + z - 1]
    <3>1. z - 1 \in 0 .. m - 1 /\ k + (z - 1) = k + z - 1
      BY <1>1
    <3>. QED  BY <1>4, <3>1
  <2>. QED  BY <2>1
<1>7. SubSeq(q, k, Len(q)) = [z \in 1 .. m |-> q[k + z - 1]]
  BY <1>0 DEF m
<1>. QED  BY <1>5, <1>6, <1>7

(* From the head on, all of them.                                          *)
LEMMA ElementsOfRing ==
    ASSUME NEW nx, NEW pv, NEW h \in QueueHead, NEW q, RingOf(nx, pv, h, q)
    PROVE  Path(nx, nx[h], h) = q
<1>1. q \in Seq(Element) /\ \A z, j \in 1 .. Len(q) : q[z] = q[j] => z = j
  BY DEF RingOf
<1>2. nx[h] = Node(h, q, 1) /\ 1 \in 1 .. Len(q) + 1
  <2>1. /\ nx[Node(h, q, 0)] = Node(h, q, 0 + 1)
        /\ Node(h, q, 0) = h
    BY <1>1, NodeIs DEF RingOf
  <2>. QED  BY <1>1, <2>1
<1>3. SubSeq(q, 1, Len(q)) = q
  BY <1>1
<1>4. Path(nx, Node(h, q, 1), h) = SubSeq(q, 1, Len(q))
  BY <1>2, PathInRing
<1>. QED  BY <1>2, <1>3, <1>4

-----------------------------------------------------------------------------
(* A cell put between the z-th and the next one, and the i-th taken out.   *)
Inserted(q, z, e) ==
    [k \in 1 .. Len(q) + 1 |-> IF k <= z THEN q[k] ELSE IF k = z + 1 THEN e ELSE q[k - 1]]
Removed(q, z) == [k \in 1 .. Len(q) - 1 |-> IF k < z THEN q[k] ELSE q[k + 1]]

LEMMA InsertedIs ==
    ASSUME NEW q \in Seq(Element), NEW z \in 0 .. Len(q), NEW e \in Element
    PROVE  /\ Inserted(q, z, e) \in Seq(Element)
           /\ Len(Inserted(q, z, e)) = Len(q) + 1
           /\ \A k \in 1 .. Len(q) + 1 :
                  Inserted(q, z, e)[k] = IF k <= z THEN q[k] ELSE IF k = z + 1 THEN e ELSE q[k - 1]
<1>1. Len(q) \in Nat /\ \A k \in 1 .. Len(q) : q[k] \in Element
  OBVIOUS
<1>2. \A k \in 1 .. Len(q) + 1 : (IF k <= z THEN q[k] ELSE IF k = z + 1 THEN e ELSE q[k - 1]) \in Element
  BY <1>1
<1>. QED  BY <1>1, <1>2 DEF Inserted

LEMMA RemovedIs ==
    ASSUME NEW q \in Seq(Element), NEW z \in 1 .. Len(q)
    PROVE  /\ Removed(q, z) \in Seq(Element)
           /\ Len(Removed(q, z)) = Len(q) - 1
           /\ \A k \in 1 .. Len(q) - 1 :
                  Removed(q, z)[k] = IF k < z THEN q[k] ELSE q[k + 1]
<1>1. Len(q) \in Nat /\ \A k \in 1 .. Len(q) : q[k] \in Element
  OBVIOUS
<1>2. \A k \in 1 .. Len(q) - 1 : (IF k < z THEN q[k] ELSE q[k + 1]) \in Element
  BY <1>1
<1>. QED  BY <1>1, <1>2 DEF Removed

(* The rings of two heads have no cell in common.                          *)
LEMMA NodesApart ==
    ASSUME NEW q \in [QueueHead -> Seq(Element)], Apart(q),
           NEW g \in QueueHead, NEW h \in QueueHead, g # h, NEW z \in Int, NEW j \in Int
    PROVE  Node(g, q[g], z) # Node(h, q[h], j)
<1>1. q[g] \in Seq(Element) /\ q[h] \in Seq(Element)
  OBVIOUS
<1>2. \A k \in 1 .. Len(q[g]) : q[g][k] \in Element
  BY <1>1
<1>3. \A k \in 1 .. Len(q[h]) : q[h][k] \in Element
  BY <1>1
<1>. QED  BY <1>2, <1>3, LinksAssumption DEF Node, Apart

(* A loose element can be put between any two cells of a ring, ...         *)
IsLoose(q, e) == \A g \in QueueHead : \A k \in 1 .. Len(q[g]) : q[g][k] # e

Spliced(nx, pv, q, h, z, e, nx2, pv2) ==
    \A c \in Link :
        /\ nx2[c] = IF c = e THEN Node(h, q[h], z + 1)
                    ELSE IF c = Node(h, q[h], z) THEN e ELSE nx[c]
        /\ pv2[c] = IF c = e THEN Node(h, q[h], z)
                    ELSE IF c = Node(h, q[h], z + 1) THEN e ELSE pv[c]

LEMMA SpliceIn ==
    ASSUME NEW nx, NEW pv, NEW q, RingsOf(nx, pv, q),
           NEW h \in QueueHead, NEW z \in 0 .. Len(q[h]),
           NEW e \in Element, IsLoose(q, e),
           NEW nx2 \in [Link -> Link \cup {NULL}], NEW pv2 \in [Link -> Link \cup {NULL}],
           Spliced(nx, pv, q, h, z, e, nx2, pv2)
    PROVE  RingsOf(nx2, pv2, [q EXCEPT ![h] = Inserted(@, z, e)])
<1>. USE DEF IsLoose, Spliced
<1>. DEFINE old == q[h]
            r == Inserted(old, z, e)
            q2 == [q EXCEPT ![h] = r]
            n == Len(old)
<1>1. /\ old \in Seq(Element) /\ n \in Nat
      /\ \A k, j \in 1 .. n : old[k] = old[j] => k = j
      /\ \A k \in 0 .. n : nx[Node(h, old, k)] = Node(h, old, k + 1) /\ pv[Node(h, old, k + 1)] = Node(h, old, k)
      /\ \A k \in 1 .. n : old[k] # e
      /\ z \in 0 .. n
  BY DEF RingsOf, RingOf
<1>2. /\ r \in Seq(Element) /\ Len(r) = n + 1
      /\ \A k \in 1 .. n + 1 : r[k] = IF k <= z THEN old[k] ELSE IF k = z + 1 THEN e ELSE old[k - 1]
  <2>. HIDE DEF old
  <2>. QED  BY <1>1, InsertedIs
<1>3. /\ \A k \in 0 .. n + 1 : Node(h, old, k) \in Link /\ Node(h, old, k) # e
      /\ \A k, j \in 0 .. n : Node(h, old, k) = Node(h, old, j) => k = j
      /\ \A k, j \in 1 .. n + 1 : Node(h, old, k) = Node(h, old, j) => k = j
      /\ e \in Link
  <2>1. \A k \in Int : Node(h, old, k) # e
    BY <1>1, LinksAssumption DEF Node
  <2>. HIDE DEF old, r
  <2>2. \A k, j \in 1 .. Len(old) : old[k] = old[j] => k = j
    BY <1>1
  <2>3. /\ \A k \in Int : Node(h, old, k) \in Link
        /\ \A k, j \in 0 .. Len(old) : Node(h, old, k) = Node(h, old, j) => k = j
        /\ \A k, j \in 1 .. Len(old) + 1 : Node(h, old, k) = Node(h, old, j) => k = j
    BY <1>1, <2>2, NodeIs
  <2>. QED  BY <1>1, <2>1, <2>3 DEF Link
<1>. HIDE DEF r
<1>4. \A k \in 0 .. n + 2 : Node(h, r, k) = IF k <= z THEN Node(h, old, k)
                                         ELSE IF k = z + 1 THEN e ELSE Node(h, old, k - 1)
  BY <1>1, <1>2 DEF Node
<1>. HIDE DEF old, n
<1>5. ASSUME NEW k \in 1 .. n + 1, NEW j \in 1 .. n + 1, r[k] = r[j] PROVE k = j
  <2>. DEFINE X == IF k <= z THEN k ELSE k - 1
              Y == IF j <= z THEN j ELSE j - 1
  <2>1. CASE k # z + 1 /\ j # z + 1
    <3>1. X \in 1 .. n /\ Y \in 1 .. n /\ r[k] = old[X] /\ r[j] = old[Y]
      BY <1>1, <1>2, <2>1
    <3>2. X = Y
      BY <1>1, <1>5, <3>1, ZenonT(40)
    <3>. QED  BY <1>1, <2>1, <3>2
  <2>2. \A m \in 1 .. n + 1 : m # z + 1 => r[m] # e
    <3>1. ASSUME NEW m \in 1 .. n + 1, m # z + 1 PROVE r[m] # e
      <4>1. CASE m <= z
        BY <1>1, <1>2, <4>1
      <4>2. CASE m > z + 1
        <5>1. m - 1 \in 1 .. n /\ r[m] = old[m - 1]
          BY <1>1, <1>2, <4>2
        <5>. QED  BY <1>1, <5>1
      <4>. QED  BY <1>1, <3>1, <4>1, <4>2
    <3>. QED  BY <3>1
  <2>3. z + 1 \in 1 .. n + 1 /\ r[z + 1] = e
    BY <1>1, <1>2
  <2>. QED  BY <1>5, <2>1, <2>2, <2>3
<1>6. ASSUME NEW k \in 0 .. n + 1
      PROVE  /\ nx2[Node(h, r, k)] = Node(h, r, k + 1)
             /\ pv2[Node(h, r, k + 1)] = Node(h, r, k)
  <2>0. z \in 0 .. n /\ n \in Nat /\ k + 1 \in 0 .. n + 2
    BY <1>1 DEF n, old
  <2>1. CASE k < z
    <3>1. /\ Node(h, r, k) = Node(h, old, k) /\ Node(h, r, k + 1) = Node(h, old, k + 1)
          /\ k \in 0 .. n /\ k + 1 \in 1 .. n + 1 /\ z + 1 \in 1 .. n + 1
      BY <1>4, <2>0, <2>1
    <3>2. /\ Node(h, old, k) # e /\ Node(h, old, k) # Node(h, old, z) /\ Node(h, old, k) \in Link
          /\ Node(h, old, k + 1) # e /\ Node(h, old, k + 1) # Node(h, old, z + 1)
          /\ Node(h, old, k + 1) \in Link
      BY <1>3, <2>0, <2>1, <3>1
    <3>3. /\ nx2[Node(h, old, k)] = nx[Node(h, old, k)]
          /\ pv2[Node(h, old, k + 1)] = pv[Node(h, old, k + 1)]
      BY <3>2 DEF old
    <3>. QED  BY <1>1, <3>1, <3>3
  <2>2. CASE k = z
    <3>1. /\ Node(h, r, k) = Node(h, old, z) /\ Node(h, r, k + 1) = e
      BY <1>4, <2>0, <2>2
    <3>2. Node(h, old, z) # e /\ Node(h, old, z) \in Link
      BY <1>3, <2>0
    <3>. QED  BY <1>3, <3>1, <3>2 DEF old
  <2>3. CASE k = z + 1
    <3>1. /\ Node(h, r, k) = e /\ Node(h, r, k + 1) = Node(h, old, z + 1)
      BY <1>4, <2>0, <2>3
    <3>2. Node(h, old, z + 1) # e /\ Node(h, old, z + 1) \in Link
      BY <1>3, <2>0
    <3>. QED  BY <1>3, <3>1, <3>2 DEF old
  <2>4. CASE k > z + 1
    <3>1. /\ Node(h, r, k) = Node(h, old, k - 1) /\ Node(h, r, k + 1) = Node(h, old, k)
          /\ k - 1 \in 0 .. n /\ k \in 1 .. n + 1 /\ z + 1 \in 1 .. n + 1 /\ (k - 1) + 1 = k
      BY <1>4, <2>0, <2>4
    <3>2. /\ Node(h, old, k - 1) # e /\ Node(h, old, k - 1) # Node(h, old, z) /\ Node(h, old, k - 1) \in Link
          /\ Node(h, old, k) # e /\ Node(h, old, k) # Node(h, old, z + 1)
          /\ Node(h, old, k) \in Link
      BY <1>3, <2>0, <2>4, <3>1
    <3>3. /\ nx2[Node(h, old, k - 1)] = nx[Node(h, old, k - 1)]
          /\ pv2[Node(h, old, k)] = pv[Node(h, old, k)]
      BY <3>2 DEF old
    <3>. QED  BY <1>1, <3>1, <3>3
  <2>. QED  BY <2>0, <2>1, <2>2, <2>3, <2>4
<1>7. RingOf(nx2, pv2, h, r)
  BY <1>2, <1>5, <1>6 DEF RingOf
<1>8. q2 \in [QueueHead -> Seq(Element)] /\ q2[h] = r /\ \A g \in QueueHead \ {h} : q2[g] = q[g]
  BY <1>2 DEF RingsOf
<1>. HIDE DEF q2
<1>9. ASSUME NEW g \in QueueHead, g # h PROVE RingOf(nx2, pv2, g, q[g])
  <2>1. RingOf(nx, pv, g, q[g])
    BY DEF RingsOf
  <2>2. ASSUME NEW k \in Int
        PROVE  /\ Node(g, q[g], k) \in Link
               /\ Node(g, q[g], k) # e
               /\ Node(g, q[g], k) # Node(h, old, z)
               /\ Node(g, q[g], k) # Node(h, old, z + 1)
    <3>1. Node(g, q[g], k) \in Link
      BY <2>1, NodeIs DEF RingOf
    <3>2. Node(g, q[g], k) # e
      BY LinksAssumption DEF Node
    <3>. QED  BY <1>9, <3>1, <3>2, NodesApart DEF RingsOf, old
  <2>3. ASSUME NEW k \in 0 .. Len(q[g])
        PROVE  /\ nx2[Node(g, q[g], k)] = nx[Node(g, q[g], k)]
               /\ pv2[Node(g, q[g], k + 1)] = pv[Node(g, q[g], k + 1)]
    BY <2>2 DEF old
  <2>. QED  BY <2>1, <2>3 DEF RingOf
<1>10. Apart(q2)
  <2>. SUFFICES ASSUME NEW f \in QueueHead, NEW g \in QueueHead,
                       NEW k \in 1 .. Len(q2[f]), NEW j \in 1 .. Len(q2[g]),
                       q2[f][k] = q2[g][j], f # g
                PROVE  FALSE
    BY DEF Apart
  <2>1. \A k1 \in 1 .. n + 1 : r[k1] = e \/ \E k2 \in 1 .. n : r[k1] = old[k2]
    <3>1. ASSUME NEW k1 \in 1 .. n + 1, k1 # z + 1 PROVE \E k2 \in 1 .. n : r[k1] = old[k2]
      <4>1. CASE k1 <= z
        BY <1>1, <1>2, <4>1
      <4>2. CASE k1 > z + 1
        <5>1. k1 - 1 \in 1 .. n /\ r[k1] = old[k1 - 1]
          BY <1>1, <1>2, <4>2
        <5>. QED  BY <5>1
      <4>. QED  BY <1>1, <3>1, <4>1, <4>2
    <3>2. z + 1 \in 1 .. n + 1 /\ r[z + 1] = e
      BY <1>1, <1>2
    <3>. QED  BY <3>1, <3>2
  <2>2. CASE f = h
    BY <1>2, <1>8, <2>1, <2>2 DEF RingsOf, Apart, old, n
  <2>3. CASE g = h
    BY <1>2, <1>8, <2>1, <2>3 DEF RingsOf, Apart, old, n
  <2>4. CASE f # h /\ g # h
    BY <1>8, <2>4 DEF RingsOf, Apart
  <2>. QED  BY <2>2, <2>3, <2>4
<1>11. RingsOf(nx2, pv2, q2)
  BY <1>7, <1>8, <1>9, <1>10 DEF RingsOf
<1>. QED  BY <1>11 DEF q2, r, old

(* ... and any element can be taken out of its ring.                       *)
LEMMA SpliceOut ==
    ASSUME NEW nx, NEW pv, NEW q, RingsOf(nx, pv, q),
           NEW h \in QueueHead, NEW z \in 1 .. Len(q[h]),
           NEW nx2 \in [Link -> Link \cup {NULL}], NEW pv2 \in [Link -> Link \cup {NULL}],
           \A c \in Link :
              /\ nx2[c] = IF c = Node(h, q[h], z - 1) THEN Node(h, q[h], z + 1) ELSE nx[c]
              /\ pv2[c] = IF c = Node(h, q[h], z + 1) THEN Node(h, q[h], z - 1) ELSE pv[c]
    PROVE  RingsOf(nx2, pv2, [q EXCEPT ![h] = Removed(@, z)])
<1>. DEFINE old == q[h]
            r == Removed(old, z)
            q2 == [q EXCEPT ![h] = r]
            n == Len(old)
<1>1. /\ old \in Seq(Element) /\ n \in Nat
      /\ \A k, j \in 1 .. n : old[k] = old[j] => k = j
      /\ \A k \in 0 .. n : nx[Node(h, old, k)] = Node(h, old, k + 1) /\ pv[Node(h, old, k + 1)] = Node(h, old, k)
      /\ z \in 1 .. n
  BY DEF RingsOf, RingOf
<1>2. /\ r \in Seq(Element) /\ Len(r) = n - 1
      /\ \A k \in 1 .. n - 1 : r[k] = IF k < z THEN old[k] ELSE old[k + 1]
  <2>. HIDE DEF old
  <2>. QED  BY <1>1, RemovedIs
<1>3. /\ \A k \in 0 .. n + 1 : Node(h, old, k) \in Link
      /\ \A k, j \in 0 .. n : Node(h, old, k) = Node(h, old, j) => k = j
      /\ \A k, j \in 1 .. n + 1 : Node(h, old, k) = Node(h, old, j) => k = j
  <2>. HIDE DEF old
  <2>. QED  BY <1>1, NodeIs
<1>. HIDE DEF r
<1>4. \A k \in 0 .. n : Node(h, r, k) = IF k < z THEN Node(h, old, k) ELSE Node(h, old, k + 1)
  BY <1>1, <1>2 DEF Node
<1>. HIDE DEF old, n
<1>5. ASSUME NEW k \in 1 .. n - 1, NEW j \in 1 .. n - 1, r[k] = r[j] PROVE k = j
  <2>. DEFINE X == IF k < z THEN k ELSE k + 1
              Y == IF j < z THEN j ELSE j + 1
  <2>1. X \in 1 .. n /\ Y \in 1 .. n /\ r[k] = old[X] /\ r[j] = old[Y]
    <3>1. X \in 1 .. n /\ Y \in 1 .. n
      BY <1>1
    <3>2. /\ r[k] = IF k < z THEN old[k] ELSE old[k + 1]
          /\ r[j] = IF j < z THEN old[j] ELSE old[j + 1]
      BY <1>2
    <3>. QED  BY <3>1, <3>2
  <2>2. X = Y
    BY <1>1, <1>5, <2>1
  <2>. QED  BY <1>1, <2>2
<1>6. ASSUME NEW k \in 0 .. n - 1
      PROVE  /\ nx2[Node(h, r, k)] = Node(h, r, k + 1)
             /\ pv2[Node(h, r, k + 1)] = Node(h, r, k)
  <2>0. z \in 1 .. n /\ n \in Nat /\ k \in 0 .. n /\ k + 1 \in 0 .. n
    BY <1>1 DEF n, old
  <2>1. CASE k < z - 1
    <3>1. /\ Node(h, r, k) = Node(h, old, k) /\ Node(h, r, k + 1) = Node(h, old, k + 1)
          /\ k + 1 \in 1 .. n + 1 /\ z + 1 \in 1 .. n + 1 /\ z - 1 \in 0 .. n
      BY <1>4, <2>0, <2>1
    <3>2. /\ Node(h, old, k) # Node(h, old, z - 1) /\ Node(h, old, k) \in Link
          /\ Node(h, old, k + 1) # Node(h, old, z + 1)
          /\ Node(h, old, k + 1) \in Link
      BY <1>3, <2>0, <2>1, <3>1
    <3>3. /\ nx2[Node(h, old, k)] = nx[Node(h, old, k)]
          /\ pv2[Node(h, old, k + 1)] = pv[Node(h, old, k + 1)]
      BY <3>2 DEF old
    <3>. QED  BY <1>1, <2>0, <3>1, <3>3
  <2>2. CASE k = z - 1
    <3>1. /\ Node(h, r, k) = Node(h, old, z - 1) /\ Node(h, r, k + 1) = Node(h, old, z + 1)
      <4>1. k + 1 = z /\ z + 1 = (k + 1) + 1 /\ ~(k + 1 < z) /\ k < z
        BY <2>0, <2>2
      <4>. QED  BY <1>4, <2>0, <2>2, <4>1
    <3>2. Node(h, old, z - 1) \in Link /\ Node(h, old, z + 1) \in Link
      BY <1>3, <2>0
    <3>. QED  BY <3>1, <3>2 DEF old
  <2>3. CASE k >= z
    <3>1. /\ Node(h, r, k) = Node(h, old, k + 1) /\ Node(h, r, k + 1) = Node(h, old, k + 2)
          /\ k + 1 \in 0 .. n /\ k + 2 \in 1 .. n + 1 /\ z + 1 \in 1 .. n + 1 /\ z - 1 \in 0 .. n
          /\ (k + 1) + 1 = k + 2
      BY <1>4, <2>0, <2>3
    <3>2. /\ Node(h, old, k + 1) # Node(h, old, z - 1) /\ Node(h, old, k + 1) \in Link
          /\ Node(h, old, k + 2) # Node(h, old, z + 1)
          /\ Node(h, old, k + 2) \in Link
      BY <1>3, <2>0, <2>3, <3>1
    <3>3. /\ nx2[Node(h, old, k + 1)] = nx[Node(h, old, k + 1)]
          /\ pv2[Node(h, old, k + 2)] = pv[Node(h, old, k + 2)]
      BY <3>2 DEF old
    <3>. QED  BY <1>1, <3>1, <3>3
  <2>. QED  BY <2>0, <2>1, <2>2, <2>3
<1>7. RingOf(nx2, pv2, h, r)
  BY <1>2, <1>5, <1>6 DEF RingOf
<1>8. q2 \in [QueueHead -> Seq(Element)] /\ q2[h] = r /\ \A g \in QueueHead \ {h} : q2[g] = q[g]
  BY <1>2 DEF RingsOf
<1>. HIDE DEF q2
<1>9. ASSUME NEW g \in QueueHead, g # h PROVE RingOf(nx2, pv2, g, q[g])
  <2>1. RingOf(nx, pv, g, q[g])
    BY DEF RingsOf
  <2>2. ASSUME NEW k \in Int
        PROVE  /\ Node(g, q[g], k) \in Link
               /\ Node(g, q[g], k) # Node(h, old, z - 1)
               /\ Node(g, q[g], k) # Node(h, old, z + 1)
    <3>1. Node(g, q[g], k) \in Link
      BY <2>1, NodeIs DEF RingOf
    <3>. QED  BY <1>9, <3>1, NodesApart DEF RingsOf, old
  <2>3. ASSUME NEW k \in 0 .. Len(q[g])
        PROVE  /\ nx2[Node(g, q[g], k)] = nx[Node(g, q[g], k)]
               /\ pv2[Node(g, q[g], k + 1)] = pv[Node(g, q[g], k + 1)]
    BY <2>2 DEF old
  <2>. QED  BY <2>1, <2>3 DEF RingOf
<1>10. Apart(q2)
  <2>. SUFFICES ASSUME NEW f \in QueueHead, NEW g \in QueueHead,
                       NEW k \in 1 .. Len(q2[f]), NEW j \in 1 .. Len(q2[g]),
                       q2[f][k] = q2[g][j], f # g
                PROVE  FALSE
    BY DEF Apart
  <2>1. \A k1 \in 1 .. n - 1 : \E k2 \in 1 .. n : r[k1] = old[k2]
    BY <1>1, <1>2 DEF n, old
  <2>2. CASE f = h
    <3>1. PICK k2 \in 1 .. n : r[k] = old[k2]
      BY <1>2, <1>8, <2>1, <2>2
    <3>2. q2[g] = q[g] /\ q2[f] = r
      BY <1>8, <2>2
    <3>. QED  BY <2>2, <3>1, <3>2 DEF RingsOf, Apart, old, n
  <2>3. CASE g = h
    <3>1. PICK k2 \in 1 .. n : r[j] = old[k2]
      BY <1>2, <1>8, <2>1, <2>3
    <3>2. q2[f] = q[f] /\ q2[g] = r
      BY <1>8, <2>3
    <3>. QED  BY <2>3, <3>1, <3>2 DEF RingsOf, Apart, old, n
  <2>4. CASE f # h /\ g # h
    BY <1>8, <2>4 DEF RingsOf, Apart
  <2>. QED  BY <2>2, <2>3, <2>4
<1>11. RingsOf(nx2, pv2, q2)
  BY <1>7, <1>8, <1>9, <1>10 DEF RingsOf
<1>. QED  BY <1>11 DEF q2, r, old

-----------------------------------------------------------------------------
(* The operators of QueueLists as insertions and removals at a place.      *)
LEMMA FirstIsAt ==
    ASSUME NEW q \in Seq(Element), NEW e \in Element
    PROVE  <<e>> \o q = Inserted(q, 0, e)
<1>. DEFINE s == <<e>> \o q
            r == Inserted(q, 0, e)
<1>1. Len(q) \in Nat /\ 0 \in 0 .. Len(q)
  OBVIOUS
<1>2. /\ r \in Seq(Element) /\ Len(r) = Len(q) + 1
      /\ \A k \in 1 .. Len(q) + 1 : r[k] = IF k <= 0 THEN q[k] ELSE IF k = 0 + 1 THEN e ELSE q[k - 1]
  BY <1>1, InsertedIs
<1>3. /\ s \in Seq(Element) /\ Len(s) = 1 + Len(q)
      /\ \A k \in 1 .. Len(q) + 1 : s[k] = IF k = 1 THEN e ELSE q[k - 1]
  <2>1. <<e>> \in Seq(Element) /\ Len(<<e>>) = 1 /\ <<e>>[1] = e
    OBVIOUS
  <2>. QED  BY <1>1, <2>1, ConcatProperties
<1>. HIDE DEF s, r
<1>4. \A k \in 1 .. Len(q) + 1 : s[k] = r[k]
  BY <1>1, <1>2, <1>3
<1>5. s = r
  BY <1>1, <1>2, <1>3, <1>4, SeqEqual
<1>. QED  BY <1>5 DEF s, r

LEMMA LastIsAt ==
    ASSUME NEW q \in Seq(Element), NEW e \in Element
    PROVE  Append(q, e) = Inserted(q, Len(q), e)
<1>. DEFINE s == Append(q, e)
            r == Inserted(q, Len(q), e)
<1>1. Len(q) \in Nat /\ Len(q) \in 0 .. Len(q)
  OBVIOUS
<1>2. /\ r \in Seq(Element) /\ Len(r) = Len(q) + 1
      /\ \A k \in 1 .. Len(q) + 1 : r[k] = IF k <= Len(q) THEN q[k] ELSE IF k = Len(q) + 1 THEN e ELSE q[k - 1]
  BY <1>1, InsertedIs
<1>3. /\ s \in Seq(Element) /\ Len(s) = Len(q) + 1
      /\ \A k \in 1 .. Len(q) + 1 : s[k] = IF k <= Len(q) THEN q[k] ELSE e
  BY <1>1, AppendProperties
<1>. HIDE DEF s, r
<1>4. \A k \in 1 .. Len(q) + 1 : s[k] = r[k]
  BY <1>1, <1>2, <1>3
<1>5. s = r
  BY <1>1, <1>2, <1>3, <1>4, SeqEqual
<1>. QED  BY <1>5 DEF s, r

LEMMA TailIsWithout ==
    ASSUME NEW q \in Seq(Element), q # <<>>
    PROVE  Tail(q) = Removed(q, 1) /\ Len(q) >= 1
<1>. DEFINE r == Removed(q, 1)
            s == Tail(q)
<1>1. Len(q) \in Nat /\ 1 \in 1 .. Len(q)
  BY EmptySeq
<1>2. /\ r \in Seq(Element) /\ Len(r) = Len(q) - 1
      /\ \A k \in 1 .. Len(q) - 1 : r[k] = IF k < 1 THEN q[k] ELSE q[k + 1]
  BY <1>1, RemovedIs
<1>3. /\ s \in Seq(Element) /\ Len(s) = Len(q) - 1
      /\ \A k \in 1 .. Len(q) - 1 : s[k] = q[k + 1]
  BY <1>1
<1>. HIDE DEF r, s
<1>4. \A k \in 1 .. Len(q) - 1 : s[k] = r[k]
  BY <1>1, <1>2, <1>3
<1>5. s = r
  BY <1>1, <1>2, <1>3, <1>4, SeqEqual
<1>. QED  BY <1>1, <1>5 DEF r, s

LEMMA SliceIs ==
    ASSUME NEW S, NEW q \in Seq(S), NEW m \in 1 .. Len(q) + 1, NEW n \in m - 1 .. Len(q)
    PROVE  /\ SubSeq(q, m, n) \in Seq(S)
           /\ Len(SubSeq(q, m, n)) = n - m + 1
           /\ \A z \in 1 .. n - m + 1 : SubSeq(q, m, n)[z] = q[z + (m - 1)]
<1>1. Len(q) \in Nat /\ m \in Int /\ n \in Int
  OBVIOUS
<1>2. \A z \in m .. n : q[z] \in S
  BY <1>1
<1>3. /\ SubSeq(q, m, n) \in Seq(S)
      /\ Len(SubSeq(q, m, n)) = IF m <= n THEN n - m + 1 ELSE 0
      /\ \A z \in 1 .. n - m + 1 : SubSeq(q, m, n)[z] = q[m + z - 1]
  BY <1>1, <1>2, SubSeqProperties
<1>4. Len(SubSeq(q, m, n)) = n - m + 1
  BY <1>1, <1>3
<1>5. \A z \in 1 .. n - m + 1 : m + z - 1 = z + (m - 1)
  BY <1>1
<1>. QED  BY <1>3, <1>4, <1>5

LEMMA FrontIsWithout ==
    ASSUME NEW q \in Seq(Element), q # <<>>
    PROVE  SubSeq(q, 1, Len(q) - 1) = Removed(q, Len(q)) /\ Len(q) >= 1
<1>. DEFINE r == Removed(q, Len(q))
            s == SubSeq(q, 1, Len(q) - 1)
<1>1. Len(q) \in Nat /\ Len(q) \in 1 .. Len(q)
  BY EmptySeq
<1>2. /\ r \in Seq(Element) /\ Len(r) = Len(q) - 1
      /\ \A k \in 1 .. Len(q) - 1 : r[k] = IF k < Len(q) THEN q[k] ELSE q[k + 1]
  BY <1>1, RemovedIs
<1>3. /\ s \in Seq(Element) /\ Len(s) = Len(q) - 1
      /\ \A k \in 1 .. Len(q) - 1 : s[k] = q[k]
  <2>1. 1 \in 1 .. Len(q) + 1 /\ Len(q) - 1 \in 1 - 1 .. Len(q)
    BY <1>1
  <2>2. /\ s \in Seq(Element) /\ Len(s) = (Len(q) - 1) - 1 + 1
        /\ \A k \in 1 .. (Len(q) - 1) - 1 + 1 : s[k] = q[k + (1 - 1)]
    BY <2>1, SliceIs
  <2>. QED  BY <1>1, <2>2
<1>. HIDE DEF r, s
<1>4. \A k \in 1 .. Len(q) - 1 : s[k] = r[k]
  BY <1>1, <1>2, <1>3
<1>5. s = r
  BY <1>1, <1>2, <1>3, <1>4, SeqEqual
<1>. QED  BY <1>1, <1>5 DEF r, s

LEMMA WithoutIs ==
    ASSUME NEW q \in Seq(Element), \A z, j \in 1 .. Len(q) : q[z] = q[j] => z = j, NEW e
    PROVE  /\ (\A z \in 1 .. Len(q) : q[z] # e) => AsLists!Without(q, e) = q
           /\ \A z \in 1 .. Len(q) : q[z] = e => AsLists!Without(q, e) = Removed(q, z)
<1>1. Len(q) \in Nat /\ DOMAIN q = 1 .. Len(q)
  OBVIOUS
<1>2. e \in AsLists!Range(q) <=> \E z \in 1 .. Len(q) : q[z] = e
  BY <1>1 DEF AsLists!Range
<1>3. ASSUME NEW z \in 1 .. Len(q), q[z] = e
      PROVE  AsLists!Without(q, e) = Removed(q, z)
  <2>1. (CHOOSE j \in DOMAIN q : q[j] = e) = z
    <3>. DEFINE c == CHOOSE j \in DOMAIN q : q[j] = e
    <3>1. c \in 1 .. Len(q) /\ q[c] = e
      BY <1>1, <1>3
    <3>. HIDE DEF c
    <3>2. c = z
      BY <1>3, <3>1
    <3>. QED  BY <3>2 DEF c
  <2>. DEFINE a == SubSeq(q, 1, z - 1)
              b == SubSeq(q, z + 1, Len(q))
              r == Removed(q, z)
  <2>2. AsLists!Without(q, e) = a \o b
    BY <1>2, <1>3, <2>1 DEF AsLists!Without
  <2>3. a \in Seq(Element) /\ Len(a) = z - 1 /\ \A j \in 1 .. z - 1 : a[j] = q[j]
    BY <1>1
  <2>4. b \in Seq(Element) /\ Len(b) = Len(q) - z /\ \A j \in 1 .. Len(q) - z : b[j] = q[j + z]
    <3>1. z + 1 \in 1 .. Len(q) + 1 /\ Len(q) \in (z + 1) - 1 .. Len(q)
      BY <1>1
    <3>2. /\ b \in Seq(Element) /\ Len(b) = Len(q) - (z + 1) + 1
          /\ \A k \in 1 .. Len(q) - (z + 1) + 1 : b[k] = q[k + ((z + 1) - 1)]
      BY <3>1, SliceIs
    <3>3. Len(q) - (z + 1) + 1 = Len(q) - z /\ (z + 1) - 1 = z
      BY <1>1
    <3>. QED  BY <3>2, <3>3
  <2>. HIDE DEF a, b
  <2>5. /\ a \o b \in Seq(Element) /\ Len(a \o b) = Len(q) - 1
        /\ \A j \in 1 .. Len(q) - 1 : (a \o b)[j] = IF j <= z - 1 THEN a[j] ELSE b[j - (z - 1)]
    <3>1. /\ a \o b \in Seq(Element) /\ Len(a \o b) = Len(a) + Len(b)
          /\ \A j \in 1 .. Len(a) + Len(b) : (a \o b)[j] = IF j <= Len(a) THEN a[j] ELSE b[j - Len(a)]
      BY <2>3, <2>4, ConcatProperties, ZenonT(40)
    <3>2. Len(a) + Len(b) = Len(q) - 1
      BY <1>1, <2>3, <2>4
    <3>. QED  BY <2>3, <3>1, <3>2
  <2>6. /\ r \in Seq(Element) /\ Len(r) = Len(q) - 1
        /\ \A k \in 1 .. Len(q) - 1 : r[k] = IF k < z THEN q[k] ELSE q[k + 1]
    BY RemovedIs
  <2>. HIDE DEF r
  <2>7. ASSUME NEW j \in 1 .. Len(q) - 1 PROVE (a \o b)[j] = r[j]
    <3>1. CASE j < z
      <4>1. j \in 1 .. z - 1 /\ j <= z - 1
        BY <1>1, <3>1
      <4>2. (a \o b)[j] = a[j] /\ a[j] = q[j]
        BY <2>3, <2>5, <4>1
      <4>. QED  BY <2>6, <3>1, <4>2
    <3>2. CASE j >= z
      <4>1. j - (z - 1) \in 1 .. Len(q) - z /\ (j - (z - 1)) + z = j + 1 /\ ~(j <= z - 1) /\ ~(j < z)
        BY <1>1, <3>2
      <4>2. (a \o b)[j] = b[j - (z - 1)]
        BY <2>5, <4>1
      <4>3. b[j - (z - 1)] = q[(j - (z - 1)) + z]
        BY <2>4, <4>1
      <4>. QED  BY <2>6, <4>1, <4>2, <4>3
    <3>3. j < z \/ j >= z
      BY <1>1
    <3>. QED  BY <3>1, <3>2, <3>3, Zenon
  <2>8. a \o b = r
    BY <2>5, <2>6, <2>7, SeqEqual
  <2>. QED  BY <2>2, <2>8 DEF r
<1>4. ASSUME \A z \in 1 .. Len(q) : q[z] # e PROVE AsLists!Without(q, e) = q
  BY <1>2, <1>4 DEF AsLists!Without
<1>. QED  BY <1>3, <1>4

-----------------------------------------------------------------------------
(* The elements of all rings by a given next pointer.                      *)
HeldBy(nx) == [h \in QueueHead |-> Path(nx, nx[h], h)]
Held == HeldBy(next)

(* The inductive invariant: every head has a ring, no element is in two,   *)
(* and a walk stands on a cell of its ring.                                *)
QueuesInv ==
    /\ RingsOf(next, previous, Held)
    /\ list \in QueueHead \cup {NULL}
    /\ list # NULL => \E k \in 1 .. Len(Held[list]) + 1 :
                           current_queue = Node(list, Held[list], k)

LEMMA HeldIs ==
    ASSUME NEW nx, NEW pv, NEW q, RingsOf(nx, pv, q)
    PROVE  HeldBy(nx) = q
<1>1. q \in [QueueHead -> Seq(Element)]
  BY DEF RingsOf
<1>2. \A h \in QueueHead : Path(nx, nx[h], h) = q[h]
  BY ElementsOfRing DEF RingsOf
<1>. QED  BY <1>1, <1>2 DEF HeldBy

LEMMA QueuesInitInv == QueuesInit => QueuesInv /\ AsLists!Init
<1>. SUFFICES ASSUME QueuesInit PROVE QueuesInv /\ AsLists!Init
  OBVIOUS
<1>. DEFINE q == [h \in QueueHead |-> <<>>]
<1>1. /\ next = [c \in Link |-> IF c \in QueueHead THEN c ELSE NULL]
      /\ previous = next /\ list = NULL /\ answer = NULL
  BY DEF QueuesInit
<1>2. RingsOf(next, previous, q)
  <2>1. q \in [QueueHead -> Seq(Element)] /\ \A h \in QueueHead : Len(q[h]) = 0
    OBVIOUS
  <2>2. next \in [Link -> Link \cup {NULL}] /\ previous \in [Link -> Link \cup {NULL}]
    BY <1>1 DEF Link
  <2>3. ASSUME NEW h \in QueueHead PROVE RingOf(next, previous, h, q[h])
    <3>1. q[h] \in Seq(Element) /\ Len(q[h]) = 0
      BY <2>1
    <3>2. \A z \in Int : Node(h, q[h], z) = h
      BY <3>1 DEF Node
    <3>3. next[h] = h /\ previous[h] = h
      BY <1>1 DEF Link
    <3>. HIDE DEF q
    <3>. QED  BY <3>1, <3>2, <3>3 DEF RingOf
  <2>4. Apart(q)
    BY <2>1 DEF Apart
  <2>. HIDE DEF q
  <2>. QED  BY <2>1, <2>2, <2>3, <2>4 DEF RingsOf
<1>3. Held = q
  <2>. HIDE DEF q
  <2>. QED  BY <1>2, HeldIs DEF Held
<1>4. QueuesInv
  BY <1>1, <1>2, <1>3 DEF QueuesInv
<1>5. AsLists!Init
  BY <1>1, <1>3 DEF AsLists!Init, Held, HeldBy, Elements, Walking
<1>. QED  BY <1>4, <1>5

LEMMA RingFacts ==
    ASSUME NEW nx, NEW pv, NEW q, RingsOf(nx, pv, q), NEW h \in QueueHead
    PROVE  /\ q[h] \in Seq(Element) /\ Len(q[h]) \in Nat
           /\ \A z, j \in 1 .. Len(q[h]) : q[h][z] = q[h][j] => z = j
           /\ nx[h] = Node(h, q[h], 1) /\ pv[h] = Node(h, q[h], Len(q[h]))
           /\ \A z \in 1 .. Len(q[h]) : /\ Node(h, q[h], z) = q[h][z] /\ q[h][z] \in Element
                                       /\ nx[q[h][z]] = Node(h, q[h], z + 1)
                                       /\ pv[q[h][z]] = Node(h, q[h], z - 1)
           /\ \A z \in Int : Node(h, q[h], z) \in Link
           /\ Node(h, q[h], 0) = h /\ Node(h, q[h], Len(q[h]) + 1) = h
           /\ \A z, j \in 0 .. Len(q[h]) : Node(h, q[h], z) = Node(h, q[h], j) => z = j
           /\ \A z, j \in 1 .. Len(q[h]) + 1 : Node(h, q[h], z) = Node(h, q[h], j) => z = j
<1>. DEFINE old == q[h]
            n == Len(old)
<1>1. /\ old \in Seq(Element) /\ n \in Nat
      /\ \A z, j \in 1 .. n : old[z] = old[j] => z = j
      /\ \A z \in 0 .. n : /\ nx[Node(h, old, z)] = Node(h, old, z + 1)
                         /\ pv[Node(h, old, z + 1)] = Node(h, old, z)
  BY DEF RingsOf, RingOf
<1>. HIDE DEF old
<1>2. /\ \A z \in Int : Node(h, old, z) \in Link
      /\ Node(h, old, 0) = h /\ Node(h, old, n + 1) = h
      /\ \A z \in 1 .. n : Node(h, old, z) = old[z] /\ Node(h, old, z) \in Element
      /\ \A z, j \in 0 .. n : Node(h, old, z) = Node(h, old, j) => z = j
      /\ \A z, j \in 1 .. n + 1 : Node(h, old, z) = Node(h, old, j) => z = j
  BY <1>1, NodeIs, ZenonT(40)
<1>. HIDE DEF n
<1>3. nx[h] = Node(h, old, 1) /\ pv[h] = Node(h, old, n)
  <2>1. 0 \in 0 .. n /\ n \in 0 .. n /\ 0 + 1 = 1
    BY <1>1
  <2>. QED  BY <1>1, <1>2, <2>1
<1>4. ASSUME NEW z \in 1 .. n
      PROVE  nx[old[z]] = Node(h, old, z + 1) /\ pv[old[z]] = Node(h, old, z - 1)
  <2>1. z \in 0 .. n /\ z - 1 \in 0 .. n /\ (z - 1) + 1 = z
    BY <1>1
  <2>. QED  BY <1>1, <1>2, <2>1
<1>. QED  BY <1>1, <1>2, <1>3, <1>4 DEF old, n

LEMMA LooseIs ==
    ASSUME NEW e, QueuesInv
    PROVE  InNoList(e) <=> \A h \in QueueHead : \A z \in 1 .. Len(Held[h]) : Held[h][z] # e
<1>1. \A h \in QueueHead : Elements(h) = Held[h] /\ Held[h] \in Seq(Element)
  BY DEF Held, HeldBy, Elements, QueuesInv, RingsOf
<1>2. ASSUME NEW h \in QueueHead
      PROVE  e \in ToSet(Elements(h)) <=> \E z \in 1 .. Len(Held[h]) : Held[h][z] = e
  <2>1. DOMAIN Held[h] = 1 .. Len(Held[h])
    BY <1>1
  <2>. QED  BY <1>1, <2>1 DEF ToSet
<1>. QED  BY <1>2 DEF InNoList, queue_contains_element

LEMMA StepTo ==
    ASSUME NEW q, RingsOf(next', previous', q), list' = NULL
    PROVE  QueuesInv' /\ Held' = q
<1>1. Held' = q
  BY HeldIs DEF Held
<1>. QED  BY <1>1 DEF QueuesInv

(* Unlinking the z-th element of a ring.                                   *)
LEMMA UnlinkAt ==
    ASSUME QueuesInv, NEW h \in QueueHead, NEW z \in 1 .. Len(Held[h]),
           Unlink(Held[h][z])
    PROVE  RingsOf(next', previous', [Held EXCEPT ![h] = Removed(@, z)])
<1>. DEFINE q == Held
            e == q[h][z]
<1>1. RingsOf(next, previous, q)
  BY DEF QueuesInv
<1>2. /\ next[e] = Node(h, q[h], z + 1) /\ previous[e] = Node(h, q[h], z - 1)
      /\ Node(h, q[h], z + 1) \in Link /\ Node(h, q[h], z - 1) \in Link
  BY <1>1, RingFacts
<1>3. /\ next \in [Link -> Link \cup {NULL}] /\ previous \in [Link -> Link \cup {NULL}]
  BY <1>1 DEF RingsOf
<1>4. /\ next' = [next EXCEPT ![Node(h, q[h], z - 1)] = Node(h, q[h], z + 1)]
      /\ previous' = [previous EXCEPT ![Node(h, q[h], z + 1)] = Node(h, q[h], z - 1)]
  BY <1>2 DEF Unlink
<1>. HIDE DEF q
<1>5. /\ next' \in [Link -> Link \cup {NULL}] /\ previous' \in [Link -> Link \cup {NULL}]
      /\ \A c \in Link :
            /\ next'[c] = IF c = Node(h, q[h], z - 1) THEN Node(h, q[h], z + 1) ELSE next[c]
            /\ previous'[c] = IF c = Node(h, q[h], z + 1) THEN Node(h, q[h], z - 1) ELSE previous[c]
  BY <1>2, <1>3, <1>4
<1>6. z \in 1 .. Len(q[h])
  BY DEF q
<1>7. RingsOf(next', previous', [q EXCEPT ![h] = Removed(@, z)])
  BY <1>1, <1>5, <1>6, SpliceOut
<1>. QED  BY <1>7 DEF q

(* The sequences of the other heads hold no element of h's.                *)
LEMMA WithoutHeld ==
    ASSUME NEW nx, NEW pv, NEW q, RingsOf(nx, pv, q), NEW h \in QueueHead, NEW z \in 1 .. Len(q[h])
    PROVE  [g \in QueueHead |-> AsLists!Without(q[g], q[h][z])] = [q EXCEPT ![h] = Removed(@, z)]
<1>1. q \in [QueueHead -> Seq(Element)]
  BY DEF RingsOf
<1>2. AsLists!Without(q[h], q[h][z]) = Removed(q[h], z)
  <2>1. q[h] \in Seq(Element) /\ \A k, j \in 1 .. Len(q[h]) : q[h][k] = q[h][j] => k = j
    BY DEF RingsOf, RingOf
  <2>2. \A k \in 1 .. Len(q[h]) : q[h][k] = q[h][z] => AsLists!Without(q[h], q[h][z]) = Removed(q[h], k)
    BY <2>1, WithoutIs
  <2>. QED  BY <2>2
<1>3. ASSUME NEW g \in QueueHead, g # h PROVE AsLists!Without(q[g], q[h][z]) = q[g]
  <2>1. \A k \in 1 .. Len(q[g]) : q[g][k] # q[h][z]
    BY <1>3 DEF RingsOf, Apart
  <2>2. q[g] \in Seq(Element) /\ \A k, j \in 1 .. Len(q[g]) : q[g][k] = q[g][j] => k = j
    BY DEF RingsOf, RingOf
  <2>. QED  BY <2>1, <2>2, WithoutIs
<1>. QED  BY <1>1, <1>2, <1>3

-----------------------------------------------------------------------------
(* Every call, one by one.                                                 *)

LEMMA NotWalking ==
    ASSUME QueuesInv, ~Walking
    PROVE  /\ list = NULL
           /\ RingsOf(next, previous, Held)
           /\ next \in [Link -> Link \cup {NULL}] /\ previous \in [Link -> Link \cup {NULL}]
BY DEF QueuesInv, Walking, RingsOf

LEMMA ResetStep ==
    ASSUME QueuesInv, NEW c \in Element, reset_queue(c)
    PROVE  QueuesInv' /\ AsLists!Next
<1>1. /\ ~Walking /\ list' = NULL /\ answer' = NULL
      /\ next' = [next EXCEPT ![c] = c] /\ previous' = [previous EXCEPT ![c] = c]
      /\ \A h \in QueueHead : \A z \in 1 .. Len(Held[h]) : Held[h][z] # c
  BY LooseIs, NotWalking DEF reset_queue, Return
<1>2. RingsOf(next', previous', Held)
  <2>. DEFINE q == Held
  <2>1. RingsOf(next, previous, q) /\ \A h \in QueueHead : \A z \in 1 .. Len(q[h]) : q[h][z] # c
    BY <1>1, NotWalking
  <2>. HIDE DEF q
  <2>2. next' \in [Link -> Link \cup {NULL}] /\ previous' \in [Link -> Link \cup {NULL}]
    BY <1>1, NotWalking DEF Link
  <2>3. ASSUME NEW h \in QueueHead PROVE RingOf(next', previous', h, q[h])
    <3>1. \A z \in Int : Node(h, q[h], z) # c /\ Node(h, q[h], z) \in Link
      <4>1. \A z \in Int : Node(h, q[h], z) \in Link
        BY <2>1, RingFacts
      <4>. QED  BY <2>1, <4>1, LinksAssumption DEF Node
    <3>2. \A z \in 0 .. Len(q[h]) : /\ next'[Node(h, q[h], z)] = next[Node(h, q[h], z)]
                                  /\ previous'[Node(h, q[h], z + 1)] = previous[Node(h, q[h], z + 1)]
      <4>1. \A l \in Link : l # c => next'[l] = next[l] /\ previous'[l] = previous[l]
        BY <1>1, NotWalking
      <4>. QED  BY <3>1, <4>1
    <3>3. RingOf(next, previous, h, q[h])
      BY <2>1 DEF RingsOf
    <3>. QED  BY <3>2, <3>3 DEF RingOf
  <2>4. RingsOf(next', previous', q)
    BY <2>1, <2>2, <2>3 DEF RingsOf
  <2>. QED  BY <2>4 DEF q
<1>3. QueuesInv' /\ Held' = Held
  BY <1>1, <1>2, StepTo
<1>4. [h \in QueueHead |-> AsLists!Without(Held[h], c)] = Held
  <2>1. \A h \in QueueHead : AsLists!Without(Held[h], c) = Held[h]
    <3>1. ASSUME NEW h \in QueueHead PROVE AsLists!Without(Held[h], c) = Held[h]
      <4>1. Held[h] \in Seq(Element) /\ \A z, j \in 1 .. Len(Held[h]) : Held[h][z] = Held[h][j] => z = j
        BY <1>1, NotWalking, RingFacts
      <4>. QED  BY <1>1, <4>1, WithoutIs
    <3>. QED  BY <3>1
  <2>2. Held \in [QueueHead -> Seq(Element)]
    BY NotWalking, <1>1 DEF RingsOf
  <2>. QED  BY <2>1, <2>2
<1>5. ~Walking' /\ ~Walking
  BY <1>1 DEF Walking
<1>6. AsLists!Remove(c)
  BY <1>1, <1>3, <1>4 DEF AsLists!Remove, Held, HeldBy, Elements
<1>. QED  BY <1>3, <1>5, <1>6 DEF AsLists!Next

LEMMA InsertAfterStep ==
    ASSUME QueuesInv, NEW h \in QueueHead, NEW e \in Element, queue_insert_after(h, e)
    PROVE  QueuesInv' /\ AsLists!Next
<1>. DEFINE q == Held
<1>1. /\ ~Walking /\ list' = NULL /\ answer' = NULL
      /\ next' = [next EXCEPT ![e] = next[h], ![h] = e]
      /\ previous' = [previous EXCEPT ![e] = h, ![next[h]] = e]
      /\ \A g \in QueueHead : \A z \in 1 .. Len(q[g]) : q[g][z] # e
  BY LooseIs, NotWalking DEF queue_insert_after, Return
<1>2. /\ RingsOf(next, previous, q)
      /\ next \in [Link -> Link \cup {NULL}] /\ previous \in [Link -> Link \cup {NULL}]
  BY <1>1, NotWalking
<1>. HIDE DEF q
<1>3. /\ next[h] = Node(h, q[h], 1) /\ h = Node(h, q[h], 0)
      /\ Node(h, q[h], 1) \in Link /\ h \in Link /\ e \in Link
      /\ Node(h, q[h], 1) # e /\ h # e
      /\ q[h] \in Seq(Element) /\ Len(q[h]) \in Nat /\ 0 \in 0 .. Len(q[h])
  <2>1. Node(h, q[h], 1) # e /\ h # e
    BY <1>1, LinksAssumption DEF Node
  <2>. QED  BY <1>2, <2>1, RingFacts DEF Link
<1>4. next' \in [Link -> Link \cup {NULL}] /\ previous' \in [Link -> Link \cup {NULL}]
  BY <1>1, <1>2, <1>3
<1>5. RingsOf(next', previous', [q EXCEPT ![h] = Inserted(@, 0, e)])
  <2>1. ASSUME NEW z, z = 0
        PROVE  RingsOf(next', previous', [q EXCEPT ![h] = Inserted(@, z, e)])
    <3>1. /\ z \in 0 .. Len(q[h])
          /\ Node(h, q[h], z + 1) = next[h] /\ Node(h, q[h], z) = h
      BY <1>3, <2>1
    <3>2. Spliced(next, previous, q, h, z, e, next', previous')
      BY <1>1, <1>2, <1>3, <3>1 DEF Spliced
    <3>3. z \in 0 .. Len(q[h]) /\ IsLoose(q, e)
      BY <1>1, <3>1 DEF IsLoose
    <3>. QED  BY <1>2, <1>4, <3>2, <3>3, SpliceIn
  <2>. QED  BY <2>1
<1>6. QueuesInv' /\ Held' = [q EXCEPT ![h] = <<e>> \o @]
  BY <1>1, <1>3, <1>5, FirstIsAt, StepTo
<1>7. ~Walking' /\ ~Walking
  BY <1>1 DEF Walking
<1>8. ~AsLists!Linked(e)
  BY <1>1, <1>2 DEF AsLists!Linked, AsLists!Range, q, Held, HeldBy, Elements, RingsOf
<1>9. AsLists!InsertFirst(h, e)
  BY <1>1, <1>6, <1>7, <1>8 DEF AsLists!InsertFirst, q, Held, HeldBy, Elements
<1>. QED  BY <1>6, <1>9 DEF AsLists!Next

LEMMA InsertBeforeStep ==
    ASSUME QueuesInv, NEW h \in QueueHead, NEW e \in Element, queue_insert_before(h, e)
    PROVE  QueuesInv' /\ AsLists!Next
<1>. DEFINE q == Held
            n == Len(q[h])
<1>1. /\ ~Walking /\ list' = NULL /\ answer' = NULL
      /\ next' = [next EXCEPT ![e] = h, ![previous[h]] = e]
      /\ previous' = [previous EXCEPT ![e] = previous[h], ![h] = e]
      /\ \A g \in QueueHead : \A z \in 1 .. Len(q[g]) : q[g][z] # e
  BY LooseIs, NotWalking DEF queue_insert_before, Return
<1>2. /\ RingsOf(next, previous, q)
      /\ next \in [Link -> Link \cup {NULL}] /\ previous \in [Link -> Link \cup {NULL}]
  BY <1>1, NotWalking
<1>. HIDE DEF q
<1>3. /\ previous[h] = Node(h, q[h], n) /\ h = Node(h, q[h], n + 1)
      /\ Node(h, q[h], n) \in Link /\ h \in Link /\ e \in Link
      /\ Node(h, q[h], n) # e /\ h # e
      /\ q[h] \in Seq(Element) /\ n \in Nat /\ n \in 0 .. n
  <2>1. Node(h, q[h], n) # e /\ h # e
    BY <1>1, LinksAssumption DEF Node
  <2>. QED  BY <1>2, <2>1, RingFacts DEF Link
<1>4. /\ next' \in [Link -> Link \cup {NULL}] /\ previous' \in [Link -> Link \cup {NULL}]
      /\ Spliced(next, previous, q, h, n, e, next', previous')
  <2>. HIDE DEF n
  <2>. QED  BY <1>1, <1>2, <1>3 DEF Spliced
<1>5. RingsOf(next', previous', [q EXCEPT ![h] = Inserted(@, n, e)])
  <2>1. n \in 0 .. Len(q[h]) /\ IsLoose(q, e)
    BY <1>1, <1>3 DEF IsLoose
  <2>. HIDE DEF n
  <2>. QED  BY <1>2, <1>4, <2>1, SpliceIn
<1>6. QueuesInv' /\ Held' = [q EXCEPT ![h] = Append(@, e)]
  BY <1>1, <1>3, <1>5, LastIsAt, StepTo
<1>7. ~Walking' /\ ~Walking
  BY <1>1 DEF Walking
<1>8. ~AsLists!Linked(e)
  BY <1>1, <1>2 DEF AsLists!Linked, AsLists!Range, q, Held, HeldBy, Elements, RingsOf
<1>9. AsLists!Insert(h, e)
  BY <1>1, <1>6, <1>7, <1>8 DEF AsLists!Insert, AsLists!InsertLast, q, Held, HeldBy, Elements
<1>. QED  BY <1>6, <1>9 DEF AsLists!Next

LEMMA RemoveNextStep ==
    ASSUME QueuesInv, NEW h \in QueueHead, queue_remove_next(h)
    PROVE  QueuesInv' /\ AsLists!Next
<1>. DEFINE q == Held
            n == Len(q[h])
<1>1. /\ ~Walking /\ list' = NULL
      /\ RingsOf(next, previous, q)
      /\ next \in [Link -> Link \cup {NULL}] /\ previous \in [Link -> Link \cup {NULL}]
  BY NotWalking DEF queue_remove_next, Return
<1>2. ~Walking' /\ ~Walking
  BY <1>1 DEF Walking
<1>. HIDE DEF q
<1>3. /\ next[h] = Node(h, q[h], 1) /\ q[h] \in Seq(Element) /\ n \in Nat
      /\ Node(h, q[h], 0) = h /\ Node(h, q[h], n + 1) = h /\ h \in Link
      /\ \A z \in 1 .. n : Node(h, q[h], z) = q[h][z] /\ q[h][z] \in Element
      /\ \A z \in 1 .. n : next[q[h][z]] = Node(h, q[h], z + 1)
      /\ \A z \in Int : Node(h, q[h], z) \in Link
  <2>1. h \in Link
    BY DEF Link
  <2>2. /\ next[h] = Node(h, q[h], 1) /\ q[h] \in Seq(Element) /\ n \in Nat
        /\ Node(h, q[h], 0) = h /\ Node(h, q[h], n + 1) = h
    BY <1>1, RingFacts
  <2>3. \A z \in 1 .. n : /\ Node(h, q[h], z) = q[h][z] /\ q[h][z] \in Element
                          /\ next[q[h][z]] = Node(h, q[h], z + 1)
    BY <1>1, RingFacts
  <2>4. \A z \in Int : Node(h, q[h], z) \in Link
    BY <1>1, RingFacts
  <2>. QED  BY <2>1, <2>2, <2>3, <2>4
<1>4. next[h] = h <=> q[h] = <<>>
  <2>1. CASE n = 0
    <3>1. q[h] = <<>>
      BY <1>3, <2>1, EmptySeq
    <3>. QED  BY <1>3, <2>1, <3>1
  <2>2. CASE n > 0
    <3>1. 1 \in 1 .. n
      BY <1>3, <2>2
    <3>2. next[h] \in Element /\ q[h] # <<>>
      BY <1>3, <3>1
    <3>. QED  BY <3>2, LinksAssumption
  <2>. QED  BY <1>3, <2>1, <2>2
<1>5. CASE next[h] = h
  <2>1. UNCHANGED <<next, previous>> /\ answer' = NULL
    BY <1>5 DEF queue_remove_next, Return
  <2>2. QueuesInv' /\ Held' = q
    BY <1>1, <2>1, StepTo
  <2>3. AsLists!RemoveNone(h)
    BY <1>2, <1>4, <1>5, <2>1, <2>2 DEF AsLists!RemoveNone, q, Held, HeldBy, Elements
  <2>. QED  BY <2>2, <2>3 DEF AsLists!Next
<1>6. CASE next[h] # h
  <2>0. n >= 1 /\ Tail(q[h]) = Removed(q[h], 1)
    BY <1>3, <1>4, <1>6, TailIsWithout
  <2>1. /\ next[h] = q[h][1] /\ answer' = q[h][1]
        /\ next[next[h]] = Node(h, q[h], 2) /\ Node(h, q[h], 2) \in Link
        /\ previous' = [previous EXCEPT ![Node(h, q[h], 2)] = h]
        /\ next' = [next EXCEPT ![h] = Node(h, q[h], 2)]
    <3>1. 1 \in 1 .. n /\ 1 + 1 = 2
      BY <1>3, <2>0
    <3>2. next[h] = q[h][1] /\ next[q[h][1]] = Node(h, q[h], 1 + 1) /\ Node(h, q[h], 2) \in Link
      BY <1>3, <3>1
    <3>. QED  BY <1>6, <3>1, <3>2 DEF queue_remove_next, Return
  <2>2. next' \in [Link -> Link \cup {NULL}] /\ previous' \in [Link -> Link \cup {NULL}]
    BY <1>1, <1>3, <2>1
  <2>3. RingsOf(next', previous', [q EXCEPT ![h] = Removed(@, 1)])
    <3>1. ASSUME NEW z, z = 1
          PROVE  RingsOf(next', previous', [q EXCEPT ![h] = Removed(@, z)])
      <4>1. /\ z \in 1 .. Len(q[h])
            /\ Node(h, q[h], z + 1) = next[next[h]] /\ Node(h, q[h], z - 1) = h
        BY <1>3, <2>0, <2>1, <3>1
      <4>2. \A c \in Link :
               /\ next'[c] = IF c = Node(h, q[h], z - 1) THEN Node(h, q[h], z + 1) ELSE next[c]
               /\ previous'[c] = IF c = Node(h, q[h], z + 1) THEN Node(h, q[h], z - 1) ELSE previous[c]
        BY <1>1, <1>3, <2>1, <4>1
      <4>. QED  BY <1>1, <2>2, <4>1, <4>2, SpliceOut
    <3>. QED  BY <3>1
  <2>4. QueuesInv' /\ Held' = [q EXCEPT ![h] = Tail(@)]
    BY <1>1, <2>0, <2>3, StepTo
  <2>5. AsLists!RemoveFirst(h)
    BY <1>2, <1>4, <1>6, <2>1, <2>4 DEF AsLists!RemoveFirst, q, Held, HeldBy, Elements
  <2>. QED  BY <2>4, <2>5 DEF AsLists!Next
<1>. QED  BY <1>5, <1>6

LEMMA RemovePreviousStep ==
    ASSUME QueuesInv, NEW h \in QueueHead, queue_remove_previous(h)
    PROVE  QueuesInv' /\ AsLists!Next
<1>. DEFINE q == Held
            n == Len(q[h])
<1>1. /\ ~Walking /\ list' = NULL
      /\ RingsOf(next, previous, q)
      /\ next \in [Link -> Link \cup {NULL}] /\ previous \in [Link -> Link \cup {NULL}]
  BY NotWalking DEF queue_remove_previous, Return
<1>2. ~Walking' /\ ~Walking
  BY <1>1 DEF Walking
<1>. HIDE DEF q
<1>3. /\ previous[h] = Node(h, q[h], n) /\ q[h] \in Seq(Element) /\ n \in Nat
      /\ Node(h, q[h], 0) = h /\ Node(h, q[h], n + 1) = h /\ h \in Link
      /\ \A z \in 1 .. n : Node(h, q[h], z) = q[h][z] /\ q[h][z] \in Element
      /\ \A z \in 1 .. n : previous[q[h][z]] = Node(h, q[h], z - 1)
      /\ \A z \in Int : Node(h, q[h], z) \in Link
  <2>1. h \in Link
    BY DEF Link
  <2>2. /\ previous[h] = Node(h, q[h], n) /\ q[h] \in Seq(Element) /\ n \in Nat
        /\ Node(h, q[h], 0) = h /\ Node(h, q[h], n + 1) = h
    BY <1>1, RingFacts
  <2>3. \A z \in 1 .. n : /\ Node(h, q[h], z) = q[h][z] /\ q[h][z] \in Element
                          /\ previous[q[h][z]] = Node(h, q[h], z - 1)
    BY <1>1, RingFacts
  <2>4. \A z \in Int : Node(h, q[h], z) \in Link
    BY <1>1, RingFacts
  <2>. QED  BY <2>1, <2>2, <2>3, <2>4
<1>4. previous[h] = h <=> q[h] = <<>>
  <2>1. CASE n = 0
    <3>1. q[h] = <<>>
      BY <1>3, <2>1, EmptySeq
    <3>. QED  BY <1>3, <2>1, <3>1
  <2>2. CASE n > 0
    <3>1. n \in 1 .. n
      BY <1>3, <2>2
    <3>2. previous[h] \in Element /\ q[h] # <<>>
      BY <1>3, <3>1
    <3>. QED  BY <3>2, LinksAssumption
  <2>. QED  BY <1>3, <2>1, <2>2
<1>5. CASE previous[h] = h
  <2>1. UNCHANGED <<next, previous>> /\ answer' = NULL
    BY <1>5 DEF queue_remove_previous, Return
  <2>2. QueuesInv' /\ Held' = q
    BY <1>1, <2>1, StepTo
  <2>3. AsLists!RemoveNone(h)
    BY <1>2, <1>4, <1>5, <2>1, <2>2 DEF AsLists!RemoveNone, q, Held, HeldBy, Elements
  <2>. QED  BY <2>2, <2>3 DEF AsLists!Next
<1>6. CASE previous[h] # h
  <2>0. n >= 1 /\ SubSeq(q[h], 1, n - 1) = Removed(q[h], n)
    BY <1>3, <1>4, <1>6, FrontIsWithout
  <2>1. /\ previous[h] = q[h][n] /\ answer' = q[h][n]
        /\ previous[previous[h]] = Node(h, q[h], n - 1) /\ Node(h, q[h], n - 1) \in Link
        /\ next' = [next EXCEPT ![Node(h, q[h], n - 1)] = h]
        /\ previous' = [previous EXCEPT ![h] = Node(h, q[h], n - 1)]
    <3>1. n \in 1 .. n
      BY <1>3, <2>0
    <3>2. previous[h] = q[h][n] /\ previous[q[h][n]] = Node(h, q[h], n - 1) /\ Node(h, q[h], n - 1) \in Link
      BY <1>3, <3>1
    <3>. QED  BY <1>6, <3>1, <3>2 DEF queue_remove_previous, Return
  <2>2. next' \in [Link -> Link \cup {NULL}] /\ previous' \in [Link -> Link \cup {NULL}]
    BY <1>1, <1>3, <2>1
  <2>3. RingsOf(next', previous', [q EXCEPT ![h] = Removed(@, n)])
    <3>1. n \in 1 .. Len(q[h])
      BY <1>3, <2>0
    <3>2. \A c \in Link :
             /\ next'[c] = IF c = Node(h, q[h], n - 1) THEN Node(h, q[h], n + 1) ELSE next[c]
             /\ previous'[c] = IF c = Node(h, q[h], n + 1) THEN Node(h, q[h], n - 1) ELSE previous[c]
      BY <1>1, <1>3, <2>1
    <3>. QED  BY <1>1, <2>2, <3>1, <3>2, SpliceOut
  <2>4. QueuesInv' /\ Held' = [q EXCEPT ![h] = SubSeq(@, 1, Len(@) - 1)]
    BY <1>1, <2>0, <2>3, StepTo
  <2>5. AsLists!RemoveLast(h)
    BY <1>2, <1>4, <1>6, <2>1, <2>4 DEF AsLists!RemoveLast, q, Held, HeldBy, Elements
  <2>. QED  BY <2>4, <2>5 DEF AsLists!Next
<1>. QED  BY <1>5, <1>6

LEMMA RemoveElementStep ==
    ASSUME QueuesInv, NEW e \in Element, queue_remove_element(e)
    PROVE  QueuesInv' /\ AsLists!Next
<1>. DEFINE q == Held
<1>1. /\ ~Walking /\ list' = NULL /\ answer' = NULL
      /\ RingsOf(next, previous, q)
      /\ next \in [Link -> Link \cup {NULL}] /\ previous \in [Link -> Link \cup {NULL}]
      /\ Unlink(e)
      /\ ~InNoList(e) \/ is_queue_empty(e)
  BY NotWalking DEF queue_remove_element, Return
<1>2. ~Walking' /\ ~Walking
  BY <1>1 DEF Walking
<1>3. CASE InNoList(e)
  <2>1. \A h \in QueueHead : \A z \in 1 .. Len(q[h]) : q[h][z] # e
    BY <1>3, LooseIs
  <2>2. next' = next /\ previous' = previous
    <3>1. next[e] = e /\ previous[e] = e
      BY <1>1, <1>3 DEF is_queue_empty
    <3>. QED  BY <1>1, <3>1 DEF Unlink, Link
  <2>3. QueuesInv' /\ Held' = q
    BY <1>1, <2>2, StepTo
  <2>4. [h \in QueueHead |-> AsLists!Without(q[h], e)] = q
    <3>. HIDE DEF q
    <3>1. ASSUME NEW h \in QueueHead PROVE AsLists!Without(q[h], e) = q[h]
      <4>1. q[h] \in Seq(Element) /\ \A z, j \in 1 .. Len(q[h]) : q[h][z] = q[h][j] => z = j
        BY <1>1, RingFacts
      <4>. QED  BY <2>1, <4>1, WithoutIs
    <3>2. q \in [QueueHead -> Seq(Element)]
      BY <1>1 DEF RingsOf
    <3>. QED  BY <3>1, <3>2
  <2>5. AsLists!Remove(e)
    BY <1>1, <2>3, <2>4 DEF AsLists!Remove, Held, HeldBy, Elements
  <2>. QED  BY <1>2, <2>3, <2>5 DEF AsLists!Next
<1>4. CASE ~InNoList(e)
  <2>0. PICK h \in QueueHead : \E z \in 1 .. Len(q[h]) : q[h][z] = e
    BY <1>4, LooseIs
  <2>1. PICK z \in 1 .. Len(q[h]) : q[h][z] = e
    BY <2>0
  <2>2. RingsOf(next', previous', [q EXCEPT ![h] = Removed(@, z)])
    BY <1>1, <2>1, UnlinkAt
  <2>3. QueuesInv' /\ Held' = [q EXCEPT ![h] = Removed(@, z)]
    BY <1>1, <2>2, StepTo
  <2>4. [g \in QueueHead |-> AsLists!Without(q[g], e)] = [q EXCEPT ![h] = Removed(@, z)]
    <3>. HIDE DEF q
    <3>. QED  BY <1>1, <2>1, WithoutHeld
  <2>5. AsLists!Remove(e)
    BY <1>1, <2>3, <2>4 DEF AsLists!Remove, Held, HeldBy, Elements
  <2>. QED  BY <1>2, <2>3, <2>5 DEF AsLists!Next
<1>. QED  BY <1>3, <1>4

-----------------------------------------------------------------------------
(* The walk                                                                *)

LEMMA TodoIs ==
    ASSUME NEW nx, NEW pv, NEW q, RingsOf(nx, pv, q), NEW h \in QueueHead,
           NEW k \in 1 .. Len(q[h]) + 1
    PROVE  /\ Path(nx, Node(h, q[h], k), h) = SubSeq(q[h], k, Len(q[h]))
           /\ Len(SubSeq(q[h], k, Len(q[h]))) = Len(q[h]) + 1 - k
<1>1. RingOf(nx, pv, h, q[h]) /\ q[h] \in Seq(Element) /\ Len(q[h]) \in Nat
  BY DEF RingsOf
<1>2. Path(nx, Node(h, q[h], k), h) = SubSeq(q[h], k, Len(q[h]))
  BY <1>1, PathInRing
<1>3. Len(SubSeq(q[h], k, Len(q[h]))) = Len(q[h]) - k + 1
  <2>1. Len(q[h]) \in k - 1 .. Len(q[h])
    BY <1>1
  <2>. QED  BY <1>1, <2>1, SliceIs
<1>. QED  BY <1>1, <1>2, <1>3

LEMMA WalkBeginStep ==
    ASSUME QueuesInv, NEW h \in QueueHead, WalkBegin(h)
    PROVE  QueuesInv' /\ AsLists!Next
<1>. DEFINE q == Held
<1>1. /\ ~Walking /\ list' = h /\ answer' = NULL /\ current_queue' = next[h]
      /\ RingsOf(next, previous, q) /\ next' = next /\ previous' = previous
  BY NotWalking DEF WalkBegin
<1>2. Held' = q
  BY <1>1 DEF Held
<1>. HIDE DEF q
<1>3. /\ current_queue' = Node(h, q[h], 1) /\ 1 \in 1 .. Len(q[h]) + 1
      /\ h # NULL /\ q[h] \in Seq(Element)
  BY <1>1, RingFacts, LinksAssumption
<1>4. QueuesInv'
  BY <1>1, <1>2, <1>3 DEF QueuesInv
<1>5. Walking' /\ Path(next', current_queue', list') = q[h]
  BY <1>1, <1>2, <1>3 DEF Walking, HeldBy, Held, q
<1>6. AsLists!WalkBegin(h)
  BY <1>1, <1>2, <1>5 DEF AsLists!WalkBegin, q, Held, HeldBy, Elements
<1>. QED  BY <1>4, <1>6 DEF AsLists!Next

LEMMA WalkEndStep ==
    ASSUME QueuesInv, WalkEnd
    PROVE  QueuesInv' /\ UNCHANGED AsLists!vars
<1>. DEFINE q == Held
            h == list
<1>1. /\ Walking /\ current_queue = h /\ list' = NULL
      /\ next' = next /\ previous' = previous /\ answer' = answer
      /\ RingsOf(next, previous, q) /\ h \in QueueHead
  BY DEF WalkEnd, QueuesInv, Walking
<1>2. QueuesInv' /\ Held' = q
  BY <1>1, StepTo
<1>3. PICK k \in 1 .. Len(q[h]) + 1 : current_queue = Node(h, q[h], k)
  BY <1>1 DEF QueuesInv, Walking
<1>. HIDE DEF q, h
<1>4. k = Len(q[h]) + 1
  <2>1. /\ Len(q[h]) \in Nat /\ Node(h, q[h], Len(q[h]) + 1) = h
        /\ \A z, j \in 1 .. Len(q[h]) + 1 : Node(h, q[h], z) = Node(h, q[h], j) => z = j
    BY <1>1, RingFacts
  <2>. QED  BY <1>1, <1>3, <2>1
<1>5. Path(next, current_queue, h) = <<>>
  <2>1. /\ Path(next, Node(h, q[h], k), h) = SubSeq(q[h], k, Len(q[h]))
        /\ Len(SubSeq(q[h], k, Len(q[h]))) = Len(q[h]) + 1 - k
    BY <1>1, TodoIs
  <2>2. SubSeq(q[h], k, Len(q[h])) = <<>>
    BY <1>1, <1>4, SubSeqEmpty DEF RingsOf
  <2>. QED  BY <1>3, <2>1, <2>2
<1>. QED  BY <1>1, <1>2, <1>5 DEF AsLists!vars, Walking, q, h, Held, HeldBy, Elements

LEMMA TailOfSlice ==
    ASSUME NEW q \in Seq(Element), NEW k \in 1 .. Len(q)
    PROVE  /\ SubSeq(q, k, Len(q)) # <<>>
           /\ SubSeq(q, k, Len(q))[1] = q[k]
           /\ Tail(SubSeq(q, k, Len(q))) = SubSeq(q, k + 1, Len(q))
           /\ Tail(SubSeq(q, k, Len(q))) = SubSeq(Removed(q, k), k, Len(q) - 1)
<1>. DEFINE n == Len(q)
            s == SubSeq(q, k, n)
            t == SubSeq(q, k + 1, n)
            r == Removed(q, k)
            u == SubSeq(r, k, n - 1)
<1>1. n \in Nat /\ k \in 1 .. n
  OBVIOUS
<1>2. /\ s \in Seq(Element) /\ Len(s) = n - k + 1
      /\ \A z \in 1 .. n - k + 1 : s[z] = q[z + (k - 1)]
  <2>1. k \in 1 .. n + 1 /\ n \in k - 1 .. n
    BY <1>1
  <2>. QED  BY <2>1, SliceIs
<1>3. /\ t \in Seq(Element) /\ Len(t) = n - k
      /\ \A z \in 1 .. n - k : t[z] = q[z + k]
  <2>1. k + 1 \in 1 .. n + 1 /\ n \in (k + 1) - 1 .. n
    BY <1>1
  <2>2. /\ t \in Seq(Element) /\ Len(t) = n - (k + 1) + 1
        /\ \A z \in 1 .. n - (k + 1) + 1 : t[z] = q[z + ((k + 1) - 1)]
    BY <2>1, SliceIs
  <2>3. n - (k + 1) + 1 = n - k /\ (k + 1) - 1 = k
    BY <1>1
  <2>. QED  BY <2>2, <2>3
<1>4. /\ r \in Seq(Element) /\ Len(r) = n - 1
      /\ \A z \in 1 .. n - 1 : r[z] = IF z < k THEN q[z] ELSE q[z + 1]
  BY <1>1, RemovedIs
<1>. HIDE DEF r, s, t, n
<1>5. /\ u \in Seq(Element) /\ Len(u) = n - k
      /\ \A z \in 1 .. n - k : u[z] = r[z + (k - 1)]
  <2>1. k \in 1 .. Len(r) + 1 /\ n - 1 \in k - 1 .. Len(r)
    BY <1>1, <1>4
  <2>2. /\ u \in Seq(Element) /\ Len(u) = (n - 1) - k + 1
        /\ \A z \in 1 .. (n - 1) - k + 1 : u[z] = r[z + (k - 1)]
    BY <1>4, <2>1, SliceIs
  <2>3. (n - 1) - k + 1 = n - k
    BY <1>1
  <2>. QED  BY <2>2, <2>3
<1>. HIDE DEF u
<1>6. s # <<>> /\ s[1] = q[k]
  BY <1>1, <1>2
<1>7. /\ Tail(s) \in Seq(Element) /\ Len(Tail(s)) = n - k
      /\ \A z \in 1 .. n - k : Tail(s)[z] = s[z + 1]
  BY <1>1, <1>2, <1>6
<1>8. ASSUME NEW z \in 1 .. n - k PROVE Tail(s)[z] = t[z] /\ Tail(s)[z] = u[z]
  <2>1. z + 1 \in 1 .. n - k + 1 /\ (z + 1) + (k - 1) = z + k
    BY <1>1
  <2>2. z + (k - 1) \in 1 .. n - 1 /\ ~(z + (k - 1) < k) /\ (z + (k - 1)) + 1 = z + k
    BY <1>1
  <2>3. Tail(s)[z] = q[z + k]
    BY <1>2, <1>7, <2>1
  <2>4. u[z] = q[z + k]
    BY <1>4, <1>5, <2>2
  <2>. QED  BY <1>3, <2>3, <2>4
<1>9. Tail(s) = t
  BY <1>3, <1>7, <1>8, SeqEqual
<1>10. Tail(s) = u
  BY <1>5, <1>7, <1>8, SeqEqual
<1>. QED  BY <1>6, <1>9, <1>10 DEF n, s, t, u, r

LEMMA WalkStepStep ==
    ASSUME QueuesInv, WalkStep
    PROVE  QueuesInv' /\ AsLists!Next
<1>. DEFINE q == Held
            h == list
            n == Len(q[h])
<1>1. /\ Walking /\ current_queue # h /\ list' = h /\ answer' = current_queue
      /\ Unlink(current_queue) \/ UNCHANGED <<next, previous>>
      /\ current_queue' = next'[current_queue]
      /\ RingsOf(next, previous, q) /\ h \in QueueHead /\ h # NULL
  BY LinksAssumption DEF WalkStep, QueuesInv, Walking
<1>2. PICK k \in 1 .. n + 1 : current_queue = Node(h, q[h], k)
  BY <1>1 DEF QueuesInv, Walking
<1>. HIDE DEF q, h
<1>3. /\ q[h] \in Seq(Element) /\ n \in Nat
      /\ Node(h, q[h], n + 1) = h
      /\ \A z \in 1 .. n : Node(h, q[h], z) = q[h][z] /\ next[q[h][z]] = Node(h, q[h], z + 1)
      /\ \A z, j \in 0 .. n : Node(h, q[h], z) = Node(h, q[h], j) => z = j
      /\ previous \in [Link -> Link \cup {NULL}] /\ next \in [Link -> Link \cup {NULL}]
  BY <1>1, RingFacts DEF RingsOf
<1>. HIDE DEF n
<1>4. /\ k \in 1 .. n /\ current_queue = q[h][k] /\ next[current_queue] = Node(h, q[h], k + 1)
  BY <1>1, <1>2, <1>3
<1>5. Path(next, current_queue, h) = SubSeq(q[h], k, n)
  BY <1>1, <1>2, TodoIs DEF n
<1>6. /\ SubSeq(q[h], k, n) # <<>> /\ SubSeq(q[h], k, n)[1] = current_queue
      /\ Tail(SubSeq(q[h], k, n)) = SubSeq(q[h], k + 1, n)
      /\ Tail(SubSeq(q[h], k, n)) = SubSeq(Removed(q[h], k), k, n - 1)
  BY <1>3, <1>4, TailOfSlice DEF n
<1>7. CASE UNCHANGED <<next, previous>>
  <2>1. Held' = q
    BY <1>7 DEF Held, q
  <2>2. current_queue' = Node(h, q[h], k + 1) /\ k + 1 \in 1 .. n + 1
    BY <1>1, <1>3, <1>4, <1>7
  <2>3. QueuesInv'
    BY <1>1, <1>7, <2>1, <2>2 DEF QueuesInv, n
  <2>4. Path(next', current_queue', list') = SubSeq(q[h], k + 1, n)
    <3>1. Path(next, Node(h, q[h], k + 1), h) = SubSeq(q[h], k + 1, n)
      BY <1>1, <2>2, TodoIs DEF n
    <3>. QED  BY <1>1, <1>7, <2>2, <3>1
  <2>5. AsLists!WalkStep
    <3>1. Walking' /\ Walking /\ Path(next, current_queue, list) = SubSeq(q[h], k, n)
      BY <1>1, <1>5 DEF Walking, h
    <3>. QED  BY <1>1, <1>6, <2>1, <2>4, <3>1 DEF AsLists!WalkStep, q, Held, HeldBy, Elements
  <2>. QED  BY <2>3, <2>5 DEF AsLists!Next
<1>8. CASE Unlink(current_queue)
  <2>. DEFINE q2 == [q EXCEPT ![h] = Removed(@, k)]
  <2>1. RingsOf(next', previous', q2)
    <3>1. k \in 1 .. Len(Held[h]) /\ Unlink(Held[h][k])
      BY <1>4, <1>8 DEF q, n
    <3>. QED  BY <1>1, <3>1, UnlinkAt DEF q
  <2>2. Held' = q2
    <3>. HIDE DEF q2
    <3>. QED  BY <2>1, HeldIs DEF Held
  <2>3. q2[h] = Removed(q[h], k) /\ Len(q2[h]) = n - 1
    <3>1. q2[h] = Removed(q[h], k)
      BY <1>1 DEF RingsOf
    <3>. QED  BY <1>3, <1>4, <3>1, RemovedIs, SMTT(30) DEF n
  <2>4. current_queue' = Node(h, q[h], k + 1)
    <3>1. previous[current_queue] = Node(h, q[h], k - 1) /\ Node(h, q[h], k - 1) # current_queue
      <4>1. previous[q[h][k]] = Node(h, q[h], k - 1)
        BY <1>1, <1>4, RingFacts DEF n
      <4>2. k - 1 \in 0 .. n /\ k \in 0 .. n /\ k - 1 # k
        BY <1>3, <1>4
      <4>. QED  BY <1>2, <1>3, <1>4, <4>1, <4>2
    <3>2. current_queue \in Link
      BY <1>1, <1>2, RingFacts
    <3>3. next'[current_queue] = next[current_queue]
      BY <1>3, <1>8, <3>1, <3>2 DEF Unlink
    <3>. QED  BY <1>1, <1>4, <3>3
  <2>5. Node(h, q[h], k + 1) = Node(h, q2[h], k) /\ k \in 1 .. Len(q2[h]) + 1
    <3>1. \A z \in 1 .. n - 1 : Removed(q[h], k)[z] = IF z < k THEN q[h][z] ELSE q[h][z + 1]
      BY <1>3, <1>4, RemovedIs DEF n
    <3>2. CASE k < n
      <4>1. k \in 1 .. n - 1 /\ k + 1 \in 1 .. n
        BY <1>3, <1>4, <3>2
      <4>2. q2[h][k] = q[h][k + 1]
        BY <2>3, <3>1, <4>1
      <4>. QED  BY <1>3, <2>3, <4>1, <4>2 DEF Node, n
    <3>3. CASE k = n
      BY <1>3, <2>3, <3>3 DEF Node, n
    <3>. QED  BY <1>3, <1>4, <2>3, <3>2, <3>3
  <2>. HIDE DEF q2
  <2>6. QueuesInv'
    BY <1>1, <2>1, <2>2, <2>4, <2>5 DEF QueuesInv
  <2>7. Path(next', current_queue', list') = SubSeq(q2[h], k, n - 1)
    <3>1. Path(next', Node(h, q2[h], k), h) = SubSeq(q2[h], k, Len(q2[h]))
      BY <1>1, <2>1, <2>5, TodoIs
    <3>. QED  BY <1>1, <2>3, <2>4, <2>5, <3>1
  <2>8. [g \in QueueHead |-> AsLists!Without(q[g], current_queue)] = q2
    <3>1. k \in 1 .. Len(q[h])
      BY <1>4 DEF n
    <3>. QED  BY <1>1, <1>4, <3>1, WithoutHeld DEF q2
  <2>9. AsLists!WalkStep
    <3>1. Walking' /\ Walking /\ Path(next, current_queue, list) = SubSeq(q[h], k, n)
      BY <1>1, <1>5 DEF Walking, h
    <3>2. Path(next', current_queue', list') = Tail(SubSeq(q[h], k, n))
      BY <1>6, <2>3, <2>7
    <3>. QED  BY <1>1, <1>6, <2>2, <2>8, <3>1, <3>2 DEF AsLists!WalkStep, q, Held, HeldBy, Elements
  <2>. QED  BY <2>6, <2>9 DEF AsLists!Next
<1>. QED  BY <1>1, <1>7, <1>8

-----------------------------------------------------------------------------
LEMMA QueuesStep ==
    QueuesInv /\ [QueuesNext]_queueVars => QueuesInv' /\ [AsLists!Next]_(AsLists!vars)
<1>. SUFFICES ASSUME QueuesInv, [QueuesNext]_queueVars
              PROVE  QueuesInv' /\ (AsLists!Next \/ UNCHANGED AsLists!vars)
  OBVIOUS
<1>1. ASSUME NEW c \in Element, reset_queue(c) \/ queue_remove_element(c)
      PROVE  QueuesInv' /\ AsLists!Next
  BY <1>1, ResetStep, RemoveElementStep
<1>2. ASSUME NEW h \in QueueHead,
             queue_remove_next(h) \/ queue_remove_previous(h) \/ WalkBegin(h)
      PROVE  QueuesInv' /\ AsLists!Next
  BY <1>2, RemoveNextStep, RemovePreviousStep, WalkBeginStep
<1>3. ASSUME NEW h \in QueueHead, NEW e \in Element,
             queue_insert_after(h, e) \/ queue_insert_before(h, e)
      PROVE  QueuesInv' /\ AsLists!Next
  BY <1>3, InsertAfterStep, InsertBeforeStep
<1>4. CASE UNCHANGED queueVars
  <2>1. Held' = Held
    BY <1>4 DEF queueVars, Held
  <2>2. QueuesInv'
    BY <1>4, <2>1 DEF queueVars, QueuesInv
  <2>3. UNCHANGED AsLists!vars
    BY <1>4 DEF queueVars, AsLists!vars, Elements, Walking
  <2>. QED  BY <2>2, <2>3
<1>. QED  BY <1>1, <1>2, <1>3, <1>4, WalkStepStep, WalkEndStep DEF QueuesNext

(* In every reachable state the pointers make up one ring per head.        *)
THEOREM PointersMakeRings == QueuesSpec => []QueuesInv
BY QueuesInitInv, QueuesStep, PTL DEF QueuesSpec

(* utilities.c's pointers implement sequences.                             *)
THEOREM QueuesAreLists == QueuesSpec => ImplementsLists
BY QueuesInitInv, QueuesStep, PTL DEF QueuesSpec, ImplementsLists, AsLists!Spec

-----------------------------------------------------------------------------
(* The FIFO                                                                *)

LEMMA InitTypes == FifoInit => FifoTypeOK
BY FifoAssumption DEF FifoInit, FifoTypeOK

LEMMA StepTypes == FifoTypeOK /\ [FifoNext]_fifoVars => FifoTypeOK'
<1>. SUFFICES ASSUME FifoTypeOK, [FifoNext]_fifoVars PROVE FifoTypeOK'
  OBVIOUS
<1>. size \in Int
  BY FifoAssumption DEF FifoTypeOK
<1>1. ASSUME NEW d \in Data, fifo_add(d), UNCHANGED size PROVE FifoTypeOK'
  BY <1>1 DEF FifoTypeOK, fifo_add, Refuse, Full, Advance
<1>2. CASE fifo_read /\ UNCHANGED size
  BY <1>2 DEF FifoTypeOK, fifo_read, Refuse, Advance
<1>3. CASE fifo_read_null /\ UNCHANGED size
  BY <1>3 DEF FifoTypeOK, fifo_read_null, Refuse
<1>4. CASE UNCHANGED fifoVars
  BY <1>4 DEF FifoTypeOK, fifoVars
<1>. QED  BY <1>1, <1>2, <1>3, <1>4 DEF FifoNext

(* In every reachable state the indexes are inside the ring.               *)
THEOREM FifoTypes == FifoSpec => []FifoTypeOK
BY InitTypes, StepTypes, PTL DEF FifoSpec

-----------------------------------------------------------------------------
LEMMA ModIs ==
    ASSUME NEW n \in Nat, n > 0, NEW a \in Int, -n < a, a < 2 * n
    PROVE  a % n = IF a < 0 THEN a + n ELSE IF a < n THEN a ELSE a - n
<1>1. CASE a < 0
  BY <1>1, Z3
<1>2. CASE 0 <= a /\ a < n
  BY <1>2, Z3
<1>3. CASE n <= a
  BY <1>3, Z3
<1>. QED  BY <1>1, <1>2, <1>3

(* The distance of the indexes, the cell of the z-th item, and the items   *)
(* of a ring as a function of its size, indexes and cells.                 *)
Distance(r, w, n) == IF r <= w THEN w - r ELSE w - r + n
CellOf(r, z, n) == IF r + z - 1 < n THEN r + z - 1 ELSE r + z - 1 - n
Queue(n, r, w, f) == [z \in 1 .. (w - r) % n |-> f[(r + z - 1) % n]]

LEMMA QueueIs ==
    ASSUME NEW n \in Nat, n > 0, NEW r \in 0 .. n - 1, NEW w \in 0 .. n - 1,
           NEW S, NEW f \in [0 .. n - 1 -> S]
    PROVE  /\ (w - r) % n = Distance(r, w, n)
           /\ Distance(r, w, n) \in 0 .. n - 1
           /\ Queue(n, r, w, f) \in Seq(S)
           /\ Len(Queue(n, r, w, f)) = Distance(r, w, n)
           /\ \A z \in 1 .. Distance(r, w, n) :
                  Queue(n, r, w, f)[z] = f[CellOf(r, z, n)]
<1>. DEFINE c == Distance(r, w, n)
            q == Queue(n, r, w, f)
<1>1. c \in 0 .. n - 1
  BY DEF Distance
<1>2. (w - r) % n = c
  BY ModIs DEF Distance
<1>3. ASSUME NEW z \in 1 .. c
      PROVE  (r + z - 1) % n = CellOf(r, z, n) /\ CellOf(r, z, n) \in 0 .. n - 1
  BY <1>1, ModIs DEF CellOf
<1>. HIDE DEF c
<1>4. q = [z \in 1 .. c |-> f[(r + z - 1) % n]]
  BY <1>2 DEF Queue
<1>5. \A z \in 1 .. c : q[z] = f[CellOf(r, z, n)] /\ q[z] \in S
  BY <1>3, <1>4
<1>. HIDE DEF q
<1>6. q \in Seq(S) /\ Len(q) = c
  BY <1>1, <1>4, <1>5
<1>. QED  BY <1>1, <1>2, <1>5, <1>6 DEF c, q

LEMMA ItemsAre ==
    ASSUME FifoTypeOK, size > 0
    PROVE  /\ size \in Nat
           /\ Items = Queue(size, index_of_next_read_element,
                            index_of_next_inserted_element, data_fifo)
           /\ Items \in Seq(Data \cup {NULL_DATA})
           /\ Len(Items) = Distance(index_of_next_read_element,
                                    index_of_next_inserted_element, size)
           /\ \A z \in 1 .. Len(Items) :
                  Items[z] = data_fifo[CellOf(index_of_next_read_element, z, size)]
<1>1. size \in Nat
  BY FifoAssumption DEF FifoTypeOK
<1>2. Items = Queue(size, index_of_next_read_element,
                   index_of_next_inserted_element, data_fifo)
  BY <1>1 DEF Items, Count, Queue
<1>3. /\ index_of_next_read_element \in 0 .. size - 1
      /\ index_of_next_inserted_element \in 0 .. size - 1
      /\ data_fifo \in [0 .. size - 1 -> Data \cup {NULL_DATA}]
  BY DEF FifoTypeOK
<1>. DEFINE q == Queue(size, index_of_next_read_element,
                       index_of_next_inserted_element, data_fifo)
            c == Distance(index_of_next_read_element,
                          index_of_next_inserted_element, size)
<1>4. /\ q \in Seq(Data \cup {NULL_DATA}) /\ Len(q) = c
      /\ \A z \in 1 .. c : q[z] = data_fifo[CellOf(index_of_next_read_element, z, size)]
  BY <1>1, <1>3, QueueIs
<1>. QED  BY <1>1, <1>2, <1>4

(* The code's test for a full ring, and that for an empty one.             *)
LEMMA FullIs ==
    ASSUME FifoTypeOK, size > 0
    PROVE  /\ Full <=> Len(Items) = size - 1
           /\ index_of_next_read_element = index_of_next_inserted_element <=> Items = <<>>
<1>1. /\ size \in Nat
      /\ index_of_next_read_element \in 0 .. size - 1
      /\ index_of_next_inserted_element \in 0 .. size - 1
  BY ItemsAre DEF FifoTypeOK
<1>2. Items = <<>> <=> Len(Items) = 0
  BY ItemsAre, EmptySeq
<1>. QED  BY <1>1, <1>2, ItemsAre DEF Distance, Full

LEMMA RefuseRefines ==
    ASSUME FifoTypeOK, NEW why, Refuse(why), UNCHANGED size
    PROVE  AsBoundedFifo!Refuse(why)
BY DEF Refuse, AsBoundedFifo!Refuse, Items, Count

LEMMA AddRefines ==
    ASSUME FifoTypeOK, FifoTypeOK', NEW d \in Data, fifo_add(d), UNCHANGED size
    PROVE  AsBoundedFifo!Add(d)
<1>. size \in Int
  BY FifoAssumption DEF FifoTypeOK
<1>1. CASE size <= 0
  BY <1>1, RefuseRefines DEF fifo_add, AsBoundedFifo!Add
<1>2. CASE size > 0 /\ Full
  BY <1>2, FullIs, RefuseRefines DEF fifo_add, AsBoundedFifo!Add
<1>3. CASE size > 0 /\ ~Full
  <2>. DEFINE n == size
              r == index_of_next_read_element
              w == index_of_next_inserted_element
              f == data_fifo
              c == Distance(r, w, n)
  <2>1. /\ f' = [f EXCEPT ![w] = d]
        /\ w' = IF w + 1 >= n THEN 0 ELSE w + 1
        /\ result' = "ERR_NO_ERROR"
        /\ r' = r /\ n' = n /\ data' = data
    BY <1>3 DEF fifo_add, Advance
  <2>2. /\ n \in Nat /\ n > 0 /\ r \in 0 .. n - 1 /\ w \in 0 .. n - 1
        /\ f \in [0 .. n - 1 -> Data \cup {NULL_DATA}]
        /\ w' \in 0 .. n - 1 /\ f' \in [0 .. n - 1 -> Data \cup {NULL_DATA}]
    BY <1>3, <2>1, ItemsAre DEF FifoTypeOK
  <2>3. /\ Items \in Seq(Data \cup {NULL_DATA}) /\ Len(Items) = c
      /\ \A z \in 1 .. c : Items[z] = f[CellOf(r, z, n)]
    BY <1>3, ItemsAre
  <2>4. Items' = Queue(n, r, w', f')
    BY <1>3, <2>1 DEF Items, Count, Queue
  <2>5. c # n - 1
    BY <1>3, <2>3, FullIs
  <2>. HIDE DEF n, r, w, f
  <2>6. /\ Distance(r, w', n) = c + 1 /\ c \in Nat
        /\ \A z \in 1 .. c : CellOf(r, z, n) # w /\ CellOf(r, z, n) \in 0 .. n - 1
        /\ CellOf(r, c + 1, n) = w
    BY <2>1, <2>2, <2>5 DEF Distance, CellOf
  <2>. HIDE DEF c
  <2>7. /\ Items' \in Seq(Data \cup {NULL_DATA}) /\ Len(Items') = c + 1
        /\ \A z \in 1 .. c + 1 : Items'[z] = f'[CellOf(r, z, n)]
    <3>. DEFINE v == w'
                g == f'
                S == Data \cup {NULL_DATA}
                d1 == Distance(r, v, n)
                new == Queue(n, r, v, g)
    <3>1. n \in Nat /\ n > 0 /\ r \in 0 .. n - 1 /\ v \in 0 .. n - 1 /\ g \in [0 .. n - 1 -> S]
      BY <2>2
    <3>2. Items' = new /\ d1 = c + 1
      BY <2>4, <2>6
    <3>. HIDE DEF v, g, S
    <3>3. new \in Seq(S) /\ Len(new) = d1 /\ \A z \in 1 .. d1 : new[z] = g[CellOf(r, z, n)]
      BY <3>1, QueueIs
    <3>. HIDE DEF d1, new
    <3>. QED  BY <3>2, <3>3 DEF S, g
  <2>8. \A z \in 1 .. c : Items[z] = f[CellOf(r, z, n)]
    BY <2>3
  <2>9. /\ \A z \in 1 .. c : Items'[z] = Items[z]
        /\ Items'[c + 1] = d
    BY <2>1, <2>2, <2>6, <2>7, <2>8
  <2>10. Items' = Append(Items, d)
    <3>. DEFINE t == Append(Items, d)
    <3>1. /\ t \in Seq(Data \cup {NULL_DATA}) /\ Len(t) = c + 1
          /\ \A z \in 1 .. c : t[z] = Items[z]
          /\ t[c + 1] = d
      BY <2>3, AppendProperties
    <3>. HIDE DEF t
    <3>2. \A z \in 1 .. c + 1 : Items'[z] = t[z]
      BY <2>6, <2>9, <3>1
    <3>3. Items' = t
      BY <2>7, <3>1, <3>2, SeqEqual
    <3>. QED  BY <3>3 DEF t
  <2>. QED  BY <1>3, <2>1, <2>10, FullIs DEF AsBoundedFifo!Add
<1>. QED  BY <1>1, <1>2, <1>3

LEMMA ReadRefines ==
    ASSUME FifoTypeOK, FifoTypeOK', fifo_read, UNCHANGED size
    PROVE  AsBoundedFifo!Read
<1>. size \in Int
  BY FifoAssumption DEF FifoTypeOK
<1>. DEFINE n == size
            r == index_of_next_read_element
            w == index_of_next_inserted_element
            f == data_fifo
            c == Distance(r, w, n)
<1>1. CASE size <= 0
  BY <1>1, RefuseRefines DEF fifo_read, AsBoundedFifo!Read
<1>2. CASE size > 0 /\ r = w
  BY <1>2, FullIs, RefuseRefines DEF fifo_read, AsBoundedFifo!Read
<1>3. CASE size > 0 /\ r # w
  <2>1. /\ r' = IF r + 1 >= n THEN 0 ELSE r + 1
        /\ result' = "ERR_NO_ERROR"
        /\ w' = w /\ n' = n /\ f' = f /\ data' = f[r]
    BY <1>3 DEF fifo_read, Advance
  <2>2. /\ n \in Nat /\ n > 0 /\ r \in 0 .. n - 1 /\ w \in 0 .. n - 1 /\ r # w
        /\ f \in [0 .. n - 1 -> Data \cup {NULL_DATA}]
        /\ r' \in 0 .. n - 1
    BY <1>3, <2>1, ItemsAre DEF FifoTypeOK
  <2>3. /\ Items \in Seq(Data \cup {NULL_DATA}) /\ Len(Items) = c
      /\ \A z \in 1 .. c : Items[z] = f[CellOf(r, z, n)]
    BY <1>3, ItemsAre
  <2>4. Items' = Queue(n, r', w, f)
    BY <1>3, <2>1 DEF Items, Count, Queue
  <2>. HIDE DEF n, r, w, f
  <2>5. /\ Distance(r', w, n) = c - 1 /\ c \in Nat /\ c >= 1
        /\ \A z \in 1 .. c - 1 : CellOf(r', z, n) = CellOf(r, z + 1, n)
        /\ CellOf(r, 1, n) = r
    BY <2>1, <2>2 DEF Distance, CellOf
  <2>. HIDE DEF c
  <2>6. /\ Items' \in Seq(Data \cup {NULL_DATA}) /\ Len(Items') = c - 1
        /\ \A z \in 1 .. c - 1 : Items'[z] = f[CellOf(r', z, n)]
    <3>. DEFINE q == Queue(n, r', w, f)
    <3>1. /\ q \in Seq(Data \cup {NULL_DATA}) /\ Len(q) = Distance(r', w, n)
          /\ \A z \in 1 .. Distance(r', w, n) : q[z] = f[CellOf(r', z, n)]
      BY <2>2, QueueIs
    <3>. QED  BY <2>4, <2>5, <3>1
  <2>7. \A z \in 1 .. c : Items[z] = f[CellOf(r, z, n)]
    BY <2>3
  <2>8. \A z \in 1 .. c - 1 : Items'[z] = Items[z + 1]
    BY <2>5, <2>6, <2>7
  <2>9. Items # <<>> /\ data' = Items[1]
    <3>1. Items[1] = f[r]
      BY <2>5, <2>7
    <3>2. Items # <<>>
      BY <2>3, <2>5, EmptySeq
    <3>. QED  BY <2>1, <3>1, <3>2
  <2>10. Items' = Tail(Items)
    <3>. DEFINE t == Tail(Items)
    <3>1. /\ t \in Seq(Data \cup {NULL_DATA}) /\ Len(t) = c - 1
          /\ \A z \in 1 .. c - 1 : t[z] = Items[z + 1]
      BY <2>3, <2>9, HeadTailProperties
    <3>. HIDE DEF t
    <3>2. Items' = t
      BY <2>6, <2>8, <3>1, SeqEqual
    <3>. QED  BY <3>2 DEF t
  <2>. QED  BY <1>3, <2>1, <2>9, <2>10 DEF AsBoundedFifo!Read
<1>. QED  BY <1>1, <1>2, <1>3

(* The ring implements a queue of size - 1 items: every call is the call   *)
(* of the queue, with the same answer, for all sizes and data.             *)
THEOREM FifoIsABoundedFifo == FifoSpec => ImplementsBoundedFifo
<1>1. FifoInit => AsBoundedFifo!Init
  <2>. SUFFICES ASSUME FifoInit PROVE AsBoundedFifo!Init
    OBVIOUS
  <2>1. FifoTypeOK /\ size \in Int
    BY InitTypes, FifoAssumption DEF FifoTypeOK
  <2>2. Count = 0
    <3>1. CASE size <= 0
      BY <3>1 DEF Count
    <3>2. CASE size > 0
      <4>1. size \in Nat /\ 0 % size = 0
        BY <2>1, <3>2, ModIs
      <4>. QED  BY <3>2, <4>1 DEF FifoInit, Count
    <3>. QED  BY <2>1, <3>1, <3>2
  <2>3. Items = <<>>
    BY <2>2 DEF Items
  <2>. QED  BY <2>1, <2>3 DEF FifoInit, AsBoundedFifo!Init
<1>2. FifoTypeOK /\ FifoTypeOK' /\ [FifoNext]_fifoVars => [AsBoundedFifo!Next]_<<size - 1, Items, result, data>>
  <2>. SUFFICES ASSUME FifoTypeOK, FifoTypeOK', [FifoNext]_fifoVars
                PROVE  AsBoundedFifo!Next \/ UNCHANGED <<size - 1, Items, result, data>>
    OBVIOUS
  <2>1. ASSUME NEW d \in Data, fifo_add(d), UNCHANGED size PROVE AsBoundedFifo!Next
    BY <2>1, AddRefines DEF AsBoundedFifo!Next
  <2>2. CASE fifo_read /\ UNCHANGED size
    BY <2>2, ReadRefines DEF AsBoundedFifo!Next
  <2>3. CASE fifo_read_null /\ UNCHANGED size
    BY <2>3, RefuseRefines DEF fifo_read_null, AsBoundedFifo!Next, AsBoundedFifo!BadCall
  <2>4. CASE UNCHANGED fifoVars
    BY <2>4 DEF fifoVars, Items, Count
  <2>. QED  BY <2>1, <2>2, <2>3, <2>4 DEF FifoNext
<1>. QED
  BY <1>1, <1>2, FifoTypes, PTL
     DEF FifoSpec, ImplementsBoundedFifo, AsBoundedFifo!Spec, AsBoundedFifo!vars

-----------------------------------------------------------------------------
(* The idle task and the tick                                              *)

(* Between two samples: the store that was due at the last one is still    *)
(* due, or has been made, or there was none.                               *)
DueStore ==
    /\ turns = 0 => again = IF loaded THEN register ELSE 0
    /\ turns > 0 /\ loaded => register = idle_count

(* The inductive invariant.                                                *)
PerformanceInv ==
    /\ idle_count \in Nat /\ register \in Nat /\ turns \in Nat /\ again \in Nat
    /\ loaded \in BOOLEAN
    /\ CountsTurnsOnceOrAgain
    /\ DueStore

LEMMA PerformanceInitInv == PerformanceInit => PerformanceInv
<1>. SUFFICES ASSUME PerformanceInit PROVE PerformanceInv
  OBVIOUS
<1>1. /\ idle_count = 0 /\ register = 0 /\ turns = 0 /\ again = 0
      /\ loaded \in BOOLEAN /\ ~loaded
  BY DEF PerformanceInit
<1>2. CountsTurnsOnceOrAgain
  BY <1>1 DEF CountsTurnsOnceOrAgain
<1>3. DueStore
  BY <1>1 DEF DueStore
<1>. QED  BY <1>1, <1>2, <1>3 DEF PerformanceInv

LEMMA PerformanceStepInv ==
    PerformanceInv /\ [PerformanceNext]_performanceVars => PerformanceInv'
<1>. SUFFICES ASSUME PerformanceInv, [PerformanceNext]_performanceVars
              PROVE  PerformanceInv'
  OBVIOUS
<1>0. /\ idle_count \in Nat /\ register \in Nat /\ turns \in Nat /\ again \in Nat
      /\ idle_count = turns + (IF turns > 0 THEN again ELSE 0)
      /\ turns = 0 /\ loaded => again = register
      /\ turns = 0 /\ ~loaded => again = 0
      /\ turns > 0 /\ loaded => register = idle_count
  BY DEF PerformanceInv, CountsTurnsOnceOrAgain, DueStore
<1>1. CASE IdleLoad
  BY <1>0, <1>1 DEF IdleLoad, PerformanceInv, CountsTurnsOnceOrAgain, DueStore
<1>2. CASE IdleStore
  <2>1. /\ idle_count' = register + 1 /\ turns' = turns + 1
        /\ again' = again /\ register' = register
        /\ loaded /\ ~loaded' /\ loaded' \in BOOLEAN
    BY <1>2 DEF IdleStore
  <2>2. CountsTurnsOnceOrAgain'
    <3>1. register = turns + again
      BY <1>0, <2>1
    <3>. QED  BY <1>0, <2>1, <3>1 DEF CountsTurnsOnceOrAgain
  <2>3. DueStore'
    BY <1>0, <2>1 DEF DueStore
  <2>. QED  BY <1>0, <2>1, <2>2, <2>3 DEF PerformanceInv
<1>3. CASE calc_performance
  BY <1>0, <1>3 DEF calc_performance, PerformanceInv, CountsTurnsOnceOrAgain, DueStore
<1>4. CASE UNCHANGED performanceVars
  BY <1>4 DEF performanceVars, PerformanceInv, CountsTurnsOnceOrAgain, DueStore
<1>. QED  BY <1>1, <1>2, <1>3, <1>4 DEF PerformanceNext

(* What the load figure is worth: a turn of the idle task is counted once, *)
(* or again after a sample that came between its load and its store; for   *)
(* any period, and at any length of counting.                              *)
THEOREM TurnsAreCounted == PerformanceSpec => []CountsTurnsOnceOrAgain
<1>1. PerformanceInv => CountsTurnsOnceOrAgain
  BY DEF PerformanceInv
<1>. QED  BY <1>1, PerformanceInitInv, PerformanceStepInv, PTL DEF PerformanceSpec

-----------------------------------------------------------------------------
(* The terminal                                                            *)

USE TerminalAssumption

(* Lines that were never on the screen are blank, in the picture and, one  *)
(* line higher, in the buffer: what scrolls in from below shows nothing.   *)
BelowIsBlank ==
    \A y \in Lines, x \in Cells :
        /\ y >= ROWS - 1 => Shown(screen_buffer[y][x]) = Space
        /\ y >= ROWS => Shown(picture[y][x]) = Space

(* The inductive invariant.                                                *)
TermInv == TermTypeOK /\ BufferIsPictureMovedUp /\ BelowIsBlank

LEMMA InitInv == TermInit => TermInv
<1>. SUFFICES ASSUME TermInit PROVE TermInv
  OBVIOUS
<1>1. TermTypeOK
  BY DEF TermInit, TermTypeOK, Memory, Cell, Lines, Cells
<1>2. BufferIsPictureMovedUp
  BY DEF TermInit, BufferIsPictureMovedUp, Shown, Lines, Cells
<1>3. BelowIsBlank
  BY DEF TermInit, BelowIsBlank, Shown, Lines, Cells
<1>. QED  BY <1>1, <1>2, <1>3 DEF TermInv

(* What is stored is where it was stored, and nowhere else.                *)
LEMMA StoredIs ==
    ASSUME NEW M \in Memory, NEW y \in Lines, NEW x \in Cells, NEW c \in Cell
    PROVE  /\ Stored(M, y, x, c) \in Memory
           /\ \A l \in Lines, k \in Cells :
                  Stored(M, y, x, c)[l][k] = IF l = y /\ k = x THEN c ELSE M[l][k]
BY DEF Stored, Memory

LEMMA ShiftedUpIs ==
    ASSUME NEW M \in Memory
    PROVE  /\ ShiftedUp(M) \in Memory
           /\ \A y \in Lines :
                  ShiftedUp(M)[y] = IF y + 1 < DEPTH THEN M[y + 1] ELSE M[y]
BY DEF ShiftedUp, Memory, Lines

(* The end of terminal_put_char, from a buffer and a picture that agree    *)
(* but for the blank last line of the buffer if the cursor went below.     *)
LEMMA Scrolled ==
    ASSUME NEW y \in 0 .. ROWS, NEW B \in Memory, NEW P \in Memory,
           \A l \in 0 .. DEPTH - 2, k \in Cells : Shown(B[l][k]) = Shown(P[l + 1][k]),
           \A l \in Lines, k \in Cells : l >= ROWS => Shown(B[l][k]) = Space,
           y < ROWS =>
               /\ \A k \in Cells : Shown(B[ROWS - 1][k]) = Space
               /\ \A l \in Lines, k \in Cells : l >= ROWS => Shown(P[l][k]) = Space,
           cursor_position_x' \in 1 .. COLS,
           ScrollScreen(y, B, P)
    PROVE  TermInv'
<1>1. CASE y >= ROWS
  <2>1. /\ picture' = B
        /\ cursor_position_y' = ROWS - 1
        /\ screen_buffer' = ShiftedUp(B)
    BY <1>1 DEF ScrollScreen
  <2>2. TermTypeOK'
    BY <2>1, ShiftedUpIs DEF TermTypeOK
  <2>3. BufferIsPictureMovedUp'
    BY <2>1, ShiftedUpIs DEF BufferIsPictureMovedUp, Lines
  <2>4. BelowIsBlank'
    <3>. SUFFICES ASSUME NEW l \in Lines, NEW k \in Cells
                  PROVE  /\ l >= ROWS - 1 => Shown(ShiftedUp(B)[l][k]) = Space
                         /\ l >= ROWS => Shown(B[l][k]) = Space
      BY <2>1 DEF BelowIsBlank
    <3>1. CASE l + 1 < DEPTH
      <4>1. l + 1 \in Lines /\ ShiftedUp(B)[l] = B[l + 1]
        BY <3>1, ShiftedUpIs DEF Lines
      <4>. QED  BY <4>1 DEF Lines
    <3>2. CASE ~(l + 1 < DEPTH)
      <4>1. l >= ROWS /\ ShiftedUp(B)[l] = B[l]
        BY <3>2, ShiftedUpIs DEF Lines
      <4>. QED  BY <4>1
    <3>. QED  BY <3>1, <3>2
  <2>. QED  BY <2>2, <2>3, <2>4 DEF TermInv
<1>2. CASE ~(y >= ROWS)
  <2>1. /\ picture' = P
        /\ cursor_position_y' = y
        /\ screen_buffer' = B
        /\ y < ROWS
    BY <1>2 DEF ScrollScreen
  <2>2. TermTypeOK'
    BY <2>1 DEF TermTypeOK
  <2>3. BufferIsPictureMovedUp'
    BY <2>1 DEF BufferIsPictureMovedUp
  <2>4. BelowIsBlank'
    <3>. SUFFICES ASSUME NEW l \in Lines, NEW k \in Cells
                  PROVE  /\ l >= ROWS - 1 => Shown(B[l][k]) = Space
                         /\ l >= ROWS => Shown(P[l][k]) = Space
      BY <2>1 DEF BelowIsBlank
    <3>1. l >= ROWS - 1 => l = ROWS - 1 \/ l >= ROWS
      BY DEF Lines
    <3>. QED  BY <3>1, <2>1
  <2>. QED  BY <2>2, <2>3, <2>4 DEF TermInv
<1>. QED  BY <1>1, <1>2

(* What a printable character changes, before the end: its place, and what *)
(* buffer and picture hold then.                                           *)
LEMMA Placed ==
    ASSUME TermInv, NEW c \in Printable,
           NEW x \in 1 .. COLS - 1, NEW y \in 0 .. ROWS,
           y <= cursor_position_y + 1,
           NEW B, B = IF y # 0 THEN Stored(screen_buffer, y - 1, x, c) ELSE screen_buffer
    PROVE  /\ B \in Memory
           /\ Stored(picture, y, x, c) \in Memory
           /\ \A l \in Lines, k \in Cells :
                  /\ B[l][k] = IF l + 1 = y /\ k = x THEN c ELSE screen_buffer[l][k]
                  /\ Stored(picture, y, x, c)[l][k] =
                         IF l = y /\ k = x THEN c ELSE picture[l][k]
<1>1. /\ screen_buffer \in Memory
      /\ picture \in Memory
      /\ x \in Cells
      /\ y \in Lines
      /\ y # 0 => y - 1 \in Lines
      /\ c \in Cell
  BY DEF TermInv, TermTypeOK, Cells, Lines, Cell
<1>2. CASE y = 0
  <2>1. B = screen_buffer /\ \A l \in Lines : l + 1 # y
    BY <1>2 DEF Lines
  <2>. QED  BY <1>1, <2>1, StoredIs
<1>3. CASE y # 0
  <2>1. B = Stored(screen_buffer, y - 1, x, c) /\ \A l \in Lines : l + 1 = y <=> l = y - 1
    BY <1>3 DEF Lines
  <2>2. /\ B \in Memory
        /\ \A l \in Lines, k \in Cells :
               B[l][k] = IF l = y - 1 /\ k = x THEN c ELSE screen_buffer[l][k]
    BY <1>1, <1>3, <2>1, StoredIs
  <2>. QED  BY <1>1, <2>1, <2>2, StoredIs
<1>. QED  BY <1>2, <1>3

LEMMA StepInv == TermInv /\ [TermNext]_termVars => TermInv'
<1>. SUFFICES ASSUME TermInv, [TermNext]_termVars PROVE TermInv'
  OBVIOUS
<1>0. /\ cursor_position_x \in 1 .. COLS
      /\ cursor_position_y \in 0 .. ROWS - 1
      /\ screen_buffer \in Memory
      /\ picture \in Memory
  BY DEF TermInv, TermTypeOK
<1>1. ASSUME NEW y \in 0 .. ROWS, cursor_position_x' \in 1 .. COLS,
             ScrollScreen(y, screen_buffer, picture)
      PROVE  TermInv'
  <2>1. /\ \A l \in 0 .. DEPTH - 2, k \in Cells :
               Shown(screen_buffer[l][k]) = Shown(picture[l + 1][k])
        /\ \A l \in Lines, k \in Cells :
               l >= ROWS => Shown(screen_buffer[l][k]) = Space
        /\ \A k \in Cells : Shown(screen_buffer[ROWS - 1][k]) = Space
        /\ \A l \in Lines, k \in Cells : l >= ROWS => Shown(picture[l][k]) = Space
    BY DEF TermInv, BufferIsPictureMovedUp, BelowIsBlank, Lines
  <2>. QED  BY <1>0, <1>1, <2>1, Scrolled
<1>2. ASSUME NEW c \in Printable, PutPrintable(c)
      PROVE  TermInv'
  <2>. DEFINE full == cursor_position_x = COLS
              x == IF full THEN 1 ELSE cursor_position_x
              y == IF full THEN cursor_position_y + 1 ELSE cursor_position_y
              B == IF y # 0 THEN Stored(screen_buffer, y - 1, x, c) ELSE screen_buffer
              P == Stored(picture, y, x, c)
  <2>1. cursor_position_x' = x + 1 /\ ScrollScreen(y, B, P)
    BY <1>2 DEF PutPrintable
  <2>2. x \in 1 .. COLS - 1 /\ y \in 0 .. ROWS /\ y <= cursor_position_y + 1
    BY <1>0
  <2>. HIDE DEF x, y
  <2>3. /\ B \in Memory
        /\ P \in Memory
        /\ \A l \in Lines, k \in Cells :
               /\ B[l][k] = IF l + 1 = y /\ k = x THEN c ELSE screen_buffer[l][k]
               /\ P[l][k] = IF l = y /\ k = x THEN c ELSE picture[l][k]
    BY <2>2, Placed
  <2>. HIDE DEF B, P
  <2>4. \A l \in 0 .. DEPTH - 2, k \in Cells : Shown(B[l][k]) = Shown(P[l + 1][k])
    <3>. SUFFICES ASSUME NEW l \in 0 .. DEPTH - 2, NEW k \in Cells
                  PROVE  Shown(B[l][k]) = Shown(P[l + 1][k])
      OBVIOUS
    <3>1. /\ l \in Lines
          /\ l + 1 \in Lines
          /\ Shown(screen_buffer[l][k]) = Shown(picture[l + 1][k])
      BY DEF TermInv, BufferIsPictureMovedUp, Lines
    <3>. QED  BY <2>3, <3>1
  <2>5. \A l \in Lines, k \in Cells : l >= ROWS => Shown(B[l][k]) = Space
    <3>. SUFFICES ASSUME NEW l \in Lines, NEW k \in Cells, l >= ROWS
                  PROVE  Shown(B[l][k]) = Space
      OBVIOUS
    <3>1. l + 1 # y /\ Shown(screen_buffer[l][k]) = Space
      BY <2>2 DEF TermInv, BelowIsBlank, Lines
    <3>. QED  BY <2>3, <3>1
  <2>6. ASSUME y < ROWS
        PROVE  /\ \A k \in Cells : Shown(B[ROWS - 1][k]) = Space
               /\ \A l \in Lines, k \in Cells : l >= ROWS => Shown(P[l][k]) = Space
    <3>1. ROWS - 1 \in Lines /\ ROWS - 1 + 1 # y
      BY <2>6, <2>2 DEF Lines
    <3>2. ASSUME NEW k \in Cells PROVE Shown(B[ROWS - 1][k]) = Space
      <4>1. Shown(screen_buffer[ROWS - 1][k]) = Space
        BY <3>1 DEF TermInv, BelowIsBlank
      <4>. QED  BY <2>3, <3>1, <4>1
    <3>3. ASSUME NEW l \in Lines, NEW k \in Cells, l >= ROWS
          PROVE  Shown(P[l][k]) = Space
      <4>1. l # y /\ Shown(picture[l][k]) = Space
        BY <2>2, <2>6, <3>3 DEF TermInv, BelowIsBlank, Lines
      <4>. QED  BY <2>3, <4>1
    <3>. QED  BY <3>2, <3>3
  <2>7. cursor_position_x' \in 1 .. COLS
    BY <2>1, <2>2
  <2>. QED  BY <2>1, <2>2, <2>3, <2>4, <2>5, <2>6, <2>7, Scrolled
<1>3. ASSUME NEW c \in Printable \cup {"\r", "\n"} \cup Other, terminal_put_char(c)
      PROVE  TermInv'
  <2>1. CASE c \in Printable /\ PutPrintable(c)
    BY <2>1, <1>2
  <2>2. CASE PutReturn
    BY <2>2, <1>0, <1>1 DEF PutReturn
  <2>3. CASE PutNewline
    BY <2>3, <1>0, <1>1 DEF PutNewline
  <2>4. CASE PutOther
    BY <2>4, <1>0, <1>1 DEF PutOther
  <2>. QED  BY <1>3, <2>1, <2>2, <2>3, <2>4 DEF terminal_put_char
<1>4. CASE UNCHANGED termVars
  BY <1>4 DEF termVars, TermInv, TermTypeOK, BufferIsPictureMovedUp, BelowIsBlank
<1>. QED  BY <1>3, <1>4 DEF TermNext

(* In every reachable state cursor, buffer and picture are well typed.     *)
THEOREM TerminalTypes == TermSpec => []TermTypeOK
<1>1. TermInv => TermTypeOK
  BY DEF TermInv
<1>. QED  BY <1>1, InitInv, StepInv, PTL DEF TermSpec

(* screen_buffer always holds what the screen becomes when it moves up.    *)
THEOREM BufferIsReady == TermSpec => []BufferIsPictureMovedUp
<1>1. TermInv => BufferIsPictureMovedUp
  BY DEF TermInv
<1>. QED  BY <1>1, InitInv, StepInv, PTL DEF TermSpec

-----------------------------------------------------------------------------
(* The refinement.  Window is what ShowsTheLastLines takes for `window'.   *)
WindowOn(memory) ==
    [y \in 0 .. ROWS - 1 |-> [x \in 1 .. COLS - 1 |-> Shown(memory[y][x])]]
Window == WindowOn(picture)

WindowWritten(w, r, j, c) == [w EXCEPT ![r] = [@ EXCEPT ![j] = c]]

(* A cell written in the memory is a cell written in the window.           *)
LEMMA CellWritten ==
    ASSUME NEW M, NEW N, NEW c,
           NEW r \in 0 .. ROWS - 1, NEW j \in 1 .. COLS - 1,
           \A l \in 0 .. ROWS - 1, k \in 1 .. COLS - 1 :
               Shown(N[l][k]) = IF l = r /\ k = j THEN c ELSE Shown(M[l][k])
    PROVE  WindowWritten(WindowOn(M), r, j, c) = WindowOn(N)
<1>. DEFINE W == [WindowOn(M) EXCEPT ![r] = [@ EXCEPT ![j] = c]]
            R(l) == [k \in 1 .. COLS - 1 |-> Shown(N[l][k])]
<1>1. ASSUME NEW l \in 0 .. ROWS - 1, l # r PROVE W[l] = R(l)
  <2>1. W[l] = [k \in 1 .. COLS - 1 |-> Shown(M[l][k])]
    BY <1>1 DEF WindowOn
  <2>. QED  BY <1>1, <2>1
<1>2. W[r] = R(r)
  <2>1. W[r] = [[k \in 1 .. COLS - 1 |-> Shown(M[r][k])] EXCEPT ![j] = c]
    BY DEF WindowOn
  <2>. QED  BY <2>1
<1>3. \A l \in 0 .. ROWS - 1 : W[l] = R(l)
  BY <1>1, <1>2
<1>4. W = [l \in 0 .. ROWS - 1 |-> R(l)]
  BY <1>3 DEF WindowOn
<1>. QED  BY <1>4 DEF WindowOn, WindowWritten

(* A step that ends on the screen writes at most one cell of the window.   *)
LEMMA NoScroll ==
    ASSUME NEW y \in 0 .. ROWS - 1, NEW B, NEW P, ScrollScreen(y, B, P)
    PROVE  picture' = P /\ cursor_position_y' = y
BY DEF ScrollScreen

(* A step that ends below the screen shows the buffer.                     *)
LEMMA ScrollShows ==
    ASSUME NEW B, NEW P, ScrollScreen(ROWS, B, P)
    PROVE  picture' = B /\ cursor_position_y' = ROWS - 1
BY DEF ScrollScreen

LEMMA ReturnRefines ==
    ASSUME TermInv, PutReturn
    PROVE  Screen!CarriageReturn
<1>1. cursor_position_y \in 0 .. ROWS - 1
  BY DEF TermInv, TermTypeOK
<1>2. picture' = picture /\ cursor_position_y' = cursor_position_y
  BY <1>1, NoScroll DEF PutReturn
<1>. QED  BY <1>2 DEF PutReturn, Screen!CarriageReturn

LEMMA OtherStutters ==
    ASSUME TermInv, PutOther
    PROVE  UNCHANGED <<Window, cursor_position_x, cursor_position_y>>
<1>1. cursor_position_y \in 0 .. ROWS - 1
  BY DEF TermInv, TermTypeOK
<1>2. picture' = picture /\ cursor_position_y' = cursor_position_y
  BY <1>1, NoScroll DEF PutOther
<1>. QED  BY <1>2 DEF PutOther, Window, WindowOn

(* The window with the cursor a line further down, in terms of the buffer. *)
LEMMA FedIs ==
    ASSUME TermInv
    PROVE  Screen!Fed =
               IF cursor_position_y + 1 < ROWS THEN Window
               ELSE WindowOn(screen_buffer)
<1>1. CASE cursor_position_y + 1 < ROWS
  BY <1>1 DEF Screen!Fed, Window, WindowOn
<1>2. CASE ~(cursor_position_y + 1 < ROWS)
  <2>1. ASSUME NEW l \in 0 .. ROWS - 1, l + 1 < ROWS
        PROVE  Window[l + 1] = [k \in 1 .. COLS - 1 |-> Shown(screen_buffer[l][k])]
    <3>1. l \in 0 .. DEPTH - 2 /\ l + 1 \in 0 .. ROWS - 1
      BY <2>1
    <3>2. \A k \in 1 .. COLS - 1 : Shown(screen_buffer[l][k]) = Shown(picture[l + 1][k])
      BY <3>1 DEF TermInv, BufferIsPictureMovedUp, Cells
    <3>. QED  BY <3>1, <3>2 DEF Window, WindowOn
  <2>2. ASSUME NEW l \in 0 .. ROWS - 1, ~(l + 1 < ROWS)
        PROVE  [k \in 1 .. COLS - 1 |-> Space] =
                   [k \in 1 .. COLS - 1 |-> Shown(screen_buffer[l][k])]
    BY <2>2 DEF TermInv, BelowIsBlank, Lines, Cells
  <2>. DEFINE W == [l \in 0 .. ROWS - 1 |->
                       IF l + 1 < ROWS THEN Window[l + 1]
                       ELSE [k \in 1 .. COLS - 1 |-> Space]]
              V == [l \in 0 .. ROWS - 1 |->
                       [k \in 1 .. COLS - 1 |-> Shown(screen_buffer[l][k])]]
  <2>3. \A l \in 0 .. ROWS - 1 : W[l] = V[l]
    BY <2>1, <2>2
  <2>4. Screen!Fed = W
    BY <1>2 DEF Screen!Fed, Screen!Line, Screen!Column, Screen!BlankLine, Window, WindowOn
  <2>5. W = V
    BY <2>3
  <2>. QED  BY <1>2, <2>4, <2>5 DEF WindowOn
<1>. QED  BY <1>1, <1>2

LEMMA NewlineRefines ==
    ASSUME TermInv, PutNewline
    PROVE  Screen!LineFeed
<1>0. cursor_position_y \in 0 .. ROWS - 1
  BY DEF TermInv, TermTypeOK
<1>1. CASE cursor_position_y + 1 < ROWS
  <2>1. picture' = picture /\ cursor_position_y' = cursor_position_y + 1
    BY <1>0, <1>1, NoScroll DEF PutNewline
  <2>. QED  BY <1>1, <2>1, FedIs DEF PutNewline, Screen!LineFeed, Screen!NextLine,
              Window, WindowOn
<1>2. CASE ~(cursor_position_y + 1 < ROWS)
  <2>1. cursor_position_y = ROWS - 1 /\ cursor_position_y + 1 = ROWS
    BY <1>0, <1>2
  <2>. ScrollScreen(ROWS, screen_buffer, picture)
    BY <2>1 DEF PutNewline
  <2>2. picture' = screen_buffer /\ cursor_position_y' = cursor_position_y
    BY <2>1, ScrollShows
  <2>. QED  BY <1>2, <2>2, FedIs DEF PutNewline, Screen!LineFeed, Screen!NextLine,
              Window, WindowOn
<1>. QED  BY <1>1, <1>2

LEMMA PrintableRefines ==
    ASSUME TermInv, NEW c \in Printable, PutPrintable(c)
    PROVE  Screen!Write(c)
<1>0. /\ cursor_position_x \in 1 .. COLS
      /\ cursor_position_y \in 0 .. ROWS - 1
      /\ Shown(c) = c
  BY DEF TermInv, TermTypeOK, Shown
<1>1. CASE cursor_position_x < COLS
  <2>1. /\ cursor_position_x' = cursor_position_x + 1
        /\ picture' = Stored(picture, cursor_position_y, cursor_position_x, c)
        /\ cursor_position_y' = cursor_position_y
    BY <1>0, <1>1, NoScroll DEF PutPrintable
  <2>2. \A l \in Lines, k \in Cells :
            picture'[l][k] = IF l = cursor_position_y /\ k = cursor_position_x
                             THEN c ELSE picture[l][k]
    <3>. cursor_position_x \in 1 .. COLS - 1 /\ cursor_position_y \in 0 .. ROWS
      BY <1>0, <1>1
    <3>. QED  BY <2>1, Placed
  <2>3. \A l \in 0 .. ROWS - 1, k \in 1 .. COLS - 1 : l \in Lines /\ k \in Cells
    BY DEF Lines, Cells
  <2>4. Window' = [Window EXCEPT ![cursor_position_y] =
                      [@ EXCEPT ![cursor_position_x] = c]]
    <3>1. cursor_position_x \in 1 .. COLS - 1
      BY <1>0, <1>1
    <3>2. \A l \in 0 .. ROWS - 1, k \in 1 .. COLS - 1 :
              Shown(picture'[l][k]) = IF l = cursor_position_y /\ k = cursor_position_x
                                      THEN c ELSE Shown(picture[l][k])
      BY <1>0, <2>2, <2>3
    <3>3. WindowOn(picture') =
              WindowWritten(WindowOn(picture), cursor_position_y, cursor_position_x, c)
      BY <1>0, <3>1, <3>2, CellWritten
    <3>. QED  BY <3>3 DEF Window, WindowOn, WindowWritten
  <2>. QED  BY <1>1, <2>1, <2>4 DEF Screen!Write, Window, WindowOn
<1>2. CASE cursor_position_x = COLS
  <2>. DEFINE y == cursor_position_y + 1
              B == Stored(screen_buffer, y - 1, 1, c)
              P == Stored(picture, y, 1, c)
              last == IF y < ROWS THEN y ELSE ROWS - 1
  <2>1. cursor_position_x' = 2 /\ ScrollScreen(y, B, P)
    BY <1>0, <1>2 DEF PutPrintable
  <2>2. \A l \in Lines, k \in Cells :
            /\ B[l][k] = IF l + 1 = y /\ k = 1 THEN c ELSE screen_buffer[l][k]
            /\ P[l][k] = IF l = y /\ k = 1 THEN c ELSE picture[l][k]
    <3>. 1 \in 1 .. COLS - 1 /\ y \in 0 .. ROWS /\ y # 0
      BY <1>0
    <3>. QED  BY Placed
  <2>3. \A l \in 0 .. ROWS - 1, k \in 1 .. COLS - 1 : l \in Lines /\ k \in Cells
    BY DEF Lines, Cells
  <2>4. /\ cursor_position_y' = last
        /\ picture' = IF y < ROWS THEN P ELSE B
    <3>1. CASE y < ROWS
      BY <1>0, <2>1, <3>1, NoScroll
    <3>2. CASE ~(y < ROWS)
      <4>1. y = ROWS
        BY <1>0, <3>2
      <4>. QED  BY <2>1, <3>2, <4>1, ScrollShows
    <3>. QED  BY <3>1, <3>2
  <2>5. Window' = WindowWritten(Screen!Fed, last, 1, c)
    <3>1. CASE y < ROWS
      <4>1. Screen!Fed = WindowOn(picture) /\ last = y /\ picture' = P /\ last \in 0 .. ROWS - 1
        BY <1>0, <2>4, <3>1, FedIs DEF Window
      <4>. HIDE DEF P
      <4>2. \A l \in 0 .. ROWS - 1, k \in 1 .. COLS - 1 :
                Shown(P[l][k]) = IF l = last /\ k = 1 THEN c ELSE Shown(picture[l][k])
        BY <1>0, <2>2, <2>3, <4>1
      <4>3. WindowOn(P) = WindowWritten(WindowOn(picture), last, 1, c)
        BY <4>1, <4>2, CellWritten
      <4>. QED  BY <4>1, <4>3 DEF Window, WindowOn, WindowWritten
    <3>2. CASE ~(y < ROWS)
      <4>1. /\ Screen!Fed = WindowOn(screen_buffer)
            /\ last = ROWS - 1 /\ last + 1 = y /\ picture' = B /\ last \in 0 .. ROWS - 1
        BY <1>0, <2>4, <3>2, FedIs
      <4>. HIDE DEF B, last
      <4>2. \A l \in 0 .. ROWS - 1, k \in 1 .. COLS - 1 :
                Shown(B[l][k]) = IF l = last /\ k = 1 THEN c ELSE Shown(screen_buffer[l][k])
        BY <1>0, <2>2, <2>3, <4>1
      <4>3. WindowOn(B) = WindowWritten(WindowOn(screen_buffer), last, 1, c)
        BY <4>1, <4>2, CellWritten
      <4>. QED  BY <4>1, <4>3 DEF Window, WindowOn, WindowWritten
    <3>. QED  BY <3>1, <3>2
  <2>6. last = Screen!NextLine
    BY <1>0 DEF Screen!NextLine
  <2>. HIDE DEF B, P, last
  <2>. QED
    BY <1>2, <2>1, <2>4, <2>5, <2>6 DEF Screen!Write, Window, WindowOn, WindowWritten
<1>. QED  BY <1>0, <1>1, <1>2

(* The terminal is a window on the last lines of what is printed: every    *)
(* initial state is one of ScrollingWindow, and every character is a step  *)
(* of it, or none, for every size of screen, buffer and picture.           *)
THEOREM ShowsLastLines == TermSpec => ShowsTheLastLines
<1>1. TermInit => Screen!WindowInit
  BY DEF TermInit, Screen!WindowInit, Screen!Line, Screen!Column, Screen!BlankLine,
         Shown, Lines, Cells
<1>2. TermInv /\ [TermNext]_termVars =>
          [Screen!WindowNext]_<<Window, cursor_position_x, cursor_position_y>>
  <2>. SUFFICES ASSUME TermInv, [TermNext]_termVars
                PROVE  Screen!WindowNext
                           \/ UNCHANGED <<Window, cursor_position_x, cursor_position_y>>
    OBVIOUS
  <2>1. ASSUME NEW c \in Printable \cup {"\r", "\n"} \cup Other, terminal_put_char(c)
        PROVE  Screen!WindowNext
                   \/ UNCHANGED <<Window, cursor_position_x, cursor_position_y>>
    BY <2>1, PrintableRefines, ReturnRefines, NewlineRefines, OtherStutters
       DEF terminal_put_char, Screen!WindowNext
  <2>2. CASE UNCHANGED termVars
    BY <2>2 DEF termVars, Window, WindowOn
  <2>. QED  BY <2>1, <2>2 DEF TermNext
<1>3. TermSpec => []TermInv
  BY InitInv, StepInv, PTL DEF TermSpec
<1>. QED
  BY <1>1, <1>2, <1>3, PTL DEF TermSpec, ShowsTheLastLines, Screen!WindowSpec,
         Window, WindowOn

-----------------------------------------------------------------------------
(* What a recursive definition over the naturals defines: a sequence of    *)
(* values, each a step from the one before.                                *)
Begins(S, v, step, n, f) ==
    /\ f \in [0 .. n -> S]
    /\ f[0] = v
    /\ \A k \in 1 .. n : f[k] = step[<<k, f[k - 1]>>]

LEMMA BeginsExists ==
    ASSUME NEW S, NEW v \in S, NEW step \in [Nat \X S -> S]
    PROVE  \A n \in Nat : \E f : Begins(S, v, step, n, f)
<1>. DEFINE T == {n \in Nat : \E f : Begins(S, v, step, n, f)}
<1>1. 0 \in T
  <2>1. Begins(S, v, step, 0, [k \in 0 .. 0 |-> v])
    BY DEF Begins
  <2>. QED  BY <2>1
<1>2. ASSUME NEW n \in T PROVE n + 1 \in T
  <2>1. PICK f : Begins(S, v, step, n, f)
    OBVIOUS
  <2>2. n \in Nat /\ n \in 0 .. n /\ n + 1 \in Nat
    OBVIOUS
  <2>. DEFINE last == step[<<n + 1, f[n]>>]
              g == [k \in 0 .. n + 1 |-> IF k = n + 1 THEN last ELSE f[k]]
  <2>3. last \in S
    BY <2>1, <2>2 DEF Begins
  <2>. HIDE DEF last
  <2>4. /\ g \in [0 .. n + 1 -> S] /\ g[n + 1] = last
        /\ \A k \in 0 .. n : g[k] = f[k]
    BY <2>1, <2>2, <2>3 DEF Begins
  <2>. HIDE DEF g
  <2>5. g[0] = v
    BY <2>1, <2>2, <2>4 DEF Begins
  <2>6. ASSUME NEW k \in 1 .. n + 1 PROVE g[k] = step[<<k, g[k - 1]>>]
    <3>1. CASE k = n + 1
      <4>1. k - 1 = n
        BY <2>2, <3>1
      <4>. QED  BY <2>2, <2>4, <3>1, <4>1 DEF last
    <3>2. CASE k # n + 1
      <4>1. k \in 1 .. n /\ k \in 0 .. n /\ k - 1 \in 0 .. n
        BY <2>2, <3>2
      <4>. QED  BY <2>1, <2>4, <4>1 DEF Begins
    <3>. QED  BY <3>1, <3>2
  <2>7. Begins(S, v, step, n + 1, g)
    BY <2>4, <2>5, <2>6 DEF Begins
  <2>. QED  BY <2>2, <2>7
<1>. HIDE DEF T
<1>3. T = Nat
  <2>1. T \in SUBSET Nat
    BY DEF T
  <2>. QED  BY <1>1, <1>2, <2>1, Induction
<1>. QED  BY <1>3 DEF T

LEMMA BeginsAlike ==
    ASSUME NEW S, NEW v, NEW step, NEW m \in Nat, NEW n \in Nat, m <= n,
           NEW f, NEW g, Begins(S, v, step, m, f), Begins(S, v, step, n, g)
    PROVE  f[m] = g[m]
<1>. DEFINE T == {k \in Nat : k <= m => f[k] = g[k]}
<1>1. 0 \in T
  BY DEF Begins
<1>2. ASSUME NEW k \in T PROVE k + 1 \in T
  <2>1. k \in Nat
    OBVIOUS
  <2>2. ASSUME k + 1 <= m PROVE f[k + 1] = g[k + 1]
    <3>1. k + 1 \in 1 .. m /\ k + 1 \in 1 .. n /\ (k + 1) - 1 = k
      BY <2>1, <2>2
    <3>2. f[k] = g[k]
      BY <2>1, <2>2
    <3>. QED  BY <3>1, <3>2 DEF Begins
  <2>. QED  BY <2>1, <2>2
<1>. HIDE DEF T
<1>3. T = Nat
  <2>1. T \in SUBSET Nat
    BY DEF T
  <2>. QED  BY <1>1, <1>2, <2>1, Induction
<1>. QED  BY <1>3 DEF T

Unfolds(v, step, f) == f = [n \in Nat |-> IF n = 0 THEN v ELSE step[<<n, f[n - 1]>>]]

LEMMA Recursion ==
    ASSUME NEW S, NEW v \in S, NEW step \in [Nat \X S -> S]
    PROVE  \E f \in [Nat -> S] : Unfolds(v, step, f)
<1>. DEFINE g(n) == CHOOSE h : Begins(S, v, step, n, h)
            f == [n \in Nat |-> g(n)[n]]
<1>1. \A n \in Nat : Begins(S, v, step, n, g(n))
  BY BeginsExists
<1>. HIDE DEF g
<1>2. ASSUME NEW n \in Nat PROVE f[n] \in S
  <2>1. n \in 0 .. n
    OBVIOUS
  <2>. QED  BY <1>1, <2>1 DEF Begins
<1>3. f[0] = v
  BY <1>1 DEF Begins
<1>4. ASSUME NEW n \in Nat \ {0} PROVE f[n] = step[<<n, f[n - 1]>>]
  <2>1. n - 1 \in Nat /\ n \in Nat /\ n - 1 <= n /\ n \in 1 .. n
    OBVIOUS
  <2>2. Begins(S, v, step, n, g(n)) /\ Begins(S, v, step, n - 1, g(n - 1))
    BY <1>1, <2>1
  <2>3. g(n - 1)[n - 1] = g(n)[n - 1]
    <3>. DEFINE m == n - 1
                a == g(m)
                b == g(n)
    <3>1. m \in Nat /\ n \in Nat /\ m <= n /\ Begins(S, v, step, n, b) /\ Begins(S, v, step, m, a)
      BY <2>1, <2>2
    <3>. HIDE DEF m, a, b
    <3>2. a[m] = b[m]
      BY <3>1, BeginsAlike
    <3>. QED  BY <3>2 DEF m, a, b
  <2>4. g(n)[n] = step[<<n, g(n)[n - 1]>>]
    BY <2>1, <2>2 DEF Begins
  <2>. QED  BY <2>1, <2>3, <2>4
<1>5. f = [n \in Nat |-> f[n]]
  OBVIOUS
<1>. HIDE DEF f
<1>6. f \in [Nat -> S]
  BY <1>2, <1>5
<1>7. f = [n \in Nat |-> IF n = 0 THEN v ELSE step[<<n, f[n - 1]>>]]
  BY <1>3, <1>4, <1>5
<1>. QED  BY <1>6, <1>7 DEF Unfolds

(* Powers of ten.                                                          *)
LEMMA TenToIs ==
    /\ TenTo[0] = 1
    /\ \A n \in Nat : TenTo[n + 1] = 10 * TenTo[n]
    /\ \A n \in Nat : TenTo[n] \in Nat
<1>. DEFINE step == [x \in Nat \X Nat |-> 10 * x[2]]
            G(f) == [n \in Nat |-> IF n = 0 THEN 1 ELSE 10 * f[n - 1]]
<1>1. step \in [Nat \X Nat -> Nat]
  OBVIOUS
<1>2. \A n \in Nat, m \in Nat : step[<<n, m>>] = 10 * m
  OBVIOUS
<1>. HIDE DEF step
<1>3. PICK f \in [Nat -> Nat] : Unfolds(1, step, f)
  <2>1. \A v \in Nat : \E f \in [Nat -> Nat] : Unfolds(v, step, f)
    BY <1>1, Recursion
  <2>. QED  BY <2>1
<1>4. f = G(f)
  <2>0. f = [n \in Nat |-> IF n = 0 THEN 1 ELSE step[<<n, f[n - 1]>>]]
    BY <1>3 DEF Unfolds
  <2>1. ASSUME NEW n \in Nat, n # 0 PROVE step[<<n, f[n - 1]>>] = 10 * f[n - 1]
    <3>1. n - 1 \in Nat
      BY <2>1
    <3>. QED  BY <1>2, <3>1
  <2>. QED  BY <2>0, <2>1
<1>5. TenTo = CHOOSE h : h = G(h)
  BY DEF TenTo
<1>6. TenTo = G(TenTo)
  BY <1>4, <1>5
<1>. DEFINE t == TenTo
<1>. HIDE DEF t
<1>7. \A n \in Nat : t[n] = IF n = 0 THEN 1 ELSE 10 * t[n - 1]
  BY <1>6 DEF t
<1>8. t[0] = 1
  BY <1>7
<1>9. ASSUME NEW n \in Nat PROVE t[n + 1] = 10 * t[n]
  <2>1. n + 1 \in Nat /\ n + 1 # 0 /\ (n + 1) - 1 = n
    OBVIOUS
  <2>. QED  BY <1>7, <2>1
<1>10. \A n \in Nat : t[n] \in Nat
  <2>. DEFINE T == {n \in Nat : t[n] \in Nat}
  <2>1. 0 \in T
    BY <1>8
  <2>2. ASSUME NEW n \in T PROVE n + 1 \in T
    BY <1>9
  <2>. HIDE DEF T
  <2>3. T = Nat
    <3>1. T \in SUBSET Nat
      BY DEF T
    <3>. QED  BY <2>1, <2>2, <3>1, Induction
  <2>. QED  BY <2>3 DEF T
<1>. QED  BY <1>8, <1>9, <1>10 DEF t

LEMMA TenToGrows ==
    ASSUME NEW m \in Nat, NEW n \in Nat, m <= n
    PROVE  1 <= TenTo[m] /\ TenTo[m] <= TenTo[n]
<1>. DEFINE t == TenTo
<1>1. t[0] = 1 /\ (\A k \in Nat : t[k + 1] = 10 * t[k]) /\ (\A k \in Nat : t[k] \in Nat)
  BY TenToIs
<1>. HIDE DEF t
<1>. DEFINE T == {k \in Nat : 1 <= t[k] /\ \A j \in 0 .. k : t[j] <= t[k]}
<1>2. 0 \in T
  BY <1>1
<1>3. ASSUME NEW k \in T PROVE k + 1 \in T
  <2>1. k \in Nat /\ t[k] \in Nat /\ t[k + 1] = 10 * t[k] /\ 1 <= t[k] /\ k + 1 \in Nat
    BY <1>1
  <2>2. t[k] <= t[k + 1] /\ 1 <= t[k + 1]
    BY <2>1
  <2>3. ASSUME NEW j \in 0 .. k + 1 PROVE t[j] <= t[k + 1]
    <3>1. CASE j = k + 1
      BY <2>1, <3>1
    <3>2. CASE j # k + 1
      <4>1. j \in 0 .. k /\ t[j] \in Nat /\ t[j] <= t[k]
        BY <1>1, <2>1, <3>2
      <4>. QED  BY <2>1, <2>2, <4>1
    <3>. QED  BY <3>1, <3>2
  <2>. QED  BY <2>1, <2>2, <2>3
<1>. HIDE DEF T
<1>4. T = Nat
  <2>1. T \in SUBSET Nat
    BY DEF T
  <2>. QED  BY <1>2, <1>3, <2>1, Induction
<1>5. m \in T /\ n \in T /\ m \in 0 .. n
  BY <1>4
<1>. QED  BY <1>5 DEF T, t

(* The numeral of k digits at the end of the buffer b, with what its last  *)
(* n digits denote, for each n.                                            *)
Abs(n) == IF n < 0 THEN -n ELSE n

Numeral(b, k, value) ==
    /\ value \in [Nat -> Nat]
    /\ value[0] = 0
    /\ \A n \in Nat : n < k =>
          /\ b[INT_DIGITS - n] \in 0 .. 9
          /\ value[n + 1] = value[n] + TenTo[n] * b[INT_DIGITS - n]

(* A digit before the numeral is its new leading one.                      *)
LEMMA NumeralGrows ==
    ASSUME NEW k \in Nat, k < INT_DIGITS, NEW d \in 0 .. 9, NEW E, (0 .. 9) \subseteq E,
           NEW b \in [0 .. INT_DIGITS + 1 -> E], NEW value, Numeral(b, k, value)
    PROVE  \E v : /\ Numeral([b EXCEPT ![INT_DIGITS - k] = d], k + 1, v)
                  /\ v[k + 1] = value[k] + TenTo[k] * d
<1>. DEFINE t == TenTo
            c == [b EXCEPT ![INT_DIGITS - k] = d]
            last == value[k] + t[k] * d
            v == [value EXCEPT ![k + 1] = last]
<1>1. \A n \in Nat : t[n] \in Nat
  BY TenToIs
<1>. HIDE DEF t
<1>2. INT_DIGITS \in Nat
  BY UtilitiesAssumption
<1>3. value[k] \in Nat /\ t[k] \in Nat /\ d \in Nat /\ k + 1 \in Nat
  BY <1>1 DEF Numeral
<1>4. last \in Nat
  <2>1. t[k] * d \in Nat
    BY <1>3
  <2>. QED  BY <1>3, <2>1, SMTT(30)
<1>5. INT_DIGITS - k \in 0 .. INT_DIGITS + 1
  BY <1>2
<1>6. c[INT_DIGITS - k] = d /\ \A n \in Nat : n < k => c[INT_DIGITS - n] = b[INT_DIGITS - n]
  BY <1>2, <1>5
<1>. HIDE DEF c, last
<1>7. /\ v \in [Nat -> Nat] /\ v[k + 1] = last
      /\ \A n \in Nat : n # k + 1 => v[n] = value[n]
  BY <1>3, <1>4 DEF Numeral
<1>. HIDE DEF v
<1>8. v[0] = 0
  BY <1>7 DEF Numeral
<1>9. ASSUME NEW n \in Nat, n < k + 1
      PROVE  c[INT_DIGITS - n] \in 0 .. 9 /\ v[n + 1] = v[n] + t[n] * c[INT_DIGITS - n]
  <2>1. CASE n = k
    <3>1. v[n] = value[k]
      BY <1>7, <2>1
    <3>. QED  BY <1>6, <1>7, <2>1, <3>1 DEF last
  <2>2. CASE n # k
    <3>1. n < k /\ n # k + 1 /\ n + 1 # k + 1 /\ n + 1 \in Nat
      BY <1>9, <2>2
    <3>2. v[n] = value[n] /\ v[n + 1] = value[n + 1] /\ c[INT_DIGITS - n] = b[INT_DIGITS - n]
      BY <1>6, <1>7, <3>1
    <3>3. b[INT_DIGITS - n] \in 0 .. 9 /\ value[n + 1] = value[n] + t[n] * b[INT_DIGITS - n]
      BY <3>1 DEF Numeral, t
    <3>. QED  BY <3>2, <3>3
  <2>. QED  BY <2>1, <2>2
<1>10. Numeral(c, k + 1, v)
  BY <1>7, <1>8, <1>9 DEF Numeral, t
<1>. QED  BY <1>7, <1>10 DEF c, last, t

LEMMA Shifted ==
    ASSUME NEW a \in Int, NEW q \in Int, NEW d \in Int, NEW t \in Int, NEW u \in Int,
           a = 10 * q + d
    PROVE  q * (10 * t) + (u + t * d) = a * t + u
OBVIOUS

(* One turn of the loop takes the last digit off the number.               *)
LEMMA TurnDivides ==
    ASSUME NEW n \in Int
    PROVE  LET d == IF n >= 0 THEN Remainder(n) ELSE -Remainder(n)
           IN  /\ Quotient(n) \in Int /\ d \in 0 .. 9
               /\ Abs(n) = 10 * Abs(Quotient(n)) + d
               /\ n >= 0 => Quotient(n) >= 0 /\ Quotient(n) <= n
               /\ n <= 0 => Quotient(n) <= 0 /\ n <= Quotient(n)
<1>. DEFINE m == Abs(n)
            q == m \div 10
<1>1. m \in Nat
  BY DEF Abs
<1>. HIDE DEF m
<1>2. q \in Nat /\ 10 * q <= m /\ m <= 10 * q + 9
  BY <1>1
<1>3. n >= 0 => m = n /\ Quotient(n) = q
  BY DEF m, Abs, Quotient
<1>4. n < 0 => m = -n /\ Quotient(n) = -q
  BY DEF m, Abs, Quotient
<1>. HIDE DEF q
<1>5. CASE n >= 0
  BY <1>1, <1>2, <1>3, <1>5 DEF Abs, Remainder
<1>6. CASE n < 0
  <2>1. Abs(Quotient(n)) = q
    BY <1>2, <1>4, <1>6 DEF Abs
  <2>. QED  BY <1>1, <1>2, <1>4, <1>6, <2>1 DEF Remainder, m
<1>. QED  BY <1>5, <1>6

-----------------------------------------------------------------------------
UtilTypes ==
    /\ stage \in {"itoa", "sign", "converted", "x_strcmp", "compared"}
    /\ number \in Int_ /\ i \in Int_
    /\ p \in 0 .. INT_DIGITS + 1
    /\ buf \in [0 .. INT_DIGITS + 1 -> (0 .. 9) \cup {Minus, End, Unset}]
    /\ buf[INT_DIGITS + 1] = End
    /\ s1 \in Strings /\ s2 \in Strings
    /\ at \in Nat \ {0}

(* The leading digit, before and after the sign is put before it.          *)
Leading == IF stage = "converted" /\ number < 0 THEN p + 1 ELSE p
Length == INT_DIGITS + 1 - Leading

(* The digits written and the number left make up the argument of itoa.    *)
PartsOfTheNumber ==
    stage \in {"itoa", "sign", "converted"} =>
        /\ Length \in 0 .. INT_DIGITS
        /\ number >= 0 => i >= 0
        /\ number < 0 => i <= 0
        /\ \E v : /\ Numeral(buf, Length, v)
                  /\ Abs(i) * TenTo[Length] + v[Length] = Abs(number)

(* What else a stage says: a number that is not zero has a digit left to   *)
(* write, then its leading digit is not zero, and a sign if it has one.    *)
ByStage ==
    /\ stage = "itoa" => IF number = 0 THEN Length = 0 /\ i = 0 ELSE i # 0
    /\ stage \in {"sign", "converted"} =>
          /\ i = 0 /\ Length > 0
          /\ number # 0 => buf[Leading] # 0
    /\ stage = "sign" => number < 0
    /\ stage = "converted" /\ number < 0 => buf[p] = Minus

SameSoFar ==
    /\ at <= Len(s1) + 1 /\ at <= Len(s2) + 1
    /\ \A k \in 1 .. at - 1 : s1[k] = s2[k]
    /\ stage = "compared" => CharAt(s1, at) # CharAt(s2, at) \/ CharAt(s2, at) = 0

UtilInv == UtilTypes /\ PartsOfTheNumber /\ ByStage /\ SameSoFar

LEMMA StringIs ==
    ASSUME NEW s \in Strings
    PROVE  /\ Len(s) \in Nat
           /\ \A k \in 1 .. Len(s) : s[k] \in 1 .. MaxChar
<1>1. PICK n \in 0 .. MaxString : s \in [1 .. n -> 1 .. MaxChar]
  BY DEF Strings
<1>2. n \in Nat
  BY UtilitiesAssumption
<1>3. s \in Seq(1 .. MaxChar)
  <2>. DEFINE T == 1 .. MaxChar
  <2>. HIDE DEF T
  <2>. QED  BY <1>1, <1>2, SeqDef DEF T
<1>4. Len(s) \in Nat /\ s \in [1 .. Len(s) -> 1 .. MaxChar]
  BY <1>3, LenProperties
<1>. QED  BY <1>4

LEMMA UtilBegins == UtilInit => UtilInv
<1>. SUFFICES ASSUME UtilInit PROVE UtilInv
  OBVIOUS
<1>. USE UtilitiesAssumption
<1>1. <<>> \in Strings
  <2>1. <<>> \in [1 .. 0 -> 1 .. MaxChar] /\ 0 \in 0 .. MaxString
    OBVIOUS
  <2>2. \E n \in 0 .. MaxString : <<>> \in [1 .. n -> 1 .. MaxChar]
    BY <2>1
  <2>. QED  BY <2>2, Zenon DEF Strings
<1>2. number \in Int_ /\ i = number /\ s1 \in Strings /\ s2 \in Strings
  BY <1>1 DEF UtilInit, Int_
<1>3. UtilTypes
  BY <1>2 DEF UtilInit, UtilTypes
<1>4. Len(s1) \in Nat /\ Len(s2) \in Nat
  BY <1>2, StringIs
<1>5. SameSoFar
  BY <1>4 DEF UtilInit, SameSoFar
<1>6. Length = 0
  BY DEF UtilInit, Length, Leading
<1>7. Numeral(buf, 0, [n \in Nat |-> 0])
  BY DEF Numeral
<1>8. number \in Int /\ i \in Int
  BY <1>2 DEF Int_
<1>9. Abs(i) * TenTo[0] + 0 = Abs(number)
  BY <1>2, <1>8, TenToIs DEF Abs
<1>10. PartsOfTheNumber
  <2>. DEFINE v == [n \in Nat |-> 0]
  <2>1. v[0] = 0 /\ Numeral(buf, 0, v)
    BY <1>7
  <2>. HIDE DEF v
  <2>2. Numeral(buf, Length, v) /\ Abs(i) * TenTo[Length] + v[Length] = Abs(number)
    BY <1>6, <1>9, <2>1
  <2>3. Length \in 0 .. INT_DIGITS
    BY <1>6
  <2>4. \E w : /\ Numeral(buf, Length, w)
               /\ Abs(i) * TenTo[Length] + w[Length] = Abs(number)
    BY <2>2
  <2>5. /\ number >= 0 => i >= 0
        /\ number < 0 => i <= 0
    BY <1>2, <1>8
  <2>. QED  BY <2>3, <2>4, <2>5, Zenon DEF PartsOfTheNumber
<1>11. ByStage
  BY <1>2, <1>6 DEF UtilInit, ByStage
<1>. QED  BY <1>3, <1>5, <1>10, <1>11 DEF UtilInv

(* A number not yet written out has room for its leading digits.           *)
LEMMA RoomForMore ==
    ASSUME NEW k \in Nat, NEW n \in Int_, NEW a \in Nat, a >= 1, NEW u \in Nat,
           a * TenTo[k] + u = Abs(n)
    PROVE  k < INT_DIGITS
<1>. USE UtilitiesAssumption
<1>1. PICK m \in 0 .. INT_DIGITS : TenTo[m] > INT_MAX + 1
  OBVIOUS
<1>2. m \in Nat /\ m <= INT_DIGITS
  OBVIOUS
<1>. SUFFICES ASSUME m <= k PROVE FALSE
  BY <1>2
<1>3. 1 <= TenTo[m] /\ TenTo[m] <= TenTo[k]
  BY <1>2, TenToGrows
<1>4. TenTo[k] \in Nat /\ TenTo[m] \in Nat
  BY <1>2, TenToIs
<1>. DEFINE t == TenTo[k]
<1>5. a * t >= t
  <2>1. t \in Nat
    BY <1>4
  <2>. HIDE DEF t
  <2>. QED  BY <2>1
<1>6. a * t \in Int
  <2>1. t \in Nat
    BY <1>4
  <2>. HIDE DEF t
  <2>. QED  BY <2>1
<1>7. Abs(n) <= INT_MAX + 1
  BY DEF Int_, Abs
<1>8. Abs(n) \in Int /\ a * t + u = Abs(n) /\ TenTo[m] > INT_MAX + 1 /\ TenTo[m] <= t
  BY <1>1, <1>3 DEF Int_, Abs
<1>. HIDE DEF t
<1>9. INT_MAX + 1 \in Int /\ t \in Int /\ TenTo[m] \in Int
  BY <1>4 DEF t
<1>. DEFINE x == a * t
            z == TenTo[m]
            y == Abs(n)
<1>. HIDE DEF x, y, z
<1>10. x >= t /\ x \in Int /\ y <= INT_MAX + 1 /\ y \in Int /\ x + u = y /\ z > INT_MAX + 1 /\ z <= t /\ z \in Int
  BY <1>5, <1>6, <1>7, <1>8, <1>9 DEF x, y, z
<1>. QED  BY <1>9, <1>10

LEMMA DigitKeeps == UtilInv /\ Digit => UtilInv'
<1>. SUFFICES ASSUME UtilInv, Digit PROVE UtilInv'
  OBVIOUS
<1>. DEFINE k == Length
            d == IF i >= 0 THEN Remainder(i) ELSE -Remainder(i)
            D == INT_DIGITS
<1>1. stage = "itoa" /\ Leading = p /\ p = D + 1 - k /\ k \in 0 .. D /\ D \in Nat /\ k \in Nat
  BY UtilitiesAssumption DEF Digit, Leading, Length, UtilInv, UtilTypes, PartsOfTheNumber
<1>2. i \in Int_ /\ number \in Int_ /\ i \in Int /\ number \in Int /\ INT_MAX \in Nat
  BY UtilitiesAssumption DEF UtilInv, UtilTypes, Int_
<1>3. /\ Quotient(i) \in Int /\ d \in 0 .. 9 /\ Abs(i) = 10 * Abs(Quotient(i)) + d
      /\ i >= 0 => Quotient(i) >= 0 /\ Quotient(i) <= i
      /\ i <= 0 => Quotient(i) <= 0 /\ i <= Quotient(i)
  BY <1>2, TurnDivides
<1>4. p' = p - 1 /\ i' = Quotient(i) /\ number' = number /\ buf' = [buf EXCEPT ![p - 1] = d]
      /\ s1' = s1 /\ s2' = s2 /\ at' = at
  BY DEF Digit
<1>5. stage' = IF i' # 0 THEN "itoa" ELSE IF number < 0 THEN "sign" ELSE "converted"
  BY <1>1, <1>4 DEF Digit
<1>6. PICK v : Numeral(buf, k, v) /\ Abs(i) * TenTo[k] + v[k] = Abs(number)
  BY <1>1 DEF UtilInv, PartsOfTheNumber
<1>7. v[k] \in Nat /\ TenTo[k] \in Nat /\ TenTo[k + 1] = 10 * TenTo[k]
  BY <1>1, <1>6, TenToIs DEF Numeral
<1>8. k < D
  <2>1. CASE number = 0
    <3>1. k = 0
      BY <1>1, <2>1 DEF UtilInv, ByStage
    <3>2. \A m \in 0 .. D : TenTo[m] > INT_MAX + 1 => m # 0
      BY <1>2, TenToIs
    <3>. QED  BY <1>1, <3>1, <3>2, UtilitiesAssumption
  <2>2. CASE number # 0
    <3>1. i # 0
      BY <1>1, <2>2 DEF UtilInv, ByStage
    <3>2. Abs(i) \in Nat /\ Abs(i) >= 1
      BY <1>2, <3>1 DEF Abs
    <3>. DEFINE a == Abs(i)
                u == v[k]
    <3>3. a \in Nat /\ a >= 1 /\ u \in Nat /\ a * TenTo[k] + u = Abs(number)
      BY <1>6, <1>7, <3>2
    <3>. HIDE DEF a, u, k
    <3>4. k \in Nat
      BY <1>1
    <3>. QED  BY <1>2, <3>3, <3>4, RoomForMore
  <2>. QED  BY <2>1, <2>2
<1>9. p - 1 = D - k /\ p - 1 \in 1 .. D
  BY <1>1, <1>8
<1>10. Leading' = p - 1 /\ Length' = k + 1
  BY <1>1, <1>4, <1>5 DEF Leading, Length
<1>11. buf \in [0 .. D + 1 -> (0 .. 9) \cup {Minus, End, Unset}]
  BY DEF UtilInv, UtilTypes
<1>12. UtilTypes'
  <2>1. i' \in Int_
    BY <1>2, <1>3, <1>4 DEF Int_
  <2>2. buf' \in [0 .. D + 1 -> (0 .. 9) \cup {Minus, End, Unset}]
    BY <1>3, <1>4, <1>9, <1>11
  <2>3. buf'[D + 1] = End
    BY <1>1, <1>4, <1>9, <1>11 DEF UtilInv, UtilTypes
  <2>. QED  BY <1>1, <1>4, <1>5, <1>9, <2>1, <2>2, <2>3 DEF UtilInv, UtilTypes
<1>13. \E w : Numeral(buf', k + 1, w) /\ w[k + 1] = v[k] + TenTo[k] * d
  <2>. DEFINE b == buf
              E == (0 .. 9) \cup {Minus, End, Unset}
  <2>1. k \in Nat /\ k < INT_DIGITS /\ d \in 0 .. 9 /\ (0 .. 9) \subseteq E
        /\ b \in [0 .. INT_DIGITS + 1 -> E] /\ Numeral(b, k, v)
    BY <1>1, <1>3, <1>6, <1>8, <1>11
  <2>2. buf' = [b EXCEPT ![INT_DIGITS - k] = d]
    BY <1>4, <1>9
  <2>. HIDE DEF b, k, d, E
  <2>3. \E w : /\ Numeral([b EXCEPT ![INT_DIGITS - k] = d], k + 1, w)
               /\ w[k + 1] = v[k] + TenTo[k] * d
    BY <2>1, NumeralGrows, ZenonT(40)
  <2>. QED  BY <2>2, <2>3
<1>14. Abs(i') * TenTo[k + 1] + (v[k] + TenTo[k] * d) = Abs(number)
  <2>. DEFINE a == Abs(i)
              q == Abs(Quotient(i))
              t == TenTo[k]
              u == v[k]
  <2>1. a \in Int /\ q \in Int /\ d \in Int /\ t \in Int /\ u \in Int /\ a = 10 * q + d
    BY <1>2, <1>3, <1>7 DEF Abs
  <2>2. a * t + u = Abs(number) /\ TenTo[k + 1] = 10 * t /\ Abs(i') = q
    BY <1>4, <1>6, <1>7
  <2>. HIDE DEF a, q, t, u, d
  <2>3. q * (10 * t) + (u + t * d) = a * t + u
    BY <2>1, Shifted
  <2>4. Abs(i') * TenTo[k + 1] + (u + t * d) = Abs(number)
    BY <2>2, <2>3
  <2>. QED  BY <2>4 DEF t, u
<1>15. PartsOfTheNumber'
  <2>1. PICK w : Numeral(buf', k + 1, w) /\ w[k + 1] = v[k] + TenTo[k] * d
    BY <1>13
  <2>. DEFINE m == k + 1
  <2>2. Numeral(buf', m, w) /\ Abs(i') * TenTo[m] + w[m] = Abs(number')
    BY <1>4, <1>14, <2>1
  <2>3. number' >= 0 => i' >= 0
    BY <1>1, <1>3, <1>4 DEF UtilInv, PartsOfTheNumber
  <2>4. number' < 0 => i' <= 0
    BY <1>1, <1>3, <1>4 DEF UtilInv, PartsOfTheNumber
  <2>5. m \in 0 .. D /\ Length' = m
    BY <1>1, <1>8, <1>10
  <2>. HIDE DEF m
  <2>. QED  BY <2>2, <2>3, <2>4, <2>5 DEF PartsOfTheNumber
<1>16. ByStage'
  <2>1. number # 0 /\ i' = 0 => d # 0
    <3>1. number # 0 => i # 0
      BY <1>1 DEF UtilInv, ByStage
    <3>. HIDE DEF d
    <3>. QED  BY <1>2, <1>3, <1>4, <3>1 DEF Abs
  <2>2. buf'[Leading'] = d
    <3>1. p - 1 \in 0 .. D + 1
      BY <1>1, <1>9
    <3>. HIDE DEF d, D
    <3>. QED  BY <1>4, <1>10, <1>11, <3>1
  <2>3. number = 0 => i' = 0
    <3>1. number = 0 => i = 0
      BY <1>1 DEF UtilInv, ByStage
    <3>. QED  BY <1>2, <1>3, <1>4, <3>1
  <2>4. Length' > 0
    BY <1>1, <1>10
  <2>. HIDE DEF d
  <2>. QED  BY <1>2, <1>4, <1>5, <2>1, <2>2, <2>3, <2>4 DEF ByStage
<1>17. SameSoFar'
  BY <1>4, <1>5 DEF UtilInv, SameSoFar
<1>. QED  BY <1>12, <1>15, <1>16, <1>17 DEF UtilInv

LEMMA SignKeeps == UtilInv /\ Sign => UtilInv'
<1>. SUFFICES ASSUME UtilInv, Sign PROVE UtilInv'
  OBVIOUS
<1>. DEFINE k == Length
            D == INT_DIGITS
<1>1. stage = "sign" /\ Leading = p /\ p = D + 1 - k /\ k \in 0 .. D /\ D \in Nat /\ k \in Nat
  BY UtilitiesAssumption DEF Sign, Leading, Length, UtilInv, UtilTypes, PartsOfTheNumber
<1>2. number < 0 /\ i = 0 /\ k > 0 /\ number # 0 /\ buf[p] # 0 /\ number \in Int
  <2>1. number \in Int
    BY UtilitiesAssumption DEF UtilInv, UtilTypes, Int_
  <2>2. number < 0 /\ i = 0 /\ k > 0 /\ (number # 0 => buf[p] # 0)
    BY <1>1 DEF UtilInv, ByStage
  <2>. QED  BY <2>1, <2>2
<1>3. /\ p' = p - 1 /\ buf' = [buf EXCEPT ![p - 1] = Minus] /\ stage' = "converted"
      /\ number' = number /\ i' = i /\ s1' = s1 /\ s2' = s2 /\ at' = at
  BY DEF Sign
<1>4. p \in 1 .. D /\ p - 1 \in 0 .. D
  BY <1>1, <1>2
<1>5. Leading' = p /\ Length' = k
  BY <1>1, <1>2, <1>3, <1>4 DEF Leading, Length
<1>6. buf \in [0 .. D + 1 -> (0 .. 9) \cup {Minus, End, Unset}]
  BY DEF UtilInv, UtilTypes
<1>7. /\ buf' \in [0 .. D + 1 -> (0 .. 9) \cup {Minus, End, Unset}]
      /\ buf'[p - 1] = Minus
      /\ \A n \in p .. D + 1 : buf'[n] = buf[n]
  BY <1>1, <1>3, <1>4, <1>6
<1>8. UtilTypes'
  BY <1>1, <1>3, <1>4, <1>7 DEF UtilInv, UtilTypes
<1>9. PICK v : Numeral(buf, k, v) /\ Abs(i) * TenTo[k] + v[k] = Abs(number)
  BY <1>1 DEF UtilInv, PartsOfTheNumber
<1>10. Numeral(buf', k, v)
  <2>1. \A n \in Nat : n < k => INT_DIGITS - n \in p .. D + 1
    BY <1>1
  <2>2. \A n \in Nat : n < k => buf'[INT_DIGITS - n] = buf[INT_DIGITS - n]
    BY <1>7, <2>1
  <2>. QED  BY <1>9, <2>2 DEF Numeral
<1>11. PartsOfTheNumber'
  <2>1. number < 0 => i <= 0
    BY <1>2
  <2>. HIDE DEF k
  <2>. QED  BY <1>1, <1>2, <1>3, <1>5, <1>9, <1>10, <2>1 DEF PartsOfTheNumber
<1>12. ByStage'
  <2>1. buf'[Leading'] # 0 /\ buf'[p'] = Minus /\ Length' > 0
    BY <1>1, <1>2, <1>3, <1>4, <1>5, <1>7
  <2>. QED  BY <1>2, <1>3, <2>1 DEF ByStage
<1>13. SameSoFar'
  BY <1>3 DEF UtilInv, SameSoFar
<1>. QED  BY <1>8, <1>11, <1>12, <1>13 DEF UtilInv

LEMMA CompareKeeps == UtilInv /\ Compare => UtilInv'
<1>. SUFFICES ASSUME UtilInv, Compare PROVE UtilInv'
  OBVIOUS
<1>1. /\ stage = "x_strcmp" /\ stage' \in {"x_strcmp", "compared"}
      /\ number' = number /\ i' = i /\ p' = p /\ buf' = buf /\ s1' = s1 /\ s2' = s2
  BY DEF Compare
<1>2. s1 \in Strings /\ s2 \in Strings /\ at \in Nat \ {0}
  BY DEF UtilInv, UtilTypes
<1>3. at' \in Nat \ {0}
  BY <1>2 DEF Compare
<1>4. UtilTypes'
  BY <1>1, <1>3 DEF UtilInv, UtilTypes
<1>5. PartsOfTheNumber' /\ ByStage'
  BY <1>1 DEF PartsOfTheNumber, ByStage
<1>6. /\ Len(s1) \in Nat /\ \A n \in 1 .. Len(s1) : s1[n] \in 1 .. MaxChar
      /\ Len(s2) \in Nat /\ \A n \in 1 .. Len(s2) : s2[n] \in 1 .. MaxChar
  BY <1>2, StringIs
<1>7. SameSoFar'
  <2>1. CASE CharAt(s1, at) = CharAt(s2, at) /\ CharAt(s2, at) # 0
    <3>1. at' = at + 1 /\ stage' = stage
      BY <2>1 DEF Compare
    <3>2. at <= Len(s1) /\ at <= Len(s2) /\ s1[at] = s2[at]
      BY <1>2, <1>6, <2>1 DEF CharAt
    <3>. QED  BY <1>1, <1>2, <1>6, <3>1, <3>2 DEF UtilInv, SameSoFar
  <2>2. CASE ~(CharAt(s1, at) = CharAt(s2, at) /\ CharAt(s2, at) # 0)
    <3>1. at' = at /\ stage' = "compared"
      BY <2>2 DEF Compare
    <3>. QED  BY <1>1, <2>2, <3>1 DEF UtilInv, SameSoFar, CharAt
  <2>. QED  BY <2>1, <2>2
<1>. QED  BY <1>4, <1>5, <1>7 DEF UtilInv

LEMMA UtilKeeps == UtilInv /\ [UtilNext]_utilVars => UtilInv'
<1>. SUFFICES ASSUME UtilInv, UNCHANGED utilVars PROVE UtilInv'
  BY DigitKeeps, SignKeeps, CompareKeeps DEF UtilNext
<1>. QED  BY DEF utilVars, UtilInv, UtilTypes, PartsOfTheNumber, ByStage, SameSoFar, Length, Leading, CharAt

(* The value read off a numeral is the one its digits denote.              *)
LEMMA ValueIs ==
    ASSUME NEW k \in Nat, k = INT_DIGITS + 1 - FirstDigit, FirstDigit \in Nat,
           NEW v, Numeral(buf, k, v)
    PROVE  ValueOfLast[k] = v[k]
<1>. DEFINE Figure(n) == IF INT_DIGITS + 1 - n \in Digits THEN buf[INT_DIGITS + 1 - n] ELSE 0
            G(f) == [n \in Nat |-> IF n = 0 THEN 0 ELSE f[n - 1] + TenTo[n - 1] * Figure(n)]
            t == TenTo
            step == [x \in Nat \X Nat |-> x[2] + t[x[1] - 1] * Figure(x[1])]
            safe == [x \in Nat \X Nat |-> IF x[1] = 0 THEN 0 ELSE step[x]]
<1>1. INT_DIGITS \in Nat
  BY UtilitiesAssumption
<1>2. \A n \in Nat : t[n] \in Nat
  BY TenToIs
<1>3. ASSUME NEW n \in Nat, n # 0 PROVE Figure(n) \in 0 .. 9 /\ (n <= k => Figure(n) = buf[INT_DIGITS - (n - 1)])
  <2>1. INT_DIGITS + 1 - n = INT_DIGITS - (n - 1) /\ n - 1 \in Nat
    BY <1>1, <1>3
  <2>2. INT_DIGITS + 1 - n \in Digits <=> n <= k
    BY <1>1, <1>3 DEF Digits
  <2>3. n <= k => buf[INT_DIGITS - (n - 1)] \in 0 .. 9
    BY <2>1 DEF Numeral
  <2>. QED  BY <2>1, <2>2, <2>3
<1>. HIDE DEF Figure, t
<1>4. safe \in [Nat \X Nat -> Nat]
  <2>1. ASSUME NEW n \in Nat, NEW m \in Nat, n # 0 PROVE m + t[n - 1] * Figure(n) \in Nat
    <3>1. n - 1 \in Nat
      BY <2>1
    <3>2. t[n - 1] \in Nat /\ Figure(n) \in Nat
      BY <1>2, <1>3, <2>1, <3>1
    <3>3. t[n - 1] * Figure(n) \in Nat
      BY <3>2
    <3>. QED  BY <3>3
  <2>2. ASSUME NEW x \in Nat \X Nat PROVE (IF x[1] = 0 THEN 0 ELSE step[x]) \in Nat
    BY <2>1
  <2>. QED  BY <2>2
<1>5. ASSUME NEW n \in Nat, NEW m \in Nat, n # 0
      PROVE  safe[<<n, m>>] = m + t[n - 1] * Figure(n)
  BY <1>5
<1>. HIDE DEF safe
<1>6. PICK f \in [Nat -> Nat] : Unfolds(0, safe, f)
  <2>1. \A z \in Nat : \E f \in [Nat -> Nat] : Unfolds(z, safe, f)
    BY <1>4, Recursion
  <2>. QED  BY <2>1
<1>7. f = G(f)
  <2>0. f = [n \in Nat |-> IF n = 0 THEN 0 ELSE safe[<<n, f[n - 1]>>]]
    BY <1>6 DEF Unfolds
  <2>1. ASSUME NEW n \in Nat, n # 0 PROVE safe[<<n, f[n - 1]>>] = f[n - 1] + TenTo[n - 1] * Figure(n)
    <3>1. n - 1 \in Nat
      BY <2>1
    <3>2. f[n - 1] \in Nat
      BY <1>6, <3>1
    <3>. QED  BY <1>5, <2>1, <3>2 DEF t
  <2>. QED  BY <2>0, <2>1
<1>8. ValueOfLast = CHOOSE h : h = G(h)
  BY DEF ValueOfLast, Figure
<1>9. ValueOfLast = G(ValueOfLast)
  BY <1>7, <1>8
<1>. DEFINE w == ValueOfLast
<1>. HIDE DEF w
<1>10. w = [n \in Nat |-> IF n = 0 THEN 0 ELSE w[n - 1] + t[n - 1] * Figure(n)]
  BY <1>9 DEF w, t
<1>11. w[0] = 0
  BY <1>10
<1>12. ASSUME NEW n \in Nat, n < k PROVE w[n + 1] = w[n] + t[n] * buf[INT_DIGITS - n]
  <2>1. n + 1 \in Nat /\ n + 1 # 0 /\ (n + 1) - 1 = n /\ n + 1 <= k
    BY <1>12
  <2>2. Figure(n + 1) = buf[INT_DIGITS - n]
    BY <1>3, <2>1
  <2>. QED  BY <1>10, <2>1, <2>2
<1>. DEFINE T == {n \in Nat : n <= k => w[n] = v[n]}
<1>13. 0 \in T
  BY <1>11 DEF Numeral
<1>14. ASSUME NEW n \in T PROVE n + 1 \in T
  <2>1. n \in Nat
    OBVIOUS
  <2>2. ASSUME n + 1 <= k PROVE w[n + 1] = v[n + 1]
    <3>1. n < k /\ w[n] = v[n]
      BY <2>1, <2>2
    <3>2. v[n + 1] = v[n] + t[n] * buf[INT_DIGITS - n]
      BY <2>1, <3>1 DEF Numeral, t
    <3>. QED  BY <1>12, <2>1, <3>1, <3>2
  <2>. QED  BY <2>1, <2>2
<1>. HIDE DEF T
<1>15. T = Nat
  <2>1. T \in SUBSET Nat
    BY DEF T
  <2>. QED  BY <1>13, <1>14, <2>1, Induction
<1>16. k \in T
  BY <1>15
<1>. QED  BY <1>16 DEF T, w

LEMMA NumberIsDenoted == UtilInv => DenotesTheNumber
<1>. SUFFICES ASSUME UtilInv PROVE DenotesTheNumber
  OBVIOUS
<1>. DEFINE k == Length
            D == INT_DIGITS
<1>1. p \in DOMAIN buf /\ buf[D + 1] = End
  BY DEF UtilInv, UtilTypes
<1>2. ASSUME stage = "converted"
      PROVE  /\ Digits # {} /\ \A n \in Digits : buf[n] \in 0 .. 9
             /\ buf[p] = Minus <=> number < 0
             /\ Value = IF number < 0 THEN -number ELSE number
             /\ number # 0 => buf[FirstDigit] # 0
  <2>1. Minus \notin 0 .. 9 /\ D \in Nat /\ number \in Int /\ i \in Int
    BY UtilitiesAssumption DEF UtilInv, UtilTypes, Int_
  <2>2. i = 0 /\ k \in 0 .. D /\ k > 0 /\ (number # 0 => buf[Leading] # 0) /\ (number < 0 => buf[p] = Minus)
    BY <1>2 DEF UtilInv, ByStage, PartsOfTheNumber
  <2>3. PICK v : Numeral(buf, k, v) /\ Abs(i) * TenTo[k] + v[k] = Abs(number)
    BY <1>2 DEF UtilInv, PartsOfTheNumber
  <2>4. Leading = D + 1 - k /\ Leading \in 1 .. D /\ k \in Nat
    <3>1. p \in Int
      BY <2>1 DEF UtilInv, UtilTypes
    <3>2. Leading \in Int
      BY <3>1 DEF Leading
    <3>. QED  BY <2>1, <2>2, <3>2 DEF Length
  <2>5. \A n \in Leading .. D : buf[n] \in 0 .. 9
    <3>1. ASSUME NEW n \in Leading .. D PROVE buf[n] \in 0 .. 9
      <4>1. D - n \in Nat /\ D - n < k /\ n = D - (D - n)
        BY <2>1, <2>4
      <4>. QED  BY <2>3, <4>1 DEF Numeral
    <3>. QED  BY <3>1
  <2>6. FirstDigit = Leading /\ (buf[p] = Minus <=> number < 0)
    <3>1. CASE number < 0
      BY <1>2, <2>2, <3>1 DEF Leading, FirstDigit
    <3>2. CASE ~(number < 0)
      <4>1. Leading = p /\ p \in Leading .. D
        BY <1>2, <2>4, <3>2 DEF Leading
      <4>2. buf[p] # Minus
        BY <2>1, <2>5, <4>1
      <4>. QED  BY <3>2, <4>1, <4>2 DEF FirstDigit
    <3>. QED  BY <3>1, <3>2
  <2>7. Value = v[k]
    <3>1. k = INT_DIGITS + 1 - FirstDigit /\ FirstDigit \in Nat
      BY <2>1, <2>4, <2>6
    <3>2. ValueOfLast[k] = v[k]
      BY <2>3, <2>4, <3>1, ValueIs
    <3>. QED  BY <3>1, <3>2 DEF Value
  <2>8. v[k] = Abs(number)
    <3>. DEFINE t == TenTo[k]
                u == v[k]
    <3>1. t \in Nat /\ u \in Nat /\ 0 * t + u = Abs(number)
      BY <2>2, <2>3, <2>4, TenToIs DEF Numeral, Abs
    <3>. HIDE DEF t, u
    <3>2. u = Abs(number)
      BY <3>1
    <3>. QED  BY <3>2 DEF u
  <2>. QED  BY <2>2, <2>4, <2>5, <2>6, <2>7, <2>8 DEF Digits, Abs
<1>. QED  BY <1>1, <1>2 DEF DenotesTheNumber

(* The first difference of two strings tells their order.                  *)
LEMMA OrderIs ==
    ASSUME NEW s \in Strings, NEW t \in Strings, NEW m \in Nat \ {0},
           m <= Len(s) + 1, m <= Len(t) + 1,
           \A k \in 1 .. m - 1 : s[k] = t[k],
           CharAt(s, m) # CharAt(t, m) \/ CharAt(t, m) = 0
    PROVE  Before(s, t) <=> CharAt(s, m) < CharAt(t, m)
<1>1. /\ Len(s) \in Nat /\ \A k \in 1 .. Len(s) : s[k] \in 1 .. MaxChar
      /\ Len(t) \in Nat /\ \A k \in 1 .. Len(t) : t[k] \in 1 .. MaxChar
  BY StringIs
<1>2. MaxChar \in Nat
  BY UtilitiesAssumption
<1>3. ASSUME CharAt(s, m) < CharAt(t, m) PROVE Before(s, t)
  <2>1. m <= Len(t)
    BY <1>1, <1>2, <1>3 DEF CharAt
  <2>. DEFINE n == m - 1
  <2>2. n \in 0 .. Len(s) /\ n < Len(t) /\ n + 1 = m /\ \A k \in 1 .. n : s[k] = t[k]
    BY <1>1, <2>1
  <2>3. n = Len(s) \/ s[n + 1] < t[n + 1]
    BY <1>1, <1>3, <2>1, <2>2 DEF CharAt
  <2>. HIDE DEF n
  <2>. QED  BY <2>2, <2>3 DEF Before
<1>4. ASSUME Before(s, t) PROVE CharAt(s, m) < CharAt(t, m)
  <2>1. PICK n \in 0 .. Len(s) :
          /\ n < Len(t)
          /\ \A k \in 1 .. n : s[k] = t[k]
          /\ n = Len(s) \/ s[n + 1] < t[n + 1]
    BY <1>4 DEF Before
  <2>2. n \in Nat
    BY <1>1
  <2>3. CASE n < m - 1
    <3>1. n + 1 \in 1 .. m - 1 /\ n # Len(s) /\ n + 1 \in 1 .. Len(s)
      BY <1>1, <2>2, <2>3
    <3>2. s[n + 1] = t[n + 1] /\ s[n + 1] \in Int
      BY <1>1, <1>2, <3>1
    <3>. QED  BY <2>1, <3>1, <3>2
  <2>4. CASE n = m - 1
    <3>1. m \in 1 .. Len(t) /\ t[m] \in 1 .. MaxChar /\ CharAt(t, m) = t[m]
      BY <1>1, <2>1, <2>4 DEF CharAt
    <3>. QED  BY <1>1, <1>2, <2>1, <2>4, <3>1 DEF CharAt
  <2>5. CASE n > m - 1
    <3>1. m \in 1 .. n /\ m \in 1 .. Len(s) /\ m \in 1 .. Len(t)
      BY <1>1, <2>1, <2>2, <2>5
    <3>2. CharAt(s, m) = CharAt(t, m) /\ CharAt(t, m) # 0
      BY <1>1, <1>2, <2>1, <3>1 DEF CharAt
    <3>. QED  BY <3>2
  <2>. QED  BY <2>2, <2>3, <2>4, <2>5
<1>. QED  BY <1>3, <1>4

LEMMA StringsAreOrdered == UtilInv => OrdersStrings
<1>. SUFFICES ASSUME UtilInv PROVE OrdersStrings
  OBVIOUS
<1>. DEFINE x == CharAt(s1, at)
            y == CharAt(s2, at)
<1>1. s1 \in Strings /\ s2 \in Strings /\ at \in Nat \ {0}
  BY DEF UtilInv, UtilTypes
<1>2. at <= Len(s1) + 1 /\ at <= Len(s2) + 1 /\ \A k \in 1 .. at - 1 : s1[k] = s2[k]
  BY DEF UtilInv, SameSoFar
<1>3. x \in Nat /\ y \in Nat
  <2>1. \A s \in Strings : CharAt(s, at) \in Nat
    <3>1. ASSUME NEW s \in Strings PROVE CharAt(s, at) \in Nat
      <4>1. Len(s) \in Nat /\ \A k \in 1 .. Len(s) : s[k] \in 1 .. MaxChar
        BY StringIs
      <4>. QED  BY <1>1, <4>1, UtilitiesAssumption DEF CharAt
    <3>. QED  BY <3>1
  <2>. QED  BY <1>1, <2>1
<1>4. ASSUME stage = "compared"
      PROVE  CompareResult = IF Before(s1, s2) THEN -1 ELSE IF Before(s2, s1) THEN 1 ELSE 0
  <2>1. x # y \/ y = 0
    BY <1>4 DEF UtilInv, SameSoFar
  <2>2. Before(s1, s2) <=> x < y
    BY <1>1, <1>2, <2>1, OrderIs
  <2>3. y # x \/ x = 0
    BY <2>1
  <2>4. Before(s2, s1) <=> y < x
    BY <1>1, <1>2, <2>3, OrderIs
  <2>. QED  BY <1>3, <2>2, <2>4 DEF CompareResult
<1>. QED  BY <1>2, <1>4 DEF OrdersStrings

(* itoa writes every int as its numeral into a buffer it does not leave,   *)
(* and x_strcmp reads no string past its end and returns its order: for    *)
(* every width of an int that the buffer has digits for.                   *)
THEOREM AnswersAreCorrect == UtilSpec => []AnswersAreRight
<1>1. UtilInv => AnswersAreRight
  BY NumberIsDenoted, StringsAreOrdered DEF AnswersAreRight
<1>. QED  BY <1>1, UtilBegins, UtilKeeps, PTL DEF UtilSpec

-----------------------------------------------------------------------------
(* Sequences of sequences: f joins the first n of them, step by step.      *)
Joins(ss, n, f) == f = [j \in 1 .. n |-> IF j = 1 THEN ss[j] ELSE f[j - 1] \o ss[j]]

LEMMA JoinsExists ==
    ASSUME NEW ss
    PROVE  \A n \in Nat : \E f : Joins(ss, n, f)
<1>. DEFINE T == {n \in Nat : \E f : Joins(ss, n, f)}
<1>1. 0 \in T
  <2>. DEFINE f == [j \in 1 .. 0 |-> 0]
  <2>1. Joins(ss, 0, f)
    BY DEF Joins
  <2>. QED  BY <2>1
<1>2. ASSUME NEW n \in T PROVE n + 1 \in T
  <2>1. PICK f : Joins(ss, n, f)
    OBVIOUS
  <2>2. n \in Nat
    OBVIOUS
  <2>. DEFINE last == IF n = 0 THEN ss[1] ELSE f[n] \o ss[n + 1]
              g == [j \in 1 .. n + 1 |-> IF j = n + 1 THEN last ELSE f[j]]
  <2>3. \A j \in 1 .. n : f[j] = IF j = 1 THEN ss[j] ELSE f[j - 1] \o ss[j]
    BY <2>1 DEF Joins
  <2>. HIDE DEF last
  <2>4. ASSUME NEW j \in 1 .. n + 1
        PROVE  g[j] = IF j = 1 THEN ss[j] ELSE g[j - 1] \o ss[j]
    <3>1. CASE j = n + 1
      BY <2>2, <3>1 DEF last
    <3>2. CASE j # n + 1
      <4>1. j \in 1 .. n /\ g[j] = f[j]
        BY <2>2, <3>2
      <4>2. j # 1 => g[j - 1] = f[j - 1]
        BY <2>2, <4>1
      <4>. QED  BY <2>3, <4>1, <4>2
    <3>. QED  BY <3>1, <3>2
  <2>5. g = [j \in 1 .. n + 1 |-> g[j]]
    OBVIOUS
  <2>. HIDE DEF g
  <2>6. Joins(ss, n + 1, g)
    BY <2>4, <2>5 DEF Joins
  <2>. QED  BY <2>2, <2>6
<1>. HIDE DEF T
<1>3. T = Nat
  <2>1. T \in SUBSET Nat
    BY DEF T
  <2>. QED  BY <1>1, <1>2, <2>1, Induction
<1>. QED  BY <1>3 DEF T

(* Two of them agree where the sequences do.                               *)
Alike(f, g, n) == \A j \in 1 .. n : f[j] = g[j]

LEMMA JoinsAgree ==
    ASSUME NEW ss, NEW tt, NEW n \in Nat, NEW m, m = n + 1, NEW f, NEW g,
           Joins(ss, n, f), Joins(tt, m, g), Alike(ss, tt, n), n > 0
    PROVE  f[n] = g[n]
<1>. USE DEF Alike
<1>. DEFINE T == {k \in Nat : k \in 1 .. n => f[k] = g[k]}
<1>1. \A j \in 1 .. n : f[j] = IF j = 1 THEN ss[j] ELSE f[j - 1] \o ss[j]
  BY DEF Joins
<1>2. \A j \in 1 .. m : g[j] = IF j = 1 THEN tt[j] ELSE g[j - 1] \o tt[j]
  BY DEF Joins
<1>3. 0 \in T
  OBVIOUS
<1>4. ASSUME NEW k \in T PROVE k + 1 \in T
  <2>. SUFFICES ASSUME k + 1 \in 1 .. n PROVE f[k + 1] = g[k + 1]
    OBVIOUS
  <2>0. k \in Nat /\ k + 1 \in 1 .. m /\ (k + 1) - 1 = k
    OBVIOUS
  <2>1. f[k + 1] = IF k + 1 = 1 THEN ss[k + 1] ELSE f[k] \o ss[k + 1]
    BY <1>1, <2>0
  <2>2. g[k + 1] = IF k + 1 = 1 THEN tt[k + 1] ELSE g[k] \o tt[k + 1]
    BY <1>2, <2>0
  <2>3. k + 1 = 1 \/ f[k] = g[k]
    BY <2>0
  <2>. QED  BY <2>1, <2>2, <2>3
<1>. HIDE DEF T
<1>5. T = Nat
  <2>1. T \in SUBSET Nat
    BY DEF T
  <2>. QED  BY <1>3, <1>4, <2>1, Induction
<1>. QED  BY <1>5 DEF T

LEMMA FlattenIs ==
    ASSUME NEW ss, Len(ss) \in Nat, Len(ss) # 0
    PROVE  \E f : Joins(ss, Len(ss), f) /\ FlattenSeq(ss) = f[Len(ss)]
<1>. DEFINE n == Len(ss)
            f == CHOOSE h : Joins(ss, n, h)
<1>1. Joins(ss, n, f)
  BY JoinsExists
<1>2. FlattenSeq(ss) = f[n]
  BY DEF FlattenSeq, Joins
<1>. QED  BY <1>1, <1>2

LEMMA FlattenEmpty == FlattenSeq(<<>>) = <<>>
BY DEF FlattenSeq

(* The last of the sequences comes last.                                   *)
LEMMA FlattenLast ==
    ASSUME NEW S, NEW ss \in Seq(Seq(S)), NEW tt \in Seq(Seq(S)),
           Len(tt) = Len(ss) + 1, \A j \in 1 .. Len(ss) : tt[j] = ss[j],
           tt[Len(tt)] \in Seq(S)
    PROVE  FlattenSeq(tt) = FlattenSeq(ss) \o tt[Len(tt)]
<1>. DEFINE n == Len(ss)
<1>0. n \in Nat /\ Len(tt) = n + 1 /\ Len(tt) \in Nat /\ Len(tt) # 0
  OBVIOUS
<1>1. PICK g : Joins(tt, Len(tt), g) /\ FlattenSeq(tt) = g[Len(tt)]
  BY <1>0, FlattenIs
<1>2. \A j \in 1 .. n + 1 : g[j] = IF j = 1 THEN tt[j] ELSE g[j - 1] \o tt[j]
  BY <1>0, <1>1 DEF Joins
<1>3. CASE n = 0
  <2>1. ss = <<>>
    BY <1>3
  <2>2. FlattenSeq(tt) = tt[1] /\ Len(tt) = 1
    BY <1>0, <1>1, <1>2, <1>3
  <2>3. <<>> \o tt[1] = tt[1]
    BY <2>2
  <2>. QED  BY <2>1, <2>2, <2>3, FlattenEmpty
<1>4. CASE n # 0
  <2>1. PICK f : Joins(ss, n, f) /\ FlattenSeq(ss) = f[n]
    BY <1>0, <1>4, FlattenIs
  <2>2. f[n] = g[n]
    <3>. DEFINE m == Len(tt)
    <3>1. Joins(tt, m, g) /\ m = n + 1 /\ n \in Nat /\ n > 0 /\ Joins(ss, n, f)
      BY <1>0, <1>1, <1>4, <2>1
    <3>2. Alike(ss, tt, n)
      BY DEF Alike
    <3>. HIDE DEF n, m
    <3>. QED  BY <3>1, <3>2, JoinsAgree
  <2>3. g[n + 1] = g[n] \o tt[n + 1]
    <3>1. n + 1 \in 1 .. n + 1 /\ n + 1 # 1 /\ (n + 1) - 1 = n
      BY <1>0, <1>4
    <3>. HIDE DEF n
    <3>. QED  BY <1>2, <3>1
  <2>. QED  BY <1>0, <1>1, <2>1, <2>2, <2>3
<1>. QED  BY <1>3, <1>4

-----------------------------------------------------------------------------
(* The bytes that are on their way: r of them from byte q on, of text n.   *)
ToCome(q, r) == [b \in 1 .. r |-> <<q[1], q[2] + b - 1>>]

Byte == Nat \X Nat

LEMMA ToComeIs ==
    ASSUME NEW q \in Byte, NEW r \in Nat
    PROVE  ToCome(q, r) \in Seq(Byte) /\ Len(ToCome(q, r)) = r
<1>1. ASSUME NEW b \in 1 .. r PROVE <<q[1], q[2] + b - 1>> \in Byte
  <2>1. q[1] \in Nat /\ q[2] \in Nat /\ b - 1 \in Nat
    BY DEF Byte
  <2>2. q[2] + b - 1 \in Nat
    BY <2>1
  <2>. QED  BY <2>1, <2>2 DEF Byte
<1>. QED  BY <1>1 DEF ToCome

(* The after of them is written.                                            *)
LEMMA ToComeNext ==
    ASSUME NEW q \in Byte, NEW r \in Nat, r > 0
    PROVE  ToCome(q, r) = <<q>> \o ToCome(<<q[1], q[2] + 1>>, r - 1)
<1>. DEFINE h == <<q[1], q[2] + 1>>
<1>1. q = <<q[1], q[2]>> /\ q[1] \in Nat /\ q[2] \in Nat /\ h \in Byte /\ r - 1 \in Nat
  BY DEF Byte
<1>2. /\ ToCome(q, r) \in Seq(Byte) /\ Len(ToCome(q, r)) = r
      /\ ToCome(h, r - 1) \in Seq(Byte) /\ Len(ToCome(h, r - 1)) = r - 1
  BY <1>1, ToComeIs
<1>3. <<q>> \in Seq(Byte) /\ Len(<<q>>) = 1 /\ <<q>>[1] = q
  OBVIOUS
<1>4. /\ <<q>> \o ToCome(h, r - 1) \in Seq(Byte)
      /\ Len(<<q>> \o ToCome(h, r - 1)) = r
      /\ \A b \in 1 .. r : (<<q>> \o ToCome(h, r - 1))[b] =
                              IF b <= 1 THEN <<q>>[b] ELSE ToCome(h, r - 1)[b - 1]
  <2>. DEFINE t == ToCome(h, r - 1)
              u == <<q>>
  <2>1. t \in Seq(Byte) /\ u \in Seq(Byte) /\ Len(u) = 1 /\ Len(u) + Len(t) = r
    BY <1>2, <1>3
  <2>. HIDE DEF t, u
  <2>2. /\ u \o t \in Seq(Byte) /\ Len(u \o t) = Len(u) + Len(t)
        /\ \A b \in 1 .. Len(u) + Len(t) : (u \o t)[b] = IF b <= Len(u) THEN u[b] ELSE t[b - Len(u)]
    BY <2>1, ConcatProperties
  <2>3. /\ u \o t \in Seq(Byte) /\ Len(u \o t) = r
        /\ \A b \in 1 .. r : (u \o t)[b] = IF b <= 1 THEN u[b] ELSE t[b - 1]
    BY <2>1, <2>2
  <2>. QED  BY <2>3 DEF t, u
<1>5. ASSUME NEW b \in 1 .. r PROVE ToCome(q, r)[b] = (<<q>> \o ToCome(h, r - 1))[b]
  <2>1. ToCome(q, r)[b] = <<q[1], q[2] + b - 1>>
    BY DEF ToCome
  <2>2. CASE b = 1
    <3>1. q[2] + b - 1 = q[2]
      BY <1>1, <2>2
    <3>. QED  BY <1>1, <1>3, <1>4, <2>1, <2>2, <3>1
  <2>3. CASE b # 1
    <3>1. b - 1 \in 1 .. r - 1
      BY <2>3
    <3>2. ToCome(h, r - 1)[b - 1] = <<h[1], h[2] + (b - 1) - 1>>
      BY <3>1 DEF ToCome
    <3>3. h[1] = q[1] /\ h[2] + (b - 1) - 1 = q[2] + b - 1
      BY <1>1
    <3>4. (<<q>> \o ToCome(h, r - 1))[b] = ToCome(h, r - 1)[b - 1]
      BY <1>4, <2>3
    <3>. QED  BY <2>1, <3>2, <3>3, <3>4
  <2>. QED  BY <2>2, <2>3
<1>. QED  BY <1>2, <1>4, <1>5, SeqEqual

LEMMA HeadMoves ==
    ASSUME NEW S, NEW l \in Seq(S), NEW f \in Seq(S), f # <<>>
    PROVE  Append(l, Head(f)) \o Tail(f) = l \o f
<1>1. /\ Head(f) \in S /\ Tail(f) \in Seq(S) /\ Head(f) = f[1] /\ Len(f) \in Nat /\ Len(f) > 0
      /\ Len(Tail(f)) = Len(f) - 1 /\ \A j \in 1 .. Len(f) - 1 : Tail(f)[j] = f[j + 1]
  OBVIOUS
<1>2. /\ Append(l, Head(f)) \in Seq(S) /\ Len(Append(l, Head(f))) = Len(l) + 1
      /\ \A j \in 1 .. Len(l) + 1 : Append(l, Head(f))[j] = IF j <= Len(l) THEN l[j] ELSE f[1]
  BY <1>1
<1>. DEFINE a == Append(l, Head(f))
            t == Tail(f)
<1>3. /\ a \o t \in Seq(S) /\ Len(a \o t) = Len(a) + Len(t)
      /\ \A j \in 1 .. Len(a) + Len(t) : (a \o t)[j] = IF j <= Len(a) THEN a[j] ELSE t[j - Len(a)]
  BY <1>1, <1>2, ConcatProperties
<1>4. /\ l \o f \in Seq(S) /\ Len(l \o f) = Len(l) + Len(f)
      /\ \A j \in 1 .. Len(l) + Len(f) : (l \o f)[j] = IF j <= Len(l) THEN l[j] ELSE f[j - Len(l)]
  BY ConcatProperties
<1>. HIDE DEF a, t
<1>5. Len(l) \in Nat /\ Len(a) = Len(l) + 1 /\ Len(t) = Len(f) - 1
  BY <1>1, <1>2 DEF a, t
<1>6. Len(a \o t) = Len(l \o f)
  BY <1>1, <1>3, <1>4, <1>5
<1>7. ASSUME NEW j \in 1 .. Len(l \o f) PROVE (a \o t)[j] = (l \o f)[j]
  <2>1. CASE j <= Len(l)
    BY <1>1, <1>2, <1>3, <1>4, <1>5, <2>1 DEF a
  <2>2. CASE j = Len(l) + 1
    <3>1. (a \o t)[j] = f[1]
      BY <1>1, <1>2, <1>3, <1>4, <1>5, <2>2 DEF a
    <3>2. j - Len(l) = 1 /\ (l \o f)[j] = f[j - Len(l)]
      BY <1>1, <1>4, <1>5, <2>2
    <3>. QED  BY <3>1, <3>2
  <2>3. CASE j > Len(l) + 1
    <3>. DEFINE k == j - Len(a)
    <3>1. k \in 1 .. Len(f) - 1 /\ k + 1 = j - Len(l)
      BY <1>1, <1>4, <1>5, <2>3
    <3>2. (a \o t)[j] = t[k]
      BY <1>1, <1>3, <1>4, <1>5, <2>3
    <3>3. t[k] = f[k + 1]
      BY <1>1, <3>1 DEF t
    <3>4. (l \o f)[j] = f[j - Len(l)]
      BY <1>1, <1>4, <1>5, <2>3
    <3>. QED  BY <3>1, <3>2, <3>3, <3>4
  <2>. QED  BY <1>4, <1>5, <2>1, <2>2, <2>3
<1>. QED  BY <1>3, <1>4, <1>6, <1>7, SeqEqual DEF a, t

LEMMA AppendIs ==
    ASSUME NEW S, NEW l \in Seq(S), NEW e \in S
    PROVE  Append(l, e) = l \o <<e>>
OBVIOUS

-----------------------------------------------------------------------------
(* The transmitter's invariant                                             *)

Out == line \o fifo

UartTypes ==
    /\ UartTypeOK
    /\ texts \in Seq(Sender \X (0 .. MaxLength))
    /\ fifo \in Seq(Byte) /\ line \in Seq(Byte)
    /\ ptr \in [Sender -> Byte]

(* Who sends has a text of its own, and of this so much is written.        *)
SendsItsText ==
    \A s \in Sender :
        /\ pc[s] # "out" =>
              /\ ptr[s][1] \in 1 .. Len(texts)
              /\ texts[ptr[s][1]][1] = s
        /\ pc[s] = "out" => nbytes[s] = 0
        /\ pc[s] # "fill" => tx_bytes[s] = 0

(* The bytes of a text are in order, and before those still to be written. *)
InOrder ==
    /\ \A j \in 1 .. Len(Out) :
          /\ Out[j][1] \in 1 .. Len(texts)
          /\ \A s \in Sender :
                pc[s] # "out" /\ Out[j][1] = ptr[s][1] => Out[j][2] < ptr[s][2]
    /\ \A j, k \in 1 .. Len(Out) :
          j < k /\ Out[j][1] = Out[k][1] => Out[j][2] < Out[k][2]

Alone(s) == \A n \in 1 .. Len(texts) : texts[n][1] = s

Rest(s) == ToCome(ptr[s], nbytes[s] + tx_bytes[s])

(* Alone, a sender fills an empty FIFO, and never beyond its size.         *)
AloneIsWhole ==
    \A s \in Sender : Alone(s) =>
        /\ pc[s] \in {"out", "here"} => fifo = <<>>
        /\ pc[s] = "fill" => Len(fifo) + tx_bytes[s] <= UART_FIFO_SIZE
        /\ Out \o Rest(s) = AllTexts

UartInv == UartTypes /\ SendsItsText /\ InOrder /\ AloneIsWhole

LEMMA UartInvImplies == UartInv => NothingIsLost
<1>. SUFFICES ASSUME UartInv PROVE NothingIsLost
  OBVIOUS
<1>0. /\ line \in Seq(Byte) /\ fifo \in Seq(Byte) /\ ptr \in [Sender -> Byte]
      /\ nbytes \in [Sender -> 0 .. MaxLength] /\ tx_bytes \in [Sender -> 0 .. UART_FIFO_SIZE]
      /\ UartTypeOK
  BY DEF UartInv, UartTypes, UartTypeOK
<1>1. NoneOvertakes
  <2>1. /\ Len(Out) = Len(line) + Len(fifo) /\ Len(line) \in Nat /\ Len(fifo) \in Nat
        /\ \A j \in 1 .. Len(line) : Out[j] = line[j]
    BY <1>0, ConcatProperties DEF Out
  <2>. SUFFICES ASSUME NEW j \in 1 .. Len(line), NEW k \in 1 .. Len(line),
                       j < k, line[j][1] = line[k][1]
                PROVE  line[j][2] < line[k][2]
    BY DEF NoneOvertakes
  <2>2. j \in 1 .. Len(Out) /\ k \in 1 .. Len(Out) /\ Out[j] = line[j] /\ Out[k] = line[k]
    BY <2>1
  <2>. QED  BY <2>2 DEF UartInv, InOrder
<1>2. ASSUME NEW s \in Sender, \A n \in 1 .. Len(texts) : texts[n][1] = s
      PROVE  line \o fifo \o Rest(s) = AllTexts
  BY <1>2 DEF UartInv, AloneIsWhole, Alone, Out
<1>. QED  BY <1>0, <1>1, <1>2 DEF NothingIsLost, Rest, ToCome

LEMMA UartInitInv == UartInit => UartInv
<1>. SUFFICES ASSUME UartInit PROVE UartInv
  OBVIOUS
<1>1. UartTypes
  <2>1. <<0, 1>> \in Byte /\ <<>> \in Seq(Byte)
    BY DEF Byte
  <2>2. texts \in Seq(Sender \X (0 .. MaxLength)) /\ texts = <<>> /\ Len(fifo) = 0
    BY DEF UartInit
  <2>. QED  BY <2>1, <2>2, UartAssumption DEF UartInit, UartTypes, UartTypeOK
<1>2. Out = <<>> /\ Len(Out) = 0
  BY DEF UartInit, Out
<1>3. SendsItsText
  BY DEF UartInit, SendsItsText
<1>4. InOrder
  BY <1>2 DEF InOrder
<1>5. AloneIsWhole
  <2>. SUFFICES ASSUME NEW s \in Sender PROVE Out \o Rest(s) = AllTexts
    BY DEF AloneIsWhole, UartInit
  <2>1. Rest(s) = <<>>
    <3>1. nbytes[s] + tx_bytes[s] = 0
      BY DEF UartInit
    <3>. QED  BY <3>1 DEF Rest, ToCome
  <2>2. AllTexts = <<>>
    <3>1. [n \in 1 .. Len(texts) |-> Text(n)] = <<>>
      BY DEF UartInit
    <3>. QED  BY <3>1, FlattenEmpty DEF AllTexts
  <2>3. <<>> \o <<>> = <<>>
    OBVIOUS
  <2>. QED  BY <1>2, <2>1, <2>2, <2>3
<1>. QED  BY <1>1, <1>3, <1>4, <1>5 DEF UartInv

LEMMA AllTextsSame == ASSUME texts' = texts PROVE AllTexts' = AllTexts
BY DEF AllTexts, Text

LEMMA UartFacts ==
    ASSUME UartInv
    PROVE  /\ line \in Seq(Byte) /\ fifo \in Seq(Byte) /\ ptr \in [Sender -> Byte]
           /\ nbytes \in [Sender -> 0 .. MaxLength] /\ tx_bytes \in [Sender -> 0 .. UART_FIFO_SIZE]
           /\ pc \in [Sender -> {"out", "here", "fill", "thre"}]
           /\ texts \in Seq(Sender \X (0 .. MaxLength))
           /\ Len(fifo) \in Nat /\ Len(fifo) <= UART_FIFO_SIZE
           /\ UART_FIFO_SIZE \in Nat /\ UART_FIFO_SIZE > 0 /\ MaxLength \in Nat
           /\ Out \in Seq(Byte) /\ Len(Out) \in Nat
BY UartAssumption, ConcatProperties DEF UartInv, UartTypes, UartTypeOK, Out

(* Whoever sends beside s has a text, and s is not alone.                  *)
LEMMA OthersAreOut ==
    ASSUME UartInv, NEW s \in Sender, Alone(s), NEW t \in Sender, pc[t] # "out"
    PROVE  t = s
BY DEF UartInv, SendsItsText, Alone

LEMMA NextPortionInv == ASSUME UartInv, NEW s \in Sender, NextPortion(s) PROVE UartInv'
<1>. DEFINE portion == IF nbytes[s] > UART_FIFO_SIZE THEN UART_FIFO_SIZE ELSE nbytes[s]
<1>1. /\ pc[s] = "here" /\ pc' = [pc EXCEPT ![s] = "fill"]
      /\ nbytes' = [nbytes EXCEPT ![s] = @ - portion]
      /\ tx_bytes' = [tx_bytes EXCEPT ![s] = portion]
      /\ ptr' = ptr /\ fifo' = fifo /\ line' = line /\ texts' = texts
  BY DEF NextPortion
<1>2. /\ portion \in 0 .. UART_FIFO_SIZE /\ portion \in 0 .. nbytes[s] /\ nbytes[s] \in 0 .. MaxLength
      /\ nbytes[s] - portion \in 0 .. MaxLength
  BY UartFacts
<1>. HIDE DEF portion
<1>3. UartTypes'
  BY <1>1, <1>2 DEF UartInv, UartTypes, UartTypeOK
<1>4. SendsItsText'
  BY <1>1, UartFacts DEF UartInv, SendsItsText
<1>5. Out' = Out
  BY <1>1 DEF Out
<1>6. InOrder'
  BY <1>1, <1>5, UartFacts DEF UartInv, InOrder
<1>7. AloneIsWhole'
  <2>. SUFFICES ASSUME NEW t \in Sender, Alone(t)'
                PROVE  /\ pc'[t] \in {"out", "here"} => fifo' = <<>>
                       /\ pc'[t] = "fill" => Len(fifo') + tx_bytes'[t] <= UART_FIFO_SIZE
                       /\ Out' \o Rest(t)' = AllTexts'
    BY DEF AloneIsWhole
  <2>1. Alone(t) /\ t = s
    <3>1. Alone(t)
      BY <1>1 DEF Alone
    <3>. QED  BY <1>1, <3>1, OthersAreOut
  <2>2. fifo = <<>> /\ Out \o Rest(s) = AllTexts /\ tx_bytes[s] = 0
    BY <1>1, <2>1 DEF UartInv, AloneIsWhole, SendsItsText
  <2>3. Rest(s)' = Rest(s)
    <3>1. nbytes'[s] + tx_bytes'[s] = nbytes[s] + tx_bytes[s]
      BY <1>1, <1>2, <2>2, UartFacts
    <3>. QED  BY <1>1, <3>1 DEF Rest
  <2>4. AllTexts' = AllTexts
    BY <1>1, AllTextsSame
  <2>5. Len(fifo') + tx_bytes'[s] <= UART_FIFO_SIZE
    BY <1>1, <1>2, <2>2, UartFacts
  <2>. QED  BY <1>1, <1>5, <2>1, <2>2, <2>3, <2>4, <2>5, UartFacts
<1>. QED  BY <1>3, <1>4, <1>6, <1>7 DEF UartInv

LEMMA AwaitEmptyInv == ASSUME UartInv, NEW s \in Sender, AwaitEmpty(s) PROVE UartInv'
<1>1. /\ pc[s] = "thre" /\ pc' = [pc EXCEPT ![s] = IF nbytes[s] = 0 THEN "out" ELSE "here"]
      /\ nbytes' = nbytes /\ tx_bytes' = tx_bytes /\ fifo = <<>>
      /\ ptr' = ptr /\ fifo' = fifo /\ line' = line /\ texts' = texts
  BY DEF AwaitEmpty
<1>3. UartTypes'
  BY <1>1 DEF UartInv, UartTypes, UartTypeOK
<1>4. SendsItsText'
  BY <1>1, UartFacts DEF UartInv, SendsItsText
<1>5. Out' = Out
  BY <1>1 DEF Out
<1>6. InOrder'
  BY <1>1, <1>5, UartFacts DEF UartInv, InOrder
<1>7. AloneIsWhole'
  <2>. SUFFICES ASSUME NEW t \in Sender, Alone(t)'
                PROVE  /\ pc'[t] \in {"out", "here"} => fifo' = <<>>
                       /\ pc'[t] = "fill" => Len(fifo') + tx_bytes'[t] <= UART_FIFO_SIZE
                       /\ Out' \o Rest(t)' = AllTexts'
    BY DEF AloneIsWhole
  <2>1. Alone(t)
    BY <1>1 DEF Alone
  <2>2. /\ pc[t] = "fill" => Len(fifo) + tx_bytes[t] <= UART_FIFO_SIZE
        /\ Out \o Rest(t) = AllTexts
    BY <2>1 DEF UartInv, AloneIsWhole
  <2>3. Rest(t)' = Rest(t)
    BY <1>1 DEF Rest
  <2>4. AllTexts' = AllTexts
    BY <1>1, AllTextsSame
  <2>5. pc'[t] = "fill" => pc[t] = "fill"
    BY <1>1, UartFacts
  <2>. QED  BY <1>1, <1>5, <2>2, <2>3, <2>4, <2>5
<1>. QED  BY <1>3, <1>4, <1>6, <1>7 DEF UartInv

LEMMA TransmitInv == ASSUME UartInv, Transmit PROVE UartInv'
<1>1. /\ fifo # <<>> /\ line' = Append(line, Head(fifo)) /\ fifo' = Tail(fifo)
      /\ pc' = pc /\ nbytes' = nbytes /\ tx_bytes' = tx_bytes /\ ptr' = ptr /\ texts' = texts
  BY DEF Transmit
<1>2. /\ Head(fifo) \in Byte /\ fifo' \in Seq(Byte) /\ line' \in Seq(Byte)
      /\ Len(fifo') = Len(fifo) - 1 /\ Len(fifo) > 0
  BY <1>1, UartFacts
<1>3. UartTypes'
  BY <1>1, <1>2, UartFacts DEF UartInv, UartTypes, UartTypeOK
<1>4. SendsItsText'
  BY <1>1 DEF UartInv, SendsItsText
<1>5. Out' = Out
  BY <1>1, UartFacts, HeadMoves DEF Out
<1>6. InOrder'
  BY <1>1, <1>5 DEF UartInv, InOrder
<1>7. AloneIsWhole'
  <2>. SUFFICES ASSUME NEW t \in Sender, Alone(t)'
                PROVE  /\ pc'[t] \in {"out", "here"} => fifo' = <<>>
                       /\ pc'[t] = "fill" => Len(fifo') + tx_bytes'[t] <= UART_FIFO_SIZE
                       /\ Out' \o Rest(t)' = AllTexts'
    BY DEF AloneIsWhole
  <2>1. Alone(t)
    BY <1>1 DEF Alone
  <2>2. /\ pc[t] \in {"out", "here"} => fifo = <<>>
        /\ pc[t] = "fill" => Len(fifo) + tx_bytes[t] <= UART_FIFO_SIZE
        /\ Out \o Rest(t) = AllTexts
    BY <2>1 DEF UartInv, AloneIsWhole
  <2>3. Rest(t)' = Rest(t)
    BY <1>1 DEF Rest
  <2>4. AllTexts' = AllTexts
    BY <1>1, AllTextsSame
  <2>5. pc[t] = "fill" => Len(fifo') + tx_bytes[t] <= UART_FIFO_SIZE
    BY <1>2, <2>2, UartFacts
  <2>. QED  BY <1>1, <1>5, <2>2, <2>3, <2>4, <2>5
<1>. QED  BY <1>3, <1>4, <1>6, <1>7 DEF UartInv

LEMMA FillInv == ASSUME UartInv, NEW s \in Sender, Fill(s) PROVE UartInv'
<1>1. /\ pc[s] = "fill" /\ nbytes' = nbytes /\ line' = line /\ texts' = texts
  BY DEF Fill
<1>2. /\ ptr[s] \in Byte /\ ptr[s] = <<ptr[s][1], ptr[s][2]>> /\ ptr[s][1] \in Nat /\ ptr[s][2] \in Nat
      /\ <<ptr[s][1], ptr[s][2] + 1>> \in Byte
      /\ ptr[s][1] \in 1 .. Len(texts) /\ texts[ptr[s][1]][1] = s
  <2>1. ptr[s] \in Byte
    BY UartFacts
  <2>2. ptr[s][1] \in 1 .. Len(texts) /\ texts[ptr[s][1]][1] = s
    BY <1>1 DEF UartInv, SendsItsText
  <2>. QED  BY <2>1, <2>2 DEF Byte
<1>3. CASE tx_bytes[s] > 0
  <2>. DEFINE after == <<ptr[s][1], ptr[s][2] + 1>>
  <2>1. /\ pc' = pc /\ ptr' = [ptr EXCEPT ![s] = after] /\ fifo' = Written(ptr[s])
        /\ tx_bytes' = [tx_bytes EXCEPT ![s] = @ - 1]
    BY <1>3 DEF Fill
  <2>2. /\ ptr'[s] = after /\ \A t \in Sender : t # s => ptr'[t] = ptr[t]
        /\ after[1] = ptr[s][1] /\ after[2] = ptr[s][2] + 1 /\ after \in Byte
        /\ tx_bytes'[s] = tx_bytes[s] - 1 /\ tx_bytes[s] \in Nat /\ nbytes[s] \in Nat
        /\ tx_bytes' \in [Sender -> 0 .. UART_FIFO_SIZE]
    <3>1. /\ ptr'[s] = after /\ \A t \in Sender : t # s => ptr'[t] = ptr[t]
      BY <2>1, UartFacts
    <3>2. after[1] = ptr[s][1] /\ after[2] = ptr[s][2] + 1 /\ after \in Byte
      BY <1>2
    <3>3. tx_bytes[s] \in 0 .. UART_FIFO_SIZE /\ nbytes[s] \in Nat
      BY UartFacts
    <3>4. tx_bytes'[s] = tx_bytes[s] - 1 /\ tx_bytes[s] - 1 \in 0 .. UART_FIFO_SIZE
      BY <1>3, <2>1, <3>3, UartFacts
    <3>5. tx_bytes' \in [Sender -> 0 .. UART_FIFO_SIZE]
      BY <2>1, <3>4, UartFacts
    <3>. QED  BY <3>1, <3>2, <3>3, <3>4, <3>5
  <2>. HIDE DEF after
  <2>3. /\ fifo' \in Seq(Byte) /\ Len(fifo') <= UART_FIFO_SIZE
        /\ Len(fifo) < UART_FIFO_SIZE => fifo' = fifo \o <<ptr[s]>> /\ Len(fifo') = Len(fifo) + 1
        /\ ~(Len(fifo) < UART_FIFO_SIZE) => fifo' = fifo
    <3>1. PICK e \in Byte : e = ptr[s]
      BY <1>2
    <3>2. Append(fifo, e) = fifo \o <<e>> /\ Append(fifo, e) \in Seq(Byte)
          /\ Len(Append(fifo, e)) = Len(fifo) + 1
      BY UartFacts
    <3>3. fifo' = IF Len(fifo) < UART_FIFO_SIZE THEN Append(fifo, e) ELSE fifo
      BY <2>1, <3>1 DEF Written
    <3>. QED  BY <3>1, <3>2, <3>3, UartFacts
  <2>4. UartTypes'
    BY <1>1, <2>1, <2>2, <2>3, UartFacts DEF UartInv, UartTypes, UartTypeOK
  <2>5. SendsItsText'
    BY <1>1, <1>2, <2>1, <2>2, UartFacts DEF UartInv, SendsItsText
  <2>6. <<ptr[s]>> \in Seq(Byte) /\ Len(<<ptr[s]>>) = 1 /\ <<ptr[s]>>[1] = ptr[s]
    BY <1>2
  <2>7. Len(fifo) < UART_FIFO_SIZE => Out' = Out \o <<ptr[s]>>
    <3>. DEFINE u == <<ptr[s]>>
    <3>1. u \in Seq(Byte)
      BY <2>6
    <3>. HIDE DEF u
    <3>2. (line \o fifo) \o u = line \o (fifo \o u)
      BY <3>1, UartFacts, ConcatAssociative, SMTT(30)
    <3>. QED  BY <1>1, <2>3, <3>2 DEF Out, u
  <2>8. ~(Len(fifo) < UART_FIFO_SIZE) => Out' = Out
    BY <1>1, <2>3 DEF Out
  <2>9. \A j \in 1 .. Len(Out) : \A t \in Sender :
            pc[t] # "out" /\ Out[j][1] = ptr'[t][1] => Out[j][2] < ptr'[t][2]
    <3>. SUFFICES ASSUME NEW j \in 1 .. Len(Out), NEW t \in Sender,
                         pc[t] # "out", Out[j][1] = ptr'[t][1]
                  PROVE  Out[j][2] < ptr'[t][2]
      OBVIOUS
    <3>1. Out[j] \in Byte /\ Out[j][2] \in Nat
      <4>1. Out \in Seq(Byte) /\ Len(Out) \in Nat
        BY UartFacts
      <4>2. Out[j] \in Byte
        BY <4>1
      <4>. QED  BY <4>2 DEF Byte
    <3>2. CASE t = s
      <4>1. Out[j][2] < ptr[s][2]
        BY <1>1, <2>2, <3>2 DEF UartInv, InOrder
      <4>. QED  BY <1>2, <2>2, <3>1, <3>2, <4>1
    <3>3. CASE t # s
      BY <2>2, <3>3 DEF UartInv, InOrder
    <3>. QED  BY <3>2, <3>3
  <2>10. InOrder'
    <3>1. CASE ~(Len(fifo) < UART_FIFO_SIZE)
      BY <1>1, <2>1, <2>8, <2>9, <3>1 DEF UartInv, InOrder
    <3>2. CASE Len(fifo) < UART_FIFO_SIZE
      <4>1. /\ Len(Out') = Len(Out) + 1 /\ Len(Out) \in Nat
            /\ \A j \in 1 .. Len(Out) : Out'[j] = Out[j]
            /\ Out'[Len(Out) + 1] = ptr[s]
        <5>. DEFINE u == <<ptr[s]>>
        <5>1. u \in Seq(Byte) /\ Len(u) = 1 /\ u[1] = ptr[s] /\ Out' = Out \o u
          BY <2>6, <2>7, <3>2
        <5>. HIDE DEF u
        <5>2. /\ Out \in Seq(Byte) /\ Len(Out) \in Nat
              /\ Len(Out \o u) = Len(Out) + Len(u)
              /\ \A j \in 1 .. Len(Out) + Len(u) : (Out \o u)[j] =
                            IF j <= Len(Out) THEN Out[j] ELSE u[j - Len(Out)]
          BY <5>1, UartFacts, ConcatProperties
        <5>3. \A j \in 1 .. Len(Out) + 1 : Out'[j] = IF j <= Len(Out) THEN Out[j] ELSE u[j - Len(Out)]
          BY <5>1, <5>2
        <5>4. Len(Out) + 1 \in 1 .. Len(Out) + 1 /\ ~(Len(Out) + 1 <= Len(Out))
              /\ (Len(Out) + 1) - Len(Out) = 1
          BY <5>2
        <5>. QED  BY <5>1, <5>2, <5>3, <5>4
      <4>2. \A t \in Sender : pc[t] # "out" /\ ptr'[t][1] = ptr[s][1] => ptr[s][2] < ptr'[t][2]
        <5>. SUFFICES ASSUME NEW t \in Sender, pc[t] # "out", ptr'[t][1] = ptr[s][1]
                      PROVE  ptr[s][2] < ptr'[t][2]
          OBVIOUS
        <5>1. t = s
          BY <1>2, <2>2 DEF UartInv, SendsItsText
        <5>. QED  BY <1>2, <2>2, <5>1
      <4>3. \A j \in 1 .. Len(Out) : Out[j][1] = ptr[s][1] => Out[j][2] < ptr[s][2]
        BY <1>1 DEF UartInv, InOrder
      <4>4. \A j \in 1 .. Len(Out') : j \in 1 .. Len(Out) \/ j = Len(Out) + 1
        BY <4>1
      <4>5. \A j \in 1 .. Len(Out) : Out[j][1] \in 1 .. Len(texts)
        BY DEF UartInv, InOrder
      <4>6. \A j, k \in 1 .. Len(Out) :
                j < k /\ Out[j][1] = Out[k][1] => Out[j][2] < Out[k][2]
        BY DEF UartInv, InOrder
      <4>7. \A j \in 1 .. Len(Out') :
              /\ Out'[j][1] \in 1 .. Len(texts')
              /\ \A t \in Sender :
                    pc'[t] # "out" /\ Out'[j][1] = ptr'[t][1] => Out'[j][2] < ptr'[t][2]
        BY <1>1, <1>2, <2>1, <2>9, <4>1, <4>2, <4>4, <4>5
      <4>8. ASSUME NEW j \in 1 .. Len(Out'), NEW k \in 1 .. Len(Out'),
                   j < k, Out'[j][1] = Out'[k][1]
            PROVE  Out'[j][2] < Out'[k][2]
        <5>1. j \in 1 .. Len(Out) /\ Out'[j] = Out[j]
          BY <4>1, <4>8
        <5>2. CASE k = Len(Out) + 1
          BY <4>1, <4>3, <4>8, <5>1, <5>2
        <5>3. CASE k \in 1 .. Len(Out)
          BY <4>1, <4>6, <4>8, <5>1, <5>3
        <5>. QED  BY <4>4, <5>2, <5>3
      <4>. QED  BY <4>7, <4>8 DEF InOrder
    <3>. QED  BY <3>1, <3>2
  <2>11. AloneIsWhole'
    <3>. SUFFICES ASSUME NEW t \in Sender, Alone(t)'
                  PROVE  /\ pc'[t] \in {"out", "here"} => fifo' = <<>>
                         /\ pc'[t] = "fill" => Len(fifo') + tx_bytes'[t] <= UART_FIFO_SIZE
                         /\ Out' \o Rest(t)' = AllTexts'
      BY DEF AloneIsWhole
    <3>1. Alone(t) /\ t = s
      <4>1. Alone(t)
        BY <1>1 DEF Alone
      <4>. QED  BY <1>1, <4>1, OthersAreOut
    <3>2. Len(fifo) + tx_bytes[s] <= UART_FIFO_SIZE /\ Out \o Rest(s) = AllTexts
      BY <1>1, <3>1 DEF UartInv, AloneIsWhole
    <3>3. Len(fifo) < UART_FIFO_SIZE
      BY <1>3, <2>2, <3>2, UartFacts
    <3>4. Len(fifo') + tx_bytes'[s] <= UART_FIFO_SIZE
      BY <2>2, <2>3, <3>2, <3>3, UartFacts, SMTT(30)
    <3>5. Rest(s) = <<ptr[s]>> \o Rest(s)'
      <4>. DEFINE r == nbytes[s] + tx_bytes[s]
      <4>1. r \in Nat /\ r > 0 /\ r - 1 = nbytes'[s] + tx_bytes'[s]
        BY <1>1, <1>3, <2>2
      <4>. HIDE DEF r
      <4>2. ToCome(ptr[s], r) = <<ptr[s]>> \o ToCome(after, r - 1)
        BY <1>2, <4>1, ToComeNext DEF after
      <4>3. Rest(s)' = ToCome(after, r - 1)
        BY <2>2, <4>1 DEF Rest, ToCome
      <4>. QED  BY <4>2, <4>3 DEF Rest, r
    <3>6. Rest(s)' \in Seq(Byte)
      <4>1. nbytes'[s] + tx_bytes'[s] \in Nat
        BY <1>1, <1>3, <2>2
      <4>2. ToCome(after, nbytes'[s] + tx_bytes'[s]) \in Seq(Byte)
        BY <2>2, <4>1, ToComeIs
      <4>. QED  BY <2>2, <4>2 DEF Rest, ToCome
    <3>7. Out' \o Rest(s)' = Out \o Rest(s)
      <4>1. (Out \o <<ptr[s]>>) \o Rest(s)' = Out \o (<<ptr[s]>> \o Rest(s)')
        <5>. DEFINE u == <<ptr[s]>>
                    v == Rest(s)'
        <5>1. u \in Seq(Byte) /\ v \in Seq(Byte) /\ Out \in Seq(Byte)
          BY <2>6, <3>6, UartFacts
        <5>. HIDE DEF u, v
        <5>2. (Out \o u) \o v = Out \o (u \o v)
          BY <5>1, ConcatAssociative
        <5>. QED  BY <5>2 DEF u, v
      <4>. QED  BY <2>7, <3>3, <3>5, <4>1
    <3>8. AllTexts' = AllTexts
      BY <1>1, AllTextsSame
    <3>. QED  BY <1>1, <2>1, <3>1, <3>2, <3>4, <3>7, <3>8
  <2>. QED  BY <2>4, <2>5, <2>10, <2>11 DEF UartInv
<1>4. CASE ~(tx_bytes[s] > 0)
  <2>1. /\ pc' = [pc EXCEPT ![s] = "thre"] /\ fifo' = fifo /\ ptr' = ptr /\ tx_bytes' = tx_bytes
    BY <1>4 DEF Fill
  <2>2. tx_bytes[s] = 0
    BY <1>4, UartFacts
  <2>3. UartTypes'
    BY <1>1, <2>1 DEF UartInv, UartTypes, UartTypeOK
  <2>4. SendsItsText'
    BY <1>1, <2>1, <2>2, UartFacts DEF UartInv, SendsItsText
  <2>5. Out' = Out
    BY <1>1, <2>1 DEF Out
  <2>6. InOrder'
    BY <1>1, <2>1, <2>5, UartFacts DEF UartInv, InOrder
  <2>7. AloneIsWhole'
    <3>. SUFFICES ASSUME NEW t \in Sender, Alone(t)'
                  PROVE  /\ pc'[t] \in {"out", "here"} => fifo' = <<>>
                         /\ pc'[t] = "fill" => Len(fifo') + tx_bytes'[t] <= UART_FIFO_SIZE
                         /\ Out' \o Rest(t)' = AllTexts'
      BY DEF AloneIsWhole
    <3>1. Alone(t) /\ t = s
      <4>1. Alone(t)
        BY <1>1 DEF Alone
      <4>. QED  BY <1>1, <4>1, OthersAreOut
    <3>2. Out \o Rest(s) = AllTexts
      BY <3>1 DEF UartInv, AloneIsWhole
    <3>3. Rest(s)' = Rest(s)
      BY <1>1, <2>1 DEF Rest
    <3>4. AllTexts' = AllTexts
      BY <1>1, AllTextsSame
    <3>5. pc'[s] = "thre"
      BY <2>1, UartFacts
    <3>. QED  BY <2>5, <3>1, <3>2, <3>3, <3>4, <3>5
  <2>. QED  BY <2>3, <2>4, <2>6, <2>7 DEF UartInv
<1>. QED  BY <1>3, <1>4

LEMMA SendInv == ASSUME UartInv, NEW s \in Sender, send_data_uart0_str(s) PROVE UartInv'
<1>0. PICK N \in Nat : N = Len(texts) + 1
  BY UartFacts
<1>1. PICK length \in 0 .. MaxLength :
        /\ texts' = Append(texts, <<s, length>>)
        /\ nbytes' = [nbytes EXCEPT ![s] = length]
        /\ ptr' = [ptr EXCEPT ![s] = <<N, 1>>]
        /\ pc' = [pc EXCEPT ![s] = IF length = 0 THEN "out" ELSE "here"]
  BY <1>0 DEF send_data_uart0_str
<1>2. pc[s] = "out" /\ tx_bytes' = tx_bytes /\ fifo' = fifo /\ line' = line
  BY DEF send_data_uart0_str
<1>3. /\ Len(texts) \in Nat /\ Len(texts') = N /\ N \in Nat
      /\ \A n \in 1 .. Len(texts) : texts'[n] = texts[n] /\ n # N /\ n \in 1 .. N
      /\ texts'[N] = <<s, length>> /\ texts'[N][1] = s /\ texts'[N][2] = length /\ N \in 1 .. N
      /\ texts' \in Seq(Sender \X (0 .. MaxLength))
      /\ <<N, 1>> \in Byte /\ <<N, 1>>[1] = N /\ <<N, 1>>[2] = 1
  <2>1. PICK e \in Sender \X (0 .. MaxLength) : e = <<s, length>> /\ e[1] = s /\ e[2] = length
    <3>1. <<s, length>> \in Sender \X (0 .. MaxLength)
      OBVIOUS
    <3>. QED  BY <3>1
  <2>2. texts' = Append(texts, e) /\ texts \in Seq(Sender \X (0 .. MaxLength))
    BY <1>1, <2>1, UartFacts
  <2>3. /\ Len(texts') = N /\ texts'[N] = e /\ texts' \in Seq(Sender \X (0 .. MaxLength))
        /\ \A n \in 1 .. Len(texts) : texts'[n] = texts[n]
    BY <1>0, <2>2
  <2>4. Len(texts) \in Nat /\ \A n \in 1 .. Len(texts) : n # N /\ n \in 1 .. N
    <3>1. Len(texts) \in Nat
      BY UartFacts
    <3>. QED  BY <1>0, <3>1
  <2>5. N \in 1 .. N
    BY <1>0, <2>4
  <2>6. <<N, 1>> \in Byte /\ <<N, 1>>[1] = N /\ <<N, 1>>[2] = 1
    BY DEF Byte
  <2>. QED  BY <2>1, <2>3, <2>4, <2>5, <2>6
<1>4. UartTypes'
  BY <1>1, <1>2, <1>3, UartFacts DEF UartInv, UartTypes, UartTypeOK
<1>5. SendsItsText'
  <2>. SUFFICES ASSUME NEW t \in Sender
                PROVE  /\ pc'[t] # "out" => /\ ptr'[t][1] \in 1 .. N
                                            /\ texts'[ptr'[t][1]][1] = t
                       /\ pc'[t] = "out" => nbytes'[t] = 0
                       /\ pc'[t] # "fill" => tx_bytes'[t] = 0
    BY <1>3 DEF SendsItsText
  <2>0. /\ pc[t] # "out" => ptr[t][1] \in 1 .. Len(texts) /\ texts[ptr[t][1]][1] = t
        /\ pc[t] = "out" => nbytes[t] = 0
        /\ pc[t] # "fill" => tx_bytes[t] = 0
    BY DEF UartInv, SendsItsText
  <2>1. CASE t = s
    <3>1. ptr'[s] = <<N, 1>> /\ nbytes'[s] = length /\ pc'[s] = (IF length = 0 THEN "out" ELSE "here")
      BY <1>1, UartFacts
    <3>. QED  BY <1>2, <1>3, <2>0, <2>1, <3>1
  <2>2. CASE t # s
    <3>1. ptr'[t] = ptr[t] /\ nbytes'[t] = nbytes[t] /\ pc'[t] = pc[t]
      BY <1>1, <2>2, UartFacts
    <3>. QED  BY <1>2, <1>3, <2>0, <3>1
  <2>. QED  BY <2>1, <2>2
<1>6. Out' = Out
  BY <1>2 DEF Out
<1>7. InOrder'
  <2>1. ASSUME NEW j \in 1 .. Len(Out)
        PROVE  /\ Out[j][1] \in 1 .. N
               /\ \A t \in Sender :
                     pc'[t] # "out" /\ Out[j][1] = ptr'[t][1] => Out[j][2] < ptr'[t][2]
    <3>1. Out[j][1] \in 1 .. Len(texts)
      BY DEF UartInv, InOrder
    <3>2. ASSUME NEW t \in Sender, pc'[t] # "out", Out[j][1] = ptr'[t][1]
          PROVE  Out[j][2] < ptr'[t][2]
      <4>1. t # s
        BY <1>1, <1>3, <3>1, <3>2, UartFacts
      <4>2. pc'[t] = pc[t] /\ ptr'[t] = ptr[t]
        BY <1>1, <4>1, UartFacts
      <4>. QED  BY <3>2, <4>2 DEF UartInv, InOrder
    <3>. QED  BY <1>3, <3>1, <3>2
  <2>2. \A j, k \in 1 .. Len(Out) :
            j < k /\ Out[j][1] = Out[k][1] => Out[j][2] < Out[k][2]
    BY DEF UartInv, InOrder
  <2>. QED  BY <1>3, <1>6, <2>1, <2>2 DEF InOrder
<1>8. AloneIsWhole'
  <2>. SUFFICES ASSUME NEW t \in Sender, Alone(t)'
                PROVE  /\ pc'[t] \in {"out", "here"} => fifo' = <<>>
                       /\ pc'[t] = "fill" => Len(fifo') + tx_bytes'[t] <= UART_FIFO_SIZE
                       /\ Out' \o Rest(t)' = AllTexts'
    BY DEF AloneIsWhole
  <2>1. Alone(t) /\ t = s
    BY <1>3 DEF Alone
  <2>2. fifo = <<>> /\ Out \o Rest(s) = AllTexts /\ nbytes[s] = 0 /\ tx_bytes[s] = 0
    BY <1>2, <2>1 DEF UartInv, AloneIsWhole, SendsItsText
  <2>3. Rest(s) = <<>> /\ Out = AllTexts
    <3>1. nbytes[s] + tx_bytes[s] = 0
      BY <2>2
    <3>2. Rest(s) = <<>>
      BY <3>1 DEF Rest, ToCome
    <3>. QED  BY <2>2, <3>2, UartFacts
  <2>4. Rest(s)' = Text(N)'
    <3>1. nbytes'[s] + tx_bytes'[s] = length
      BY <1>1, <1>2, <2>2, UartFacts
    <3>2. ptr'[s] = <<N, 1>>
      BY <1>1, UartFacts
    <3>3. \A b \in 1 .. length : 1 + b - 1 = b
      OBVIOUS
    <3>4. Rest(s)' = [b \in 1 .. length |-> <<N, 1 + b - 1>>]
      BY <1>3, <3>1, <3>2 DEF Rest, ToCome
    <3>5. Text(N)' = [b \in 1 .. length |-> <<N, b>>]
      BY <1>3 DEF Text
    <3>. QED  BY <3>3, <3>4, <3>5
  <2>5. AllTexts' = AllTexts \o Text(N)'
    <3>. DEFINE ss == [n \in 1 .. Len(texts) |-> Text(n)]
                tt == [n \in 1 .. N |-> Text(n)']
    <3>1. \A n \in 1 .. Len(texts) : Text(n)' = Text(n)
      BY <1>3 DEF Text
    <3>2. ASSUME NEW n \in 1 .. N PROVE Text(n)' \in Seq(Byte)
      <4>1. texts'[n] \in Sender \X (0 .. MaxLength)
        BY <1>3
      <4>2. texts'[n][2] \in Nat
        BY <4>1, UartFacts
      <4>3. \A b \in 1 .. texts'[n][2] : <<n, b>> \in Byte
        BY <1>3, <4>2 DEF Byte
      <4>. QED  BY <4>2, <4>3 DEF Text
    <3>3. ss \in Seq(Seq(Byte)) /\ Len(ss) = Len(texts)
      <4>1. \A n \in 1 .. Len(texts) : Text(n) \in Seq(Byte)
        BY <1>3, <3>1, <3>2
      <4>. QED  BY <1>3, <4>1
    <3>4. tt \in Seq(Seq(Byte)) /\ Len(tt) = N
      BY <1>3, <3>2
    <3>5. /\ Len(tt) = Len(ss) + 1 /\ tt[Len(tt)] = Text(N)'
          /\ \A j \in 1 .. Len(ss) : tt[j] = ss[j]
      BY <1>0, <1>3, <3>1, <3>3, <3>4
    <3>6. Text(N)' \in Seq(Byte)
      BY <1>3, <3>2
    <3>7. AllTexts = FlattenSeq(ss) /\ AllTexts' = FlattenSeq(tt)
      BY <1>3 DEF AllTexts
    <3>. HIDE DEF ss, tt
    <3>8. FlattenSeq(tt) = FlattenSeq(ss) \o tt[Len(tt)]
      BY <3>3, <3>4, <3>5, <3>6, FlattenLast
    <3>. QED  BY <3>5, <3>7, <3>8
  <2>6. pc'[s] # "fill"
    BY <1>1, UartFacts
  <2>. QED  BY <1>2, <1>6, <2>1, <2>2, <2>3, <2>4, <2>5, <2>6
<1>. QED  BY <1>4, <1>5, <1>7, <1>8 DEF UartInv

LEMMA UartStepInv == UartInv /\ [UartNext]_uartVars => UartInv'
<1>. SUFFICES ASSUME UartInv, [UartNext]_uartVars PROVE UartInv'
  OBVIOUS
<1>1. CASE UNCHANGED uartVars
  <2>1. /\ pc' = pc /\ nbytes' = nbytes /\ tx_bytes' = tx_bytes /\ ptr' = ptr
        /\ fifo' = fifo /\ line' = line /\ texts' = texts
    BY <1>1 DEF uartVars
  <2>2. Out' = Out /\ AllTexts' = AllTexts /\ \A s : Rest(s)' = Rest(s) /\ Alone(s)' = Alone(s)
    BY <2>1, AllTextsSame DEF Out, Rest, Alone
  <2>3. UartTypes' /\ SendsItsText'
    BY <2>1 DEF UartInv, UartTypes, UartTypeOK, SendsItsText
  <2>4. InOrder' /\ AloneIsWhole'
    BY <2>1, <2>2 DEF UartInv, InOrder, AloneIsWhole
  <2>. QED  BY <2>3, <2>4 DEF UartInv
<1>2. CASE UartNext
  BY <1>2, SendInv, NextPortionInv, FillInv, AwaitEmptyInv, TransmitInv DEF UartNext, Sends
<1>. QED  BY <1>1, <1>2

(* However many tasks send, the bytes of a text go out in order and at     *)
(* most once; and while one task alone sends, its texts go out whole.      *)
THEOREM TextsGoOut == UartSpec => []NothingIsLost
<1>1. UartSpec => []UartInv
  BY UartInitInv, UartStepInv, PTL DEF UartSpec
<1>. QED  BY <1>1, UartInvImplies, PTL

-----------------------------------------------------------------------------
(* The weights of the bits of a scan code.                                 *)
LEMMA Powers ==
    /\ 2^0 = 1 /\ 2^1 = 2 /\ 2^2 = 4 /\ 2^3 = 8
    /\ 2^4 = 16 /\ 2^5 = 32 /\ 2^6 = 64 /\ 2^7 = 128
OBVIOUS

(* The weight of the bit that is taken at a count of f.                    *)
Weight(f) ==
    CASE f = 1 -> 1 [] f = 2 -> 2 [] f = 3 -> 4 [] f = 4 -> 8
      [] f = 5 -> 16 [] f = 6 -> 32 [] f = 7 -> 64 [] f = 8 -> 128 [] OTHER -> 256

LEMMA WeightIs == \A f \in 1 .. 8 : 2^(f - 1) = Weight(f) /\ Weight(f) \in Nat
<1>. SUFFICES ASSUME NEW f \in 1 .. 8 PROVE 2^(f - 1) = Weight(f) /\ Weight(f) \in Nat
  OBVIOUS
<1>1. CASE f = 1
  <2>1. f - 1 = 0
    BY <1>1
  <2>. QED  BY <1>1, <2>1, Powers DEF Weight
<1>2. CASE f = 2
  <2>1. f - 1 = 1
    BY <1>2
  <2>. QED  BY <1>2, <2>1, Powers DEF Weight
<1>3. CASE f = 3
  <2>1. f - 1 = 2
    BY <1>3
  <2>. QED  BY <1>3, <2>1, Powers DEF Weight
<1>4. CASE f = 4
  <2>1. f - 1 = 3
    BY <1>4
  <2>. QED  BY <1>4, <2>1, Powers DEF Weight
<1>5. CASE f = 5
  <2>1. f - 1 = 4
    BY <1>5
  <2>. QED  BY <1>5, <2>1, Powers DEF Weight
<1>6. CASE f = 6
  <2>1. f - 1 = 5
    BY <1>6
  <2>. QED  BY <1>6, <2>1, Powers DEF Weight
<1>7. CASE f = 7
  <2>1. f - 1 = 6
    BY <1>7
  <2>. QED  BY <1>7, <2>1, Powers DEF Weight
<1>8. CASE f = 8
  <2>1. f - 1 = 7
    BY <1>8
  <2>. QED  BY <1>8, <2>1, Powers DEF Weight
<1>. QED  BY <1>1, <1>2, <1>3, <1>4, <1>5, <1>6, <1>7, <1>8

(* The table: a code times two stands for what the code stands for.        *)
LEMMA TableIs ==
    ASSUME NEW c \in ScanCode PROVE ps2_to_ascii(2 * (c % 128)) = Layout(c)
<1>1. CASE c = 131
  <2>1. 2 * (c % 128) = 6
    BY <1>1
  <2>2. ps2_to_ascii(6) = "?"
    BY DEF ps2_to_ascii
  <2>3. Layout(131) = "?"
    BY DEF Layout
  <2>. QED  BY <1>1, <2>1, <2>2, <2>3
<1>2. CASE c # 131
  <2>1. c \in 0 .. 127 /\ c % 128 = c
    BY <1>2 DEF ScanCode
  <2>2. ps2_to_ascii(2 * c) = Layout(c)
    BY <2>1 DEF ps2_to_ascii, Layout
  <2>. QED  BY <2>1, <2>2
<1>. QED  BY <1>1, <1>2

(* The code's lower bits, of which place - 1 have been sent.               *)
Lower(c, b) ==
    CASE b = 0 -> 0 [] b = 1 -> c % 2 [] b = 2 -> c % 4 [] b = 3 -> c % 8
      [] b = 4 -> c % 16 [] b = 5 -> c % 32 [] b = 6 -> c % 64 [] OTHER -> c % 128

LEMMA BitIs ==
    ASSUME NEW c \in 0 .. 255, NEW b \in 0 .. 10
    PROVE  Bit(c, b) \in {0, 1}
<1>1. \A n \in Int : n % 2 \in {0, 1}
  OBVIOUS
<1>2. CASE b = 0
  BY <1>2 DEF Bit
<1>3. CASE b \in 1 .. 8
  <2>1. 2^(b - 1) = Weight(b)
    BY <1>3, WeightIs
  <2>2. 2^(b - 1) \in Nat /\ 2^(b - 1) > 0
    <3>1. Weight(b) \in Nat /\ Weight(b) > 0
      BY <1>3 DEF Weight
    <3>. QED  BY <2>1, <3>1
  <2>3. c \div 2^(b - 1) \in Int
    BY <2>2
  <2>. QED  BY <1>1, <1>3, <2>3 DEF Bit, DataBit
<1>4. CASE b = 9
  <2>1. {k \in 0 .. 7 : DataBit(c, k) = 1} \in SUBSET (0 .. 7)
    OBVIOUS
  <2>2. IsFiniteSet({k \in 0 .. 7 : DataBit(c, k) = 1})
    <3>0. \A m, n \in Int : IsFiniteSet(m .. n)
      BY FS_Interval
    <3>. DEFINE z == 0
                n == 7
    <3>a. z \in Int /\ n \in Int
      OBVIOUS
    <3>. HIDE DEF z, n
    <3>b. IsFiniteSet(z .. n)
      BY <3>0, <3>a
    <3>1. IsFiniteSet(0 .. 7)
      BY <3>b DEF z, n
    <3>. QED  BY <2>1, <3>1, FS_Subset
  <2>3. Cardinality({k \in 0 .. 7 : DataBit(c, k) = 1}) \in Nat
    BY <2>2, FS_CardinalityType
  <2>. QED  BY <1>1, <1>4, <2>3 DEF Bit
<1>5. CASE b = 10
  BY <1>5 DEF Bit
<1>. QED  BY <1>2, <1>3, <1>4, <1>5

(* The next bit of the code, at the place behind the start bit.            *)
LEMMA LowerNext ==
    ASSUME NEW c \in 0 .. 255, NEW b \in 1 .. 7
    PROVE  2 * Lower(c, b) = 2 * Lower(c, b - 1) + Weight(b + 1) * Bit(c, b)
<1>1. Bit(c, b) = (c \div 2^(b - 1)) % 2
  BY DEF Bit, DataBit
<1>2. 2^(b - 1) = Weight(b)
  <2>1. b \in 1 .. 8
    OBVIOUS
  <2>. QED  BY <2>1, WeightIs
<1>3. CASE b = 1
  BY <1>1, <1>2, <1>3 DEF Lower, Weight
<1>4. CASE b = 2
  BY <1>1, <1>2, <1>4 DEF Lower, Weight
<1>5. CASE b = 3
  BY <1>1, <1>2, <1>5 DEF Lower, Weight
<1>6. CASE b = 4
  BY <1>1, <1>2, <1>6 DEF Lower, Weight
<1>7. CASE b = 5
  BY <1>1, <1>2, <1>7 DEF Lower, Weight
<1>8. CASE b = 6
  BY <1>1, <1>2, <1>8 DEF Lower, Weight
<1>9. CASE b = 7
  BY <1>1, <1>2, <1>9 DEF Lower, Weight
<1>. QED  BY <1>3, <1>4, <1>5, <1>6, <1>7, <1>8, <1>9

-----------------------------------------------------------------------------
(* What is below this at a count of f has been taken.                      *)
Limit(f) == IF f = 0 THEN 1 ELSE Weight(f)

(* The count and the place in the frame go together, slip apart.           *)
CountFollowsPlace ==
    frame = IF place + slip < 11 THEN place + slip ELSE place + slip - 11

(* A frame in phase from its beginning on: what has been taken of it, ...  *)
FrameIsTaken ==
    steady >= 1 /\ slip = 1 =>
        /\ code \in Key \cup {RELEASE}
        /\ place \in 1 .. 9 => character_entered = 2 * Lower(code, place - 1)
        /\ place \in 0 .. 9 => added = NUL
        /\ place >= 10 => next_charater_is_released = (code = RELEASE)

(* ... and the second one, which also knows what the first one was.        *)
SecondFrame ==
    steady = 2 /\ slip = 1 =>
        /\ place \in 0 .. 9 => next_charater_is_released = released
        /\ place >= 10 => added = Intended

FramesInv ==
    /\ FramesTypeOK
    /\ place < 11 => code \in Key \cup {RELEASE}
    /\ character_entered < Limit(frame)
    /\ CountFollowsPlace
    /\ FrameIsTaken
    /\ SecondFrame

LEMMA FramesInvImplies == FramesInv => InPhaseFramesDecode
BY DEF FramesInv, SecondFrame, InPhaseFramesDecode, FramesTypeOK

LEMMA FramesInitInv == FramesInit => FramesInv
<1>. SUFFICES ASSUME FramesInit PROVE FramesInv
  OBVIOUS
<1>1. EdgesBefore \in 0 .. 10 /\ MaxFaults \in Nat
  BY FramesAssumption
<1>2. FramesTypeOK
  <2>1. /\ frame \in 0 .. 10 /\ character_entered \in 0 .. 255 /\ place \in 0 .. 11
    BY <1>1 DEF FramesInit
  <2>2. slip \in 0 .. 10 /\ steady \in 0 .. 2 /\ faults \in 0 .. MaxFaults
    BY <1>1 DEF FramesInit
  <2>3. code \in Key \cup {RELEASE, -1}
    BY DEF FramesInit
  <2>4. next_charater_is_released \in BOOLEAN
    BY DEF FramesInit
  <2>5. released \in BOOLEAN
    BY DEF FramesInit
  <2>. QED  BY <2>1, <2>2, <2>3, <2>4, <2>5 DEF FramesTypeOK
<1>3. 0 < Limit(frame)
  BY <1>1 DEF FramesInit, Limit, Weight
<1>4. CountFollowsPlace
  BY <1>1 DEF FramesInit, CountFollowsPlace
<1>. QED  BY <1>2, <1>3, <1>4 DEF FramesInit, FramesInv, FrameIsTaken, SecondFrame

LEMMA CodesAre ==
    ASSUME FramesInv
    PROVE  /\ Key \subseteq 0 .. 255 /\ RELEASE \in 0 .. 255
           /\ frame \in 0 .. 10 /\ place \in 0 .. 11 /\ slip \in 0 .. 10 /\ steady \in 0 .. 2
           /\ character_entered \in 0 .. 255 /\ code \in Key \cup {RELEASE, -1}
           /\ faults \in 0 .. MaxFaults /\ MaxFaults \in Nat
BY FramesAssumption DEF FramesInv, FramesTypeOK, RELEASE, ScanCode

(* What one edge does.                                                     *)
LEMMA EdgeIs ==
    ASSUME FramesInv, NEW bit \in {0, 1}, EINT3_IRQHandler(bit)
    PROVE  \E entered \in 0 .. 255 :
              /\ entered = IF frame \in 1 .. 8 THEN character_entered + Weight(frame) * bit
                           ELSE character_entered
              /\ frame' = IF frame = 10 THEN 0 ELSE frame + 1
              /\ character_entered' = IF frame = 10 THEN 0 ELSE entered
              /\ character_entered' \in 0 .. 255 /\ character_entered' < Limit(frame')
              /\ IF frame = 10 THEN Entered(entered)
                 ELSE UNCHANGED <<next_charater_is_released, added>>
<1>. DEFINE entered == IF bit = 1 /\ frame # 0 /\ frame < 9
                       THEN character_entered + 2^(frame - 1) ELSE character_entered
            e == IF frame \in 1 .. 8 THEN character_entered + Weight(frame) * bit
                 ELSE character_entered
<1>0. frame \in 0 .. 10 /\ character_entered \in 0 .. 255 /\ character_entered < Limit(frame)
  BY CodesAre DEF FramesInv
<1>1. entered = e
  <2>1. CASE frame \in 1 .. 8
    <3>1. 2^(frame - 1) = Weight(frame) /\ Weight(frame) \in Nat
      BY <2>1, WeightIs
    <3>2. Weight(frame) * 1 = Weight(frame) /\ Weight(frame) * 0 = 0
      BY <3>1
    <3>. QED  BY <1>0, <2>1, <3>1, <3>2
  <2>2. CASE ~(frame \in 1 .. 8)
    BY <1>0, <2>2
  <2>. QED  BY <2>1, <2>2
<1>2. e \in 0 .. 255 /\ (frame # 10 => e < Limit(frame + 1))
  <2>1. CASE bit = 0
    <3>1. e = character_entered
      <4>1. frame \in 1 .. 8 => Weight(frame) * 0 = 0
        BY WeightIs
      <4>. QED  BY <1>0, <2>1, <4>1
    <3>. HIDE DEF e
    <3>2. frame # 10 => Limit(frame) <= Limit(frame + 1)
      BY <1>0 DEF Limit, Weight
    <3>3. frame # 10 => Limit(frame + 1) \in Nat /\ Limit(frame) \in Nat
      BY <1>0 DEF Limit, Weight
    <3>. QED  BY <1>0, <3>1, <3>2, <3>3
  <2>2. CASE bit = 1
    <3>1. e = IF frame \in 1 .. 8 THEN character_entered + Weight(frame) ELSE character_entered
      <4>1. frame \in 1 .. 8 => Weight(frame) * 1 = Weight(frame)
        BY WeightIs
      <4>. QED  BY <1>0, <2>2, <4>1
    <3>. HIDE DEF e
    <3>. QED  BY <1>0, <3>1 DEF Limit, Weight
  <2>. QED  BY <2>1, <2>2
<1>. HIDE DEF e
<1>3. CASE frame = 10
  <2>1. Entered(entered) /\ frame' = 0 /\ character_entered' = 0
    BY <1>3 DEF EINT3_IRQHandler
  <2>2. 0 < Limit(0)
    BY DEF Limit
  <2>. HIDE DEF entered
  <2>. QED  BY <1>1, <1>2, <1>3, <2>1, <2>2 DEF e
<1>4. CASE frame # 10
  <2>1. /\ frame' = frame + 1 /\ character_entered' = entered
        /\ UNCHANGED <<next_charater_is_released, added>>
    BY <1>0, <1>4 DEF EINT3_IRQHandler
  <2>. HIDE DEF entered
  <2>. QED  BY <1>1, <1>2, <1>4, <2>1 DEF e
<1>. QED  BY <1>3, <1>4

LEMMA SendFrameInv == ASSUME FramesInv, SendFrame PROVE FramesInv'
<1>0. /\ frame \in 0 .. 10 /\ slip \in 0 .. 10 /\ steady \in 0 .. 2 /\ place = 11
      /\ character_entered \in 0 .. 255 /\ faults \in 0 .. MaxFaults
      /\ character_entered < Limit(frame)
  BY CodesAre DEF FramesInv, SendFrame
<1>1. /\ code' \in Key \cup {RELEASE} /\ released' = (code = RELEASE) /\ place' = 0 /\ added' = NUL
      /\ steady' = (IF steady < 2 THEN steady + 1 ELSE 2)
      /\ frame' = frame /\ character_entered' = character_entered
      /\ next_charater_is_released' = next_charater_is_released /\ slip' = slip /\ faults' = faults
  BY DEF SendFrame
<1>2. FramesTypeOK'
  <2>1. released' \in BOOLEAN
    BY <1>1
  <2>2. next_charater_is_released' \in BOOLEAN
    BY <1>1 DEF FramesInv, FramesTypeOK
  <2>3. code' \in Key \cup {RELEASE, -1}
    BY <1>1
  <2>4. steady' \in 0 .. 2 /\ place' \in 0 .. 11
    BY <1>0, <1>1
  <2>. QED  BY <1>0, <1>1, <2>1, <2>2, <2>3, <2>4 DEF FramesTypeOK
<1>3. CountFollowsPlace'
  BY <1>0, <1>1 DEF FramesInv, CountFollowsPlace
<1>4. FrameIsTaken'
  BY <1>0, <1>1 DEF FrameIsTaken
<1>5. SecondFrame'
  <2>. SUFFICES ASSUME steady' = 2, slip' = 1 PROVE next_charater_is_released' = released'
    BY <1>0, <1>1 DEF SecondFrame
  <2>1. steady >= 1 /\ slip = 1
    BY <1>0, <1>1
  <2>. QED  BY <1>0, <1>1, <2>1 DEF FramesInv, FrameIsTaken
<1>. QED  BY <1>0, <1>1, <1>2, <1>3, <1>4, <1>5 DEF FramesInv

LEMMA LoseEdgeInv == ASSUME FramesInv, LoseEdge PROVE FramesInv'
<1>0. /\ frame \in 0 .. 10 /\ slip \in 0 .. 10 /\ place \in 0 .. 10
      /\ faults \in 0 .. MaxFaults /\ MaxFaults \in Nat /\ faults < MaxFaults
  BY CodesAre DEF LoseEdge
<1>1. /\ place' = place + 1 /\ steady' = 0 /\ faults' = faults + 1
      /\ slip' = (slip - 1) % 11
      /\ frame' = frame /\ character_entered' = character_entered
      /\ next_charater_is_released' = next_charater_is_released /\ added' = added
      /\ code' = code /\ released' = released
  BY DEF LoseEdge, decoder
<1>2. slip' = IF slip = 0 THEN 10 ELSE slip - 1
  BY <1>0, <1>1
<1>3. FramesTypeOK'
  <2>1. slip' \in 0 .. 10 /\ place' \in 0 .. 11 /\ steady' \in 0 .. 2 /\ faults' \in 0 .. MaxFaults
    BY <1>0, <1>1, <1>2
  <2>. QED  BY <1>1, <2>1 DEF FramesInv, FramesTypeOK
<1>4. CountFollowsPlace'
  BY <1>0, <1>1, <1>2 DEF FramesInv, CountFollowsPlace
<1>5. FrameIsTaken' /\ SecondFrame'
  BY <1>1 DEF FrameIsTaken, SecondFrame
<1>. QED  BY <1>0, <1>1, <1>3, <1>4, <1>5 DEF FramesInv

LEMMA EdgeTypes ==
    ASSUME FramesInv, NEW bit \in {0, 1}, EINT3_IRQHandler(bit)
    PROVE  /\ frame' \in 0 .. 10 /\ frame' = IF frame = 10 THEN 0 ELSE frame + 1
           /\ character_entered' \in 0 .. 255 /\ character_entered' < Limit(frame')
           /\ next_charater_is_released' \in BOOLEAN
<1>1. PICK entered \in 0 .. 255 :
         /\ frame' = IF frame = 10 THEN 0 ELSE frame + 1
         /\ character_entered' \in 0 .. 255 /\ character_entered' < Limit(frame')
         /\ IF frame = 10 THEN Entered(entered)
            ELSE UNCHANGED <<next_charater_is_released, added>>
  BY EdgeIs
<1>2. frame \in 0 .. 10 /\ next_charater_is_released \in BOOLEAN
  BY DEF FramesInv, FramesTypeOK
<1>3. next_charater_is_released' \in BOOLEAN
  BY <1>1, <1>2 DEF Entered
<1>. QED  BY <1>1, <1>2, <1>3

LEMMA ExtraEdgeInv == ASSUME FramesInv, ExtraEdge PROVE FramesInv'
<1>0. /\ frame \in 0 .. 10 /\ slip \in 0 .. 10 /\ place \in 0 .. 11
      /\ faults \in 0 .. MaxFaults /\ MaxFaults \in Nat /\ faults < MaxFaults
  BY CodesAre DEF ExtraEdge
<1>1. /\ place' = place /\ steady' = 0 /\ faults' = faults + 1
      /\ slip' = (slip + 1) % 11 /\ code' = code /\ released' = released
  BY DEF ExtraEdge, keyboard
<1>2. slip' = IF slip = 10 THEN 0 ELSE slip + 1
  BY <1>0, <1>1
<1>3. /\ frame' \in 0 .. 10 /\ frame' = IF frame = 10 THEN 0 ELSE frame + 1
      /\ character_entered' \in 0 .. 255 /\ character_entered' < Limit(frame')
      /\ next_charater_is_released' \in BOOLEAN
  BY EdgeTypes DEF ExtraEdge
<1>4. FramesTypeOK'
  <2>1. slip' \in 0 .. 10 /\ steady' \in 0 .. 2 /\ faults' \in 0 .. MaxFaults
    BY <1>0, <1>1, <1>2
  <2>. QED  BY <1>1, <1>3, <2>1 DEF FramesInv, FramesTypeOK
<1>5. CountFollowsPlace'
  BY <1>0, <1>1, <1>2, <1>3 DEF FramesInv, CountFollowsPlace
<1>6. FrameIsTaken' /\ SecondFrame'
  BY <1>1 DEF FrameIsTaken, SecondFrame
<1>. QED  BY <1>0, <1>1, <1>3, <1>4, <1>5, <1>6 DEF FramesInv

(* A whole code is RELEASE, or a key's.                                    *)
LEMMA ReleaseIs ==
    ASSUME NEW c \in Key \cup {RELEASE}
    PROVE  /\ 2 * (c % 128) = REALEASED_KEY_CODE <=> c = RELEASE
           /\ c # RELEASE => c \in ScanCode
<1>1. CASE c = RELEASE
  BY <1>1 DEF RELEASE, REALEASED_KEY_CODE
<1>2. CASE c # RELEASE
  <2>1. c \in ScanCode
    BY <1>2, FramesAssumption
  <2>. QED  BY <1>2, <2>1 DEF ScanCode, RELEASE, REALEASED_KEY_CODE
<1>. QED  BY <1>1, <1>2

LEMMA SendBitInv == ASSUME FramesInv, SendBit PROVE FramesInv'
<1>. DEFINE bit == Bit(code, place)
<1>0. /\ frame \in 0 .. 10 /\ slip \in 0 .. 10 /\ place \in 0 .. 10 /\ steady \in 0 .. 2
      /\ character_entered < Limit(frame) /\ character_entered \in 0 .. 255
      /\ code \in Key \cup {RELEASE} /\ code \in 0 .. 255
  <2>1. place \in 0 .. 10
    BY CodesAre DEF SendBit
  <2>. QED  BY <2>1, CodesAre DEF FramesInv
<1>1. /\ place' = place + 1 /\ code' = code /\ released' = released /\ slip' = slip
      /\ steady' = steady /\ faults' = faults /\ EINT3_IRQHandler(bit)
  BY DEF SendBit
<1>2. bit \in {0, 1}
  BY <1>0, BitIs
<1>. HIDE DEF bit
<1>3. /\ frame' \in 0 .. 10 /\ frame' = IF frame = 10 THEN 0 ELSE frame + 1
      /\ character_entered' \in 0 .. 255 /\ character_entered' < Limit(frame')
      /\ next_charater_is_released' \in BOOLEAN
  BY <1>1, <1>2, EdgeTypes
<1>4. PICK entered \in 0 .. 255 :
         /\ entered = IF frame \in 1 .. 8 THEN character_entered + Weight(frame) * bit
                      ELSE character_entered
         /\ character_entered' = IF frame = 10 THEN 0 ELSE entered
         /\ IF frame = 10 THEN Entered(entered)
            ELSE UNCHANGED <<next_charater_is_released, added>>
  BY <1>1, <1>2, EdgeIs
<1>5. FramesTypeOK'
  <2>1. place' \in 0 .. 11 /\ slip' \in 0 .. 10 /\ steady' \in 0 .. 2
    BY <1>0, <1>1
  <2>. QED  BY <1>1, <1>3, <2>1 DEF FramesInv, FramesTypeOK
<1>6. CountFollowsPlace'
  BY <1>0, <1>1, <1>3 DEF FramesInv, CountFollowsPlace
<1>7. FrameIsTaken' /\ SecondFrame'
  <2>. SUFFICES ASSUME steady >= 1, slip = 1 PROVE FrameIsTaken' /\ SecondFrame'
    BY <1>0, <1>1 DEF FrameIsTaken, SecondFrame
  <2>0. /\ place \in 1 .. 9 => character_entered = 2 * Lower(code, place - 1)
        /\ place \in 0 .. 9 => added = NUL
        /\ place >= 10 => next_charater_is_released = (code = RELEASE)
        /\ steady = 2 /\ place \in 0 .. 9 => next_charater_is_released = released
        /\ steady = 2 /\ place >= 10 => added = Intended
        /\ frame = IF place = 10 THEN 0 ELSE place + 1
    BY <1>0 DEF FramesInv, FrameIsTaken, SecondFrame, CountFollowsPlace
  <2>1. CASE place \in 0 .. 8
    <3>1. /\ character_entered' = entered /\ added' = added
          /\ next_charater_is_released' = next_charater_is_released /\ place' \in 1 .. 9
          /\ place' - 1 = place
      BY <1>0, <1>1, <1>4, <2>0, <2>1
    <3>2. entered = 2 * Lower(code, place)
      <4>1. CASE place = 0
        <5>1. bit = 0 /\ frame = 1 /\ character_entered = 0
          BY <1>0, <2>0, <4>1 DEF bit, Bit, Limit, Weight
        <5>2. Weight(1) * 0 = 0
          BY DEF Weight
        <5>. QED  BY <1>4, <4>1, <5>1, <5>2 DEF Lower
      <4>2. CASE place \in 1 .. 7
        <5>1. entered = 2 * Lower(code, place - 1) + Weight(place + 1) * bit
          BY <1>4, <2>0, <4>2
        <5>. QED  BY <1>0, <4>2, <5>1, LowerNext DEF bit
      <4>3. CASE place = 8
        <5>1. entered = 2 * Lower(code, 7)
          BY <1>4, <2>0, <4>3
        <5>2. Lower(code, 7) = Lower(code, 8)
          BY DEF Lower
        <5>. QED  BY <4>3, <5>1, <5>2
      <4>. QED  BY <2>1, <4>1, <4>2, <4>3
    <3>3. FrameIsTaken'
      BY <1>0, <1>1, <2>0, <2>1, <3>1, <3>2 DEF FrameIsTaken
    <3>4. SecondFrame'
      BY <1>0, <1>1, <2>0, <2>1, <3>1 DEF SecondFrame
    <3>. QED  BY <3>3, <3>4
  <2>2. CASE place = 9
    <3>1. entered = 2 * (code % 128) /\ Entered(entered)
      <4>1. entered = 2 * Lower(code, 8)
        BY <1>4, <2>0, <2>2
      <4>. QED  BY <1>4, <2>0, <2>2, <4>1 DEF Lower
    <3>2. place' = 10
      BY <1>1, <2>2
    <3>3. next_charater_is_released' = (code = RELEASE)
      BY <1>0, <3>1, ReleaseIs DEF Entered
    <3>4. steady = 2 => added' = Intended
      <4>. SUFFICES ASSUME steady = 2 PROVE added' = Intended
        OBVIOUS
      <4>0. next_charater_is_released = released /\ added = NUL
        BY <2>0, <2>2
      <4>1. CASE code = RELEASE
        BY <1>0, <3>1, <4>0, <4>1, ReleaseIs DEF Entered, Intended
      <4>2. CASE code # RELEASE
        <5>1. ps2_to_ascii(entered) = Layout(code)
          BY <1>0, <3>1, <4>2, ReleaseIs, TableIs
        <5>2. added' = IF next_charater_is_released THEN added ELSE ps2_to_ascii(entered)
          BY <1>0, <3>1, <4>2, ReleaseIs DEF Entered
        <5>. QED  BY <4>0, <4>2, <5>1, <5>2 DEF Intended
      <4>. QED  BY <4>1, <4>2
    <3>5. Intended' = Intended
      BY <1>1 DEF Intended
    <3>. QED  BY <1>0, <1>1, <3>2, <3>3, <3>4, <3>5 DEF FrameIsTaken, SecondFrame
  <2>3. CASE place = 10
    <3>1. /\ added' = added /\ next_charater_is_released' = next_charater_is_released
          /\ place' = 11
      BY <1>1, <1>4, <2>0, <2>3
    <3>2. Intended' = Intended
      BY <1>1 DEF Intended
    <3>. QED  BY <1>0, <1>1, <2>0, <2>3, <3>1, <3>2 DEF FrameIsTaken, SecondFrame
  <2>. QED  BY <1>0, <2>1, <2>2, <2>3
<1>. QED  BY <1>0, <1>1, <1>3, <1>5, <1>6, <1>7 DEF FramesInv

LEMMA FramesStepInv == FramesInv /\ [FramesNext]_frameVars => FramesInv'
<1>. SUFFICES ASSUME FramesInv, [FramesNext]_frameVars PROVE FramesInv'
  OBVIOUS
<1>1. CASE UNCHANGED frameVars
  BY <1>1 DEF frameVars, decoder, keyboard, FramesInv, FramesTypeOK, CountFollowsPlace,
              FrameIsTaken, SecondFrame, Intended
<1>2. CASE FramesNext
  BY <1>2, SendFrameInv, SendBitInv, LoseEdgeInv, ExtraEdgeInv DEF FramesNext
<1>. QED  BY <1>1, <1>2

(* However many edges were lost or added before: the second whole frame    *)
(* that is counted one ahead is decoded as its key, for any keys of one    *)
(* byte.                                                                   *)
THEOREM FramesAreDecoded == FramesSpec => []InPhaseFramesDecode
<1>1. FramesSpec => []FramesInv
  BY FramesInitInv, FramesStepInv, PTL DEF FramesSpec
<1>. QED  BY <1>1, FramesInvImplies, PTL
=============================================================================
