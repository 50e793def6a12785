---------------------------- MODULE KernelProofs ----------------------------
(***************************************************************************)
(* The kernel functions preserve the consistency of the kernel state.      *)
(*                                                                         *)
(* KInv is the inductive form of what Kernel calls a consistent state: it  *)
(* adds the type, that the idle task never leaves its ready list (so that  *)
(* there is a next task to find), that the timer task waits without a      *)
(* timeout, and what the fields of a task that waits, or does not, hold.   *)
(***************************************************************************)
EXTENDS Kernel, SequenceTheorems, WellFoundedInduction, TLAPS

(***************************************************************************)
(* What the operators of Lists do to the elements, the order and the       *)
(* first element of a list, and what follows for the ready lists, their    *)
(* bitmap and the choice of the next task: all that the proofs about the   *)
(* kernel functions see of lists.                                          *)
(***************************************************************************)

(* A list is empty exactly when it has no element.                         *)
LEMMA EmptyList ==
    ASSUME NEW S, NEW q \in Seq(S)
    PROVE  q = <<>> <=> Range(q) = {}
BY EmptySeq DEF Range

(* The first element of a non-empty list is one of its elements, and they  *)
(* all belong to the set the list is over.                                 *)
LEMMA HeadInList ==
    ASSUME NEW S, NEW q \in Seq(S), q # <<>>
    PROVE  Head(q) \in Range(q) /\ Head(q) \in S
BY DEF Range

LEMMA ListElements ==
    ASSUME NEW S, NEW q \in Seq(S)
    PROVE  Range(q) \subseteq S
BY DEF Range

(* queue_insert_before(head, e) adds e, once, behind the others.           *)
LEMMA InsertLastFacts ==
    ASSUME NEW S, NEW q \in Seq(S), NEW e \in S
    PROVE  /\ InsertLast(q, e) \in Seq(S)
           /\ InsertLast(q, e) # <<>>
           /\ Range(InsertLast(q, e)) = Range(q) \cup {e}
           /\ Distinct(q) /\ e \notin Range(q) => Distinct(InsertLast(q, e))
           /\ Head(InsertLast(q, e)) = IF q = <<>> THEN e ELSE Head(q)
<1> DEFINE r == Append(q, e)
<1>1. /\ r \in Seq(S) /\ Len(r) = Len(q) + 1 /\ Len(q) \in Nat
      /\ DOMAIN r = 1 .. Len(r) /\ DOMAIN q = 1 .. Len(q)
      /\ \A i \in 1 .. Len(q) : r[i] = q[i]
      /\ r[Len(q) + 1] = e
  OBVIOUS
<1>2. r # <<>>
  BY <1>1
<1>3. Range(r) = Range(q) \cup {e}
  <2>1. DOMAIN r = DOMAIN q \cup {Len(q) + 1}
    BY <1>1
  <2>2. \A x \in Range(r) : x \in Range(q) \cup {e}
    BY <1>1, <2>1 DEF Range
  <2>3. \A x \in Range(q) \cup {e} : x \in Range(r)
    BY <1>1, <2>1 DEF Range
  <2> QED
    BY <2>2, <2>3
<1>4. Distinct(q) /\ e \notin Range(q) => Distinct(r)
  BY <1>1 DEF Distinct, IsInjective, Range
<1>5. Head(r) = IF q = <<>> THEN e ELSE Head(q)
  BY <1>1
<1> QED
  BY <1>1, <1>2, <1>3, <1>4, <1>5 DEF InsertLast

(* queue_remove_element(e) closes the gap: the elements behind e move one  *)
(* position to the front.                                                  *)
LEMMA WithoutAt ==
    ASSUME NEW S, NEW q \in Seq(S), NEW e \in Range(q)
    PROVE  \E i \in 1 .. Len(q) :
              /\ q[i] = e
              /\ Without(q, e) \in Seq(S)
              /\ Len(Without(q, e)) = Len(q) - 1
              /\ DOMAIN Without(q, e) = 1 .. Len(q) - 1
              /\ \A j \in 1 .. Len(q) - 1 :
                    Without(q, e)[j] = IF j < i THEN q[j] ELSE q[j + 1]
<1> DEFINE i == CHOOSE j \in DOMAIN q : q[j] = e
           a == SubSeq(q, 1, i - 1)
           b == SubSeq(q, i + 1, Len(q))
           r == a \o b
<1>1. i \in DOMAIN q /\ q[i] = e
  BY DEF Range
<1>2. i \in 1 .. Len(q) /\ Len(q) \in Nat
  BY <1>1
<1> HIDE DEF i
<1>3. /\ a \in Seq(S) /\ Len(a) = i - 1
      /\ \A j \in 1 .. i - 1 : a[j] = q[j]
  BY <1>2
<1>4. /\ b \in Seq(S) /\ Len(b) = Len(q) - i
      /\ \A j \in 1 .. Len(q) - i : b[j] = q[j + i]
  BY <1>2
<1> HIDE DEF a, b
<1>5. /\ r \in Seq(S) /\ Len(r) = Len(q) - 1 /\ DOMAIN r = 1 .. Len(q) - 1
      /\ \A j \in 1 .. Len(q) - 1 : r[j] = IF j < i THEN q[j] ELSE q[j + 1]
  <2>1. r \in Seq(S) /\ Len(r) = Len(q) - 1 /\ DOMAIN r = 1 .. Len(q) - 1
    <3>1. r \in Seq(S) /\ Len(r) = Len(a) + Len(b)
      BY <1>3, <1>4, ConcatProperties
    <3>2. Len(r) = Len(q) - 1
      BY <1>2, <1>3, <1>4, <3>1
    <3> QED
      BY <3>1, <3>2, LenProperties
  <2>2. \A j \in 1 .. Len(r) : r[j] = IF j <= Len(a) THEN a[j] ELSE b[j - Len(a)]
    BY <1>2, <1>3, <1>4
  <2>3. ASSUME NEW j \in 1 .. Len(q) - 1
        PROVE  r[j] = IF j < i THEN q[j] ELSE q[j + 1]
    <3> HIDE DEF r
    <3>1. CASE j < i
      BY <1>2, <1>3, <2>1, <2>2, <3>1
    <3>2. CASE j >= i
      <4>1. j - Len(a) \in 1 .. Len(q) - i /\ (j - Len(a)) + i = j + 1
        BY <1>2, <1>3, <3>2
      <4>2. r[j] = b[j - Len(a)]
        BY <1>2, <1>3, <2>1, <2>2, <3>2
      <4>3. b[j - Len(a)] = q[(j - Len(a)) + i]
        BY <1>4, <4>1
      <4> QED
        BY <1>2, <3>2, <4>1, <4>2, <4>3
    <3> QED
      BY <1>2, <3>1, <3>2
  <2> QED
    BY <2>1, <2>3
<1> HIDE DEF r
<1>6. Without(q, e) = r
  BY DEF Without, r, a, b, i
<1> QED
  BY <1>1, <1>2, <1>5, <1>6

(* queue_remove_element(e) takes e away, wherever it stands, and keeps the *)
(* order of the others.                                                    *)
LEMMA WithoutFacts ==
    ASSUME NEW S, NEW q \in Seq(S), NEW e
    PROVE  /\ Without(q, e) \in Seq(S)
           /\ e \notin Range(q) => Without(q, e) = q
           /\ Distinct(q) => /\ Range(Without(q, e)) = Range(q) \ {e}
                             /\ Distinct(Without(q, e))
                             /\ q # <<>> /\ Head(q) # e => Head(Without(q, e)) = Head(q)
<1>1. CASE e \notin Range(q)
  BY <1>1 DEF Without
<1>2. CASE e \in Range(q)
  <2> DEFINE r == Without(q, e)
  <2>1. PICK i \in 1 .. Len(q) :
           /\ q[i] = e
           /\ r \in Seq(S) /\ Len(r) = Len(q) - 1 /\ DOMAIN r = 1 .. Len(q) - 1
           /\ \A j \in 1 .. Len(q) - 1 : r[j] = IF j < i THEN q[j] ELSE q[j + 1]
    BY <1>2, WithoutAt
  <2>2. i \in 1 .. Len(q) /\ Len(q) \in Nat /\ DOMAIN q = 1 .. Len(q) /\ q[i] = e
    BY <2>1
  <2>3. /\ r \in Seq(S) /\ Len(r) = Len(q) - 1 /\ DOMAIN r = 1 .. Len(q) - 1
        /\ \A j \in 1 .. Len(q) - 1 : r[j] = IF j < i THEN q[j] ELSE q[j + 1]
    BY <2>1
  <2> HIDE DEF r
  <2>4. ASSUME Distinct(q)
        PROVE  Range(r) = Range(q) \ {e}
    <3>1. ASSUME NEW x \in Range(r)
          PROVE  x \in Range(q) \ {e}
      <4>1. PICK j \in 1 .. Len(q) - 1 : x = r[j]
        BY <2>3, <3>1 DEF Range
      <4>2. PICK m \in 1 .. Len(q) : x = q[m] /\ m # i
        BY <2>2, <2>3, <4>1
      <4> QED
        BY <2>1, <2>2, <2>4, <4>2 DEF Distinct, IsInjective, Range
    <3>2. ASSUME NEW x \in Range(q) \ {e}
          PROVE  x \in Range(r)
      <4>1. PICK m \in 1 .. Len(q) : x = q[m] /\ m # i
        BY <2>1, <2>2, <3>2 DEF Range
      <4>2. CASE m < i
        BY <2>2, <2>3, <4>1, <4>2 DEF Range
      <4>3. CASE m > i
        <5>1. m - 1 \in 1 .. Len(q) - 1 /\ r[m - 1] = q[m]
          BY <2>2, <2>3, <4>1, <4>3
        <5> QED
          BY <2>3, <4>1, <5>1 DEF Range
      <4> QED
        BY <2>2, <4>1, <4>2, <4>3
    <3> QED
      BY <3>1, <3>2
  <2>5. ASSUME Distinct(q)
        PROVE  Distinct(r)
    <3>1. ASSUME NEW x \in DOMAIN r, NEW y \in DOMAIN r, r[x] = r[y]
          PROVE  x = y
      <4> DEFINE X == IF x < i THEN x ELSE x + 1
                 Y == IF y < i THEN y ELSE y + 1
      <4>1. /\ X \in DOMAIN q /\ Y \in DOMAIN q
            /\ q[X] = q[Y]
        BY <2>2, <2>3, <3>1
      <4>2. X = Y
        BY <2>5, <4>1 DEF Distinct, IsInjective
      <4> QED
        BY <2>2, <2>3, <4>2
    <3> QED
      BY <3>1 DEF Distinct, IsInjective
  <2>6. ASSUME q # <<>>, Head(q) # e
        PROVE  Head(r) = Head(q)
    <3>1. i # 1
      BY <2>1, <2>6
    <3>2. r[1] = q[1] /\ Len(r) >= 1
      BY <2>2, <2>3, <3>1
    <3> QED
      BY <2>3, <2>6, <3>2
  <2> QED
    BY <1>2, <2>3, <2>4, <2>5, <2>6 DEF r
<1> QED
  BY <1>1, <1>2

(* A turn of the round robin keeps the elements of the list.               *)
LEMMA HeadToTailFacts ==
    ASSUME NEW S, NEW q \in Seq(S), q # <<>>
    PROVE  /\ HeadToTail(q) \in Seq(S)
           /\ HeadToTail(q) # <<>>
           /\ Range(HeadToTail(q)) = Range(q)
           /\ Distinct(q) => Distinct(HeadToTail(q))
<1> DEFINE r == HeadToTail(q)
<1>1. /\ Len(q) \in Nat \ {0} /\ DOMAIN q = 1 .. Len(q)
      /\ Tail(q) \in Seq(S) /\ Head(q) = q[1] /\ Head(q) \in S
      /\ Len(Tail(q)) = Len(q) - 1
      /\ \A j \in 1 .. Len(q) - 1 : Tail(q)[j] = q[j + 1]
  OBVIOUS
<1>2. /\ r \in Seq(S) /\ Len(r) = Len(q) /\ DOMAIN r = 1 .. Len(q)
      /\ \A j \in 1 .. Len(q) : r[j] = IF j < Len(q) THEN q[j + 1] ELSE q[1]
  <2> DEFINE w == Tail(q)
  <2>1. w \in Seq(S) /\ Len(w) = Len(q) - 1 /\ r = Append(w, q[1]) /\ q[1] \in S
    BY <1>1 DEF HeadToTail
  <2>2. \A j \in 1 .. Len(q) - 1 : w[j] = q[j + 1]
    BY <1>1
  <2>n. Len(q) \in Nat /\ Len(w) + 1 = Len(q)
    BY <1>1
  <2> HIDE DEF r, w
  <2>3. /\ Append(w, q[1]) \in Seq(S) /\ Len(Append(w, q[1])) = Len(w) + 1
        /\ \A j \in 1 .. Len(w) : Append(w, q[1])[j] = w[j]
        /\ Append(w, q[1])[Len(w) + 1] = q[1]
    BY <2>1
  <2>4. Len(r) = Len(q) /\ r \in Seq(S) /\ DOMAIN r = 1 .. Len(q)
    <3>1. Len(r) = Len(q) /\ r \in Seq(S)
      BY <2>n, <2>1, <2>3
    <3> QED
      BY <3>1, LenProperties
  <2>5. ASSUME NEW j \in 1 .. Len(q)
        PROVE  r[j] = IF j < Len(q) THEN q[j + 1] ELSE q[1]
    <3>1. CASE j < Len(q)
      <4>1. j \in 1 .. Len(w) /\ j \in 1 .. Len(q) - 1
        BY <1>1, <2>1, <3>1
      <4> QED
        BY <2>1, <2>2, <2>3, <3>1, <4>1
    <3>2. CASE ~(j < Len(q))
      <4>1. j = Len(w) + 1
        BY <2>n, <3>2
      <4> QED
        BY <2>1, <2>3, <3>2, <4>1
    <3> QED
      BY <3>1, <3>2
  <2> QED
    BY <2>4, <2>5
<1> HIDE DEF r
<1>3. r # <<>>
  BY <1>1, <1>2
<1>4. Range(r) = Range(q)
  <2>1. ASSUME NEW x \in Range(r)
        PROVE  x \in Range(q)
    BY <1>1, <1>2 DEF Range
  <2>2. ASSUME NEW x \in Range(q)
        PROVE  x \in Range(r)
    <3>1. PICK m \in 1 .. Len(q) : x = q[m]
      BY <1>1 DEF Range
    <3>2. CASE m = 1
      BY <1>1, <1>2, <3>1, <3>2 DEF Range
    <3>3. CASE m # 1
      <4>1. m - 1 \in 1 .. Len(q) /\ r[m - 1] = q[m]
        BY <1>1, <1>2, <3>3
      <4> QED
        BY <1>2, <3>1, <4>1 DEF Range
    <3> QED
      BY <3>2, <3>3
  <2> QED
    BY <2>1, <2>2
<1>5. ASSUME Distinct(q)
      PROVE  Distinct(r)
  <2>1. ASSUME NEW x \in DOMAIN r, NEW y \in DOMAIN r, r[x] = r[y]
        PROVE  x = y
    <3> DEFINE X == IF x < Len(q) THEN x + 1 ELSE 1
               Y == IF y < Len(q) THEN y + 1 ELSE 1
    <3>1. /\ X \in DOMAIN q /\ Y \in DOMAIN q
          /\ q[X] = q[Y]
      BY <1>1, <1>2, <2>1
    <3>2. X = Y
      BY <1>5, <3>1 DEF Distinct, IsInjective
    <3> QED
      BY <1>1, <1>2, <3>2
  <2> QED
    BY <2>1 DEF Distinct, IsInjective
<1> QED
  BY <1>2, <1>3, <1>4, <1>5 DEF r

(* The list a head stands for after queue_init, and the list of one task.  *)
LEMMA NewList ==
    ASSUME NEW S
    PROVE  /\ <<>> \in Seq(S)
           /\ Range(<<>>) = {}
           /\ Distinct(<<>>)
<1>1. <<>> \in Seq(S)
  OBVIOUS
<1>2. Range(<<>>) = {}
  BY <1>1, EmptyList
<1>3. DOMAIN <<>> = {}
  OBVIOUS
<1> QED
  BY <1>1, <1>2, <1>3 DEF Distinct, IsInjective

LEMMA SingleList ==
    ASSUME NEW S, NEW e \in S
    PROVE  /\ InsertLast(<<>>, e) \in Seq(S)
           /\ InsertLast(<<>>, e) # <<>>
           /\ Head(InsertLast(<<>>, e)) = e
           /\ Range(InsertLast(<<>>, e)) = {e}
           /\ Distinct(InsertLast(<<>>, e))
<1> DEFINE q == <<>>
<1>1. q \in Seq(S) /\ Range(q) = {} /\ Distinct(q)
  BY NewList
<1>2. q = <<>>
  OBVIOUS
<1> HIDE DEF q
<1>3. /\ InsertLast(q, e) \in Seq(S)
      /\ InsertLast(q, e) # <<>>
      /\ Head(InsertLast(q, e)) = e
      /\ Range(InsertLast(q, e)) = {e}
      /\ Distinct(InsertLast(q, e))
  BY <1>1, <1>2, InsertLastFacts
<1> QED
  BY <1>2, <1>3

(* A list with one element, which is not there twice, is that element's.   *)
LEMMA ListOfOne ==
    ASSUME NEW S, NEW q \in Seq(S), Distinct(q), NEW e, Range(q) = {e}
    PROVE  q = <<e>>
<1>1. /\ Len(q) \in Nat /\ DOMAIN q = 1 .. Len(q)
      /\ \A i \in DOMAIN q : q[i] = e
  BY DEF Range
<1>2. DOMAIN q # {}
  BY DEF Range
<1>3. Len(q) = 1
  <2>1. Len(q) >= 1
    BY <1>1, <1>2
  <2>2. Len(q) >= 2 => FALSE
    BY <1>1 DEF Distinct, IsInjective
  <2> QED
    BY <1>1, <2>1, <2>2
<1> QED
  BY <1>1, <1>3

-----------------------------------------------------------------------------
(* The ready lists: the facts are stated for the parts of the kernel state *)
(* they are about, the lists rl, the bitmap bm, the set R of the tasks     *)
(* that are linked, and the priority of each task.                         *)

ReadyOK(rl, bm, R, prio) ==
    /\ rl \in [Priority -> Seq(Task)]
    /\ bm \in SUBSET Priority
    /\ \A p \in Priority :
        /\ Distinct(rl[p])
        /\ Range(rl[p]) = {t \in R : prio[t] = p}
        /\ p \in bm <=> rl[p] # <<>>

NextOK(rl, n) ==
    \E p \in Priority :
        /\ rl[p] # <<>>
        /\ n = Head(rl[p])
        /\ \A q \in Priority : rl[q] # <<>> => p <= q

(* A task that is not in a list may be put at its end.                     *)
LEMMA InsertTask ==
    ASSUME NEW q \in Seq(Task), Distinct(q), NEW t \in Task, t \notin Range(q)
    PROVE  /\ InsertLast(q, t) \in Seq(Task)
           /\ Range(InsertLast(q, t)) = Range(q) \cup {t}
           /\ Distinct(InsertLast(q, t))
BY InsertLastFacts

(* The lowest set bit exists whenever a bit is set.                        *)
LEMMA LowestBit ==
    ASSUME NEW B \in SUBSET Priority, B # {}
    PROVE  /\ Min(B) \in B
           /\ \A q \in B : Min(B) <= q
<1>1. B \subseteq Nat /\ B # {}
  BY SizesAssumption DEF Priority
<1>2. PICK x \in B : \A y \in B : ~ (<<y, x>> \in OpToRel(<, Nat))
  BY <1>1, NatLessThanWellFounded, WFMin
<1>3. \A y \in B : x <= y
  <2> TAKE y \in B
  <2>1. x \in Nat /\ y \in Nat
    BY <1>1
  <2>2. ~ (y < x)
    BY <1>2, <2>1 DEF OpToRel
  <2> QED
    BY <2>1, <2>2
<1> QED
  BY <1>2, <1>3 DEF Min

(* find_next_task_to_run finds the first task of the most urgent list.     *)
LEMMA LowestBitIsNext ==
    ASSUME NEW rl, NEW bm, NEW R, NEW prio, ReadyOK(rl, bm, R, prio),
           NEW p \in Priority, rl[p] # <<>>
    PROVE  /\ bm # {}
           /\ Min(bm) \in Priority
           /\ rl[Min(bm)] # <<>>
           /\ NextOK(rl, Head(rl[Min(bm)]))
<1>1. bm \in SUBSET Priority /\ bm # {}
  BY DEF ReadyOK
<1>2. Min(bm) \in bm /\ \A q \in bm : Min(bm) <= q
  BY <1>1, LowestBit
<1>3. Min(bm) \in Priority /\ rl[Min(bm)] # <<>>
  BY <1>1, <1>2 DEF ReadyOK
<1>4. \A q \in Priority : rl[q] # <<>> => Min(bm) <= q
  BY <1>2 DEF ReadyOK
<1> QED
  BY <1>1, <1>3, <1>4 DEF NextOK

(* The next task is one of the linked tasks, and none is more urgent.      *)
LEMMA NextIsLinked ==
    ASSUME NEW rl, NEW bm, NEW R \in SUBSET Task, NEW prio,
           ReadyOK(rl, bm, R, prio), NEW n, NextOK(rl, n)
    PROVE  /\ n \in R
           /\ \A t \in R : prio[t] \in Priority => prio[n] <= prio[t]
<1>1. PICK p \in Priority :
        /\ rl[p] # <<>>
        /\ n = Head(rl[p])
        /\ \A q \in Priority : rl[q] # <<>> => p <= q
  BY DEF NextOK
<1>2. n \in Range(rl[p])
  BY <1>1, HeadInList DEF ReadyOK
<1>3. n \in R /\ prio[n] = p
  BY <1>2 DEF ReadyOK
<1>4. ASSUME NEW t \in R, prio[t] \in Priority
      PROVE  p <= prio[t]
  <2>1. t \in Range(rl[prio[t]])
    BY <1>4 DEF ReadyOK
  <2>2. rl[prio[t]] # <<>>
    BY <1>4, <2>1, EmptyList DEF ReadyOK
  <2> QED
    BY <1>1, <1>4, <2>2
<1> QED
  BY <1>3, <1>4

(* set_task_as_runnable links a task that was not linked ...               *)
LEMMA LinkKeepsReady ==
    ASSUME NEW rl, NEW bm, NEW R \in SUBSET Task, NEW prio \in [Task -> Priority],
           ReadyOK(rl, bm, R, prio),
           NEW t \in Task, t \notin R
    PROVE  ReadyOK([rl EXCEPT ![prio[t]] = InsertLast(@, t)],
                   bm \cup {prio[t]}, R \cup {t}, prio)
<1> DEFINE p == prio[t]
           new == [rl EXCEPT ![p] = InsertLast(@, t)]
<1>1. p \in Priority /\ rl \in [Priority -> Seq(Task)] /\ bm \in SUBSET Priority
  BY DEF ReadyOK
<1> HIDE DEF p
<1>2. /\ InsertLast(rl[p], t) \in Seq(Task)
      /\ InsertLast(rl[p], t) # <<>>
      /\ Range(InsertLast(rl[p], t)) = Range(rl[p]) \cup {t}
      /\ t \notin Range(rl[p]) => Distinct(InsertLast(rl[p], t))
  BY <1>1, InsertLastFacts DEF ReadyOK
<1>3. /\ new \in [Priority -> Seq(Task)]
      /\ new[p] = InsertLast(rl[p], t)
      /\ \A q \in Priority : q # p => new[q] = rl[q]
  BY <1>1, <1>2
<1> HIDE DEF new
<1>4. ASSUME NEW q \in Priority
      PROVE  /\ Distinct(new[q])
             /\ Range(new[q]) = {u \in R \cup {t} : prio[u] = q}
             /\ q \in bm \cup {p} <=> new[q] # <<>>
  <2>1. CASE q = p
    <3>1. t \notin Range(rl[p]) /\ Range(rl[p]) = {u \in R : prio[u] = p}
      BY <1>1 DEF ReadyOK
    <3> QED
      BY <1>2, <1>3, <2>1, <3>1 DEF p
  <2>2. CASE q # p
    BY <1>3, <2>2 DEF ReadyOK, p
  <2> QED
    BY <2>1, <2>2
<1> QED
  BY <1>1, <1>3, <1>4 DEF ReadyOK, new, p

(* ... and picks it as the next task exactly when it has to.               *)
LEMMA LinkKeepsNext ==
    ASSUME NEW rl, NEW bm, NEW R \in SUBSET Task, NEW prio \in [Task -> Priority],
           ReadyOK(rl, bm, R, prio), NEW n, NextOK(rl, n),
           NEW t \in Task, t \notin R
    PROVE  NextOK([rl EXCEPT ![prio[t]] = InsertLast(@, t)],
                  IF prio[t] < prio[n] THEN t ELSE n)
<1> DEFINE p == prio[t]
           new == [rl EXCEPT ![p] = InsertLast(@, t)]
<1>1. p \in Priority /\ rl \in [Priority -> Seq(Task)] /\ Priority \subseteq Int
  BY DEF ReadyOK, Priority
<1>2. PICK m \in Priority :
        /\ rl[m] # <<>>
        /\ n = Head(rl[m])
        /\ \A q \in Priority : rl[q] # <<>> => m <= q
  BY DEF NextOK
<1>3. prio[n] = m
  BY <1>1, <1>2, HeadInList DEF ReadyOK
<1> HIDE DEF p
<1>4. /\ InsertLast(rl[p], t) # <<>>
      /\ Head(InsertLast(rl[p], t)) = IF rl[p] = <<>> THEN t ELSE Head(rl[p])
  BY <1>1, InsertLastFacts
<1>5. /\ new[p] = InsertLast(rl[p], t)
      /\ \A q \in Priority : q # p => new[q] = rl[q]
  BY <1>1
<1> HIDE DEF new
<1>6. CASE p < m
  <2>1. rl[p] = <<>>
    BY <1>1, <1>2, <1>6
  <2>2. new[p] # <<>> /\ t = Head(new[p])
    BY <1>4, <1>5, <2>1
  <2>3. \A q \in Priority : new[q] # <<>> => p <= q
    BY <1>1, <1>2, <1>5, <1>6
  <2>4. NextOK(new, t)
    BY <1>1, <2>2, <2>3 DEF NextOK
  <2> QED
    BY <1>3, <1>6, <2>4 DEF new, p
<1>7. CASE ~(p < m)
  <2>1. new[m] # <<>> /\ n = Head(new[m])
    BY <1>1, <1>2, <1>4, <1>5
  <2>2. \A q \in Priority : new[q] # <<>> => m <= q
    BY <1>1, <1>2, <1>5, <1>7
  <2>3. NextOK(new, n)
    BY <2>1, <2>2 DEF NextOK
  <2> QED
    BY <1>3, <1>7, <2>3 DEF new, p
<1> QED
  BY <1>6, <1>7

(* task_to_non_runnable unlinks a linked task ...                          *)
LEMMA UnlinkKeepsReady ==
    ASSUME NEW rl, NEW bm, NEW R \in SUBSET Task, NEW prio \in [Task -> Priority],
           ReadyOK(rl, bm, R, prio),
           NEW t \in R,
           NEW new \in [Priority -> Seq(Task)],
           \A q \in Priority : new[q] = Without(rl[q], t)
    PROVE  ReadyOK(new, IF new[prio[t]] = <<>> THEN bm \ {prio[t]} ELSE bm,
                   R \ {t}, prio)
<1> DEFINE p == prio[t]
           bits == IF new[p] = <<>> THEN bm \ {p} ELSE bm
<1>1. p \in Priority /\ rl \in [Priority -> Seq(Task)] /\ bm \in SUBSET Priority
  BY DEF ReadyOK
<1>2. ASSUME NEW q \in Priority
      PROVE  /\ Without(rl[q], t) \in Seq(Task)
             /\ Distinct(Without(rl[q], t))
             /\ Range(Without(rl[q], t)) = Range(rl[q]) \ {t}
             /\ t \notin Range(rl[q]) => Without(rl[q], t) = rl[q]
  BY <1>1, WithoutFacts DEF ReadyOK
<1>4. ASSUME NEW q \in Priority
      PROVE  /\ Distinct(new[q])
             /\ Range(new[q]) = {u \in R \ {t} : prio[u] = q}
             /\ q \in bits <=> new[q] # <<>>
  <2>1. Distinct(new[q])
    BY <1>2
  <2>2. Range(new[q]) = {u \in R \ {t} : prio[u] = q}
    BY <1>2 DEF ReadyOK
  <2>3. CASE q = p
    <3>1. p \in bm
      <4>1. t \in Range(rl[p])
        BY <1>1 DEF ReadyOK
      <4> QED
        BY <1>1, <4>1, EmptyList DEF ReadyOK
    <3> QED
      BY <2>1, <2>2, <2>3, <3>1
  <2>4. CASE q # p
    <3>1. new[q] = rl[q]
      BY <1>2, <2>4 DEF ReadyOK
    <3> QED
      BY <2>1, <2>2, <2>4, <3>1 DEF ReadyOK
  <2> QED
    BY <2>3, <2>4
<1> QED
  BY <1>1, <1>4 DEF ReadyOK

(* ... and when its list does not run empty, the next task is repaired     *)
(* without a search.                                                       *)
LEMMA UnlinkKeepsNext ==
    ASSUME NEW rl, NEW bm, NEW R \in SUBSET Task, NEW prio \in [Task -> Priority],
           ReadyOK(rl, bm, R, prio), NEW n, NextOK(rl, n),
           NEW t \in R,
           NEW new \in [Priority -> Seq(Task)],
           \A q \in Priority : new[q] = Without(rl[q], t),
           new[prio[t]] # <<>>
    PROVE  /\ n = t => NextOK(new, Head(new[prio[t]]))
           /\ n # t => NextOK(new, n)
<1> DEFINE p == prio[t]
<1>1. p \in Priority /\ rl \in [Priority -> Seq(Task)]
  BY DEF ReadyOK
<1>2. PICK m \in Priority :
        /\ rl[m] # <<>>
        /\ n = Head(rl[m])
        /\ \A q \in Priority : rl[q] # <<>> => m <= q
  BY DEF NextOK
<1>3. /\ n \in Range(rl[m])
      /\ t \in Range(rl[p])
  BY <1>1, <1>2, HeadInList DEF ReadyOK
<1>4. /\ \A q \in Priority : q # p => new[q] = rl[q]
      /\ n # t => Head(Without(rl[m], t)) = n
  <2>1. ASSUME NEW q \in Priority
        PROVE  /\ t \notin Range(rl[q]) => Without(rl[q], t) = rl[q]
               /\ rl[q] # <<>> /\ Head(rl[q]) # t => Head(Without(rl[q], t)) = Head(rl[q])
    <3>1. rl[q] \in Seq(Task) /\ Distinct(rl[q])
      BY <1>1 DEF ReadyOK
    <3> QED
      BY <3>1, WithoutFacts
  <2>2. \A q \in Priority : q # p => t \notin Range(rl[q])
    BY DEF ReadyOK
  <2> QED
    BY <1>2, <2>1, <2>2
<1>5. rl[p] # <<>>
  BY <1>1, <1>3, EmptyList
<1>6. \A q \in Priority : new[q] # <<>> => m <= q
  BY <1>2, <1>4, <1>5
<1>7. CASE n = t
  <2>1. m = p
    BY <1>1, <1>3, <1>7 DEF ReadyOK
  <2> QED
    BY <1>6, <1>7, <2>1 DEF NextOK
<1>8. CASE n # t
  <2>1. new[m] # <<>>
    BY <1>2, <1>4
  <2>2. n = Head(new[m])
    BY <1>4, <1>8
  <2> QED
    BY <1>6, <1>8, <2>1, <2>2 DEF NextOK
<1> QED
  BY <1>7, <1>8

(* A turn of the round robin relinks the same tasks.                       *)
LEMMA RotateKeepsReady ==
    ASSUME NEW rl, NEW bm, NEW R \in SUBSET Task, NEW prio,
           ReadyOK(rl, bm, R, prio),
           NEW p \in Priority, rl[p] # <<>>
    PROVE  ReadyOK([rl EXCEPT ![p] = HeadToTail(@)], bm, R, prio)
<1>1. rl \in [Priority -> Seq(Task)]
  BY DEF ReadyOK
<1>2. /\ HeadToTail(rl[p]) \in Seq(Task)
      /\ HeadToTail(rl[p]) # <<>>
      /\ Range(HeadToTail(rl[p])) = Range(rl[p])
      /\ Distinct(HeadToTail(rl[p]))
  BY <1>1, HeadToTailFacts DEF ReadyOK
<1> QED
  BY <1>1, <1>2 DEF ReadyOK

-----------------------------------------------------------------------------

Runnable(k) == {t \in Task : k.task_state[t] = "RUNNABLE"}

Linked(k) ==
    /\ ReadyOK(k.runnable_tasks_list, k.priority_ready_to_run_bitmap,
               Runnable(k), k.priority)
    /\ NextOK(k.runnable_tasks_list, k.next_task_to_run)

SystemTasks(k) ==
    /\ k.task_state[idle_task] = "RUNNABLE"
    /\ k.task_state[timer_task] \in {"RUNNABLE", "WAIT"}
    /\ k.tick_count[timer_task] = WAIT_INFINITE

WaitFields(k) ==
    \A t \in Task :
        IF k.task_state[t] = "WAIT"
        THEN k.tick_count[t] \in Timeout \cup {WAIT_INFINITE}
        ELSE k.wait_queue[t] = NULL

KInv(k) ==
    /\ k \in KernelState
    /\ k.current_running_task \in Task
    /\ Linked(k)
    /\ TimersConsistent(k)
    /\ WaitListsConsistent(k)
    /\ SystemPriorities(k)
    /\ SystemTasks(k)
    /\ WaitFields(k)

(* The fields neither linking nor unlinking a task touches.                *)
SameTasks(s, k) ==
    /\ s.waiting_timeout_tasks_list = k.waiting_timeout_tasks_list
    /\ s.all_tasks_queue = k.all_tasks_queue
    /\ s.num_tasks = k.num_tasks
    /\ s.current_running_task = k.current_running_task
    /\ s.priority = k.priority
    /\ s.base_priority = k.base_priority
    /\ s.task_wait_reason = k.task_wait_reason
    /\ s.task_wait_return_code = k.task_wait_return_code
    /\ s.tick_count = k.tick_count
    /\ s.time_slice_count = k.time_slice_count

LEMMA SystemTasksAreTasks ==
    /\ timer_task \in Task
    /\ idle_task \in Task
    /\ timer_task # idle_task
    /\ NULL \notin WaitObject
    /\ 0 \in Priority
    /\ NUM_PRIORITY - 1 \in Priority
    /\ WAIT_INFINITE \notin Timeout
BY TasksAssumption, SizesAssumption DEF Task, SystemTask, Priority, Timeout

(* The consistency KInv is built from gives the properties of Kernel.      *)
LEMMA KInvImplies ==
    ASSUME NEW k, KInv(k)
    PROVE  /\ ReadyListsConsistent(k)
           /\ TimersConsistent(k)
           /\ WaitListsConsistent(k)
           /\ NextIsMostUrgent(k)
BY DEF KInv, Linked, ReadyOK, NextOK, Runnable, ReadyListsConsistent, NextIsMostUrgent

(* set_task_as_runnable, for a task that is in no ready list.              *)
LEMMA SetRunnable ==
    ASSUME NEW k \in KernelState, NEW R \in SUBSET Task,
           ReadyOK(k.runnable_tasks_list, k.priority_ready_to_run_bitmap, R, k.priority),
           NextOK(k.runnable_tasks_list, k.next_task_to_run),
           NEW t \in Task, t \notin R
    PROVE  LET s == set_task_as_runnable(k, t)
           IN  /\ s \in KernelState
               /\ ReadyOK(s.runnable_tasks_list, s.priority_ready_to_run_bitmap,
                          R \cup {t}, s.priority)
               /\ NextOK(s.runnable_tasks_list, s.next_task_to_run)
               /\ SameTasks(s, k)
               /\ s.wait_list = k.wait_list
               /\ s.task_state = [k.task_state EXCEPT ![t] = "RUNNABLE"]
               /\ s.wait_queue = [k.wait_queue EXCEPT ![t] = NULL]
<1> DEFINE s == set_task_as_runnable(k, t)
           p == k.priority[t]
           n == k.next_task_to_run
           rl == [k.runnable_tasks_list EXCEPT ![p] = InsertLast(@, t)]
           bm == k.priority_ready_to_run_bitmap \cup {p}
           nx == IF p < k.priority[n] THEN t ELSE n
<1>1. /\ p \in Priority
      /\ k.runnable_tasks_list \in [Priority -> Seq(Task)]
      /\ k.priority \in [Task -> Priority]
      /\ k.task_state \in [Task -> TaskState]
      /\ k.wait_queue \in [Task -> WaitObject \cup {NULL}]
  BY DEF KernelState
<1>2. /\ ReadyOK(rl, bm, R \cup {t}, k.priority)
      /\ NextOK(rl, nx)
  BY <1>1, LinkKeepsReady, LinkKeepsNext
<1>3. n \in Task
  BY NextIsLinked
<1> HIDE DEF rl, bm, nx, p
<1>4. s = [k EXCEPT !.task_state = [k.task_state EXCEPT ![t] = "RUNNABLE"],
                    !.wait_queue = [k.wait_queue EXCEPT ![t] = NULL],
                    !.runnable_tasks_list = rl,
                    !.priority_ready_to_run_bitmap = bm,
                    !.next_task_to_run = nx]
  BY DEF set_task_as_runnable, rl, bm, nx, p, KernelState
<1> HIDE DEF s
<1>5. /\ s.task_state = [k.task_state EXCEPT ![t] = "RUNNABLE"]
      /\ s.wait_queue = [k.wait_queue EXCEPT ![t] = NULL]
      /\ s.runnable_tasks_list = rl
      /\ s.priority_ready_to_run_bitmap = bm
      /\ s.next_task_to_run = nx
      /\ s.wait_list = k.wait_list
      /\ SameTasks(s, k)
  BY <1>4 DEF KernelState, SameTasks
<1>6. /\ rl \in [Priority -> Seq(Task)]
      /\ bm \in SUBSET Priority
      /\ nx \in Task
      /\ [k.task_state EXCEPT ![t] = "RUNNABLE"] \in [Task -> TaskState]
      /\ [k.wait_queue EXCEPT ![t] = NULL] \in [Task -> WaitObject \cup {NULL}]
  BY <1>1, <1>2, <1>3 DEF ReadyOK, nx, TaskState
<1>7. s \in KernelState
  BY <1>4, <1>6 DEF KernelState
<1> QED
  BY <1>2, <1>5, <1>7 DEF s, SameTasks

(* queue_remove_element leaves alone the lists the task is not in.         *)
LEMMA RemoveFacts ==
    ASSUME NEW k \in KernelState, NEW t \in Task
    PROVE  LET s == queue_remove_element(k, t)
           IN  /\ s \in KernelState
               /\ s.wait_list = [o \in WaitObject |-> Without(k.wait_list[o], t)]
               /\ s.runnable_tasks_list =
                     [p \in Priority |-> Without(k.runnable_tasks_list[p], t)]
               /\ (\A p \in Priority : t \notin Range(k.runnable_tasks_list[p]))
                     => s.runnable_tasks_list = k.runnable_tasks_list
               /\ (\A o \in WaitObject : t \notin Range(k.wait_list[o]))
                     => s.wait_list = k.wait_list
               /\ SameTasks(s, k)
               /\ s.task_state = k.task_state
               /\ s.wait_queue = k.wait_queue
               /\ s.priority_ready_to_run_bitmap = k.priority_ready_to_run_bitmap
               /\ s.next_task_to_run = k.next_task_to_run
<1> DEFINE s == queue_remove_element(k, t)
           rl == [p \in Priority |-> Without(k.runnable_tasks_list[p], t)]
           wl == [o \in WaitObject |-> Without(k.wait_list[o], t)]
<1>1. /\ k.runnable_tasks_list \in [Priority -> Seq(Task)]
      /\ k.wait_list \in [WaitObject -> Seq(Task)]
  BY DEF KernelState
<1>2. \A p \in Priority :
        /\ Without(k.runnable_tasks_list[p], t) \in Seq(Task)
        /\ t \notin Range(k.runnable_tasks_list[p])
              => Without(k.runnable_tasks_list[p], t) = k.runnable_tasks_list[p]
  BY <1>1, WithoutFacts
<1>3. \A o \in WaitObject :
        /\ Without(k.wait_list[o], t) \in Seq(Task)
        /\ t \notin Range(k.wait_list[o])
              => Without(k.wait_list[o], t) = k.wait_list[o]
  BY <1>1, WithoutFacts
<1>4. /\ rl \in [Priority -> Seq(Task)]
      /\ wl \in [WaitObject -> Seq(Task)]
      /\ (\A p \in Priority : t \notin Range(k.runnable_tasks_list[p]))
            => rl = k.runnable_tasks_list
      /\ (\A o \in WaitObject : t \notin Range(k.wait_list[o]))
            => wl = k.wait_list
  BY <1>1, <1>2, <1>3
<1>5. s = [k EXCEPT !.runnable_tasks_list = rl, !.wait_list = wl]
  BY DEF queue_remove_element, KernelState
<1> HIDE DEF rl, wl, s
<1>6. /\ s \in KernelState
      /\ s.runnable_tasks_list = rl
      /\ s.wait_list = wl
      /\ SameTasks(s, k)
      /\ s.task_state = k.task_state
      /\ s.wait_queue = k.wait_queue
      /\ s.priority_ready_to_run_bitmap = k.priority_ready_to_run_bitmap
      /\ s.next_task_to_run = k.next_task_to_run
  BY <1>4, <1>5 DEF KernelState, SameTasks
<1> QED
  BY <1>4, <1>5, <1>6 DEF s, rl, wl

(* task_to_non_runnable, for a linked task other than the idle task.       *)
LEMMA ToNonRunnable ==
    ASSUME NEW k, KInv(k),
           NEW t \in Task, k.task_state[t] = "RUNNABLE", t # idle_task
    PROVE  LET s == task_to_non_runnable(k, t)
           IN  /\ s \in KernelState
               /\ ReadyOK(s.runnable_tasks_list, s.priority_ready_to_run_bitmap,
                          Runnable(k) \ {t}, k.priority)
               /\ NextOK(s.runnable_tasks_list, s.next_task_to_run)
               /\ SameTasks(s, k)
               /\ s.task_state = k.task_state
               /\ s.wait_queue = k.wait_queue
               /\ s.wait_list = k.wait_list
<1> DEFINE s == task_to_non_runnable(k, t)
           u == queue_remove_element(k, t)
           p == k.priority[t]
           R == Runnable(k)
           rl == u.runnable_tasks_list
           bits == k.priority_ready_to_run_bitmap \ {p}
<1>1. /\ k \in KernelState
      /\ k.priority \in [Task -> Priority]
      /\ p \in Priority
      /\ R \in SUBSET Task
      /\ t \in R
      /\ ReadyOK(k.runnable_tasks_list, k.priority_ready_to_run_bitmap, R, k.priority)
      /\ NextOK(k.runnable_tasks_list, k.next_task_to_run)
  BY DEF KInv, KernelState, Linked, Runnable
<1>2. \A o \in WaitObject : t \notin Range(k.wait_list[o])
  BY DEF KInv, WaitListsConsistent
<1>3. /\ u \in KernelState
      /\ u.wait_list = k.wait_list
      /\ rl = [q \in Priority |-> Without(k.runnable_tasks_list[q], t)]
      /\ SameTasks(u, k)
      /\ u.task_state = k.task_state
      /\ u.wait_queue = k.wait_queue
      /\ u.priority_ready_to_run_bitmap = k.priority_ready_to_run_bitmap
      /\ u.next_task_to_run = k.next_task_to_run
  BY <1>1, <1>2, RemoveFacts
<1>4. s = IF rl[p] = <<>>
          THEN find_next_task_to_run([u EXCEPT !.priority_ready_to_run_bitmap = @ \ {p}])
          ELSE [u EXCEPT !.next_task_to_run = IF @ = t THEN Head(rl[p]) ELSE @]
  BY DEF task_to_non_runnable
<1> HIDE DEF s, u, R
<1>5. ReadyOK(rl, IF rl[p] = <<>> THEN bits ELSE k.priority_ready_to_run_bitmap,
              R \ {t}, k.priority)
  <2>1. /\ rl \in [Priority -> Seq(Task)]
        /\ \A q \in Priority : rl[q] = Without(k.runnable_tasks_list[q], t)
    BY <1>3 DEF KernelState
  <2> HIDE DEF rl
  <2> QED
    BY <1>1, <2>1, UnlinkKeepsReady
<1>6. CASE rl[p] = <<>>
  <2>1. ReadyOK(rl, bits, R \ {t}, k.priority)
    BY <1>5, <1>6
  <2>2. idle_task \in R \ {t} /\ k.priority[idle_task] \in Priority
    BY <1>1, SystemTasksAreTasks DEF KInv, SystemTasks, R, Runnable
  <2>3. rl[k.priority[idle_task]] # <<>>
    <3>1. idle_task \in Range(rl[k.priority[idle_task]])
      BY <2>1, <2>2 DEF ReadyOK
    <3> QED
      BY <2>1, <2>2, <3>1, EmptyList DEF ReadyOK
  <2>4. /\ bits # {}
        /\ Min(bits) \in Priority
        /\ rl[Min(bits)] # <<>>
        /\ NextOK(rl, Head(rl[Min(bits)]))
    BY <2>1, <2>2, <2>3, LowestBitIsNext
  <2> DEFINE v == [u EXCEPT !.priority_ready_to_run_bitmap = bits]
             nx == Head(rl[Min(bits)])
  <2>5. v = [u EXCEPT !.priority_ready_to_run_bitmap = @ \ {p}]
    BY <1>3 DEF KernelState
  <2>6. /\ v \in KernelState
        /\ v.priority_ready_to_run_bitmap = bits
        /\ v.runnable_tasks_list = rl
    BY <1>1, <1>3 DEF KernelState
  <2>7. find_next_task_to_run(v) = [v EXCEPT !.next_task_to_run = nx]
    <3> HIDE DEF v, bits
    <3> QED
      BY <2>4, <2>6 DEF find_next_task_to_run
  <2>8. s = [u EXCEPT !.priority_ready_to_run_bitmap = bits, !.next_task_to_run = nx]
    BY <1>4, <1>6, <2>5, <2>7
  <2>9. nx \in Task /\ bits \in SUBSET Priority
    BY <1>1, <2>1, <2>4, NextIsLinked DEF ReadyOK
  <2> HIDE DEF nx, bits, v
  <2>10. /\ s \in KernelState
         /\ s.runnable_tasks_list = rl
         /\ s.priority_ready_to_run_bitmap = bits
         /\ s.next_task_to_run = nx
         /\ s.wait_list = u.wait_list
         /\ s.task_state = u.task_state
         /\ s.wait_queue = u.wait_queue
         /\ SameTasks(s, u)
    BY <1>3, <2>8, <2>9 DEF KernelState, SameTasks
  <2> QED
    BY <1>3, <2>1, <2>4, <2>10 DEF s, R, SameTasks, nx
<1>7. CASE rl[p] # <<>>
  <2> DEFINE nx == IF k.next_task_to_run = t THEN Head(rl[p]) ELSE k.next_task_to_run
  <2>1. ReadyOK(rl, k.priority_ready_to_run_bitmap, R \ {t}, k.priority)
    BY <1>5, <1>7
  <2>2. NextOK(rl, nx)
    <3>1. /\ rl \in [Priority -> Seq(Task)]
          /\ \A q \in Priority : rl[q] = Without(k.runnable_tasks_list[q], t)
      BY <1>3 DEF KernelState
    <3> HIDE DEF rl
    <3>2. /\ k.next_task_to_run = t => NextOK(rl, Head(rl[p]))
          /\ k.next_task_to_run # t => NextOK(rl, k.next_task_to_run)
      <4> DEFINE old == k.runnable_tasks_list
                 bm == k.priority_ready_to_run_bitmap
                 prio == k.priority
                 n == k.next_task_to_run
      <4>1. /\ R \in SUBSET Task /\ prio \in [Task -> Priority] /\ t \in R
            /\ ReadyOK(old, bm, R, prio) /\ NextOK(old, n)
            /\ rl \in [Priority -> Seq(Task)]
            /\ \A q \in Priority : rl[q] = Without(old[q], t)
            /\ rl[prio[t]] # <<>>
        BY <1>1, <1>7, <3>1
      <4> HIDE DEF old, bm, prio, n, p
      <4>2. /\ n = t => NextOK(rl, Head(rl[prio[t]]))
            /\ n # t => NextOK(rl, n)
        BY <4>1, UnlinkKeepsNext
      <4> QED
        BY <4>2 DEF n, prio, p
    <3> QED
      BY <3>2
  <2>3. nx \in Task
    BY <1>1, <2>1, <2>2, NextIsLinked
  <2>4. s = [u EXCEPT !.next_task_to_run = nx]
    BY <1>3, <1>4, <1>7 DEF KernelState
  <2> HIDE DEF nx
  <2>5. /\ s \in KernelState
        /\ s.runnable_tasks_list = rl
        /\ s.priority_ready_to_run_bitmap = u.priority_ready_to_run_bitmap
        /\ s.next_task_to_run = nx
        /\ s.wait_list = u.wait_list
        /\ s.task_state = u.task_state
        /\ s.wait_queue = u.wait_queue
        /\ SameTasks(s, u)
    BY <1>3, <2>3, <2>4 DEF KernelState, SameTasks
  <2> QED
    BY <1>3, <2>1, <2>2, <2>5 DEF s, R, SameTasks
<1> QED
  BY <1>6, <1>7

(* The running task starts to wait.                                        *)
LEMMA CurrToWait ==
    ASSUME NEW k, KInv(k),
           NEW t \in Task, t = k.current_running_task,
           k.task_state[t] = "RUNNABLE", t # idle_task,
           NEW que \in WaitObject \cup {NULL}, NEW reason \in WaitReason,
           NEW timeout \in Timeout \cup {WAIT_INFINITE},
           t = timer_task => timeout = WAIT_INFINITE
    PROVE  LET s == task_curr_to_wait_action(k, que, reason, timeout)
           IN  /\ KInv(s)
               /\ s.current_running_task = t
               /\ s.task_state = [k.task_state EXCEPT ![t] = "WAIT"]
<1> DEFINE s == task_curr_to_wait_action(k, que, reason, timeout)
           u == task_to_non_runnable(k, t)
           state == [k.task_state EXCEPT ![t] = "WAIT"]
           reasons == [k.task_wait_reason EXCEPT ![t] = reason]
           ticks == [k.tick_count EXCEPT ![t] = timeout]
           queues == [k.wait_queue EXCEPT ![t] = que]
           wl == [o \in WaitObject |->
                    IF o = que THEN InsertLast(k.wait_list[o], t) ELSE k.wait_list[o]]
           tl == IF timeout = WAIT_INFINITE
                 THEN k.waiting_timeout_tasks_list
                 ELSE InsertLast(k.waiting_timeout_tasks_list, t)
<1>1. /\ u \in KernelState
      /\ ReadyOK(u.runnable_tasks_list, u.priority_ready_to_run_bitmap,
                 Runnable(k) \ {t}, k.priority)
      /\ NextOK(u.runnable_tasks_list, u.next_task_to_run)
      /\ SameTasks(u, k)
      /\ u.task_state = k.task_state
      /\ u.wait_queue = k.wait_queue
      /\ u.wait_list = k.wait_list
  BY ToNonRunnable
<1>2. /\ k \in KernelState
      /\ k.wait_queue[t] = NULL
      /\ NULL \notin WaitObject
      /\ \A o \in WaitObject : t \notin Range(k.wait_list[o])
      /\ t \notin Range(k.waiting_timeout_tasks_list)
  BY SystemTasksAreTasks DEF KInv, WaitFields, WaitListsConsistent, TimersConsistent
<1>3. s = [u EXCEPT !.task_state = state,
                    !.task_wait_reason = reasons,
                    !.tick_count = ticks,
                    !.wait_queue = queues,
                    !.wait_list = wl,
                    !.waiting_timeout_tasks_list = tl]
  <2>1. [u.wait_queue EXCEPT ![t] = IF que = NULL THEN @ ELSE que] = queues
    BY <1>1, <1>2 DEF KernelState
  <2>2. /\ u.task_state = k.task_state
        /\ u.task_wait_reason = k.task_wait_reason
        /\ u.tick_count = k.tick_count
        /\ u.wait_list = k.wait_list
        /\ u.waiting_timeout_tasks_list = k.waiting_timeout_tasks_list
    BY <1>1 DEF SameTasks
  <2> DEFINE listed == IF timeout = WAIT_INFINITE
                       THEN u.waiting_timeout_tasks_list
                       ELSE InsertLast(u.waiting_timeout_tasks_list, t)
             waiting == [o \in WaitObject |->
                            IF o = que THEN InsertLast(u.wait_list[o], t)
                                       ELSE u.wait_list[o]]
             queue == [u.wait_queue EXCEPT ![t] = IF que = NULL THEN @ ELSE que]
  <2>3. s = [u EXCEPT !.task_state[t] = "WAIT",
                      !.task_wait_reason[t] = reason,
                      !.tick_count[t] = timeout,
                      !.wait_queue = queue,
                      !.wait_list = waiting,
                      !.waiting_timeout_tasks_list = listed]
    BY DEF task_curr_to_wait_action
  <2>4. waiting = wl /\ listed = tl
    BY <2>2
  <2> HIDE DEF s, u, waiting, listed, queue, wl, tl, queues
  <2> QED
    BY <2>1, <2>2, <2>3, <2>4 DEF queue
<1>4. /\ state \in [Task -> TaskState]
      /\ reasons \in [Task -> WaitReason]
      /\ ticks \in [Task -> 0 .. MaxTimeout \cup {WAIT_INFINITE}]
      /\ queues \in [Task -> WaitObject \cup {NULL}]
  BY <1>2, SizesAssumption DEF KernelState, TaskState, Timeout
<1>5. /\ wl \in [WaitObject -> Seq(Task)]
      /\ \A o \in WaitObject :
            /\ Distinct(wl[o])
            /\ Range(wl[o]) = Range(k.wait_list[o]) \cup (IF o = que THEN {t} ELSE {})
  <2>1. ASSUME NEW o \in WaitObject
        PROVE  /\ k.wait_list[o] \in Seq(Task)
               /\ Distinct(k.wait_list[o])
               /\ InsertLast(k.wait_list[o], t) \in Seq(Task)
               /\ Range(InsertLast(k.wait_list[o], t)) = Range(k.wait_list[o]) \cup {t}
               /\ Distinct(InsertLast(k.wait_list[o], t))
    <3> DEFINE q == k.wait_list[o]
    <3>1. q \in Seq(Task) /\ Distinct(q) /\ t \notin Range(q)
      BY <1>2 DEF KInv, KernelState, WaitListsConsistent
    <3> HIDE DEF q
    <3>2. /\ InsertLast(q, t) \in Seq(Task)
          /\ Range(InsertLast(q, t)) = Range(q) \cup {t}
          /\ Distinct(InsertLast(q, t))
      BY <3>1, InsertTask
    <3> QED
      BY <3>1, <3>2 DEF q
  <2> QED
    BY <2>1
<1>6. /\ tl \in Seq(Task)
      /\ Distinct(tl)
      /\ Range(tl) = Range(k.waiting_timeout_tasks_list)
                        \cup (IF timeout = WAIT_INFINITE THEN {} ELSE {t})
  <2> DEFINE q == k.waiting_timeout_tasks_list
  <2>1. q \in Seq(Task) /\ Distinct(q) /\ t \notin Range(q)
    BY <1>2 DEF KInv, KernelState, TimersConsistent
  <2> HIDE DEF q
  <2>2. /\ InsertLast(q, t) \in Seq(Task)
        /\ Range(InsertLast(q, t)) = Range(q) \cup {t}
        /\ Distinct(InsertLast(q, t))
    BY <2>1, InsertTask
  <2> QED
    BY <2>1, <2>2 DEF q
<1> HIDE DEF s, u, state, reasons, ticks, queues, wl, tl
<1>7. /\ s \in KernelState
      /\ s.task_state = state
      /\ s.tick_count = ticks
      /\ s.wait_queue = queues
      /\ s.wait_list = wl
      /\ s.waiting_timeout_tasks_list = tl
      /\ s.runnable_tasks_list = u.runnable_tasks_list
      /\ s.priority_ready_to_run_bitmap = u.priority_ready_to_run_bitmap
      /\ s.next_task_to_run = u.next_task_to_run
      /\ s.priority = k.priority
      /\ s.current_running_task = t
  BY <1>1, <1>3, <1>4, <1>5, <1>6 DEF KernelState, SameTasks
<1>8. /\ state[t] = "WAIT"
      /\ ticks[t] = timeout
      /\ queues[t] = que
      /\ \A x \in Task : x # t => /\ state[x] = k.task_state[x]
                                 /\ ticks[x] = k.tick_count[x]
                                 /\ queues[x] = k.wait_queue[x]
  BY <1>2 DEF KernelState, state, ticks, queues
<1>9. Linked(s)
  <2>1. Runnable(s) = Runnable(k) \ {t}
    BY <1>7, <1>8 DEF Runnable
  <2> QED
    BY <1>1, <1>7, <2>1 DEF Linked
<1>10. TimersConsistent(s)
  <2>1. ASSUME NEW x \in Task
        PROVE  x \in Range(tl) <=> state[x] = "WAIT" /\ ticks[x] \in Timeout
    BY <1>2, <1>6, <1>8, SystemTasksAreTasks DEF KInv, TimersConsistent
  <2> QED
    BY <1>6, <1>7, <2>1 DEF TimersConsistent
<1>11. WaitListsConsistent(s)
  <2>1. ASSUME NEW o \in WaitObject, NEW x \in Task
        PROVE  x \in Range(wl[o]) <=> state[x] = "WAIT" /\ queues[x] = o
    BY <1>2, <1>5, <1>8 DEF KInv, WaitListsConsistent
  <2> QED
    BY <1>5, <1>7, <2>1 DEF WaitListsConsistent
<1>12. SystemPriorities(s)
  <2>1. \A x \in UserTask : x \in Task
    BY DEF Task
  <2> QED
    BY <1>7, <1>8, <2>1 DEF KInv, SystemPriorities
<1>13. SystemTasks(s)
  BY <1>7, <1>8, SystemTasksAreTasks DEF KInv, SystemTasks
<1>14. WaitFields(s)
  BY <1>7, <1>8 DEF KInv, WaitFields
<1> QED
  BY <1>7, <1>9, <1>10, <1>11, <1>12, <1>13, <1>14 DEF KInv, s, state

(* The timer task's scan takes a tick off a listed task, or wakes it.      *)
LEMMA TimerVisit ==
    ASSUME NEW k, KInv(k),
           NEW t \in Task, k.task_state[t] = "WAIT", k.tick_count[t] \in Timeout
    PROVE  LET s == timer_visit(k, t)
           IN  /\ KInv(s)
               /\ s.current_running_task = k.current_running_task
               /\ \/ s.task_state = k.task_state
                  \/ s.task_state = [k.task_state EXCEPT ![t] = "RUNNABLE"]
<1> DEFINE s == timer_visit(k, t)
<1>1. /\ k \in KernelState
      /\ k.tick_count[t] \in Int
      /\ k.tick_count[t] > 0
      /\ k.tick_count[t] # WAIT_INFINITE
      /\ k.tick_count[t] - 1 \in 0 .. MaxTimeout
      /\ t # timer_task
      /\ t # idle_task
  BY SizesAssumption, SystemTasksAreTasks DEF KInv, Timeout, SystemTasks
<1>2. CASE k.tick_count[t] > 1
  <2> DEFINE ticks == [k.tick_count EXCEPT ![t] = @ - 1]
  <2>1. s = [k EXCEPT !.tick_count = ticks]
    BY <1>1, <1>2 DEF timer_visit, KernelState
  <2>2. /\ ticks \in [Task -> 0 .. MaxTimeout \cup {WAIT_INFINITE}]
        /\ ticks[t] \in Timeout
        /\ \A x \in Task : x # t => ticks[x] = k.tick_count[x]
    BY <1>1, <1>2 DEF KernelState, Timeout
  <2> HIDE DEF s, ticks
  <2>3. /\ s \in KernelState
        /\ s.tick_count = ticks
        /\ s.task_state = k.task_state
        /\ s.waiting_timeout_tasks_list = k.waiting_timeout_tasks_list
        /\ s.runnable_tasks_list = k.runnable_tasks_list
        /\ s.priority_ready_to_run_bitmap = k.priority_ready_to_run_bitmap
        /\ s.next_task_to_run = k.next_task_to_run
        /\ s.current_running_task = k.current_running_task
        /\ s.wait_list = k.wait_list
        /\ s.wait_queue = k.wait_queue
        /\ s.priority = k.priority
    BY <1>1, <2>1, <2>2 DEF KernelState
  <2>4. Linked(s)
    BY <2>3 DEF KInv, Linked, Runnable
  <2>5. TimersConsistent(s)
    BY <2>2, <2>3 DEF KInv, TimersConsistent
  <2>6. WaitListsConsistent(s) /\ SystemPriorities(s)
    BY <2>3 DEF KInv, WaitListsConsistent, SystemPriorities
  <2>7. SystemTasks(s) /\ WaitFields(s)
    BY <1>1, <2>2, <2>3, SystemTasksAreTasks DEF KInv, SystemTasks, WaitFields
  <2> QED
    BY <2>3, <2>4, <2>5, <2>6, <2>7 DEF KInv, s
<1>3. CASE ~(k.tick_count[t] > 1)
  <2> DEFINE ticked == [k EXCEPT !.tick_count[t] = @ - 1]
             r == queue_remove_element(ticked, t)
             tl == Without(k.waiting_timeout_tasks_list, t)
             ticks == [k.tick_count EXCEPT ![t] = WAIT_INFINITE]
             codes == [k.task_wait_return_code EXCEPT ![t] = "ERR_NO_ERROR"]
             c == [r EXCEPT !.waiting_timeout_tasks_list = tl,
                            !.tick_count = ticks,
                            !.task_wait_return_code = codes]
             w == set_task_as_runnable(c, t)
             state == [k.task_state EXCEPT ![t] = "RUNNABLE"]
             queues == [k.wait_queue EXCEPT ![t] = NULL]
             wl == [o \in WaitObject |-> Without(k.wait_list[o], t)]
             reasons == [k.task_wait_reason EXCEPT ![t] = "NONE"]
             timedout == [k.task_wait_return_code EXCEPT ![t] = "ERR_TIMEOUT"]
  <2>1. /\ ticked \in KernelState
        /\ ticked.tick_count = [k.tick_count EXCEPT ![t] = k.tick_count[t] - 1]
        /\ \A p \in Priority : t \notin Range(ticked.runnable_tasks_list[p])
        /\ ticked.wait_list = k.wait_list
        /\ ticked.runnable_tasks_list = k.runnable_tasks_list
        /\ ticked.priority_ready_to_run_bitmap = k.priority_ready_to_run_bitmap
        /\ ticked.next_task_to_run = k.next_task_to_run
        /\ ticked.task_state = k.task_state
        /\ ticked.wait_queue = k.wait_queue
        /\ ticked.priority = k.priority
        /\ ticked.current_running_task = k.current_running_task
        /\ ticked.waiting_timeout_tasks_list = k.waiting_timeout_tasks_list
        /\ ticked.task_wait_reason = k.task_wait_reason
        /\ ticked.task_wait_return_code = k.task_wait_return_code
    BY <1>1 DEF KernelState, KInv, Linked, ReadyOK, Runnable
  <2>2. /\ r \in KernelState
        /\ r.runnable_tasks_list = k.runnable_tasks_list
        /\ r.wait_list = wl
        /\ r.priority_ready_to_run_bitmap = k.priority_ready_to_run_bitmap
        /\ r.next_task_to_run = k.next_task_to_run
        /\ r.task_state = k.task_state
        /\ r.wait_queue = k.wait_queue
        /\ r.priority = k.priority
        /\ r.current_running_task = k.current_running_task
        /\ r.tick_count = ticked.tick_count
        /\ r.waiting_timeout_tasks_list = k.waiting_timeout_tasks_list
        /\ r.task_wait_reason = k.task_wait_reason
        /\ r.task_wait_return_code = k.task_wait_return_code
    <3> HIDE DEF ticked
    <3>1. r.wait_list = [o \in WaitObject |-> Without(ticked.wait_list[o], t)]
      BY <2>1, RemoveFacts
    <3>2. r.wait_list = wl
      BY <2>1, <3>1
    <3> QED
      BY <2>1, <3>2, RemoveFacts DEF SameTasks
  <2> HIDE DEF r
  <2>3. r.tick_count[t] # WAIT_INFINITE
    BY <1>1, <1>3, <2>1, <2>2, SizesAssumption DEF KernelState
  <2>4. /\ tl \in Seq(Task)
        /\ Range(tl) = Range(k.waiting_timeout_tasks_list) \ {t}
        /\ Distinct(tl)
    BY <1>1, WithoutFacts DEF KInv, KernelState, TimersConsistent
  <2>5. c = [r EXCEPT !.waiting_timeout_tasks_list =
                          IF r.tick_count[t] = WAIT_INFINITE THEN @ ELSE Without(@, t),
                      !.tick_count[t] = WAIT_INFINITE,
                      !.task_wait_return_code[t] = "ERR_NO_ERROR"]
    <3>1. [r.tick_count EXCEPT ![t] = WAIT_INFINITE] = ticks
      BY <1>1, <2>1, <2>2 DEF KernelState
    <3> HIDE DEF ticks
    <3> QED
      BY <2>2, <2>3, <3>1 DEF KernelState
  <2>6. /\ c \in KernelState
        /\ c.waiting_timeout_tasks_list = tl
        /\ c.tick_count = ticks
        /\ c.runnable_tasks_list = k.runnable_tasks_list
        /\ c.wait_list = wl
        /\ c.priority_ready_to_run_bitmap = k.priority_ready_to_run_bitmap
        /\ c.next_task_to_run = k.next_task_to_run
        /\ c.task_state = k.task_state
        /\ c.wait_queue = k.wait_queue
        /\ c.priority = k.priority
        /\ c.current_running_task = k.current_running_task
        /\ c.task_wait_reason = k.task_wait_reason
        /\ c.task_wait_return_code = codes
    <3>1. /\ ticks \in [Task -> 0 .. MaxTimeout \cup {WAIT_INFINITE}]
          /\ codes \in [Task -> ReturnCode]
      BY <1>1 DEF KernelState, ReturnCode
    <3> HIDE DEF ticks, codes, tl, wl
    <3> QED
      BY <2>2, <2>4, <3>1 DEF KernelState
  <2>7. /\ Runnable(k) \in SUBSET Task
        /\ t \notin Runnable(k)
        /\ ReadyOK(c.runnable_tasks_list, c.priority_ready_to_run_bitmap,
                   Runnable(k), c.priority)
        /\ NextOK(c.runnable_tasks_list, c.next_task_to_run)
    BY <2>6 DEF KInv, Linked, Runnable
  <2> HIDE DEF c
  <2>8. /\ w \in KernelState
        /\ ReadyOK(w.runnable_tasks_list, w.priority_ready_to_run_bitmap,
                   Runnable(k) \cup {t}, w.priority)
        /\ NextOK(w.runnable_tasks_list, w.next_task_to_run)
        /\ SameTasks(w, c)
        /\ w.wait_list = wl
        /\ w.task_state = state
        /\ w.wait_queue = queues
    <3> HIDE DEF wl, state, queues
    <3>1. /\ w \in KernelState
          /\ ReadyOK(w.runnable_tasks_list, w.priority_ready_to_run_bitmap,
                     Runnable(k) \cup {t}, w.priority)
          /\ NextOK(w.runnable_tasks_list, w.next_task_to_run)
          /\ SameTasks(w, c)
          /\ w.wait_list = c.wait_list
          /\ w.task_state = [c.task_state EXCEPT ![t] = "RUNNABLE"]
          /\ w.wait_queue = [c.wait_queue EXCEPT ![t] = NULL]
      BY <2>6, <2>7, SetRunnable
    <3> QED
      BY <2>6, <3>1 DEF state, queues
  <2>9. s = [w EXCEPT !.task_wait_reason = reasons,
                      !.task_wait_return_code = timedout]
    <3>1. s = [task_wait_complete(r, t) EXCEPT !.task_wait_return_code[t] = "ERR_TIMEOUT"]
      BY <1>1, <1>3 DEF timer_visit, r
    <3>2. task_wait_complete(r, t) = [w EXCEPT !.task_wait_reason[t] = "NONE"]
      BY <2>5 DEF task_wait_complete
    <3>3. /\ w.task_wait_reason = k.task_wait_reason
          /\ w.task_wait_return_code = codes
      BY <2>6, <2>8 DEF SameTasks
    <3>4. [codes EXCEPT ![t] = "ERR_TIMEOUT"] = timedout
      BY <1>1 DEF KernelState
    <3> HIDE DEF s, w, codes, timedout
    <3> QED
      BY <2>8, <3>1, <3>2, <3>3, <3>4 DEF KernelState
  <2>10. /\ reasons \in [Task -> WaitReason]
         /\ timedout \in [Task -> ReturnCode]
    BY <1>1 DEF KernelState, WaitReason, ReturnCode
  <2>11. /\ state[t] = "RUNNABLE" /\ ticks[t] = WAIT_INFINITE /\ queues[t] = NULL
         /\ \A x \in Task : x # t => /\ state[x] = k.task_state[x]
                                    /\ ticks[x] = k.tick_count[x]
                                    /\ queues[x] = k.wait_queue[x]
    BY <1>1 DEF KernelState
  <2>12. \A o \in WaitObject : /\ Range(wl[o]) = Range(k.wait_list[o]) \ {t}
                               /\ Distinct(wl[o])
    <3>1. ASSUME NEW o \in WaitObject
          PROVE  /\ Range(Without(k.wait_list[o], t)) = Range(k.wait_list[o]) \ {t}
                 /\ Distinct(Without(k.wait_list[o], t))
      <4>1. k.wait_list[o] \in Seq(Task) /\ Distinct(k.wait_list[o])
        BY <1>1 DEF KInv, KernelState, WaitListsConsistent
      <4> QED
        BY <4>1, WithoutFacts
    <3> QED
      BY <3>1
  <2> HIDE DEF s, w, tl, ticks, state, queues, wl, reasons, timedout
  <2>13. /\ s \in KernelState
         /\ s.waiting_timeout_tasks_list = tl
         /\ s.tick_count = ticks
         /\ s.task_state = state
         /\ s.wait_queue = queues
         /\ s.wait_list = wl
         /\ s.runnable_tasks_list = w.runnable_tasks_list
         /\ s.priority_ready_to_run_bitmap = w.priority_ready_to_run_bitmap
         /\ s.next_task_to_run = w.next_task_to_run
         /\ s.priority = k.priority
         /\ w.priority = k.priority
         /\ s.current_running_task = k.current_running_task
    BY <2>6, <2>8, <2>9, <2>10 DEF KernelState, SameTasks
  <2>14. Linked(s)
    <3>1. Runnable(s) = Runnable(k) \cup {t}
      BY <2>11, <2>13 DEF Runnable
    <3> QED
      BY <2>8, <2>13, <3>1 DEF Linked
  <2>15. TimersConsistent(s)
    BY <2>4, <2>11, <2>13 DEF KInv, TimersConsistent
  <2>16. WaitListsConsistent(s)
    BY <2>11, <2>12, <2>13 DEF KInv, WaitListsConsistent
  <2>17. SystemPriorities(s)
    <3>1. UserTask \subseteq Task
      BY DEF Task
    <3> QED
      BY <2>11, <2>13, <3>1 DEF KInv, SystemPriorities
  <2>18. SystemTasks(s)
    BY <1>1, <2>11, <2>13, SystemTasksAreTasks DEF KInv, SystemTasks
  <2>19. WaitFields(s)
    BY <2>11, <2>13 DEF KInv, WaitFields
  <2> QED
    BY <2>13, <2>14, <2>15, <2>16, <2>17, <2>18, <2>19 DEF KInv, s, state
<1> QED
  BY <1>2, <1>3

(* A dormant task is started.                                              *)
LEMMA StartTask ==
    ASSUME NEW k, KInv(k), NEW t \in UserTask, k.task_state[t] = "DORMANT"
    PROVE  LET s == set_task_as_runnable(k, t)
           IN  /\ KInv(s)
               /\ s.current_running_task = k.current_running_task
               /\ s.task_state = [k.task_state EXCEPT ![t] = "RUNNABLE"]
<1> DEFINE s == set_task_as_runnable(k, t)
<1>1. /\ k \in KernelState
      /\ t \in Task
      /\ UserTask \subseteq Task
      /\ t # timer_task
      /\ t # idle_task
  BY TasksAssumption DEF KInv, Task
<1>2. /\ Runnable(k) \in SUBSET Task
      /\ t \notin Runnable(k)
      /\ ReadyOK(k.runnable_tasks_list, k.priority_ready_to_run_bitmap,
                 Runnable(k), k.priority)
      /\ NextOK(k.runnable_tasks_list, k.next_task_to_run)
  BY DEF KInv, Linked, Runnable
<1>3. /\ s \in KernelState
      /\ ReadyOK(s.runnable_tasks_list, s.priority_ready_to_run_bitmap,
                 Runnable(k) \cup {t}, s.priority)
      /\ NextOK(s.runnable_tasks_list, s.next_task_to_run)
      /\ SameTasks(s, k)
      /\ s.wait_list = k.wait_list
      /\ s.task_state = [k.task_state EXCEPT ![t] = "RUNNABLE"]
      /\ s.wait_queue = [k.wait_queue EXCEPT ![t] = NULL]
  BY <1>1, <1>2, SetRunnable
<1> HIDE DEF s
<1>4. /\ s.task_state[t] = "RUNNABLE"
      /\ s.wait_queue[t] = NULL
      /\ \A x \in Task : x # t => /\ s.task_state[x] = k.task_state[x]
                                 /\ s.wait_queue[x] = k.wait_queue[x]
  BY <1>1, <1>3 DEF KernelState
<1>5. Linked(s)
  <2>1. Runnable(s) = Runnable(k) \cup {t}
    BY <1>1, <1>4 DEF Runnable
  <2> QED
    BY <1>3, <2>1 DEF Linked
<1>6. TimersConsistent(s)
  BY <1>3, <1>4 DEF KInv, TimersConsistent, SameTasks
<1>7. WaitListsConsistent(s)
  BY <1>3, <1>4 DEF KInv, WaitListsConsistent
<1>8. SystemPriorities(s)
  BY <1>1, <1>3, <1>4 DEF KInv, SystemPriorities, SameTasks
<1>9. SystemTasks(s)
  BY <1>1, <1>3, <1>4, SystemTasksAreTasks DEF KInv, SystemTasks, SameTasks
<1>10. WaitFields(s)
  BY <1>3, <1>4 DEF KInv, WaitFields, SameTasks
<1> QED
  BY <1>3, <1>5, <1>6, <1>7, <1>8, <1>9, <1>10 DEF KInv, SameTasks, s

(* Without TASK_START_ON_CREATION, create_task fills in a TCB and links it  *)
(* nowhere.                                                                *)
LEMMA CreateDormant ==
    ASSUME NEW k \in KernelState, NEW t \in Task, NEW p \in Priority,
           NEW option, "TASK_START_ON_CREATION" \notin option
    PROVE  LET s == create_task(k, t, p, option)
           IN  /\ s \in KernelState
               /\ s.task_state = [k.task_state EXCEPT ![t] = "DORMANT"]
               /\ s.priority = [k.priority EXCEPT ![t] = p]
               /\ s.wait_queue = [k.wait_queue EXCEPT ![t] = NULL]
               /\ s.tick_count = [k.tick_count EXCEPT ![t] = WAIT_INFINITE]
               /\ s.runnable_tasks_list = k.runnable_tasks_list
               /\ s.priority_ready_to_run_bitmap = k.priority_ready_to_run_bitmap
               /\ s.next_task_to_run = k.next_task_to_run
               /\ s.current_running_task = k.current_running_task
               /\ s.waiting_timeout_tasks_list = k.waiting_timeout_tasks_list
               /\ s.wait_list = k.wait_list
<1> DEFINE s == create_task(k, t, p, option)
           based == [k EXCEPT !.base_priority[t] = p]
           d == [task_set_dormant_state(based, t)
                    EXCEPT !.all_tasks_queue = @ \cup {t}, !.num_tasks = @ + 1]
           state == [k.task_state EXCEPT ![t] = "DORMANT"]
           prio == [k.priority EXCEPT ![t] = p]
           base == [k.base_priority EXCEPT ![t] = p]
           queues == [k.wait_queue EXCEPT ![t] = NULL]
           reasons == [k.task_wait_reason EXCEPT ![t] = "NONE"]
           codes == [k.task_wait_return_code EXCEPT ![t] = "ERR_NO_ERROR"]
           ticks == [k.tick_count EXCEPT ![t] = WAIT_INFINITE]
           slices == [k.time_slice_count EXCEPT ![t] = 0]
           all == k.all_tasks_queue \cup {t}
           num == k.num_tasks + 1
<1>1. k \in KernelState /\ t \in Task /\ p \in Priority
  OBVIOUS
<1>4. s = d
  BY DEF create_task
<1> HIDE DEF s
<1>2. d = [k EXCEPT !.base_priority = base, !.task_state = state, !.priority = prio,
                    !.wait_queue = queues, !.task_wait_reason = reasons,
                    !.task_wait_return_code = codes, !.tick_count = ticks,
                    !.time_slice_count = slices, !.all_tasks_queue = all,
                    !.num_tasks = num]
  <2>1. based = [k EXCEPT !.base_priority = base]
    BY <1>1 DEF KernelState
  <2>2. base[t] = p
    BY <1>1 DEF KernelState
  <2> HIDE DEF based, base
  <2>3. task_set_dormant_state(based, t) =
           [k EXCEPT !.base_priority = base, !.task_state = state, !.priority = prio,
                     !.wait_queue = queues, !.task_wait_reason = reasons,
                     !.task_wait_return_code = codes, !.tick_count = ticks,
                     !.time_slice_count = slices]
    BY <1>1, <2>1, <2>2 DEF task_set_dormant_state, KernelState
  <2> HIDE DEF state, prio, queues, reasons, codes, ticks, slices
  <2> QED
    BY <1>1, <2>3 DEF KernelState
<1>3. /\ base \in [Task -> Priority]
      /\ state \in [Task -> TaskState]
      /\ prio \in [Task -> Priority]
      /\ queues \in [Task -> WaitObject \cup {NULL}]
      /\ reasons \in [Task -> WaitReason]
      /\ codes \in [Task -> ReturnCode]
      /\ ticks \in [Task -> 0 .. MaxTimeout \cup {WAIT_INFINITE}]
      /\ slices \in [Task -> Nat]
      /\ all \in SUBSET Task
      /\ num \in Int
  BY <1>1 DEF KernelState, TaskState, WaitReason, ReturnCode
<1> HIDE DEF d, state, prio, base, queues, reasons, codes, ticks, slices, all, num
<1>5. /\ d \in KernelState
      /\ d.task_state = state
      /\ d.priority = prio
      /\ d.wait_queue = queues
      /\ d.tick_count = ticks
      /\ d.task_wait_return_code = codes
      /\ d.runnable_tasks_list = k.runnable_tasks_list
      /\ d.priority_ready_to_run_bitmap = k.priority_ready_to_run_bitmap
      /\ d.next_task_to_run = k.next_task_to_run
      /\ d.current_running_task = k.current_running_task
      /\ d.waiting_timeout_tasks_list = k.waiting_timeout_tasks_list
      /\ d.wait_list = k.wait_list
  BY <1>1, <1>2, <1>3 DEF KernelState
<1> QED
  BY <1>4, <1>5 DEF s, state, prio, queues, ticks

(* ... and the code it leaves in the TCB is that of a call that succeeded. *)
LEMMA CreateDormantCode ==
    ASSUME NEW k \in KernelState, NEW t \in Task, NEW p \in Priority,
           NEW option, "TASK_START_ON_CREATION" \notin option
    PROVE  LET s == create_task(k, t, p, option)
           IN  s.task_wait_return_code =
                  [k.task_wait_return_code EXCEPT ![t] = "ERR_NO_ERROR"]
<1> DEFINE s == create_task(k, t, p, option)
           based == [k EXCEPT !.base_priority[t] = p]
           d == [task_set_dormant_state(based, t)
                    EXCEPT !.all_tasks_queue = @ \cup {t}, !.num_tasks = @ + 1]
           state == [k.task_state EXCEPT ![t] = "DORMANT"]
           prio == [k.priority EXCEPT ![t] = p]
           base == [k.base_priority EXCEPT ![t] = p]
           queues == [k.wait_queue EXCEPT ![t] = NULL]
           reasons == [k.task_wait_reason EXCEPT ![t] = "NONE"]
           codes == [k.task_wait_return_code EXCEPT ![t] = "ERR_NO_ERROR"]
           ticks == [k.tick_count EXCEPT ![t] = WAIT_INFINITE]
           slices == [k.time_slice_count EXCEPT ![t] = 0]
           all == k.all_tasks_queue \cup {t}
           num == k.num_tasks + 1
<1>1. k \in KernelState /\ t \in Task /\ p \in Priority
  OBVIOUS
<1>4. s = d
  BY DEF create_task
<1> HIDE DEF s
<1>2. d = [k EXCEPT !.base_priority = base, !.task_state = state, !.priority = prio,
                    !.wait_queue = queues, !.task_wait_reason = reasons,
                    !.task_wait_return_code = codes, !.tick_count = ticks,
                    !.time_slice_count = slices, !.all_tasks_queue = all,
                    !.num_tasks = num]
  <2>1. based = [k EXCEPT !.base_priority = base]
    BY <1>1 DEF KernelState
  <2>2. base[t] = p
    BY <1>1 DEF KernelState
  <2> HIDE DEF based, base
  <2>3. task_set_dormant_state(based, t) =
           [k EXCEPT !.base_priority = base, !.task_state = state, !.priority = prio,
                     !.wait_queue = queues, !.task_wait_reason = reasons,
                     !.task_wait_return_code = codes, !.tick_count = ticks,
                     !.time_slice_count = slices]
    BY <1>1, <2>1, <2>2 DEF task_set_dormant_state, KernelState
  <2> HIDE DEF state, prio, queues, reasons, codes, ticks, slices
  <2> QED
    BY <1>1, <2>3 DEF KernelState
<1>3. /\ base \in [Task -> Priority]
      /\ state \in [Task -> TaskState]
      /\ prio \in [Task -> Priority]
      /\ queues \in [Task -> WaitObject \cup {NULL}]
      /\ reasons \in [Task -> WaitReason]
      /\ codes \in [Task -> ReturnCode]
      /\ ticks \in [Task -> 0 .. MaxTimeout \cup {WAIT_INFINITE}]
      /\ slices \in [Task -> Nat]
      /\ all \in SUBSET Task
      /\ num \in Int
  BY <1>1 DEF KernelState, TaskState, WaitReason, ReturnCode
<1> HIDE DEF d, state, prio, base, queues, reasons, codes, ticks, slices, all, num
<1>5. d.task_wait_return_code = codes
  BY <1>1, <1>2, <1>3 DEF KernelState
<1> QED
  BY <1>4, <1>5 DEF s, codes

(* create_task fills in an unused TCB, and starts the task if asked to.    *)
LEMMA CreateTask ==
    ASSUME NEW k, KInv(k), NEW t \in UserTask, k.task_state[t] = "NONE",
           NEW p \in 1 .. NUM_PRIORITY - 2, NEW option \in SUBSET CreateOption
    PROVE  LET s == create_task(k, t, p, option)
           IN  /\ KInv(s)
               /\ s.current_running_task = k.current_running_task
               /\ \A x \in Task : x # t => s.task_state[x] = k.task_state[x]
               /\ s.task_state[t] \in {"DORMANT", "RUNNABLE"}
<1> DEFINE s == create_task(k, t, p, option)
           d == create_task(k, t, p, {})
           state == [k.task_state EXCEPT ![t] = "DORMANT"]
           prio == [k.priority EXCEPT ![t] = p]
           queues == [k.wait_queue EXCEPT ![t] = NULL]
           ticks == [k.tick_count EXCEPT ![t] = WAIT_INFINITE]
<1>1. /\ k \in KernelState
      /\ t \in Task
      /\ UserTask \subseteq Task
      /\ t # timer_task
      /\ t # idle_task
      /\ p \in Priority
  BY TasksAssumption, SizesAssumption DEF KInv, Task, Priority
<1>4. /\ state[t] = "DORMANT" /\ prio[t] = p
      /\ queues[t] = NULL /\ ticks[t] = WAIT_INFINITE
      /\ \A x \in Task : x # t => /\ state[x] = k.task_state[x]
                                 /\ prio[x] = k.priority[x]
                                 /\ queues[x] = k.wait_queue[x]
                                 /\ ticks[x] = k.tick_count[x]
  BY <1>1 DEF KernelState
<1> HIDE DEF state, prio, queues, ticks
<1>5. /\ d \in KernelState
      /\ d.task_state = state
      /\ d.priority = prio
      /\ d.wait_queue = queues
      /\ d.tick_count = ticks
      /\ d.runnable_tasks_list = k.runnable_tasks_list
      /\ d.priority_ready_to_run_bitmap = k.priority_ready_to_run_bitmap
      /\ d.next_task_to_run = k.next_task_to_run
      /\ d.current_running_task = k.current_running_task
      /\ d.waiting_timeout_tasks_list = k.waiting_timeout_tasks_list
      /\ d.wait_list = k.wait_list
  BY <1>1, CreateDormant DEF state, prio, queues, ticks
<1> HIDE DEF d
<1>6. Linked(d)
  <2>1. Runnable(d) = Runnable(k)
    BY <1>1, <1>4, <1>5 DEF Runnable
  <2>2. ASSUME NEW q \in Priority
        PROVE  {u \in Runnable(k) : prio[u] = q} = {u \in Runnable(k) : k.priority[u] = q}
    BY <1>4 DEF Runnable
  <2> QED
    BY <1>5, <2>1, <2>2 DEF KInv, Linked, ReadyOK
<1>7. TimersConsistent(d)
  BY <1>1, <1>4, <1>5 DEF KInv, TimersConsistent
<1>8. WaitListsConsistent(d)
  BY <1>1, <1>4, <1>5 DEF KInv, WaitListsConsistent
<1>9. SystemPriorities(d)
  BY <1>1, <1>4, <1>5, SystemTasksAreTasks DEF KInv, SystemPriorities
<1>10. SystemTasks(d)
  BY <1>1, <1>4, <1>5, SystemTasksAreTasks DEF KInv, SystemTasks
<1>11. WaitFields(d)
  BY <1>4, <1>5 DEF KInv, WaitFields
<1>12. KInv(d)
  BY <1>5, <1>6, <1>7, <1>8, <1>9, <1>10, <1>11 DEF KInv
<1>13. s = IF "TASK_START_ON_CREATION" \in option THEN set_task_as_runnable(d, t) ELSE d
  BY DEF create_task, d
<1>14. CASE "TASK_START_ON_CREATION" \in option
  <2> DEFINE r == set_task_as_runnable(d, t)
  <2>1. /\ KInv(r)
        /\ r.current_running_task = d.current_running_task
        /\ r.task_state = [d.task_state EXCEPT ![t] = "RUNNABLE"]
    BY <1>4, <1>5, <1>12, StartTask
  <2>2. s = r
    BY <1>13, <1>14
  <2> HIDE DEF r, s
  <2>3. /\ r.task_state[t] = "RUNNABLE"
        /\ \A x \in Task : x # t => r.task_state[x] = state[x]
    BY <1>1, <1>4, <1>5, <2>1 DEF KernelState
  <2> QED
    BY <1>4, <1>5, <2>1, <2>2, <2>3 DEF s
<1>15. CASE "TASK_START_ON_CREATION" \notin option
  <2>1. s = d
    BY <1>13, <1>15
  <2> QED
    BY <1>4, <1>5, <1>12, <2>1
<1> QED
  BY <1>14, <1>15

(* The round robin moves no task from one list to another.                 *)
LEMMA RoundRobin ==
    ASSUME NEW k, KInv(k)
    PROVE  LET r == round_robin(k)
           IN  /\ r \in KernelState
               /\ ReadyOK(r.runnable_tasks_list, r.priority_ready_to_run_bitmap,
                          Runnable(r), r.priority)
               /\ TimersConsistent(r)
               /\ WaitListsConsistent(r)
               /\ SystemPriorities(r)
               /\ SystemTasks(r)
               /\ WaitFields(r)
               /\ r.current_running_task = k.current_running_task
               /\ r.task_state = k.task_state
<1> DEFINE r == round_robin(k)
           t == k.current_running_task
           p == k.priority[t]
           list == k.runnable_tasks_list[p]
<1>1. /\ k \in KernelState
      /\ t \in Task
      /\ p \in Priority
      /\ k.time_slice_count \in [Task -> Nat]
      /\ k.runnable_tasks_list \in [Priority -> Seq(Task)]
      /\ list \in Seq(Task)
      /\ ReadyOK(k.runnable_tasks_list, k.priority_ready_to_run_bitmap,
                 Runnable(k), k.priority)
  BY DEF KInv, KernelState, Linked
<1>2. \E slices \in [Task -> Nat], rl \in [Priority -> Seq(Task)] :
         /\ ReadyOK(rl, k.priority_ready_to_run_bitmap, Runnable(k), k.priority)
         /\ r = [k EXCEPT !.time_slice_count = slices, !.runnable_tasks_list = rl]
  <2> DEFINE ticks == k.time_slice_count[t] + 1
             same == k.time_slice_count
             counted == [k.time_slice_count EXCEPT ![t] = ticks]
             reset == [k.time_slice_count EXCEPT ![t] = 0]
             turned == [k.runnable_tasks_list EXCEPT ![p] = HeadToTail(@)]
  <2>1. CASE time_slice_ticks[p] = NO_TIME_SLICE
    <3>1. r = k
      BY <2>1 DEF round_robin
    <3>2. r = [k EXCEPT !.time_slice_count = same,
                        !.runnable_tasks_list = k.runnable_tasks_list]
      BY <1>1, <3>1 DEF KernelState
    <3> QED
      BY <1>1, <3>2
  <2>2. CASE time_slice_ticks[p] # NO_TIME_SLICE /\ ticks <= time_slice_ticks[p]
    <3>1. r = [k EXCEPT !.time_slice_count[t] = ticks]
      BY <2>2 DEF round_robin
    <3>2. r = [k EXCEPT !.time_slice_count = counted,
                        !.runnable_tasks_list = k.runnable_tasks_list]
      BY <1>1, <3>1 DEF KernelState
    <3>3. counted \in [Task -> Nat]
      BY <1>1
    <3> QED
      BY <1>1, <3>2, <3>3
  <2>3. CASE /\ time_slice_ticks[p] # NO_TIME_SLICE
             /\ ~(ticks <= time_slice_ticks[p])
             /\ ~(Len(list) > 1)
    <3>1. r = [k EXCEPT !.time_slice_count = reset,
                        !.runnable_tasks_list = k.runnable_tasks_list]
      BY <1>1, <2>3 DEF round_robin, KernelState
    <3>2. reset \in [Task -> Nat]
      BY <1>1
    <3> QED
      BY <1>1, <3>1, <3>2
  <2>4. CASE /\ time_slice_ticks[p] # NO_TIME_SLICE
             /\ ~(ticks <= time_slice_ticks[p])
             /\ Len(list) > 1
    <3>1. r = [k EXCEPT !.time_slice_count = reset, !.runnable_tasks_list = turned]
      BY <1>1, <2>4 DEF round_robin, KernelState
    <3>2. reset \in [Task -> Nat]
      BY <1>1
    <3>3. list # <<>>
      BY <1>1, <2>4
    <3>4. ReadyOK(turned, k.priority_ready_to_run_bitmap, Runnable(k), k.priority)
      <4> DEFINE rl0 == k.runnable_tasks_list
                 bm0 == k.priority_ready_to_run_bitmap
                 R0 == Runnable(k)
                 prio == k.priority
      <4>1. /\ ReadyOK(rl0, bm0, R0, prio) /\ R0 \in SUBSET Task
            /\ p \in Priority /\ rl0[p] # <<>>
        BY <1>1, <3>3 DEF Runnable
      <4> HIDE DEF rl0, bm0, R0, prio, p
      <4>2. ReadyOK([rl0 EXCEPT ![p] = HeadToTail(@)], bm0, R0, prio)
        BY <4>1, RotateKeepsReady
      <4> QED
        BY <4>2 DEF rl0, bm0, R0, prio, p
    <3>5. turned \in [Priority -> Seq(Task)]
      BY <3>4 DEF ReadyOK
    <3> QED
      BY <3>1, <3>2, <3>4, <3>5
  <2> QED
    BY <2>1, <2>2, <2>3, <2>4
<1>3. PICK slices \in [Task -> Nat], rl \in [Priority -> Seq(Task)] :
         /\ ReadyOK(rl, k.priority_ready_to_run_bitmap, Runnable(k), k.priority)
         /\ r = [k EXCEPT !.time_slice_count = slices, !.runnable_tasks_list = rl]
  BY <1>2
<1> HIDE DEF r
<1>4. /\ r \in KernelState
      /\ r.runnable_tasks_list = rl
      /\ r.priority_ready_to_run_bitmap = k.priority_ready_to_run_bitmap
      /\ r.waiting_timeout_tasks_list = k.waiting_timeout_tasks_list
      /\ r.wait_list = k.wait_list
      /\ r.current_running_task = k.current_running_task
      /\ r.task_state = k.task_state
      /\ r.priority = k.priority
      /\ r.tick_count = k.tick_count
      /\ r.wait_queue = k.wait_queue
  BY <1>1, <1>3 DEF KernelState
<1>5. Runnable(r) = Runnable(k)
  BY <1>4 DEF Runnable
<1> QED
  BY <1>3, <1>4, <1>5 DEF KInv, TimersConsistent, WaitListsConsistent,
     SystemPriorities, SystemTasks, WaitFields, r

(* The tick leaves the timer task as the only, and the next, task of       *)
(* priority 0.                                                             *)
LEMMA TickIntProcessing ==
    ASSUME NEW k, KInv(k)
    PROVE  LET s == tick_int_processing(k)
           IN  /\ KInv(s)
               /\ s.current_running_task = k.current_running_task
               /\ s.task_state = [k.task_state EXCEPT ![timer_task] = "RUNNABLE"]
<1> DEFINE r == round_robin(k)
           u == queue_remove_element(r, timer_task)
           s == tick_int_processing(k)
           R == Runnable(r) \ {timer_task}
           state == [r.task_state EXCEPT ![timer_task] = "RUNNABLE"]
           reasons == [r.task_wait_reason EXCEPT ![timer_task] = "NONE"]
           codes == [r.task_wait_return_code EXCEPT ![timer_task] = "ERR_NO_ERROR"]
           queues == [r.wait_queue EXCEPT ![timer_task] = NULL]
           rl == [u.runnable_tasks_list EXCEPT ![0] = InsertLast(@, timer_task)]
           bm == r.priority_ready_to_run_bitmap \cup {0}
<1>1. /\ r \in KernelState
      /\ ReadyOK(r.runnable_tasks_list, r.priority_ready_to_run_bitmap,
                 Runnable(r), r.priority)
      /\ TimersConsistent(r)
      /\ WaitListsConsistent(r)
      /\ SystemPriorities(r)
      /\ SystemTasks(r)
      /\ WaitFields(r)
      /\ r.current_running_task = k.current_running_task
      /\ r.task_state = k.task_state
  BY RoundRobin
<1>2. s = wake_timer_task(r)
  BY DEF tick_int_processing
<1> HIDE DEF r
<1>a. LET v == queue_remove_element(r, timer_task)
      IN  /\ v \in KernelState
          /\ v.wait_list = [o \in WaitObject |-> Without(r.wait_list[o], timer_task)]
          /\ v.runnable_tasks_list =
                [p \in Priority |-> Without(r.runnable_tasks_list[p], timer_task)]
          /\ (\A p \in Priority : timer_task \notin Range(r.runnable_tasks_list[p]))
                => v.runnable_tasks_list = r.runnable_tasks_list
          /\ SameTasks(v, r)
          /\ v.task_state = r.task_state
          /\ v.wait_queue = r.wait_queue
          /\ v.priority_ready_to_run_bitmap = r.priority_ready_to_run_bitmap
  BY <1>1, SystemTasksAreTasks, RemoveFacts
<1>b. u = queue_remove_element(r, timer_task)
  OBVIOUS
<1> HIDE DEF u
<1>3. /\ u \in KernelState
      /\ u.wait_list = [o \in WaitObject |-> Without(r.wait_list[o], timer_task)]
      /\ \A p \in Priority :
            u.runnable_tasks_list[p] = Without(r.runnable_tasks_list[p], timer_task)
      /\ (\A p \in Priority : timer_task \notin Range(r.runnable_tasks_list[p]))
            => u.runnable_tasks_list = r.runnable_tasks_list
      /\ SameTasks(u, r)
      /\ u.task_state = r.task_state
      /\ u.wait_queue = r.wait_queue
      /\ u.priority_ready_to_run_bitmap = r.priority_ready_to_run_bitmap
  BY <1>a, <1>b
<1>4. /\ u.runnable_tasks_list \in [Priority -> Seq(Task)]
      /\ r.priority \in [Task -> Priority]
      /\ r.priority[timer_task] = 0
      /\ R \in SUBSET Task
      /\ timer_task \notin R
  BY <1>1, <1>3 DEF KernelState, SystemPriorities, Runnable
<1>5. \E bits :
         /\ ReadyOK(u.runnable_tasks_list, bits, R, r.priority)
         /\ bits \cup {0} = bm
  <2>1. CASE timer_task \in Runnable(r)
    <3> DEFINE bits == IF u.runnable_tasks_list[0] = <<>>
                       THEN r.priority_ready_to_run_bitmap \ {0}
                       ELSE r.priority_ready_to_run_bitmap
               all == Runnable(r)
               rl0 == r.runnable_tasks_list
               bm0 == r.priority_ready_to_run_bitmap
               rl1 == u.runnable_tasks_list
               prio == r.priority
    <3>1. /\ all \in SUBSET Task
          /\ timer_task \in all
          /\ prio \in [Task -> Priority] /\ prio[timer_task] = 0
          /\ ReadyOK(rl0, bm0, all, prio)
          /\ rl1 \in [Priority -> Seq(Task)]
          /\ \A p \in Priority : rl1[p] = Without(rl0[p], timer_task)
      BY <1>1, <1>3, <1>4, <2>1 DEF Runnable
    <3>2. ReadyOK(rl1, bits, all \ {timer_task}, prio)
      <4> HIDE DEF rl0, bm0, rl1, all, prio
      <4>1. ReadyOK(rl1, IF rl1[prio[timer_task]] = <<>>
                         THEN bm0 \ {prio[timer_task]} ELSE bm0,
                    all \ {timer_task}, prio)
        BY <3>1, UnlinkKeepsReady
      <4> QED
        BY <3>1, <4>1 DEF rl1, bm0
    <3> QED
      BY <3>2
  <2>2. CASE timer_task \notin Runnable(r)
    <3>1. \A p \in Priority : timer_task \notin Range(r.runnable_tasks_list[p])
      BY <1>1, <2>2 DEF ReadyOK
    <3>2. Runnable(r) = R
      BY <2>2
    <3> QED
      BY <1>1, <1>3, <3>1, <3>2
  <2> QED
    BY <2>1, <2>2
<1>6. PICK bits :
         /\ ReadyOK(u.runnable_tasks_list, bits, R, r.priority)
         /\ bits \cup {0} = bm
  BY <1>5
<1>7. ReadyOK(rl, bm, R \cup {timer_task}, r.priority)
  <2> DEFINE rl1 == u.runnable_tasks_list
             prio == r.priority
  <2>1. /\ ReadyOK(rl1, bits, R, prio)
        /\ prio \in [Task -> Priority] /\ prio[timer_task] = 0
        /\ timer_task \in Task
    BY <1>4, <1>6, SystemTasksAreTasks
  <2> HIDE DEF rl1, prio, R, bm
  <2>2. ReadyOK([rl1 EXCEPT ![prio[timer_task]] = InsertLast(@, timer_task)],
                bits \cup {prio[timer_task]}, R \cup {timer_task}, prio)
    BY <1>4, <2>1, LinkKeepsReady
  <2> QED
    BY <1>6, <2>1, <2>2 DEF rl1, prio
<1>8. NextOK(rl, timer_task)
  <2> DEFINE list == u.runnable_tasks_list[0]
  <2>1. list \in Seq(Task) /\ Range(list) = {x \in R : r.priority[x] = 0} /\ 0 \in Priority
    BY <1>4, <1>6, SystemTasksAreTasks DEF ReadyOK
  <2>2. ASSUME NEW x \in R
        PROVE  r.priority[x] # 0
    <3>1. x \in UserTask \/ x = idle_task
      BY <1>4 DEF Task, SystemTask
    <3>2. r.task_state[x] = "RUNNABLE"
      BY DEF Runnable
    <3> QED
      BY <1>1, <3>1, <3>2, SizesAssumption DEF SystemPriorities
  <2>3. list = <<>>
    BY <2>1, <2>2, EmptyList
  <2>4. /\ InsertLast(list, timer_task) # <<>>
        /\ Head(InsertLast(list, timer_task)) = timer_task
    BY <2>1, <2>3, SystemTasksAreTasks, InsertLastFacts
  <2>5. rl[0] = InsertLast(list, timer_task)
    BY <1>4, <2>1
  <2> QED
    BY <2>1, <2>4, <2>5 DEF NextOK, Priority
<1> HIDE DEF rl, bm
<1>9. s = [u EXCEPT !.task_wait_reason = reasons, !.task_state = state,
                    !.wait_queue = queues, !.task_wait_return_code = codes,
                    !.runnable_tasks_list = rl,
                    !.priority_ready_to_run_bitmap = bm,
                    !.next_task_to_run = timer_task]
  <2> HIDE DEF s, u
  <2> QED
    BY <1>2, <1>3 DEF wake_timer_task, u, KernelState, SameTasks, rl, bm
<1>10. /\ state \in [Task -> TaskState]
       /\ reasons \in [Task -> WaitReason]
       /\ codes \in [Task -> ReturnCode]
       /\ queues \in [Task -> WaitObject \cup {NULL}]
       /\ rl \in [Priority -> Seq(Task)]
       /\ bm \in SUBSET Priority
       /\ timer_task \in Task
  BY <1>1, <1>7, SystemTasksAreTasks DEF KernelState, TaskState, WaitReason, ReturnCode, ReadyOK
<1>11. /\ state[timer_task] = "RUNNABLE"
       /\ queues[timer_task] = NULL
       /\ \A x \in Task : x # timer_task => /\ state[x] = r.task_state[x]
                                           /\ queues[x] = r.wait_queue[x]
  BY <1>1, <1>10 DEF KernelState
<1> HIDE DEF s, u, state, reasons, codes, queues, R
<1>12. /\ s \in KernelState
       /\ s.task_state = state
       /\ s.wait_queue = queues
       /\ s.runnable_tasks_list = rl
       /\ s.priority_ready_to_run_bitmap = bm
       /\ s.next_task_to_run = timer_task
       /\ s.wait_list = u.wait_list
       /\ s.current_running_task = r.current_running_task
       /\ s.waiting_timeout_tasks_list = r.waiting_timeout_tasks_list
       /\ s.tick_count = r.tick_count
       /\ s.priority = r.priority
  BY <1>3, <1>9, <1>10 DEF KernelState, SameTasks
<1>13. Linked(s)
  <2>1. Runnable(s) = R \cup {timer_task}
    BY <1>10, <1>11, <1>12 DEF Runnable, R
  <2> QED
    BY <1>7, <1>8, <1>12, <2>1 DEF Linked
<1>14. TimersConsistent(s)
  BY <1>1, <1>11, <1>12, SystemTasksAreTasks DEF TimersConsistent, SystemTasks
<1>15. WaitListsConsistent(s)
  <2>1. ASSUME NEW o \in WaitObject
        PROVE  /\ Distinct(u.wait_list[o])
               /\ Range(u.wait_list[o]) = Range(r.wait_list[o]) \ {timer_task}
    <3> DEFINE q == r.wait_list[o]
    <3>1. q \in Seq(Task) /\ Distinct(q) /\ u.wait_list[o] = Without(q, timer_task)
      BY <1>1, <1>3 DEF KernelState, WaitListsConsistent
    <3> HIDE DEF q
    <3>2. /\ Range(Without(q, timer_task)) = Range(q) \ {timer_task}
          /\ Distinct(Without(q, timer_task))
      BY <3>1, WithoutFacts
    <3> QED
      BY <3>1, <3>2 DEF q
  <2> QED
    BY <1>1, <1>11, <1>12, <2>1 DEF WaitListsConsistent
<1>16. SystemPriorities(s)
  <2>1. UserTask \subseteq Task /\ timer_task \notin UserTask
    BY TasksAssumption DEF Task
  <2> QED
    BY <1>1, <1>11, <1>12, <2>1 DEF SystemPriorities
<1>17. SystemTasks(s)
  BY <1>1, <1>11, <1>12, SystemTasksAreTasks DEF SystemTasks
<1>18. WaitFields(s)
  BY <1>1, <1>11, <1>12 DEF WaitFields
<1>19. s.current_running_task \in Task
  BY <1>1, <1>12 DEF KInv
<1> QED
  BY <1>1, <1>12, <1>13, <1>14, <1>15, <1>16, <1>17, <1>18, <1>19 DEF KInv, s, state

(* The context switch gives the CPU to a task that is RUNNABLE.            *)
LEMMA DispatchNext ==
    ASSUME NEW k, KInv(k)
    PROVE  LET s == [k EXCEPT !.current_running_task = k.next_task_to_run]
           IN  /\ KInv(s)
               /\ s.current_running_task = k.next_task_to_run
               /\ s.task_state = k.task_state
               /\ k.task_state[k.next_task_to_run] = "RUNNABLE"
<1> DEFINE n == k.next_task_to_run
           s == [k EXCEPT !.current_running_task = n]
<1>1. /\ k \in KernelState
      /\ Linked(k)
  BY DEF KInv
<1>2. n \in Runnable(k)
  <2> DEFINE R == Runnable(k)
             rl == k.runnable_tasks_list
             bm == k.priority_ready_to_run_bitmap
             prio == k.priority
  <2>1. /\ R \in SUBSET Task
        /\ ReadyOK(rl, bm, R, prio)
        /\ NextOK(rl, n)
    BY <1>1 DEF Linked, Runnable
  <2> HIDE DEF R, rl, bm, prio, n
  <2> QED
    BY <2>1, NextIsLinked DEF R
<1>3. n \in Task /\ k.task_state[n] = "RUNNABLE"
  BY <1>2 DEF Runnable
<1> HIDE DEF n
<1>4. /\ s \in KernelState
      /\ s.current_running_task = n
      /\ s.runnable_tasks_list = k.runnable_tasks_list
      /\ s.priority_ready_to_run_bitmap = k.priority_ready_to_run_bitmap
      /\ s.waiting_timeout_tasks_list = k.waiting_timeout_tasks_list
      /\ s.wait_list = k.wait_list
      /\ s.next_task_to_run = k.next_task_to_run
      /\ s.task_state = k.task_state
      /\ s.priority = k.priority
      /\ s.wait_queue = k.wait_queue
      /\ s.tick_count = k.tick_count
  BY <1>1, <1>3 DEF KernelState
<1> HIDE DEF s
<1>5. KInv(s)
  <2>1. Runnable(s) = Runnable(k)
    BY <1>4 DEF Runnable
  <2> QED
    BY <1>3, <1>4, <2>1 DEF KInv, Linked, TimersConsistent, WaitListsConsistent,
       SystemPriorities, SystemTasks, WaitFields
<1> QED
  BY <1>3, <1>4, <1>5 DEF s, n

(* Both system tasks are created, and neither is linked yet.               *)
LEMMA SystemTasksCreated ==
    LET low  == NUM_PRIORITY - 1
        both == create_task(create_task(reset_state, timer_task, 0, {"TASK_TIMER"}),
                            idle_task, low, {"TASK_IDLE"})
    IN  /\ both \in KernelState
        /\ \A p \in Priority : both.runnable_tasks_list[p] = <<>>
        /\ both.priority_ready_to_run_bitmap = {}
        /\ both.waiting_timeout_tasks_list = <<>>
        /\ \A o \in WaitObject : both.wait_list[o] = <<>>
        /\ \A t \in Task : /\ both.task_state[t] = IF t \in SystemTask
                                                   THEN "DORMANT" ELSE "NONE"
                           /\ both.wait_queue[t] = NULL
        /\ both.priority[timer_task] = 0
        /\ both.priority[idle_task] = low
        /\ both.tick_count[timer_task] = WAIT_INFINITE
<1> DEFINE low == NUM_PRIORITY - 1
           timer == create_task(reset_state, timer_task, 0, {"TASK_TIMER"})
           both == create_task(timer, idle_task, low, {"TASK_IDLE"})
<1>1. /\ timer_task \in Task
      /\ idle_task \in Task
      /\ timer_task # idle_task
      /\ 0 \in Priority /\ low \in Priority
      /\ SystemTask = {timer_task, idle_task}
      /\ "TASK_START_ON_CREATION" \notin {"TASK_TIMER"}
      /\ "TASK_START_ON_CREATION" \notin {"TASK_IDLE"}
  BY SystemTasksAreTasks DEF SystemTask
<1>2. /\ reset_state \in KernelState
      /\ \A p \in Priority : reset_state.runnable_tasks_list[p] = <<>>
      /\ reset_state.priority_ready_to_run_bitmap = {}
      /\ reset_state.waiting_timeout_tasks_list = <<>>
      /\ \A o \in WaitObject : reset_state.wait_list[o] = <<>>
      /\ \A t \in Task : /\ reset_state.task_state[t] = "NONE"
                         /\ reset_state.wait_queue[t] = NULL
  BY <1>1, SizesAssumption
     DEF reset_state, KernelState, TaskState, WaitReason, ReturnCode
<1> HIDE DEF low
<1>3. /\ timer \in KernelState
      /\ timer.runnable_tasks_list = reset_state.runnable_tasks_list
      /\ timer.priority_ready_to_run_bitmap = reset_state.priority_ready_to_run_bitmap
      /\ timer.waiting_timeout_tasks_list = reset_state.waiting_timeout_tasks_list
      /\ timer.wait_list = reset_state.wait_list
      /\ timer.task_state = [reset_state.task_state EXCEPT ![timer_task] = "DORMANT"]
      /\ timer.priority = [reset_state.priority EXCEPT ![timer_task] = 0]
      /\ timer.wait_queue = [reset_state.wait_queue EXCEPT ![timer_task] = NULL]
      /\ timer.tick_count = [reset_state.tick_count EXCEPT ![timer_task] = WAIT_INFINITE]
  <2>1. reset_state \in KernelState
    BY <1>2
  <2> HIDE DEF reset_state
  <2> QED
    BY <1>1, <2>1, CreateDormant
<1> HIDE DEF timer
<1>4. /\ both \in KernelState
      /\ both.runnable_tasks_list = timer.runnable_tasks_list
      /\ both.priority_ready_to_run_bitmap = timer.priority_ready_to_run_bitmap
      /\ both.waiting_timeout_tasks_list = timer.waiting_timeout_tasks_list
      /\ both.wait_list = timer.wait_list
      /\ both.task_state = [timer.task_state EXCEPT ![idle_task] = "DORMANT"]
      /\ both.priority = [timer.priority EXCEPT ![idle_task] = low]
      /\ both.wait_queue = [timer.wait_queue EXCEPT ![idle_task] = NULL]
      /\ both.tick_count = [timer.tick_count EXCEPT ![idle_task] = WAIT_INFINITE]
  <2>1. timer \in KernelState
    BY <1>3
  <2> QED
    BY <1>1, <2>1, CreateDormant
<1> HIDE DEF both
<1>5. /\ timer.task_state[timer_task] = "DORMANT"
      /\ \A t \in Task : t # timer_task => timer.task_state[t] = "NONE"
      /\ \A t \in Task : timer.wait_queue[t] = NULL
      /\ timer.priority[timer_task] = 0
      /\ timer.tick_count[timer_task] = WAIT_INFINITE
  BY <1>1, <1>2, <1>3 DEF KernelState
<1>5a. /\ timer.task_state \in [Task -> TaskState]
       /\ timer.wait_queue \in [Task -> WaitObject \cup {NULL}]
       /\ timer.priority \in [Task -> Priority]
       /\ timer.tick_count \in [Task -> 0 .. MaxTimeout \cup {WAIT_INFINITE}]
  BY <1>3 DEF KernelState
<1>6. /\ both.task_state[idle_task] = "DORMANT"
      /\ \A t \in Task : t # idle_task => both.task_state[t] = timer.task_state[t]
      /\ \A t \in Task : both.wait_queue[t] = NULL
      /\ both.priority[idle_task] = low
      /\ both.priority[timer_task] = 0
      /\ both.tick_count[timer_task] = WAIT_INFINITE
  BY <1>1, <1>4, <1>5, <1>5a
<1>7. \A t \in Task : both.task_state[t] = IF t \in SystemTask THEN "DORMANT" ELSE "NONE"
  BY <1>1, <1>5, <1>6
<1> QED
  BY <1>2, <1>3, <1>4, <1>6, <1>7 DEF both, timer, low

(* kernel_main leaves both system tasks RUNNABLE and the idle task current. *)
LEMMA KernelMain ==
    /\ KInv(kernel_main)
    /\ kernel_main.current_running_task = idle_task
    /\ \A t \in Task : kernel_main.task_state[t] =
          IF t \in SystemTask THEN "RUNNABLE" ELSE "NONE"
<1> DEFINE low == NUM_PRIORITY - 1
           both == create_task(create_task(reset_state, timer_task, 0, {"TASK_TIMER"}),
                               idle_task, low, {"TASK_IDLE"})
           b == [both EXCEPT !.next_task_to_run = idle_task]
           i == set_task_as_runnable(b, idle_task)
           m == set_task_as_runnable(i, timer_task)
           z == [m EXCEPT !.current_running_task = idle_task]
           prio == both.priority
           rl == [both.runnable_tasks_list EXCEPT ![low] = InsertLast(@, idle_task)]
           ready == [both.task_state EXCEPT ![idle_task] = "RUNNABLE"]
           queues == [both.wait_queue EXCEPT ![idle_task] = NULL]
<1>1. /\ timer_task \in Task
      /\ idle_task \in Task
      /\ timer_task # idle_task
      /\ 0 \in Priority /\ low \in Priority
      /\ SystemTask = {timer_task, idle_task}
      /\ timer_task \notin UserTask
      /\ idle_task \notin UserTask
  BY SystemTasksAreTasks, TasksAssumption DEF SystemTask
<1>2. /\ both \in KernelState
      /\ \A p \in Priority : both.runnable_tasks_list[p] = <<>>
      /\ both.priority_ready_to_run_bitmap = {}
      /\ both.waiting_timeout_tasks_list = <<>>
      /\ \A o \in WaitObject : both.wait_list[o] = <<>>
      /\ \A t \in Task : /\ both.task_state[t] = IF t \in SystemTask
                                                 THEN "DORMANT" ELSE "NONE"
                         /\ both.wait_queue[t] = NULL
      /\ prio[timer_task] = 0
      /\ prio[idle_task] = low
      /\ both.tick_count[timer_task] = WAIT_INFINITE
  BY SystemTasksCreated
<1>3. kernel_main = z
  BY DEF kernel_main
<1> HIDE DEF both, low
<1>4. /\ both.runnable_tasks_list \in [Priority -> Seq(Task)]
      /\ both.runnable_tasks_list[low] = <<>>
      /\ prio \in [Task -> Priority]
      /\ both.task_state \in [Task -> TaskState]
      /\ both.wait_queue \in [Task -> WaitObject \cup {NULL}]
  BY <1>1, <1>2 DEF KernelState
<1>5. /\ InsertLast(<<>>, idle_task) \in Seq(Task)
      /\ InsertLast(<<>>, idle_task) # <<>>
      /\ Head(InsertLast(<<>>, idle_task)) = idle_task
      /\ Range(InsertLast(<<>>, idle_task)) = {idle_task}
      /\ Distinct(InsertLast(<<>>, idle_task))
      /\ Range(<<>>) = {}
      /\ Distinct(<<>>)
  BY <1>1, SingleList, NewList
<1>6. /\ rl \in [Priority -> Seq(Task)]
      /\ rl[low] = InsertLast(<<>>, idle_task)
      /\ \A p \in Priority : p # low => rl[p] = <<>>
  BY <1>1, <1>2, <1>4, <1>5
<1>7. /\ ready \in [Task -> TaskState]
      /\ queues \in [Task -> WaitObject \cup {NULL}]
      /\ ready[idle_task] = "RUNNABLE"
      /\ \A t \in Task : t # idle_task => ready[t] = both.task_state[t]
      /\ \A t \in Task : queues[t] = NULL
  BY <1>1, <1>2, <1>4 DEF TaskState
<1>8. i = [b EXCEPT !.task_state = ready, !.wait_queue = queues,
                    !.runnable_tasks_list = rl,
                    !.priority_ready_to_run_bitmap = {low},
                    !.next_task_to_run = idle_task]
  <2>1. /\ b \in KernelState
        /\ b.task_state = both.task_state
        /\ b.wait_queue = both.wait_queue
        /\ b.runnable_tasks_list = both.runnable_tasks_list
        /\ b.priority_ready_to_run_bitmap = {}
        /\ b.next_task_to_run = idle_task
        /\ b.priority = prio
    BY <1>1, <1>2 DEF KernelState
  <2>2. b.priority[idle_task] = low /\ ~ (low < low)
    BY <1>2, <2>1, SizesAssumption DEF low
  <2> HIDE DEF b, prio
  <2>3. i = [b EXCEPT !.task_state[idle_task] = "RUNNABLE",
                      !.wait_queue[idle_task] = NULL,
                      !.runnable_tasks_list[low] = InsertLast(@, idle_task),
                      !.priority_ready_to_run_bitmap = @ \cup {low},
                      !.next_task_to_run = idle_task]
    BY <2>1, <2>2 DEF set_task_as_runnable, KernelState
  <2> HIDE DEF i
  <2> QED
    BY <2>1, <2>3 DEF KernelState
<1> HIDE DEF i, rl, ready, queues, prio
<1>9. /\ i \in KernelState
      /\ i.runnable_tasks_list = rl
      /\ i.priority_ready_to_run_bitmap = {low}
      /\ i.waiting_timeout_tasks_list = <<>>
      /\ i.wait_list = both.wait_list
      /\ i.task_state = ready
      /\ i.priority = prio
      /\ i.wait_queue = queues
      /\ i.tick_count = both.tick_count
      /\ i.next_task_to_run = idle_task
  BY <1>1, <1>2, <1>6, <1>7, <1>8 DEF KernelState, prio
<1>10. ReadyOK(rl, {low}, {idle_task}, prio)
  BY <1>1, <1>2, <1>5, <1>6 DEF ReadyOK
<1>11. NextOK(rl, idle_task)
  <2>1. low <= low
    BY SizesAssumption DEF low
  <2> QED
    BY <1>1, <1>5, <1>6, <2>1 DEF NextOK
<1>12. /\ m \in KernelState
       /\ ReadyOK(m.runnable_tasks_list, m.priority_ready_to_run_bitmap,
                  {idle_task} \cup {timer_task}, m.priority)
       /\ NextOK(m.runnable_tasks_list, m.next_task_to_run)
       /\ SameTasks(m, i)
       /\ m.wait_list = i.wait_list
       /\ m.task_state = [i.task_state EXCEPT ![timer_task] = "RUNNABLE"]
       /\ m.wait_queue = [i.wait_queue EXCEPT ![timer_task] = NULL]
  <2>1. /\ {idle_task} \in SUBSET Task
        /\ timer_task \notin {idle_task}
        /\ ReadyOK(i.runnable_tasks_list, i.priority_ready_to_run_bitmap,
                   {idle_task}, i.priority)
        /\ NextOK(i.runnable_tasks_list, i.next_task_to_run)
    BY <1>1, <1>9, <1>10, <1>11
  <2> QED
    BY <1>1, <1>9, <2>1, SetRunnable
<1> HIDE DEF m
<1>13. /\ z \in KernelState
       /\ z.current_running_task = idle_task
       /\ z.runnable_tasks_list = m.runnable_tasks_list
       /\ z.priority_ready_to_run_bitmap = m.priority_ready_to_run_bitmap
       /\ z.next_task_to_run = m.next_task_to_run
       /\ z.waiting_timeout_tasks_list = <<>>
       /\ z.wait_list = both.wait_list
       /\ z.priority = prio
       /\ m.priority = prio
       /\ z.tick_count = both.tick_count
       /\ z.task_state = [ready EXCEPT ![timer_task] = "RUNNABLE"]
       /\ z.wait_queue = [queues EXCEPT ![timer_task] = NULL]
  BY <1>1, <1>9, <1>12 DEF KernelState, SameTasks
<1> HIDE DEF z
<1>14. /\ \A t \in Task : z.task_state[t] =
             IF t \in SystemTask THEN "RUNNABLE" ELSE "NONE"
       /\ \A t \in Task : z.wait_queue[t] = NULL
  BY <1>1, <1>2, <1>7, <1>13
<1>15. Linked(z)
  <2>1. Runnable(z) = {idle_task} \cup {timer_task}
    BY <1>1, <1>14 DEF Runnable
  <2> QED
    BY <1>12, <1>13, <2>1 DEF Linked
<1>16. TimersConsistent(z)
  BY <1>5, <1>13, <1>14 DEF TimersConsistent
<1>17. WaitListsConsistent(z)
  BY <1>2, <1>5, <1>13, <1>14 DEF WaitListsConsistent
<1>18. SystemPriorities(z)
  BY <1>1, <1>2, <1>13, <1>14 DEF SystemPriorities, Task, low
<1>19. SystemTasks(z) /\ WaitFields(z)
  BY <1>1, <1>2, <1>13, <1>14 DEF SystemTasks, WaitFields
<1> QED
  BY <1>1, <1>3, <1>13, <1>14, <1>15, <1>16, <1>17, <1>18, <1>19 DEF KInv

-----------------------------------------------------------------------------
(***************************************************************************)
(* What the functions do to the lists and to the tasks: needed where their *)
(* steps are compared with those of an abstract specification.             *)
(***************************************************************************)

(* From k to s, task t has started to wait, in line for object que.        *)
StartsToWait(s, k, t, que, timeout) ==
    /\ s.runnable_tasks_list = [p \in Priority |-> Without(k.runnable_tasks_list[p], t)]
    /\ s.wait_list = [o \in WaitObject |->
          IF o = que THEN InsertLast(k.wait_list[o], t) ELSE k.wait_list[o]]
    /\ s.waiting_timeout_tasks_list =
          IF timeout = WAIT_INFINITE THEN k.waiting_timeout_tasks_list
          ELSE InsertLast(k.waiting_timeout_tasks_list, t)
    /\ s.task_state = [k.task_state EXCEPT ![t] = "WAIT"]
    /\ s.tick_count = [k.tick_count EXCEPT ![t] = timeout]
    /\ s.task_wait_return_code = k.task_wait_return_code
    /\ s.current_running_task = k.current_running_task

(* From k to s, the wait of task t has ended and `code' says how.          *)
EndsItsWait(s, k, t, code) ==
    /\ s.runnable_tasks_list =
          [k.runnable_tasks_list EXCEPT ![k.priority[t]] = InsertLast(@, t)]
    /\ s.wait_list = [o \in WaitObject |-> Without(k.wait_list[o], t)]
    /\ s.waiting_timeout_tasks_list =
          IF k.tick_count[t] = WAIT_INFINITE THEN k.waiting_timeout_tasks_list
          ELSE Without(k.waiting_timeout_tasks_list, t)
    /\ s.task_state = [k.task_state EXCEPT ![t] = "RUNNABLE"]
    /\ s.tick_count = [k.tick_count EXCEPT ![t] = WAIT_INFINITE]
    /\ s.task_wait_return_code = [k.task_wait_return_code EXCEPT ![t] = code]
    /\ s.current_running_task = k.current_running_task

(* The ready list of its priority gets task t as its last element.         *)
LEMMA SetRunnableEffect ==
    ASSUME NEW k \in KernelState, NEW t \in Task
    PROVE  LET s == set_task_as_runnable(k, t)
           IN  /\ s \in KernelState
               /\ s.runnable_tasks_list = [k.runnable_tasks_list EXCEPT
                                              ![k.priority[t]] = InsertLast(@, t)]
               /\ s.task_state = [k.task_state EXCEPT ![t] = "RUNNABLE"]
               /\ s.wait_list = k.wait_list
               /\ SameTasks(s, k)
<1> DEFINE p == k.priority[t]
           n == IF p < k.priority[k.next_task_to_run] THEN t ELSE k.next_task_to_run
           rl == [k.runnable_tasks_list EXCEPT ![p] = InsertLast(@, t)]
           bm == k.priority_ready_to_run_bitmap \cup {p}
           st == [k.task_state EXCEPT ![t] = "RUNNABLE"]
           wq == [k.wait_queue EXCEPT ![t] = NULL]
<1>1. set_task_as_runnable(k, t)
         = [k EXCEPT !.task_state = st, !.wait_queue = wq, !.runnable_tasks_list = rl,
                     !.priority_ready_to_run_bitmap = bm, !.next_task_to_run = n]
  BY DEF set_task_as_runnable, KernelState
<1>3. /\ rl \in [Priority -> Seq(Task)]
      /\ bm \in SUBSET Priority
      /\ n \in Task \cup {NULL, ListHead}
      /\ st \in [Task -> TaskState]
      /\ wq \in [Task -> WaitObject \cup {NULL}]
  <2>1. p \in Priority /\ k.runnable_tasks_list[p] \in Seq(Task)
    BY DEF KernelState
  <2>2. InsertLast(k.runnable_tasks_list[p], t) \in Seq(Task)
    BY <2>1, InsertLastFacts
  <2> QED
    BY <2>1, <2>2 DEF KernelState, TaskState
<1> HIDE DEF n, rl, bm, st, wq
<1>2. LET s == set_task_as_runnable(k, t)
      IN  /\ s \in KernelState
          /\ s.runnable_tasks_list = rl
          /\ s.task_state = st
          /\ s.wait_list = k.wait_list
          /\ SameTasks(s, k)
  BY <1>1, <1>3 DEF KernelState, SameTasks
<1> QED
  BY <1>2 DEF rl, st

(* The end of a wait, as task_wait_complete and the unlinking before it    *)
(* make it.                                                                *)
LEMMA WaitCompleteEffect ==
    ASSUME NEW k \in KernelState, NEW t \in Task,
           \A p \in Priority : t \notin Range(k.runnable_tasks_list[p])
    PROVE  LET s == task_wait_complete(queue_remove_element(k, t), t)
           IN  s \in KernelState /\ EndsItsWait(s, k, t, "ERR_NO_ERROR")
<1> DEFINE r == queue_remove_element(k, t)
           s == task_wait_complete(r, t)
           tl == IF k.tick_count[t] = WAIT_INFINITE
                 THEN k.waiting_timeout_tasks_list
                 ELSE Without(k.waiting_timeout_tasks_list, t)
           ticks == [k.tick_count EXCEPT ![t] = WAIT_INFINITE]
           codes == [k.task_wait_return_code EXCEPT ![t] = "ERR_NO_ERROR"]
           wl == [o \in WaitObject |-> Without(k.wait_list[o], t)]
           c == [r EXCEPT !.waiting_timeout_tasks_list = tl,
                          !.tick_count = ticks,
                          !.task_wait_return_code = codes]
           w == set_task_as_runnable(c, t)
<1>2. /\ r \in KernelState
      /\ r.runnable_tasks_list = k.runnable_tasks_list
      /\ r.wait_list = wl
      /\ r.task_state = k.task_state
      /\ SameTasks(r, k)
  BY RemoveFacts
<1> HIDE DEF r
<1>3. /\ ticks \in [Task -> 0 .. MaxTimeout \cup {WAIT_INFINITE}]
      /\ codes \in [Task -> ReturnCode]
      /\ tl \in Seq(Task)
  <2>1. k.waiting_timeout_tasks_list \in Seq(Task)
    BY DEF KernelState
  <2>2. Without(k.waiting_timeout_tasks_list, t) \in Seq(Task)
    BY <2>1, WithoutFacts
  <2> QED
    BY <2>1, <2>2 DEF KernelState, ReturnCode
<1>4. c = [r EXCEPT !.waiting_timeout_tasks_list =
                        IF r.tick_count[t] = WAIT_INFINITE THEN @ ELSE Without(@, t),
                    !.tick_count[t] = WAIT_INFINITE,
                    !.task_wait_return_code[t] = "ERR_NO_ERROR"]
  BY <1>2 DEF SameTasks
<1>5. s = [w EXCEPT !.task_wait_reason[t] = "NONE"]
  BY <1>4 DEF task_wait_complete
<1> HIDE DEF tl, ticks, codes, wl
<1>6. /\ c \in KernelState
      /\ c.waiting_timeout_tasks_list = tl
      /\ c.tick_count = ticks
      /\ c.task_wait_return_code = codes
      /\ c.runnable_tasks_list = k.runnable_tasks_list
      /\ c.wait_list = wl
      /\ c.task_state = k.task_state
      /\ c.priority = k.priority
      /\ c.current_running_task = k.current_running_task
  BY <1>2, <1>3 DEF KernelState, SameTasks
<1> HIDE DEF c
<1>7. /\ w \in KernelState
      /\ w.runnable_tasks_list = [c.runnable_tasks_list EXCEPT
                                     ![c.priority[t]] = InsertLast(@, t)]
      /\ w.task_state = [c.task_state EXCEPT ![t] = "RUNNABLE"]
      /\ w.wait_list = c.wait_list
      /\ SameTasks(w, c)
  BY <1>6, SetRunnableEffect
<1> DEFINE reasons == [w.task_wait_reason EXCEPT ![t] = "NONE"]
<1>8. s = [w EXCEPT !.task_wait_reason = reasons] /\ reasons \in [Task -> WaitReason]
  <2> HIDE DEF w, s
  <2> QED
    BY <1>5, <1>7 DEF KernelState, WaitReason
<1> HIDE DEF s, w, reasons
<1>9. /\ s \in KernelState
      /\ s.runnable_tasks_list = w.runnable_tasks_list
      /\ s.task_state = w.task_state
      /\ s.wait_list = w.wait_list
      /\ s.waiting_timeout_tasks_list = w.waiting_timeout_tasks_list
      /\ s.tick_count = w.tick_count
      /\ s.task_wait_return_code = w.task_wait_return_code
      /\ s.current_running_task = w.current_running_task
  BY <1>7, <1>8 DEF KernelState
<1>10. EndsItsWait(s, k, t, "ERR_NO_ERROR")
  BY <1>6, <1>7, <1>9 DEF EndsItsWait, SameTasks, tl, ticks, codes, wl
<1> QED
  BY <1>9, <1>10 DEF s, r

(* The running task stands in no ready list any more, last in line for the *)
(* object it waits for and last in the list of timeouts.                   *)
LEMMA CurrToWaitEffect ==
    ASSUME NEW k, KInv(k),
           NEW t \in Task, t = k.current_running_task,
           k.task_state[t] = "RUNNABLE", t # idle_task,
           NEW que, NEW reason, NEW timeout
    PROVE  StartsToWait(task_curr_to_wait_action(k, que, reason, timeout),
                        k, t, que, timeout)
<1> DEFINE q == queue_remove_element(k, t)
           u == task_to_non_runnable(k, t)
           s == task_curr_to_wait_action(k, que, reason, timeout)
<1>1. /\ k \in KernelState
      /\ u \in KernelState
      /\ SameTasks(u, k)
      /\ u.task_state = k.task_state
      /\ u.wait_list = k.wait_list
  BY ToNonRunnable DEF KInv
<1>2. u.runnable_tasks_list = [p \in Priority |-> Without(k.runnable_tasks_list[p], t)]
  <2> DEFINE p0 == k.priority[t]
             list == q.runnable_tasks_list[p0]
             v == [q EXCEPT !.priority_ready_to_run_bitmap = @ \ {p0}]
  <2>1. /\ q \in KernelState
        /\ q.runnable_tasks_list = [p \in Priority |-> Without(k.runnable_tasks_list[p], t)]
    BY <1>1, RemoveFacts
  <2>2. u = IF list = <<>> THEN find_next_task_to_run(v)
            ELSE [q EXCEPT !.next_task_to_run = IF @ = t THEN Head(list) ELSE @]
    BY DEF task_to_non_runnable
  <2> HIDE DEF u, q, list
  <2>3. v.runnable_tasks_list = q.runnable_tasks_list
    BY <2>1 DEF KernelState
  <2>4. \E n : find_next_task_to_run(v) = [v EXCEPT !.next_task_to_run = n]
    BY DEF find_next_task_to_run
  <2> HIDE DEF v
  <2>5. u.runnable_tasks_list = q.runnable_tasks_list
    BY <2>1, <2>2, <2>3, <2>4 DEF KernelState
  <2> QED
    BY <2>1, <2>5
<1> DEFINE wq == [u.wait_queue EXCEPT ![t] = IF que = NULL THEN @ ELSE que]
           wl == [o \in WaitObject |->
                     IF o = que THEN InsertLast(u.wait_list[o], t) ELSE u.wait_list[o]]
           tl == IF timeout = WAIT_INFINITE THEN u.waiting_timeout_tasks_list
                 ELSE InsertLast(u.waiting_timeout_tasks_list, t)
           state == [u.task_state EXCEPT ![t] = "WAIT"]
           reasons == [u.task_wait_reason EXCEPT ![t] = reason]
           ticks == [u.tick_count EXCEPT ![t] = timeout]
<1>3. s = [u EXCEPT !.task_state = state, !.task_wait_reason = reasons,
                    !.tick_count = ticks, !.wait_queue = wq, !.wait_list = wl,
                    !.waiting_timeout_tasks_list = tl]
  <2>1. s = [u EXCEPT !.task_state[t] = "WAIT", !.task_wait_reason[t] = reason,
                      !.tick_count[t] = timeout, !.wait_queue = wq,
                      !.wait_list = wl, !.waiting_timeout_tasks_list = tl]
    BY DEF task_curr_to_wait_action
  <2> HIDE DEF s, u, wq, wl, tl
  <2> QED
    BY <1>1, <2>1 DEF KernelState
<1> HIDE DEF s, u, wq, wl, tl, state, reasons, ticks
<1>4. /\ s.runnable_tasks_list = u.runnable_tasks_list
      /\ s.wait_list = wl
      /\ s.waiting_timeout_tasks_list = tl
      /\ s.task_state = state
      /\ s.tick_count = ticks
      /\ s.task_wait_return_code = u.task_wait_return_code
      /\ s.current_running_task = u.current_running_task
  BY <1>1, <1>3 DEF KernelState
<1>5. StartsToWait(s, k, t, que, timeout)
  BY <1>1, <1>2, <1>4 DEF StartsToWait, SameTasks, wl, tl, state, ticks
<1> QED
  BY <1>5 DEF s

(* A visit of the scan takes a tick away, and at the last one ends the     *)
(* wait.                                                                   *)
LEMMA TimerVisitEffect ==
    ASSUME NEW k, KInv(k),
           NEW t \in Task, k.task_state[t] = "WAIT", k.tick_count[t] \in Timeout
    PROVE  LET s == timer_visit(k, t)
           IN  IF k.tick_count[t] > 1
               THEN s = [k EXCEPT !.tick_count[t] = @ - 1]
               ELSE EndsItsWait(s, k, t, "ERR_TIMEOUT")
<1> DEFINE s == timer_visit(k, t)
           ticked == [k EXCEPT !.tick_count[t] = @ - 1]
           w == task_wait_complete(queue_remove_element(ticked, t), t)
<1>1. /\ k \in KernelState
      /\ k.tick_count[t] \in Int
      /\ k.tick_count[t] > 0
      /\ k.tick_count[t] # WAIT_INFINITE
      /\ k.tick_count[t] - 1 \in 0 .. MaxTimeout
  BY SizesAssumption, SystemTasksAreTasks DEF KInv, Timeout
<1>2. CASE k.tick_count[t] > 1
  BY <1>1, <1>2 DEF timer_visit
<1>3. CASE ~(k.tick_count[t] > 1)
  <2>1. s = [w EXCEPT !.task_wait_return_code[t] = "ERR_TIMEOUT"]
    BY <1>1, <1>3 DEF timer_visit
  <2>2. /\ ticked \in KernelState
        /\ ticked.tick_count = [k.tick_count EXCEPT ![t] = @ - 1]
        /\ ticked.runnable_tasks_list = k.runnable_tasks_list
        /\ ticked.wait_list = k.wait_list
        /\ ticked.waiting_timeout_tasks_list = k.waiting_timeout_tasks_list
        /\ ticked.task_state = k.task_state
        /\ ticked.priority = k.priority
        /\ ticked.task_wait_return_code = k.task_wait_return_code
        /\ ticked.current_running_task = k.current_running_task
    BY <1>1 DEF KernelState
  <2>3. /\ [ticked.tick_count EXCEPT ![t] = WAIT_INFINITE]
              = [k.tick_count EXCEPT ![t] = WAIT_INFINITE]
        /\ ticked.tick_count[t] # WAIT_INFINITE
    BY <1>1, <2>2, SizesAssumption DEF KernelState
  <2>4. \A p \in Priority : t \notin Range(k.runnable_tasks_list[p])
    BY DEF KInv, Linked, ReadyOK, Runnable
  <2> HIDE DEF ticked
  <2>5. w \in KernelState /\ EndsItsWait(w, ticked, t, "ERR_NO_ERROR")
    BY <2>2, <2>4, WaitCompleteEffect
  <2> HIDE DEF s, w
  <2>6. /\ s.runnable_tasks_list = w.runnable_tasks_list
        /\ s.wait_list = w.wait_list
        /\ s.waiting_timeout_tasks_list = w.waiting_timeout_tasks_list
        /\ s.task_state = w.task_state
        /\ s.tick_count = w.tick_count
        /\ s.current_running_task = w.current_running_task
    BY <2>1
  <2>7. s.task_wait_return_code = [k.task_wait_return_code EXCEPT ![t] = "ERR_TIMEOUT"]
    <3>1. s.task_wait_return_code = [w.task_wait_return_code EXCEPT ![t] = "ERR_TIMEOUT"]
      BY <2>1, <2>5 DEF KernelState
    <3>2. w.task_wait_return_code = [k.task_wait_return_code EXCEPT ![t] = "ERR_NO_ERROR"]
      BY <2>2, <2>5 DEF EndsItsWait
    <3> QED
      BY <1>1, <3>1, <3>2 DEF KernelState
  <2>8. EndsItsWait(s, k, t, "ERR_TIMEOUT")
    BY <1>1, <2>2, <2>3, <2>5, <2>6, <2>7 DEF EndsItsWait
  <2> QED
    BY <1>3, <2>8 DEF s
<1> QED
  BY <1>2, <1>3

(* The end of the wait of a task, with or without a timeout that still     *)
(* runs: it leaves both lists it may be in and becomes RUNNABLE.           *)
LEMMA WaitComplete ==
    ASSUME NEW K, KInv(K), NEW t \in Task, K.task_state[t] = "WAIT"
    PROVE  LET s == task_wait_complete(queue_remove_element(K, t), t)
           IN  /\ KInv(s)
               /\ s.current_running_task = K.current_running_task
               /\ s.task_state = [K.task_state EXCEPT ![t] = "RUNNABLE"]
<1> DEFINE r == queue_remove_element(K, t)
           s == task_wait_complete(r, t)
           tl == IF K.tick_count[t] = WAIT_INFINITE
                 THEN K.waiting_timeout_tasks_list
                 ELSE Without(K.waiting_timeout_tasks_list, t)
           ticks == [K.tick_count EXCEPT ![t] = WAIT_INFINITE]
           codes == [K.task_wait_return_code EXCEPT ![t] = "ERR_NO_ERROR"]
           c == [r EXCEPT !.waiting_timeout_tasks_list = tl,
                          !.tick_count = ticks,
                          !.task_wait_return_code = codes]
           w == set_task_as_runnable(c, t)
           state == [K.task_state EXCEPT ![t] = "RUNNABLE"]
           queues == [K.wait_queue EXCEPT ![t] = NULL]
           wl == [o \in WaitObject |-> Without(K.wait_list[o], t)]
           reasons == [K.task_wait_reason EXCEPT ![t] = "NONE"]
<1>1. /\ K \in KernelState
      /\ K.tick_count[t] \in Timeout \cup {WAIT_INFINITE}
      /\ t # idle_task
      /\ \A p \in Priority : t \notin Range(K.runnable_tasks_list[p])
  BY DEF KInv, SystemTasks, WaitFields, Linked, ReadyOK, Runnable
<1>2. /\ r \in KernelState
      /\ r.runnable_tasks_list = K.runnable_tasks_list
      /\ r.wait_list = wl
      /\ r.priority_ready_to_run_bitmap = K.priority_ready_to_run_bitmap
      /\ r.next_task_to_run = K.next_task_to_run
      /\ r.task_state = K.task_state
      /\ r.wait_queue = K.wait_queue
      /\ SameTasks(r, K)
  BY <1>1, RemoveFacts
<1> HIDE DEF r
<1>3. /\ tl \in Seq(Task)
      /\ Range(tl) = Range(K.waiting_timeout_tasks_list) \ {t}
      /\ Distinct(tl)
  <2> DEFINE q == K.waiting_timeout_tasks_list
  <2>1. q \in Seq(Task) /\ Distinct(q)
        /\ (K.tick_count[t] = WAIT_INFINITE => t \notin Range(q))
    BY <1>1, SystemTasksAreTasks DEF KInv, KernelState, TimersConsistent
  <2> HIDE DEF q
  <2>2. /\ Without(q, t) \in Seq(Task)
        /\ Range(Without(q, t)) = Range(q) \ {t}
        /\ Distinct(Without(q, t))
    BY <2>1, WithoutFacts
  <2> QED
    BY <2>1, <2>2 DEF q
<1>4. c = [r EXCEPT !.waiting_timeout_tasks_list =
                        IF r.tick_count[t] = WAIT_INFINITE THEN @ ELSE Without(@, t),
                    !.tick_count[t] = WAIT_INFINITE,
                    !.task_wait_return_code[t] = "ERR_NO_ERROR"]
  BY <1>2 DEF SameTasks
<1>5. /\ ticks \in [Task -> 0 .. MaxTimeout \cup {WAIT_INFINITE}]
      /\ codes \in [Task -> ReturnCode]
      /\ reasons \in [Task -> WaitReason]
  BY <1>1 DEF KernelState, ReturnCode, WaitReason
<1>6. /\ c \in KernelState
      /\ c.waiting_timeout_tasks_list = tl
      /\ c.tick_count = ticks
      /\ c.runnable_tasks_list = K.runnable_tasks_list
      /\ c.wait_list = wl
      /\ c.priority_ready_to_run_bitmap = K.priority_ready_to_run_bitmap
      /\ c.next_task_to_run = K.next_task_to_run
      /\ c.task_state = K.task_state
      /\ c.wait_queue = K.wait_queue
      /\ c.priority = K.priority
      /\ c.current_running_task = K.current_running_task
      /\ c.task_wait_reason = K.task_wait_reason
  <2> HIDE DEF ticks, codes, tl, wl
  <2> QED
    BY <1>2, <1>3, <1>5 DEF KernelState, SameTasks
<1>7. /\ Runnable(K) \in SUBSET Task
      /\ t \notin Runnable(K)
      /\ ReadyOK(c.runnable_tasks_list, c.priority_ready_to_run_bitmap,
                 Runnable(K), c.priority)
      /\ NextOK(c.runnable_tasks_list, c.next_task_to_run)
  BY <1>6 DEF KInv, Linked, Runnable
<1> HIDE DEF c
<1>8. /\ w \in KernelState
      /\ ReadyOK(w.runnable_tasks_list, w.priority_ready_to_run_bitmap,
                 Runnable(K) \cup {t}, w.priority)
      /\ NextOK(w.runnable_tasks_list, w.next_task_to_run)
      /\ SameTasks(w, c)
      /\ w.wait_list = wl
      /\ w.task_state = state
      /\ w.wait_queue = queues
  <2> HIDE DEF wl, state, queues
  <2>1. /\ w \in KernelState
        /\ ReadyOK(w.runnable_tasks_list, w.priority_ready_to_run_bitmap,
                   Runnable(K) \cup {t}, w.priority)
        /\ NextOK(w.runnable_tasks_list, w.next_task_to_run)
        /\ SameTasks(w, c)
        /\ w.wait_list = c.wait_list
        /\ w.task_state = [c.task_state EXCEPT ![t] = "RUNNABLE"]
        /\ w.wait_queue = [c.wait_queue EXCEPT ![t] = NULL]
    BY <1>6, <1>7, SetRunnable
  <2> QED
    BY <1>6, <2>1 DEF state, queues
<1>9. s = [w EXCEPT !.task_wait_reason = reasons]
  <2>1. s = [w EXCEPT !.task_wait_reason[t] = "NONE"]
    BY <1>4 DEF task_wait_complete
  <2>2. w.task_wait_reason = K.task_wait_reason
    BY <1>6, <1>8 DEF SameTasks
  <2> HIDE DEF s, w
  <2> QED
    BY <2>1, <2>2
<1>10. /\ state[t] = "RUNNABLE" /\ ticks[t] = WAIT_INFINITE /\ queues[t] = NULL
       /\ \A x \in Task : x # t => /\ state[x] = K.task_state[x]
                                  /\ ticks[x] = K.tick_count[x]
                                  /\ queues[x] = K.wait_queue[x]
  BY <1>1 DEF KernelState
<1>11. \A o \in WaitObject : /\ Range(wl[o]) = Range(K.wait_list[o]) \ {t}
                             /\ Distinct(wl[o])
  <2>1. ASSUME NEW o \in WaitObject
        PROVE  /\ Range(Without(K.wait_list[o], t)) = Range(K.wait_list[o]) \ {t}
               /\ Distinct(Without(K.wait_list[o], t))
    <3>1. K.wait_list[o] \in Seq(Task) /\ Distinct(K.wait_list[o])
      BY <1>1 DEF KInv, KernelState, WaitListsConsistent
    <3> QED
      BY <3>1, WithoutFacts
  <2> QED
    BY <2>1
<1> HIDE DEF s, w, tl, ticks, codes, state, queues, wl, reasons
<1>12. /\ s \in KernelState
       /\ s.waiting_timeout_tasks_list = tl
       /\ s.tick_count = ticks
       /\ s.task_state = state
       /\ s.wait_queue = queues
       /\ s.wait_list = wl
       /\ s.runnable_tasks_list = w.runnable_tasks_list
       /\ s.priority_ready_to_run_bitmap = w.priority_ready_to_run_bitmap
       /\ s.next_task_to_run = w.next_task_to_run
       /\ s.priority = K.priority
       /\ w.priority = K.priority
       /\ s.current_running_task = K.current_running_task
  BY <1>5, <1>6, <1>8, <1>9 DEF KernelState, SameTasks
<1>13. Linked(s)
  <2>1. Runnable(s) = Runnable(K) \cup {t}
    BY <1>10, <1>12 DEF Runnable
  <2> QED
    BY <1>8, <1>12, <2>1 DEF Linked
<1>14. TimersConsistent(s)
  BY <1>3, <1>10, <1>12 DEF KInv, TimersConsistent
<1>15. WaitListsConsistent(s)
  BY <1>10, <1>11, <1>12 DEF KInv, WaitListsConsistent
<1>16. SystemPriorities(s)
  <2>1. UserTask \subseteq Task
    BY DEF Task
  <2> QED
    BY <1>10, <1>12, <2>1 DEF KInv, SystemPriorities
<1>17. SystemTasks(s)
  BY <1>1, <1>10, <1>12, SystemTasksAreTasks DEF KInv, SystemTasks
<1>18. WaitFields(s)
  BY <1>10, <1>12 DEF KInv, WaitFields
<1> QED
  BY <1>12, <1>13, <1>14, <1>15, <1>16, <1>17, <1>18 DEF KInv, s, state, r

(* The first task in a wait queue waits.                                   *)
LEMMA FirstWaits ==
    ASSUME NEW K, KInv(K), NEW s \in WaitObject, K.wait_list[s] # <<>>
    PROVE  Head(K.wait_list[s]) \in Task /\ K.task_state[Head(K.wait_list[s])] = "WAIT"
<1> DEFINE q == K.wait_list[s]
<1>1. q \in Seq(Task) /\ q # <<>>
  BY DEF KInv, KernelState
<1>2. Head(q) \in Task /\ Head(q) = q[1] /\ 1 \in 1 .. Len(q)
  BY <1>1
<1>3. Head(q) \in Range(q)
  BY <1>2 DEF Range
<1> QED
  BY <1>2, <1>3 DEF KInv, WaitListsConsistent

(* What a wait returns is no part of the kernel's consistency.             *)
LEMMA ReturnCodeIsFree ==
    ASSUME NEW K, KInv(K), NEW t \in Task, NEW code \in ReturnCode
    PROVE  LET s == [K EXCEPT !.task_wait_return_code[t] = code]
           IN  /\ KInv(s)
               /\ s.current_running_task = K.current_running_task
               /\ s.task_state = K.task_state
<1> DEFINE codes == [K.task_wait_return_code EXCEPT ![t] = code]
           s == [K EXCEPT !.task_wait_return_code = codes]
<1>1. K \in KernelState /\ codes \in [Task -> ReturnCode]
  BY DEF KInv, KernelState
<1> HIDE DEF codes
<1>2. /\ s \in KernelState
      /\ s.runnable_tasks_list = K.runnable_tasks_list
      /\ s.priority_ready_to_run_bitmap = K.priority_ready_to_run_bitmap
      /\ s.waiting_timeout_tasks_list = K.waiting_timeout_tasks_list
      /\ s.wait_list = K.wait_list
      /\ s.current_running_task = K.current_running_task
      /\ s.next_task_to_run = K.next_task_to_run
      /\ s.task_state = K.task_state
      /\ s.priority = K.priority
      /\ s.wait_queue = K.wait_queue
      /\ s.tick_count = K.tick_count
  BY <1>1 DEF KernelState
<1> HIDE DEF s
<1>3. KInv(s)
  BY <1>2 DEF KInv, Linked, Runnable, TimersConsistent, WaitListsConsistent,
              SystemPriorities, SystemTasks, WaitFields
<1> QED
  BY <1>2, <1>3 DEF s, codes

(* From k to s, task t has been created; if it is started at once, it      *)
(* stands last in the line of its priority.                                *)
Creates(s, k, t, p, start) ==
    /\ s.runnable_tasks_list =
          IF start THEN [k.runnable_tasks_list EXCEPT ![p] = InsertLast(@, t)]
          ELSE k.runnable_tasks_list
    /\ s.wait_list = k.wait_list
    /\ s.waiting_timeout_tasks_list = k.waiting_timeout_tasks_list
    /\ s.task_state = [k.task_state EXCEPT
                          ![t] = IF start THEN "RUNNABLE" ELSE "DORMANT"]
    /\ s.tick_count = [k.tick_count EXCEPT ![t] = WAIT_INFINITE]
    /\ s.task_wait_return_code = [k.task_wait_return_code EXCEPT ![t] = "ERR_NO_ERROR"]
    /\ s.current_running_task = k.current_running_task

LEMMA CreateTaskEffect ==
    ASSUME NEW k \in KernelState, NEW t \in Task, NEW p \in Priority, NEW option
    PROVE  Creates(create_task(k, t, p, option), k, t, p,
                   "TASK_START_ON_CREATION" \in option)
<1> DEFINE s == create_task(k, t, p, option)
           d == create_task(k, t, p, {})
           start == "TASK_START_ON_CREATION" \in option
<1>0. k \in KernelState /\ t \in Task /\ p \in Priority
  OBVIOUS
<1>1. /\ d \in KernelState
      /\ d.task_state = [k.task_state EXCEPT ![t] = "DORMANT"]
      /\ d.priority = [k.priority EXCEPT ![t] = p]
      /\ d.tick_count = [k.tick_count EXCEPT ![t] = WAIT_INFINITE]
      /\ d.runnable_tasks_list = k.runnable_tasks_list
      /\ d.wait_list = k.wait_list
      /\ d.waiting_timeout_tasks_list = k.waiting_timeout_tasks_list
      /\ d.current_running_task = k.current_running_task
  <2> DEFINE state == [k.task_state EXCEPT ![t] = "DORMANT"]
             prio == [k.priority EXCEPT ![t] = p]
             queues == [k.wait_queue EXCEPT ![t] = NULL]
             ticks == [k.tick_count EXCEPT ![t] = WAIT_INFINITE]
  <2> HIDE DEF state, prio, queues, ticks
  <2>1. /\ d \in KernelState
        /\ d.task_state = state
        /\ d.priority = prio
        /\ d.wait_queue = queues
        /\ d.tick_count = ticks
        /\ d.runnable_tasks_list = k.runnable_tasks_list
        /\ d.priority_ready_to_run_bitmap = k.priority_ready_to_run_bitmap
        /\ d.next_task_to_run = k.next_task_to_run
        /\ d.current_running_task = k.current_running_task
        /\ d.waiting_timeout_tasks_list = k.waiting_timeout_tasks_list
        /\ d.wait_list = k.wait_list
    BY <1>0, CreateDormant DEF state, prio, queues, ticks
  <2> QED
    BY <2>1 DEF state, prio, queues, ticks
<1>1a. d.task_wait_return_code = [k.task_wait_return_code EXCEPT ![t] = "ERR_NO_ERROR"]
  BY <1>0, CreateDormantCode
<1>2. /\ d.priority[t] = p
      /\ [d.task_state EXCEPT ![t] = "RUNNABLE"] = [k.task_state EXCEPT ![t] = "RUNNABLE"]
  BY <1>1 DEF KernelState
<1>3. s = IF start THEN set_task_as_runnable(d, t) ELSE d
  BY DEF create_task
<1> HIDE DEF d, s, start
<1>4. CASE start
  <2> DEFINE w == set_task_as_runnable(d, t)
  <2>1. /\ w.runnable_tasks_list = [d.runnable_tasks_list EXCEPT
                                       ![d.priority[t]] = InsertLast(@, t)]
        /\ w.task_state = [d.task_state EXCEPT ![t] = "RUNNABLE"]
        /\ w.wait_list = d.wait_list
        /\ SameTasks(w, d)
    BY <1>1, SetRunnableEffect
  <2>2. s = w
    BY <1>3, <1>4
  <2> HIDE DEF w
  <2> QED
    BY <1>1, <1>1a, <1>2, <1>4, <2>1, <2>2 DEF SameTasks, Creates, s, start
<1>5. CASE ~ start
  <2>1. s = d
    BY <1>3, <1>5
  <2> QED
    BY <1>1, <1>1a, <1>5, <2>1 DEF Creates, s, start
<1> QED
  BY <1>4, <1>5

(* The ready lists before and after a round robin.                         *)
Turned(rl, lists) ==
    \/ rl = lists
    \/ \E p \in Priority : lists[p] # <<>> /\ rl = [lists EXCEPT ![p] = HeadToTail(@)]

LEMMA RoundRobinEffect ==
    ASSUME NEW k, KInv(k)
    PROVE  LET r == round_robin(k)
           IN  /\ Turned(r.runnable_tasks_list, k.runnable_tasks_list)
               /\ r.wait_list = k.wait_list
               /\ r.waiting_timeout_tasks_list = k.waiting_timeout_tasks_list
               /\ r.task_state = k.task_state
               /\ r.tick_count = k.tick_count
               /\ r.priority = k.priority
               /\ r.task_wait_return_code = k.task_wait_return_code
               /\ r.current_running_task = k.current_running_task
<1> DEFINE r == round_robin(k)
           t == k.current_running_task
           p == k.priority[t]
           list == k.runnable_tasks_list[p]
           turned == [k.runnable_tasks_list EXCEPT ![p] = HeadToTail(@)]
<1>1. k \in KernelState /\ t \in Task /\ p \in Priority /\ list \in Seq(Task)
  BY DEF KInv, KernelState
<1>2. \E slices, rl :
         /\ Turned(rl, k.runnable_tasks_list)
         /\ r = [k EXCEPT !.time_slice_count = slices, !.runnable_tasks_list = rl]
  <2> DEFINE ticks == k.time_slice_count[t] + 1
  <2>1. CASE time_slice_ticks[p] = NO_TIME_SLICE
    <3>1. r = k
      BY <2>1 DEF round_robin
    <3>2. k = [k EXCEPT !.time_slice_count = k.time_slice_count,
                        !.runnable_tasks_list = k.runnable_tasks_list]
      BY <1>1 DEF KernelState
    <3> QED
      BY <3>1, <3>2 DEF Turned
  <2>2. CASE time_slice_ticks[p] # NO_TIME_SLICE /\ ticks <= time_slice_ticks[p]
    <3>1. r = [k EXCEPT !.time_slice_count[t] = ticks]
      BY <2>2 DEF round_robin
    <3>2. r = [k EXCEPT !.time_slice_count = [@ EXCEPT ![t] = ticks],
                        !.runnable_tasks_list = k.runnable_tasks_list]
      BY <1>1, <3>1 DEF KernelState
    <3> QED
      BY <3>2 DEF Turned
  <2>3. CASE time_slice_ticks[p] # NO_TIME_SLICE /\ ~(ticks <= time_slice_ticks[p])
    <3> DEFINE rl == IF Len(list) > 1 THEN turned ELSE k.runnable_tasks_list
               slices == [k.time_slice_count EXCEPT ![t] = 0]
    <3>1. r = [k EXCEPT !.time_slice_count = slices, !.runnable_tasks_list = rl]
      BY <1>1, <2>3 DEF round_robin, KernelState
    <3>2. Len(list) > 1 => list # <<>>
      BY <1>1
    <3>3. Turned(rl, k.runnable_tasks_list)
      BY <1>1, <3>2 DEF Turned
    <3> HIDE DEF rl, slices, r
    <3> QED
      BY <3>1, <3>3
  <2> QED
    BY <2>1, <2>2, <2>3
<1>3. PICK slices, rl :
         /\ Turned(rl, k.runnable_tasks_list)
         /\ r = [k EXCEPT !.time_slice_count = slices, !.runnable_tasks_list = rl]
  BY <1>2
<1> HIDE DEF r
<1>4. /\ r.runnable_tasks_list = rl
      /\ r.wait_list = k.wait_list
      /\ r.waiting_timeout_tasks_list = k.waiting_timeout_tasks_list
      /\ r.task_state = k.task_state
      /\ r.tick_count = k.tick_count
      /\ r.priority = k.priority
      /\ r.task_wait_return_code = k.task_wait_return_code
      /\ r.current_running_task = k.current_running_task
  BY <1>1, <1>3 DEF KernelState
<1> QED
  BY <1>3, <1>4 DEF r

(* The tick puts the timer task in its line, and is the only step that     *)
(* turns a line.                                                           *)
LEMMA TickEffect ==
    ASSUME NEW k, KInv(k)
    PROVE  LET s == tick_int_processing(k)
           IN  /\ \E rl \in [Priority -> Seq(Task)] :
                     /\ Turned(rl, k.runnable_tasks_list)
                     /\ s.runnable_tasks_list = [p \in Priority |->
                           IF p = 0 THEN InsertLast(Without(rl[0], timer_task), timer_task)
                           ELSE rl[p]]
               /\ s.wait_list = [o \in WaitObject |-> Without(k.wait_list[o], timer_task)]
               /\ s.waiting_timeout_tasks_list = k.waiting_timeout_tasks_list
               /\ s.tick_count = k.tick_count
               /\ s.task_state = [k.task_state EXCEPT ![timer_task] = "RUNNABLE"]
               /\ s.task_wait_return_code =
                     [k.task_wait_return_code EXCEPT ![timer_task] = "ERR_NO_ERROR"]
<1> DEFINE r == round_robin(k)
           u == queue_remove_element(r, timer_task)
           s == tick_int_processing(k)
<1>1. /\ r \in KernelState
      /\ ReadyOK(r.runnable_tasks_list, r.priority_ready_to_run_bitmap,
                 Runnable(r), r.priority)
      /\ SystemPriorities(r)
  BY RoundRobin
<1>2. /\ Turned(r.runnable_tasks_list, k.runnable_tasks_list)
      /\ r.wait_list = k.wait_list
      /\ r.waiting_timeout_tasks_list = k.waiting_timeout_tasks_list
      /\ r.tick_count = k.tick_count
      /\ r.task_state = k.task_state
      /\ r.task_wait_return_code = k.task_wait_return_code
  BY RoundRobinEffect
<1> HIDE DEF r
<1>3. /\ u \in KernelState
      /\ u.runnable_tasks_list =
            [p \in Priority |-> Without(r.runnable_tasks_list[p], timer_task)]
      /\ u.wait_list = [o \in WaitObject |-> Without(r.wait_list[o], timer_task)]
      /\ SameTasks(u, r)
      /\ u.task_state = r.task_state
  BY <1>1, SystemTasksAreTasks, RemoveFacts
<1>4. s = wake_timer_task(r)
  BY DEF tick_int_processing, r
<1> DEFINE rl == [u.runnable_tasks_list EXCEPT ![0] = InsertLast(@, timer_task)]
           codes == [u.task_wait_return_code EXCEPT ![timer_task] = "ERR_NO_ERROR"]
           state == [u.task_state EXCEPT ![timer_task] = "RUNNABLE"]
<1>5. /\ s.runnable_tasks_list = rl
      /\ s.task_wait_return_code = codes
      /\ s.task_state = state
      /\ s.wait_list = u.wait_list
      /\ s.waiting_timeout_tasks_list = u.waiting_timeout_tasks_list
      /\ s.tick_count = u.tick_count
  <2> DEFINE reasons == [u.task_wait_reason EXCEPT ![timer_task] = "NONE"]
             queues == [u.wait_queue EXCEPT ![timer_task] = NULL]
             bm == u.priority_ready_to_run_bitmap \cup {0}
  <2> HIDE DEF s
  <2>1. u = queue_remove_element(r, timer_task)
    OBVIOUS
  <2> HIDE DEF u
  <2>2. s = [u EXCEPT !.task_wait_reason = reasons, !.task_state = state,
                      !.wait_queue = queues, !.task_wait_return_code = codes,
                      !.runnable_tasks_list = rl,
                      !.priority_ready_to_run_bitmap = bm,
                      !.next_task_to_run = timer_task]
    BY <1>3, <1>4, <2>1 DEF wake_timer_task, KernelState
  <2> HIDE DEF reasons, state, queues, bm, rl, codes
  <2> QED
    BY <1>3, <2>2 DEF KernelState
<1>6. ASSUME NEW p \in Priority, p # 0
      PROVE  u.runnable_tasks_list[p] = r.runnable_tasks_list[p]
  <2>1. timer_task \notin Range(r.runnable_tasks_list[p])
    BY <1>1, <1>6 DEF ReadyOK, SystemPriorities
  <2> QED
    BY <1>3, <2>1 DEF Without
<1>7. s.runnable_tasks_list = [p \in Priority |->
         IF p = 0 THEN InsertLast(Without(r.runnable_tasks_list[0], timer_task), timer_task)
         ELSE r.runnable_tasks_list[p]]
  <2> DEFINE lists == [p \in Priority |-> IF p = 0
                THEN InsertLast(Without(r.runnable_tasks_list[0], timer_task), timer_task)
                ELSE r.runnable_tasks_list[p]]
  <2>1. \A p \in Priority : rl[p] = lists[p]
    BY <1>3, <1>6, SystemTasksAreTasks
  <2>2. DOMAIN rl = Priority
    BY <1>3
  <2> QED
    BY <1>3, <1>5, <2>1
<1>8. r.runnable_tasks_list \in [Priority -> Seq(Task)]
  BY <1>1 DEF KernelState
<1> QED
  BY <1>2, <1>3, <1>5, <1>7, <1>8 DEF SameTasks, s
=============================================================================
