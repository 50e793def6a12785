----------------------------- MODULE ShellProofs -----------------------------
(***************************************************************************)
(* The keyboard's ring and the shell's line, for a ring, a command buffer  *)
(* and a table of any size, and typing that gets ahead as far as it likes; *)
(* and the files Petit FatFs finds and reads on a mounted volume, for any  *)
(* volume, sound or not, and reads of any lengths.                         *)
(***************************************************************************)
EXTENDS Shell, FatFiles, WellFoundedInduction, TLAPS

-----------------------------------------------------------------------------
(* Remainders.                                                             *)

LEMMA RemainderIs ==
    ASSUME NEW n \in Nat, n > 0, NEW q \in Nat, NEW r \in 0 .. n - 1
    PROVE  (n * q + r) % n = r
OBVIOUS

LEMMA RemainderNext ==
    ASSUME NEW n \in Nat, n > 0, NEW a \in Nat
    PROVE  /\ a % n \in 0 .. n - 1
           /\ a % n <= a
           /\ (a + 1) % n = IF a % n = n - 1 THEN 0 ELSE (a % n) + 1
<1>1. PICK q \in Nat, r \in 0 .. n - 1 : a = n * q + r
  <2>. DEFINE q == a \div n
              r == a % n
  <2>1. a = n * q + r /\ q \in Nat /\ r \in 0 .. n - 1
    OBVIOUS
  <2>. QED  BY <2>1
<1>2. a % n = r /\ r <= a
  <2>1. n * q \in Nat
    OBVIOUS
  <2>. QED  BY <1>1, <2>1, RemainderIs
<1>3. CASE r = n - 1
  <2>1. a + 1 = n * (q + 1) + 0
    BY <1>1, <1>3
  <2>2. (n * (q + 1) + 0) % n = 0
    <3>1. q + 1 \in Nat /\ 0 \in 0 .. n - 1
      OBVIOUS
    <3>. QED  BY <3>1, RemainderIs
  <2>. QED  BY <1>2, <1>3, <2>1, <2>2
<1>4. CASE r # n - 1
  <2>1. a + 1 = n * q + (r + 1) /\ r + 1 \in 0 .. n - 1
    BY <1>1, <1>4
  <2>2. (a + 1) % n = r + 1
    BY <2>1, RemainderIs, ZenonT(40)
  <2>. QED  BY <1>2, <1>4, <2>2
<1>. QED  BY <1>3, <1>4

LEMMA SmallRemainder ==
    ASSUME NEW n \in Nat, n > 0, NEW a \in Int, -n <= a, a < 2 * n
    PROVE  a % n = IF a = -n THEN 0 ELSE IF a < 0 THEN a + n
                   ELSE IF a < n THEN a ELSE a - n
OBVIOUS

LEMMA BoundedSeqIs ==
    ASSUME NEW S, NEW n \in Nat, NEW s
    PROVE  s \in BoundedSeq(S, n) <=> s \in Seq(S) /\ Len(s) <= n
BY DEF BoundedSeq, SeqOf

-----------------------------------------------------------------------------
(* The cell of the j-th newest character, and where the reader goes on.    *)
Back(j) == IF j <= place_in_buffer THEN place_in_buffer - j
           ELSE place_in_buffer - j + BUFFER_SIZE
ReadFrom == IF last_unread_character = BUFFER_SIZE THEN 0 ELSE last_unread_character
Distance == IF ReadFrom <= place_in_buffer THEN place_in_buffer - ReadFrom
            ELSE place_in_buffer - ReadFrom + BUFFER_SIZE

(* The types, without the bound on how far typing gets ahead.              *)
RingTypes ==
    /\ keyboard_buffer \in [Place -> Character \cup {Nul}]
    /\ place_in_buffer \in Place
    /\ last_unread_character \in 0 .. BUFFER_SIZE
    /\ unread \in Seq(Character)

(* The ring keeps the last characters typed: all its cells do, more than   *)
(* it will give.                                                           *)
RingKeepsTheNewest ==
    \A j \in 1 .. BUFFER_SIZE :
        j <= Len(unread) => keyboard_buffer[Back(j)] = unread[Len(unread) - j + 1]

(* The indexes are as far apart as there are unread characters, modulo the *)
(* size of the ring.                                                       *)
DistanceIsUnread == Len(unread) % BUFFER_SIZE = Distance

(* The reader that has found the ring not empty has a character to read,   *)
(* even if it has been typed full meanwhile.                               *)
ReaderHasOne ==
    /\ reader \in {"copy", "advance"} => unread # <<>>
    /\ reader = "advance" => char_to_return = Head(unread)
    /\ last_unread_character = BUFFER_SIZE => reader = "wrap"

(* The command buffer begins with the line.                                *)
LineIsStored ==
    /\ buf_place = Len(line)
    /\ line \in Seq(Character \cup {Nul})
    /\ \A i \in 1 .. Len(line) : command_buffer[i - 1] = line[i]
    /\ reader = "execute" => command_buffer[buf_place] = Nul

RingInv == RingTypes /\ RingKeepsTheNewest /\ DistanceIsUnread /\ ReaderHasOne

(* The inductive invariant.                                                *)
ShellInv == TypeOK /\ RingInv /\ LineIsStored

USE KeyboardAssumption, ShellAssumption

(* It says what the reader can read.                                       *)
LEMMA RingInvImplies == RingInv => RingHoldsUnread
<1>. SUFFICES ASSUME RingInv PROVE RingHoldsUnread
  OBVIOUS
<1>. DEFINE n == BUFFER_SIZE
            d == Distance
            L == Len(unread)
<1>0. /\ n \in Nat /\ n > 0 /\ place_in_buffer \in 0 .. n - 1 /\ ReadFrom \in 0 .. n - 1
      /\ L \in Nat
  BY DEF RingInv, RingTypes, Place, ReadFrom
<1>1. d \in 0 .. n - 1 /\ L % n = d /\ d <= L
  BY <1>0, RemainderNext DEF RingInv, DistanceIsUnread, Distance
<1>2. (place_in_buffer - last_unread_character) % n = d
  <2>1. last_unread_character \in 0 .. n
    BY DEF RingInv, RingTypes
  <2>2. place_in_buffer - last_unread_character \in -n .. n - 1
    BY <1>0, <2>1
  <2>. QED  BY <1>0, <2>1, <2>2, SmallRemainder DEF Distance, ReadFrom
<1>3. Readable = [i \in 1 .. d |-> keyboard_buffer[(last_unread_character + i - 1) % n]]
  BY <1>2 DEF Readable
<1>4. LastN(unread, d) = [i \in 1 .. d |-> unread[L - d + i]]
  <2>. DEFINE m == L - d + 1
              u == unread
              part == SubSeq(u, m, L)
  <2>1. u \in Seq(Character) /\ L = Len(u) /\ m \in 1 .. L + 1 /\ L \in Nat /\ d \in Nat
    BY <1>0, <1>1 DEF RingInv, RingTypes
  <2>2. LastN(u, d) = part /\ L - m + 1 = d
    BY <2>1 DEF LastN
  <2>. HIDE DEF u, L, d
  <2>3. part = [i \in 1 .. L - m + 1 |-> u[i + m - 1]]
    <3>1. m \in 1 .. L + 1 /\ L \in m - 1 .. Len(u) /\ u \in Seq(Character)
      BY <2>1
    <3>. HIDE DEF m
    <3>. QED  BY <3>1, SMTT(30)
  <2>4. \A i \in 1 .. d : i + m - 1 = L - d + i
    BY <2>1
  <2>. QED  BY <2>2, <2>3, <2>4 DEF u, L, d
<1>5. ASSUME NEW i \in 1 .. d
      PROVE  keyboard_buffer[(last_unread_character + i - 1) % n] = unread[L - d + i]
  <2>. DEFINE j == d - i + 1
  <2>1. last_unread_character \in 0 .. n
    BY DEF RingInv, RingTypes
  <2>2. (last_unread_character + i - 1) % n = Back(j)
    <3>. DEFINE a == last_unread_character + i - 1
    <3>1. a \in Int /\ 0 <= a /\ a < 2 * n - 1
      BY <1>0, <1>1, <2>1
    <3>2. a % n = IF a < n THEN a ELSE a - n
      <4>. HIDE DEF a
      <4>. QED  BY <1>0, <3>1, SmallRemainder
    <3>3. Back(j) = IF a < n THEN a ELSE a - n
      <4>1. CASE last_unread_character = n
        BY <1>0, <1>1, <4>1 DEF Distance, ReadFrom, Back
      <4>2. CASE last_unread_character # n /\ ReadFrom <= place_in_buffer
        BY <1>0, <1>1, <2>1, <4>2 DEF Distance, ReadFrom, Back
      <4>3. CASE last_unread_character # n /\ ~(ReadFrom <= place_in_buffer)
        BY <1>0, <1>1, <2>1, <4>3 DEF Distance, ReadFrom, Back
      <4>. QED  BY <4>1, <4>2, <4>3
    <3>. QED  BY <3>2, <3>3
  <2>3. j \in 1 .. n /\ j <= L /\ L - j + 1 = L - d + i
    BY <1>0, <1>1, SMTT(30)
  <2>4. keyboard_buffer[Back(j)] = unread[L - j + 1]
    BY <2>3 DEF RingInv, RingKeepsTheNewest
  <2>. QED  BY <2>2, <2>3, <2>4
<1>6. Readable = LastN(unread, d)
  BY <1>3, <1>4, <1>5
<1>. QED  BY <1>1, <1>6 DEF RingHoldsUnread, RingInv, ReaderHasOne

-----------------------------------------------------------------------------
LEMMA RingBounds ==
    ASSUME RingInv
    PROVE  /\ BUFFER_SIZE \in Nat /\ BUFFER_SIZE > 0
           /\ place_in_buffer \in 0 .. BUFFER_SIZE - 1
           /\ last_unread_character \in 0 .. BUFFER_SIZE
           /\ ReadFrom \in 0 .. BUFFER_SIZE - 1
           /\ Distance \in 0 .. BUFFER_SIZE - 1
           /\ Len(unread) \in Nat
           /\ Len(unread) % BUFFER_SIZE = Distance
BY DEF RingInv, RingTypes, Place, ReadFrom, Distance, DistanceIsUnread

LEMMA TakeIs ==
    ASSUME NEW S, NEW m \in Nat, NEW u, NEW k, NEW s, s = [i \in 1 .. m |-> u[k + i]],
           \A i \in 1 .. m : u[k + i] \in S
    PROVE  s \in Seq(S) /\ Len(s) = m /\ \A i \in 1 .. m : s[i] = u[k + i]
OBVIOUS

(* A character is typed, wherever the reader is.                           *)
LEMMA AddRing ==
    ASSUME RingInv, NEW c \in Character, add_character_in_buffer(c),
           UNCHANGED <<last_unread_character, reader, char_to_return>>
    PROVE  RingInv'
<1>. DEFINE n == BUFFER_SIZE
            P == place_in_buffer
            L == Len(unread)
<1>0. /\ n \in Nat /\ n > 0 /\ P \in 0 .. n - 1 /\ L \in Nat
      /\ ReadFrom \in 0 .. n - 1 /\ Distance \in 0 .. n - 1 /\ L % n = Distance
  BY RingBounds
<1>1. /\ keyboard_buffer' = [keyboard_buffer EXCEPT ![P] = c]
      /\ place_in_buffer' = IF P + 1 = n THEN 0 ELSE P + 1
      /\ unread' = Append(unread, c)
  <2>1. (P + 1) % n = IF P + 1 = n THEN 0 ELSE P + 1
    <3>. DEFINE a == P + 1
    <3>1. a \in Int /\ 0 < a /\ a <= n
      BY <1>0
    <3>2. a % n = IF a < n THEN a ELSE a - n
      <4>. HIDE DEF a
      <4>. QED  BY <1>0, <3>1, SmallRemainder
    <3>. QED  BY <1>0, <3>2
  <2>. QED  BY <2>1 DEF add_character_in_buffer
<1>2. /\ Len(unread') = L + 1 /\ unread'[L + 1] = c
      /\ \A i \in 1 .. L : unread'[i] = unread[i]
      /\ unread' \in Seq(Character)
  BY <1>1 DEF RingInv, RingTypes
<1>3. RingTypes'
  BY <1>0, <1>1, <1>2 DEF RingInv, RingTypes, Place
<1>4. RingKeepsTheNewest'
  <2>. SUFFICES ASSUME NEW j \in 1 .. n, j <= L + 1
                PROVE  keyboard_buffer'[Back(j)'] = unread'[L + 1 - j + 1]
    BY <1>2 DEF RingKeepsTheNewest
  <2>1. CASE j = 1
    <3>1. Back(j)' = P
      <4>1. CASE P + 1 = n
        BY <1>0, <1>1, <2>1, <4>1 DEF Back
      <4>2. CASE P + 1 # n
        BY <1>0, <1>1, <2>1, <4>2 DEF Back
      <4>. QED  BY <4>1, <4>2
    <3>. QED  BY <1>0, <1>1, <1>2, <2>1, <3>1 DEF RingInv, RingTypes, Place
  <2>2. CASE j # 1
    <3>1. Back(j)' = Back(j - 1) /\ Back(j - 1) # P /\ Back(j - 1) \in Place
      BY <1>0, <1>1, <2>2 DEF Back, Place
    <3>2. keyboard_buffer[Back(j - 1)] = unread[L - (j - 1) + 1]
      <4>1. j - 1 \in 1 .. n /\ j - 1 <= L
        BY <1>0, <2>2
      <4>2. \A k \in 1 .. n : k <= L => keyboard_buffer[Back(k)] = unread[L - k + 1]
        BY DEF RingInv, RingKeepsTheNewest
      <4>. QED  BY <4>1, <4>2
    <3>3. keyboard_buffer'[Back(j - 1)] = keyboard_buffer[Back(j - 1)]
      BY <1>1, <3>1 DEF RingInv, RingTypes
    <3>4. unread'[L + 1 - j + 1] = unread[L - (j - 1) + 1]
      <4>1. L + 1 - j + 1 = L - (j - 1) + 1 /\ L - (j - 1) + 1 \in 1 .. L
        BY <1>0, <2>2
      <4>. HIDE DEF L
      <4>. QED  BY <1>2, <4>1
    <3>. QED  BY <3>1, <3>2, <3>3, <3>4
  <2>. QED  BY <2>1, <2>2
<1>5. DistanceIsUnread'
  <2>1. (L + 1) % n = IF Distance = n - 1 THEN 0 ELSE Distance + 1
    BY <1>0, RemainderNext
  <2>2. ReadFrom' = ReadFrom
    BY DEF ReadFrom
  <2>3. Distance' = IF Distance = n - 1 THEN 0 ELSE Distance + 1
    <3>. DEFINE U == ReadFrom
    <3>1. U' = U /\ U \in 0 .. n - 1
      BY <1>0, <2>2
    <3>2. Distance' = IF U <= place_in_buffer' THEN place_in_buffer' - U
                      ELSE place_in_buffer' - U + n
      BY <3>1 DEF Distance
    <3>. QED  BY <1>0, <1>1, <3>1, <3>2 DEF Distance
  <2>4. Len(unread)' % n = (L + 1) % n
    BY <1>2
  <2>. QED  BY <2>1, <2>3, <2>4 DEF DistanceIsUnread
<1>6. ReaderHasOne'
  BY <1>1, <1>2 DEF RingInv, RingTypes, ReaderHasOne
<1>. QED  BY <1>3, <1>4, <1>5, <1>6 DEF RingInv

(* The reader copies the oldest character that the ring still holds.       *)
LEMMA CopyRing == RingInv /\ ReadCopy => RingInv' /\ char_to_return' \in Character \cup {Nul}
<1>. SUFFICES ASSUME RingInv, ReadCopy
              PROVE  RingInv' /\ char_to_return' \in Character \cup {Nul}
  OBVIOUS
<1>. DEFINE n == BUFFER_SIZE
            L == Len(unread)
            M == 1 + ((L - 1) % n)
<1>0. /\ n \in Nat /\ n > 0 /\ L \in Nat /\ place_in_buffer \in 0 .. n - 1
      /\ ReadFrom \in 0 .. n - 1 /\ Distance \in 0 .. n - 1 /\ L % n = Distance
  BY RingBounds
<1>1. /\ reader = "copy" /\ reader' = "advance"
      /\ UNCHANGED <<keyboard_buffer, place_in_buffer, last_unread_character>>
      /\ char_to_return' = keyboard_buffer[last_unread_character]
      /\ unread' = LastN(unread, M)
  BY DEF ReadCopy, ReaderGoto
<1>2. L >= 1 /\ last_unread_character < n /\ ReadFrom = last_unread_character
  BY <1>0, <1>1, RingBounds DEF RingInv, RingTypes, ReaderHasOne, ReadFrom
<1>3. /\ M \in 1 .. n /\ M <= L
      /\ M % n = L % n
      /\ M = IF Distance = 0 THEN n ELSE Distance
  <2>. DEFINE m == (L - 1) % n
  <2>1. L - 1 \in Nat
    BY <1>0, <1>2
  <2>2. /\ m \in 0 .. n - 1 /\ m <= L - 1
        /\ (L - 1 + 1) % n = IF m = n - 1 THEN 0 ELSE m + 1
    BY <1>0, <2>1, RemainderNext
  <2>3. L - 1 + 1 = L
    BY <1>0
  <2>4. L % n = IF m = n - 1 THEN 0 ELSE m + 1
    BY <2>2, <2>3
  <2>5. M \in 1 .. n /\ M <= L /\ M = m + 1
    BY <1>0, <2>2
  <2>. HIDE DEF m, M
  <2>6. M % n = IF M < n THEN M ELSE M - n
    <3>1. M \in Int /\ -n <= M /\ M < 2 * n /\ M > 0
      BY <1>0, <2>5
    <3>. QED  BY <1>0, <3>1, SmallRemainder
  <2>. QED  BY <1>0, <2>2, <2>4, <2>5, <2>6
<1>. HIDE DEF M
<1>4. /\ unread' \in Seq(Character)
      /\ Len(unread') = M
      /\ \A i \in 1 .. M : unread'[i] = unread[L - M + i]
  <2>1. unread \in Seq(Character)
    BY DEF RingInv, RingTypes
  <2>0. M \in Nat /\ L \in Nat /\ M <= L
    BY <1>0, <1>3
  <2>2. unread' = [i \in 1 .. M |-> unread[L - M + i]]
    <3>1. LastN(unread, M) = [i \in 1 .. M |-> unread[L - M + i]]
      BY <2>0, <2>1 DEF LastN
    <3>. QED  BY <1>1, <3>1
  <2>3. \A i \in 1 .. M : L - M + i \in 1 .. L
    BY <1>0, <1>3
  <2>4. \A i \in 1 .. M : unread[L - M + i] \in Character
    BY <2>1, <2>3
  <2>5. M \in Nat
    BY <1>0, <1>3
  <2>. QED  BY <2>2, <2>4, <2>5, TakeIs
<1>5. RingTypes'
  BY <1>1, <1>4 DEF RingInv, RingTypes
<1>6. RingKeepsTheNewest'
  <2>. SUFFICES ASSUME NEW j \in 1 .. n, j <= M
                PROVE  keyboard_buffer[Back(j)] = unread'[M - j + 1]
    BY <1>1, <1>4 DEF RingKeepsTheNewest, Back
  <2>1. M - j + 1 \in 1 .. M /\ L - M + (M - j + 1) = L - j + 1 /\ j <= L
    BY <1>0, <1>3
  <2>2. keyboard_buffer[Back(j)] = unread[L - j + 1]
    BY <2>1 DEF RingInv, RingKeepsTheNewest
  <2>. QED  BY <1>4, <2>1, <2>2
<1>7. DistanceIsUnread'
  BY <1>0, <1>1, <1>3, <1>4 DEF DistanceIsUnread, Distance, ReadFrom
<1>8. char_to_return' = Head(unread')
  <2>1. Back(M) = last_unread_character
    BY <1>0, <1>2, <1>3 DEF Back, Distance
  <2>2. keyboard_buffer[Back(M)] = unread[L - M + 1]
    BY <1>3 DEF RingInv, RingKeepsTheNewest
  <2>3. unread'[1] = unread[L - M + 1]
    BY <1>3, <1>4
  <2>4. Head(unread') = unread'[1]
    BY <1>3, <1>4
  <2>. QED  BY <1>1, <2>1, <2>2, <2>3, <2>4
<1>9. ReaderHasOne'
  BY <1>1, <1>2, <1>3, <1>4, <1>8 DEF ReaderHasOne
<1>10. char_to_return' \in Character
  BY <1>3, <1>4, <1>8
<1>. QED  BY <1>5, <1>6, <1>7, <1>9, <1>10 DEF RingInv

LEMMA AdvanceRing == RingInv /\ ReadAdvance => RingInv'
<1>. SUFFICES ASSUME RingInv, ReadAdvance PROVE RingInv'
  OBVIOUS
<1>. DEFINE n == BUFFER_SIZE
            L == Len(unread)
<1>0. /\ n \in Nat /\ n > 0 /\ L \in Nat /\ place_in_buffer \in 0 .. n - 1
      /\ ReadFrom \in 0 .. n - 1 /\ Distance \in 0 .. n - 1 /\ L % n = Distance
  BY RingBounds
<1>1. /\ reader = "advance" /\ reader' = "wrap"
      /\ UNCHANGED <<keyboard_buffer, place_in_buffer>>
      /\ last_unread_character' = last_unread_character + 1
      /\ unread' = Tail(unread)
  BY DEF ReadAdvance, ReaderGoto
<1>2. /\ L >= 1 /\ ReadFrom = last_unread_character
      /\ last_unread_character \in 0 .. n - 1
  BY <1>0, <1>1, RingBounds DEF RingInv, RingTypes, ReaderHasOne, ReadFrom
<1>3. /\ unread' \in Seq(Character) /\ Len(unread') = L - 1
      /\ \A i \in 1 .. L - 1 : unread'[i] = unread[i + 1]
  BY <1>0, <1>1, <1>2 DEF RingInv, RingTypes
<1>4. RingTypes'
  BY <1>0, <1>1, <1>2, <1>3 DEF RingInv, RingTypes
<1>5. RingKeepsTheNewest'
  <2>. SUFFICES ASSUME NEW j \in 1 .. n, j <= L - 1
                PROVE  keyboard_buffer[Back(j)] = unread'[L - 1 - j + 1]
    BY <1>1, <1>3 DEF RingKeepsTheNewest, Back
  <2>1. L - 1 - j + 1 \in 1 .. L - 1 /\ L - 1 - j + 1 + 1 = L - j + 1 /\ j <= L
    BY <1>0, <1>2
  <2>2. keyboard_buffer[Back(j)] = unread[L - j + 1]
    BY <2>1 DEF RingInv, RingKeepsTheNewest
  <2>. QED  BY <1>3, <2>1, <2>2
<1>6. DistanceIsUnread'
  <2>. DEFINE m == (L - 1) % n
  <2>1. L - 1 \in Nat
    BY <1>0, <1>2
  <2>2. /\ m \in 0 .. n - 1
        /\ (L - 1 + 1) % n = IF m = n - 1 THEN 0 ELSE m + 1
    BY <1>0, <2>1, RemainderNext
  <2>3. L - 1 + 1 = L
    BY <1>0
  <2>4. Distance = IF m = n - 1 THEN 0 ELSE m + 1
    BY <1>0, <2>2, <2>3
  <2>5. ReadFrom' = IF last_unread_character + 1 = n THEN 0 ELSE last_unread_character + 1
    BY <1>1 DEF ReadFrom
  <2>. HIDE DEF m
  <2>6. Distance' = m
    BY <1>0, <1>1, <1>2, <2>2, <2>4, <2>5 DEF Distance
  <2>7. Len(unread)' % n = m
    BY <1>3 DEF m
  <2>. QED  BY <2>6, <2>7 DEF DistanceIsUnread
<1>7. ReaderHasOne'
  BY <1>1 DEF ReaderHasOne
<1>. QED  BY <1>4, <1>5, <1>6, <1>7 DEF RingInv

LEMMA WrapRing == RingInv /\ ReadWrap => RingInv'
<1>. SUFFICES ASSUME RingInv, ReadWrap PROVE RingInv'
  OBVIOUS
<1>0. /\ BUFFER_SIZE \in Nat /\ BUFFER_SIZE > 0
      /\ last_unread_character \in 0 .. BUFFER_SIZE
  BY RingBounds
<1>1. /\ reader' = "return"
      /\ UNCHANGED <<keyboard_buffer, place_in_buffer, unread>>
      /\ last_unread_character' \in 0 .. BUFFER_SIZE - 1
  BY <1>0 DEF ReadWrap, ReaderGoto
<1>2. ReadFrom' = ReadFrom
  BY <1>0 DEF ReadWrap, ReadFrom
<1>. QED
  BY <1>0, <1>1, <1>2 DEF RingInv, RingTypes, RingKeepsTheNewest, Back,
     DistanceIsUnread, Distance, ReaderHasOne

LEMMA TestRing == RingInv /\ ReadTest => RingInv'
<1>. SUFFICES ASSUME RingInv, ReadTest PROVE RingInv'
  OBVIOUS
<1>1. /\ place_in_buffer # last_unread_character
      /\ reader = "test" /\ reader' = "copy"
      /\ UNCHANGED <<keyboard_buffer, place_in_buffer, unread, last_unread_character>>
  BY DEF ReadTest, ReaderGoto
<1>2. last_unread_character < BUFFER_SIZE
  BY <1>1, RingBounds DEF RingInv, ReaderHasOne
<1>3. Distance # 0
  BY <1>1, <1>2, RingBounds DEF Distance, ReadFrom
<1>4. Len(unread) > 0
  BY <1>3, RingBounds, RemainderNext
<1>5. unread # <<>>
  BY <1>4
<1>. QED
  BY <1>1, <1>2, <1>5 DEF RingInv, RingTypes, RingKeepsTheNewest, Back, DistanceIsUnread,
     Distance, ReadFrom, ReaderHasOne

(* The shell has the character, and the ring is left alone.                *)
LEMMA RestRing ==
    ASSUME RingInv, reader # "wrap", reader' \in {"test", "execute", reader},
           UNCHANGED <<keyboard_buffer, place_in_buffer, last_unread_character,
                       char_to_return, unread>>
    PROVE  RingInv'
BY DEF RingInv, RingTypes, RingKeepsTheNewest, Back, DistanceIsUnread, Distance, ReadFrom,
       ReaderHasOne

-----------------------------------------------------------------------------
(* The shell's task and the keyboard together.                             *)

LEMMA CharacterOfKey == \A code : ps2_to_ascii(code) \in Character
BY DEF ps2_to_ascii, Character, Range

LEMMA ShellInitInv == Init => ShellInv
<1>. SUFFICES ASSUME Init PROVE ShellInv
  OBVIOUS
<1>. USE DEF Init, KeyboardInit
<1>1. unread \in BoundedSeq(Character, MaxAhead)
  BY BoundedSeqIs
<1>2. TypeOK
  BY <1>1 DEF TypeOK, Place
<1>3. RingTypes
  BY DEF RingTypes, Place
<1>4. RingKeepsTheNewest /\ ReaderHasOne /\ LineIsStored
  BY DEF RingKeepsTheNewest, ReaderHasOne, LineIsStored
<1>5. DistanceIsUnread
  <2>1. 0 % BUFFER_SIZE = 0
    BY SmallRemainder
  <2>. QED  BY <2>1 DEF DistanceIsUnread, Distance, ReadFrom
<1>. QED  BY <1>2, <1>3, <1>4, <1>5 DEF ShellInv, RingInv

LEMMA TypingInv == ShellInv /\ Typing => ShellInv'
<1>. SUFFICES ASSUME ShellInv, NEW code \in Key \cup {REALEASED_KEY_CODE},
                     EINT3_IRQHandler(code), UNCHANGED <<command_buffer, buf_place, line>>
              PROVE  ShellInv'
  BY DEF Typing
<1>1. Len(unread) < MaxAhead /\ UNCHANGED <<last_unread_character, reader, char_to_return>>
  BY DEF EINT3_IRQHandler
<1>2. CASE UNCHANGED <<keyboard_buffer, place_in_buffer, unread>>
  <2>1. RingInv'
    BY <1>1, <1>2 DEF ShellInv, RingInv, RingTypes, RingKeepsTheNewest, Back,
       DistanceIsUnread, Distance, ReadFrom, ReaderHasOne
  <2>2. TypeOK'
    BY <1>1, <1>2 DEF EINT3_IRQHandler, ShellInv, TypeOK
  <2>3. LineIsStored'
    BY <1>1 DEF ShellInv, LineIsStored
  <2>. QED  BY <2>1, <2>2, <2>3 DEF ShellInv
<1>3. ASSUME NEW c \in Character, add_character_in_buffer(c)
      PROVE  ShellInv'
  <2>1. RingInv'
    BY <1>1, <1>3, AddRing DEF ShellInv
  <2>2. unread' \in BoundedSeq(Character, MaxAhead)
    <3>1. unread \in Seq(Character)
      BY BoundedSeqIs DEF ShellInv, TypeOK
    <3>2. unread' \in Seq(Character) /\ Len(unread') = Len(unread) + 1
      BY <1>3, <3>1 DEF add_character_in_buffer
    <3>. QED  BY <1>1, <3>1, <3>2, BoundedSeqIs
  <2>3. TypeOK'
    BY <1>1, <2>1, <2>2 DEF EINT3_IRQHandler, ShellInv, TypeOK, RingInv, RingTypes
  <2>4. LineIsStored'
    BY <1>1 DEF ShellInv, LineIsStored
  <2>. QED  BY <2>1, <2>3, <2>4 DEF ShellInv
<1>. QED  BY <1>2, <1>3, CharacterOfKey DEF EINT3_IRQHandler

LEMMA ReadStepInv == ShellInv /\ ReadStep => ShellInv'
<1>. SUFFICES ASSUME ShellInv, ReadStep PROVE ShellInv'
  OBVIOUS
<1>1. RingInv' /\ char_to_return' \in Character \cup {Nul}
  <2>1. CASE ReadCopy
    BY <2>1, CopyRing DEF ShellInv
  <2>2. CASE ReadTest \/ ReadAdvance \/ ReadWrap
    <3>1. char_to_return' = char_to_return
      BY <2>2 DEF ReadTest, ReadAdvance, ReadWrap
    <3>. QED  BY <2>2, <3>1, TestRing, AdvanceRing, WrapRing DEF ShellInv, TypeOK
  <2>. QED  BY <2>1, <2>2 DEF ReadStep, read_character_in_buffer
<1>2. /\ reader' \in {"copy", "advance", "wrap", "return"}
      /\ UNCHANGED <<next_charater_is_released, command_buffer, buf_place, line>>
  BY DEF ReadStep, read_character_in_buffer, ReadTest, ReadCopy, ReadAdvance, ReadWrap,
         ReaderGoto
<1>3. unread' \in BoundedSeq(Character, MaxAhead)
  <2>1. unread \in Seq(Character) /\ Len(unread) <= MaxAhead
    BY BoundedSeqIs DEF ShellInv, TypeOK
  <2>2. unread' \in Seq(Character)
    BY <1>1 DEF RingInv, RingTypes
  <2>3. Len(unread') <= Len(unread)
    <3>1. CASE ReadTest \/ ReadWrap
      BY <2>1, <3>1 DEF ReadTest, ReadWrap
    <3>2. CASE ReadAdvance
      <4>1. unread # <<>> /\ unread' = Tail(unread)
        BY <3>2 DEF ReadAdvance, ReaderGoto, ShellInv, RingInv, ReaderHasOne
      <4>. QED  BY <2>1, <4>1
    <3>3. CASE ReadCopy
      <4>. DEFINE L == Len(unread)
                  M == 1 + ((L - 1) % BUFFER_SIZE)
      <4>1. unread # <<>> /\ unread' = LastN(unread, M)
        BY <3>3 DEF ReadCopy, ReaderGoto, ShellInv, RingInv, ReaderHasOne
      <4>2. L - 1 \in Nat
        BY <2>1, <4>1
      <4>3. M \in Nat /\ M <= L
        BY <4>2, RemainderNext
      <4>. HIDE DEF M
      <4>4. LastN(unread, M) = [i \in 1 .. M |-> unread[L - M + i]]
        BY <2>1, <4>3 DEF LastN
      <4>. QED  BY <4>1, <4>3, <4>4
    <3>. QED  BY <3>1, <3>2, <3>3 DEF ReadStep, read_character_in_buffer
  <2>. QED  BY <2>1, <2>2, <2>3, BoundedSeqIs
<1>4. TypeOK'
  BY <1>1, <1>2, <1>3 DEF ShellInv, TypeOK, RingInv, RingTypes
<1>5. LineIsStored'
  BY <1>2 DEF ShellInv, LineIsStored
<1>. QED  BY <1>1, <1>4, <1>5 DEF ShellInv

LEMMA StoreCharacterInv == ShellInv /\ StoreCharacter => ShellInv'
<1>. SUFFICES ASSUME ShellInv, StoreCharacter PROVE ShellInv'
  OBVIOUS
<1>1. RingInv'
  BY RestRing DEF ShellInv, StoreCharacter
<1>. DEFINE size == COMMAND_BUFFER_SIZE
            p == buf_place
            c == char_to_return
<1>2. /\ p \in 0 .. size - 1
      /\ c \in Character \cup {Nul}
      /\ command_buffer \in [0 .. size - 1 -> Character \cup {Nul}]
      /\ line \in Seq(Character \cup {Nul})
      /\ p = Len(line)
      /\ \A i \in 1 .. p : command_buffer[i - 1] = line[i]
  BY DEF ShellInv, TypeOK, LineIsStored
<1>3. /\ command_buffer' = [command_buffer EXCEPT ![p] = c]
      /\ p' = IF p + 1 = size THEN p ELSE p + 1
      /\ line' = IF p < size - 1 THEN Append(line, c) ELSE line
      /\ reader' = "test"
  BY <1>2 DEF StoreCharacter
<1>4. TypeOK'
  BY <1>1, <1>2, <1>3 DEF StoreCharacter, ShellInv, TypeOK
<1>5. LineIsStored'
  <2>1. CASE p + 1 = size
    BY <1>2, <1>3, <2>1 DEF LineIsStored
  <2>2. CASE p + 1 # size
    <3>1. /\ p' = p + 1 /\ line' = Append(line, c)
          /\ Len(line') = p + 1 /\ line' \in Seq(Character \cup {Nul})
      BY <1>2, <1>3, <2>2
    <3>2. ASSUME NEW i \in 1 .. p + 1
          PROVE  command_buffer'[i - 1] = line'[i]
      <4>1. CASE i = p + 1
        BY <1>2, <1>3, <3>1, <4>1
      <4>2. CASE i \in 1 .. p
        BY <1>2, <1>3, <3>1, <4>2
      <4>. QED  BY <1>2, <4>1, <4>2
    <3>. QED  BY <1>3, <3>1, <3>2 DEF LineIsStored
  <2>. QED  BY <2>1, <2>2
<1>. QED  BY <1>1, <1>4, <1>5 DEF ShellInv

LEMMA EndLineInv == ShellInv /\ EndLine => ShellInv'
<1>. SUFFICES ASSUME ShellInv, EndLine PROVE ShellInv'
  OBVIOUS
<1>1. RingInv'
  BY RestRing DEF ShellInv, EndLine
<1>2. TypeOK'
  BY DEF EndLine, ShellInv, TypeOK
<1>3. LineIsStored'
  BY DEF EndLine, ShellInv, TypeOK, LineIsStored
<1>. QED  BY <1>1, <1>2, <1>3 DEF ShellInv

LEMMA ExecuteCommandInv == ShellInv /\ ExecuteCommand => ShellInv'
<1>. SUFFICES ASSUME ShellInv, ExecuteCommand PROVE ShellInv'
  OBVIOUS
<1>1. RingInv'
  BY RestRing DEF ShellInv, ExecuteCommand
<1>2. TypeOK'
  BY DEF ExecuteCommand, ShellInv, TypeOK
<1>3. LineIsStored'
  BY DEF ExecuteCommand, LineIsStored
<1>. QED  BY <1>1, <1>2, <1>3 DEF ShellInv

LEMMA ShellStepInv == ShellInv /\ [Next]_vars => ShellInv'
<1>. SUFFICES ASSUME ShellInv, [Next]_vars PROVE ShellInv'
  OBVIOUS
<1>1. CASE UNCHANGED vars
  BY <1>1 DEF vars, keyboardVars, ShellInv, TypeOK, RingInv, RingTypes, RingKeepsTheNewest,
     Back, DistanceIsUnread, Distance, ReadFrom, ReaderHasOne, LineIsStored
<1>. QED
  BY <1>1, TypingInv, ReadStepInv, StoreCharacterInv, EndLineInv, ExecuteCommandInv
     DEF Next, fooTask1_func

LEMMA ShellInvariant == Spec => []ShellInv
BY ShellInitInv, ShellStepInv, PTL DEF Spec

(* However the interrupt comes between the reader's steps, the ring holds  *)
(* what was typed and not read, or the newest of it once more was typed    *)
(* than it has room for.                                                   *)
THEOREM RingIsFaithful == Spec => []RingHoldsUnread
<1>1. ShellInv => RingHoldsUnread
  BY RingInvImplies DEF ShellInv
<1>. QED  BY <1>1, ShellInvariant, PTL

(* The command that is executed is the line, cut off where the buffer      *)
(* ends.                                                                   *)
THEOREM LineIsExecuted == Spec => []ExecutesTheLine
<1>1. ShellInv => ExecutesTheLine
  <2>. SUFFICES ASSUME ShellInv PROVE ExecutesTheLine
    OBVIOUS
  <2>1. [i \in 1 .. buf_place |-> command_buffer[i - 1]] = line
    BY DEF ShellInv, LineIsStored
  <2>. QED  BY <2>1 DEF ExecutesTheLine, ShellInv, LineIsStored
<1>. QED  BY <1>1, ShellInvariant, PTL

-----------------------------------------------------------------------------

(* Induction over the natural numbers, for a set.                          *)
LEMMA LeastMember ==
    ASSUME NEW T \in SUBSET Nat, T # {}
    PROVE  \E m \in T : \A n \in T : m <= n
<1>. DEFINE R == {x \in Nat \X Nat : x[1] < x[2]}
<1>1. IsWellFoundedOn(R, Nat)
  <2>1. OpToRel(<, Nat) = R
    BY DEF OpToRel
  <2>. QED  BY <2>1, NatLessThanWellFounded
<1>. HIDE DEF R
<1>2. PICK m \in T : \A n \in T : ~(<<n, m>> \in R)
  BY <1>1, WFMin
<1>3. ASSUME NEW n \in T PROVE m <= n
  <2>1. ~(<<n, m>> \in R)
    BY <1>2
  <2>2. m \in Nat /\ n \in Nat
    OBVIOUS
  <2>. QED  BY <2>1, <2>2 DEF R
<1>. QED  BY <1>3

LEMMA Induction ==
    ASSUME NEW T \in SUBSET Nat, 0 \in T, \A n \in T : n + 1 \in T
    PROVE  T = Nat
<1>. SUFFICES ASSUME Nat \ T # {} PROVE FALSE
  OBVIOUS
<1>1. PICK m \in Nat \ T : \A n \in Nat \ T : m <= n
  BY LeastMember
<1>2. m # 0 /\ m - 1 \in T
  BY <1>1
<1>. QED  BY <1>1, <1>2

-----------------------------------------------------------------------------
LEMMA DivMod ==
    ASSUME NEW n \in Nat, NEW d \in Nat, d > 0
    PROVE  n \div d \in Nat /\ n % d \in 0 .. d - 1 /\ n = d * (n \div d) + (n % d)
OBVIOUS

LEMMA Bigger ==
    ASSUME NEW d \in Nat, d > 0, NEW q \in Int, NEW x \in Int, q < x
    PROVE  d * q + d <= d * x
OBVIOUS

LEMMA DivIs ==
    ASSUME NEW d \in Nat, d > 0, NEW q \in Nat, NEW r \in 0 .. d - 1
    PROVE  (d * q + r) \div d = q /\ (d * q + r) % d = r
OBVIOUS

LEMMA NestedDiv ==
    ASSUME NEW n \in Nat, NEW d \in Nat, d > 0, NEW z \in Nat, z > 0
    PROVE  /\ n \div (z * d) = (n \div d) \div z
           /\ n % (z * d) = ((n \div d) % z) * d + (n % d)
<1>. DEFINE k == n \div d
            r == n % d
            q == k \div z
            s == k % z
<1>1. k \in Nat /\ r \in 0 .. d - 1 /\ n = d * k + r
  BY DivMod
<1>. HIDE DEF k, r
<1>2. q \in Nat /\ s \in 0 .. z - 1 /\ k = z * q + s
  BY <1>1, DivMod
<1>. HIDE DEF q, s
<1>3. n = (z * d) * q + (s * d + r)
  <2>1. d * (z * q + s) = (z * d) * q + s * d
    BY <1>2
  <2>. QED  BY <1>1, <1>2, <2>1
<1>4. z * d \in Nat /\ z * d > 0 /\ s * d + r \in 0 .. z * d - 1
  <2>1. d * s + d <= d * z
    BY <1>2, Bigger
  <2>2. d * s = s * d /\ d * z = z * d /\ s * d \in Nat
    BY <1>2
  <2>3. z * d >= d
    BY <1>1, <1>2, <2>1, <2>2
  <2>. QED  BY <1>1, <1>2, <2>1, <2>2, <2>3
<1>5. n \div (z * d) = q /\ n % (z * d) = s * d + r
  <2>. DEFINE w == z * d
              t == s * d + r
  <2>1. w \in Nat /\ w > 0 /\ t \in 0 .. w - 1 /\ n = w * q + t
    BY <1>3, <1>4
  <2>. HIDE DEF w, t
  <2>2. n \div w = q /\ n % w = t
    BY <1>2, <2>1, DivIs
  <2>. QED  BY <2>2 DEF w, t
<1>. QED  BY <1>5 DEF q, s, k, r

LEMMA NextDiv ==
    ASSUME NEW n \in Nat, NEW d \in Nat, d > 0
    PROVE  /\ (n + 1) % d # 0 => (n + 1) \div d = n \div d /\ (n + 1) % d = (n % d) + 1
           /\ (n + 1) % d = 0 => (n + 1) \div d = n \div d + 1 /\ n % d = d - 1
<1>. DEFINE q == n \div d
            r == n % d
<1>1. q \in Nat /\ r \in 0 .. d - 1 /\ n = d * q + r
  BY DivMod
<1>. HIDE DEF q, r
<1>2. CASE r + 1 < d
  <2>1. n + 1 = d * q + (r + 1) /\ r + 1 \in 0 .. d - 1
    BY <1>1, <1>2
  <2>2. (n + 1) \div d = q /\ (n + 1) % d = r + 1
    BY <1>1, <2>1, DivIs
  <2>. QED  BY <1>1, <2>2 DEF q, r
<1>3. CASE r + 1 = d
  <2>1. n + 1 = d * (q + 1) + 0 /\ 0 \in 0 .. d - 1 /\ q + 1 \in Nat
    BY <1>1, <1>3
  <2>2. (n + 1) \div d = q + 1 /\ (n + 1) % d = 0
    <3>1. \A x \in Nat : \A z \in 0 .. d - 1 : (d * x + z) \div d = x /\ (d * x + z) % d = z
      BY DivIs
    <3>2. (d * (q + 1) + 0) \div d = q + 1 /\ (d * (q + 1) + 0) % d = 0
      BY <2>1, <3>1
    <3>. QED  BY <2>1, <3>2
  <2>. QED  BY <1>1, <1>3, <2>2 DEF q, r
<1>. QED  BY <1>1, <1>2, <1>3

-----------------------------------------------------------------------------
(* A chain of clusters, step by step.                                      *)
Cluster == 0 .. CLUST - 1
Step(x) == IF x \in 2 .. volume.n_fatent - 1 THEN volume.fat[x] ELSE 0

LEMMA StepType == ASSUME volume \in Volumes PROVE \A x : Step(x) \in Cluster
BY FatAssumption, SMTT(30) DEF Step, Cluster

Part(c, n, f) == f \in [0 .. n -> Cluster] /\ f[0] = c /\ \A k \in 1 .. n : f[k] = Step(f[k - 1])

LEMMA PartExists ==
    ASSUME volume \in Volumes
    PROVE  \A c \in Cluster : \A n \in Nat : \E f : Part(c, n, f)
<1>. SUFFICES ASSUME NEW c \in Cluster PROVE \A n \in Nat : \E f : Part(c, n, f)
  OBVIOUS
<1>. DEFINE T == {n \in Nat : \E f : Part(c, n, f)}
<1>1. 0 \in T
  <2>1. Part(c, 0, [k \in 0 .. 0 |-> c])
    BY DEF Part
  <2>. QED  BY <2>1
<1>2. ASSUME NEW n \in T PROVE n + 1 \in T
  <2>1. PICK f : Part(c, n, f)
    OBVIOUS
  <2>. DEFINE g == [k \in 0 .. n + 1 |-> IF k = n + 1 THEN Step(f[n]) ELSE f[k]]
  <2>2. Part(c, n + 1, g)
    <3>1. n \in Nat
      OBVIOUS
    <3>2. g \in [0 .. n + 1 -> Cluster]
      BY <2>1, <3>1, StepType DEF Part
    <3>3. g[0] = c
      BY <2>1, <3>1 DEF Part
    <3>4. ASSUME NEW k \in 1 .. n + 1 PROVE g[k] = Step(g[k - 1])
      BY <2>1, <3>1 DEF Part
    <3>. HIDE DEF g
    <3>. QED  BY <3>2, <3>3, <3>4 DEF Part
  <2>. HIDE DEF g
  <2>. QED  BY <2>2
<1>. HIDE DEF T
<1>3. T = Nat
  <2>1. T \in SUBSET Nat
    BY DEF T
  <2>. QED  BY <1>1, <1>2, <2>1, Induction
<1>. QED  BY <1>3 DEF T

LEMMA PartUnique ==
    ASSUME NEW c, NEW m \in Nat, NEW n \in Nat, m <= n,
           NEW f, NEW g, Part(c, m, f), Part(c, n, g)
    PROVE  \A k \in 0 .. m : f[k] = g[k]
<1>. DEFINE T == {k \in Nat : k <= m => f[k] = g[k]}
<1>1. 0 \in T
  BY DEF Part
<1>2. ASSUME NEW k \in T PROVE k + 1 \in T
  <2>1. k \in Nat
    OBVIOUS
  <2>2. ASSUME k + 1 <= m PROVE f[k + 1] = g[k + 1]
    <3>1. k + 1 \in 1 .. m /\ k + 1 \in 1 .. n /\ (k + 1) - 1 = k
      BY <2>1, <2>2
    <3>2. f[k] = g[k]
      BY <2>1, <2>2
    <3>. QED  BY <3>1, <3>2 DEF Part
  <2>. QED  BY <2>1, <2>2
<1>. HIDE DEF T
<1>3. T = Nat
  <2>1. T \in SUBSET Nat
    BY DEF T
  <2>. QED  BY <1>1, <1>2, <2>1, Induction
<1>. QED  BY <1>3 DEF T

LEMMA ChainIs ==
    ASSUME volume \in Volumes, NEW c \in Cluster
    PROVE  Chain(c) = [k \in Nat |-> IF k = 0 THEN c ELSE Step(Chain(c)[k - 1])]
<1>. DEFINE PartTo(n) == CHOOSE f : Part(c, n, f)
            F == [n \in Nat |-> PartTo(n)[n]]
            G(f) == [k \in Nat |-> IF k = 0 THEN c ELSE Step(f[k - 1])]
<1>1. \A n \in Nat : Part(c, n, PartTo(n))
  BY PartExists
<1>. HIDE DEF PartTo
<1>2. F = G(F)
  <2>1. F[0] = c
    BY <1>1 DEF Part
  <2>2. ASSUME NEW n \in Nat \ {0} PROVE F[n] = Step(F[n - 1])
    <3>1. n - 1 \in Nat /\ n - 1 <= n
      OBVIOUS
    <3>2. PartTo(n - 1)[n - 1] = PartTo(n)[n - 1]
      BY <1>1, <3>1, PartUnique
    <3>3. PartTo(n)[n] = Step(PartTo(n)[n - 1])
      BY <1>1 DEF Part
    <3>. QED  BY <3>1, <3>2, <3>3
  <2>. HIDE DEF F
  <2>3. F = [n \in Nat |-> F[n]]
    BY DEF F
  <2>. QED  BY <2>1, <2>2, <2>3
<1>. HIDE DEF F
<1>3. Chain(c) = CHOOSE f : f = G(f)
  BY DEF Chain, Step
<1>. QED  BY <1>2, <1>3

LEMMA ChainStep ==
    ASSUME volume \in Volumes, NEW c \in Cluster
    PROVE  /\ Chain(c)[0] = c
           /\ \A k \in Nat : Chain(c)[k + 1] = Step(Chain(c)[k])
           /\ \A k \in Nat : Chain(c)[k] \in Cluster
<1>. DEFINE G(f) == [k \in Nat |-> IF k = 0 THEN c ELSE Step(f[k - 1])]
            h == Chain(c)
<1>1. h = G(h)
  BY ChainIs
<1>. HIDE DEF h
<1>2. \A k \in Nat : h[k] = IF k = 0 THEN c ELSE Step(h[k - 1])
  BY <1>1
<1>3. ASSUME NEW k \in Nat PROVE h[k + 1] = Step(h[k])
  <2>1. k + 1 \in Nat /\ k + 1 # 0 /\ (k + 1) - 1 = k
    OBVIOUS
  <2>. QED  BY <1>2, <2>1
<1>4. \A k \in Nat : h[k] \in Cluster
  BY <1>2, StepType
<1>. QED  BY <1>2, <1>3, <1>4 DEF h

LEMMA ChainSame ==
    ASSUME volume' = volume, NEW c PROVE Chain(c)' = Chain(c)
BY DEF Chain

-----------------------------------------------------------------------------
(* The sectors of a volume                                                 *)

(* The k-th sector of a cluster.                                           *)
SectorOf(c, k) == database + (c - 2) * volume.csize + k

LEMMA VolumeIs ==
    ASSUME volume \in Volumes
    PROVE  /\ {SECTOR, ENTRIES, INDEX, CLUST} \subseteq Nat \ {0} /\ MaxRead \in Nat
           /\ volume.csize \in Nat \ {0}
           /\ volume.n_fatent \in Nat /\ 3 <= volume.n_fatent /\ volume.n_fatent < CLUST
           /\ n_rootdir \in Nat \ {0} /\ n_rootdir < INDEX
           /\ n_rootdir \div ENTRIES \in Nat \ {0}
           /\ n_rootdir = ENTRIES * (n_rootdir \div ENTRIES)
           /\ database \in Nat /\ database = 1 + (n_rootdir \div ENTRIES)
<1>1. /\ {SECTOR, ENTRIES, INDEX, CLUST} \subseteq Nat \ {0} /\ MaxRead \in Nat
      /\ volume.csize \in Nat \ {0}
      /\ volume.n_fatent \in Nat /\ 3 <= volume.n_fatent /\ volume.n_fatent < CLUST
  <2>1. {SECTOR, ENTRIES, INDEX, CLUST} \subseteq Nat \ {0} /\ MaxRead \in Nat
    BY FatAssumption
  <2>2. volume.csize \in {1, 2, 4, 8, 16, 32, 64, 128} /\ volume.n_fatent \in 3 .. CLUST - 1
    BY FatAssumption
  <2>. QED  BY <2>1, <2>2
<1>2. /\ n_rootdir \in Nat \ {0} /\ n_rootdir < INDEX /\ n_rootdir % ENTRIES = 0
  BY FatAssumption DEF n_rootdir
<1>3. /\ n_rootdir \div ENTRIES \in Nat
      /\ n_rootdir = ENTRIES * (n_rootdir \div ENTRIES) + (n_rootdir % ENTRIES)
  <2>1. ENTRIES \in Nat /\ ENTRIES > 0 /\ n_rootdir \in Nat
    BY <1>1, <1>2
  <2>. QED  BY <2>1, DivMod
<1>4. n_rootdir \div ENTRIES # 0
  BY <1>1, <1>2, <1>3
<1>. QED  BY <1>1, <1>2, <1>3, <1>4 DEF database, dirbase

LEMMA FatDomain == volume \in Volumes => DOMAIN volume.fat = 2 .. volume.n_fatent - 1
BY FatAssumption

LEMMA TableIs ==
    ASSUME volume \in Volumes, NEW d \in 2 .. volume.n_fatent - 1
    PROVE  volume.table[d] \in Seq(DirEntry) /\ Len(volume.table[d]) = volume.csize * ENTRIES
<1>1. \A c \in 2 .. volume.n_fatent - 1 :
        /\ volume.table[c] \in Seq(DirEntry)
        /\ Len(volume.table[c]) = volume.csize * ENTRIES
  BY FatAssumption, ZenonT(30)
<1>. QED  BY <1>1

LEMMA RootSector ==
    ASSUME volume \in Volumes, NEW n \in Nat, n < n_rootdir
    PROVE  /\ dirbase + (n \div ENTRIES) \in Sectors
           /\ dirbase + (n \div ENTRIES) < database
           /\ EntryAt(dirbase + (n \div ENTRIES), n % ENTRIES) \in Range(volume.root)
<1>. DEFINE q == n \div ENTRIES
            d == n_rootdir \div ENTRIES
            r == n % ENTRIES
<1>1. /\ ENTRIES \in Nat /\ ENTRIES > 0 /\ volume.csize \in Nat /\ volume.n_fatent \in Nat
      /\ volume.n_fatent >= 3
      /\ n_rootdir \in Nat /\ d \in Nat /\ n_rootdir = ENTRIES * d /\ database = 1 + d
  BY VolumeIs
<1>2. q \in Nat /\ r \in 0 .. ENTRIES - 1 /\ n = ENTRIES * q + r
  BY <1>1, DivMod
<1>. HIDE DEF q, d, r
<1>3. q < d
  <2>1. SUFFICES ASSUME d <= q PROVE FALSE
    BY <1>1, <1>2
  <2>2. CASE d = q
    BY <1>1, <1>2, <2>2
  <2>3. CASE d < q
    <3>1. ENTRIES * d + ENTRIES <= ENTRIES * q
      BY <1>1, <1>2, <2>3, Bigger
    <3>. QED  BY <1>1, <1>2, <3>1
  <2>. QED  BY <1>1, <1>2, <2>1, <2>2, <2>3
<1>4. (volume.n_fatent - 2) * volume.csize \in Nat
  BY <1>1
<1>5. 1 + q \in Sectors /\ 1 + q < database
  BY <1>1, <1>2, <1>3, <1>4 DEF Sectors, dirbase
<1>6. EntryAt(1 + q, r) = volume.root[n + 1]
  <2>1. EntryAt(1 + q, r) = volume.root[((1 + q) - dirbase) * ENTRIES + r + 1]
    BY <1>5 DEF EntryAt
  <2>2. ((1 + q) - dirbase) * ENTRIES + r + 1 = n + 1
    <3>1. (1 + q) - dirbase = q /\ q * ENTRIES = ENTRIES * q
      BY <1>1, <1>2 DEF dirbase
    <3>. QED  BY <1>1, <1>2, <3>1
  <2>. QED  BY <2>1, <2>2
<1>7. volume.root[n + 1] \in Range(volume.root)
  BY <1>1, FatAssumption DEF n_rootdir, Range
<1>. QED  BY <1>5, <1>6, <1>7 DEF dirbase, q, r

LEMMA ClusterSector ==
    ASSUME volume \in Volumes, NEW c \in 2 .. volume.n_fatent - 1,
           NEW k \in 0 .. volume.csize - 1
    PROVE  /\ SectorOf(c, k) \in Sectors /\ SectorOf(c, k) >= database
           /\ \A e \in 0 .. ENTRIES - 1 :
                  EntryAt(SectorOf(c, k), e) \in Range(volume.table[c])
<1>. DEFINE z == volume.csize
            f == volume.n_fatent
            x == c - 2
            y == z * x
<1>1. /\ ENTRIES \in Nat /\ ENTRIES > 0 /\ z \in Nat /\ z > 0 /\ f \in Nat /\ f >= 3
      /\ database \in Nat /\ database > 0
  BY VolumeIs
<1>2. k \in 0 .. z - 1 /\ x \in Nat /\ x < f - 2 /\ c = x + 2
  BY <1>1
<1>. HIDE DEF x, z, f
<1>3. y \in Nat /\ z * x + z <= z * (f - 2)
  BY <1>1, <1>2, Bigger
<1>. HIDE DEF y
<1>4. SectorOf(c, k) = database + y + k
  <2>1. (c - 2) * volume.csize = y
    BY <1>1, <1>2 DEF y, x, z
  <2>. QED  BY <2>1 DEF SectorOf
<1>5. SectorOf(c, k) \in Sectors /\ SectorOf(c, k) >= database
  <2>1. (volume.n_fatent - 2) * volume.csize = z * (f - 2)
    BY <1>1 DEF z, f
  <2>2. z * (f - 2) \in Int
    BY <1>1
  <2>3. database + y + k <= database + z * (f - 2) - 1
    BY <1>1, <1>2, <1>3, <2>2 DEF y
  <2>. QED  BY <1>1, <1>2, <1>3, <1>4, <2>1, <2>2, <2>3 DEF Sectors, dirbase
<1>6. ASSUME NEW e \in 0 .. ENTRIES - 1
      PROVE  EntryAt(SectorOf(c, k), e) \in Range(volume.table[c])
  <2>. DEFINE sec == SectorOf(c, k) - database
              n == k * ENTRIES + e
  <2>1. sec \div z = x /\ sec % z = k
    <3>1. sec = z * x + k
      BY <1>1, <1>2, <1>3, <1>4 DEF y
    <3>. QED  BY <1>1, <1>2, <3>1, DivIs
  <2>2. n \in Nat /\ n < z * ENTRIES
    <3>1. ENTRIES * k + ENTRIES <= ENTRIES * z
      BY <1>1, <1>2, Bigger
    <3>2. ENTRIES * k = k * ENTRIES /\ ENTRIES * z = z * ENTRIES /\ ENTRIES * k \in Nat
      BY <1>1, <1>2
    <3>. QED  BY <1>1, <1>2, <3>1, <3>2
  <2>. HIDE DEF sec, n
  <2>3. EntryAt(SectorOf(c, k), e) = volume.table[c][n + 1]
    <3>1. ~(SectorOf(c, k) < database)
      BY <1>1, <1>4, <1>5, <1>3, <1>2
    <3>2. EntryAt(SectorOf(c, k), e)
              = volume.table[sec \div z + 2][(sec % z) * ENTRIES + e + 1]
      BY <3>1 DEF EntryAt, sec, z
    <3>. QED  BY <1>2, <2>1, <3>2 DEF n
  <2>4. volume.table[c] \in Seq(DirEntry) /\ Len(volume.table[c]) = z * ENTRIES
    BY FatAssumption, ZenonT(40) DEF z
  <2>5. n + 1 \in DOMAIN volume.table[c]
    BY <1>1, <2>2, <2>4
  <2>. QED  BY <2>3, <2>4, <2>5 DEF Range
<1>. QED  BY <1>5, <1>6

(* clust2sect accepts the volume's clusters and no other.                  *)
LEMMA Clust2SectIs ==
    ASSUME volume \in Volumes, NEW c \in Cluster
    PROVE  /\ c \in 2 .. volume.n_fatent - 1 =>
                  clust2sect(c) = SectorOf(c, 0) /\ clust2sect(c) # 0
           /\ c \notin 2 .. volume.n_fatent - 1 => clust2sect(c) = 0
<1>1. /\ CLUST \in Nat /\ volume.n_fatent \in Nat /\ 3 <= volume.n_fatent
      /\ volume.n_fatent < CLUST /\ volume.csize \in Nat
      /\ database \in Nat /\ database > 0 /\ c \in 0 .. CLUST - 1
  BY VolumeIs DEF Cluster
<1>2. (c - 2) % CLUST = IF c < 2 THEN c - 2 + CLUST ELSE c - 2
  <2>1. CASE c >= 2
    <3>1. c - 2 \in 0 .. CLUST - 1
      BY <1>1, <2>1
    <3>. QED  BY <1>1, <2>1, <3>1, Z3
  <2>2. CASE c < 2
    <3>1. c - 2 \in {-1, -2}
      BY <1>1, <2>2
    <3>. QED  BY <1>1, <2>2, <3>1, Z3
  <2>. QED  BY <1>1, <2>1, <2>2
<1>3. ASSUME c \in 2 .. volume.n_fatent - 1
      PROVE  clust2sect(c) = SectorOf(c, 0) /\ clust2sect(c) # 0
  <2>1. (c - 2) * volume.csize \in Nat
    BY <1>1, <1>3
  <2>. QED  BY <1>1, <1>2, <1>3, <2>1 DEF clust2sect, SectorOf
<1>4. ASSUME c \notin 2 .. volume.n_fatent - 1 PROVE clust2sect(c) = 0
  BY <1>1, <1>2, <1>4 DEF clust2sect
<1>. QED  BY <1>3, <1>4

LEMMA GetFatIs ==
    ASSUME volume \in Volumes, NEW c \in Cluster, NEW x \in get_fat(c)
    PROVE  /\ x[1] \in Cluster /\ x[2] \in BOOLEAN
           /\ x[1] > 1 => c \in 2 .. volume.n_fatent - 1 /\ x[1] = volume.fat[c]
           /\ c \in 2 .. volume.n_fatent - 1 => x[2] \/ x[1] = volume.fat[c]
<1>1. /\ CLUST \in Nat /\ volume.n_fatent \in Nat /\ 3 <= volume.n_fatent
      /\ volume.n_fatent < CLUST /\ c \in 0 .. CLUST - 1
  BY VolumeIs DEF Cluster
<1>2. volume.fat \in [2 .. volume.n_fatent - 1 -> 0 .. CLUST - 1]
  BY FatAssumption
<1>3. 1 \in Cluster
  BY <1>1 DEF Cluster
<1>4. CASE c < 2 \/ c >= volume.n_fatent
  <2>1. x = <<1, FALSE>>
    BY <1>4 DEF get_fat
  <2>. QED  BY <1>1, <1>3, <1>4, <2>1
<1>5. CASE ~(c < 2 \/ c >= volume.n_fatent)
  <2>1. x = <<volume.fat[c], FALSE>> \/ x = <<1, TRUE>>
    BY <1>5 DEF get_fat
  <2>2. c \in 2 .. volume.n_fatent - 1
    BY <1>1, <1>5
  <2>3. volume.fat[c] \in Cluster
    BY <1>2, <2>2 DEF Cluster
  <2>4. CASE x = <<volume.fat[c], FALSE>>
    BY <2>2, <2>3, <2>4
  <2>5. CASE x = <<1, TRUE>>
    BY <1>3, <2>2, <2>5
  <2>. QED  BY <2>1, <2>4, <2>5
<1>. QED  BY <1>4, <1>5

-----------------------------------------------------------------------------
(* The inductive invariant                                                 *)

(* The directory that is searched, ...                                     *)
Starts == {0} \cup 2 .. volume.n_fatent - 1

(* ... of a sound volume the root or one that its entries name, and ...    *)
Directories == CHOOSE D \in SUBSET DOMAIN volume.fat : SoundWith(D)
InSound == Sound => dj.sclust \in {0} \cup Directories

(* ... the entry looked at, in the sector named.                           *)
InDirectory ==
    /\ DOMAIN dj = DOMAIN NoDir /\ dj.sclust \in Starts
    /\ \/ /\ dj.sclust = 0 /\ dj.clust = 0 /\ dj.index < n_rootdir
          /\ dj.sect = dirbase + (dj.index \div ENTRIES)
       \/ /\ dj.sclust # 0 /\ dj.clust \in 2 .. volume.n_fatent - 1
          /\ dj.clust = Chain(dj.sclust)[(dj.index \div ENTRIES) \div volume.csize]
          /\ dj.sect = SectorOf(dj.clust, (dj.index \div ENTRIES) % volume.csize)

(* Before it the directory neither ends nor has the name looked for.       *)
Differs(x) == x # End /\ (x.vol \/ x.name # dj.fn)
NoneBefore == \A h \in 0 .. dj.index - 1 : Holds(dj.sclust, h) /\ Differs(EntryOf(dj.sclust, h))

(* The name is one that create_name makes of a path.                       *)
PathCharacter == STRING \ {Blank, Deleted}
NameOfPath == dj.fn[1] \notin {Dot, Deleted} /\ rest \in Seq(PathCharacter)

Finding == InDirectory /\ InSound /\ NoneBefore /\ NameOfPath

(* curr_clust and dsect are those of the file's s-th sector.               *)
StandsIn(s) ==
    /\ curr_clust = Chain(org_clust)[s \div volume.csize]
    /\ curr_clust \in 2 .. volume.n_fatent - 1
    /\ dsect = SectorOf(curr_clust, s % volume.csize)

HasRead ==
    /\ got \in Seq(Int \X Int) /\ Len(got) = fptr
    /\ \A n \in 1 .. fptr : got[n] = ByteAt(n - 1)
    /\ pc = "data" => StandsIn(fptr \div SECTOR)
    /\ pc # "data" /\ fptr > 0 => StandsIn((fptr - 1) \div SECTOR)

Reads ==
    /\ FatFs /\ flag /\ called = "pf_read"
    /\ btr <= fsize - fptr /\ br + btr <= asked
    /\ br + btr < asked => btr = fsize - fptr
    /\ pc = "data" => btr > 0 /\ fptr % SECTOR = 0

Answered ==
    /\ result = "FR_OK" /\ br < asked => fptr = fsize
    /\ result = "FR_DISK_ERR" => failed \/ ~Sound

FilesInv ==
    /\ FatTypeOK /\ fsize \in Nat /\ asked \in 0 .. MaxRead
    /\ pc = "find" => Finding /\ ~flag /\ called = "pf_open"
    /\ pc \in {"read", "data"} => Reads
    /\ flag /\ fsize > 0 /\ Sound => HasChain(org_clust, fsize)
    /\ FatFs /\ flag => HasRead
    /\ pc = "idle" /\ called = "pf_read" => Answered

LEMMA Fixed ==
    ASSUME volume' = volume
    PROVE  /\ n_rootdir' = n_rootdir /\ database' = database /\ Sectors' = Sectors
           /\ \A c, k : SectorOf(c, k)' = SectorOf(c, k)
BY DEF n_rootdir, database, dirbase, Sectors, SectorOf

LEMMA DirectoryFixed ==
    ASSUME volume' = volume
    PROVE  /\ \A c, h : (Holds(c, h)' <=> Holds(c, h)) /\ EntryOf(c, h)' = EntryOf(c, h)
           /\ \A c : Entries(c)' = Entries(c)
<1>1. \A c : Chain(c)' = Chain(c)
  BY ChainSame
<1>2. \A c, h : ClusterOf(c, h)' = ClusterOf(c, h)
  BY <1>1 DEF ClusterOf
<1>3. \A c, h : (Holds(c, h)' <=> Holds(c, h)) /\ EntryOf(c, h)' = EntryOf(c, h)
  BY <1>2 DEF Holds, EntryOf, n_rootdir
<1>. QED  BY <1>3 DEF Entries

LEMMA SamePlace ==
    ASSUME volume' = volume, dj'.sclust = dj.sclust, NEW h
    PROVE  /\ Holds(dj.sclust, h)' <=> Holds(dj.sclust, h)
           /\ EntryOf(dj.sclust, h)' = EntryOf(dj.sclust, h)
<1>1. ClusterOf(dj.sclust, h)' = ClusterOf(dj.sclust, h)
  BY DEF ClusterOf, Chain
<1>. QED  BY <1>1 DEF Holds, EntryOf, n_rootdir

LEMMA SoundFixed ==
    ASSUME volume' = volume
    PROVE  /\ Sound' <=> Sound
           /\ \A c, sz : HasChain(c, sz)' <=> HasChain(c, sz)
           /\ \A D : SoundWith(D)' <=> SoundWith(D)
           /\ Directories' = Directories
<1>1. \A c : Chain(c)' = Chain(c)
  BY ChainSame
<1>2. \A c, sz : HasChain(c, sz)' <=> HasChain(c, sz)
  BY <1>1 DEF HasChain
<1>3. ASSUME NEW D PROVE SoundWith(D)' <=> SoundWith(D)
  <2>1. \A c : Entries(c)' = Entries(c)
    BY DirectoryFixed
  <2>. QED  BY <1>2, <2>1, Zenon DEF SoundWith, WellFormed
<1>. QED  BY <1>2, <1>3 DEF Sound, Directories

LEMMA FilesInit == FatInit => FilesInv
<1>. SUFFICES ASSUME FatInit PROVE FilesInv
  OBVIOUS
<1>1. volume \in Volumes
  BY DEF FatInit
<1>2. FatTypeOK
  <2>1. MaxRead \in Nat /\ INDEX \in Nat \ {0} /\ CLUST \in Nat \ {0}
    BY <1>1, VolumeIs
  <2>2. dj.index = 0
    BY DEF FatInit, NoDir
  <2>3. dj.index \in 0 .. INDEX - 1 /\ btr \in 0 .. MaxRead /\ br \in 0 .. MaxRead
    BY <2>1, <2>2 DEF FatInit
  <2>4. fptr \in 0 .. fsize
    BY <2>1, <2>2 DEF FatInit
  <2>5. {org_clust, curr_clust} \subseteq 0 .. CLUST - 1
    BY <2>1, <2>2 DEF FatInit
  <2>6. FatFs \in BOOLEAN /\ flag \in BOOLEAN /\ pc \in {"idle", "find", "read", "data"}
     /\ result \in {"FR_OK", "FR_DISK_ERR", "FR_NO_FILE", "FR_NOT_OPENED", "FR_NOT_ENABLED"}
    BY DEF FatInit
  <2>. QED  BY <1>1, <2>3, <2>4, <2>5, <2>6 DEF FatTypeOK
<1>. QED  BY <1>1, <1>2, VolumeIs DEF FatInit, FilesInv

LEMMA Zero ==
    ASSUME NEW d \in Nat, d > 0
    PROVE  0 \div d = 0 /\ 0 % d = 0
BY Z3

LEMMA InDirectoryNext ==
    ASSUME volume' = volume, DOMAIN dj' = DOMAIN NoDir, dj'.sclust \in Starts,
           \/ /\ dj'.sclust = 0 /\ dj'.clust = 0 /\ dj'.index < n_rootdir
              /\ dj'.sect = dirbase + (dj'.index \div ENTRIES)
           \/ /\ dj'.sclust # 0 /\ dj'.clust \in 2 .. volume.n_fatent - 1
              /\ dj'.clust = Chain(dj'.sclust)[(dj'.index \div ENTRIES) \div volume.csize]
              /\ dj'.sect = SectorOf(dj'.clust, (dj'.index \div ENTRIES) % volume.csize)
    PROVE  InDirectory'
<1>1. (Chain(dj.sclust))' = Chain(dj'.sclust)
  BY DEF Chain
<1>2. Starts' = Starts /\ n_rootdir' = n_rootdir /\ NoDir' = NoDir
  BY DEF Starts, n_rootdir, NoDir
<1>3. SectorOf(dj.clust, (dj.index \div ENTRIES) % volume.csize)'
          = SectorOf(dj'.clust, (dj'.index \div ENTRIES) % volume.csize)
  BY DEF SectorOf, database, dirbase, n_rootdir
<1>. QED  BY <1>1, <1>2, <1>3 DEF InDirectory, dirbase

-----------------------------------------------------------------------------
(* The names of a path                                                     *)

(* The first member of a set of places in a sequence of length n.          *)
LEMMA FirstOf ==
    ASSUME NEW n \in Nat, NEW T \in SUBSET (1 .. n)
    PROVE  /\ Min(T \cup {n + 1}) \in 1 .. n + 1
           /\ Min(T \cup {n + 1}) # n + 1 => Min(T \cup {n + 1}) \in T
           /\ \A k \in T : Min(T \cup {n + 1}) <= k
<1>. DEFINE U == T \cup {n + 1}
<1>1. U \in SUBSET Nat /\ U # {}
  OBVIOUS
<1>2. \E m \in U : \A k \in U : m <= k
  BY <1>1, LeastMember
<1>3. Min(U) \in U /\ \A k \in U : Min(U) <= k
  BY <1>2 DEF Min
<1>. DEFINE m == Min(U)
<1>4. m \in U /\ (\A k \in U : m <= k)
  BY <1>3
<1>. HIDE DEF m
<1>5. m \in 1 .. n + 1 /\ (m # n + 1 => m \in T) /\ \A k \in T : m <= k
  BY <1>4
<1>. QED  BY <1>5 DEF m

(* What create_name computes on its way.                                   *)
DotOf(p) == Min({k \in 1 .. Len(p) : p[k] = Dot} \cup {Len(p) + 1})
EndsAt(p, k) == \/ p[k] = Slash
                \/ k < DotOf(p) /\ k > BODY
                \/ k > DotOf(p) /\ (p[k] = Dot \/ k - DotOf(p) > NAME - BODY)
LengthOf(p) == Min({k \in 1 .. Len(p) : EndsAt(p, k)} \cup {Len(p) + 1}) - 1

LEMMA CreateNameIs ==
    ASSUME NEW p
    PROVE  /\ create_name(p).fn =
                  [i \in 1 .. NAME |->
                      IF i <= BODY
                      THEN IF i < DotOf(p) /\ i <= LengthOf(p) THEN p[i] ELSE Blank
                      ELSE IF DotOf(p) + (i - BODY) <= LengthOf(p)
                           THEN p[DotOf(p) + (i - BODY)] ELSE Blank]
           /\ create_name(p).last <=> LengthOf(p) = Len(p)
           /\ create_name(p).rest = SubSeq(p, LengthOf(p) + 2, Len(p))
BY Zenon DEF create_name, DotOf, EndsAt, LengthOf

LEMMA PlacesAre ==
    ASSUME NEW p \in Seq(PathCharacter)
    PROVE  /\ DotOf(p) \in 1 .. Len(p) + 1 /\ LengthOf(p) \in 0 .. Len(p)
           /\ DotOf(p) # Len(p) + 1 => p[DotOf(p)] = Dot
           /\ \A k \in 1 .. Len(p) : p[k] = Dot => DotOf(p) <= k
           /\ LengthOf(p) < Len(p) => EndsAt(p, LengthOf(p) + 1)
           /\ \A k \in 1 .. LengthOf(p) : ~EndsAt(p, k)
<1>1. Len(p) \in Nat
  OBVIOUS
<1>. DEFINE D == {k \in 1 .. Len(p) : p[k] = Dot}
            E == {k \in 1 .. Len(p) : EndsAt(p, k)}
            m == Min(E \cup {Len(p) + 1})
<1>2. D \in SUBSET (1 .. Len(p)) /\ E \in SUBSET (1 .. Len(p))
  OBVIOUS
<1>3. /\ DotOf(p) \in 1 .. Len(p) + 1
      /\ DotOf(p) # Len(p) + 1 => DotOf(p) \in D
      /\ \A k \in D : DotOf(p) <= k
  <2>. DEFINE d == Min(D \cup {Len(p) + 1})
  <2>1. d \in 1 .. Len(p) + 1 /\ (d # Len(p) + 1 => d \in D) /\ \A k \in D : d <= k
    <3>1. d = Min(D \cup {Len(p) + 1})
      OBVIOUS
    <3>. HIDE DEF D, E, d
    <3>. QED  BY <1>1, <1>2, <3>1, FirstOf
  <2>2. DotOf(p) = d
    BY DEF DotOf
  <2>. HIDE DEF D, d
  <2>. QED  BY <2>1, <2>2
<1>4. m \in 1 .. Len(p) + 1 /\ (m # Len(p) + 1 => m \in E) /\ \A k \in E : m <= k
  <2>1. m = Min(E \cup {Len(p) + 1})
    OBVIOUS
  <2>. HIDE DEF E, m
  <2>. QED  BY <1>1, <1>2, <2>1, FirstOf
<1>5. LengthOf(p) = m - 1
  BY DEF LengthOf
<1>. HIDE DEF m
<1>. QED  BY <1>1, <1>3, <1>4, <1>5

(* A name never begins with a dot; the rest of a path is a path.           *)
LEMMA NameIsOfPath ==
    ASSUME NEW p \in Seq(PathCharacter)
    PROVE  /\ create_name(p).fn[1] \notin {Dot, Deleted}
           /\ create_name(p).rest \in Seq(PathCharacter)
<1>1. /\ BODY \in Nat /\ BODY > 0 /\ NAME \in Nat /\ NAME > 0 /\ 1 \in 1 .. NAME /\ 1 <= BODY
  BY FatAssumption
<1>2. create_name(p).fn[1] = IF 1 < DotOf(p) /\ 1 <= LengthOf(p) THEN p[1] ELSE Blank
  <2>. DEFINE F(i) == IF i <= BODY
                      THEN IF i < DotOf(p) /\ i <= LengthOf(p) THEN p[i] ELSE Blank
                      ELSE IF DotOf(p) + (i - BODY) <= LengthOf(p)
                           THEN p[DotOf(p) + (i - BODY)] ELSE Blank
  <2>1. create_name(p).fn = [i \in 1 .. NAME |-> F(i)]
    BY CreateNameIs, Zenon
  <2>2. F(1) = IF 1 < DotOf(p) /\ 1 <= LengthOf(p) THEN p[1] ELSE Blank
    BY <1>1
  <2>. HIDE DEF F
  <2>. QED  BY <1>1, <2>1, <2>2
<1>3. ASSUME 1 < DotOf(p), 1 <= LengthOf(p) PROVE p[1] \notin {Dot, Deleted}
  <2>1. 1 \in 1 .. Len(p)
    BY <1>3, PlacesAre
  <2>2. p[1] # Dot
    BY <1>3, <2>1, PlacesAre
  <2>. QED  BY <2>1, <2>2 DEF PathCharacter
<1>4. Blank \notin {Dot, Deleted}
  BY DEF Blank, Dot, Deleted
<1>5. create_name(p).rest \in Seq(PathCharacter)
  <2>1. LengthOf(p) + 2 \in 1 .. Len(p) + 2 /\ Len(p) \in Nat
    BY PlacesAre
  <2>2. ASSUME LengthOf(p) + 2 <= Len(p) PROVE SubSeq(p, LengthOf(p) + 2, Len(p)) \in Seq(PathCharacter)
    BY <2>1, <2>2
  <2>3. ASSUME LengthOf(p) + 2 > Len(p) PROVE SubSeq(p, LengthOf(p) + 2, Len(p)) \in Seq(PathCharacter)
    BY <2>1, <2>3
  <2>4. create_name(p).rest = SubSeq(p, LengthOf(p) + 2, Len(p))
    BY CreateNameIs, Zenon
  <2>. QED  BY <2>1, <2>2, <2>3, <2>4
<1>. QED  BY <1>2, <1>3, <1>4, <1>5

(* What follow_path's next turn finds.                                     *)
LEMMA SearchFinds ==
    ASSUME volume \in Volumes, volume' = volume, NEW c \in Cluster,
           NEW s \in Seq(PathCharacter), Search(s, c)
    PROVE  \/ /\ pc' = "find" /\ result' = result /\ InDirectory' /\ NameOfPath' /\ NoneBefore'
              /\ dj'.index = 0 /\ dj'.sclust = c /\ dj'.fn = create_name(s).fn
              /\ dj'.last = create_name(s).last /\ rest' = create_name(s).rest
           \/ /\ pc' = "idle" /\ result' = "FR_DISK_ERR" /\ dj' = dj /\ c \notin Starts
<1>1. /\ ENTRIES \in Nat /\ ENTRIES > 0 /\ volume.csize \in Nat /\ volume.csize > 0
      /\ volume.n_fatent \in Nat /\ volume.n_fatent >= 3
      /\ n_rootdir \in Nat /\ n_rootdir > 0 /\ dirbase = 1
  BY VolumeIs DEF dirbase
<1>2. CASE c = 1 \/ c >= volume.n_fatent
  BY <1>1, <1>2 DEF Search, ReturnWith, Starts
<1>3. CASE ~(c = 1 \/ c >= volume.n_fatent)
  <2>1. /\ dj' = [sclust |-> c, clust |-> c, index |-> 0,
                  sect |-> IF c # 0 THEN clust2sect(c) ELSE dirbase,
                  fn |-> create_name(s).fn, last |-> create_name(s).last]
        /\ rest' = create_name(s).rest /\ pc' = "find" /\ result' = result
    BY <1>3 DEF Search
  <2>2. /\ DOMAIN dj' = DOMAIN NoDir /\ dj'.clust = c /\ dj'.index = 0 /\ dj'.sclust = c
        /\ dj'.sect = IF c # 0 THEN clust2sect(c) ELSE dirbase
        /\ dj'.fn = create_name(s).fn /\ dj'.last = create_name(s).last
    BY <2>1 DEF NoDir
  <2>3. 0 \div ENTRIES = 0 /\ 0 % volume.csize = 0 /\ 0 \div volume.csize = 0
    BY <1>1, Zero
  <2>4. InDirectory'
    <3>1. CASE c = 0
      BY <1>1, <2>2, <2>3, <3>1, InDirectoryNext DEF Starts
    <3>2. CASE c # 0
      <4>1. c \in 2 .. volume.n_fatent - 1
        BY <1>1, <1>3, <3>2 DEF Cluster
      <4>2. dj'.sect = SectorOf(c, 0) /\ Chain(c)[0] = c
        BY <2>2, <3>2, <4>1, Clust2SectIs, ChainStep
      <4>3. dj'.sclust \in Starts
        BY <2>2, <4>1 DEF Starts
      <4>. QED  BY <2>2, <2>3, <3>2, <4>1, <4>2, <4>3, InDirectoryNext
    <3>. QED  BY <3>1, <3>2
  <2>5. NameOfPath'
    <3>1. dj'.fn[1] \notin {Dot, Deleted} /\ rest' \in Seq(PathCharacter)
      BY <2>1, <2>2, NameIsOfPath
    <3>. QED  BY <3>1 DEF NameOfPath
  <2>6. NoneBefore'
    BY <2>2 DEF NoneBefore
  <2>. QED  BY <2>1, <2>2, <2>4, <2>5, <2>6
<1>. QED  BY <1>2, <1>3

(* The entry looked at is the directory's.                                 *)
LEMMA LooksAt ==
    ASSUME volume \in Volumes, InDirectory, dj.index \in 0 .. INDEX - 1
    PROVE  /\ Holds(dj.sclust, dj.index)
           /\ EntryAt(dj.sect, dj.index % ENTRIES) = EntryOf(dj.sclust, dj.index)
<1>. DEFINE n == dj.index
            z == volume.csize
            k == n \div ENTRIES
            e == n % ENTRIES
            q == k \div z
            r == k % z
<1>1. /\ ENTRIES \in Nat /\ ENTRIES > 0 /\ z \in Nat /\ z > 0
      /\ INDEX \in Nat /\ n \in Nat /\ database \in Nat /\ database > 0
      /\ n_rootdir \in Nat
  BY VolumeIs
<1>2. e \in 0 .. ENTRIES - 1 /\ k \in Nat /\ n = ENTRIES * k + e
  BY <1>1, DivMod
<1>3. n \div (z * ENTRIES) = q /\ n % (z * ENTRIES) = r * ENTRIES + e
  BY <1>1, NestedDiv
<1>. HIDE DEF k, e
<1>4. r \in 0 .. z - 1 /\ q \in Nat
  BY <1>1, <1>2, DivMod
<1>5. CASE /\ dj.sclust = 0 /\ dj.clust = 0 /\ n < n_rootdir /\ dj.sect = dirbase + k
  <2>1. Holds(dj.sclust, n)
    BY <1>5 DEF Holds
  <2>2. dj.sect < database
    BY <1>1, <1>5, RootSector DEF k
  <2>3. EntryAt(dj.sect, e) = volume.root[(dj.sect - dirbase) * ENTRIES + e + 1]
    BY <2>2 DEF EntryAt
  <2>4. (dj.sect - dirbase) * ENTRIES + e + 1 = n + 1
    <3>1. dj.sect - dirbase = k /\ k * ENTRIES = ENTRIES * k
      BY <1>1, <1>2, <1>5 DEF dirbase
    <3>. QED  BY <1>1, <1>2, <3>1
  <2>. QED  BY <1>5, <2>1, <2>3, <2>4 DEF EntryOf, e
<1>6. CASE /\ dj.sclust # 0 /\ dj.clust \in 2 .. volume.n_fatent - 1
           /\ dj.clust = Chain(dj.sclust)[q] /\ dj.sect = SectorOf(dj.clust, r)
  <2>. DEFINE x == dj.clust - 2
              sec == dj.sect - database
  <2>1. ClusterOf(dj.sclust, n) = dj.clust
    BY <1>3, <1>6 DEF ClusterOf
  <2>2. Holds(dj.sclust, n)
    <3>1. dj.clust \in DOMAIN volume.fat
      BY <1>6, FatDomain
    <3>. QED  BY <1>6, <2>1, <3>1 DEF Holds
  <2>3. dj.sect >= database /\ dj.sect \in Int
    BY <1>1, <1>4, <1>6, ClusterSector DEF Sectors
  <2>4. sec \div z = x /\ sec % z = r
    <3>1. sec = z * x + r /\ x \in Nat
      <4>1. volume.n_fatent \in Nat
        BY VolumeIs
      <4>2. x \in Nat /\ dj.sect = database + x * z + r
        BY <1>6, <4>1 DEF SectorOf
      <4>3. x * z \in Nat /\ x * z = z * x
        BY <1>1, <4>2
      <4>. QED  BY <1>1, <1>4, <4>2, <4>3
    <3>. HIDE DEF sec, x, r, z
    <3>. QED  BY <1>1, <1>4, <3>1, DivIs
  <2>5. EntryAt(dj.sect, e) = volume.table[sec \div z + 2][(sec % z) * ENTRIES + e + 1]
    BY <1>1, <2>3 DEF EntryAt
  <2>6. x + 2 = dj.clust
    BY <1>6, VolumeIs
  <2>7. EntryAt(dj.sect, e) = volume.table[dj.clust][(r * ENTRIES + e) + 1]
    <3>. HIDE DEF sec, r
    <3>. QED  BY <2>4, <2>5, <2>6
  <2>. QED  BY <1>3, <1>6, <2>1, <2>2, <2>7 DEF EntryOf, e
<1>. QED  BY <1>5, <1>6 DEF InDirectory, k

(* The entry looked at is one of the volume's.                             *)
AllEntries == Range(volume.root) \cup UNION {Range(volume.table[c]) : c \in DOMAIN volume.table}

LEMMA EntryIsOfVolume ==
    ASSUME volume \in Volumes, InDirectory, dj.index \in 0 .. INDEX - 1
    PROVE  /\ EntryAt(dj.sect, dj.index % ENTRIES) \in AllEntries
           /\ EntryAt(dj.sect, dj.index % ENTRIES) \in DirEntry
           /\ dj.sect \in Sectors
<1>1. /\ ENTRIES \in Nat /\ ENTRIES > 0 /\ volume.csize \in Nat /\ volume.csize > 0
      /\ INDEX \in Nat /\ dj.index \in Nat
  BY VolumeIs
<1>2. /\ dj.index % ENTRIES \in 0 .. ENTRIES - 1 /\ dj.index \div ENTRIES \in Nat
  BY <1>1, DivMod
<1>3. AllEntries \subseteq DirEntry
  <2>1. Range(volume.root) \subseteq DirEntry
    BY FatAssumption DEF Range
  <2>2. ASSUME NEW c \in DOMAIN volume.table PROVE Range(volume.table[c]) \subseteq DirEntry
    <3>1. c \in 2 .. volume.n_fatent - 1
      BY FatAssumption, SMTT(30)
    <3>2. volume.table[c] \in Seq(DirEntry)
      BY <3>1, FatAssumption
    <3>. QED  BY <3>2 DEF Range
  <2>. QED  BY <2>1, <2>2 DEF AllEntries
<1>4. CASE dj.clust = 0 /\ dj.index < n_rootdir /\ dj.sect = dirbase + (dj.index \div ENTRIES)
  BY <1>1, <1>3, <1>4, RootSector DEF AllEntries
<1>5. CASE /\ dj.clust \in 2 .. volume.n_fatent - 1
           /\ dj.sect = SectorOf(dj.clust, (dj.index \div ENTRIES) % volume.csize)
  <2>1. (dj.index \div ENTRIES) % volume.csize \in 0 .. volume.csize - 1
    BY <1>1, <1>2, DivMod
  <2>2. /\ EntryAt(dj.sect, dj.index % ENTRIES) \in Range(volume.table[dj.clust])
        /\ dj.sect \in Sectors
    BY <1>2, <1>5, <2>1, ClusterSector
  <2>3. dj.clust \in DOMAIN volume.table
    BY <1>5, FatAssumption
  <2>. QED  BY <1>3, <2>2, <2>3 DEF AllEntries
<1>. QED  BY <1>4, <1>5 DEF InDirectory

-----------------------------------------------------------------------------
(* What each step leaves true                                              *)

LEMMA StrippedIsPath == \A p \in Paths : Stripped(p) \in Seq(PathCharacter)
<1>1. Paths \subseteq Seq(PathCharacter)
  BY PathAssumption DEF PathCharacter
<1>. QED  BY <1>1 DEF Stripped

LEMMA PfOpenStep == FilesInv /\ pf_open => FilesInv'
<1>. SUFFICES ASSUME FilesInv, pf_open PROVE FilesInv'
  OBVIOUS
<1>1. /\ volume' = volume /\ volume \in Volumes /\ FatTypeOK /\ called' = "pf_open"
      /\ fptr' = fptr /\ fsize' = fsize /\ org_clust' = org_clust /\ curr_clust' = curr_clust
      /\ dsect' = dsect /\ FatFs' = FatFs /\ btr' = 0 /\ br' = 0 /\ asked' = 0
      /\ MaxRead \in Nat /\ INDEX \in Nat \ {0} /\ CLUST \in Nat \ {0}
  BY VolumeIs DEF FilesInv, FatTypeOK, pf_open, NoTransfer, file
<1>2. /\ \/ pc' = "idle" /\ dj' = dj
         \/ pc' = "find" /\ Finding' /\ dj'.index = 0
      /\ result' \in {result, "FR_DISK_ERR", "FR_NO_FILE", "FR_NOT_ENABLED"}
      /\ (~FatFs /\ flag' = flag /\ pc' = "idle") \/ flag' = FALSE
  <2>1. CASE ~FatFs
    BY <2>1 DEF pf_open, ReturnWith
  <2>2. CASE FatFs
    <3>1. flag' = FALSE
      BY <2>2 DEF pf_open
    <3>2. PICK p \in Paths : \/ ReturnWith("FR_NO_FILE") /\ dj' = dj
                             \/ Search(Stripped(p), 0)
      BY <2>2 DEF pf_open
    <3>3. ASSUME Search(Stripped(p), 0)
          PROVE  pc' = "find" /\ Finding' /\ dj'.index = 0 /\ result' = result
      <4>1. 0 \in Cluster /\ 0 \in Starts
        BY <1>1 DEF Cluster, Starts
      <4>2. /\ pc' = "find" /\ result' = result /\ InDirectory' /\ NameOfPath' /\ NoneBefore'
            /\ dj'.index = 0 /\ dj'.sclust = 0
        BY <1>1, <3>3, <4>1, StrippedIsPath, SearchFinds
      <4>. QED  BY <4>2 DEF Finding, InSound
    <3>. QED  BY <3>1, <3>2, <3>3 DEF ReturnWith
  <2>. QED  BY <2>1, <2>2
<1>3. FatTypeOK'
  <2>1. dj'.index \in 0 .. INDEX - 1
    BY <1>1, <1>2 DEF FatTypeOK
  <2>2. FatFs' \in BOOLEAN /\ flag' \in BOOLEAN /\ pc' \in {"idle", "find", "read", "data"}
     /\ result' \in {"FR_OK", "FR_DISK_ERR", "FR_NO_FILE", "FR_NOT_OPENED", "FR_NOT_ENABLED"}
    BY <1>1, <1>2 DEF FatTypeOK
  <2>3. btr' \in 0 .. MaxRead /\ br' \in 0 .. MaxRead
    BY <1>1
  <2>. QED  BY <1>1, <2>1, <2>2, <2>3 DEF FatTypeOK
<1>4. (flag /\ fsize > 0 /\ Sound => HasChain(org_clust, fsize))'
  <2>1. HasChain(org_clust, fsize)' <=> HasChain(org_clust, fsize)
    <3>1. \A c : Chain(c)' = Chain(c)
      BY <1>1, ChainSame
    <3>. QED  BY <1>1, <3>1 DEF HasChain
  <2>2. Sound' <=> Sound
    BY <1>1, SoundFixed
  <2>. QED  BY <1>1, <1>2, <2>1, <2>2 DEF FilesInv
<1>. QED  BY <1>1, <1>2, <1>3, <1>4 DEF FilesInv

(* The next entry is the directory's, or there is none, ...                *)
GoesOn == /\ pc' = "find" /\ result' = result /\ InDirectory'
          /\ dj'.index = dj.index + 1 /\ dj'.index \in 0 .. INDEX - 1
          /\ dj'.sclust = dj.sclust /\ dj'.fn = dj.fn /\ dj'.last = dj.last
Ends == /\ pc' = "idle" /\ result' = "FR_NO_FILE" /\ dj' = dj
        /\ dj.index + 1 = INDEX \/ ~Holds(dj.sclust, dj.index + 1)
(* ... or the chain of clusters stops in the middle, or seems to.          *)
Breaks == /\ pc' = "idle" /\ result' = "FR_DISK_ERR" /\ dj' = dj
          /\ \/ failed'
             \/ /\ dj.sclust # 0
                /\ \E m \in Nat : /\ Chain(dj.sclust)[m] \in 2 .. volume.n_fatent - 1
                                  /\ Chain(dj.sclust)[m + 1] <= 1

LEMMA DirNextFinds ==
    ASSUME FatTypeOK, InDirectory, pc = "find", volume' = volume, dir_next
    PROVE  GoesOn \/ Ends \/ Breaks
<1>. DEFINE n == dj.index
            i == (n + 1) % INDEX
            k == n \div ENTRIES
            q == k \div volume.csize
<1>1. /\ volume \in Volumes /\ n \in 0 .. INDEX - 1
      /\ ENTRIES \in Nat /\ ENTRIES > 0 /\ volume.csize \in Nat /\ volume.csize > 0
      /\ INDEX \in Nat /\ INDEX > 0 /\ n_rootdir \in Nat
      /\ volume.n_fatent \in Nat /\ CLUST \in Nat /\ volume.n_fatent < CLUST
  BY VolumeIs DEF FatTypeOK
<1>2. dj.sect # 0
  <2>1. dj.sect \in Sectors
    BY <1>1, EntryIsOfVolume
  <2>. QED  BY <2>1 DEF Sectors, dirbase
<1>3. n + 1 = INDEX => i = 0
  BY <1>1, Z3
<1>4. n + 1 < INDEX => i = n + 1
  BY <1>1, Z3
<1>5. CASE i = 0
  <2>1. n + 1 = INDEX
    BY <1>1, <1>4, <1>5
  <2>. QED  BY <1>5, <2>1 DEF dir_next, ReturnWith, Ends
<1>6. CASE i # 0
  <2>1. i = n + 1 /\ i \in 1 .. INDEX - 1
    BY <1>1, <1>3, <1>4, <1>6
  <2>2. /\ k \in Nat
        /\ i % ENTRIES # 0 => i \div ENTRIES = k
        /\ i % ENTRIES = 0 => i \div ENTRIES = k + 1
    <3>1. k \in Nat
      <4>1. n \in Nat
        BY <1>1
      <4>. HIDE DEF n
      <4>. QED  BY <1>1, <4>1, DivMod
    <3>2. /\ (n + 1) % ENTRIES # 0 => (n + 1) \div ENTRIES = k
          /\ (n + 1) % ENTRIES = 0 => (n + 1) \div ENTRIES = k + 1
      <4>. HIDE DEF i
      <4>1. n \in Nat
        BY <1>1
      <4>. QED  BY <1>1, <4>1, NextDiv
    <3>. HIDE DEF i, k
    <3>. QED  BY <2>1, <3>1, <3>2
  <2>3. /\ (k + 1) % volume.csize # 0 => /\ (k + 1) % volume.csize = (k % volume.csize) + 1
                                         /\ (k + 1) \div volume.csize = q
        /\ (k + 1) % volume.csize = 0 => (k + 1) \div volume.csize = q + 1
        /\ k % volume.csize \in 0 .. volume.csize - 1 /\ q \in Nat
    <3>1. k \in Nat
      BY <2>2
    <3>. HIDE DEF k
    <3>. QED  BY <1>1, <3>1, NextDiv, DivMod
  <2>. DEFINE To(s) == dj' = [dj EXCEPT !.index = i, !.sect = s] /\ pc' = pc /\ result' = result
              Onto(c) == dj' = [dj EXCEPT !.index = i, !.clust = c, !.sect = clust2sect(c)]
                         /\ pc' = pc /\ result' = result
              Gives(v) == pc' = "idle" /\ result' = v /\ dj' = dj
  <2>4. ASSUME i % ENTRIES # 0 PROVE To(dj.sect)
    BY <1>2, <1>6, <2>4 DEF dir_next
  <2>5. ASSUME i % ENTRIES = 0, dj.clust = 0
        PROVE  (~(i < n_rootdir) /\ Gives("FR_NO_FILE")) \/ (i < n_rootdir /\ To(dj.sect + 1))
    <3>1. CASE i >= n_rootdir
      BY <1>1, <1>2, <1>6, <2>1, <2>5, <3>1 DEF dir_next, ReturnWith
    <3>2. CASE ~(i >= n_rootdir)
      <4>1. To(dj.sect + 1)
        BY <1>2, <1>6, <2>5, <3>2 DEF dir_next, ReturnWith
      <4>2. i < n_rootdir
        BY <1>1, <2>1, <3>2
      <4>. QED  BY <4>1, <4>2
    <3>. QED  BY <3>1, <3>2
  <2>6. ASSUME i % ENTRIES = 0, dj.clust # 0, (i \div ENTRIES) % volume.csize # 0
        PROVE  To(dj.sect + 1)
    BY <1>2, <1>6, <2>6 DEF dir_next
  <2>7. ASSUME i % ENTRIES = 0, dj.clust # 0, (i \div ENTRIES) % volume.csize = 0
        PROVE  \E x \in get_fat(dj.clust) :
                  \/ x[1] <= 1 /\ Gives("FR_DISK_ERR") /\ failed' = x[2]
                  \/ ~(x[1] <= 1) /\ x[1] >= volume.n_fatent /\ Gives("FR_NO_FILE")
                  \/ ~(x[1] <= 1) /\ ~(x[1] >= volume.n_fatent) /\ Onto(x[1])
    BY <1>2, <1>6, <2>7 DEF dir_next, ReturnWith
  <2>. HIDE DEF k, i, n, q
  <2>8. CASE i % ENTRIES # 0
    <3>1. /\ DOMAIN dj' = DOMAIN NoDir /\ dj'.clust = dj.clust /\ dj'.index = i
          /\ dj'.sclust = dj.sclust /\ dj'.fn = dj.fn /\ dj'.last = dj.last
          /\ dj'.sect = dj.sect /\ pc' = "find" /\ result' = result
      BY <2>4, <2>8 DEF InDirectory, NoDir
    <3>2. n < n_rootdir => i < n_rootdir
      <4>1. n_rootdir % ENTRIES = 0
        BY FatAssumption DEF n_rootdir, FatTypeOK
      <4>2. n + 1 # n_rootdir
        BY <2>1, <2>8, <4>1
      <4>. QED  BY <1>1, <2>1, <4>2
    <3>3. i \div ENTRIES = k
      BY <2>2, <2>8
    <3>4. InDirectory'
      BY <3>1, <3>2, <3>3, InDirectoryNext DEF InDirectory, n, k
    <3>. QED  BY <2>1, <3>1, <3>4 DEF GoesOn, n
  <2>9. CASE i % ENTRIES = 0 /\ dj.clust = 0
    <3>1. CASE i < n_rootdir /\ To(dj.sect + 1)
      <4>1. /\ DOMAIN dj' = DOMAIN NoDir /\ dj'.clust = 0 /\ dj'.index = i
            /\ dj'.sclust = dj.sclust /\ dj'.fn = dj.fn /\ dj'.last = dj.last
            /\ dj'.sect = dj.sect + 1 /\ pc' = "find" /\ result' = result
        BY <2>9, <3>1 DEF InDirectory, NoDir
      <4>2. dj.sect + 1 = dirbase + (i \div ENTRIES)
        <5>1. dj.sect = 1 + k /\ i \div ENTRIES = k + 1
          BY <2>2, <2>9 DEF InDirectory, k, n, dirbase
        <5>. QED  BY <2>2, <5>1 DEF dirbase
      <4>3. dj.sclust = 0 /\ dj.sclust \in Starts
        BY <2>9 DEF InDirectory
      <4>4. InDirectory'
        BY <3>1, <4>1, <4>2, <4>3, InDirectoryNext
      <4>. QED  BY <2>1, <4>1, <4>4 DEF GoesOn, n
    <3>2. CASE ~(i < n_rootdir) /\ Gives("FR_NO_FILE")
      <4>1. dj.sclust = 0
        BY <2>9 DEF InDirectory
      <4>. QED  BY <2>1, <3>2, <4>1 DEF Ends, Holds, n
    <3>. QED  BY <2>5, <2>9, <3>1, <3>2
  <2>10. ASSUME i % ENTRIES = 0, dj.clust # 0
         PROVE  /\ dj.sclust # 0 /\ dj.sclust \in Starts /\ dj.sclust \in Cluster
                /\ dj.clust \in 2 .. volume.n_fatent - 1 /\ dj.clust \in Cluster
                /\ dj.clust = Chain(dj.sclust)[q]
                /\ dj.sect = SectorOf(dj.clust, k % volume.csize)
    <3>1. /\ dj.sclust # 0 /\ dj.sclust \in Starts
          /\ dj.clust \in 2 .. volume.n_fatent - 1
          /\ dj.clust = Chain(dj.sclust)[q]
          /\ dj.sect = SectorOf(dj.clust, k % volume.csize)
      BY <2>10 DEF InDirectory, n, k, q
    <3>. QED  BY <1>1, <3>1 DEF Cluster, Starts
  <2>11. CASE i % ENTRIES = 0 /\ dj.clust # 0 /\ (i \div ENTRIES) % volume.csize # 0
    <3>1. /\ DOMAIN dj' = DOMAIN NoDir /\ dj'.clust = dj.clust /\ dj'.index = i
          /\ dj'.sclust = dj.sclust /\ dj'.fn = dj.fn /\ dj'.last = dj.last
          /\ dj'.sect = dj.sect + 1 /\ pc' = "find" /\ result' = result
      BY <2>6, <2>11 DEF InDirectory, NoDir
    <3>2. dj.sect + 1 = SectorOf(dj.clust, (i \div ENTRIES) % volume.csize)
      <4>1. (i \div ENTRIES) % volume.csize = (k % volume.csize) + 1
        BY <2>2, <2>3, <2>11
      <4>2. (dj.clust - 2) * volume.csize \in Int /\ database \in Int
        BY <1>1, <2>10, <2>11, VolumeIs
      <4>. QED  BY <2>3, <2>10, <2>11, <4>1, <4>2 DEF SectorOf
    <3>3. (i \div ENTRIES) \div volume.csize = q
      BY <2>2, <2>3, <2>11
    <3>4. InDirectory'
      BY <2>10, <2>11, <3>1, <3>2, <3>3, InDirectoryNext
    <3>. QED  BY <2>1, <3>1, <3>4 DEF GoesOn, n
  <2>12. CASE i % ENTRIES = 0 /\ dj.clust # 0 /\ (i \div ENTRIES) % volume.csize = 0
    <3>1. PICK x \in get_fat(dj.clust) :
                  \/ x[1] <= 1 /\ Gives("FR_DISK_ERR") /\ failed' = x[2]
                  \/ ~(x[1] <= 1) /\ x[1] >= volume.n_fatent /\ Gives("FR_NO_FILE")
                  \/ ~(x[1] <= 1) /\ ~(x[1] >= volume.n_fatent) /\ Onto(x[1])
      BY <2>7, <2>12
    <3>2. /\ x[1] \in Cluster /\ x[2] \in BOOLEAN
          /\ x[1] > 1 => x[1] = volume.fat[dj.clust]
          /\ x[2] \/ x[1] = volume.fat[dj.clust]
      BY <1>1, <2>10, <2>12, GetFatIs
    <3>3. Chain(dj.sclust)[q + 1] = volume.fat[dj.clust]
      BY <1>1, <2>3, <2>10, <2>12, ChainStep DEF Step
    <3>4. (i \div ENTRIES) \div volume.csize = q + 1
      BY <2>2, <2>3, <2>12
    <3>5. CASE x[1] <= 1 /\ Gives("FR_DISK_ERR") /\ failed' = x[2]
      <4>1. CASE x[2]
        BY <3>5, <4>1 DEF Breaks
      <4>2. CASE ~x[2]
        BY <2>3, <2>10, <2>12, <3>2, <3>3, <3>5, <4>2 DEF Breaks
      <4>. QED  BY <4>1, <4>2
    <3>6. CASE ~(x[1] <= 1) /\ x[1] >= volume.n_fatent /\ Gives("FR_NO_FILE")
      <4>1. Chain(dj.sclust)[q + 1] >= volume.n_fatent
        BY <3>2, <3>3, <3>6 DEF Cluster
      <4>2. ClusterOf(dj.sclust, i) = Chain(dj.sclust)[q + 1]
        <5>1. i \in Nat
          BY <2>1
        <5>. QED  BY <1>1, <3>4, <5>1, NestedDiv DEF ClusterOf
      <4>3. ClusterOf(dj.sclust, i) \notin DOMAIN volume.fat
        BY <1>1, <4>1, <4>2, FatDomain
      <4>4. ~Holds(dj.sclust, i)
        BY <2>10, <2>12, <4>3 DEF Holds
      <4>. QED  BY <2>1, <3>6, <4>4 DEF Ends, n
    <3>7. CASE ~(x[1] <= 1) /\ ~(x[1] >= volume.n_fatent) /\ Onto(x[1])
      <4>1. /\ DOMAIN dj' = DOMAIN NoDir /\ dj'.clust = x[1] /\ dj'.index = i
            /\ dj'.sclust = dj.sclust /\ dj'.fn = dj.fn /\ dj'.last = dj.last
            /\ dj'.sect = clust2sect(x[1]) /\ pc' = "find" /\ result' = result
        BY <3>7 DEF InDirectory, NoDir
      <4>2. x[1] \in 2 .. volume.n_fatent - 1 /\ x[1] = Chain(dj.sclust)[q + 1]
        BY <1>1, <3>2, <3>3, <3>7 DEF Cluster
      <4>3. dj'.sect = SectorOf(dj'.clust, (dj'.index \div ENTRIES) % volume.csize)
        BY <1>1, <2>12, <3>2, <4>1, <4>2, Clust2SectIs
      <4>4. InDirectory'
        BY <2>10, <2>12, <3>4, <4>1, <4>2, <4>3, InDirectoryNext
      <4>. QED  BY <2>1, <4>1, <4>4 DEF GoesOn, n
    <3>. QED  BY <3>1, <3>5, <3>6, <3>7
  <2>. QED  BY <2>8, <2>9, <2>11, <2>12
<1>. QED  BY <1>5, <1>6

(* What a sound volume's directories hold.                                 *)
LEMMA SoundEntries ==
    ASSUME Sound
    PROVE  /\ Directories \subseteq DOMAIN volume.fat
           /\ \A c \in Directories : HasChain(c, 0)
           /\ \A c \in {0} \cup Directories : \A x \in Entries(c) :
                 /\ WellFormed(x.name)
                 /\ x.dir => x.clust \in Directories
                 /\ ~x.dir /\ x.size > 0 => HasChain(x.clust, x.size)
                 /\ \A y \in Entries(c) : y.name = x.name => y = x
<1>1. Directories \in SUBSET DOMAIN volume.fat /\ SoundWith(Directories)
  BY DEF Sound, Directories
<1>. QED  BY <1>1, Zenon DEF SoundWith

LEMMA MatchIsEntry ==
    ASSUME volume \in Volumes, Finding, dj.index \in 0 .. INDEX - 1,
           NEW e, e = EntryOf(dj.sclust, dj.index), e # End, ~e.vol, e.name = dj.fn
    PROVE  e \in Entries(dj.sclust)
<1>1. INDEX \in Nat
  BY VolumeIs
<1>2. ASSUME NEW i \in 0 .. dj.index
      PROVE  Holds(dj.sclust, i) /\ EntryOf(dj.sclust, i) # End
  <2>1. CASE i = dj.index
    BY <2>1, LooksAt DEF Finding
  <2>2. CASE i # dj.index
    <3>1. i \in 0 .. dj.index - 1
      BY <1>1, <2>2
    <3>. QED  BY <3>1 DEF Finding, NoneBefore, Differs
  <2>. QED  BY <2>1, <2>2
<1>3. e.name[1] \notin {Dot, Deleted}
  BY DEF Finding, NameOfPath
<1>. QED  BY <1>2, <1>3 DEF Entries

LEMMA NoMatch ==
    ASSUME volume \in Volumes, Finding, dj.index \in 0 .. INDEX - 1,
           \/ EntryOf(dj.sclust, dj.index) = End
           \/ /\ Differs(EntryOf(dj.sclust, dj.index))
              /\ dj.index + 1 = INDEX \/ ~Holds(dj.sclust, dj.index + 1)
    PROVE  \A x \in Entries(dj.sclust) : x.name # dj.fn
<1>. SUFFICES ASSUME NEW x \in Entries(dj.sclust) PROVE x.name # dj.fn
  OBVIOUS
<1>1. INDEX \in Nat /\ dj.index \in Nat
  BY VolumeIs
<1>2. PICK h \in 0 .. INDEX - 1 :
        /\ \A i \in 0 .. h : Holds(dj.sclust, i) /\ EntryOf(dj.sclust, i) # End
        /\ x = EntryOf(dj.sclust, h) /\ ~x.vol
  BY DEF Entries
<1>3. CASE h < dj.index
  <2>1. h \in 0 .. dj.index - 1
    BY <1>1, <1>3
  <2>. QED  BY <1>2, <2>1 DEF Finding, NoneBefore, Differs
<1>4. CASE h = dj.index
  <2>1. EntryOf(dj.sclust, dj.index) # End
    BY <1>1, <1>2, <1>4
  <2>. QED  BY <1>2, <1>4, <2>1 DEF Differs
<1>5. CASE h > dj.index
  <2>1. dj.index \in 0 .. h /\ dj.index + 1 \in 0 .. h /\ dj.index + 1 # INDEX
    BY <1>1, <1>5
  <2>. QED  BY <1>2, <2>1
<1>. QED  BY <1>1, <1>3, <1>4, <1>5

(* What a turn of dir_find's loop finds.                                   *)
Same == flag' = flag /\ file' = file /\ transfer' = transfer

LEMMA DirFindFinds ==
    ASSUME FatTypeOK, Finding, pc = "find", volume' = volume, dir_find,
           NEW e, e = EntryOf(dj.sclust, dj.index)
    PROVE  \/ Same /\ failed' /\ pc' = "idle" /\ result' = "FR_DISK_ERR" /\ dj' = dj
           \/ e \in Entries(dj.sclust) /\ e.name = dj.fn /\ Found(e)
           \/ /\ Same /\ pc' = "idle" /\ result' = "FR_NO_FILE" /\ dj' = dj
              /\ \A x \in Entries(dj.sclust) : x.name # dj.fn
           \/ Same /\ rest' = rest /\ GoesOn /\ NoneBefore'
           \/ Same /\ Breaks
<1>1. volume \in Volumes /\ dj.index \in 0 .. INDEX - 1 /\ InDirectory /\ INDEX \in Nat
  BY VolumeIs DEF FatTypeOK, Finding
<1>2. EntryAt(dj.sect, dj.index % ENTRIES) = e /\ Holds(dj.sclust, dj.index)
  BY <1>1, LooksAt
<1>3. CASE failed' = TRUE /\ ReturnWith("FR_DISK_ERR") /\ UNCHANGED <<flag, file, transfer, dj, rest>>
  BY <1>3 DEF ReturnWith, Same
<1>4. CASE e # End /\ ~e.vol /\ e.name = dj.fn /\ Found(e)
  BY <1>1, <1>4, MatchIsEntry
<1>5. CASE /\ ~(e # End /\ ~e.vol /\ e.name = dj.fn)
           /\ UNCHANGED <<flag, file, transfer, rest>>
           /\ IF e = End THEN ReturnWith("FR_NO_FILE") /\ UNCHANGED <<dj, failed>>
              ELSE dir_next
  <2>1. Same /\ rest' = rest
    BY <1>5 DEF Same
  <2>2. CASE e = End
    <3>1. pc' = "idle" /\ result' = "FR_NO_FILE" /\ dj' = dj
      BY <1>5, <2>2 DEF ReturnWith
    <3>. QED  BY <1>1, <2>1, <2>2, <3>1, NoMatch
  <2>3. CASE e # End
    <3>1. dir_next /\ Differs(e)
      BY <1>5, <2>3 DEF Differs
    <3>2. GoesOn \/ Ends \/ Breaks
      BY <1>1, <3>1, DirNextFinds
    <3>3. ASSUME Ends PROVE \A x \in Entries(dj.sclust) : x.name # dj.fn
      BY <1>1, <3>1, <3>3, NoMatch DEF Ends
    <3>4. ASSUME GoesOn PROVE NoneBefore'
      <4>1. /\ dj'.index = dj.index + 1 /\ dj'.sclust = dj.sclust /\ dj'.fn = dj.fn
        BY <3>4 DEF GoesOn
      <4>2. ASSUME NEW h \in 0 .. dj.index
            PROVE  Holds(dj.sclust, h) /\ Differs(EntryOf(dj.sclust, h))
        <5>1. CASE h = dj.index
          BY <1>2, <3>1, <5>1
        <5>2. CASE h # dj.index
          <6>1. h \in 0 .. dj.index - 1
            BY <1>1, <5>2
          <6>. QED  BY <6>1 DEF Finding, NoneBefore
        <5>. QED  BY <5>1, <5>2
      <4>3. 0 .. dj'.index - 1 = 0 .. dj.index
        BY <1>1, <4>1
      <4>4. ASSUME NEW h \in 0 .. dj'.index - 1
            PROVE  Holds(dj.sclust, h)' /\ Differs(EntryOf(dj.sclust, h))'
        <5>1. h \in 0 .. dj.index
          BY <4>3
        <5>2. Holds(dj.sclust, h) /\ Differs(EntryOf(dj.sclust, h))
          BY <4>2, <5>1
        <5>4. (Holds(dj.sclust, h)' <=> Holds(dj.sclust, h))
              /\ EntryOf(dj.sclust, h)' = EntryOf(dj.sclust, h)
          BY <4>1, SamePlace
        <5>. QED  BY <4>1, <5>2, <5>4 DEF Differs, End
      <4>. QED  BY <4>4 DEF NoneBefore
    <3>. QED  BY <2>1, <3>2, <3>3, <3>4 DEF Ends
  <2>. QED  BY <2>2, <2>3
<1>6. \/ failed' = TRUE /\ ReturnWith("FR_DISK_ERR") /\ UNCHANGED <<flag, file, transfer, dj, rest>>
      \/ e # End /\ ~e.vol /\ e.name = dj.fn /\ Found(e)
      \/ /\ ~(e # End /\ ~e.vol /\ e.name = dj.fn)
         /\ UNCHANGED <<flag, file, transfer, rest>>
         /\ IF e = End THEN ReturnWith("FR_NO_FILE") /\ UNCHANGED <<dj, failed>>
            ELSE dir_next
  BY <1>2 DEF dir_find
<1>. QED  BY <1>3, <1>4, <1>5, <1>6

LEMMA DirFindStep == FilesInv /\ dir_find => FilesInv'
<1>. SUFFICES ASSUME FilesInv, dir_find PROVE FilesInv'
  OBVIOUS
<1>. DEFINE e == EntryOf(dj.sclust, dj.index)
            Stops == /\ pc' = "idle" /\ dj' = dj
                     /\ result' \in {"FR_NO_FILE", "FR_DISK_ERR"}
            Goes == /\ pc' = "find" /\ Finding' /\ result' = result
                    /\ dj'.index \in 0 .. INDEX - 1
            Opens == /\ ~e.dir
                     /\ flag' = TRUE /\ org_clust' = e.clust /\ fsize' = e.size /\ fptr' = 0
                     /\ got' = <<>> /\ pc' = "idle" /\ result' = "FR_OK" /\ dj' = dj
                     /\ curr_clust' = curr_clust /\ dsect' = dsect /\ btr' = btr /\ br' = br
<1>1. /\ volume \in Volumes /\ volume' = volume /\ FatTypeOK /\ pc = "find" /\ Finding
      /\ ~flag /\ called' = "pf_open" /\ FatFs' = FatFs /\ asked' = asked
      /\ dj.index \in 0 .. INDEX - 1
  BY DEF FilesInv, FatTypeOK, dir_find
<1>2. e \in DirEntry
  BY <1>1, EntryIsOfVolume, LooksAt DEF Finding
<1>3. (e \in Entries(dj.sclust) /\ Opens) \/ (Same /\ (Stops \/ Goes))
  <2>1. CASE e \in Entries(dj.sclust) /\ e.name = dj.fn /\ Found(e)
    <3>. HIDE DEF e
    <3>1. CASE dj.last /\ ~e.dir
      BY <2>1, <3>1 DEF Found, ReturnWith
    <3>2. CASE ~(dj.last /\ ~e.dir)
      <4>1. Same
        BY <2>1, <3>2 DEF Found, Same
      <4>2. CASE dj.last \/ ~e.dir
        BY <2>1, <3>2, <4>1, <4>2 DEF Found, ReturnWith
      <4>3. CASE ~(dj.last \/ ~e.dir)
        <5>1. Search(rest, e.clust)
          BY <2>1, <3>2, <4>3 DEF Found
        <5>2. e.clust \in Cluster /\ rest \in Seq(PathCharacter)
          BY <1>1, <1>2 DEF DirEntry, Cluster, Finding, NameOfPath
        <5>3. \/ /\ pc' = "find" /\ result' = result /\ InDirectory' /\ NameOfPath' /\ NoneBefore'
                 /\ dj'.index = 0 /\ dj'.sclust = e.clust
              \/ pc' = "idle" /\ result' = "FR_DISK_ERR" /\ dj' = dj
          BY <1>1, <5>1, <5>2, SearchFinds
        <5>4. 0 \in 0 .. INDEX - 1
          BY <1>1, VolumeIs
        <5>5. ASSUME dj'.sclust = e.clust PROVE InSound'
          <6>1. ASSUME Sound PROVE e.clust \in Directories
            BY <1>1, <2>1, <4>3, <6>1, SoundEntries DEF Finding, InSound
          <6>. QED  BY <1>1, <5>5, <6>1, SoundFixed DEF InSound
        <5>. QED  BY <4>1, <5>3, <5>4, <5>5 DEF Finding
      <4>. QED  BY <4>2, <4>3
    <3>. QED  BY <2>1, <3>1, <3>2
  <2>2. CASE Same /\ rest' = rest /\ GoesOn /\ NoneBefore'
    <3>1. InSound'
      BY <1>1, <2>2, SoundFixed DEF GoesOn, Finding, InSound
    <3>2. NameOfPath'
      BY <1>1, <2>2 DEF GoesOn, Finding, NameOfPath
    <3>. QED  BY <2>2, <3>1, <3>2 DEF GoesOn, Finding
  <2>. QED  BY <1>1, <2>1, <2>2, DirFindFinds DEF Breaks
<1>. HIDE DEF e
<1>4. CASE e \in Entries(dj.sclust) /\ Opens
  <2>1. e.clust \in 0 .. CLUST - 1 /\ e.size \in Nat
    BY <1>2 DEF DirEntry
  <2>2. FatTypeOK' /\ fsize' \in Nat /\ asked' \in 0 .. MaxRead
    <3>1. btr' \in 0 .. MaxRead /\ br' \in 0 .. MaxRead /\ asked' \in 0 .. MaxRead
      BY <1>1, <1>4 DEF FatTypeOK, FilesInv
    <3>2. fptr' \in 0 .. fsize' /\ {org_clust', curr_clust'} \subseteq 0 .. CLUST - 1
      BY <1>1, <1>4, <2>1 DEF FatTypeOK
    <3>3. /\ FatFs' \in BOOLEAN /\ flag' \in BOOLEAN /\ dj'.index \in 0 .. INDEX - 1
          /\ pc' = "idle" /\ result' = "FR_OK"
      BY <1>1, <1>4 DEF FatTypeOK
    <3>. QED  BY <1>1, <1>4, <2>1, <3>1, <3>2, <3>3 DEF FatTypeOK
  <2>3. (flag /\ fsize > 0 /\ Sound => HasChain(org_clust, fsize))'
    <3>1. SUFFICES ASSUME fsize' > 0, Sound' PROVE HasChain(org_clust, fsize)'
      OBVIOUS
    <3>2. Sound /\ HasChain(e.clust, e.size)
      <4>1. Sound
        BY <1>1, <3>1, SoundFixed
      <4>. QED  BY <1>1, <1>4, <3>1, <4>1, SoundEntries DEF Finding, InSound
    <3>3. \A c : Chain(c)' = Chain(c)
      BY <1>1, ChainSame
    <3>. QED  BY <1>1, <1>4, <3>2, <3>3 DEF HasChain
  <2>4. HasRead'
    BY <1>1, <1>4 DEF HasRead
  <2>. QED  BY <1>1, <1>4, <2>2, <2>3, <2>4 DEF FilesInv
<1>5. CASE Same /\ (Stops \/ Goes)
  <2>1. FatTypeOK' /\ fsize' \in Nat /\ asked' \in 0 .. MaxRead
    <3>1. btr' \in 0 .. MaxRead /\ br' \in 0 .. MaxRead /\ asked' \in 0 .. MaxRead
      BY <1>1, <1>5 DEF FatTypeOK, FilesInv, transfer, Same
    <3>2. /\ fptr' \in 0 .. fsize' /\ {org_clust', curr_clust'} \subseteq 0 .. CLUST - 1
          /\ fsize' \in Nat
      BY <1>1, <1>5 DEF FatTypeOK, FilesInv, file, Same
    <3>3. /\ FatFs' \in BOOLEAN /\ flag' \in BOOLEAN /\ dj'.index \in 0 .. INDEX - 1
          /\ pc' \in {"idle", "find", "read", "data"}
      BY <1>1, <1>5 DEF FatTypeOK, Same
    <3>4. result' \in {"FR_OK", "FR_DISK_ERR", "FR_NO_FILE", "FR_NOT_OPENED", "FR_NOT_ENABLED"}
      BY <1>1, <1>5 DEF FatTypeOK
    <3>. QED  BY <1>1, <3>1, <3>2, <3>3, <3>4 DEF FatTypeOK
  <2>2. ~flag' /\ pc' \in {"idle", "find"} /\ (pc' = "find" => Finding')
    BY <1>1, <1>5 DEF Same
  <2>. QED  BY <1>1, <2>1, <2>2 DEF FilesInv
<1>. QED  BY <1>3, <1>4, <1>5

LEMMA PfReadStep == FilesInv /\ pf_read => FilesInv'
<1>. SUFFICES ASSUME FilesInv, pf_read PROVE FilesInv'
  OBVIOUS
<1>1. /\ volume \in Volumes /\ volume' = volume /\ FatTypeOK /\ pc = "idle" /\ called' = "pf_read"
      /\ FatFs' = FatFs /\ flag' = flag /\ br' = 0 /\ dj' = NoDir /\ got' = got
      /\ fptr' = fptr /\ fsize' = fsize /\ org_clust' = org_clust
      /\ curr_clust' = curr_clust /\ dsect' = dsect
      /\ fsize \in Nat /\ fptr \in 0 .. fsize /\ MaxRead \in Nat /\ INDEX \in Nat \ {0}
  BY VolumeIs DEF FilesInv, FatTypeOK, pf_read, NoSearch, file
<1>2. PICK n \in 0 .. MaxRead :
        /\ asked' = n
        /\ IF FatFs /\ flag
           THEN /\ btr' = IF n > fsize - fptr THEN fsize - fptr ELSE n
                /\ pc' = "read" /\ result' = result
           ELSE /\ pc' = "idle" /\ result' \in {"FR_NOT_OPENED", "FR_NOT_ENABLED"}
                /\ btr' = btr
  BY DEF pf_read, ReturnWith
<1>3. btr' \in 0 .. MaxRead /\ (FatFs /\ flag => Reads')
  <2>1. CASE FatFs /\ flag
    BY <1>1, <1>2, <2>1 DEF Reads
  <2>2. CASE ~(FatFs /\ flag)
    BY <1>1, <1>2, <2>2 DEF FatTypeOK
  <2>. QED  BY <2>1, <2>2
<1>4. FatTypeOK'
  <2>1. NoDir.index \in 0 .. INDEX - 1
    BY <1>1 DEF NoDir
  <2>2. {org_clust', curr_clust'} \subseteq 0 .. CLUST - 1
    BY <1>1 DEF FatTypeOK
  <2>3. FatFs' \in BOOLEAN /\ flag' \in BOOLEAN /\ pc' \in {"idle", "find", "read", "data"}
     /\ result' \in {"FR_OK", "FR_DISK_ERR", "FR_NO_FILE", "FR_NOT_OPENED", "FR_NOT_ENABLED"}
    BY <1>1, <1>2 DEF FatTypeOK
  <2>. QED  BY <1>1, <1>3, <2>1, <2>2, <2>3 DEF FatTypeOK
<1>5. (flag /\ fsize > 0 /\ Sound => HasChain(org_clust, fsize))'
  <2>1. \A c : Chain(c)' = Chain(c)
    BY <1>1, ChainSame
  <2>2. HasChain(org_clust, fsize)' <=> HasChain(org_clust, fsize)
    BY <1>1, <2>1 DEF HasChain
  <2>. QED  BY <1>1, <2>2, SoundFixed DEF FilesInv
<1>6. FatFs /\ flag => HasRead'
  <2>1. \A c : Chain(c)' = Chain(c)
    BY <1>1, ChainSame
  <2>2. \A s : StandsIn(s)' <=> StandsIn(s)
    BY <1>1, <2>1, Fixed DEF StandsIn, SectorOf, database, dirbase, n_rootdir
  <2>3. \A x : ByteAt(x)' = ByteAt(x)
    BY <1>1, <2>1 DEF ByteAt, database, dirbase, n_rootdir
  <2>. QED  BY <1>1, <1>2, <2>2, <2>3 DEF HasRead, FilesInv
<1>7. (pc = "idle" /\ called = "pf_read" => Answered)'
  BY <1>1, <1>2 DEF Answered
<1>. QED  BY <1>1, <1>2, <1>3, <1>4, <1>5, <1>6, <1>7 DEF FilesInv

-----------------------------------------------------------------------------
(* Reading                                                                 *)

LEMMA Larger ==
    ASSUME NEW d \in Nat, NEW x \in Int, NEW y \in Int, x <= y
    PROVE  d * x <= d * y
OBVIOUS

(* A file that has the clusters it needs is within them.                   *)
LEMMA InClusters ==
    ASSUME volume \in Volumes, NEW c, NEW sz \in Nat, HasChain(c, sz),
           NEW x \in Nat, x < sz
    PROVE  Chain(c)[(x \div SECTOR) \div volume.csize] \in 2 .. volume.n_fatent - 1
<1>. DEFINE z == volume.csize
            q == x \div SECTOR
            k == q \div z
<1>1. /\ SECTOR \in Nat /\ SECTOR > 0 /\ z \in Nat /\ z > 0 /\ volume.n_fatent \in Nat
  BY VolumeIs
<1>2. PICK n \in 1 .. volume.n_fatent :
         /\ \A m \in 0 .. n - 1 : Chain(c)[m] \in DOMAIN volume.fat
         /\ sz <= n * z * SECTOR
  BY DEF HasChain
<1>3. q \in Nat /\ x >= SECTOR * q
  <2>1. x % SECTOR \in 0 .. SECTOR - 1 /\ q \in Nat /\ x = SECTOR * q + (x % SECTOR)
    BY <1>1, DivMod
  <2>. QED  BY <1>1, <2>1
<1>. HIDE DEF q
<1>4. k \in Nat /\ q >= z * k
  <2>1. q % z \in 0 .. z - 1 /\ k \in Nat /\ q = z * k + (q % z)
    BY <1>1, <1>3, DivMod
  <2>. QED  BY <1>1, <2>1
<1>. HIDE DEF k, z
<1>5. k < n
  <2>1. SUFFICES ASSUME n <= k PROVE FALSE
    BY <1>4
  <2>2. z * n <= q /\ z * n \in Nat
    <3>1. z * n <= z * k
      BY <1>1, <1>4, <2>1, Larger
    <3>. QED  BY <1>1, <1>3, <1>4, <3>1
  <2>3. SECTOR * (z * n) <= x
    <3>1. SECTOR * (z * n) <= SECTOR * q
      BY <1>1, <1>3, <2>2, Larger
    <3>. QED  BY <1>1, <1>3, <2>2, <3>1
  <2>4. n * z * SECTOR = SECTOR * (z * n)
    BY <1>1
  <2>. QED  BY <1>1, <1>2, <2>2, <2>3, <2>4
<1>6. Chain(c)[k] \in DOMAIN volume.fat
  BY <1>2, <1>4, <1>5
<1>. QED  BY <1>6, FatAssumption DEF k, q, z

(* The cluster that Locate takes is the next one of the chain, ...         *)
LEMMA NextCluster ==
    ASSUME FilesInv, pc = "read", btr > 0, fptr % SECTOR = 0,
           NEW x \in IF (fptr \div SECTOR) % volume.csize # 0 THEN {<<curr_clust, FALSE>>}
                     ELSE IF fptr = 0 THEN {<<org_clust, FALSE>>}
                     ELSE get_fat(curr_clust)
    PROVE  /\ x[1] \in Cluster
           /\ (fptr \div SECTOR) % volume.csize # 0 => x[1] = curr_clust
           /\ x[1] > 1 => x[1] = Chain(org_clust)[(fptr \div SECTOR) \div volume.csize]
           /\ ~x[2] => x[1] = Chain(org_clust)[(fptr \div SECTOR) \div volume.csize]
<1>. DEFINE q == fptr \div SECTOR
            z == volume.csize
            k == q \div z
<1>1. /\ volume \in Volumes /\ SECTOR \in Nat /\ SECTOR > 0 /\ z \in Nat /\ z > 0
      /\ fptr \in Nat /\ HasRead /\ org_clust \in Cluster /\ curr_clust \in Cluster
  <2>1. volume \in Volumes /\ fptr \in Nat /\ org_clust \in Cluster /\ curr_clust \in Cluster
    BY DEF FilesInv, FatTypeOK, Cluster
  <2>2. HasRead
    BY DEF FilesInv, Reads
  <2>. QED  BY <2>1, <2>2, VolumeIs
<1>2. /\ Chain(org_clust)[0] = org_clust
      /\ \A j \in Nat : Chain(org_clust)[j + 1] = Step(Chain(org_clust)[j])
  BY <1>1, ChainStep
<1>3. q \in Nat /\ fptr = SECTOR * q
  BY <1>1, DivMod
<1>. HIDE DEF q
<1>4. k \in Nat
  BY <1>1, <1>3, DivMod
<1>5. ASSUME fptr > 0
      PROVE  /\ q - 1 \in Nat /\ (q - 1) + 1 = q
             /\ StandsIn(q - 1)
  <2>1. q > 0
    BY <1>1, <1>3, <1>5
  <2>2. (fptr - 1) \div SECTOR = q - 1
    <3>1. /\ fptr - 1 = SECTOR * (q - 1) + (SECTOR - 1) /\ q - 1 \in Nat
          /\ SECTOR - 1 \in 0 .. SECTOR - 1
      BY <1>1, <1>3, <2>1
    <3>2. (SECTOR * (q - 1) + (SECTOR - 1)) \div SECTOR = q - 1
      BY <1>1, <3>1, DivIs
    <3>. QED  BY <3>1, <3>2
  <2>3. StandsIn((fptr - 1) \div SECTOR)
    BY <1>1, <1>5 DEF HasRead
  <2>. QED  BY <1>3, <2>1, <2>2, <2>3
<1>6. CASE q % z # 0
  <2>1. fptr > 0
    <3>1. SUFFICES ASSUME fptr = 0 PROVE FALSE
      BY <1>1
    <3>2. q = 0
      BY <1>1, <1>3, <3>1
    <3>. QED  BY <1>1, <1>6, <3>2, Zero
  <2>2. k = (q - 1) \div z
    BY <1>1, <1>5, <1>6, <2>1, NextDiv
  <2>3. x = <<curr_clust, FALSE>> /\ curr_clust = Chain(org_clust)[k]
    BY <1>5, <1>6, <2>1, <2>2 DEF StandsIn, q, z
  <2>. QED  BY <1>1, <2>3 DEF q, z, k
<1>7. CASE q % z = 0 /\ fptr = 0
  <2>1. q = 0
    BY <1>1, <1>3, <1>7
  <2>2. k = 0
    BY <1>1, <2>1, Zero
  <2>3. x = <<org_clust, FALSE>> /\ org_clust = Chain(org_clust)[k]
    BY <1>2, <1>7, <2>2 DEF q, z
  <2>. QED  BY <1>1, <1>7, <2>3 DEF q, z, k
<1>8. CASE q % z = 0 /\ fptr # 0
  <2>1. fptr > 0 /\ x \in get_fat(curr_clust)
    <3>1. ~((fptr \div SECTOR) % volume.csize # 0) /\ ~(fptr = 0)
      BY <1>8 DEF q
    <3>2. x \in get_fat(curr_clust)
      BY <3>1, Zenon
    <3>. QED  BY <1>1, <1>8, <3>2
  <2>2. (q - 1) \div z \in Nat /\ k = ((q - 1) \div z) + 1
    BY <1>1, <1>5, <1>8, <2>1, NextDiv, DivMod
  <2>3. curr_clust = Chain(org_clust)[(q - 1) \div z] /\ curr_clust \in 2 .. volume.n_fatent - 1
    BY <1>5, <2>1 DEF StandsIn, z
  <2>4. Chain(org_clust)[k] = volume.fat[curr_clust]
    BY <1>2, <2>2, <2>3 DEF Step
  <2>5. /\ x[1] \in Cluster /\ x[2] \in BOOLEAN
        /\ x[1] > 1 => x[1] = volume.fat[curr_clust]
        /\ x[2] \/ x[1] = volume.fat[curr_clust]
    BY <1>1, <2>1, <2>3, GetFatIs
  <2>. QED  BY <1>8, <2>4, <2>5 DEF q, z, k
<1>. QED  BY <1>6, <1>7, <1>8

(* What does not change with the position and the bytes read.              *)
LEMMA FileSame ==
    ASSUME volume' = volume, org_clust' = org_clust
    PROVE  /\ \A c : Chain(c)' = Chain(c)
           /\ Chain(org_clust)' = Chain(org_clust)
           /\ \A x : ByteAt(x)' = ByteAt(x)
           /\ fsize' = fsize => (HasChain(org_clust, fsize)' <=> HasChain(org_clust, fsize))
           /\ curr_clust' = curr_clust /\ dsect' = dsect => \A x : StandsIn(x)' <=> StandsIn(x)
<1>1. \A c : Chain(c)' = Chain(c)
  BY ChainSame
<1>2. Chain(org_clust)' = Chain(org_clust)
  BY <1>1
<1>3. \A x : ByteAt(x)' = ByteAt(x)
  BY <1>2 DEF ByteAt, database, dirbase, n_rootdir
<1>4. ASSUME fsize' = fsize PROVE HasChain(org_clust, fsize)' <=> HasChain(org_clust, fsize)
  BY <1>2, <1>4 DEF HasChain
<1>5. ASSUME curr_clust' = curr_clust, dsect' = dsect PROVE \A x : StandsIn(x)' <=> StandsIn(x)
  BY <1>2, <1>5 DEF StandsIn, SectorOf, database, dirbase, n_rootdir
<1>. QED  BY <1>1, <1>2, <1>3, <1>4, <1>5

LEMMA LocateStep == FilesInv /\ Locate => FilesInv'
<1>. SUFFICES ASSUME FilesInv, Locate PROVE FilesInv'
  OBVIOUS
<1>. DEFINE q == fptr \div SECTOR
            cs == q % volume.csize
            k == q \div volume.csize
<1>1. /\ volume \in Volumes /\ volume' = volume /\ FatTypeOK /\ pc = "read"
      /\ btr > 0 /\ fptr % SECTOR = 0 /\ called' = called /\ FatFs' = FatFs
      /\ fptr' = fptr /\ fsize' = fsize /\ org_clust' = org_clust
      /\ btr' = btr /\ br' = br /\ got' = got /\ asked' = asked /\ dj' = dj
      /\ Reads /\ HasRead /\ called = "pf_read" /\ flag /\ FatFs
      /\ fsize \in Nat /\ fptr \in 0 .. fsize /\ asked \in 0 .. MaxRead
      /\ btr \in 0 .. MaxRead /\ br \in 0 .. MaxRead
  BY DEF FilesInv, FatTypeOK, Locate, Reads, search, transfer
<1>2. PICK x \in IF cs # 0 THEN {<<curr_clust, FALSE>>}
                  ELSE IF fptr = 0 THEN {<<org_clust, FALSE>>}
                  ELSE get_fat(curr_clust) :
         /\ failed' = x[2]
         /\ IF cs = 0 /\ x[1] <= 1
            THEN ABORT("FR_DISK_ERR") /\ UNCHANGED <<curr_clust, dsect>>
            ELSE /\ curr_clust' = x[1]
                 /\ IF clust2sect(x[1]) = 0
                    THEN ABORT("FR_DISK_ERR") /\ UNCHANGED dsect
                    ELSE /\ dsect' = clust2sect(x[1]) + cs
                         /\ pc' = "data"
                         /\ UNCHANGED <<flag, result>>
  BY DEF Locate
<1>3. /\ x[1] \in Cluster
      /\ cs # 0 => x[1] = curr_clust
      /\ x[1] > 1 => x[1] = Chain(org_clust)[k]
      /\ ~x[2] => x[1] = Chain(org_clust)[k]
  BY <1>1, <1>2, NextCluster
<1>4. /\ SECTOR \in Nat /\ SECTOR > 0 /\ volume.csize \in Nat /\ volume.csize > 0
      /\ volume.n_fatent \in Nat /\ 3 <= volume.n_fatent /\ q \in Nat /\ MaxRead \in Nat
  BY <1>1, VolumeIs, DivMod
<1>5. cs \in 0 .. volume.csize - 1
  BY <1>4, DivMod
<1>. HIDE DEF k, cs, q
<1>6. curr_clust' \in Cluster
  BY <1>1, <1>2, <1>3 DEF FatTypeOK, Cluster
<1>7. (flag /\ fsize > 0 /\ Sound => HasChain(org_clust, fsize))'
  BY <1>1, FileSame, SoundFixed DEF FilesInv
<1>8. CASE x[1] \in 2 .. volume.n_fatent - 1
  <2>1. clust2sect(x[1]) = SectorOf(x[1], 0) /\ clust2sect(x[1]) # 0
    BY <1>1, <1>3, <1>8, Clust2SectIs
  <2>2. /\ curr_clust' = x[1] /\ dsect' = clust2sect(x[1]) + cs /\ pc' = "data"
        /\ flag' = flag /\ result' = result
    BY <1>2, <1>4, <1>8, <2>1
  <2>3. dsect' = SectorOf(x[1], cs)
    <3>1. (x[1] - 2) * volume.csize \in Int /\ database \in Int
      BY <1>1, <1>4, <1>8, VolumeIs
    <3>. QED  BY <1>5, <2>1, <2>2, <3>1 DEF SectorOf
  <2>4. StandsIn(fptr \div SECTOR)'
    <3>1. x[1] = Chain(org_clust)[k] /\ Chain(org_clust)' = Chain(org_clust)
      BY <1>1, <1>3, <1>4, <1>8, FileSame
    <3>2. SectorOf(curr_clust, (fptr \div SECTOR) % volume.csize)' = SectorOf(x[1], cs)
      BY <1>1, <2>2 DEF SectorOf, database, dirbase, n_rootdir, cs, q
    <3>. QED  BY <1>1, <1>8, <2>2, <2>3, <3>1, <3>2 DEF StandsIn, k, q
  <2>5. HasRead'
    <3>1. \A n : ByteAt(n)' = ByteAt(n)
      BY <1>1, FileSame
    <3>. QED  BY <1>1, <2>2, <2>4, <3>1 DEF HasRead
  <2>6. Reads'
    BY <1>1, <2>2 DEF Reads
  <2>7. FatTypeOK'
    BY <1>1, <1>6, <2>2 DEF FatTypeOK, Cluster
  <2>. QED  BY <1>1, <1>7, <2>2, <2>5, <2>6, <2>7 DEF FilesInv
<1>9. CASE x[1] \notin 2 .. volume.n_fatent - 1
  <2>1. clust2sect(x[1]) = 0
    BY <1>1, <1>3, <1>9, Clust2SectIs
  <2>2. flag' = FALSE /\ pc' = "idle" /\ result' = "FR_DISK_ERR"
    BY <1>2, <2>1 DEF ABORT, ReturnWith
  <2>3. x[2] \/ ~Sound
    <3>1. SUFFICES ASSUME ~x[2], Sound PROVE FALSE
      OBVIOUS
    <3>2. fptr < fsize /\ fsize > 0 /\ fptr \in Nat
      BY <1>1 DEF Reads
    <3>3. HasChain(org_clust, fsize)
      BY <1>1, <3>1, <3>2 DEF FilesInv
    <3>4. Chain(org_clust)[k] \in 2 .. volume.n_fatent - 1
      BY <1>1, <3>2, <3>3, InClusters DEF k, q
    <3>. QED  BY <1>3, <1>9, <3>1, <3>4
  <2>4. Answered'
    BY <1>1, <1>2, <2>2, <2>3, SoundFixed DEF Answered
  <2>5. FatTypeOK'
    BY <1>1, <1>6, <2>2 DEF FatTypeOK, Cluster
  <2>. QED  BY <1>1, <2>2, <2>4, <2>5 DEF FilesInv
<1>. QED  BY <1>8, <1>9

(* Where the bytes of the sector from fptr on are.                         *)
LEMMA BytesOfSector ==
    ASSUME volume \in Volumes, fptr \in Nat, StandsIn(fptr \div SECTOR),
           NEW r \in Nat, r < SECTOR - (fptr % SECTOR)
    PROVE  /\ ByteAt(fptr + r) = <<dsect, (fptr % SECTOR) + r>>
           /\ (fptr + r) \div SECTOR = fptr \div SECTOR
<1>. DEFINE q == fptr \div SECTOR
            o == fptr % SECTOR
<1>1. SECTOR \in Nat /\ SECTOR > 0
  BY VolumeIs
<1>2. q \in Nat /\ o \in 0 .. SECTOR - 1 /\ fptr = SECTOR * q + o
  BY <1>1, DivMod
<1>. HIDE DEF q, o
<1>3. fptr + r = SECTOR * q + (o + r) /\ o + r \in 0 .. SECTOR - 1
  BY <1>1, <1>2 DEF o
<1>4. (SECTOR * q + (o + r)) \div SECTOR = q /\ (SECTOR * q + (o + r)) % SECTOR = o + r
  BY <1>1, <1>2, <1>3, DivIs
<1>5. (fptr + r) \div SECTOR = q /\ (fptr + r) % SECTOR = o + r
  BY <1>3, <1>4
<1>6. dsect = database + (Chain(org_clust)[q \div volume.csize] - 2) * volume.csize
                  + (q % volume.csize)
  BY DEF StandsIn, SectorOf, q
<1>. QED  BY <1>5, <1>6 DEF ByteAt, q, o

LEMMA ConcatIs ==
    ASSUME NEW S, NEW s \in Seq(S), NEW t \in Seq(S)
    PROVE  /\ s \o t \in Seq(S) /\ Len(s \o t) = Len(s) + Len(t)
           /\ \A i \in 1 .. Len(s) + Len(t) :
                 (s \o t)[i] = IF i <= Len(s) THEN s[i] ELSE t[i - Len(s)]
OBVIOUS

LEMMA TransferStep == FilesInv /\ Transfer => FilesInv'
<1>. SUFFICES ASSUME FilesInv, Transfer PROVE FilesInv'
  OBVIOUS
<1>. DEFINE o == fptr % SECTOR
            n == IF SECTOR - o > btr THEN btr ELSE SECTOR - o
            new == [i \in 1 .. n |-> <<dsect, o + i - 1>>]
<1>1. /\ volume \in Volumes /\ volume' = volume /\ FatTypeOK
      /\ btr > 0 /\ called' = called /\ FatFs' = FatFs /\ asked' = asked
      /\ fsize' = fsize /\ org_clust' = org_clust /\ curr_clust' = curr_clust /\ dsect' = dsect
      /\ dj' = dj /\ Reads /\ HasRead /\ called = "pf_read" /\ flag /\ FatFs
      /\ fsize \in Nat /\ fptr \in 0 .. fsize /\ fptr \in Nat /\ asked \in 0 .. MaxRead
      /\ btr \in 0 .. MaxRead /\ br \in 0 .. MaxRead /\ MaxRead \in Nat
      /\ SECTOR \in Nat /\ SECTOR > 0
  BY VolumeIs, SMTT(30) DEF FilesInv, FatTypeOK, Transfer, Reads, search
<1>2. (flag /\ fsize > 0 /\ Sound => HasChain(org_clust, fsize))'
  BY <1>1, FileSame, SoundFixed DEF FilesInv
<1>3. StandsIn(fptr \div SECTOR)
  <2>1. CASE pc = "data"
    BY <1>1, <2>1 DEF HasRead
  <2>2. CASE pc = "read" /\ fptr % SECTOR # 0
    <3>1. fptr > 0 /\ fptr - 1 \in Nat /\ (fptr - 1) + 1 = fptr
      <4>1. fptr # 0
        BY <1>1, <2>2, Zero
      <4>. QED  BY <1>1, <4>1
    <3>2. fptr \div SECTOR = (fptr - 1) \div SECTOR
      BY <1>1, <2>2, <3>1, NextDiv
    <3>. QED  BY <1>1, <2>2, <3>1, <3>2 DEF HasRead
  <2>. QED  BY <2>1, <2>2 DEF Transfer
<1>4. o \in 0 .. SECTOR - 1
  BY <1>1, DivMod
<1>5. /\ n \in 1 .. btr /\ n <= SECTOR - o /\ n \in Nat
  BY <1>1, <1>4
<1>6. CASE failed' = TRUE /\ ABORT("FR_DISK_ERR") /\ UNCHANGED <<fptr, transfer>>
  <2>1. /\ flag' = FALSE /\ pc' = "idle" /\ result' = "FR_DISK_ERR" /\ fptr' = fptr
        /\ btr' = btr /\ br' = br
    BY <1>6 DEF ABORT, ReturnWith, transfer
  <2>2. FatTypeOK'
    BY <1>1, <2>1 DEF FatTypeOK
  <2>3. Answered'
    BY <1>6, <2>1 DEF Answered
  <2>. QED  BY <1>1, <1>2, <2>1, <2>2, <2>3 DEF FilesInv
<1>7. CASE /\ got' = got \o new /\ fptr' = fptr + n /\ btr' = btr - n /\ br' = br + n
           /\ pc' = "read" /\ flag' = flag /\ result' = result
  <2>1. /\ fptr' \in 0 .. fsize' /\ btr' \in 0 .. MaxRead /\ br' \in 0 .. MaxRead
        /\ fptr' > 0
    BY <1>1, <1>5, <1>7 DEF Reads
  <2>2. FatTypeOK'
    BY <1>1, <1>7, <2>1 DEF FatTypeOK
  <2>3. Reads'
    BY <1>1, <1>5, <1>7 DEF Reads
  <2>. HIDE DEF n
  <2>4. \A i \in 1 .. n : /\ ByteAt(fptr + i - 1) = new[i]
                         /\ (fptr + i - 1) \div SECTOR = fptr \div SECTOR
    <3>1. SUFFICES ASSUME NEW i \in 1 .. n
                   PROVE  /\ ByteAt(fptr + i - 1) = new[i]
                          /\ (fptr + i - 1) \div SECTOR = fptr \div SECTOR
      OBVIOUS
    <3>2. /\ i - 1 \in Nat /\ i - 1 < SECTOR - (fptr % SECTOR)
          /\ fptr + (i - 1) = fptr + i - 1 /\ o + (i - 1) = o + i - 1
      BY <1>1, <1>4, <1>5
    <3>3. /\ ByteAt(fptr + (i - 1)) = <<dsect, o + (i - 1)>>
          /\ (fptr + (i - 1)) \div SECTOR = fptr \div SECTOR
      BY <1>1, <1>3, <3>2, BytesOfSector
    <3>. QED  BY <3>2, <3>3
  <2>5. dsect \in Int
    <3>1. curr_clust \in Int /\ (fptr \div SECTOR) % volume.csize \in Int /\ database \in Int
      BY <1>1, <1>3, VolumeIs, DivMod DEF FatTypeOK
    <3>. QED  BY <1>1, <1>3, <3>1, VolumeIs DEF StandsIn, SectorOf
  <2>6. /\ new \in Seq(Int \X Int) /\ Len(new) = n
    <3>1. \A i \in 1 .. n : <<dsect, o + i - 1>> \in Int \X Int
      BY <1>4, <1>5, <2>5
    <3>. QED  BY <1>5, <3>1
  <2>. HIDE DEF new, o
  <2>7. /\ got' \in Seq(Int \X Int) /\ Len(got') = fptr'
        /\ \A i \in 1 .. fptr' : got'[i] = IF i <= fptr THEN got[i] ELSE new[i - fptr]
    <3>1. got \in Seq(Int \X Int) /\ Len(got) = fptr
      BY <1>1 DEF HasRead
    <3>2. /\ got \o new \in Seq(Int \X Int) /\ Len(got \o new) = fptr + n
          /\ \A i \in 1 .. fptr + n : (got \o new)[i] = IF i <= fptr THEN got[i] ELSE new[i - fptr]
      BY <2>6, <3>1, ConcatIs, ZenonT(40)
    <3>. QED  BY <1>7, <3>2
  <2>8. \A i \in 1 .. fptr' : got'[i] = ByteAt(i - 1)
    <3>1. SUFFICES ASSUME NEW i \in 1 .. fptr' PROVE got'[i] = ByteAt(i - 1)
      OBVIOUS
    <3>2. CASE i <= fptr
      <4>1. i \in 1 .. fptr
        BY <1>1, <3>2
      <4>2. \A x \in 1 .. fptr : got[x] = ByteAt(x - 1)
        BY <1>1 DEF HasRead
      <4>. QED  BY <2>7, <3>2, <4>1, <4>2
    <3>3. CASE ~(i <= fptr)
      <4>1. i - fptr \in 1 .. n /\ fptr + (i - fptr) - 1 = i - 1
        BY <1>1, <1>5, <1>7, <3>3
      <4>2. ByteAt(fptr + (i - fptr) - 1) = new[i - fptr]
        BY <2>4, <4>1
      <4>. QED  BY <2>7, <3>3, <4>1, <4>2
    <3>. QED  BY <3>2, <3>3
  <2>9. StandsIn((fptr' - 1) \div SECTOR)
    <3>1. n \in 1 .. n /\ fptr' - 1 = fptr + n - 1
      BY <1>1, <1>5, <1>7
    <3>2. (fptr' - 1) \div SECTOR = fptr \div SECTOR
      BY <2>4, <3>1
    <3>. QED  BY <1>3, <3>2
  <2>10. HasRead'
    <3>1. \A x : (ByteAt(x)' = ByteAt(x)) /\ (StandsIn(x)' <=> StandsIn(x))
      BY <1>1, FileSame
    <3>2. \A i \in 1 .. fptr' : got'[i] = ByteAt(i - 1)'
      BY <2>8, <3>1
    <3>3. (StandsIn((fptr - 1) \div SECTOR))'
      BY <1>1, <2>9, FileSame DEF StandsIn, SectorOf, database, dirbase, n_rootdir
    <3>4. (\A i \in 1 .. fptr : got[i] = ByteAt(i - 1))'
      BY <1>1, <2>8, FileSame DEF ByteAt, database, dirbase, n_rootdir
    <3>. QED  BY <1>7, <2>7, <3>3, <3>4 DEF HasRead
  <2>. QED  BY <1>1, <1>2, <1>7, <2>2, <2>3, <2>10 DEF FilesInv
<1>8. \/ failed' = TRUE /\ ABORT("FR_DISK_ERR") /\ UNCHANGED <<fptr, transfer>>
      \/ /\ got' = got \o new /\ fptr' = fptr + n /\ btr' = btr - n /\ br' = br + n
         /\ pc' = "read" /\ flag' = flag /\ result' = result
  BY DEF Transfer
<1>. QED  BY <1>6, <1>7, <1>8

LEMMA ReadDoneStep == FilesInv /\ ReadDone => FilesInv'
<1>. SUFFICES ASSUME FilesInv, ReadDone PROVE FilesInv'
  OBVIOUS
<1>1. /\ volume \in Volumes /\ volume' = volume /\ FatTypeOK /\ pc = "read" /\ btr = 0
      /\ pc' = "idle" /\ result' = "FR_OK" /\ called' = called /\ asked' = asked
      /\ failed' = failed /\ FatFs' = FatFs /\ flag' = flag
      /\ fptr' = fptr /\ fsize' = fsize /\ org_clust' = org_clust /\ curr_clust' = curr_clust
      /\ dsect' = dsect /\ dj' = dj /\ btr' = btr /\ br' = br /\ got' = got
      /\ Reads /\ HasRead /\ fptr \in 0 .. fsize /\ fsize \in Nat /\ br \in Nat
  BY VolumeIs DEF FilesInv, FatTypeOK, ReadDone, ReturnWith, Reads, file, search, transfer
<1>2. FatTypeOK'
  BY <1>1 DEF FatTypeOK
<1>3. (flag /\ fsize > 0 /\ Sound => HasChain(org_clust, fsize))'
  BY <1>1, FileSame, SoundFixed DEF FilesInv
<1>4. HasRead'
  <2>1. \A x : (ByteAt(x)' = ByteAt(x)) /\ (StandsIn(x)' <=> StandsIn(x))
    BY <1>1, FileSame
  <2>. QED  BY <1>1, <2>1 DEF HasRead
<1>5. Answered'
  BY <1>1 DEF Answered, Reads
<1>. QED  BY <1>1, <1>2, <1>3, <1>4, <1>5 DEF FilesInv

LEMMA PfMountStep == FilesInv /\ pf_mount => FilesInv'
<1>. SUFFICES ASSUME FilesInv, pf_mount PROVE FilesInv'
  OBVIOUS
<1>1. /\ volume \in Volumes /\ volume' = volume /\ FatTypeOK /\ pc' = "idle"
      /\ result' = result /\ called' = "pf_mount" /\ asked' = 0 /\ FatFs' \in BOOLEAN
      /\ flag' = FALSE \/ (flag' = flag /\ FatFs' = FALSE)
      /\ fptr' = fptr /\ fsize' = fsize /\ org_clust' = org_clust /\ curr_clust' = curr_clust
      /\ dsect' = dsect /\ dj' = NoDir /\ btr' = 0 /\ br' = 0
      /\ MaxRead \in Nat /\ INDEX \in Nat \ {0}
  BY VolumeIs DEF FilesInv, FatTypeOK, pf_mount, NoSearch, NoTransfer, file
<1>2. FatTypeOK'
  <2>1. dj'.index \in 0 .. INDEX - 1 /\ btr' \in 0 .. MaxRead /\ br' \in 0 .. MaxRead
    BY <1>1 DEF NoDir
  <2>. QED  BY <1>1, <2>1 DEF FatTypeOK
<1>3. (flag /\ fsize > 0 /\ Sound => HasChain(org_clust, fsize))'
  BY <1>1, FileSame, SoundFixed DEF FilesInv
<1>. QED  BY <1>1, <1>2, <1>3 DEF FilesInv

LEMMA FilesStep == FilesInv /\ [FatNext]_fatVars => FilesInv'
<1>. SUFFICES ASSUME FilesInv, [FatNext]_fatVars PROVE FilesInv'
  OBVIOUS
<1>1. CASE UNCHANGED fatVars
  <2>1. /\ volume' = volume /\ org_clust' = org_clust /\ fsize' = fsize
        /\ curr_clust' = curr_clust /\ dsect' = dsect /\ fptr' = fptr /\ got' = got /\ pc' = pc
        /\ rest' = rest /\ btr' = btr /\ br' = br /\ asked' = asked /\ dj' = dj /\ flag' = flag
        /\ FatFs' = FatFs /\ called' = called /\ result' = result /\ failed' = failed
    BY <1>1 DEF fatVars, file, search, transfer
  <2>2. /\ \A x : (ByteAt(x)' = ByteAt(x)) /\ (StandsIn(x)' <=> StandsIn(x))
        /\ Sound' <=> Sound
        /\ HasChain(org_clust, fsize)' <=> HasChain(org_clust, fsize)
    BY <2>1, FileSame, SoundFixed
  <2>3. HasRead' <=> HasRead
    BY <2>1, <2>2 DEF HasRead
  <2>4. (Reads' <=> Reads) /\ (Answered' <=> Answered) /\ (FatTypeOK' <=> FatTypeOK)
    BY <2>1, <2>2 DEF Reads, Answered, FatTypeOK
  <2>5. Finding => Finding'
    <3>1. InDirectory => InDirectory'
      BY <2>1, InDirectoryNext DEF InDirectory
    <3>2. NoneBefore => NoneBefore'
      BY <2>1, SamePlace DEF NoneBefore, Differs, End
    <3>3. (InSound => InSound') /\ (NameOfPath => NameOfPath')
      BY <2>1, SoundFixed DEF InSound, NameOfPath
    <3>. QED  BY <3>1, <3>2, <3>3 DEF Finding
  <2>. QED  BY <2>1, <2>2, <2>3, <2>4, <2>5 DEF FilesInv
<1>. QED  BY <1>1, PfOpenStep, PfReadStep, PfMountStep, DirFindStep, LocateStep, TransferStep,
             ReadDoneStep
          DEF FatNext, FatStep

(* What holds between any two sector reads of pf_open and pf_read.         *)
THEOREM FilesInvariant == FatSpec => []FilesInv
BY FilesInit, FilesStep, PTL DEF FatSpec

(* Whatever the FAT, the directories and the caller say, only sectors of   *)
(* the volume are read, and file data only from its data area.             *)
THEOREM ReadsStayInVolume == FatSpec => []StaysInVolume
<1>1. FilesInv => StaysInVolume
  <2>1. SUFFICES ASSUME FilesInv PROVE StaysInVolume
    OBVIOUS
  <2>2. volume \in Volumes /\ dj.index \in 0 .. INDEX - 1 /\ FatTypeOK
    BY <2>1 DEF FilesInv, FatTypeOK
  <2>3. pc = "find" => dj.sect \in Sectors
    BY <2>1, <2>2, EntryIsOfVolume DEF FilesInv, Finding
  <2>4. ASSUME pc = "data" PROVE dsect \in Sectors /\ dsect >= database
    <3>1. StandsIn(fptr \div SECTOR) /\ fptr \in Nat
      BY <2>1, <2>4 DEF FilesInv, Reads, HasRead, FatTypeOK
    <3>2. (fptr \div SECTOR) % volume.csize \in 0 .. volume.csize - 1
      <4>1. SECTOR \in Nat /\ SECTOR > 0 /\ volume.csize \in Nat /\ volume.csize > 0
        BY <2>2, VolumeIs
      <4>2. fptr \div SECTOR \in Nat
        BY <3>1, <4>1, DivMod
      <4>. QED  BY <4>1, <4>2, DivMod
    <3>. QED  BY <2>2, <3>1, <3>2, ClusterSector DEF StandsIn
  <2>. QED  BY <2>2, <2>3, <2>4 DEF StaysInVolume
<1>. QED  BY <1>1, FilesInvariant, PTL

(* Any sequence of reads of any lengths delivers the file's bytes, in      *)
(* order, each once; and what an answer says of the file is so.            *)
THEOREM FileIsRead == FatSpec => []ReadsTheFile
<1>1. FilesInv => ReadsTheFile
  BY DEF FilesInv, HasRead, Answered, ReadsTheFile
<1>. QED  BY <1>1, FilesInvariant, PTL

-----------------------------------------------------------------------------
(* Opening: names as a path spells them and as a directory holds them      *)

LEMMA PartOf ==
    ASSUME NEW S, NEW name \in Seq(S), NEW low \in Nat, NEW k \in low .. Len(name)
    PROVE  /\ SubSeq(name, low + 1, k) \in Seq(S)
           /\ Len(SubSeq(name, low + 1, k)) = k - low
           /\ \A i \in 1 .. k - low : SubSeq(name, low + 1, k)[i] = name[low + i]
<1>1. CASE k = low
  <2>1. SubSeq(name, low + 1, k) = <<>>
    BY <1>1
  <2>. QED  BY <1>1, <2>1
<1>2. CASE k > low
  <2>1. low + 1 \in 1 .. Len(name) /\ k \in 1 .. Len(name) /\ low + 1 <= k
    BY <1>2
  <2>2. SubSeq(name, low + 1, k) \in Seq(S) /\ Len(SubSeq(name, low + 1, k)) = k - low
    BY <2>1
  <2>3. ASSUME NEW i \in 1 .. k - low PROVE SubSeq(name, low + 1, k)[i] = name[low + i]
    BY <2>1
  <2>. QED  BY <2>2, <2>3
<1>. QED  BY <1>1, <1>2

LEMMA FieldIs ==
    ASSUME NEW name \in Seq(STRING), NEW low \in Nat, NEW last \in low .. Len(name),
           \A i, j \in low + 1 .. last : i < j /\ name[i] = Blank => name[j] = Blank
    PROVE  \E k \in 0 .. last - low :
              /\ \A i \in 1 .. last - low : name[low + i] # Blank <=> i <= k
              /\ Field(name, low + 1, last) \in Seq(STRING)
              /\ Len(Field(name, low + 1, last)) = k
              /\ \A i \in 1 .. k : Field(name, low + 1, last)[i] = name[low + i]
<1>. DEFINE P(k) == \A i \in low + 1 .. last : name[i] # Blank <=> i <= k
            T == {i \in low + 1 .. last : name[i] = Blank}
<1>1. \E k \in low .. last : P(k)
  <2>1. CASE T = {}
    <3>1. P(last)
      BY <2>1
    <3>. HIDE DEF P
    <3>. QED  BY <3>1
  <2>2. CASE T # {}
    <3>1. T \in SUBSET Nat
      OBVIOUS
    <3>2. PICK m \in T : \A i \in T : m <= i
      BY <2>2, <3>1, LeastMember
    <3>3. P(m - 1)
      <4>1. m \in low + 1 .. last /\ name[m] = Blank
        BY <3>2
      <4>2. ASSUME NEW i \in low + 1 .. last PROVE name[i] # Blank <=> i <= m - 1
        <5>1. CASE i < m
          <6>1. i \notin T
            BY <3>2, <4>1, <5>1
          <6>. QED  BY <4>1, <5>1, <6>1
        <5>2. CASE i = m
          BY <4>1, <5>2
        <5>3. CASE i > m
          BY <4>1, <5>3
        <5>. QED  BY <4>1, <5>1, <5>2, <5>3
      <4>. QED  BY <4>2
    <3>4. m - 1 \in low .. last
      BY <3>2
    <3>. HIDE DEF P
    <3>. QED  BY <3>3, <3>4
  <2>. QED  BY <2>1, <2>2
<1>. DEFINE e == CHOOSE k \in low .. last : P(k)
<1>2. e \in low .. last /\ P(e)
  <2>. HIDE DEF P
  <2>. QED  BY <1>1
<1>3. Field(name, low + 1, last) = SubSeq(name, low + 1, e)
  <2>1. (low + 1) - 1 = low
    OBVIOUS
  <2>. QED  BY <2>1 DEF Field
<1>. HIDE DEF e
<1>4. e \in low .. Len(name)
  BY <1>2
<1>5. /\ SubSeq(name, low + 1, e) \in Seq(STRING)
      /\ Len(SubSeq(name, low + 1, e)) = e - low
      /\ \A i \in 1 .. e - low : SubSeq(name, low + 1, e)[i] = name[low + i]
  BY <1>4, PartOf
<1>6. ASSUME NEW i \in 1 .. last - low PROVE name[low + i] # Blank <=> i <= e - low
  <2>1. low + i \in low + 1 .. last
    OBVIOUS
  <2>. QED  BY <1>2, <2>1
<1>7. e - low \in 0 .. last - low
  BY <1>2
<1>. QED  BY <1>3, <1>5, <1>6, <1>7

LEMMA Joined ==
    ASSUME NEW S, NEW u \in Seq(S), NEW v \in Seq(S)
    PROVE  /\ u \o v \in Seq(S) /\ Len(u \o v) = Len(u) + Len(v)
           /\ \A k \in 1 .. Len(u) : (u \o v)[k] = u[k]
           /\ \A k \in 1 .. Len(v) : (u \o v)[Len(u) + k] = v[k]
<1>1. u \o v \in Seq(S) /\ Len(u \o v) = Len(u) + Len(v)
  OBVIOUS
<1>2. \A k \in 1 .. Len(u) : (u \o v)[k] = u[k]
  OBVIOUS
<1>3. ASSUME NEW k \in 1 .. Len(v) PROVE (u \o v)[Len(u) + k] = v[k]
  <2>1. Len(u) + k \in 1 .. Len(u) + Len(v) /\ ~(Len(u) + k <= Len(u))
        /\ (Len(u) + k) - Len(u) = k
    OBVIOUS
  <2>. QED  BY <2>1
<1>. QED  BY <1>1, <1>2, <1>3

Letter == STRING \cup {Dot}

LEMMA DotAndLetters ==
    /\ <<Dot>> \in Seq(Letter) /\ Len(<<Dot>>) = 1 /\ <<Dot>>[1] = Dot
    /\ \A t \in Seq(STRING) : t \in Seq(Letter)
<1>. DEFINE S == STRING \cup {Dot}
<1>1. \A t \in Seq(STRING) : t \in Seq(S)
  OBVIOUS
<1>2. Dot \in S
  OBVIOUS
<1>. HIDE DEF S
<1>3. <<Dot>> \in Seq(S) /\ Len(<<Dot>>) = 1 /\ <<Dot>>[1] = Dot
  BY <1>2
<1>. QED  BY <1>1, <1>3, Zenon DEF S, Letter

(* A name that is spelled with b characters before the dot and x after it. *)
Sizes(name, b, x) ==
    /\ \A i \in 1 .. BODY : name[i] # Blank <=> i <= b
    /\ \A i \in 1 .. NAME - BODY : name[BODY + i] # Blank <=> i <= x

Letters(name, b, x, s) ==
    /\ s \in Seq(Letter) /\ Len(s) = IF x = 0 THEN b ELSE b + 1 + x
    /\ \A k \in 1 .. b : s[k] = name[k]
    /\ x > 0 => s[b + 1] = Dot
    /\ \A k \in 1 .. x : s[b + 1 + k] = name[BODY + k]

LEMMA SpelledIs ==
    ASSUME NEW name \in Seq(STRING), WellFormed(name)
    PROVE  \E b \in 1 .. BODY, x \in 0 .. NAME - BODY :
              Sizes(name, b, x) /\ Letters(name, b, x, Spelled(name))
<1>. DEFINE bod == Field(name, 1, BODY)
            ext == Field(name, BODY + 1, NAME)
<1>1. BODY \in Nat /\ BODY > 0 /\ NAME \in Nat /\ BODY < NAME
  BY FatAssumption
<1>2. /\ Len(name) = NAME /\ name[1] # Blank
      /\ \A i, j \in 1 .. NAME :
            i < j /\ (j <= BODY \/ i > BODY) /\ name[i] = Blank => name[j] = Blank
  BY DEF WellFormed
<1>3. PICK b \in 0 .. BODY :
        /\ \A i \in 1 .. BODY : name[i] # Blank <=> i <= b
        /\ bod \in Seq(STRING) /\ Len(bod) = b /\ \A i \in 1 .. b : bod[i] = name[i]
  <2>. DEFINE Is(low, last, k) ==
                /\ \A i \in 1 .. last - low : name[low + i] # Blank <=> i <= k
                /\ Field(name, low + 1, last) \in Seq(STRING)
                /\ Len(Field(name, low + 1, last)) = k
                /\ \A i \in 1 .. k : Field(name, low + 1, last)[i] = name[low + i]
  <2>1. \A i, j \in 0 + 1 .. BODY : i < j /\ name[i] = Blank => name[j] = Blank
    BY <1>1, <1>2
  <2>2. 0 \in Nat /\ BODY \in 0 .. Len(name)
    BY <1>1, <1>2
  <2>3. PICK b \in 0 .. BODY - 0 : Is(0, BODY, b)
    BY <2>1, <2>2, FieldIs
  <2>4. b \in 0 .. BODY /\ 0 + 1 = 1 /\ BODY - 0 = BODY /\ \A i \in 1 .. BODY : 0 + i = i
    BY <1>1
  <2>5. 1 .. b \subseteq 1 .. BODY
    BY <1>1, <2>4
  <2>. QED  BY <2>3, <2>4, <2>5
<1>4. PICK x \in 0 .. NAME - BODY :
        /\ \A i \in 1 .. NAME - BODY : name[BODY + i] # Blank <=> i <= x
        /\ ext \in Seq(STRING) /\ Len(ext) = x /\ \A i \in 1 .. x : ext[i] = name[BODY + i]
  <2>1. \A i, j \in BODY + 1 .. NAME : i < j /\ name[i] = Blank => name[j] = Blank
    BY <1>1, <1>2
  <2>2. BODY \in Nat /\ NAME \in BODY .. Len(name)
    BY <1>1, <1>2
  <2>3. \E y \in 0 .. NAME - BODY :
           /\ \A i \in 1 .. NAME - BODY : name[BODY + i] # Blank <=> i <= y
           /\ Field(name, BODY + 1, NAME) \in Seq(STRING)
           /\ Len(Field(name, BODY + 1, NAME)) = y
           /\ \A i \in 1 .. y : Field(name, BODY + 1, NAME)[i] = name[BODY + i]
    <3>. HIDE DEF ext, bod
    <3>. QED  BY <2>1, <2>2, FieldIs, Zenon
  <2>. QED  BY <2>3
<1>. HIDE DEF ext, bod
<1>5. bod \in Seq(Letter) /\ ext \in Seq(Letter)
  BY <1>3, <1>4, DotAndLetters
<1>6. b \in 1 .. BODY
  <2>1. 1 \in 1 .. BODY
    BY <1>1
  <2>. QED  BY <1>1, <1>2, <1>3, <2>1
<1>7. Sizes(name, b, x)
  BY <1>3, <1>4 DEF Sizes
<1>8. CASE x = 0
  <2>1. ext = <<>>
    BY <1>4, <1>8
  <2>2. Spelled(name) = bod \o <<>>
    BY <2>1 DEF Spelled, ext, bod
  <2>3. Spelled(name) = bod
    BY <1>3, <1>5, <2>2
  <2>4. Letters(name, b, x, Spelled(name))
    BY <1>3, <1>5, <1>8, <2>3 DEF Letters
  <2>. QED  BY <1>4, <1>6, <1>7, <2>4
<1>9. CASE x # 0
  <2>1. ext # <<>> /\ x > 0 /\ x \in Nat /\ b \in Nat
    BY <1>1, <1>4, <1>6, <1>9
  <2>2. Spelled(name) = bod \o (<<Dot>> \o ext)
    BY <2>1 DEF Spelled, ext, bod
  <2>. DEFINE t == <<Dot>> \o ext
  <2>3. t \in Seq(Letter) /\ Len(t) = x + 1 /\ t[1] = Dot /\ \A i \in 1 .. x : t[i + 1] = ext[i]
    <3>1. <<Dot>> \in Seq(Letter) /\ Len(<<Dot>>) = 1 /\ <<Dot>>[1] = Dot
      BY DotAndLetters
    <3>2. t \in Seq(Letter) /\ Len(t) = 1 + x
      BY <1>4, <1>5, <3>1
    <3>3. \A i \in 1 .. 1 + x : t[i] = IF i <= 1 THEN <<Dot>>[i] ELSE ext[i - 1]
      BY <1>4, <1>5, <3>1
    <3>4. t[1] = Dot
      BY <2>1, <3>1, <3>3
    <3>5. ASSUME NEW i \in 1 .. x PROVE t[i + 1] = ext[i]
      <4>1. i + 1 \in 1 .. 1 + x /\ ~(i + 1 <= 1) /\ (i + 1) - 1 = i
        BY <2>1
      <4>. QED  BY <3>3, <4>1
    <3>. QED  BY <2>1, <3>2, <3>4, <3>5
  <2>. HIDE DEF t
  <2>4. /\ Spelled(name) \in Seq(Letter) /\ Len(Spelled(name)) = b + 1 + x
        /\ \A k \in 1 .. b : Spelled(name)[k] = bod[k]
        /\ \A k \in 1 .. x + 1 : Spelled(name)[b + k] = t[k]
    <3>1. Spelled(name) = bod \o t
      BY <2>2 DEF t
    <3>2. /\ bod \o t \in Seq(Letter) /\ Len(bod \o t) = Len(bod) + Len(t)
          /\ \A k \in 1 .. Len(bod) : (bod \o t)[k] = bod[k]
          /\ \A k \in 1 .. Len(t) : (bod \o t)[Len(bod) + k] = t[k]
      <4>1. bod \in Seq(Letter) /\ t \in Seq(Letter)
        BY <1>5, <2>3
      <4>. QED  BY <4>1, Joined
    <3>3. Len(bod) = b /\ Len(t) = x + 1
      BY <1>3, <2>3
    <3>6. b + (x + 1) = b + 1 + x
      BY <2>1
    <3>. QED  BY <3>1, <3>2, <3>3, <3>6
  <2>5. \A k \in 1 .. x : Spelled(name)[b + 1 + k] = name[BODY + k]
    <3>1. ASSUME NEW k \in 1 .. x PROVE Spelled(name)[b + 1 + k] = name[BODY + k]
      <4>1. k + 1 \in 1 .. x + 1 /\ b + 1 + k = b + (k + 1)
        BY <2>1
      <4>. QED  BY <1>4, <2>3, <2>4, <4>1
    <3>. QED  BY <3>1
  <2>6. Spelled(name)[b + 1] = Dot
    BY <2>1, <2>3, <2>4
  <2>7. Letters(name, b, x, Spelled(name))
    BY <1>3, <1>9, <2>4, <2>5, <2>6 DEF Letters
  <2>. QED  BY <1>4, <1>6, <1>7, <2>7
<1>. QED  BY <1>8, <1>9

(* The first name of a path, n characters long, is spelled in the same     *)
(* way.                                                                    *)
Begins(q, n) ==
    /\ n \in 0 .. Len(q)
    /\ \A k \in 1 .. n : q[k] # Slash
    /\ n < Len(q) => q[n + 1] = Slash

Fitting(q, n, b) ==
    /\ b \in 1 .. BODY /\ n \in {b} \cup b + 2 .. b + 1 + (NAME - BODY)
    /\ \A k \in 1 .. n : q[k] = Dot <=> k = b + 1

LEMMA FittingName ==
    ASSUME NEW q \in Seq(PathCharacter), NEW n, Begins(q, n), NEW b, Fitting(q, n, b)
    PROVE  /\ create_name(q).fn =
                  [i \in 1 .. NAME |->
                      IF i <= BODY THEN IF i <= b THEN q[i] ELSE Blank
                      ELSE IF b + 1 + (i - BODY) <= n THEN q[b + 1 + (i - BODY)] ELSE Blank]
           /\ create_name(q).last <=> n = Len(q)
           /\ create_name(q).rest = SubSeq(q, n + 2, Len(q))
<1>. DEFINE d == DotOf(q)
            l == LengthOf(q)
<1>1. /\ BODY \in Nat /\ NAME \in Nat /\ BODY < NAME /\ Len(q) \in Nat
      /\ n \in 0 .. Len(q) /\ b \in 1 .. BODY /\ n \in {b} \cup b + 2 .. b + 1 + (NAME - BODY)
      /\ \A k \in 1 .. n : q[k] # Slash
      /\ n < Len(q) => q[n + 1] = Slash
      /\ \A k \in 1 .. n : q[k] = Dot <=> k = b + 1
  <2>1. BODY \in Nat /\ NAME \in Nat /\ BODY < NAME /\ Len(q) \in Nat
    BY FatAssumption
  <2>2. /\ n \in 0 .. Len(q) /\ b \in 1 .. BODY
        /\ n \in {b} \cup b + 2 .. b + 1 + (NAME - BODY)
        /\ \A k \in 1 .. n : q[k] # Slash
        /\ n < Len(q) => q[n + 1] = Slash
        /\ \A k \in 1 .. n : q[k] = Dot <=> k = b + 1
    BY Zenon DEF Begins, Fitting
  <2>. QED  BY <2>1, <2>2
<1>2. /\ d \in 1 .. Len(q) + 1 /\ l \in 0 .. Len(q)
      /\ d # Len(q) + 1 => q[d] = Dot
      /\ \A k \in 1 .. Len(q) : q[k] = Dot => d <= k
      /\ l < Len(q) => EndsAt(q, l + 1)
      /\ \A k \in 1 .. l : ~EndsAt(q, k)
  BY PlacesAre
<1>3. \A k : EndsAt(q, k) <=> \/ q[k] = Slash
                              \/ k < d /\ k > BODY
                              \/ k > d /\ (q[k] = Dot \/ k - d > NAME - BODY)
  BY DEF EndsAt
<1>. HIDE DEF d, l
<1>4. (n = b /\ d > n) \/ (n > b /\ d = b + 1)
  <2>1. CASE n = b
    <3>1. ~(d <= n)
      <4>1. SUFFICES ASSUME d <= n PROVE FALSE
        OBVIOUS
      <4>2. d \in 1 .. n /\ q[d] = Dot
        BY <1>1, <1>2, <4>1
      <4>. QED  BY <1>1, <2>1, <4>2
    <3>. QED  BY <1>1, <1>2, <2>1, <3>1
  <2>2. CASE n # b
    <3>1. b + 1 \in 1 .. n /\ n \in 1 .. Len(q) /\ n > b
      BY <1>1, <2>2
    <3>2. d <= b + 1
      <4>1. b + 1 \in 1 .. Len(q) /\ q[b + 1] = Dot
        BY <1>1, <3>1
      <4>. QED  BY <1>2, <4>1
    <3>3. d \in 1 .. n /\ q[d] = Dot
      BY <1>1, <1>2, <3>1, <3>2
    <3>. QED  BY <1>1, <3>1, <3>3
  <2>. QED  BY <2>1, <2>2
<1>5. \A k \in 1 .. n : ~EndsAt(q, k)
  <2>. SUFFICES ASSUME NEW k \in 1 .. n, EndsAt(q, k) PROVE FALSE
    OBVIOUS
  <2>1. q[k] # Slash /\ (q[k] = Dot <=> k = b + 1)
    BY <1>1
  <2>2. CASE k < d /\ k > BODY
    BY <1>1, <1>4, <2>2
  <2>3. CASE k > d /\ (q[k] = Dot \/ k - d > NAME - BODY)
    <3>1. n > b /\ d = b + 1 /\ n <= b + 1 + (NAME - BODY)
      BY <1>1, <1>2, <1>4, <2>3
    <3>2. k # b + 1 /\ k - d <= NAME - BODY
      BY <1>1, <2>3, <3>1
    <3>3. ~(k - d > NAME - BODY)
      BY <1>1, <1>2, <3>2
    <3>. QED  BY <2>1, <2>3, <3>2, <3>3
  <2>. QED  BY <1>3, <2>1, <2>2, <2>3
<1>6. l = n
  <2>1. ~(l < n)
    <3>1. l < n => l + 1 \in 1 .. n /\ l < Len(q)
      BY <1>1, <1>2
    <3>. QED  BY <1>2, <1>5, <3>1
  <2>2. ~(l > n)
    <3>1. l > n => n + 1 \in 1 .. l /\ n < Len(q)
      BY <1>1, <1>2
    <3>2. n < Len(q) => EndsAt(q, n + 1)
      BY <1>1, <1>3
    <3>. QED  BY <1>2, <3>1, <3>2
  <2>. QED  BY <1>1, <1>2, <2>1, <2>2
<1>7. create_name(q).fn =
          [i \in 1 .. NAME |->
              IF i <= BODY THEN IF i <= b THEN q[i] ELSE Blank
              ELSE IF b + 1 + (i - BODY) <= n THEN q[b + 1 + (i - BODY)] ELSE Blank]
  <2>. DEFINE F(i) == IF i <= BODY
                      THEN IF i < d /\ i <= l THEN q[i] ELSE Blank
                      ELSE IF d + (i - BODY) <= l THEN q[d + (i - BODY)] ELSE Blank
              G(i) == IF i <= BODY THEN IF i <= b THEN q[i] ELSE Blank
                      ELSE IF b + 1 + (i - BODY) <= n THEN q[b + 1 + (i - BODY)] ELSE Blank
  <2>1. create_name(q).fn = [i \in 1 .. NAME |-> F(i)]
    BY CreateNameIs, Zenon DEF d, l
  <2>2. ASSUME NEW i \in 1 .. NAME PROVE F(i) = G(i)
    <3>1. CASE i <= BODY
      <4>1. (i < d /\ i <= l) <=> i <= b
        BY <1>1, <1>2, <1>4, <1>6
      <4>. QED  BY <3>1, <4>1
    <3>2. CASE ~(i <= BODY)
      <4>1. CASE n = b /\ d > n
        <5>1. ~(d + (i - BODY) <= l) /\ ~(b + 1 + (i - BODY) <= n)
          BY <1>1, <1>2, <1>6, <3>2, <4>1
        <5>. QED  BY <3>2, <5>1
      <4>2. CASE d = b + 1
        BY <1>6, <3>2, <4>2
      <4>. QED  BY <1>4, <4>1, <4>2
    <3>. QED  BY <3>1, <3>2
  <2>3. [i \in 1 .. NAME |-> F(i)] = [i \in 1 .. NAME |-> G(i)]
    <3>. HIDE DEF F, G
    <3>. QED  BY <2>2
  <2>. QED  BY <2>1, <2>3
<1>8. (create_name(q).last <=> l = Len(q)) /\ create_name(q).rest = SubSeq(q, l + 2, Len(q))
  BY CreateNameIs, Zenon DEF l
<1>. QED  BY <1>6, <1>7, <1>8

(* No entry has the name that is made of none.                             *)
LEMMA NoName ==
    ASSUME NEW q \in Seq(PathCharacter), q = <<>> \/ q[1] \in {Slash, Dot}
    PROVE  create_name(q).fn[1] = Blank
<1>1. BODY \in Nat /\ BODY > 0 /\ NAME \in Nat /\ 1 \in 1 .. NAME /\ 1 <= BODY /\ Len(q) \in Nat
  BY FatAssumption
<1>2. ~(1 < DotOf(q) /\ 1 <= LengthOf(q))
  <2>1. SUFFICES ASSUME 1 < DotOf(q), 1 <= LengthOf(q) PROVE FALSE
    OBVIOUS
  <2>2. 1 \in 1 .. Len(q) /\ 1 \in 1 .. LengthOf(q)
    BY <1>1, <2>1, PlacesAre
  <2>3. q[1] # Dot
    BY <2>1, <2>2, PlacesAre
  <2>4. q[1] # Slash
    BY <2>2, PlacesAre DEF EndsAt
  <2>5. q # <<>>
    BY <2>2
  <2>. QED  BY <2>3, <2>4, <2>5
<1>3. create_name(q).fn[1] = IF 1 < DotOf(q) /\ 1 <= LengthOf(q) THEN q[1] ELSE Blank
  <2>. DEFINE F(i) == IF i <= BODY
                      THEN IF i < DotOf(q) /\ i <= LengthOf(q) THEN q[i] ELSE Blank
                      ELSE IF DotOf(q) + (i - BODY) <= LengthOf(q)
                           THEN q[DotOf(q) + (i - BODY)] ELSE Blank
  <2>1. create_name(q).fn = [i \in 1 .. NAME |-> F(i)]
    BY CreateNameIs, Zenon
  <2>2. F(1) = IF 1 < DotOf(q) /\ 1 <= LengthOf(q) THEN q[1] ELSE Blank
    BY <1>1
  <2>. HIDE DEF F
  <2>. QED  BY <1>1, <2>1, <2>2
<1>. QED  BY <1>2, <1>3

(* An entry has the name that create_name makes of a path's first name     *)
(* exactly if it is spelled as that.                                       *)
LEMMA NameMatches ==
    ASSUME NEW q \in Seq(PathCharacter), NEW n, Begins(q, n), NEW b, Fitting(q, n, b),
           NEW name \in Seq(STRING), WellFormed(name)
    PROVE  name = create_name(q).fn <=> Spelled(name) = SubSeq(q, 1, n)
<1>. DEFINE F(i) == IF i <= BODY THEN IF i <= b THEN q[i] ELSE Blank
                    ELSE IF b + 1 + (i - BODY) <= n THEN q[b + 1 + (i - BODY)] ELSE Blank
            fn == [i \in 1 .. NAME |-> F(i)]
            s == SubSeq(q, 1, n)
            t == Spelled(name)
<1>1. create_name(q).fn = fn
  BY FittingName, ZenonT(30)
<1>2. /\ BODY \in Nat /\ NAME \in Nat /\ BODY < NAME /\ Len(q) \in Nat
      /\ n \in 0 .. Len(q) /\ b \in 1 .. BODY /\ n \in {b} \cup b + 2 .. b + 1 + (NAME - BODY)
      /\ \A k \in 1 .. n : q[k] = Dot <=> k = b + 1
      /\ Len(name) = NAME /\ \A i \in 1 .. NAME : name[i] # Dot
  <2>1. BODY \in Nat /\ NAME \in Nat /\ BODY < NAME /\ Len(q) \in Nat
    BY FatAssumption
  <2>2. /\ n \in 0 .. Len(q) /\ b \in 1 .. BODY
        /\ n \in {b} \cup b + 2 .. b + 1 + (NAME - BODY)
        /\ \A k \in 1 .. n : q[k] = Dot <=> k = b + 1
    BY Zenon DEF Begins, Fitting
  <2>3. Len(name) = NAME /\ \A i \in 1 .. NAME : name[i] # Dot
    BY DEF WellFormed
  <2>. QED  BY <2>1, <2>2, <2>3
<1>3. s \in Seq(PathCharacter) /\ Len(s) = n /\ \A k \in 1 .. n : s[k] = q[k]
  BY <1>2
<1>4. \A k \in 1 .. n : q[k] # Blank
  BY <1>2 DEF PathCharacter
<1>5. PICK c \in 1 .. BODY, x \in 0 .. NAME - BODY : Sizes(name, c, x) /\ Letters(name, c, x, t)
  BY SpelledIs
<1>6. /\ \A i \in 1 .. BODY : name[i] # Blank <=> i <= c
      /\ \A i \in 1 .. NAME - BODY : name[BODY + i] # Blank <=> i <= x
      /\ t \in Seq(Letter) /\ Len(t) = IF x = 0 THEN c ELSE c + 1 + x
      /\ \A k \in 1 .. c : t[k] = name[k]
      /\ x > 0 => t[c + 1] = Dot
      /\ \A k \in 1 .. x : t[c + 1 + k] = name[BODY + k]
  BY <1>5 DEF Sizes, Letters
<1>. HIDE DEF s, t
<1>7. ASSUME name = fn PROVE t = s
  <2>1. \A i \in 1 .. NAME : name[i] = F(i)
    BY <1>7
  <2>2. c = b
    <3>1. \A i \in 1 .. BODY : name[i] # Blank <=> i <= b
      <4>1. ASSUME NEW i \in 1 .. BODY PROVE name[i] # Blank <=> i <= b
        <5>1. i \in 1 .. NAME /\ name[i] = IF i <= b THEN q[i] ELSE Blank
          BY <1>2, <2>1
        <5>2. i <= b => i \in 1 .. n
          BY <1>2
        <5>. QED  BY <1>4, <5>1, <5>2
      <4>. QED  BY <4>1
    <3>2. c \in 1 .. BODY /\ b \in 1 .. BODY
      BY <1>2
    <3>3. (c <= c <=> c <= b) /\ (b <= c <=> b <= b)
      BY <1>6, <3>1, <3>2
    <3>. QED  BY <3>2, <3>3
  <2>3. \A i \in 1 .. NAME - BODY :
            name[BODY + i] = IF b + 1 + i <= n THEN q[b + 1 + i] ELSE Blank
    <3>1. ASSUME NEW i \in 1 .. NAME - BODY
          PROVE  name[BODY + i] = IF b + 1 + i <= n THEN q[b + 1 + i] ELSE Blank
      <4>1. BODY + i \in 1 .. NAME /\ ~(BODY + i <= BODY) /\ b + 1 + ((BODY + i) - BODY) = b + 1 + i
        BY <1>2
      <4>2. name[BODY + i] = F(BODY + i)
        BY <2>1, <4>1
      <4>. QED  BY <4>1, <4>2
    <3>. QED  BY <3>1
  <2>4. \A i \in 1 .. NAME - BODY : i <= x <=> b + 1 + i <= n
    <3>1. ASSUME NEW i \in 1 .. NAME - BODY PROVE i <= x <=> b + 1 + i <= n
      <4>1. b + 1 + i <= n => b + 1 + i \in 1 .. n
        BY <1>2
      <4>. QED  BY <1>4, <1>6, <2>3, <4>1
    <3>. QED  BY <3>1
  <2>5. Len(t) = n
    <3>1. CASE x = 0
      <4>1. 1 \in 1 .. NAME - BODY
        BY <1>2
      <4>2. ~(b + 1 + 1 <= n)
        BY <2>4, <3>1, <4>1
      <4>. QED  BY <1>2, <1>6, <2>2, <3>1, <4>2
    <3>2. CASE x > 0
      <4>1. b + 1 + x <= n
        BY <1>2, <2>4, <3>2
      <4>2. x < NAME - BODY => ~(b + 1 + (x + 1) <= n)
        BY <1>2, <2>4, <3>2
      <4>3. n = b + 1 + x
        BY <1>2, <4>1, <4>2
      <4>. QED  BY <1>6, <2>2, <3>2, <4>3
    <3>. QED  BY <3>1, <3>2
  <2>6. ASSUME NEW k \in 1 .. n PROVE t[k] = s[k]
    <3>1. CASE k <= b
      <4>1. k \in 1 .. NAME /\ k <= BODY /\ k \in 1 .. c
        BY <1>2, <2>2, <3>1
      <4>2. name[k] = q[k]
        BY <2>1, <3>1, <4>1
      <4>. QED  BY <1>3, <1>6, <4>1, <4>2
    <3>2. CASE k = b + 1
      <4>1. x > 0
        BY <1>2, <1>6, <2>2, <2>5, <3>2
      <4>2. t[c + 1] = Dot /\ c + 1 = k
        BY <1>6, <2>2, <3>2, <4>1
      <4>3. q[k] = Dot /\ s[k] = q[k]
        BY <1>2, <1>3, <3>2
      <4>. QED  BY <4>2, <4>3
    <3>3. CASE k > b + 1
      <4>. DEFINE i == k - (b + 1)
      <4>1. i \in 1 .. NAME - BODY /\ b + 1 + i <= n /\ b + 1 + i = k
        BY <1>2, <3>3
      <4>2. i \in 1 .. x
        BY <2>4, <4>1
      <4>. HIDE DEF i
      <4>3. t[c + 1 + i] = name[BODY + i] /\ name[BODY + i] = q[b + 1 + i]
        BY <1>6, <2>3, <4>1, <4>2
      <4>. QED  BY <1>3, <2>2, <4>1, <4>3
    <3>. QED  BY <1>2, <3>1, <3>2, <3>3
  <2>. QED  BY <1>3, <1>6, <2>5, <2>6
<1>8. ASSUME t = s PROVE name = fn
  <2>1. Len(t) = n /\ \A k \in 1 .. n : t[k] = q[k]
    BY <1>3, <1>8
  <2>2. c = b /\ n = IF x = 0 THEN b ELSE b + 1 + x
    <3>1. CASE x = 0
      <4>1. n = c /\ \A k \in 1 .. n : q[k] # Dot
        BY <1>2, <1>6, <2>1, <3>1
      <4>2. n # b => b + 1 \in 1 .. n
        BY <1>2
      <4>. QED  BY <1>2, <3>1, <4>1, <4>2
    <3>2. CASE x > 0
      <4>1. n = c + 1 + x /\ c + 1 \in 1 .. n
        <5>1. n = c + 1 + x
          BY <1>2, <1>6, <2>1, <3>2
        <5>. QED  BY <1>2, <3>2, <5>1
      <4>2. q[c + 1] = Dot
        BY <1>6, <2>1, <3>2, <4>1
      <4>3. c + 1 = b + 1
        BY <1>2, <4>1, <4>2
      <4>. QED  BY <1>2, <3>2, <4>1, <4>3
    <3>. QED  BY <3>1, <3>2
  <2>3. ASSUME NEW i \in 1 .. NAME PROVE name[i] = F(i)
    <3>1. CASE i <= BODY
      <4>1. i <= b => i \in 1 .. c /\ i \in 1 .. n
        BY <1>2, <2>2
      <4>2. i <= b => name[i] = q[i]
        BY <1>6, <2>1, <4>1
      <4>3. ~(i <= b) => name[i] = Blank
        BY <1>6, <2>2, <3>1
      <4>. QED  BY <3>1, <4>2, <4>3
    <3>2. CASE ~(i <= BODY)
      <4>. DEFINE j == i - BODY
      <4>1. j \in 1 .. NAME - BODY /\ BODY + j = i
        BY <1>2, <3>2
      <4>. HIDE DEF j
      <4>2. j <= x <=> b + 1 + j <= n
        BY <1>2, <2>2, <4>1
      <4>3. j <= x => name[i] = q[b + 1 + j]
        <5>1. j <= x => j \in 1 .. x /\ b + 1 + j \in 1 .. n
          BY <1>2, <4>1, <4>2
        <5>. QED  BY <1>6, <2>1, <2>2, <4>1, <5>1
      <4>4. ~(j <= x) => name[i] = Blank
        BY <1>6, <4>1
      <4>. QED  BY <3>2, <4>2, <4>3, <4>4 DEF j
    <3>. QED  BY <3>1, <3>2
  <2>4. name = [i \in 1 .. NAME |-> name[i]]
    BY <1>2
  <2>. HIDE DEF F
  <2>. QED  BY <2>3, <2>4
<1>. HIDE DEF fn
<1>. QED  BY <1>1, <1>7, <1>8 DEF s, t

-----------------------------------------------------------------------------
(* Opening: what a path means                                              *)

(* What a path means in a directory, one name after the other.             *)
Here(p, c, i) == {x \in Entries(c) : Spelled(x.name) = SubSeq(p, i + 1, NameEnd(p, i))}
Row(p, i, f) ==
    [c \in {0} \cup DOMAIN volume.fat |->
        IF NameEnd(p, i) = Len(p) THEN {x \in Here(p, c, i) : ~x.dir}
        ELSE UNION {f[NameEnd(p, i) + 1][x.clust] : x \in {y \in Here(p, c, i) : y.dir}}]
Means(p) == CHOOSE f : f = [i \in 0 .. Len(p) |-> Row(p, i, f)]

LEMMA MeantIs == \A p : Meant(p) = Means(p)[0][0]
BY Zenon DEF Meant, Means, Row, Here

LEMMA NameEndIs ==
    ASSUME NEW p \in Seq(PathCharacter), NEW i \in 0 .. Len(p)
    PROVE  /\ NameEnd(p, i) \in i .. Len(p)
           /\ \A k \in i + 1 .. NameEnd(p, i) : p[k] # Slash
           /\ NameEnd(p, i) < Len(p) => p[NameEnd(p, i) + 1] = Slash
<1>. DEFINE T == {k \in i + 1 .. Len(p) : p[k] = Slash}
            m == Min(T \cup {Len(p) + 1})
<1>1. Len(p) \in Nat
  OBVIOUS
<1>2. T \in SUBSET (1 .. Len(p)) /\ m = Min(T \cup {Len(p) + 1})
  BY <1>1
<1>3. NameEnd(p, i) = m - 1
  BY DEF NameEnd
<1>4. m \in 1 .. Len(p) + 1 /\ (m # Len(p) + 1 => m \in T) /\ \A k \in T : m <= k
  <2>. HIDE DEF T, m
  <2>. QED  BY <1>1, <1>2, FirstOf
<1>5. T \subseteq i + 1 .. Len(p) /\ \A k \in T : p[k] = Slash
  OBVIOUS
<1>6. ASSUME NEW k \in i + 1 .. m - 1 PROVE p[k] # Slash
  <2>1. k \in i + 1 .. Len(p) /\ k < m
    BY <1>1, <1>4
  <2>2. k \notin T
    BY <1>4, <2>1
  <2>. QED  BY <2>1, <2>2
<1>. HIDE DEF T, m
<1>7. m - 1 \in i .. Len(p)
  BY <1>1, <1>4, <1>5
<1>8. m - 1 < Len(p) => p[(m - 1) + 1] = Slash
  BY <1>1, <1>4, <1>5
<1>. QED  BY <1>3, <1>6, <1>7, <1>8

LEMMA MeansIs ==
    ASSUME NEW p \in Seq(PathCharacter)
    PROVE  \A i \in 0 .. Len(p) : Means(p)[i] = Row(p, i, Means(p))
<1>. DEFINE From(m, f) == \A i \in 0 .. Len(p) : i + m > Len(p) => f[i] = Row(p, i, f)
            T == {m \in Nat : \E f : From(m, f)}
<1>1. Len(p) \in Nat
  OBVIOUS
<1>2. 0 \in T
  <2>1. From(0, <<>>)
    BY <1>1
  <2>. QED  BY <2>1
<1>3. ASSUME NEW m \in T PROVE m + 1 \in T
  <2>1. m \in Nat
    OBVIOUS
  <2>2. PICK f : From(m, f)
    OBVIOUS
  <2>. DEFINE j == Len(p) - m
              g == [i \in 0 .. Len(p) |-> IF i = j THEN Row(p, j, f) ELSE f[i]]
  <2>3. ASSUME NEW i \in 0 .. Len(p), i >= j PROVE Row(p, i, g) = Row(p, i, f)
    <3>1. CASE NameEnd(p, i) = Len(p)
      BY <3>1 DEF Row
    <3>2. CASE NameEnd(p, i) # Len(p)
      <4>1. NameEnd(p, i) \in i .. Len(p)
        BY NameEndIs
      <4>2. NameEnd(p, i) + 1 \in 0 .. Len(p) /\ NameEnd(p, i) + 1 # j
        BY <1>1, <2>1, <2>3, <3>2, <4>1
      <4>3. g[NameEnd(p, i) + 1] = f[NameEnd(p, i) + 1]
        BY <4>2
      <4>. HIDE DEF g
      <4>. QED  BY <4>3 DEF Row
    <3>. QED  BY <3>1, <3>2
  <2>4. ASSUME NEW i \in 0 .. Len(p), i + (m + 1) > Len(p) PROVE g[i] = Row(p, i, g)
    <3>1. i >= j
      BY <1>1, <2>1, <2>4
    <3>2. g[i] = Row(p, i, f)
      <4>1. CASE i = j
        BY <4>1
      <4>2. CASE i # j
        <5>1. i + m > Len(p)
          BY <1>1, <2>1, <3>1, <4>2
        <5>. QED  BY <2>2, <4>2, <5>1
      <4>. QED  BY <4>1, <4>2
    <3>. HIDE DEF g, j
    <3>. QED  BY <2>3, <3>1, <3>2
  <2>. HIDE DEF g
  <2>5. From(m + 1, g)
    BY <2>4
  <2>. QED  BY <2>1, <2>5
<1>4. T = Nat
  <2>. HIDE DEF From
  <2>1. T \in SUBSET Nat
    OBVIOUS
  <2>. HIDE DEF T
  <2>. QED  BY <1>2, <1>3, <2>1, Induction
<1>5. PICK f : From(Len(p) + 1, f)
  <2>. HIDE DEF From
  <2>1. Len(p) + 1 \in T
    <3>. HIDE DEF T
    <3>. QED  BY <1>1, <1>4
  <2>. QED  BY <2>1
<1>. DEFINE h == [i \in 0 .. Len(p) |-> f[i]]
<1>6. ASSUME NEW i \in 0 .. Len(p) PROVE h[i] = Row(p, i, h)
  <2>1. h[i] = Row(p, i, f)
    BY <1>1, <1>5
  <2>2. CASE NameEnd(p, i) = Len(p)
    BY <2>1, <2>2 DEF Row
  <2>3. CASE NameEnd(p, i) # Len(p)
    <3>1. NameEnd(p, i) \in i .. Len(p)
      BY NameEndIs
    <3>2. NameEnd(p, i) + 1 \in 0 .. Len(p)
      BY <1>1, <2>3, <3>1
    <3>3. h[NameEnd(p, i) + 1] = f[NameEnd(p, i) + 1]
      BY <3>2
    <3>4. Row(p, i, h) = Row(p, i, f)
      <4>. HIDE DEF h
      <4>. QED  BY <3>3 DEF Row
    <3>. QED  BY <2>1, <3>4
  <2>. QED  BY <2>2, <2>3
<1>7. h = [i \in 0 .. Len(p) |-> Row(p, i, h)]
  <2>1. h = [i \in 0 .. Len(p) |-> h[i]]
    OBVIOUS
  <2>. HIDE DEF h
  <2>. QED  BY <1>6, <2>1
<1>. HIDE DEF h
<1>8. Means(p) = [i \in 0 .. Len(p) |-> Row(p, i, Means(p))]
  BY <1>7, Zenon DEF Means
<1>. QED  BY <1>8

LEMMA MeansFixed ==
    ASSUME volume' = volume, NEW p
    PROVE  Means(p)' = Means(p) /\ Meant(p)' = Meant(p)
<1>1. \A c : Entries(c)' = Entries(c)
  BY DirectoryFixed
<1>2. ASSUME NEW c, NEW i PROVE Here(p, c, i)' = Here(p, c, i)
  BY <1>1 DEF Here, Spelled, Field, NameEnd
<1>3. ASSUME NEW i, NEW f PROVE Row(p, i, f)' = Row(p, i, f)
  BY <1>2 DEF Row, NameEnd
<1>4. Means(p)' = Means(p)
  BY <1>3 DEF Means
<1>5. Meant(p)' = (Means(p)[0][0])'
  BY Zenon DEF Meant, Means, Row, Here
<1>6. Meant(p) = Means(p)[0][0]
  BY MeantIs
<1>. QED  BY <1>4, <1>5, <1>6

LEMMA SameElements ==
    ASSUME NEW S, NEW u \in Seq(S), NEW v \in Seq(S), Len(u) = Len(v),
           \A k \in 1 .. Len(u) : u[k] = v[k]
    PROVE  u = v
OBVIOUS

LEMMA PartOfPath ==
    ASSUME NEW p \in Seq(PathCharacter), NEW i \in Nat, NEW k \in i .. Len(p)
    PROVE  /\ SubSeq(p, i + 1, k) \in Seq(PathCharacter)
           /\ Len(SubSeq(p, i + 1, k)) = k - i
           /\ \A j \in 1 .. k - i : SubSeq(p, i + 1, k)[j] = p[i + j]
BY PartOf

(* The first name of what a path's i-th character is followed by.          *)
After(p, i) == SubSeq(p, i + 1, Len(p))
NameSize(p, i) == NameEnd(p, i) - i
FirstName(p, i) == SubSeq(After(p, i), 1, NameSize(p, i))

LEMMA RestOfPath ==
    ASSUME NEW p \in Seq(PathCharacter), NEW i \in 0 .. Len(p)
    PROVE  /\ After(p, i) \in Seq(PathCharacter) /\ Len(After(p, i)) = Len(p) - i
           /\ NameSize(p, i) \in 0 .. Len(After(p, i)) /\ Begins(After(p, i), NameSize(p, i))
           /\ NameSize(p, i) = Len(After(p, i)) <=> NameEnd(p, i) = Len(p)
           /\ FirstName(p, i) = SubSeq(p, i + 1, NameEnd(p, i))
           /\ Len(FirstName(p, i)) = NameSize(p, i)
           /\ \A k \in 1 .. NameSize(p, i) : FirstName(p, i)[k] = After(p, i)[k]
           /\ SubSeq(After(p, i), NameSize(p, i) + 2, Len(After(p, i)))
                  = SubSeq(p, NameEnd(p, i) + 2, Len(p))
<1>. DEFINE q == After(p, i)
            n == NameSize(p, i)
<1>0. q = SubSeq(p, i + 1, Len(p)) /\ n = NameEnd(p, i) - i /\ FirstName(p, i) = SubSeq(q, 1, n)
  BY DEF After, NameSize, FirstName
<1>. HIDE DEF q, n
<1>. DEFINE e == NameEnd(p, i)
<1>1. /\ Len(p) \in Nat /\ e \in i .. Len(p) /\ n = e - i /\ n \in 0 .. Len(p) - i
      /\ \A k \in i + 1 .. e : p[k] # Slash
      /\ e < Len(p) => p[e + 1] = Slash
  <2>1. /\ e \in i .. Len(p) /\ \A k \in i + 1 .. e : p[k] # Slash
        /\ e < Len(p) => p[e + 1] = Slash
    BY NameEndIs
  <2>2. Len(p) \in Nat /\ n = e - i
    BY <1>0
  <2>. HIDE DEF e
  <2>3. n \in 0 .. Len(p) - i
    BY <2>1, <2>2
  <2>. QED  BY <2>1, <2>2, <2>3
<1>. HIDE DEF e
<1>2. q \in Seq(PathCharacter) /\ Len(q) = Len(p) - i /\ \A k \in 1 .. Len(q) : q[k] = p[i + k]
  <2>1. Len(p) \in i .. Len(p) /\ i \in Nat
    BY <1>1
  <2>2. /\ q \in Seq(PathCharacter) /\ Len(q) = Len(p) - i
        /\ \A k \in 1 .. Len(p) - i : q[k] = p[i + k]
    BY <1>0, <2>1, PartOfPath
  <2>. QED  BY <2>2
<1>3. Begins(q, n)
  <2>1. ASSUME NEW k \in 1 .. n PROVE q[k] # Slash
    <3>1. i + k \in i + 1 .. e /\ k \in 1 .. Len(q)
      BY <1>1, <1>2
    <3>. QED  BY <1>1, <1>2, <3>1
  <2>2. ASSUME n < Len(q) PROVE q[n + 1] = Slash
    <3>1. n + 1 \in 1 .. Len(q) /\ i + (n + 1) = e + 1 /\ e < Len(p)
      BY <1>1, <1>2, <2>2
    <3>. QED  BY <1>1, <1>2, <3>1
  <2>. QED  BY <1>1, <1>2, <2>1, <2>2 DEF Begins
<1>4. /\ SubSeq(q, 1, n) \in Seq(PathCharacter) /\ Len(SubSeq(q, 1, n)) = n
      /\ \A k \in 1 .. n : SubSeq(q, 1, n)[k] = q[k]
  <2>1. 0 + 1 = 1 /\ n - 0 = n /\ 0 \in Nat /\ n \in 0 .. Len(q) /\ \A k \in 1 .. n : 0 + k = k
    BY <1>1, <1>2
  <2>2. /\ SubSeq(q, 0 + 1, n) \in Seq(PathCharacter) /\ Len(SubSeq(q, 0 + 1, n)) = n - 0
        /\ \A k \in 1 .. n - 0 : SubSeq(q, 0 + 1, n)[k] = q[0 + k]
    BY <1>2, <2>1, PartOfPath
  <2>. QED  BY <2>1, <2>2
<1>5. SubSeq(p, i + 1, e) = SubSeq(q, 1, n)
  <2>1. /\ SubSeq(p, i + 1, e) \in Seq(PathCharacter) /\ Len(SubSeq(p, i + 1, e)) = e - i
        /\ \A k \in 1 .. e - i : SubSeq(p, i + 1, e)[k] = p[i + k]
    BY <1>1, PartOfPath
  <2>2. ASSUME NEW k \in 1 .. n PROVE SubSeq(p, i + 1, e)[k] = SubSeq(q, 1, n)[k]
    BY <1>1, <1>2, <1>4, <2>1
  <2>. DEFINE u == SubSeq(p, i + 1, e)
              v == SubSeq(q, 1, n)
  <2>3. /\ u \in Seq(PathCharacter) /\ v \in Seq(PathCharacter) /\ Len(u) = n /\ Len(v) = n
        /\ \A k \in 1 .. n : u[k] = v[k]
    BY <1>1, <1>4, <2>1, <2>2
  <2>4. u = v
    <3>. HIDE DEF u, v
    <3>. QED  BY <2>3, SameElements
  <2>. QED  BY <2>4
<1>6. ASSUME n < Len(q) PROVE SubSeq(q, n + 2, Len(q)) = SubSeq(p, e + 2, Len(p))
  <2>. DEFINE u == SubSeq(q, (n + 1) + 1, Len(q))
              v == SubSeq(p, (e + 1) + 1, Len(p))
              m == Len(p) - (e + 1)
  <2>1. /\ n + 1 \in Nat /\ Len(q) \in n + 1 .. Len(q) /\ e + 1 \in Nat
        /\ Len(p) \in e + 1 .. Len(p)
        /\ Len(q) - (n + 1) = m /\ m \in Nat
    BY <1>1, <1>2, <1>6
  <2>2. u \in Seq(PathCharacter) /\ Len(u) = m /\ \A k \in 1 .. m : u[k] = q[(n + 1) + k]
    <3>. DEFINE a == n + 1
                b == Len(q)
    <3>1. a \in Nat /\ b \in a .. Len(q) /\ b - a = m
      BY <2>1
    <3>. HIDE DEF a, b, m
    <3>2. /\ SubSeq(q, a + 1, b) \in Seq(PathCharacter) /\ Len(SubSeq(q, a + 1, b)) = m
          /\ \A k \in 1 .. m : SubSeq(q, a + 1, b)[k] = q[a + k]
      BY <1>2, <3>1, PartOfPath
    <3>. QED  BY <3>2 DEF a, b
  <2>3. v \in Seq(PathCharacter) /\ Len(v) = m /\ \A k \in 1 .. m : v[k] = p[(e + 1) + k]
    BY <2>1, PartOfPath
  <2>4. ASSUME NEW k \in 1 .. m PROVE q[(n + 1) + k] = p[(e + 1) + k]
    <3>1. (n + 1) + k \in 1 .. Len(q) /\ i + ((n + 1) + k) = (e + 1) + k
      <4>1. n \in Nat /\ Len(q) \in Nat /\ Len(q) - (n + 1) = m /\ i + n = e /\ i \in Nat
        BY <1>1, <1>2, <2>1
      <4>. DEFINE l == Len(q)
      <4>2. k \in Nat /\ k >= 1 /\ k <= l - (n + 1) /\ l \in Nat
        BY <2>1, <4>1
      <4>. HIDE DEF m, l
      <4>3. (n + 1) + k >= 1 /\ (n + 1) + k <= l /\ (n + 1) + k \in Nat
        BY <4>1, <4>2
      <4>4. i + ((n + 1) + k) = ((i + n) + 1) + k
        BY <4>1, <4>2
      <4>5. i + ((n + 1) + k) = (e + 1) + k
        BY <4>1, <4>4
      <4>. QED  BY <4>2, <4>3, <4>5 DEF l
    <3>. HIDE DEF u, v, m
    <3>2. q[(n + 1) + k] = p[i + ((n + 1) + k)]
      BY <1>2, <3>1, Zenon
    <3>. QED  BY <3>1, <3>2
  <2>5. (n + 1) + 1 = n + 2 /\ (e + 1) + 1 = e + 2
    BY <1>1
  <2>6. u = v
    <3>. HIDE DEF u, v
    <3>. QED  BY <2>1, <2>2, <2>3, <2>4, SameElements
  <2>. QED  BY <2>5, <2>6
<1>7. (n = Len(q) <=> e = Len(p)) /\ n \in 0 .. Len(q)
  BY <1>1, <1>2
<1>8. SubSeq(q, n + 2, Len(q)) = SubSeq(p, e + 2, Len(p))
  <2>1. CASE n < Len(q)
    BY <1>6, <2>1
  <2>2. CASE n = Len(q)
    <3>. DEFINE l == Len(q)
    <3>1. l \in Nat /\ n = l /\ e = Len(p) /\ e \in Nat
      BY <1>1, <1>2, <1>7, <2>2
    <3>2. l + 2 > l /\ e + 2 > e
      BY <3>1
    <3>3. SubSeq(q, l + 2, l) = <<>> /\ SubSeq(p, e + 2, e) = <<>>
      <4>. HIDE DEF l
      <4>. QED  BY <3>1, <3>2
    <3>4. n + 2 = l + 2 /\ Len(q) = l /\ Len(p) = e
      BY <3>1
    <3>. HIDE DEF l
    <3>. QED  BY <3>3, <3>4
  <2>3. n < Len(q) \/ n = Len(q)
    BY <1>1, <1>2, <1>7
  <2>. QED  BY <2>1, <2>2, <2>3
<1>9. FirstName(p, i) = SubSeq(q, 1, n)
  BY <1>0
<1>. QED  BY <1>2, <1>3, <1>4, <1>5, <1>7, <1>8, <1>9 DEF e, q, n

-----------------------------------------------------------------------------
(* Opening: a sound directory                                              *)

LEMMA EntriesAre ==
    ASSUME volume \in Volumes, NEW c
    PROVE  Entries(c) \subseteq DirEntry
<1>. SUFFICES ASSUME NEW x \in Entries(c) PROVE x \in DirEntry
  OBVIOUS
<1>1. PICK h \in 0 .. INDEX - 1 : x = EntryOf(c, h) /\ Holds(c, h)
  <2>1. PICK h \in 0 .. INDEX - 1 :
          x = EntryOf(c, h) /\ \A i \in 0 .. h : Holds(c, i) /\ EntryOf(c, i) # End
    BY DEF Entries
  <2>2. h \in 0 .. h
    BY VolumeIs
  <2>. QED  BY <2>1, <2>2
<1>2. /\ h \in Nat /\ volume.csize * ENTRIES \in Nat /\ volume.csize * ENTRIES > 0
  <2>1. INDEX \in Nat /\ ENTRIES \in Nat /\ ENTRIES > 0 /\ volume.csize \in Nat /\ volume.csize > 0
    BY VolumeIs
  <2>. QED  BY <2>1
<1>3. CASE c = 0
  <2>1. volume.root \in Seq(DirEntry) /\ h < Len(volume.root) /\ x = volume.root[h + 1]
    BY <1>1, <1>3, FatAssumption DEF Holds, EntryOf, n_rootdir
  <2>2. h + 1 \in 1 .. Len(volume.root)
    BY <1>2, <2>1
  <2>. QED  BY <2>1, <2>2
<1>4. CASE c # 0
  <2>. DEFINE d == ClusterOf(c, h)
              r == h % (volume.csize * ENTRIES)
  <2>1. d \in 2 .. volume.n_fatent - 1 /\ x = volume.table[d][r + 1]
    <3>1. d \in DOMAIN volume.fat /\ x = volume.table[d][r + 1]
      BY <1>1, <1>4 DEF Holds, EntryOf
    <3>2. DOMAIN volume.fat = 2 .. volume.n_fatent - 1
      BY FatDomain
    <3>. HIDE DEF d, r
    <3>. QED  BY <3>1, <3>2
  <2>2. volume.table[d] \in Seq(DirEntry) /\ Len(volume.table[d]) = volume.csize * ENTRIES
    <3>. HIDE DEF d, r
    <3>. QED  BY <2>1, TableIs
  <2>3. r \in 0 .. volume.csize * ENTRIES - 1
    BY <1>2, DivMod
  <2>4. r + 1 \in 1 .. volume.csize * ENTRIES
    BY <1>2, <2>3
  <2>. HIDE DEF r, d
  <2>. QED  BY <2>1, <2>2, <2>4
<1>. QED  BY <1>3, <1>4

(* A chain of clusters that has an end has none inside.                    *)
LEMMA ChainEnds ==
    ASSUME volume \in Volumes, NEW c \in Cluster, HasChain(c, 0), NEW m \in Nat,
           Chain(c)[m] \in 2 .. volume.n_fatent - 1
    PROVE  ~(Chain(c)[m + 1] <= 1)
<1>1. PICK n \in 1 .. volume.n_fatent :
         /\ \A k \in 0 .. n - 1 : Chain(c)[k] \in DOMAIN volume.fat
         /\ Chain(c)[n] >= volume.n_fatent
  BY DEF HasChain
<1>2. /\ n \in Nat /\ volume.n_fatent \in Nat /\ 3 <= volume.n_fatent
      /\ DOMAIN volume.fat = 2 .. volume.n_fatent - 1
      /\ \A k \in Nat : Chain(c)[k + 1] = Step(Chain(c)[k])
      /\ \A k \in Nat : Chain(c)[k] \in Nat
  <2>1. /\ \A k \in Nat : Chain(c)[k + 1] = Step(Chain(c)[k])
        /\ \A k \in Nat : Chain(c)[k] \in Cluster
    BY ChainStep
  <2>2. volume.n_fatent \in Nat /\ 3 <= volume.n_fatent /\ CLUST \in Nat
    BY VolumeIs
  <2>3. n \in Nat /\ DOMAIN volume.fat = 2 .. volume.n_fatent - 1
    BY <2>2, FatDomain
  <2>4. \A k \in Nat : Chain(c)[k] \in Nat
    BY <2>1, <2>2 DEF Cluster
  <2>. QED  BY <2>1, <2>2, <2>3, <2>4
<1>3. m < n
  <2>. DEFINE T == {k \in Nat : k >= n /\ Chain(c)[k] \in 2 .. volume.n_fatent - 1}
  <2>1. T = {}
    <3>1. SUFFICES ASSUME T # {} PROVE FALSE
      OBVIOUS
    <3>2. T \in SUBSET Nat
      OBVIOUS
    <3>3. PICK k \in T : \A j \in T : k <= j
      <4>. HIDE DEF T
      <4>. QED  BY <3>1, <3>2, LeastMember
    <3>4. k \in Nat /\ k >= n /\ Chain(c)[k] \in 2 .. volume.n_fatent - 1
      BY <3>3
    <3>5. k # n
      <4>1. Chain(c)[n] \notin 2 .. volume.n_fatent - 1
        <5>1. Chain(c)[n] \in Nat
          BY <1>2
        <5>2. Chain(c)[n] >= volume.n_fatent /\ volume.n_fatent \in Nat
          BY <1>1, <1>2
        <5>. QED  BY <5>1, <5>2
      <4>. QED  BY <3>4, <4>1
    <3>6. k - 1 \in Nat /\ k - 1 >= n /\ (k - 1) + 1 = k /\ k - 1 < k
      BY <1>2, <3>4, <3>5
    <3>7. k - 1 \notin T
      BY <3>3, <3>6
    <3>8. Chain(c)[k - 1] \notin 2 .. volume.n_fatent - 1
      BY <3>6, <3>7
    <3>9. Chain(c)[k] = 0
      BY <1>2, <3>6, <3>8 DEF Step
    <3>. QED  BY <3>4, <3>9
  <2>2. m \notin T
    BY <2>1
  <2>. QED  BY <1>2, <2>2
<1>4. CASE m + 1 = n
  <2>1. Chain(c)[m + 1] >= volume.n_fatent /\ Chain(c)[m + 1] \in Nat
    BY <1>1, <1>2, <1>4
  <2>2. volume.n_fatent \in Nat /\ 3 <= volume.n_fatent
    BY <1>2
  <2>. QED  BY <2>1, <2>2
<1>5. CASE m + 1 < n
  <2>1. m + 1 \in 0 .. n - 1
    BY <1>2, <1>5
  <2>2. Chain(c)[m + 1] \in 2 .. volume.n_fatent - 1
    BY <1>1, <1>2, <2>1
  <2>3. Chain(c)[m + 1] \in Nat /\ Chain(c)[m + 1] >= 2
    BY <1>2, <2>2
  <2>. QED  BY <2>3
<1>. QED  BY <1>2, <1>3, <1>4, <1>5

(* It fits into an entry, or there is none.                                *)
LEMMA NameFits ==
    ASSUME NEW p \in Seq(PathCharacter), Fits(p), NEW i \in 0 .. Len(p), i = 0 \/ p[i] = Slash
    PROVE  \/ NameSize(p, i) = 0
           \/ NameSize(p, i) > 0 /\ After(p, i)[1] = Dot
           \/ \E b \in 1 .. BODY : Fitting(After(p, i), NameSize(p, i), b)
<1>. DEFINE s == FirstName(p, i)
            n == NameSize(p, i)
            q == After(p, i)
<1>1. /\ s = SubSeq(p, i + 1, NameEnd(p, i)) /\ Len(s) = n /\ \A k \in 1 .. n : s[k] = q[k]
      /\ n \in Nat
  <2>1. Len(After(p, i)) \in Nat /\ NameSize(p, i) \in 0 .. Len(After(p, i))
    BY RestOfPath
  <2>2. NameSize(p, i) \in Nat
    BY <2>1
  <2>. QED  BY <2>2, RestOfPath
<1>. HIDE DEF s, n, q
<1>2. \/ s = <<>> \/ s[1] = Dot
      \/ \E b \in 1 .. BODY : /\ Len(s) \in {b} \cup b + 2 .. b + 1 + (NAME - BODY)
                              /\ \A k \in 1 .. Len(s) : s[k] = Dot <=> k = b + 1
  BY <1>1, Zenon DEF Fits
<1>3. CASE s = <<>>
  BY <1>1, <1>3 DEF n, q
<1>4. CASE s[1] = Dot
  <2>1. n = 0 \/ (n > 0 /\ q[1] = Dot)
    <3>1. n > 0 => 1 \in 1 .. n
      BY <1>1
    <3>2. n = 0 \/ n > 0
      BY <1>1
    <3>. QED  BY <1>1, <1>4, <3>1, <3>2
  <2>. QED  BY <2>1 DEF n, q
<1>5. ASSUME NEW b \in 1 .. BODY, Len(s) \in {b} \cup b + 2 .. b + 1 + (NAME - BODY),
             \A k \in 1 .. Len(s) : s[k] = Dot <=> k = b + 1
      PROVE  Fitting(q, n, b)
  BY <1>1, <1>5 DEF Fitting
<1>. QED  BY <1>2, <1>3, <1>4, <1>5 DEF n, q

LEMMA SpelledBegins ==
    ASSUME NEW name \in Seq(STRING), WellFormed(name)
    PROVE  Len(Spelled(name)) > 0 /\ Spelled(name)[1] = name[1] /\ name[1] \notin {Blank, Dot}
<1>1. PICK b \in 1 .. BODY, x \in 0 .. NAME - BODY : Letters(name, b, x, Spelled(name))
  BY SpelledIs
<1>2. BODY \in Nat /\ BODY > 0 /\ NAME \in Nat /\ BODY < NAME /\ 1 \in 1 .. NAME
  BY FatAssumption
<1>3. Len(Spelled(name)) > 0 /\ Spelled(name)[1] = name[1]
  BY <1>1, <1>2 DEF Letters
<1>4. name[1] # Blank /\ name[1] # Dot
  BY <1>2 DEF WellFormed
<1>. QED  BY <1>3, <1>4

(* In a sound directory create_name finds what the path means.             *)
LEMMA SameName ==
    ASSUME volume \in Volumes, Sound, NEW c \in {0} \cup Directories, NEW x \in Entries(c),
           NEW p \in Seq(PathCharacter), Fits(p), NEW i \in 0 .. Len(p), i = 0 \/ p[i] = Slash
    PROVE  /\ x.name = create_name(After(p, i)).fn <=> x \in Here(p, c, i)
           /\ x \in Here(p, c, i) => /\ create_name(After(p, i)).last <=> NameEnd(p, i) = Len(p)
                                     /\ create_name(After(p, i)).rest
                                           = SubSeq(p, NameEnd(p, i) + 2, Len(p))
<1>. DEFINE q == After(p, i)
            n == NameSize(p, i)
            s == FirstName(p, i)
            e == NameEnd(p, i)
<1>1. WellFormed(x.name)
  BY SoundEntries
<1>2. x.name \in Seq(STRING)
  BY EntriesAre DEF DirEntry
<1>3. /\ q \in Seq(PathCharacter) /\ n \in 0 .. Len(q) /\ Begins(q, n)
      /\ n = Len(q) <=> e = Len(p)
      /\ s = SubSeq(p, i + 1, e) /\ s = SubSeq(q, 1, n)
      /\ Len(s) = n /\ \A k \in 1 .. n : s[k] = q[k]
      /\ SubSeq(q, n + 2, Len(q)) = SubSeq(p, e + 2, Len(p))
  BY RestOfPath DEF FirstName
<1>4. x \in Here(p, c, i) <=> Spelled(x.name) = s
  BY <1>3 DEF Here
<1>5. n = 0 \/ (n > 0 /\ q[1] = Dot) \/ \E b \in 1 .. BODY : Fitting(q, n, b)
  BY NameFits
<1>. HIDE DEF q, n, s, e
<1>6. CASE n = 0 \/ (n > 0 /\ q[1] = Dot)
  <2>1. create_name(q).fn[1] = Blank
    <3>1. CASE q = <<>>
      BY <1>3, <3>1, NoName
    <3>2. CASE q # <<>>
      <4>1. Len(q) \in Nat /\ Len(q) > 0
        <5>1. q \in Seq(PathCharacter)
          BY <1>3
        <5>. QED  BY <3>2, <5>1
      <4>2. n = 0 => q[1] = Slash
        BY <1>3, <4>1 DEF Begins
      <4>. QED  BY <1>3, <1>6, <4>2, NoName
    <3>. QED  BY <3>1, <3>2
  <2>2. Spelled(x.name) # s
    <3>1. n = 0 => Len(s) = 0
      BY <1>3
    <3>2. n > 0 /\ q[1] = Dot => s[1] = Dot
      <4>1. n > 0 => 1 \in 1 .. n
        BY <1>3
      <4>. QED  BY <1>3, <4>1
    <3>3. Len(Spelled(x.name)) > 0 /\ Spelled(x.name)[1] # Dot
      BY <1>1, <1>2, SpelledBegins
    <3>4. Len(Spelled(x.name)) # 0
      BY <3>3
    <3>. QED  BY <1>6, <3>1, <3>2, <3>3, <3>4
  <2>3. x.name # create_name(q).fn
    BY <1>1, <1>2, <2>1, SpelledBegins
  <2>. QED  BY <1>4, <2>2, <2>3 DEF q
<1>7. ASSUME NEW b \in 1 .. BODY, Fitting(q, n, b)
      PROVE  /\ x.name = create_name(q).fn <=> Spelled(x.name) = s
             /\ create_name(q).last <=> n = Len(q)
             /\ create_name(q).rest = SubSeq(q, n + 2, Len(q))
  <2>1. x.name = create_name(q).fn <=> Spelled(x.name) = SubSeq(q, 1, n)
    BY <1>1, <1>2, <1>3, <1>7, NameMatches
  <2>2. (create_name(q).last <=> n = Len(q)) /\ create_name(q).rest = SubSeq(q, n + 2, Len(q))
    BY <1>3, <1>7, FittingName
  <2>. QED  BY <1>3, <2>1, <2>2
<1>8. CASE \E b \in 1 .. BODY : Fitting(q, n, b)
  <2>1. /\ x.name = create_name(q).fn <=> Spelled(x.name) = s
        /\ create_name(q).last <=> n = Len(q)
        /\ create_name(q).rest = SubSeq(q, n + 2, Len(q))
    BY <1>7, <1>8
  <2>. QED  BY <1>3, <1>4, <2>1 DEF q, e
<1>. QED  BY <1>5, <1>6, <1>8

-----------------------------------------------------------------------------
(* Opening: the inductive invariant                                        *)

(* What is looked for in the directory is what is left of the path, and    *)
(* means there what the path means.                                        *)
FollowsAt(p, i) ==
    /\ i \in 0 .. Len(p) /\ (i = 0 \/ p[i] = Slash)
    /\ dj.fn = create_name(After(p, i)).fn /\ dj.last = create_name(After(p, i)).last
    /\ rest = create_name(After(p, i)).rest
    /\ Means(p)[i][dj.sclust] = Meant(p)
Follows(p) == Fits(p) /\ Sound => \E i \in 0 .. Len(p) : FollowsAt(p, i)

OpenInv ==
    /\ FilesInv
    /\ pc = "find" =>
          FatFs /\ \E p \in Seq(PathCharacter) : p = Stripped(path) /\ Follows(p)
    /\ OpensTheNamedFile

(* The entry that is found is the only one the path can mean, ...          *)
LEMMA OnlyEntry ==
    ASSUME FilesInv, pc = "find", Sound, NEW p \in Seq(PathCharacter), Fits(p),
           NEW i, FollowsAt(p, i), NEW e \in Entries(dj.sclust), e.name = dj.fn
    PROVE  /\ dj.last <=> NameEnd(p, i) = Len(p)
           /\ NameEnd(p, i) = Len(p) => Meant(p) = {x \in {e} : ~x.dir}
           /\ NameEnd(p, i) # Len(p) /\ ~e.dir => Meant(p) = {}
           /\ NameEnd(p, i) # Len(p) /\ e.dir =>
                 /\ NameEnd(p, i) + 1 \in 0 .. Len(p) /\ p[NameEnd(p, i) + 1] = Slash
                 /\ rest = After(p, NameEnd(p, i) + 1)
                 /\ e.clust \in Directories
                 /\ Means(p)[NameEnd(p, i) + 1][e.clust] = Meant(p)
<1>. DEFINE c == dj.sclust
            end == NameEnd(p, i)
            H == Here(p, c, i)
<1>1. /\ volume \in Volumes /\ i \in 0 .. Len(p) /\ (i = 0 \/ p[i] = Slash)
      /\ dj.fn = create_name(After(p, i)).fn /\ dj.last = create_name(After(p, i)).last
      /\ rest = create_name(After(p, i)).rest
      /\ Means(p)[i][c] = Meant(p)
      /\ c \in {0} \cup Directories
  BY DEF FollowsAt, FilesInv, FatTypeOK, Finding, InSound
<1>2. /\ \A x \in Entries(c) : x.name = dj.fn <=> x \in H
      /\ (create_name(After(p, i)).last <=> end = Len(p))
      /\ rest = SubSeq(p, end + 2, Len(p))
  <2>1. \A x \in Entries(c) : x.name = create_name(After(p, i)).fn <=> x \in H
    BY <1>1, SameName
  <2>2. e \in H
    BY <1>1, <2>1
  <2>3. /\ create_name(After(p, i)).last <=> end = Len(p)
        /\ create_name(After(p, i)).rest = SubSeq(p, end + 2, Len(p))
    <3>1. e \in Entries(c)
      OBVIOUS
    <3>. HIDE DEF c
    <3>. QED  BY <1>1, <2>2, <3>1, SameName
  <2>. QED  BY <1>1, <2>1, <2>3
<1>3. H = {e}
  <2>1. H \subseteq Entries(c)
    BY DEF Here
  <2>2. \A x \in Entries(c) : x.name = e.name => x = e
    BY <1>1, SoundEntries
  <2>3. e \in H
    BY <1>2
  <2>. HIDE DEF H, c
  <2>4. \A x \in H : x = e
    BY <1>2, <2>1, <2>2
  <2>. QED  BY <2>3, <2>4
<1>4. c \in {0} \cup DOMAIN volume.fat
  BY <1>1, SoundEntries
<1>5. Meant(p) = IF end = Len(p) THEN {x \in H : ~x.dir}
                 ELSE UNION {Means(p)[end + 1][x.clust] : x \in {y \in H : y.dir}}
  <2>1. Means(p)[i] = Row(p, i, Means(p))
    BY <1>1, MeansIs
  <2>2. Row(p, i, Means(p))[c] = IF end = Len(p) THEN {x \in H : ~x.dir}
                 ELSE UNION {Means(p)[end + 1][x.clust] : x \in {y \in H : y.dir}}
    BY <1>4 DEF Row
  <2>. QED  BY <1>1, <2>1, <2>2
<1>6. ASSUME end # Len(p), ~e.dir PROVE Meant(p) = {}
  <2>1. {y \in H : y.dir} = {}
    BY <1>3, <1>6
  <2>. QED  BY <1>5, <1>6, <2>1
<1>7. ASSUME end # Len(p), e.dir PROVE Means(p)[end + 1][e.clust] = Meant(p)
  <2>1. {y \in H : y.dir} = {e}
    BY <1>3, <1>7
  <2>. DEFINE G(x) == Means(p)[end + 1][x.clust]
  <2>2. Meant(p) = UNION {G(x) : x \in {e}}
    BY <1>5, <1>7, <2>1, Zenon
  <2>. HIDE DEF G
  <2>3. UNION {G(x) : x \in {e}} = G(e)
    OBVIOUS
  <2>. QED  BY <2>2, <2>3 DEF G
<1>8. ASSUME end # Len(p) PROVE end + 1 \in 0 .. Len(p) /\ p[end + 1] = Slash
  <2>1. end \in i .. Len(p) /\ (end < Len(p) => p[end + 1] = Slash)
    BY <1>1, NameEndIs
  <2>. HIDE DEF end
  <2>2. end < Len(p) /\ end \in Nat /\ Len(p) \in Nat
    BY <1>1, <1>8, <2>1
  <2>. QED  BY <2>1, <2>2
<1>9. ASSUME end # Len(p) PROVE rest = After(p, end + 1)
  <2>1. end + 2 = (end + 1) + 1
    <3>1. end \in i .. Len(p)
      BY <1>1, NameEndIs
    <3>. HIDE DEF end
    <3>. QED  BY <1>1, <3>1
  <2>. QED  BY <1>2, <2>1 DEF After
<1>10. e.dir => e.clust \in Directories
  BY <1>1, SoundEntries
<1>11. end = Len(p) => Meant(p) = {x \in {e} : ~x.dir}
  <2>. HIDE DEF end, H
  <2>. QED  BY <1>3, <1>5
<1>. HIDE DEF H
<1>. QED  BY <1>1, <1>2, <1>6, <1>7, <1>8, <1>9, <1>10, <1>11

(* ... and without one the path means nothing.                             *)
LEMMA NoEntry ==
    ASSUME volume \in Volumes, Sound, NEW p \in Seq(PathCharacter), Fits(p),
           NEW i \in 0 .. Len(p), i = 0 \/ p[i] = Slash, NEW c \in {0} \cup Directories,
           \A x \in Entries(c) : x.name # create_name(After(p, i)).fn
    PROVE  Means(p)[i][c] = {}
<1>. DEFINE H == Here(p, c, i)
<1>1. H = {}
  <2>1. H \subseteq Entries(c)
    BY DEF Here
  <2>2. \A x \in Entries(c) : x \notin H
    BY SameName
  <2>. HIDE DEF H
  <2>. QED  BY <2>1, <2>2
<1>2. c \in {0} \cup DOMAIN volume.fat
  BY SoundEntries
<1>3. Means(p)[i] = Row(p, i, Means(p))
  BY MeansIs
<1>4. Row(p, i, Means(p))[c] = {}
  <2>1. Row(p, i, Means(p))[c] =
            IF NameEnd(p, i) = Len(p) THEN {x \in H : ~x.dir}
            ELSE UNION {Means(p)[NameEnd(p, i) + 1][x.clust] : x \in {y \in H : y.dir}}
    BY <1>2 DEF Row
  <2>2. {y \in H : y.dir} = {} /\ {x \in H : ~x.dir} = {}
    BY <1>1
  <2>. HIDE DEF H
  <2>. QED  BY <2>1, <2>2
<1>. QED  BY <1>3, <1>4

LEMMA MeaningFixed ==
    ASSUME volume' = volume, NEW p
    PROVE  Meant(p)' = Meant(p) /\ (Fits(p)' <=> Fits(p)) /\ (Sound' <=> Sound)
<1>1. Meant(p)' = Meant(p)
  BY MeansFixed
<1>2. Fits(p)' <=> Fits(p)
  BY DEF Fits, NameEnd
<1>. QED  BY <1>1, <1>2, SoundFixed

LEMMA FollowsNext ==
    ASSUME volume' = volume, NEW p, NEW i \in 0 .. Len(p), i = 0 \/ p[i] = Slash,
           dj'.fn = create_name(After(p, i)).fn, dj'.last = create_name(After(p, i)).last,
           rest' = create_name(After(p, i)).rest, Means(p)[i][dj'.sclust] = Meant(p)
    PROVE  Follows(p)'
<1>1. Means(p)' = Means(p) /\ Meant(p)' = Meant(p)
  BY MeansFixed
<1>2. FollowsAt(p, i)'
  BY <1>1 DEF FollowsAt, create_name, After
<1>. QED  BY <1>2 DEF Follows

LEMMA PfOpenOpens == OpenInv /\ pf_open => OpenInv'
<1>. SUFFICES ASSUME OpenInv, pf_open PROVE OpenInv'
  OBVIOUS
<1>1. /\ FilesInv /\ FilesInv' /\ volume' = volume /\ volume \in Volumes /\ FatFs' = FatFs
  BY PfOpenStep DEF OpenInv, FilesInv, FatTypeOK, pf_open
<1>2. CASE ~FatFs
  <2>1. pc' = "idle" /\ ~FatFs'
    BY <1>1, <1>2 DEF pf_open, ReturnWith
  <2>. QED  BY <1>1, <2>1 DEF OpenInv, OpensTheNamedFile
<1>3. CASE FatFs
  <2>1. PICK w \in Paths :
          /\ path' = w /\ flag' = FALSE
          /\ IF Stripped(w) = <<>> THEN ReturnWith("FR_NO_FILE") /\ UNCHANGED <<dj, rest>>
             ELSE Search(Stripped(w), 0)
    BY <1>3 DEF pf_open
  <2>. DEFINE p == Stripped(w)
  <2>2. p \in Seq(PathCharacter) /\ Stripped(path)' = p /\ Len(p) \in Nat /\ 0 \in 0 .. Len(p)
    <3>1. p \in Seq(PathCharacter)
      BY StrippedIsPath
    <3>2. Stripped(path)' = p
      BY <2>1 DEF Stripped
    <3>. QED  BY <3>1, <3>2
  <2>. HIDE DEF p
  <2>3. After(p, 0) = p
    <3>1. Len(After(p, 0)) = Len(p) - 0 /\ After(p, 0) \in Seq(PathCharacter)
      BY <2>2, RestOfPath
    <3>2. \A k \in 1 .. Len(p) - 0 : SubSeq(p, 0 + 1, Len(p))[k] = p[0 + k]
      <4>1. 0 \in Nat /\ Len(p) \in 0 .. Len(p)
        BY <2>2
      <4>. QED  BY <2>2, <4>1, PartOfPath
    <3>3. \A k \in 1 .. Len(p) : After(p, 0)[k] = p[k]
      BY <2>2, <3>2 DEF After
    <3>. QED  BY <2>2, <3>1, <3>3, SameElements
  <2>4. CASE p = <<>>
    <3>1. pc' = "idle" /\ result' = "FR_NO_FILE" /\ flag' = FALSE
      BY <2>1, <2>4 DEF ReturnWith, p
    <3>2. ASSUME Sound, Fits(p) PROVE Meant(p) = {}
      <4>1. \A x \in Entries(0) : x.name # create_name(After(p, 0)).fn
        <5>1. create_name(After(p, 0)).fn[1] = Blank
          BY <2>2, <2>3, <2>4, NoName
        <5>2. ASSUME NEW x \in Entries(0) PROVE x.name[1] # Blank
          BY <3>2, SoundEntries DEF WellFormed
        <5>. QED  BY <5>1, <5>2
      <4>2. Means(p)[0][0] = {}
        BY <1>1, <2>2, <3>2, <4>1, NoEntry
      <4>. QED  BY <4>2, MeantIs
    <3>3. (Sound' <=> Sound) /\ (Fits(p)' <=> Fits(p)) /\ Meant(p)' = Meant(p)
      BY <1>1, MeaningFixed
    <3>4. OpensTheNamedFile'
      <4>1. SUFFICES ASSUME Sound', Fits(Stripped(path))'
                     PROVE  Meant(Stripped(path))' = {}
        BY <3>1 DEF OpensTheNamedFile
      <4>2. Fits(Stripped(path))' <=> Fits(p)'
        BY <2>2 DEF Fits, NameEnd
      <4>3. Meant(Stripped(path))' = Meant(p)'
        BY <2>2 DEF Meant, NameEnd
      <4>. QED  BY <3>2, <3>3, <4>1, <4>2, <4>3
    <3>. QED  BY <1>1, <3>1, <3>4 DEF OpenInv
  <2>5. CASE p # <<>>
    <3>1. Search(p, 0)
      BY <2>1, <2>5 DEF p
    <3>2. /\ pc' = "find" /\ dj'.sclust = 0 /\ dj'.fn = create_name(p).fn
          /\ dj'.last = create_name(p).last /\ rest' = create_name(p).rest
      <4>1. 0 \in Cluster /\ 0 \in Starts
        BY <1>1, VolumeIs DEF Cluster, Starts
      <4>. QED  BY <1>1, <2>2, <3>1, <4>1, SearchFinds
    <3>3. Follows(p)'
      <4>1. Means(p)[0][dj'.sclust] = Meant(p)
        BY <3>2, MeantIs
      <4>. QED  BY <1>1, <2>2, <2>3, <3>2, <4>1, FollowsNext
    <3>4. (\E r \in Seq(PathCharacter) : r = Stripped(path) /\ Follows(r))'
      BY <2>2, <3>3
    <3>. QED  BY <1>1, <1>3, <2>1, <3>2, <3>4 DEF OpenInv, OpensTheNamedFile
  <2>. QED  BY <2>4, <2>5
<1>. QED  BY <1>2, <1>3

LEMMA OtherStepOpens ==
    ASSUME OpenInv, FilesInv', pc' # "find", called' # "pf_open"
    PROVE  OpenInv'
BY DEF OpenInv, OpensTheNamedFile

LEMMA OpenStutters ==
    ASSUME OpenInv, FilesInv', UNCHANGED fatVars
    PROVE  OpenInv'
<1>0. PICK p : p = Stripped(path)
  OBVIOUS
<1>1. /\ volume' = volume /\ FatFs' = FatFs /\ pc' = pc /\ called' = called /\ result' = result
      /\ flag' = flag /\ org_clust' = org_clust /\ fsize' = fsize /\ path' = path
      /\ dj' = dj /\ rest' = rest /\ failed' = failed
  BY DEF fatVars, file, search
<1>2. Stripped(path)' = p
  BY <1>0, <1>1 DEF Stripped
<1>3. \A r : Means(r)' = Means(r)
  BY <1>1, MeansFixed
<1>4. \A r : /\ Meant(r)' = Meant(r)
             /\ (Fits(r)' <=> Fits(r)) /\ (Sound' <=> Sound)
  BY <1>1, MeaningFixed
<1>5. ASSUME NEW r PROVE Follows(r) => Follows(r)'
  <2>1. ASSUME NEW i PROVE FollowsAt(r, i) => FollowsAt(r, i)'
    <3>1. Means(r)' = Means(r) /\ Meant(r)' = Meant(r)
      BY <1>3, <1>4
    <3>. QED  BY <1>1, <3>1 DEF FollowsAt, create_name, After
  <2>. QED  BY <1>4, <2>1, Zenon DEF Follows
<1>6. ASSUME pc = "find"
      PROVE  FatFs' /\ (\E r \in Seq(PathCharacter) : r = Stripped(path) /\ Follows(r))'
  BY <1>1, <1>2, <1>0, <1>5, <1>6 DEF OpenInv
<1>7. OpensTheNamedFile'
  <2>1. /\ Meant(Stripped(path))' = Meant(p) /\ (Fits(Stripped(path))' <=> Fits(p))
    <3>1. Meant(Stripped(path))' = Meant(p)' /\ (Fits(Stripped(path))' <=> Fits(p)')
      BY <1>2 DEF Meant, Fits, NameEnd
    <3>. QED  BY <1>4, <3>1
  <2>2. (Sound' <=> Sound) /\ OpensTheNamedFile
    BY <1>4 DEF OpenInv
  <2>. QED  BY <1>0, <1>1, <2>1, <2>2 DEF OpensTheNamedFile
<1>. QED  BY <1>1, <1>6, <1>7 DEF OpenInv

LEMMA DirFindOpens == OpenInv /\ dir_find => OpenInv'
<1>. SUFFICES ASSUME OpenInv, dir_find PROVE OpenInv'
  OBVIOUS
<1>. DEFINE e == EntryOf(dj.sclust, dj.index)
<1>1. /\ FilesInv /\ FilesInv' /\ volume' = volume /\ volume \in Volumes /\ FatFs' = FatFs
      /\ pc = "find" /\ FatFs /\ Finding /\ ~flag /\ FatTypeOK /\ path' = path
      /\ (Sound' <=> Sound)
  BY DirFindStep, SoundFixed DEF OpenInv, FilesInv, FatTypeOK, dir_find
<1>2. PICK p \in Seq(PathCharacter) : p = Stripped(path) /\ Follows(p)
  BY <1>1 DEF OpenInv
<1>3. Stripped(path)' = p
  BY <1>1, <1>2 DEF Stripped
<1>4. /\ Meant(Stripped(path))' = Meant(p) /\ (Fits(Stripped(path))' <=> Fits(p))
      /\ Meant(p)' = Meant(p) /\ (Fits(p)' <=> Fits(p))
  <2>1. Meant(p)' = Meant(p) /\ (Fits(p)' <=> Fits(p))
    BY <1>1, MeaningFixed
  <2>2. Meant(Stripped(path))' = Meant(p)' /\ (Fits(Stripped(path))' <=> Fits(p)')
    BY <1>3 DEF Meant, Fits, NameEnd
  <2>. QED  BY <2>1, <2>2
<1>. DEFINE Outcome == Sound /\ Fits(p) =>
              /\ result' = "FR_OK" =>
                    flag' /\ \E f \in Meant(p) : f.clust = org_clust' /\ f.size = fsize'
              /\ result' = "FR_NO_FILE" => Meant(p) = {} /\ ~flag'
              /\ result' = "FR_DISK_ERR" => failed' /\ ~flag'
<1>5. ASSUME pc' = "idle", Outcome PROVE OpenInv'
  <2>1. OpensTheNamedFile'
    BY <1>1, <1>4, <1>5 DEF OpensTheNamedFile
  <2>. QED  BY <1>1, <1>5, <2>1 DEF OpenInv
<1>6. ASSUME pc' = "find", Follows(p)' PROVE OpenInv'
  BY <1>1, <1>3, <1>6 DEF OpenInv, OpensTheNamedFile
<1>7. ASSUME Sound, Fits(p) PROVE \E i \in 0 .. Len(p) : FollowsAt(p, i)
  BY <1>2, <1>7 DEF Follows
<1>8. Sound => /\ Directories \subseteq 2 .. volume.n_fatent - 1
               /\ dj.sclust \in {0} \cup Directories
  BY <1>1, SoundEntries, FatDomain DEF Finding, InSound
<1>. HIDE DEF e, Outcome
<1>9. CASE Same /\ failed' /\ pc' = "idle" /\ result' = "FR_DISK_ERR" /\ dj' = dj
  BY <1>1, <1>5, <1>9 DEF Outcome, Same
<1>10. CASE Same /\ pc' = "idle" /\ result' = "FR_NO_FILE" /\ dj' = dj
            /\ \A x \in Entries(dj.sclust) : x.name # dj.fn
  <2>1. ASSUME Sound, Fits(p) PROVE Meant(p) = {}
    <3>1. PICK i \in 0 .. Len(p) : FollowsAt(p, i)
      BY <1>7, <2>1
    <3>2. \A x \in Entries(dj.sclust) : x.name # create_name(After(p, i)).fn
      BY <1>10, <3>1 DEF FollowsAt
    <3>. QED  BY <1>1, <1>8, <2>1, <3>1, <3>2, NoEntry DEF FollowsAt
  <2>. QED  BY <1>1, <1>5, <1>10, <2>1 DEF Outcome, Same
<1>11. CASE Same /\ rest' = rest /\ GoesOn /\ NoneBefore'
  <2>1. Follows(p)'
    <3>1. SUFFICES ASSUME Sound, Fits(p) PROVE Follows(p)'
      BY <1>1, <1>4 DEF Follows
    <3>2. PICK i \in 0 .. Len(p) : FollowsAt(p, i)
      BY <1>7, <3>1
    <3>. QED  BY <1>1, <1>11, <3>2, FollowsNext DEF GoesOn, FollowsAt
  <2>. QED  BY <1>6, <1>11, <2>1 DEF GoesOn
<1>12. CASE Same /\ Breaks
  <2>1. ASSUME Sound PROVE failed'
    <3>1. CASE dj.sclust = 0
      BY <1>12, <3>1 DEF Breaks
    <3>2. CASE dj.sclust # 0
      <4>1. dj.sclust \in Directories /\ HasChain(dj.sclust, 0)
        BY <1>8, <2>1, <3>2, SoundEntries
      <4>2. dj.sclust \in Cluster
        <5>1. dj.sclust \in 2 .. volume.n_fatent - 1
          BY <1>8, <2>1, <4>1
        <5>2. volume.n_fatent \in Nat /\ CLUST \in Nat /\ volume.n_fatent < CLUST
          BY <1>1, VolumeIs
        <5>. QED  BY <5>1, <5>2 DEF Cluster
      <4>. QED  BY <1>1, <1>12, <4>1, <4>2, ChainEnds DEF Breaks
    <3>. QED  BY <3>1, <3>2
  <2>. QED  BY <1>1, <1>5, <1>12, <2>1 DEF Outcome, Same, Breaks
<1>13. CASE e \in Entries(dj.sclust) /\ e.name = dj.fn /\ Found(e)
  <2>1. ASSUME Sound, Fits(p)
        PROVE  \E i : /\ dj.last <=> NameEnd(p, i) = Len(p)
                      /\ NameEnd(p, i) = Len(p) => Meant(p) = {x \in {e} : ~x.dir}
                      /\ NameEnd(p, i) # Len(p) /\ ~e.dir => Meant(p) = {}
                      /\ NameEnd(p, i) # Len(p) /\ e.dir =>
                            /\ NameEnd(p, i) + 1 \in 0 .. Len(p)
                            /\ p[NameEnd(p, i) + 1] = Slash
                            /\ rest = After(p, NameEnd(p, i) + 1)
                            /\ e.clust \in Directories
                            /\ Means(p)[NameEnd(p, i) + 1][e.clust] = Meant(p)
    <3>1. PICK i \in 0 .. Len(p) : FollowsAt(p, i)
      BY <1>7, <2>1
    <3>. QED  BY <1>1, <1>13, <2>1, <3>1, OnlyEntry
  <2>2. CASE dj.last /\ ~e.dir
    <3>1. /\ flag' = TRUE /\ org_clust' = e.clust /\ fsize' = e.size /\ pc' = "idle"
          /\ result' = "FR_OK"
      BY <1>13, <2>2 DEF Found, ReturnWith
    <3>2. ASSUME Sound, Fits(p) PROVE e \in Meant(p)
      BY <2>1, <2>2, <3>2
    <3>. QED  BY <1>5, <3>1, <3>2 DEF Outcome
  <2>3. CASE ~(dj.last /\ ~e.dir) /\ (dj.last \/ ~e.dir)
    <3>1. flag' = flag /\ pc' = "idle" /\ result' = "FR_NO_FILE"
      BY <1>13, <2>3 DEF Found, ReturnWith
    <3>2. ASSUME Sound, Fits(p) PROVE Meant(p) = {}
      BY <2>1, <2>3, <3>2
    <3>. QED  BY <1>1, <1>5, <3>1, <3>2 DEF Outcome
  <2>4. CASE ~dj.last /\ e.dir
    <3>1. flag' = flag /\ Search(rest, e.clust)
      BY <1>13, <2>4 DEF Found
    <3>2. e.clust \in Cluster /\ rest \in Seq(PathCharacter)
      BY <1>1, <1>13, EntriesAre DEF DirEntry, Cluster, Finding, NameOfPath
    <3>3. \/ /\ pc' = "find" /\ dj'.fn = create_name(rest).fn /\ dj'.sclust = e.clust
             /\ dj'.last = create_name(rest).last /\ rest' = create_name(rest).rest
          \/ pc' = "idle" /\ result' = "FR_DISK_ERR" /\ e.clust \notin Starts
      BY <1>1, <3>1, <3>2, SearchFinds
    <3>4. CASE /\ pc' = "find" /\ dj'.fn = create_name(rest).fn /\ dj'.sclust = e.clust
               /\ dj'.last = create_name(rest).last /\ rest' = create_name(rest).rest
      <4>1. Follows(p)'
        <5>1. SUFFICES ASSUME Sound, Fits(p) PROVE Follows(p)'
          BY <1>1, <1>4 DEF Follows
        <5>2. PICK j \in 0 .. Len(p) :
                /\ p[j] = Slash /\ rest = After(p, j) /\ Means(p)[j][e.clust] = Meant(p)
          BY <2>1, <2>4, <5>1
        <5>. QED  BY <1>1, <3>4, <5>2, FollowsNext
      <4>. QED  BY <1>6, <3>4, <4>1
    <3>5. CASE pc' = "idle" /\ result' = "FR_DISK_ERR" /\ e.clust \notin Starts
      <4>1. ~(Sound /\ Fits(p))
        <5>1. Sound /\ Fits(p) => e.clust \in Directories
          BY <2>1, <2>4
        <5>. QED  BY <1>8, <3>5, <5>1 DEF Starts
      <4>. QED  BY <1>5, <3>5, <4>1 DEF Outcome
    <3>. QED  BY <3>3, <3>4, <3>5
  <2>. QED  BY <2>2, <2>3, <2>4
<1>14. e = EntryOf(dj.sclust, dj.index)
  BY DEF e
<1>. QED  BY <1>1, <1>9, <1>10, <1>11, <1>12, <1>13, <1>14, DirFindFinds

LEMMA OpenStep == OpenInv /\ [FatNext]_fatVars => OpenInv'
<1>. SUFFICES ASSUME OpenInv, [FatNext]_fatVars PROVE OpenInv'
  OBVIOUS
<1>1. FilesInv /\ FilesInv'
  BY FilesStep DEF OpenInv
<1>2. CASE pf_read
  BY <1>1, <1>2, OtherStepOpens DEF pf_read, ReturnWith
<1>3. CASE pf_mount
  BY <1>1, <1>3, OtherStepOpens DEF pf_mount
<1>4. CASE Locate
  <2>1. called = "pf_read"
    BY <1>1, <1>4 DEF FilesInv, Reads, Locate
  <2>. QED  BY <1>1, <1>4, <2>1, OtherStepOpens DEF Locate, ABORT, ReturnWith
<1>5. CASE Transfer
  <2>1. called = "pf_read"
    BY <1>1, <1>5 DEF FilesInv, Reads, Transfer
  <2>. QED  BY <1>1, <1>5, <2>1, OtherStepOpens DEF Transfer, ABORT, ReturnWith
<1>6. CASE ReadDone
  <2>1. called = "pf_read"
    BY <1>1, <1>6 DEF FilesInv, Reads, ReadDone
  <2>. QED  BY <1>1, <1>6, <2>1, OtherStepOpens DEF ReadDone, ReturnWith
<1>7. CASE UNCHANGED fatVars
  BY <1>1, <1>7, OpenStutters
<1>. QED  BY <1>2, <1>3, <1>4, <1>5, <1>6, <1>7, PfOpenOpens, DirFindOpens DEF FatNext, FatStep

(* On a volume whose directories and chains are in order pf_open opens the *)
(* file that a path of names that have room means, and finds none only if  *)
(* there is none.                                                          *)
THEOREM NamedFileIsOpened == FatSpec => []OpensTheNamedFile
<1>1. FatInit => OpenInv
  BY FilesInit DEF FatInit, OpenInv, OpensTheNamedFile
<1>2. OpenInv => OpensTheNamedFile
  BY DEF OpenInv
<1>. QED  BY <1>1, <1>2, OpenStep, PTL DEF FatSpec
=============================================================================
