------------------------------ MODULE Utilities ------------------------------
(***************************************************************************)
(* The two loops of utilities.c behind the shell: itoa, which writes a     *)
(* number into a static buffer from the end, and x_strcmp, by which a line *)
(* is recognised as a command.  One call of either, one step per turn of   *)
(* its loop.  A string is a function from the indexes of its array.        *)
(***************************************************************************)
EXTENDS Integers, Sequences

CONSTANTS
    INT_MAX,        \* 2^31 - 1: the largest int
    INT_DIGITS,     \* 19
    MaxChar,        \* 255: characters are 0 .. MaxChar
    MaxString,      \* bound: length of the strings compared
    Minus,          \* '-'
    End,            \* '\0'
    Unset           \* what an element of the buffer holds before

TenTo[n \in Nat] == IF n = 0 THEN 1 ELSE 10 * TenTo[n - 1]

ASSUME UtilitiesAssumption ==
    /\ INT_MAX \in Nat
    /\ INT_DIGITS \in Nat
    /\ \E n \in 0 .. INT_DIGITS : TenTo[n] > INT_MAX + 1
    /\ Minus \notin 0 .. 9 /\ Minus # End
    /\ MaxChar \in Nat
    /\ MaxString \in Nat

VARIABLES
    stage,
    number,         \* history: the argument of itoa
    i, p, buf,      \* its parameter, pointer and buffer
    s1, s2, at      \* the arguments of x_strcmp, and how far it is

utilVars == <<stage, number, i, p, buf, s1, s2, at>>

Int_ == -INT_MAX - 1 .. INT_MAX
Strings == UNION { [1 .. n -> 1 .. MaxChar] : n \in 0 .. MaxString }

(* Division and remainder of C: towards zero.                              *)
Quotient(n) == IF n >= 0 THEN n \div 10 ELSE -((-n) \div 10)
Remainder(n) == n - 10 * Quotient(n)

UtilInit ==
    /\ buf = [k \in 0 .. INT_DIGITS + 1 |-> IF k = INT_DIGITS + 1 THEN End ELSE Unset]
    /\ p = INT_DIGITS + 1
    /\ at = 1
    /\ \/ /\ stage = "itoa"
          /\ number \in Int_
          /\ i = number
          /\ s1 = <<>> /\ s2 = <<>>
       \/ /\ stage = "x_strcmp"
          /\ number = 0 /\ i = 0
          /\ s1 \in Strings /\ s2 \in Strings

-----------------------------------------------------------------------------
(* MUTANT: the loop is tested before its first turn.                       *)
Digit_while ==
    /\ stage = "itoa"
    /\ IF i = 0
       THEN stage' = "converted" /\ UNCHANGED <<p, buf, i>>
       ELSE /\ p' = p - 1
            /\ buf' = [buf EXCEPT ![p - 1] = IF i >= 0 THEN Remainder(i) ELSE -Remainder(i)]
            /\ i' = Quotient(i)
            /\ stage' = IF Quotient(i) = 0 THEN IF number < 0 THEN "sign" ELSE "converted"
                     ELSE stage
    /\ UNCHANGED <<number, s1, s2, at>>

(* One turn of `do ... while (i != 0)', for either sign.                   *)
Digit ==
    /\ stage = "itoa"
    /\ p' = p - 1
    /\ buf' = [buf EXCEPT ![p - 1] = IF i >= 0 THEN Remainder(i) ELSE -Remainder(i)]
    /\ i' = Quotient(i)
    /\ stage' = IF Quotient(i) # 0 THEN stage ELSE IF number < 0 THEN "sign" ELSE "converted"
    /\ UNCHANGED <<number, s1, s2, at>>

Sign ==
    /\ stage = "sign"
    /\ p' = p - 1
    /\ buf' = [buf EXCEPT ![p - 1] = Minus]
    /\ stage' = "converted"
    /\ UNCHANGED <<number, i, s1, s2, at>>

(* *s for a string and its terminating zero.                               *)
CharAt(s, n) == IF n <= Len(s) THEN s[n] ELSE 0

Compare ==
    /\ stage = "x_strcmp"
    /\ IF CharAt(s1, at) = CharAt(s2, at) /\ CharAt(s2, at) # 0
       THEN at' = at + 1 /\ stage' = stage
       ELSE at' = at /\ stage' = "compared"
    /\ UNCHANGED <<number, i, p, buf, s1, s2>>

UtilNext == Digit \/ Sign \/ Compare
UtilSpec == UtilInit /\ [][UtilNext]_utilVars

(* What x_strcmp returns.                                                  *)
CompareResult ==
    LET ret == CharAt(s1, at) - CharAt(s2, at)
    IN  IF ret < 0 THEN -1 ELSE IF ret > 0 THEN 1 ELSE 0

-----------------------------------------------------------------------------
(* The digits of the numeral in buf from p on, and what the last of them   *)
(* denote: from the end, each has ten times the weight of the one before.  *)
FirstDigit == IF buf[p] = Minus THEN p + 1 ELSE p
Digits == FirstDigit .. INT_DIGITS

ValueOfLast ==
    LET DigitFromEnd(n) == IF INT_DIGITS + 1 - n \in Digits THEN buf[INT_DIGITS + 1 - n] ELSE 0
        value[n \in Nat] ==
            IF n = 0 THEN 0 ELSE value[n - 1] + TenTo[n - 1] * DigitFromEnd(n)
    IN  value

Value == ValueOfLast[INT_DIGITS + 1 - FirstDigit]

(* x_strcmp should order strings as a dictionary does.                     *)
Before(s, t) ==
    \E n \in 0 .. Len(s) :
        /\ n < Len(t)
        /\ \A k \in 1 .. n : s[k] = t[k]
        /\ n = Len(s) \/ s[n + 1] < t[n + 1]

(* What itoa returns denotes its argument without a leading zero, and its  *)
(* pointer stays in its buffer with the end mark in place, for every int,  *)
(* the least one included, whose opposite is none.                         *)
DenotesTheNumber ==
    /\ p \in DOMAIN buf /\ buf[INT_DIGITS + 1] = End
    /\ stage = "converted" =>
          /\ Digits # {} /\ \A k \in Digits : buf[k] \in 0 .. 9
          /\ buf[p] = Minus <=> number < 0
          /\ Value = IF number < 0 THEN -number ELSE number
          /\ number # 0 => buf[FirstDigit] # 0

(* x_strcmp reads no string beyond its end, and returns the order.         *)
OrdersStrings ==
    /\ at <= Len(s1) + 1 /\ at <= Len(s2) + 1
    /\ stage = "compared" =>
          CompareResult = IF Before(s1, s2) THEN -1 ELSE IF Before(s2, s1) THEN 1 ELSE 0

(* Both functions answer rightly and stay in their buffers, for all their  *)
(* arguments.                                                              *)
AnswersAreRight == DenotesTheNumber /\ OrdersStrings
=============================================================================
