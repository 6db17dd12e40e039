------------------------------- MODULE Times -------------------------------
(***************************************************************************)
(* Time stamps (src/src/mapper/time.c): a word of seconds and a word of    *)
(* fractions of a second, both unsigned, and arithmetic on them by halves. *)
(*                                                                         *)
(* t   the time stamp that a program calculates with                       *)
(***************************************************************************)
EXTENDS Integers

CONSTANT Radix    \* values of a word, 2^32 in the code; an even number

VARIABLE t

Half == Radix \div 2
Times == [sec : 0 .. Radix - 1, frac : 0 .. Radix - 1]
Time(sec, frac) == [sec |-> sec % Radix, frac |-> frac % Radix]
Num(u) == u.sec * Radix + u.frac    \* in fractions of a second

-----------------------------------------------------------------------------
(* mpr_time_add, with the carry of the fractions. *)
Plus(u, v) == Time(u.sec + v.sec + (IF (u.frac + v.frac) % Radix < v.frac THEN 1 ELSE 0), u.frac + v.frac)

(* mpr_time_sub. *)
MinusNoBorrow(u, v) == IF u.sec > v.sec THEN Time(u.sec - v.sec, u.frac - v.frac) ELSE Time(0, 0)
Minus(u, v) == IF u.sec > v.sec THEN Time(u.sec - v.sec - (IF u.frac < v.frac THEN 1 ELSE 0), u.frac - v.frac)
               ELSE Time(0, 0)

(* mpr_time_add_dbl, for d units: \div rounds as floor does.  A result     *)
(* below zero is converted to an unsigned word, which C does not define.   *)
Later(u, d) == LET e == d + u.frac IN Time(u.sec + (e \div Radix), e % Radix)

(* mpr_time_cmp: the difference of two unsigned words taken for an int. *)
Signed(x) == IF x % Radix >= Half THEN (x % Radix) - Radix ELSE x % Radix
CmpUnsigned(u, v) == IF u.sec = v.sec THEN (u.frac - v.frac) % Radix ELSE (u.sec - v.sec) % Radix
Cmp(u, v) == IF u.sec = v.sec THEN Signed(u.frac - v.frac) ELSE Signed(u.sec - v.sec)

-----------------------------------------------------------------------------
Init == t = Time(0, 0)
Add(v) == t' = Plus(t, v)
Sub(v) == t' = Minus(t, v)
AddDbl(d) == t.sec + ((d + t.frac) \div Radix) >= 0 /\ t' = Later(t, d)
SetDbl(u) == t' = u    \* mpr_time_set_dbl, mpr_time_set

Amounts == -(Radix * Radix - 1) .. Radix * Radix - 1
Next == \/ \E v \in Times : Add(v) \/ Sub(v) \/ SetDbl(v)
        \/ \E d \in Amounts : AddDbl(d)

Spec == Init /\ [][Next]_t

-----------------------------------------------------------------------------
(* Carries and borrows between the words are right: sums and shifts are    *)
(* exact as long as they can be represented, and a difference is at most a *)
(* second too small, because one within the same second counts for none.   *)
ArithmeticRight ==
  /\ \A v \in Times :
       LET d == Num(t) - Num(v)
       IN  /\ Num(Plus(t, v)) = (Num(t) + Num(v)) % (Radix * Radix)
           /\ IF d <= 0 THEN Num(Minus(t, v)) = 0 ELSE d - Num(Minus(t, v)) \in 0 .. Radix - 1
  /\ \A d \in -Num(t) .. Radix * Radix - 1 : Num(Later(t, d)) = (Num(t) + d) % (Radix * Radix)

(* Two times compare as the numbers they stand for, unless the words that  *)
(* are compared differ by more than half of their range: two times within  *)
(* one second and more than half of it apart, or 68 years apart.  The sign *)
(* of those is always the wrong one.                                       *)
Apart(u, v) == IF u.sec = v.sec THEN u.frac - v.frac ELSE u.sec - v.sec
OrderRight ==
  \A v \in Times : IF Apart(t, v) \in -Half .. Half - 1
                   THEN /\ Cmp(t, v) < 0 <=> Num(t) < Num(v)
                        /\ Cmp(t, v) > 0 <=> Num(t) > Num(v)
                   ELSE /\ Cmp(t, v) < 0 <=> Num(t) > Num(v)
                        /\ Cmp(t, v) > 0 <=> Num(t) < Num(v)

(* "<0 if time1 < time2; 0 if time1 == time2; >0 if time1 > time2", the    *)
(* documentation of mpr_time_cmp in mapper.h.                              *)
(* Not part of a run: OrderRight says for which times it holds, and that   *)
(* it is wrong for all the others.                                         *)
CompareAsPromised == \A v \in Times : Cmp(t, v) < 0 <=> Num(t) < Num(v)
=============================================================================
