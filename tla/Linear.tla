------------------------------- MODULE Linear -------------------------------
(***************************************************************************)
(* The expressions that a map writes for itself (src/src/mapper/map.c):    *)
(* without one it scales by the ranges of its signals, or copies, or takes *)
(* the mean of its sources; linear(x, sMin, sMax, dMin, dMax) scales by    *)
(* the ranges given, where "?" calibrates an end by the values that come   *)
(* in and "-" keeps the end that the expression before had.                *)
(*                                                                         *)
(* srcs, dst   the lengths of the signals                                  *)
(* ranged      whether the signals have ranges                             *)
(* whole       whether all signals are integers                            *)
(* expr        kind, and what it says of each end: a vector or Calibrate   *)
(* held        the vectors that the variables of the expression hold       *)
(* fresh       whether it has been evaluated with a value                  *)
(* y           what has been sent: [num, den] by element, 1/0 if unset     *)
(* x           history: the values it was sent for                         *)
(* want        history: the ends that were asked for, <<>> while unknown   *)
(* sets        how often an expression was set                             *)
(***************************************************************************)
EXTENDS Integers, Sequences, FiniteSetsExt, Functions

CONSTANTS MaxLen,     \* bound: the length of a signal
          Given,      \* the four ends that linear() is given
          SignalEnds, \* those of the ranges of the signals
          Inputs,     \* elements of values
          MaxSets,    \* bound: expressions set
          Settled     \* restricts SetLinear to where "-" works

VARIABLES srcs, dst, ranged, whole, expr, held, fresh, y, x, want, sets
vars == <<srcs, dst, ranged, whole, expr, held, fresh, y, x, want, sets>>

Ends == 1 .. 4           \* sMin, sMax, dMin, dMax
Calibrate == <<>>        \* instead of a vector
Default == <<0, 1, 0, 1>>
NoExpr == [kind |-> "none"]
Unset == [num |-> 1, den |-> 0]

LenMin == Min({srcs[1], dst})
At(v, i) == v[((i - 1) % Len(v)) + 1]     \* a shorter vector is cycled
Calibrating(e) == e.kind = "linear" /\ Calibrate \in {e.ends[k] : k \in Ends}
Size(a) == IF a < 0 THEN -a ELSE a
Truncated(a, b) == IF (a < 0) = (b < 0) THEN Size(a) \div Size(b) ELSE -(Size(a) \div Size(b))

-----------------------------------------------------------------------------
(* _replace_expr_str, mpr_map_alloc_values, and the evaluation without     *)
(* input in _set_expr: it stops at the first calibration, so that nothing  *)
(* is initialised then and the variables stay as they were, if they had    *)
(* that length.  The same expression again changes nothing.                *)
LengthOf(e, k) == IF e.ends[k] = Calibrate THEN srcs[1] ELSE Len(e.ends[k])
Initial(e) ==
  [k \in Ends |-> IF ~Calibrating(e) THEN e.ends[k]
                  ELSE IF held # <<>> /\ Len(held[k]) = LengthOf(e, k) THEN held[k]
                  ELSE [i \in 1 .. LengthOf(e, k) |-> 0]]

Install(e) ==
  /\ expr' = e
  /\ IF e = expr THEN UNCHANGED <<held, fresh>>
     ELSE /\ held' = IF e.kind = "linear" THEN Initial(e) ELSE <<>>
          /\ fresh' = TRUE

(* _set_linear without an expression. *)
CutEnd(k) == [i \in 1 .. LenMin |-> SignalEnds[k]]
SetDefault ==
  /\ expr = NoExpr
  /\ LET kind == IF ranged THEN "linear" ELSE IF Len(srcs) = 1 THEN "copy" ELSE "mean"
         ends == IF ranged THEN [k \in Ends |-> CutEnd(k)] ELSE <<>>
     IN  Install([kind |-> kind, ends |-> ends]) /\ want' = ends
  /\ UNCHANGED <<srcs, dst, ranged, whole, y, x, sets>>

(* _set_linear.  Nothing can be kept of an expression without variables of *)
(* these names.                                                            *)
End(k, a) ==
  IF a = "?" THEN Calibrate
  ELSE IF a = "given" THEN <<Given[k]>>
  ELSE IF expr = NoExpr THEN <<Default[k]>> ELSE held[k]

Keeps(args) == \E k \in Ends : args[k] = "-"
SetLinear(args) ==
  /\ Len(srcs) = 1     \* other sources play no part
  /\ sets < MaxSets /\ sets' = sets + 1
  /\ Settled => (Keeps(args) => ~(fresh /\ Calibrating(expr)))
  /\ IF Keeps(args) /\ expr.kind \in {"copy", "mean"} THEN UNCHANGED <<expr, held, fresh, want>>
     ELSE LET e == [kind |-> "linear", ends |-> [k \in Ends |-> End(k, args[k])]]
          IN  /\ Install(e)
              /\ want' = IF e = expr THEN want
                         ELSE [k \in Ends |-> IF args[k] = "-" /\ expr # NoExpr THEN want[k] ELSE e.ends[k]]
  /\ UNCHANGED <<srcs, dst, ranged, whole, y, x>>

-----------------------------------------------------------------------------
(* Evaluation.  The first value starts a calibration.                      *)

Widened(k, v, in) ==
  [i \in DOMAIN in |-> IF k = 1 THEN Min({in[i], v[i]}) ELSE Max({in[i], v[i]})]
CalibratedOn(k, in) == Widened(k, held[k], in)
Calibrated(k, in) == IF fresh THEN in ELSE Widened(k, held[k], in)

(* m = (dMax - dMin) / sRange, b = (dMin * sMax - dMax * sMin) / sRange    *)
Scaled(v, i, in) ==
  LET s1 == At(v[1], i) s2 == At(v[2], i) d1 == At(v[3], i) d2 == At(v[4], i)
  IN  IF s2 = s1 THEN [num |-> d1, den |-> 1]
      ELSE IF whole THEN [num |-> Truncated(d2 - d1, s2 - s1) * in
                                    + Truncated(d1 * s2 - d2 * s1, s2 - s1), den |-> 1]
      ELSE [num |-> (d2 - d1) * in + d1 * s2 - d2 * s1, den |-> s2 - s1]

(* The mean of the sources.  One that is too short is filled up with       *)
(* zeros, whose number goes by the length of the first source.             *)
MeanLen == Min({Max({srcs[j] : j \in DOMAIN srcs}), dst})
OneZero(j) == 1
Zeros(j) == Max({1, MeanLen - srcs[1]})
Term(j, v) == IF srcs[j] >= MeanLen THEN v ELSE v \o [i \in 1 .. Zeros(j) |-> 0]
Mean(i, in) ==
  LET total == SumFunction([j \in DOMAIN in |-> At(Term(j, in[j]), i)])
  IN  IF whole THEN [num |-> Truncated(total, Len(srcs)), den |-> 1]
      ELSE [num |-> total, den |-> Len(srcs)]

Evaluate(in) ==
  /\ expr # NoExpr
  /\ LET now == [k \in Ends |-> IF expr.ends[k] = Calibrate THEN Calibrated(k, in[1]) ELSE expr.ends[k]]
     IN  /\ held' = IF expr.kind = "linear" THEN now ELSE held
         /\ y' = [i \in 1 .. dst |->
                    CASE expr.kind = "mean" /\ i <= MeanLen -> Mean(i, in)
                      [] expr.kind = "copy" /\ i <= LenMin -> [num |-> in[1][i], den |-> 1]
                      [] expr.kind = "linear" /\ i <= LenMin -> Scaled(now, i, in[1][i])
                      [] OTHER -> Unset]
  /\ x' = in /\ fresh' = FALSE
  /\ want' = [k \in DOMAIN want |->
                IF expr.ends[k] # Calibrate THEN want[k]
                ELSE IF want[k] = <<>> THEN in[1] ELSE Widened(k, want[k], in[1])]
  /\ UNCHANGED <<srcs, dst, ranged, whole, expr, sets>>

Lengths == {<<a>> : a \in 1 .. 2} \cup {<<a, b>> : a, b \in 1 .. MaxLen}
Init ==
  /\ srcs \in Lengths /\ dst \in 1 .. MaxLen /\ whole \in BOOLEAN
  /\ ranged \in BOOLEAN /\ (ranged => Len(srcs) = 1)
  /\ expr = NoExpr /\ held = <<>> /\ fresh = TRUE
  /\ y = <<>> /\ x = <<>> /\ want = <<>> /\ sets = 0

Next ==
  \/ SetDefault
  \/ \E args \in [Ends -> {"given", "-", "?"}] : args[3] # "?" /\ args[4] # "?" /\ SetLinear(args)
  \/ \E in \in [DOMAIN srcs -> UNION {[1 .. n -> Inputs] : n \in 1 .. MaxLen}] :
       (\A j \in DOMAIN srcs : Len(in[j]) = srcs[j]) /\ Evaluate(in)

Spec == Init /\ [][Next]_vars

-----------------------------------------------------------------------------
Divisible(i) == LET d == At(held[2], i) - At(held[1], i)
                IN  d # 0 => (At(held[4], i) - At(held[3], i)) % Size(d) = 0

(* A value is sent as the ends that were asked for say, be they given,     *)
(* calibrated since they were asked for, or kept over several expressions: *)
(* the ends of the source go to those of the destination, and between them *)
(* on a line.  Integers only if the slope is one.  (m * den = n is meant   *)
(* by y = n/den.)                                                          *)
ScalesRight ==
  ~fresh /\ expr.kind = "linear" => \A i \in 1 .. LenMin : ~whole \/ Divisible(i) =>
    LET s1 == At(want[1], i) s2 == At(want[2], i) d1 == At(want[3], i) d2 == At(want[4], i)
    IN  IF s1 = s2 THEN y[i].num = d1 * y[i].den
        ELSE (y[i].num - d1 * y[i].den) * (s2 - s1) = (x[1][i] - s1) * (d2 - d1) * y[i].den

(* Without ranges: the mean of the sources by element, a missing element   *)
(* counts as zero, provided that no source lacks more than the first one.  *)
MeanRight ==
  ~fresh /\ expr.kind = "mean" /\ ~whole =>
    \A i \in 1 .. MeanLen :
      (\A j \in DOMAIN srcs : srcs[j] >= srcs[1] \/ MeanLen - srcs[j] <= 1) =>
        y[i].num = SumFunction([j \in DOMAIN srcs |-> IF i <= srcs[j] THEN x[j][i] ELSE 0])
=============================================================================
