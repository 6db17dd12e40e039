---------------------------- MODULE ValueBuffer ----------------------------
(***************************************************************************)
(* The values of a slot (src/src/mapper/value.c): per instance a circular  *)
(* buffer of the last mlen samples.  A source slot is written by           *)
(* mpr_value_set_samp, a destination slot by the evaluation of the         *)
(* expression, which moves the position itself.  mpr_map_alloc_values      *)
(* sizes both for every new expression and whenever a signal has got more  *)
(* instances.                                                              *)
(*                                                                         *)
(* slot   "src" or "dst" (is_input of mpr_value_realloc, which only the    *)
(*        destination slot passes)                                         *)
(* v      the value: mlen, inst (samps, pos, full), active                 *)
(* hist   history of each instance: since, what was written since the last *)
(*        reset or change of mlen, the latest first; before, the samples   *)
(*        that were written since the reset, but ahead of such a change    *)
(* count  counter: writes so far, the name of the next sample              *)
(***************************************************************************)
EXTENDS Integers, Sequences, FiniteSets

CONSTANTS MaxMem,     \* bound: the longest history an expression asks for
          MaxInst,    \* bound: instances of a signal
          MaxSamples  \* bound: samples written, evaluations

VARIABLES slot, v, hist, count
vars == <<slot, v, hist, count>>

Zero == 0
Nothing == [since |-> <<>>, before |-> {}]

-----------------------------------------------------------------------------
(* The buffer.  Positions count from 0. *)

Empty(mlen) == [samps |-> [k \in 0 .. mlen - 1 |-> Zero], pos |-> -1, full |-> FALSE]
Insts == DOMAIN v.inst
Used(b) == b.pos >= 0
Written(h) == {h.since[k] : k \in DOMAIN h.since} \cup h.before
Older(h) == [since |-> <<>>, before |-> Written(h)]
Recent(h) == SubSeq(h, 1, IF Len(h) < MaxMem THEN Len(h) ELSE MaxMem)

(* mpr_value_get_samp_hist: the sample k steps back. *)
Sample(b, mlen, k) == b.samps[(b.pos + mlen - k) % mlen]

Advance(b, mlen) == IF b.pos + 1 >= mlen THEN [b EXCEPT !.pos = 0, !.full = TRUE]
                    ELSE [b EXCEPT !.pos = @ + 1]
Write(b, mlen, s) == LET n == Advance(b, mlen) IN [n EXCEPT !.samps[n.pos] = s]

ResetQuick(b, mlen) == [b EXCEPT !.pos = -1, !.full = FALSE]
Reset(b, mlen) == Empty(mlen)

(* The copy of mpr_value_realloc when only the size of the memory changes. *)
Opos(b) == IF Used(b) THEN b.pos ELSE 0
Resized(b, old, new) ==
  LET n == IF new > old THEN old - Opos(b) ELSE IF old - Opos(b) < new THEN old - Opos(b) ELSE new
      from(k) == IF k < n THEN b.samps[Opos(b) + k] ELSE IF k < old THEN b.samps[k - n] ELSE Zero
  IN  [samps |-> [k \in 0 .. new - 1 |-> from(k)],
       pos |-> IF ~Used(b) THEN -1 ELSE IF new > old THEN old ELSE n,
       full |-> FALSE]

-----------------------------------------------------------------------------
Init ==
  /\ slot \in {"src", "dst"}
  /\ \E mlen \in 1 .. MaxMem, n \in 1 .. MaxInst :
       v = [mlen |-> mlen, inst |-> [i \in 1 .. n |-> Empty(mlen)], active |-> 0]
  /\ hist = [i \in DOMAIN v.inst |-> Nothing]
  /\ count = 0

(* mpr_value_set_samp. *)
SetSamp(i) ==
  /\ slot = "src" /\ count < MaxSamples
  /\ v' = [v EXCEPT !.inst[i] = Write(@, v.mlen, count + 1),
                    !.active = IF Used(v.inst[i]) THEN @ ELSE @ + 1]
  /\ hist' = [hist EXCEPT ![i].since = Recent(<<count + 1>> \o @)]
  /\ count' = count + 1
  /\ UNCHANGED slot

(* mpr_expr_eval: the position moves on first and goes back if nothing was *)
(* assigned, from 0 to the last one whatever it was before.                *)
Eval(i, assigns) ==
  /\ slot = "dst" /\ count < MaxSamples
  /\ LET old == v.inst[i]
         next == (old.pos + 1) % v.mlen
         back == IF next = 0 THEN v.mlen - 1 ELSE next - 1
     IN  IF assigns
         THEN /\ v' = [v EXCEPT !.inst[i].pos = next, !.inst[i].samps[next] = count + 1]
              /\ hist' = [hist EXCEPT ![i].since = Recent(<<count + 1>> \o @)]
         ELSE /\ v' = [v EXCEPT !.inst[i].pos = back]
              /\ UNCHANGED hist
  /\ count' = count + 1
  /\ UNCHANGED slot

(* mpr_value_reset_inst, for a release. *)
ResetInst(i) ==
  /\ v' = [v EXCEPT !.inst[i] = Reset(@, v.mlen),
                    !.active = IF Used(v.inst[i]) THEN (@ + 255) % 256 ELSE @]
  /\ hist' = [hist EXCEPT ![i] = Nothing]
  /\ UNCHANGED <<slot, count>>

(* mpr_value_remove_inst: the instances behind it move down. *)
Without(s, i) == [j \in 1 .. Len(s) - 1 |-> IF j < i THEN s[j] ELSE s[j + 1]]
RemoveInst(i) ==
  /\ Len(v.inst) > 1
  /\ v' = [v EXCEPT !.inst = Without(@, i),
                    !.active = IF Used(v.inst[i]) THEN (@ + 255) % 256 ELSE @]
  /\ hist' = [j \in 1 .. Len(hist) - 1 |-> IF j < i THEN hist[j] ELSE hist[j + 1]]
  /\ UNCHANGED <<slot, count>>

(* mpr_value_realloc, from mpr_map_alloc_values: n instances of length     *)
(* mlen, for a signal whose type or length is another one or not.          *)
Realloc(mlen, n, other) ==
  LET fresh == slot = "src" \/ other
      old(i) == IF fresh THEN Empty(mlen)
                ELSE IF mlen = v.mlen THEN v.inst[i] ELSE Resized(v.inst[i], v.mlen, mlen)
  IN  /\ n >= Len(v.inst)
      /\ v' = [mlen |-> mlen, active |-> v.active,
               inst |-> [i \in 1 .. n |-> IF i \in Insts THEN old(i) ELSE Empty(mlen)]]
      /\ hist' = [i \in 1 .. n |-> IF i \notin Insts \/ fresh THEN Nothing
                                   ELSE IF mlen = v.mlen THEN hist[i] ELSE Older(hist[i])]
      /\ UNCHANGED <<slot, count>>

Next == \/ \E i \in Insts : \/ SetSamp(i) \/ ResetInst(i) \/ RemoveInst(i)
                            \/ \E assigns \in BOOLEAN : Eval(i, assigns)
        \/ \E mlen \in 1 .. MaxMem, n \in 1 .. MaxInst, other \in BOOLEAN : Realloc(mlen, n, other)

Spec == Init /\ [][Next]_vars

-----------------------------------------------------------------------------
(* The position wraps, goes back, is moved by whoever writes, and may     *)
(* point behind the buffer once it was made smaller.  The sample k steps   *)
(* back is the k-th latest one of this instance, among those written since *)
(* the buffer has its size.  Further back the order is lost (a copy leaves *)
(* the position elsewhere), but there are only older samples of the same   *)
(* instance and zeros, and zeros alone if the size is that of the reset:   *)
(* never a sample of the instance that used the buffer before.             *)
HistoryRight ==
  \A i \in Insts :
    /\ Used(v.inst[i]) => \A k \in 0 .. v.mlen - 1 :
         LET s == Sample(v.inst[i], v.mlen, k)
         IN  IF k < Len(hist[i].since) THEN s = hist[i].since[k + 1]
             ELSE s \in {Zero} \cup hist[i].before
    /\ ~Used(v.inst[i]) => hist[i] = Nothing

(* "Number of active instances", in types_internal.h: what count() of an   *)
(* expression reads. Not part of a run: a source whose type or length      *)
(* changes has its buffers emptied and keeps the number.                   *)
ActiveCounted == slot = "src" => v.active = Cardinality({i \in Insts : Used(v.inst[i])})
=============================================================================
