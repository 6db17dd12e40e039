----------------------------- MODULE Properties -----------------------------
(***************************************************************************)
(* Property tables (src/src/mapper/table.c, object.c) and how they are     *)
(* replicated: a device keeps the properties of an object, a subscriber    *)
(* keeps a copy of them, and an editor stages changes and sends them to    *)
(* the device.  The static properties that every object has always are     *)
(* left out; the keys here are those that a program makes up.              *)
(*                                                                         *)
(* own, copy, staged   the tables: records [key, val, removed], sorted by  *)
(*                     key for the binary search                           *)
(* toCopy, toOwn       messages on their way                               *)
(* want                history: the properties the object should have      *)
(* told                history: those it had when it last was announced    *)
(***************************************************************************)
EXTENDS Integers, Sequences, FiniteSets

CONSTANTS Keys,        \* keys, numbered in alphabetical order
          Vals,        \* values
          AppRemoves,  \* keys that the program of the device may remove
          EditSets,    \* keys that the editor may set
          EditRemoves, \* keys that the editor may remove
          MaxWire      \* bound: messages on their way

VARIABLES own, copy, staged, toCopy, toOwn, want, told
vars == <<own, copy, staged, toCopy, toOwn, want, told>>

Null == 0
Tables == {own, copy, staged}

-----------------------------------------------------------------------------
(* The table. *)

Record(k, v, r) == [key |-> k, val |-> v, removed |-> r]

(* mpr_tbl_get: a binary search, which finds nothing in a table that is    *)
(* not sorted.                                                             *)
Sorted(t) == \A i, j \in DOMAIN t : i < j => t[i].key < t[j].key
Has(t, k) == \E i \in DOMAIN t : t[i].key = k
At(t, k) == CHOOSE i \in DOMAIN t : t[i].key = k
Val(t, k) == IF Has(t, k) THEN t[At(t, k)].val ELSE Null
Contents(t) == [k \in Keys |-> Val(t, k)]

(* mpr_tbl_add and the qsort that follows it. *)
AddAtEnd(t, rec) == Append(t, rec)
Add(t, rec) ==
  LET before == Cardinality({i \in DOMAIN t : t[i].key < rec.key})
  IN  SubSeq(t, 1, before) \o <<rec>> \o SubSeq(t, before + 1, Len(t))

(* set_internal with a value, mpr_tbl_remove, and set_internal for a key   *)
(* that another program shall remove.                                      *)
Set(t, k, v) == IF Has(t, k) THEN [t EXCEPT ![At(t, k)] = Record(k, v, FALSE)]
                ELSE Add(t, Record(k, v, FALSE))
Remove(t, k) == IF Val(t, k) = Null THEN t ELSE [t EXCEPT ![At(t, k)] = Record(k, Null, TRUE)]
StageRemoval(t, k) == IF Has(t, k) THEN Remove(t, k) ELSE Add(t, Record(k, Null, TRUE))

(* mpr_tbl_set_from_atom: the mark of a removed record stays. *)
SetFromAtom(t, a) ==
  IF a.removed THEN Remove(t, a.key)
  ELSE IF Has(t, a.key) THEN [t EXCEPT ![At(t, a.key)].val = a.val]
  ELSE Add(t, Record(a.key, a.val, FALSE))
SetFromMsg(t, msg) ==
  LET f[i \in 0 .. Len(msg)] == IF i = 0 THEN t ELSE SetFromAtom(f[i - 1], msg[i])
  IN  f[Len(msg)]

(* mpr_tbl_clear_empty: the record that moves up is not looked at. *)
ClearBehind(t) ==
  LET f[i \in 1 .. Len(t) + 1] ==
        IF i = 1 THEN [kept |-> <<>>, skip |-> FALSE]
        ELSE IF f[i - 1].skip THEN [kept |-> f[i - 1].kept, skip |-> FALSE]
        ELSE [kept |-> Append(f[i - 1].kept, t[i - 1]), skip |-> t[i - 1].removed]
  IN  f[Len(t) + 1].kept
ClearEmpty(t) ==
  LET f[i \in 1 .. Len(t) + 1] ==   \* the records that stay, of the first i - 1
        IF i = 1 THEN [kept |-> <<>>, skip |-> FALSE]
        ELSE LET r == t[i - 1]
                 p == f[i - 1]
             IN  IF ~p.skip /\ r.val = Null /\ r.removed
                 THEN [kept |-> p.kept, skip |-> TRUE]
                 ELSE [kept |-> Append(p.kept, r), skip |-> FALSE]
  IN  f[Len(t) + 1].kept

(* mpr_tbl_add_to_msg: a record that is marked is a removal. *)
MessageOfValues(t) == SelectSeq(t, LAMBDA rec : rec.val # Null)
Message(t) == [i \in DOMAIN t |-> IF t[i].removed THEN Record(t[i].key, Null, TRUE) ELSE t[i]]

-----------------------------------------------------------------------------
Init ==
  /\ own = <<>> /\ copy = <<>> /\ staged = <<>>
  /\ toCopy = <<>> /\ toOwn = <<>>
  /\ want = [k \in Keys |-> Null] /\ told = want

(* mpr_obj_set_prop and mpr_obj_remove_prop for an object of the program.  *)
SetProp(k, v) ==
  /\ own' = Set(own, k, v)
  /\ want' = [want EXCEPT ![k] = v]
  /\ UNCHANGED <<copy, staged, toCopy, toOwn, told>>

RemoveProp(k) ==
  /\ k \in AppRemoves
  /\ own' = Remove(own, k)
  /\ want' = [want EXCEPT ![k] = Null]
  /\ UNCHANGED <<copy, staged, toCopy, toOwn, told>>

(* mpr_obj_push; the dirty mark that makes a poll do so is in Subscribers. *)
Announce(t) ==
  /\ Len(toCopy) < MaxWire
  /\ toCopy' = Append(toCopy, Message(t))
  /\ told' = want'

Push ==
  /\ UNCHANGED <<own, copy, staged, toOwn, want>>
  /\ Announce(own)

(* handler_dev, handler_sig: the subscriber takes over what it hears. *)
Learn ==
  /\ toCopy # <<>>
  /\ copy' = SetFromMsg(copy, Head(toCopy))
  /\ toCopy' = Tail(toCopy)
  /\ UNCHANGED <<own, staged, toOwn, want, told>>

(* mpr_obj_set_prop, mpr_obj_remove_prop and mpr_obj_push for an object of *)
(* another program.                                                        *)
StageSet(k, v) ==
  /\ k \in EditSets
  /\ staged' = Set(staged, k, v)
  /\ UNCHANGED <<own, copy, toCopy, toOwn, want, told>>

StageRemove(k) ==
  /\ k \in EditRemoves
  /\ staged' = StageRemoval(staged, k)
  /\ UNCHANGED <<own, copy, toCopy, toOwn, want, told>>

PushStaged ==
  /\ staged # <<>> /\ Len(toOwn) < MaxWire
  /\ toOwn' = Append(toOwn, Message(staged))
  /\ staged' = <<>>
  /\ UNCHANGED <<own, copy, toCopy, want, told>>

(* handler_dev_mod, handler_sig_mod. *)
Changes(t, msg) == \E i \in DOMAIN msg : IF msg[i].removed THEN Val(t, msg[i].key) # Null
                                         ELSE Val(t, msg[i].key) # msg[i].val
Modified ==
  /\ toOwn # <<>>
  /\ LET msg == Head(toOwn)
         next == SetFromMsg(own, msg)
     IN  /\ want' = [k \in Keys |-> LET i == At(msg, k) IN IF Has(msg, k) THEN msg[i].val ELSE want[k]]
         /\ IF Changes(own, msg) THEN own' = ClearEmpty(next) /\ Announce(next)
            ELSE own' = next /\ UNCHANGED <<toCopy, told>>
  /\ toOwn' = Tail(toOwn)
  /\ UNCHANGED <<copy, staged>>

Next == \/ \E k \in Keys : \/ RemoveProp(k) \/ StageRemove(k)
                           \/ \E v \in Vals : SetProp(k, v) \/ StageSet(k, v)
        \/ Push \/ PushStaged \/ Learn \/ Modified

Spec == Init /\ [][Next]_vars

-----------------------------------------------------------------------------
(* The binary search of the code relies on order: additions, removals in   *)
(* place, compaction and messages from others keep every table sorted,     *)
(* with one record for a key.                                              *)
Searchable == \A t \in Tables : Sorted(t)

(* A table in which removals are marks that are cleaned up later, by a     *)
(* loop that skips records, is still the dictionary it stands for: nothing *)
(* is lost that was set, nothing removed comes back.                       *)
IsDictionary == Contents(own) = want

(* Whatever was removed or set, here or by the editor, and in whatever     *)
(* order the marks were cleaned up: once the messages have arrived the     *)
(* copy holds what the object had when it was last announced.              *)
CopyCatchesUp == toCopy = <<>> => Contents(copy) = told

(* mpr_tbl_get_prop_by_key does not find a record that is marked as        *)
(* removed. Not part of a run: a mark may stay on a record that is set.    *)
FoundIfSet == \A t \in Tables : \A i \in DOMAIN t : t[i].val # Null => ~t[i].removed
=============================================================================
