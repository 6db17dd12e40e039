------------------------------ MODULE Messages ------------------------------
(***************************************************************************)
(* Properties on the wire (src/src/mapper/properties.c, slot.c): a message *)
(* is a flat row of arguments, "@key value value @key value", where a key  *)
(* may be marked "+@" or "-@" and may speak of a slot, "@dst@key" or       *)
(* "@src.1@key".  mpr_msg_parse_props cuts it into atoms and drops what    *)
(* does not fit; the slots of a map then look up what is theirs.           *)
(*                                                                         *)
(* segments   what a peer wrote, each a key with its values                *)
(* slots      the slots that the message of a map goes on with, if it does *)
(***************************************************************************)
EXTENDS Integers, Sequences, SequencesExt

CONSTANTS MaxSegments,   \* bound: properties of a message
          Clean          \* no key lacks its values in front of one that it spoils

VARIABLES segments, slots
vars == <<segments, slots>>

(* static_props: the length, 0 if it varies, and the type; "data" is only  *)
(* known locally.  Every other key is an extra property.                   *)
Static == [length |-> [len |-> 1, type |-> "i"], type |-> [len |-> 1, type |-> "c"],
           direction |-> [len |-> 1, type |-> "s"], max |-> [len |-> 0, type |-> "n"],
           scope |-> [len |-> 0, type |-> "s"], data |-> [len |-> 1, type |-> "none"]]
Numeric == {"i", "f"}
Index(key) == IF key \in DOMAIN Static THEN key ELSE "extra"   \* mpr_prop_from_str

Key(key, mod, slot) == [key |-> key, mod |-> mod, slot |-> slot]
Val(type, val) == [type |-> type, val |-> val]
IsKey(item) == "key" \in DOMAIN item
Plain == "" NoSlot == "none"

-----------------------------------------------------------------------------
(* mpr_msg_parse_props.  An atom keeps its bits from an attempt that was   *)
(* given up, into which the next key is mixed: so bits are sets.           *)

Blank == [key |-> "", bits |-> {}, mods |-> {}, slot |-> {}, vals |-> <<>>, typed |-> FALSE]

(* At the end of a vector of values. *)
Fits(rule, a) ==
  /\ rule.len # 0 => Len(a.vals) = rule.len /\ a.mods = {}
  /\ a.vals[1].type \in (IF rule.type = "n" THEN Numeric ELSE {rule.type})
Checked(a) ==
  IF a.vals = <<>> THEN [a EXCEPT !.typed = FALSE]
  ELSE IF \E k \in DOMAIN Static : a.bits = {k} /\ ~Fits(Static[k], a) THEN Blank
  ELSE a
HasTypes(a) == a.typed
Complete(a) == a.typed \/ "-" \in a.mods

NextKey(s, item) ==
  LET was == Checked(s.cur)
      base == IF Complete(was) THEN Blank ELSE was
      mixed == IF item.mod = Plain THEN base ELSE Blank     \* a mark overwrites the bits
  IN  [done |-> IF Complete(was) THEN Append(s.done, was) ELSE s.done,
       cur |-> [key |-> item.key, bits |-> mixed.bits \cup {Index(item.key)},
                mods |-> mixed.mods \cup ({item.mod} \ {Plain}),
                slot |-> mixed.slot \cup ({item.slot} \ {NoSlot}), vals |-> <<>>, typed |-> TRUE],
       open |-> TRUE]

(* A value of another type ends the vector and drops it; what follows up   *)
(* to the next key is skipped.                                             *)
NextValue(s, item) ==
  IF ~s.open THEN s
  ELSE IF s.cur.vals # <<>> /\ s.cur.vals[1].type # item.type THEN [s EXCEPT !.cur = Blank, !.open = FALSE]
  ELSE [s EXCEPT !.cur.vals = Append(@, item)]

Parse(message) ==
  LET step(s, item) == IF IsKey(item) THEN NextKey(s, item) ELSE NextValue(s, item)
      end == FoldLeft(step, [done |-> <<>>, cur |-> Blank, open |-> FALSE], message)
      last == Checked(end.cur)
  IN  IF Complete(last) THEN Append(end.done, last) ELSE end.done

-----------------------------------------------------------------------------
(* The slots of a map.  A key that names a slot has at most 15 characters. *)

SlotNames == <<"dst", "src", "src.1">>
SlotKey(slot, key) == Key(IF slot = "src.1" /\ key = "direction" THEN "directio" ELSE key, Plain, slot)

(* mpr_slot_add_props_to_msg, for the slots whose signal is the sender's. *)
Written(slot) ==
  IF slots[slot] = 0 THEN <<>>
  ELSE <<SlotKey(slot, "length"), Val("i", slots[slot]), SlotKey(slot, "type"), Val("c", 0),
         SlotKey(slot, "direction"), Val("s", slots[slot])>>
Message == FlattenSeq([i \in DOMAIN segments |-> <<segments[i].key>> \o segments[i].vals])
             \o (IF slots = <<>> THEN <<>> ELSE FlattenSeq([i \in DOMAIN SlotNames |-> Written(SlotNames[i])]))

(* mpr_msg_get_prop and mpr_slot_set_from_msg: 0 if there is none. *)
GetPropLoose(atoms, key, slot) == {i \in DOMAIN atoms : atoms[i].bits = {key}}
GetProp(atoms, key, slot) == {i \in DOMAIN atoms : atoms[i].bits = {key} /\ atoms[i].mods = {} /\ atoms[i].slot = {slot}}
Learned(atoms, key, slot) ==
  LET hits == GetProp(atoms, key, slot)
      first == CHOOSE i \in hits : \A j \in hits : i <= j
  IN  IF hits = {} THEN 0 ELSE atoms[first].vals[1].val

-----------------------------------------------------------------------------
Marks == {[mod |-> Plain, slot |-> NoSlot], [mod |-> "+", slot |-> NoSlot], [mod |-> "-", slot |-> NoSlot],
          [mod |-> Plain, slot |-> "dst"], [mod |-> Plain, slot |-> "src.1"]}
Values == {<<>>} \cup UNION {[1 .. n -> {Val("i", 1), Val("s", 1)}] : n \in 1 .. 2}

Init == segments = <<>> /\ slots = <<>>

(* Only an extra property is written without a value (it is a pointer),    *)
(* and behind it come other extra ones, which its bits do not change.      *)
AddSegment(key, mark, vals) ==
  /\ Len(segments) < MaxSegments /\ slots = <<>>
  /\ Clean /\ segments # <<>> =>
       \/ Last(segments).vals # <<>> \/ Last(segments).key.mod = "-"
       \/ Last(segments).key = Key("pointer", Plain, NoSlot) /\ Index(key) = "extra"
       \/ mark.mod # Plain
  /\ segments' = Append(segments, [key |-> Key(key, mark.mod, mark.slot), vals |-> vals])
  /\ UNCHANGED slots

(* mpr_map_send_state: behind the records of the table, which name no slot.*)
AddSlots(lens) ==
  /\ slots = <<>> /\ slots' = lens
  /\ Len(segments) <= MaxSegments - 1
  /\ \A i \in DOMAIN segments : segments[i].key.slot = NoSlot /\ segments[i].vals # <<>>
  /\ UNCHANGED segments

Next ==
  \/ \E key \in {"length", "max", "scope", "data", "pointer", "extra"}, mark \in Marks, vals \in Values :
       AddSegment(key, mark, vals)
  \/ \E lens \in [{"dst", "src", "src.1"} -> 0 .. 2] : AddSlots(lens)

Spec == Init /\ [][Next]_vars

-----------------------------------------------------------------------------
(* Each property that a peer wrote arrives as it was written, or not at    *)
(* all if it is none: whatever is in front of it or behind it, the values  *)
(* of another, a removal, a vector that was broken off.                    *)
Alone(s) == [key |-> s.key.key, bits |-> {Index(s.key.key)}, mods |-> {s.key.mod} \ {Plain},
             slot |-> {s.key.slot} \ {NoSlot}, vals |-> s.vals, typed |-> s.vals # <<>>]
Proper(s) ==
  IF s.vals = <<>> THEN s.key.mod = "-"
  ELSE /\ \A i \in DOMAIN s.vals : s.vals[i].type = s.vals[1].type
       /\ CASE s.key.key = "length" -> s.key.mod = Plain /\ s.vals = <<Val("i", 1)>>
            [] s.key.key = "max" -> s.vals[1].type = "i"
            [] s.key.key = "scope" -> s.vals[1].type = "s"
            [] s.key.key = "data" -> FALSE
            [] OTHER -> TRUE
AtomsRight ==
  slots = <<>> =>
    LET proper == SelectSeq(segments, Proper)
    IN  Parse(Message) = [i \in DOMAIN proper |-> Alone(proper[i])]

(* A slot of the map learns its own signal's length, and whether it is an  *)
(* input or an output; that however only of the first source.              *)
SlotsRight ==
  slots # <<>> =>
    \A s \in DOMAIN slots :
      /\ Learned(Parse(Message), "length", s) = slots[s]
      /\ s # "src.1" => Learned(Parse(Message), "direction", s) = slots[s]
=============================================================================
