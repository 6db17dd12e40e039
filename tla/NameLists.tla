----------------------------- MODULE NameLists -----------------------------
(***************************************************************************)
(* The two lists of devices that an object carries and others replicate:   *)
(* the scopes of a map (src/src/mapper/map.c) and the linked devices of a  *)
(* device (device.c).  Both are arrays that are edited in place.  The end  *)
(* that is in charge announces its list; the other end removes what the    *)
(* message does not name and adds what it names.                           *)
(*                                                                         *)
(* kind        which of the two lists this behaviour is about              *)
(* own, copy   the arrays at the end in charge and at the other end        *)
(* wire        messages on their way to the other end                      *)
(***************************************************************************)
EXTENDS Integers, Sequences, FiniteSets, Functions

CONSTANTS Devs,      \* devices, all known to both ends
          MaxWire    \* bound: messages on their way

VARIABLES kind, own, copy, wire
vars == <<kind, own, copy, wire>>

All == 0    \* the scope that is no device: everything is in scope
Has(s, n) == \E i \in DOMAIN s : s[i] = n
First(s, n) == CHOOSE i \in DOMAIN s : s[i] = n /\ \A j \in 1 .. i - 1 : s[j] # n
Without(s, i) == SubSeq(s, 1, i - 1) \o SubSeq(s, i + 1, Len(s))
AddAll(s, msg, Add(_, _)) ==   \* what a message names, in its order
  LET f[k \in 0 .. Len(msg)] == IF k = 0 THEN s ELSE Add(f[k - 1], msg[k])
  IN  f[Len(msg)]

-----------------------------------------------------------------------------
(* Scopes. *)

AddScopeUnchecked(s, n) == Append(s, n)
AddScope(s, n) == IF Has(s, n) THEN s ELSE Append(s, n)

(* _remove_scope: the shift starts one too late, so the entry behind the   *)
(* one that was found goes, unless that was the last.                      *)
RemoveScope(s, n) ==
  LET i == First(s, n)
  IN  IF ~Has(s, n) THEN s ELSE Without(s, IF i < Len(s) THEN i + 1 ELSE i)

(* _update_scope: "all" is looked for in the first word of the message     *)
(* only and stays if it is not there.                                      *)
Missing(s, msg) == {i \in DOMAIN s : s[i] # All /\ ~Has(msg, s[i])}
Cut(s, msg) ==
  LET f[k \in 0 .. Len(s)] ==
        IF k = 0 THEN s
        ELSE LET miss == Missing(f[k - 1], msg)
             IN  IF miss = {} THEN f[k - 1]
                 ELSE RemoveScope(f[k - 1], f[k - 1][CHOOSE i \in miss : \A j \in miss : i <= j])
  IN  f[Len(s)]
UpdateAddsFirst(s, msg) == Cut(AddAll(s, msg, AddScope), msg)
UpdateScope(s, msg) == AddAll(Cut(s, msg), msg, AddScope)

(* _cmp_qry_scopes: the list that is announced names devices. *)
InScope(s, d) == Has(s, All) \/ Has(s, d)

-----------------------------------------------------------------------------
(* Links. *)

AddLink(s, n) == IF Has(s, n) THEN s ELSE Append(s, n)
RemoveLink(s, n) == IF Has(s, n) THEN Without(s, First(s, n)) ELSE s

(* mpr_dev_update_linked: the entry that moves up is not looked at. *)
Compact(s, msg) ==
  LET f[i \in 0 .. Len(s)] ==
        IF i = 0 THEN [kept |-> <<>>, skip |-> FALSE]
        ELSE IF f[i - 1].skip \/ Has(msg, s[i])
             THEN [kept |-> Append(f[i - 1].kept, s[i]), skip |-> FALSE]
             ELSE [kept |-> f[i - 1].kept, skip |-> TRUE]
  IN  f[Len(s)].kept
UpdateUnlessEmpty(s, msg) == IF msg = <<>> THEN s ELSE AddAll(Compact(s, msg), msg, AddLink)
UpdateLinked(s, msg) == AddAll(Compact(s, msg), msg, AddLink)

Linked(s, d) == Has(s, d)

-----------------------------------------------------------------------------
(* The scopes of a new map are the devices of its sources, which           *)
(* mpr_rtr_add_map takes at either end.                                    *)
Init == /\ kind \in {"scopes", "links"}
        /\ own \in IF kind = "links" THEN {<<>>} ELSE {s \in [1 .. 1 -> Devs] \cup [1 .. 2 -> Devs] : IsInjective(s)}
        /\ copy = own /\ wire = <<>>

(* A change at the end in charge, which announces its list then: a query   *)
(* over the devices it knows, in an order on which nothing here depends.   *)
InSomeOrder(D) == CHOOSE w \in [1 .. Cardinality(D) -> D] : IsInjective(w)
Word(P(_, _), s) == InSomeOrder({d \in Devs : P(s, d)})
Change(list, words) == /\ own' = list
                       /\ wire' = Append(wire, words)
                       /\ Len(wire) < MaxWire
                       /\ UNCHANGED <<kind, copy>>
Scopes(list) == kind = "scopes" /\ Change(list, Word(InScope, list))
Links(list) == kind = "links" /\ Change(list, Word(Linked, list))

(* mpr_map_set_from_msg at the end in charge: it looks at the property     *)
(* without its marks, so that it takes "+@scope" for "@scope", a new list. *)
SetScopes(list) == Scopes(UpdateScope(own, list))

(* mpr_map_add_scope: what it stages is no list of devices, for which      *)
(* mpr_record_add_to_msg writes "none".                                    *)
Staged(n) == <<>>
AddOneScope(n) == SetScopes(Staged(n))

(* mpr_dev_add_link and mpr_dev_remove_link, when links come and go. *)
AddOneLink(n) == Links(AddLink(own, n))
RemoveOneLink(n) == Links(RemoveLink(own, n))

(* The message arrives: mpr_map_set_from_msg, mpr_dev_set_from_msg. *)
Receive ==
  /\ wire # <<>>
  /\ copy' = IF kind = "scopes" THEN UpdateScope(copy, Head(wire)) ELSE UpdateLinked(copy, Head(wire))
  /\ wire' = Tail(wire)
  /\ UNCHANGED <<kind, own>>

Lists == {<<All>>} \cup UNION {[1 .. n -> Devs] : n \in 0 .. 2}
Next == \/ \E n \in Devs : AddOneScope(n)
        \/ \E list \in Lists : SetScopes(list)
        \/ \E n \in Devs : AddOneLink(n) \/ RemoveOneLink(n)
        \/ Receive

Spec == Init /\ [][Next]_vars

-----------------------------------------------------------------------------
(* Whatever the arrays went through, both ends let the same devices pass   *)
(* once the announcement has arrived: the removals of the update take      *)
(* entries with them that the message names, and its additions bring them  *)
(* back.                                                                   *)
SameScopes == kind = "scopes" /\ wire = <<>> => \A d \in Devs : InScope(own, d) = InScope(copy, d)

(* No device is twice in an array, where the second entry would outlive    *)
(* the removal of the first.                                               *)
NoneTwice == IsInjective(own) /\ IsInjective(copy)

(* A link that the device has is in the copy, and of those it no longer    *)
(* has each announcement removes at least every other one, though not all: *)
(* a copy that keeps a link too many has it only until the device          *)
(* announces itself again.                                                 *)
Stale(s, msg) == {i \in DOMAIN s : ~Has(msg, s[i])}
LinksConverge ==
  kind = "links" /\ wire # <<>> =>
    LET msg == Head(wire)
        then == UpdateLinked(copy, msg)
    IN  /\ Range(msg) \subseteq Range(then)
        /\ 2 * Cardinality(Stale(then, msg)) <= Cardinality(Stale(copy, msg))

(* mapper.h of mpr_map_add_scope: "After taking effect, this setting will  *)
(* cause instance updates originating at this device to be propagated      *)
(* across the map."                                                        *)
AddsScope == \A n \in Devs : kind = "scopes" /\ AddOneScope(n) => InScope(own', n)
=============================================================================
