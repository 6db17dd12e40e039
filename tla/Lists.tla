------------------------------- MODULE Lists -------------------------------
(***************************************************************************)
(* Object lists (src/src/mapper/list.c).  The objects of a graph are       *)
(* chained, new ones at the front.  A query is a header on the heap with   *)
(* the object it stands at and a condition, or two other queries whose     *)
(* conditions it combines; it is evaluated while one walks along, and      *)
(* freed by the step that finds nothing more, or by mpr_list_free; one     *)
(* that starts where there is no object is neither returned nor freed.     *)
(* Between any two steps of a program the network adds and removes         *)
(* objects, though not the one that a query stands at: who removes what it *)
(* found moves on first, as the loops of the library do.                   *)
(*                                                                         *)
(* chain   the objects                                                     *)
(* heap    the headers: kind, set (the objects that a leaf accepts), l and *)
(*         r, at; history: due, the objects that this walk should still    *)
(*         find, and seen, those it has found                              *)
(* mine    the headers that the program holds                              *)
(* fresh   objects that do not exist yet                                   *)
(* lost    history: the headers that nobody can free                       *)
(***************************************************************************)
EXTENDS Integers, Sequences, FiniteSets, Functions

CONSTANTS Objs,       \* objects, numbered in the order in which they appear
          Conditions, \* conditions, as the sets of objects that they accept
          MaxHeaders, \* bound: headers at a time
          MaxHeld     \* bound: lists that the program holds

VARIABLES chain, heap, mine, fresh, lost
vars == <<chain, heap, mine, fresh, lost>>

Ids == 1 .. MaxHeaders
None == 0
Present == Range(chain)
Pos(o) == CHOOSE i \in DOMAIN chain : chain[i] = o

-----------------------------------------------------------------------------
(* Headers.  The condition of a combined query asks both components, whose *)
(* own positions no longer matter.                                         *)

Freed == [kind |-> "freed"]
Live(h) == {i \in Ids : h[i].kind # "freed"}
Free(h) == CHOOSE i \in Ids \ Live(h) : \A j \in Ids \ Live(h) : i <= j
Room(n) == Cardinality(Ids \ Live(heap)) >= n

Ops == {"union", "isect", "diff"}
Components(h, i) == IF h[i].kind \in Ops THEN {h[i].l, h[i].r} ELSE {}
Below(h, i) ==   \* the header with its components, and theirs
  LET closed == {S \in SUBSET Live(h) : i \in S /\ \A k \in S : Components(h, k) \subseteq S}
  IN  {j \in Live(h) : \A S \in closed : j \in S}

Asked(f, h) ==   \* cmp_parallel_query, where f is what the components accept
  [j \in Ids |-> CASE h[j].kind = "freed" -> {}
                   [] h[j].kind = "leaf" -> h[j].set
                   [] h[j].kind = "union" -> f[h[j].l] \cup f[h[j].r]
                   [] h[j].kind = "isect" -> f[h[j].l] \cap f[h[j].r]
                   [] h[j].kind = "diff" -> f[h[j].l] \ f[h[j].r]]
Accepts(h, i) ==
  LET accepts[d \in 0 .. MaxHeaders] == IF d = 0 THEN [j \in Ids |-> {}] ELSE Asked(accepts[d - 1], h)
  IN  accepts[MaxHeaders][i]

FreeOne(h, i) == [h EXCEPT ![i] = Freed]
FreeAll(h, i) == LET B == Below(h, i) IN [j \in Ids |-> IF j \in B THEN Freed ELSE h[j]]

(* mpr_list_query_continuation, from position p on; a header that finds    *)
(* nothing is freed with its components.                                   *)
FromHere(h, i) == Pos(h[i].at)
Behind(h, i) == Pos(h[i].at) + 1
Continue(h, i, p) ==
  LET hits == {q \in p .. Len(chain) : chain[q] \in Accepts(h, i)}
      q == CHOOSE q \in hits : \A r \in hits : q <= r
  IN  IF hits = {} THEN FreeAll(h, i)
      ELSE [h EXCEPT ![i].at = chain[q], ![i].seen = Append(@, chain[q])]

(* mpr_list_start: from the first object on, if there is one. *)
Start(h, i) ==
  LET n == [h EXCEPT ![i].at = None, ![i].seen = <<>>, ![i].due = Accepts(h, i) \cap Present]
  IN  IF chain = <<>> THEN n ELSE Continue(n, i, 1)

Component(w) == [w EXCEPT !.at = None, !.seen = <<>>, !.due = {}]
Header(kind, set, l, r) == [kind |-> kind, set |-> set, l |-> l, r |-> r,
                            at |-> None, seen |-> <<>>, due |-> {}]

(* The program holds i, if the walk found anything. *)
Holds(h, i, others) ==
  /\ Cardinality(others) < MaxHeld
  /\ heap' = h
  /\ mine' = IF h[i].kind = "freed" \/ h[i].at = None THEN others ELSE others \cup {i}
  /\ lost' = IF h[i].kind # "freed" /\ h[i].at = None THEN lost \cup {i} ELSE lost

-----------------------------------------------------------------------------
Init == /\ chain = <<>> /\ fresh = Objs
        /\ heap = [i \in Ids |-> Freed] /\ mine = {} /\ lost = {}

(* mpr_list_add_item, mpr_list_remove_item and mpr_list_free_item. *)
Without(s, o) == LET k == CHOOSE k \in DOMAIN s : s[k] = o
                 IN  IF o \in Range(s) THEN SubSeq(s, 1, k - 1) \o SubSeq(s, k + 1, Len(s)) ELSE s

AddItem(o) == /\ o \in fresh /\ \A x \in fresh : o <= x
              /\ fresh' = fresh \ {o}
              /\ chain' = <<o>> \o chain
              /\ UNCHANGED <<heap, mine, lost>>

RemoveItem(o) ==
  /\ o \in Present
  /\ \A i \in mine : heap[i].at # o
  /\ chain' = Without(chain, o)
  /\ heap' = [i \in Ids |-> IF heap[i].kind = "freed" THEN Freed
                            ELSE [heap[i] EXCEPT !.due = @ \ {o}, !.seen = Without(@, o)]]
  /\ UNCHANGED <<mine, fresh, lost>>

(* mpr_list_new_query with mpr_list_start, as in mpr_graph_get_list.       *)
NewQuery(set) ==
  LET i == Free(heap)
  IN  /\ Room(1)
      /\ Holds(Start([heap EXCEPT ![i] = Header("leaf", set, None, None)], i), i, mine)
      /\ UNCHANGED <<chain, fresh>>

(* mpr_list_get_next. *)
GetNext(i) == /\ i \in mine
              /\ Holds(Continue(heap, i, Behind(heap, i)), i, mine \ {i})
              /\ UNCHANGED <<chain, fresh>>

(* mpr_list_free. *)
FreeList(i) == /\ i \in mine
               /\ heap' = FreeAll(heap, i)
               /\ mine' = mine \ {i}
               /\ UNCHANGED <<chain, fresh, lost>>

(* mpr_list_get_cpy: the copy has components of its own and goes on from   *)
(* where the original stands.  A combined query takes three headers, one   *)
(* of combined queries is not copied here.                                 *)
CopyShallow(h, i) == [h EXCEPT ![Free(h)] = h[i]]
Copy(h, i) ==
  LET c == Free(h)
      one == [h EXCEPT ![c] = h[i]]
      l == Free(one)
      two == [one EXCEPT ![l] = h[h[i].l], ![c].l = l]
      r == Free(two)
  IN  IF h[i].kind = "leaf" THEN one ELSE [two EXCEPT ![r] = h[h[i].r], ![c].r = r]
Flat(h, i) == \A j \in Components(h, i) : h[j].kind = "leaf"
GetCpy(i) == /\ i \in mine /\ Flat(heap, i)
             /\ Room(IF heap[i].kind = "leaf" THEN 1 ELSE 3)
             /\ Holds(Copy(heap, i), Free(heap), mine)
             /\ UNCHANGED <<chain, fresh>>

(* mpr_list_get_union, mpr_list_get_isect, mpr_list_get_diff: both lists   *)
(* become components, which the program no longer holds.                   *)
Combine(op, l, r) ==
  LET i == Free(heap)
  IN  /\ l \in mine /\ r \in mine /\ l # r /\ Room(1)
      /\ Holds(Start([heap EXCEPT ![i] = Header(op, {}, l, r),
                                  ![l] = Component(@), ![r] = Component(@)], i), i, mine \ {l, r})
      /\ UNCHANGED <<chain, fresh>>

(* mpr_list_filter of a query: its intersection with a new one. *)
Filter(l, set) ==
  LET r == Free(heap)
      h == [heap EXCEPT ![r] = Header("leaf", set, None, None)]
      i == Free(h)
  IN  /\ l \in mine /\ Room(2)
      /\ Holds(Start([h EXCEPT ![i] = Header("isect", {}, l, r), ![l] = Component(@)], i), i, mine \ {l})
      /\ UNCHANGED <<chain, fresh>>

(* mpr_list_get_idx: the walk starts again.  Only with the index of an     *)
(* item that is there: it frees a list that is shorter, which the program  *)
(* goes on holding.                                                        *)
GetIdx(i, n) ==
  LET first == Start(heap, i)
      found == IF n = 0 \/ first[i].kind = "freed" THEN first ELSE Continue(first, i, Behind(first, i))
  IN  /\ i \in mine
      /\ found[i].kind # "freed" /\ heap' = found
      /\ UNCHANGED <<chain, mine, fresh, lost>>

Next == \/ \E o \in Objs : AddItem(o) \/ RemoveItem(o)
        \/ \E set \in Conditions : NewQuery(set)
        \/ \E i \in mine : \/ GetNext(i) \/ FreeList(i) \/ GetCpy(i)
                           \/ \E n \in 0 .. 1 : GetIdx(i, n)
                           \/ \E op \in Ops, r \in mine : Combine(op, i, r)
                           \/ \E set \in Conditions : Filter(i, set)

Spec == Init /\ [][Next]_vars

-----------------------------------------------------------------------------
(* Who frees what: a step that ends a walk, a copy, a combined list.  Each *)
(* header on the heap belongs to exactly one list that the program holds,  *)
(* or to one that it cannot free: none will be freed twice, none is held   *)
(* that is gone, and only a walk that has nowhere to start is lost.        *)
Roots == mine \cup lost
OwnedOnce == /\ Roots \subseteq Live(heap) /\ \A i \in lost : heap[i].at = None
             /\ Live(heap) = UNION {Below(heap, i) : i \in Roots}
             /\ \A i, k \in Roots : i < k => Below(heap, i) \cap Below(heap, k) = {}

(* A walk that others interleave with additions and removals has found     *)
(* each object so far that it should have found and that is still there,   *)
(* in order and once, and stands at the last of them.                      *)
InOrder(s) == \A m, n \in DOMAIN s : m < n => Pos(s[m]) < Pos(s[n])
FindsAll ==
  \A i \in mine :
    LET w == heap[i]
    IN  /\ w.at \in Present
        /\ InOrder(w.seen)
        /\ Range(w.seen) = {o \in Present : o \in w.due /\ Pos(o) <= Pos(w.at)}
=============================================================================
