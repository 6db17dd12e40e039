------------------------------ MODULE Records ------------------------------
(***************************************************************************)
(* The records that a program keeps of devices, signals, links and maps    *)
(* (src/src/mapper/graph.c), and the second index of them that its router  *)
(* has (router.c): a map with an end here is in the slots of its local     *)
(* signals, and each of its slots has the link that its values take.       *)
(* Records point to each other; each handler that removes one has to       *)
(* remove what points to it, in the graph and in the router.               *)
(*                                                                         *)
(* orderly   others announce nothing of maps that have an end here, and a  *)
(*           link times out before the device behind it does               *)
(* devs, sigs, links   the records; a link is its set of devices           *)
(* maps      the records of maps: in the router or not, ready or not       *)
(* slots     the slots of the router: a local signal and a map             *)
(* count     num_maps of a link, in and out together: what decides on      *)
(*           pings                                                         *)
(***************************************************************************)
EXTENDS Integers, FiniteSets

CONSTANTS Here,      \* the device of this program
          Devs,      \* other devices
          Sigs,      \* signals
          DevOf,     \* the device of a signal
          Maps,      \* maps: records of src, a set of signals, and dst
          MaxCount   \* bound: num_maps

VARIABLES orderly, devs, sigs, links, maps, slots, count
vars == <<orderly, devs, sigs, links, maps, slots, count>>

Ends(m) == m.src \cup {m.dst}
Local(s) == DevOf[s] = Here
Touches(m) == \E s \in Ends(m) : Local(s)
Known == DOMAIN maps
LocalOnly(m) == \A s \in Ends(m) : Local(s)

-----------------------------------------------------------------------------
(* Records.  r is the whole of them: links, maps, slots, count. *)

Recs == [devs |-> devs, sigs |-> sigs, links |-> links, maps |-> maps, slots |-> slots, count |-> count]
Update(r) == /\ devs' = r.devs /\ sigs' = r.sigs /\ links' = r.links
             /\ maps' = r.maps /\ slots' = r.slots /\ count' = r.count
             /\ UNCHANGED orderly

Minus(f, S) == [x \in DOMAIN f \ S |-> f[x]]

(* The links that the slots of m have, once the router has it. *)
SlotLinks(r, m) ==
  IF ~r.maps[m].routed THEN {}
  ELSE IF LocalOnly(m) THEN {{Here}}
  ELSE {{Here, DevOf[s]} : s \in {s \in Ends(m) : ~Local(s)}}
Over(r, l) == {m \in DOMAIN r.maps : l \in SlotLinks(r, m)}

(* mpr_graph_add_sig and mpr_graph_add_link: with what they need. *)
AddSigs(r, S) == [r EXCEPT !.sigs = @ \cup S, !.devs = @ \cup {DevOf[s] : s \in S}]
AddLinks(r, L) == [r EXCEPT !.links = @ \cup L,
                            !.count = [l \in DOMAIN @ \cup L |-> IF l \in DOMAIN @ THEN @[l] ELSE 0]]

(* mpr_graph_add_map: signals first, then links between their devices,     *)
(* those of other devices too.                                             *)
AddMap(r, m) ==
  IF m \in DOMAIN r.maps THEN r
  ELSE LET n == AddLinks(AddSigs(r, Ends(m)), {{DevOf[s], DevOf[m.dst]} : s \in m.src})
       IN  [n EXCEPT !.maps = [x \in DOMAIN @ \cup {m} |->
                                 IF x = m THEN [routed |-> FALSE, ready |-> FALSE] ELSE @[x]]]

(* mpr_rtr_add_map.  A local signal gets a place for each of its maps.     *)
Stored(r, m) == r.slots \cup {<<s, m>> : s \in {s \in Ends(m) : Local(s)}}
Route(r, m) ==
  IF r.maps[m].routed THEN r
  ELSE LET n == [r EXCEPT !.maps[m].routed = TRUE, !.slots = Stored(r, m)]
       IN  AddLinks(n, SlotLinks(n, m))

(* mpr_rtr_remove_map with mpr_link_remove_map, for each map of S.  The    *)
(* count of a link is counted anew without the map, over the maps that the *)
(* graph has: it still has those of S, so that each of them leaves out     *)
(* itself only.  The link of a program to itself counts down.              *)
UnrouteOneKept(r, S) ==
  [r EXCEPT !.slots = {x \in @ : \A m \in S : x # <<m.dst, m>>}]
UnrouteUncounted(r, S) ==
  [r EXCEPT !.slots = {x \in @ : x[2] \notin S},
            !.count = [l \in DOMAIN @ |-> IF \E m \in S : l \in SlotLinks(r, m) THEN 0 ELSE @[l]]]
CountWithout(r, l, S) ==
  IF S = {} THEN r.count[l]
  ELSE IF l = {Here} THEN r.count[l] - Cardinality(S)
  ELSE Cardinality(Over(r, l)) - 1
Unroute(r, S) ==
  [r EXCEPT !.slots = {x \in @ : x[2] \notin S},
            !.count = [l \in DOMAIN @ |-> CountWithout(r, l, S \cap Over(r, l))]]

(* mpr_graph_remove_map, mpr_graph_remove_sig, mpr_graph_remove_link and   *)
(* mpr_graph_remove_dev.                                                   *)
RemoveMaps(r, S) == [r EXCEPT !.maps = Minus(@, S)]
RemoveSigsAlone(r, S) == [r EXCEPT !.sigs = @ \ S]
RemoveSigs(r, S) ==
  [RemoveMaps(r, {m \in DOMAIN r.maps : Ends(m) \cap S # {}}) EXCEPT !.sigs = @ \ S]
RemoveLinks(r, L) ==
  [RemoveMaps(r, UNION {Over(r, l) : l \in L}) EXCEPT !.links = @ \ L, !.count = Minus(@, L)]
RemoveDev(r, d) ==
  LET n == RemoveMaps(r, {m \in DOMAIN r.maps : \E s \in Ends(m) : DevOf[s] = d})
      o == RemoveLinks(n, {l \in n.links : d \in l})
  IN  [RemoveSigs(o, {s \in o.sigs : DevOf[s] = d}) EXCEPT !.devs = @ \ {d}]

(* mpr_rtr_remove_link. *)
UnrouteLink(r, l) == Unroute(r, Over(r, l))

-----------------------------------------------------------------------------
Init == /\ orderly \in BOOLEAN
        /\ devs = {Here}
        /\ sigs = {} /\ links = {} /\ slots = {}
        /\ maps = [m \in {} |-> 0] /\ count = maps

(* handler_dev and handler_sig for others, mpr_sig_new here. *)
LearnDev(d) == d \notin devs /\ Update([Recs EXCEPT !.devs = @ \cup {d}])
LearnSig(s) == s \notin sigs /\ Update(AddSigs(Recs, {s}))

(* handler_mapped, of a map between others. *)
LearnMap(m) == ~Touches(m) /\ m \notin Known /\ Update(AddMap(Recs, m))

(* _check_status, when all is known of a map. *)
Ready(r, m) == [r EXCEPT !.maps[m].ready = TRUE,
                         !.count = [l \in DOMAIN @ |-> IF l \in SlotLinks(r, m) THEN @[l] + 1 ELSE @[l]]]
CountsLow == \A l \in links : count[l] < MaxCount
GetReady(m) == /\ m \in Known /\ maps[m].routed /\ ~maps[m].ready
               /\ CountsLow
               /\ Update(Ready(Recs, m))

(* handler_map and handler_map_to.  Of local signals all is known. *)
Establish(m) == /\ Touches(m) /\ \A s \in Ends(m) : Local(s) => s \in sigs
                /\ m \notin Known /\ CountsLow
                /\ LET r == Route(AddMap(Recs, m), m)
                   IN  Update(IF LocalOnly(m) THEN Ready(r, m) ELSE r)

(* handler_unmap, and mpr_graph_cleanup of a map that was never completed. *)
Unmap(m) == /\ m \in Known /\ Touches(m)
            /\ Update(RemoveMaps(Unroute(Recs, {m}), {m}))
CleanUp(m) == /\ m \in Known /\ ~maps[m].ready
              /\ Update(RemoveMaps(IF maps[m].routed THEN Unroute(Recs, {m}) ELSE Recs, {m}))

(* handler_unmapped and handler_sig_removed: the graph only. *)
Unmapped(m) == /\ m \in Known /\ (orderly => ~maps[m].routed)
               /\ Update(RemoveMaps(Recs, {m}))
SigRemoved(s) == /\ s \in sigs /\ ~Local(s)
                 /\ orderly => \A m \in Known : maps[m].routed => s \notin Ends(m)
                 /\ Update(RemoveSigs(Recs, {s}))

(* mpr_sig_free. *)
FreeSig(s) == /\ s \in sigs /\ Local(s)
              /\ Update(RemoveSigs(Unroute(Recs, {m \in Known : <<s, m>> \in slots}), {s}))

(* handler_logout. *)
Logout(d) ==
  /\ d \in devs \ {Here}
  /\ LET l == {Here, d}
     IN  Update(RemoveDev(IF l \in links THEN RemoveLinks(UnrouteLink(Recs, l), {l}) ELSE Recs, d))

(* _check_dev_status. *)
ExpireDev(d) == /\ d \in devs \ {Here}
                /\ orderly => \A m \in Known : maps[m].routed => \A s \in Ends(m) : DevOf[s] # d
                /\ Update(RemoveDev(Recs, d))

(* mpr_net_maybe_send_ping: a link over which nothing is heard any more.   *)
ExpireLink(l) == /\ l \in links /\ l # {Here}
                 /\ Update(RemoveLinks(UnrouteLink(Recs, l), {l}))

Next == \/ \E d \in Devs : LearnDev(d) \/ Logout(d) \/ ExpireDev(d)
        \/ \E s \in Sigs : LearnSig(s) \/ SigRemoved(s) \/ FreeSig(s)
        \/ \E m \in Maps : \/ LearnMap(m) \/ Establish(m) \/ GetReady(m)
                           \/ Unmap(m) \/ CleanUp(m) \/ Unmapped(m)
        \/ \E l \in links : ExpireLink(l)

Spec == Init /\ [][Next]_vars

-----------------------------------------------------------------------------
(* A record that stays has what it points to: a map its signals, a signal  *)
(* its device, a link both devices, and a map in the router the links of   *)
(* its slots.  Nobody follows a pointer into a record that is gone.        *)
RecordsComplete ==
  /\ \A s \in sigs : DevOf[s] \in devs
  /\ \A l \in links : l \subseteq devs
  /\ \A m \in Known : Ends(m) \subseteq sigs /\ SlotLinks(Recs, m) \subseteq links

(* The slots of the router are those of the maps in the graph: what one    *)
(* index forgets, the other forgets in the same step.                      *)
SlotsLive == orderly => slots = {x \in Sigs \X Known : /\ Local(x[1]) /\ x[1] \in Ends(x[2])
                                                        /\ maps[x[2]].routed}

(* A link that a ready map needs has a count, so that it is pinged and     *)
(* does not time out: recounts on removal never miss a map.                *)
ReadyCounted == \A m \in Known : maps[m].ready => \A l \in SlotLinks(Recs, m) : count[l] > 0

(* network.c:677, "Only send pings if this link has associated maps,       *)
(* ensuring empty links are removed after the ping timeout." Not part of a *)
(* run: a map removed from the graph only leaves its slots and the count.  *)
EmptyNotPinged == orderly => \A l \in links : Over(Recs, l) = {} => count[l] <= 0
=============================================================================
