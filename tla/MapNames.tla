------------------------------ MODULE MapNames ------------------------------
(***************************************************************************)
(* How a graph tells maps apart (src/src/mapper/network.c, graph.c,        *)
(* map.c).  A map is named by its sources, in alphabetical order, and its  *)
(* destination, and by an id that the destination's device chooses.  The   *)
(* destination announces the map with all its sources and each source's    *)
(* device with its own sources only, so that a graph that watches has to   *)
(* put a map of several sources together, and to find in it the one that   *)
(* its own program has asked for, which has no id yet.                     *)
(*                                                                         *)
(* recs    the records of the graph that watches; id 0 is one that its     *)
(*         program made                                                    *)
(* real    the maps at the destination, by id                              *)
(* asked   the words of /map messages, which may be lost, late or repeated *)
(* told    history: the maps that the destination has told this graph of   *)
(***************************************************************************)
EXTENDS Integers, Sequences, FiniteSets, FiniteSetsExt

CONSTANTS Sigs,        \* source signals, numbered in alphabetical order
          DeviceOf,    \* the device of each
          MaxMaps,     \* bound: maps at the destination
          MaxSources,  \* bound: sources of a map
          Disjoint     \* restricts what sources announce: see Receive

VARIABLES recs, real, asked, told
vars == <<recs, real, asked, told>>

Dst == 0   To == -1   From == -2   Props == -3       \* words beside the signals
SortedDown(S) == CHOOSE s \in [1 .. Cardinality(S) -> S] : \A i, j \in DOMAIN s : i < j => s[i] > s[j]
Sorted(S) ==                                         \* _sort_sigs
  CHOOSE s \in [1 .. Cardinality(S) -> S] : \A i, j \in DOMAIN s : i < j => s[i] < s[j]
Part(srcs, dev) == Sorted({s \in Range(srcs) : DeviceOf[s] = dev})

-----------------------------------------------------------------------------
(* The words of a message: mpr_map_send_state and parse_sig_names.         *)

Words(srcs, fromDst) == (IF fromDst THEN <<Dst, From>> \o srcs ELSE srcs \o <<To, Dst>>) \o <<Props>>
Refused == <<>>
ParseSigNames(words) ==
  LET stop == CHOOSE i \in DOMAIN words : words[i] = Props /\ \A j \in 1 .. i - 1 : words[j] # Props
      arrow == {i \in 2 .. stop - 2 : words[i] = To}
  IN  IF words[2] = From THEN SubSeq(words, 3, stop - 1)
      ELSE IF arrow = {} THEN Refused
      ELSE SubSeq(words, 1, Min(arrow) - 1)
Alphabetical(srcs) == \A i \in 1 .. Len(srcs) - 1 : srcs[i] < srcs[i + 1]

(* find_map, first by id, then by names, which a record of any id answers  *)
(* to; 0 or one record.                                                    *)
ById(id) == {r \in recs : id # 0 /\ r.id = id}
ByNames(srcs) == {r \in recs : r.srcs = srcs}
FindById(id, srcs) == ById(id)
Find(id, srcs) == IF ById(id) # {} THEN ById(id) ELSE ByNames(srcs)

(* mpr_graph_add_map for a record that has sources to learn; one that the  *)
(* program made is replaced by the record that has become its equal.       *)
Extended(r, srcs) == [r EXCEPT !.srcs = Sorted(Range(r.srcs) \cup Range(srcs))]
ReplaceOnly(r, new) == (recs \ {r}) \cup {new}
Replace(r, new) == ReplaceOnly(r, new) \ (IF new.id # 0 /\ new.srcs # r.srcs THEN {[id |-> 0, srcs |-> new.srcs]} ELSE {})

-----------------------------------------------------------------------------
Init == recs = {} /\ real = <<>> /\ asked = {} /\ told = {}

(* The program makes a map and pushes it: mpr_map_new, with the sources in *)
(* any order, and /map.  A record that is there already is used.           *)
MapNew(order) ==
  LET srcs == Sorted(Range(order))
      found == {r \in recs : Len(r.srcs) = Len(order) /\ Range(order) \subseteq Range(r.srcs)}
      new == [id |-> 0, srcs |-> srcs]
  IN  /\ found # {} \/ IsInjective(order)
      /\ recs' = IF found # {} THEN recs ELSE recs \cup {new}
      /\ asked' = asked \cup {Words(r.srcs, FALSE) : r \in IF found # {} THEN found ELSE {new}}
      /\ UNCHANGED <<real, told>>

(* handler_map at the destination: a map that has these sources already is *)
(* this one.                                                               *)
HandlerMap(words) ==
  LET srcs == ParseSigNames(words)
  IN  /\ words \in asked
      /\ srcs # Refused /\ Alphabetical(srcs)
      /\ \A i \in DOMAIN real : real[i] # srcs
      /\ Len(real) < MaxMaps /\ real' = Append(real, srcs)
      /\ UNCHANGED <<recs, asked, told>>

(* What the two ends tell whoever watches: at the end of the handshake,    *)
(* after changes, and on a subscription, so at any time.                   *)
Announced(id, by) == Words(IF by = "dst" THEN real[id] ELSE Part(real[id], by), by = "dst")

(* handler_mapped.  What is found by its names takes the id of the message *)
(* (mpr_map_set_from_msg); so a source's part of a new map is mistaken for *)
(* another map of just these sources, which Disjoint excludes.             *)
Receive(id, by) ==
  LET srcs == ParseSigNames(Announced(id, by))
      found == Find(id, srcs)
  IN  /\ srcs # <<>> /\ Alphabetical(srcs)
      /\ Disjoint => (by # "dst" /\ ById(id) = {} => \A r \in ByNames(srcs) : r.id = 0)
      /\ IF found = {} THEN recs' = recs \cup {[id |-> id, srcs |-> srcs]}
         ELSE \E r \in found :
                recs' = IF r.id = id /\ Len(r.srcs) < Len(srcs) THEN Replace(r, Extended(r, srcs))
                        ELSE Replace(r, [r EXCEPT !.id = id])
      /\ told' = IF by = "dst" THEN told \cup {id} ELSE told
      /\ UNCHANGED <<real, asked>>

Orders == UNION {[1 .. n -> Sigs] : n \in 1 .. MaxSources}
Next == \/ \E order \in Orders : MapNew(order)
        \/ \E words \in asked : HandlerMap(words)
        \/ \E id \in DOMAIN real, by \in {"dst"} \cup Range(DeviceOf) : Receive(id, by)

Spec == Init /\ [][Next]_vars

-----------------------------------------------------------------------------
(* Once the destination has told of a map, whatever its sources told       *)
(* before, or tell afterwards, and whatever the program asked for, the     *)
(* graph has one record of it, with its sources.                           *)
ToldRight == \A id \in told : {r \in recs : r.id = id \/ r.srcs = real[id]} = {[id |-> id, srcs |-> real[id]]}

(* Nobody can make a second map of the same sources: not by naming them in *)
(* another order, not by asking twice before the answer, nor through two   *)
(* programs.  And no message is refused for the order of its sources.      *)
OneMapEach == IsInjective([i \in DOMAIN real |-> Range(real[i])]) /\ \A words \in asked : Alphabetical(ParseSigNames(words))
=============================================================================
