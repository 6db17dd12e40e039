----------------------------- MODULE Structures -----------------------------
(***************************************************************************)
(* The parts that the other modules take for granted, side by side: a      *)
(* history buffer, a property table, two clocks, a time stamp, the records *)
(* of the graph, an array of names, the names of maps, a list of objects   *)
(* under queries. Each is a module of its own; "which" picks one at the   *)
(* start, and the variables v1 to v7 are then those of that module, in its *)
(* order.                                                                  *)
(***************************************************************************)
EXTENDS Integers, FiniteSets

CONSTANTS MaxMem, MaxInst, MaxSamples,                                \* ValueBuffer
          Keys, Vals, AppRemoves, EditSets, EditRemoves, MaxWire,     \* Properties
          Peers, Ahead, Timeout, MaxDelay, MaxId, MaxTime,            \* Clocks
          Radix,                                                       \* Times
          Here, Devs, Sigs, DevOf, Maps, MaxCount,                    \* Records
          Others, MaxNews,                                            \* NameLists
          Sources, SourceOf, MaxReal, MaxSources,                     \* MapNames
          Objs, Conditions, MaxHeaders, MaxHeld                       \* Lists

ASSUME SizesAssumption == MaxMem \in Nat \ {0}
\* A key is set by the editor or removed by someone, not both: a mark may stay on a row
\* that is set (see FoundIfSet).
ASSUME TableAssumption ==
  Keys \subseteq Int /\ 0 \notin Vals /\ EditSets \cap (AppRemoves \cup EditRemoves) = {}
ASSUME ClocksAssumption ==
  /\ \A p \in Peers : \E q \in Peers : q # p /\ Peers = {p, q}
  /\ Ahead \in [Peers -> Int] /\ Timeout \in Int /\ MaxDelay \in Nat
ASSUME RadixAssumption == Radix \in Nat \ {0} /\ Radix % 2 = 0
ASSUME MapsAssumption == \A m \in Maps : m.src \subseteq Sigs /\ m.dst \in Sigs
ASSUME NamesAssumption == IsFiniteSet(Others) /\ 0 \notin Others
\* With three devices ToldRight does not hold: the parts of one map together may be
\* another map's sources.
ASSUME SourcesAssumption ==
  /\ Sources \subseteq Nat \ {0}
  /\ \A r, s, t \in Sources : SourceOf[r] = SourceOf[s] \/ SourceOf[s] = SourceOf[t] \/ SourceOf[t] = SourceOf[r]
ASSUME ListsAssumption == Objs \subseteq Int \ {0} /\ Conditions \subseteq SUBSET Objs /\ MaxHeaders \in Nat

VARIABLES which, v1, v2, v3, v4, v5, v6, v7
vars == <<which, v1, v2, v3, v4, v5, v6, v7>>
Idle == "idle"

Buf == INSTANCE ValueBuffer WITH slot <- v1, v <- v2, hist <- v3, count <- v4
Tbl == INSTANCE Properties WITH own <- v1, copy <- v2, staged <- v3, toCopy <- v4, toOwn <- v5,
         want <- v6, told <- v7
Clk == INSTANCE Clocks WITH t <- v1, clk <- v2, linked <- v3, wire <- v4, delay <- v5
Tim == INSTANCE Times WITH t <- v1
Rec == INSTANCE Records WITH orderly <- v1, devs <- v2, sigs <- v3, links <- v4, maps <- v5,
         slots <- v6, count <- v7
Nam == INSTANCE NameLists WITH Devs <- Others, MaxWire <- MaxNews,
         kind <- v1, own <- v2, copy <- v3, wire <- v4
Mpn == INSTANCE MapNames WITH Sigs <- Sources, DeviceOf <- SourceOf, MaxMaps <- MaxReal, Disjoint <- TRUE,
         recs <- v1, real <- v2, asked <- v3, told <- v4
Lst == INSTANCE Lists WITH chain <- v1, heap <- v2, mine <- v3, fresh <- v4, lost <- v5

From5 == <<v5, v6, v7>>
From6 == <<v6, v7>>
Idle6 == v6 = Idle /\ v7 = Idle
Idle5 == v5 = Idle /\ Idle6

Init ==
  \/ which = "buffer" /\ Buf!Init /\ Idle5
  \/ which = "table" /\ Tbl!Init
  \/ which = "clocks" /\ Clk!Init /\ Idle6
  \/ which = "time" /\ Tim!Init /\ v2 = Idle /\ v3 = Idle /\ v4 = Idle /\ Idle5
  \/ which = "records" /\ Rec!Init
  \/ which = "names" /\ Nam!Init /\ Idle5
  \/ which = "mapnames" /\ Mpn!Init /\ Idle5
  \/ which = "list" /\ Lst!Init /\ Idle6

Next ==
  /\ UNCHANGED which
  /\ \/ which = "buffer" /\ Buf!Next /\ UNCHANGED From5
     \/ which = "table" /\ Tbl!Next
     \/ which = "clocks" /\ Clk!Next /\ UNCHANGED From6
     \/ which = "time" /\ Tim!Next /\ UNCHANGED <<v2, v3, v4, From5>>
     \/ which = "records" /\ Rec!Next
     \/ which = "names" /\ Nam!Next /\ UNCHANGED From5
     \/ which = "mapnames" /\ Mpn!Next /\ UNCHANGED From5
     \/ which = "list" /\ Lst!Next /\ UNCHANGED From6

Spec == Init /\ [][Next]_vars

-----------------------------------------------------------------------------
(* The properties of the parts, stated and explained there, by what they   *)
(* are about.                                                              *)

(* Memory: a sample k steps back is the k-th latest one of this instance   *)
(* since its buffer has its size; behind those are only older samples of   *)
(* the same instance, and zeros, however often it was resized and reset.   *)
StorageRight == which = "buffer" => Buf!HistoryRight

(* Copies: a table stays sorted, is the dictionary it stands for whenever  *)
(* marks are cleaned up, and its copy holds what was last announced; both  *)
(* ends of a map let the same devices pass once the announcement has       *)
(* arrived, no device is twice in an array, and an announcement halves the *)
(* links that the copy has too many.                                       *)
CopiesRight == /\ which = "table" => Tbl!Searchable /\ Tbl!IsDictionary /\ Tbl!CopyCatchesUp
               /\ which = "names" => Nam!SameScopes /\ Nam!NoneTwice /\ Nam!LinksConverge

(* Time: sums, differences and shifts of time stamps carry and borrow, the *)
(* sign of a comparison is right for the times that OrderRight names, and  *)
(* for no others; a round of pings measures what these two pings took, and *)
(* the offset is wrong by what one way takes longer than the other.        *)
ClocksRight == /\ which = "time" => Tim!ArithmeticRight /\ Tim!OrderRight
               /\ which = "clocks" => Clk!LatencyRight /\ Clk!OffsetClose

(* The graph: every record has the records it points to, the slots of the  *)
(* router are those of its maps, a link that a ready map needs is pinged;  *)
(* there is one record of a map that the graph was told of, with its       *)
(* sources, and no two maps have the same.                                 *)
GraphRight == /\ which = "records" => Rec!RecordsComplete /\ Rec!SlotsLive /\ Rec!ReadyCounted
              /\ which = "mapnames" => Mpn!ToldRight /\ Mpn!OneMapEach

(* Lists: a header of a list belongs to exactly one list that is held, or  *)
(* that started on nothing, and a walk finds what it should, once, while   *)
(* others add and remove.                                                  *)
ListsRight == which = "list" => Lst!OwnedOnce /\ Lst!FindsAll
=============================================================================
