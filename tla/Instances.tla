----------------------------- MODULE Instances -----------------------------
(***************************************************************************)
(* The instances of the signals of one device and the device's id maps     *)
(* (src/src/mapper/signal.c, device.c).  A signal reserves instances.  An  *)
(* instance becomes active when the application or a message names it, and *)
(* the signal then keeps an entry that ties the instance to an id map, the *)
(* pair of a local id (LID) and a global id (GID).  Id maps belong to the  *)
(* device and are shared by its signals; two counters say how often one is *)
(* referred to, and it returns to a reserve list when both are zero.       *)
(*                                                                         *)
(* setup   the signals of the device and who uses them, fixed at the start *)
(* dev     the record of the device, on which every function below works   *)
(* ended   history: <<s, g>> when the application released the instance of *)
(*         g at s and the release of its sender has not been handled       *)
(* lent    history: a message has given back a reference that was not its  *)
(*         own, see Lends                                                  *)
(***************************************************************************)
EXTENDS Integers, Sequences, FiniteSets

CONSTANTS Setups,       \* the devices under consideration
          NumInst,      \* instances that an instanced signal reserves
          MaxMaps,      \* bound: id maps that are in use at a time
          MaxGid,       \* bound: global ids the device hands out
          MaxEntries    \* bound: entries of a signal (MAX_INSTANCES is 128)

VARIABLES setup, dev, ended, lent
vars == <<setup, dev, ended, lent>>

ASSUME SetupsAssumption ==
  \A c \in Setups : /\ c.inputs \cap c.outputs = {}
                    /\ c.plain \subseteq c.inputs \cup c.outputs
                    /\ c.senders \in [c.inputs -> SUBSET {g \in Nat : g > MaxGid}]
                    /\ c.direct \subseteq c.inputs /\ c.upstream \subseteq c.outputs
                    /\ c.remove \in {"never", "idle", "any"}
                    /\ c.steal \in {"none", "oldest", "newest", "overflow"}
ASSUME BoundsAssumption == {NumInst, MaxMaps, MaxGid, MaxEntries} \subseteq Nat

Sigs == setup.inputs \cup setup.outputs
Plain(s) == s \in setup.plain
None == -2              \* a null pointer, or no instance
DefaultId == -1         \* MPR_DEFAULT_INST, the only id of a plain signal

Least(S) == CHOOSE i \in S : \A j \in S : i <= j
First(S) == IF S = {} THEN None ELSE Least(S)

-----------------------------------------------------------------------------
(* Instances of signal s: a function of their index; lsig->inst is kept    *)
(* sorted by id.                                                           *)

Insts(d, s) == DOMAIN d.inst[s]
FindInstById(d, s, id) == {k \in Insts(d, s) : d.inst[s][k].id = id}
Idle(d, s) == {k \in Insts(d, s) : ~d.inst[s][k].active}
Rank(d, s, k) == Cardinality({j \in Insts(d, s) : d.inst[s][j].id < d.inst[s][k].id})
AtRank(d, s, r) == CHOOSE k \in Insts(d, s) : Rank(d, s, k) = r

(* The first idle instance takes the id that is asked for, the array is    *)
(* sorted again, and the instance at the old place is returned.            *)
ReservedInst(d, s, id) ==
  LET k == CHOOSE j \in Idle(d, s) : \A i \in Idle(d, s) : Rank(d, s, j) <= Rank(d, s, i)
      e == IF id = None THEN d ELSE [d EXCEPT !.inst[s][k].id = id]
  IN  IF Idle(d, s) = {} THEN [dev |-> d, inst |-> None]
      ELSE [dev |-> e, inst |-> AtRank(e, s, Rank(d, s, k))]

-----------------------------------------------------------------------------
(* Id maps: d.map is the memory they live in, d.active and d.reserve are   *)
(* the lists, newest first.                                                *)

Newest(d, places) == IF places = {} THEN None ELSE d.active[Least(places)]
ByLID(d, id) == Newest(d, {p \in DOMAIN d.active : d.map[d.active[p]].lid = id})
ByGID(d, g) == Newest(d, {p \in DOMAIN d.active : d.map[d.active[p]].gid = g})

AddIdMap(d, id, g, grefs) ==
  LET m == IF d.reserve = <<>> THEN Len(d.map) + 1 ELSE d.reserve[1]
      r == [lid |-> id, gid |-> IF g = None THEN d.count + 1 ELSE g, lref |-> 1, gref |-> grefs]
  IN  [d EXCEPT !.map = IF m > Len(@) THEN Append(@, r) ELSE [@ EXCEPT ![m] = r],
                !.active = <<m>> \o @,
                !.reserve = IF @ = <<>> THEN @ ELSE Tail(@),
                !.count = IF g = None THEN @ + 1 ELSE @]

RemoveIdMap(d, m) ==
  LET p == First({q \in DOMAIN d.active : d.active[q] = m})
  IN  IF p = None THEN d
      ELSE [d EXCEPT !.active = SubSeq(@, 1, p - 1) \o SubSeq(@, p + 1, Len(@)),
                     !.reserve = <<m>> \o @]
Unused(d, m) == d.map[m].lref = 0 /\ d.map[m].gref = 0

LIDIncref(d, m) == [d EXCEPT !.map[m].lref = @ + 1]
GIDIncref(d, m) == [d EXCEPT !.map[m].gref = @ + 1]
Less(n) == IF n = 0 THEN 0 ELSE n - 1
LIDDecref(d, m) == LET e == [d EXCEPT !.map[m].lref = Less(@)]
                   IN  IF Unused(e, m) THEN RemoveIdMap(e, m) ELSE e
GIDDecref(d, m) == LET e == [d EXCEPT !.map[m].gref = Less(@)]
                   IN  IF Unused(e, m) THEN RemoveIdMap(e, m) ELSE e

-----------------------------------------------------------------------------
(* The entries of a signal.  by records who made the entry, the others are *)
(* the code's: map, instance, RELEASED_LOCALLY, RELEASED_REMOTELY.         *)

FreeEntry == [map |-> None, inst |-> None, rl |-> FALSE, rr |-> FALSE, by |-> "app"]
Entries(d, s) == DOMAIN d.entry[s]

EntryOfLID(d, s, id) == First({i \in Entries(d, s) :
                                 d.entry[s][i].inst # None /\ d.map[d.entry[s][i].map].lid = id})
EntryOfGIDHeld(d, s, g) == First({i \in Entries(d, s) :
                                 d.entry[s][i].inst # None /\ d.map[d.entry[s][i].map].gid = g})
EntryOfGID(d, s, g) == First({i \in Entries(d, s) :
                                 d.entry[s][i].map # None /\ d.map[d.entry[s][i].map].gid = g})

(* _init_inst and _add_idmap: the instance is the newest now (order lists  *)
(* the active ones by their creation time), the first free entry is used.  *)
AddEntry(d, s, k, m, by) ==
  LET free == {i \in Entries(d, s) : d.entry[s][i].map = None}
      e == [map |-> m, inst |-> k, rl |-> FALSE, rr |-> FALSE, by |-> by]
  IN  [d EXCEPT !.inst[s][k].active = TRUE,
                !.order[s] = Append(SelectSeq(@, LAMBDA x : x # k), k),
                !.entry[s] = IF free = {} THEN Append(@, e) ELSE [@ EXCEPT ![Least(free)] = e]]

(* mpr_sig_release_inst_internal (the messages it sends belong to the data *)
(* path).                                                                  *)
ReleaseEntryHeld(d, s, i) ==
  LET x == d.entry[s][i]
  IN  IF x.inst = None THEN d
      ELSE LIDDecref([d EXCEPT !.inst[s][x.inst].active = FALSE], x.map)
ReleaseEntry(d, s, i) ==
  LET x == d.entry[s][i]
      e == LIDDecref(d, x.map)
      y == IF Unused(e, x.map) \/ s \in setup.outputs \/ x.rr
           THEN [x EXCEPT !.inst = None, !.map = None] ELSE [x EXCEPT !.inst = None, !.rl = TRUE]
  IN  IF x.inst = None THEN d
      ELSE [e EXCEPT !.inst[s][x.inst].active = FALSE, !.order[s] = SelectSeq(@, LAMBDA k : k # x.inst),
                     !.entry[s][i] = y]

(* mpr_sig_release_inst: entries the sender has released may be released. *)
ReleaseInst(d, s, id) ==
  LET i == EntryOfLID(d, s, id)
  IN  IF Plain(s) \/ i = None \/ d.entry[s][i].rl THEN d ELSE ReleaseEntry(d, s, i)

(* The instance that is stolen first: the handler of the signal is told    *)
(* its id, and may release it.  Upon an overflow event it may release any. *)
Victims(d, s) ==
  LET live == {i \in Entries(d, s) : d.entry[s][i].inst # None}
      Age(i) == CHOOSE p \in DOMAIN d.order[s] : d.order[s][p] = d.entry[s][i].inst
      pick == CASE setup.steal = "oldest" -> {i \in live : \A j \in live : Age(i) <= Age(j)}
                [] setup.steal = "newest" -> {i \in live : \A j \in live : Age(i) >= Age(j)}
                [] setup.steal = "overflow" -> live
                [] OTHER -> {}
  IN  {d.map[d.entry[s][i].map].lid : i \in pick} \cup {None}

-----------------------------------------------------------------------------
(* mpr_sig_get_idmap_with_LID with activate set; v is what the handler     *)
(* releases when there is no instance left.                                *)

ClaimLID(d, s, id, m) ==
  LET found == FindInstById(d, s, id)
      r == IF found # {} THEN [dev |-> d, inst |-> CHOOSE k \in found : TRUE]
           ELSE ReservedInst(d, s, id)
      shared == LIDIncref(r.dev, m)
      new == AddIdMap(r.dev, id, None, 0)
  IN  IF r.inst = None THEN d
      ELSE IF m = None THEN AddEntry(new, s, r.inst, new.active[1], "app")
      ELSE AddEntry(shared, s, r.inst, m, "app")

CanClaimLID(d, s, id) == FindInstById(d, s, id) # {} \/ Idle(d, s) # {}

ActivateLID(d, s, id, v) ==
  LET m == ByLID(d, id)
      after == IF v = None THEN d ELSE ReleaseInst(d, s, v)
  IN  IF EntryOfLID(d, s, id) # None THEN d
      ELSE IF CanClaimLID(d, s, id) THEN ClaimLID(d, s, id, m)
      ELSE ClaimLID(after, s, id, m)

(* mpr_sig_get_idmap_with_GID with activate set.  An instance that is      *)
(* found active is not taken; the second attempt only looks for the same.  *)
ClaimNew(d, s, g) ==
  LET r == ReservedInst(d, s, None)
      new == AddIdMap(r.dev, r.dev.inst[s][r.inst].id, g, 1)
  IN  IF r.inst = None THEN d ELSE AddEntry(new, s, r.inst, new.active[1], "net")

ClaimKnownUncounted(d, s, m, again) ==
  LET found == FindInstById(d, s, d.map[m].lid)
      k == CHOOSE k \in found : TRUE
      e == AddEntry(d, s, k, m, "net")
  IN  IF found = {} \/ d.inst[s][k].active THEN d ELSE LIDIncref(e, m)
ClaimKnown(d, s, m, again) ==
  LET found == FindInstById(d, s, d.map[m].lid)
      r == IF found # {} THEN [dev |-> d, inst |-> CHOOSE k \in found : TRUE]
           ELSE IF again THEN [dev |-> d, inst |-> None]
           ELSE ReservedInst(d, s, d.map[m].lid)
      e == AddEntry(r.dev, s, r.inst, m, "net")
  IN  IF r.inst = None THEN d
      ELSE IF r.dev.inst[s][r.inst].active THEN r.dev
      ELSE GIDIncref(LIDIncref(e, m), m)

ActivateGIDAlone(d, s, g, v) ==
  IF EntryOfGID(d, s, g) # None THEN d ELSE ClaimNew(d, s, g)
ActivateGID(d, s, g, v) ==
  LET m == ByGID(d, g)
      full == FindInstById(d, s, d.map[m].lid) = {} /\ Idle(d, s) = {}
      try == IF m = None THEN ClaimNew(d, s, g) ELSE ClaimKnown(d, s, m, FALSE)
      after == IF v = None THEN try ELSE ReleaseInst(try, s, v)
      retry == IF m = None THEN ClaimNew(after, s, g) ELSE ClaimKnown(after, s, m, TRUE)
  IN  IF EntryOfGID(d, s, g) # None THEN d
      ELSE IF EntryOfGID(try, s, g) # None THEN try
      ELSE IF (m # None /\ full) \/ setup.steal = "none" THEN try
      ELSE retry

-----------------------------------------------------------------------------
InstIds(s) == IF Plain(s) THEN {0} ELSE 0 .. NumInst - 1
NewSig(s) == [k \in 1 .. Cardinality(InstIds(s)) |-> [id |-> k - 1, active |-> FALSE]]
SigsOf(c) == c.inputs \cup c.outputs

Init ==
  /\ setup \in Setups
  /\ dev = [inst |-> [s \in Sigs |-> NewSig(s)],
            order |-> [s \in Sigs |-> <<>>],
            entry |-> [s \in Sigs |-> <<FreeEntry>>],
            map |-> <<>>, active |-> <<>>, reserve |-> <<>>, count |-> 0]
  /\ ended = {}
  /\ lent = FALSE

Bounded(d) == /\ Len(d.map) <= MaxMaps
              /\ d.count <= MaxGid
              /\ \A s \in Sigs : Len(d.entry[s]) <= MaxEntries

(* The application sets a value of, or activates, an instance of an output.*)
SetValue(s, id) ==
  /\ s \in setup.outputs /\ Insts(dev, s) # {}
  /\ \E v \in Victims(dev, s) : dev' = ActivateLID(dev, s, IF Plain(s) THEN DefaultId ELSE id, v)
  /\ Bounded(dev')
  /\ UNCHANGED <<setup, ended, lent>>

GidAt(d, s, i) == d.map[d.entry[s][i].map].gid

(* The application releases an instance of an output or of an input. *)
Release(s, id) ==
  LET i == EntryOfLID(dev, s, id)
  IN  /\ dev' = ReleaseInst(dev, s, id)
      /\ ended' = IF i # None /\ dev'.entry[s][i].rl
                  THEN ended \cup {<<s, GidAt(dev, s, i)>>} ELSE ended
      /\ UNCHANGED <<setup, lent>>

(* mpr_dev_handler with a global id and a value. *)
RemoteUpdate(s, g) ==
  LET i == EntryOfGID(dev, s, g)
  IN  /\ i = None /\ Insts(dev, s) # {}
      /\ \E v \in Victims(dev, s) :
           LET j == IF v = None THEN None ELSE EntryOfLID(dev, s, v)
           IN  /\ dev' = ActivateGID(dev, s, g, v)
               /\ ended' = IF j # None /\ dev'.entry[s][j].rl
                           THEN ended \cup {<<s, GidAt(dev, s, j)>>} ELSE ended
      /\ Bounded(dev')
      /\ UNCHANGED <<setup, lent>>

(* mpr_dev_handler without a global id: the first entry is used, and made  *)
(* from the first instance when it has none.                               *)
PlainUpdate(s) ==
  /\ Insts(dev, s) # {} /\ dev.entry[s][1].inst = None
  /\ dev' = ActivateLID(dev, s, IF Plain(s) THEN DefaultId
                                ELSE dev.inst[s][AtRank(dev, s, 0)].id, None)
  /\ Bounded(dev')
  /\ UNCHANGED <<setup, ended, lent>>

(* A reference is given up for an entry that the device made for itself,   *)
(* and so took none: the one that goes, if there is one, is that of the    *)
(* signal whose sender made the id.                                        *)
Lends(d, s, i) == d.entry[s][i].by = "app" /\ d.map[d.entry[s][i].map].gref > 0

(* mpr_dev_handler with a global id and no value. *)
RemoteRelease(s, g) ==
  LET i == EntryOfGID(dev, s, g)
      x == dev.entry[s][i]
      less == GIDDecref(dev, x.map)
      marked == GIDDecref([dev EXCEPT !.entry[s][i].rr = TRUE], x.map)
      cleared == LIDDecref(marked, x.map)
  IN  /\ i # None /\ ~x.rr
      /\ dev' = IF x.rl THEN [less EXCEPT !.entry[s][i] = FreeEntry]
                ELSE IF Plain(s)
                THEN [cleared EXCEPT !.entry[s][i] = FreeEntry, !.inst[s][x.inst].active = FALSE, !.order[s] = <<>>]
                ELSE marked
      /\ ended' = ended \ {<<s, g>>}
      /\ lent' = (lent \/ Lends(dev, s, i))
      /\ UNCHANGED setup

(* mpr_sig_reserve_inst for one more instance, which gets the lowest       *)
(* unused id.                                                              *)
ReserveInst(s) ==
  LET id == Least({n \in 0 .. NumInst : FindInstById(dev, s, n) = {}})
      k == Least(1 .. NumInst + 1 \ Insts(dev, s))
  IN  /\ ~Plain(s) /\ dev.entry[s] # <<>> /\ Cardinality(Insts(dev, s)) < NumInst
      /\ dev' = [dev EXCEPT !.inst[s] = [j \in Insts(dev, s) \cup {k} |->
                   IF j = k THEN [id |-> id, active |-> FALSE] ELSE @[j]]]
      /\ UNCHANGED <<setup, ended, lent>>

(* mpr_sig_remove_inst: an active instance is released first, but its      *)
(* place among the instances is taken for its place among the entries.     *)
RemoveInst(s, id) ==
  \E k \in FindInstById(dev, s, id) :
    LET i == Rank(dev, s, k) + 1
        d == IF dev.inst[s][k].active /\ i \in Entries(dev, s) THEN ReleaseEntry(dev, s, i) ELSE dev
    IN  /\ ~Plain(s)
        /\ setup.remove = "any" \/ (setup.remove = "idle" /\ ~dev.inst[s][k].active)
        /\ dev' = [d EXCEPT !.inst[s] = [j \in Insts(d, s) \ {k} |-> @[j]]]
        /\ UNCHANGED <<setup, ended, lent>>

(* mpr_sig_free gives up the references of the active instances, and       *)
(* mpr_sig_free_internal, which it gets to last, releases each again.      *)
DropEntry(d, s, i) == IF d.entry[s][i].inst = None THEN d ELSE LIDDecref(d, d.entry[s][i].map)
Dropped(d, s) ==
  LET Each(Op(_, _, _), d0) == LET f[n \in 0 .. Len(d.entry[s])] ==
                                     IF n = 0 THEN d0 ELSE Op(f[n - 1], s, n)
                               IN  f[Len(d.entry[s])]
  IN  Each(ReleaseEntry, Each(DropEntry, d))
FreeSig(s) ==
  /\ dev.entry[s] # <<>>
  /\ setup.remove = "any" \/ (setup.remove = "idle" /\ Insts(dev, s) = Idle(dev, s))
  /\ dev' = [Dropped(dev, s) EXCEPT !.inst[s] = <<>>, !.order[s] = <<>>, !.entry[s] = <<>>]
  /\ ended' = {e \in ended : e[1] # s}
  /\ UNCHANGED <<setup, lent>>

(* The ids that a message may carry: those of the device and of the others.*)
Gids == (1 .. MaxGid) \cup UNION {setup.senders[s] : s \in setup.inputs}

Next ==
  \/ \E s \in Sigs, id \in 0 .. NumInst - 1 : SetValue(s, id) \/ Release(s, id) \/ RemoveInst(s, id)
  \/ \E s \in Sigs : ReserveInst(s) \/ FreeSig(s)
  \/ \E s \in setup.inputs : \E g \in setup.senders[s] : RemoteUpdate(s, g) \/ RemoteRelease(s, g)
  \/ \E s \in setup.upstream : \E g \in Gids : RemoteRelease(s, g)
  \/ \E s \in setup.direct : PlainUpdate(s)

Spec == Init /\ [][Next]_vars

-----------------------------------------------------------------------------
(* mpr_dev_LID_decref, mpr_dev_GID_decref: an id map is in use exactly as  *)
(* long as somebody refers to it, and its two counters are exact: one for  *)
(* each entry with an instance, and one for each entry made for a remote   *)
(* id whose release has not come.  So no entry ever names an id map that   *)
(* went back to the reserve and may be given to another instance.  It ends *)
(* with the first reference that is lent: mpr_dev_handler gives one up for *)
(* a release at an output too, where only the device has made entries.     *)
Uses(d, m) == {u \in UNION {{s} \X Entries(d, s) : s \in Sigs} : d.entry[u[1]][u[2]].map = m}
Holding(d, m) == {u \in Uses(d, m) : d.entry[u[1]][u[2]].inst # None}
Awaiting(d, m) == {u \in Uses(d, m) : d.entry[u[1]][u[2]].by = "net" /\ ~d.entry[u[1]][u[2]].rr}
InUse(d) == {d.active[p] : p \in DOMAIN d.active}
RefsExact ==
  ~lent => \A m \in DOMAIN dev.map :
    IF m \in InUse(dev)
    THEN /\ dev.map[m].lref = Cardinality(Holding(dev, m))
         /\ dev.map[m].gref = Cardinality(Awaiting(dev, m))
         /\ Uses(dev, m) # {}
    ELSE Uses(dev, m) = {}

(* _find_inst_by_id, _reserved_inst: an active instance has one entry of   *)
(* its signal, an idle one none, and no entry holds an instance that was   *)
(* freed.  mpr_dev_get_idmap_by_GID before mpr_dev_add_idmap: the signals  *)
(* of the device agree on the local id of a remote instance.  An update    *)
(* reaches one owner, the same one at every signal.                        *)
OneOwner ==
  /\ \A s \in Sigs :
       /\ \A k \in Insts(dev, s) : Cardinality({i \in Entries(dev, s) : dev.entry[s][i].inst = k})
                                     = (IF dev.inst[s][k].active THEN 1 ELSE 0)
       /\ \A i \in Entries(dev, s) : dev.entry[s][i].inst \in {None} \cup Insts(dev, s)
  /\ \A p, q \in DOMAIN dev.active :
       dev.map[dev.active[p]].gid = dev.map[dev.active[q]].gid => p = q

(* RELEASED_LOCALLY: what the application has released does not come back  *)
(* with the next update of the same remote instance, whatever is stolen,   *)
(* given to other instances and released at either end since, as long as   *)
(* no reference was lent: the entry that keeps the mark may else name an   *)
(* id map that is another instance's by now.                               *)
ReleasedStays ==
  ~lent => \A e \in ended : \A i \in Entries(dev, e[1]) :
    dev.entry[e[1]][i].inst # None => GidAt(dev, e[1], i) # e[2]
=============================================================================
