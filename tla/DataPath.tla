------------------------------ MODULE DataPath ------------------------------
(***************************************************************************)
(* How values travel (src/src/mapper/signal.c, router.c, map.c, link.c,    *)
(* device.c).  A chain of three devices, each with one signal of one       *)
(* instance: map 1 leads from the output 1 to the input 2, map 2 from the  *)
(* input 2 on to the input 3.  A map is processed at its source or at its  *)
(* destination.  Updates mark slots and maps, releases are written into    *)
(* the bundle of a link at once, and a poll evaluates the marked maps and  *)
(* sends the bundles over TCP.                                             *)
(*                                                                         *)
(* setup   where the maps are processed, their scopes, and what the        *)
(*         applications do; fixed at the start                             *)
(* net     the record of all devices, on which the functions below work:   *)
(*   entry, val    the id map entries of a signal, the value of its        *)
(*                 instance                                                *)
(*   updated       lsig->updated_inst                                      *)
(*   sending, receiving, stale   the flags of a device (time_is_stale)     *)
(*   slot, pending, muted   of a map: the value in its source slot,        *)
(*                 map->updated                                            *)
(*   bundle        messages collected for a line, a map in one direction   *)
(*   gids, sets    counters: instances so far, values so far               *)
(* wire    the bundles on their way, by line                               *)
(***************************************************************************)
EXTENDS Integers, Sequences, FiniteSets

CONSTANTS Setups,      \* the chains under consideration
          MaxGid,      \* bound: instances the applications begin
          MaxSet,      \* bound: values they set
          MaxWire,     \* bound: bundles on their way on a line
          MaxEntries   \* bound: entries of a signal

VARIABLES setup, net, wire
vars == <<setup, net, wire>>

Sigs == 1 .. 3                  \* a signal and its device
Maps == 1 .. 2                  \* map k leads from signal k to signal k + 1
Down(k) == <<k, "down">>
Up(k) == <<k, "up">>
Lines == Maps \X {"down", "up"}
From(l) == IF l[2] = "down" THEN l[1] ELSE l[1] + 1
To(l) == IF l[2] = "down" THEN l[1] + 1 ELSE l[1]

ASSUME SetupsAssumption ==
  \A c \in Setups : /\ c.loc \in [Maps -> {"src", "dst"}]
                    /\ c.scope \in [Maps -> SUBSET Sigs]
                    /\ c.mutes \subseteq Maps /\ c.sets \subseteq {1, 2}
                    /\ c.prompt \subseteq Sigs

(* A global id names the device that began the instance; a value names the *)
(* instance it was set for.  Zero is what a slot holds that was reset.     *)
Gids == Sigs \X (1 .. MaxGid)
Zero == <<"zero">>
NoVal == <<"none">>
Values == Gids \X (1 .. MaxSet)
Release == <<"release">>

-----------------------------------------------------------------------------
(* The entries of a signal: at most one holds the instance ("held", or     *)
(* "ended" once the release of the other side arrived); the others were    *)
(* released here and wait for that release ("kept").                       *)

Entries(n, s) == DOMAIN n.entry[s]
Free == [gid |-> <<>>, st |-> "free"]
Holding(n, s) == {i \in Entries(n, s) : n.entry[s][i].st \in {"held", "ended"}}
Holder(n, s) == CHOOSE i \in Holding(n, s) : TRUE
GidOf(n, s) == n.entry[s][Holder(n, s)].gid
Holds(n, s, g) == Holding(n, s) # {} /\ GidOf(n, s) = g
EntriesOf(n, s, g) == {i \in Entries(n, s) : n.entry[s][i].st # "free" /\ n.entry[s][i].gid = g}

Activate(n, s, g) ==
  LET free == {i \in Entries(n, s) : n.entry[s][i].st = "free"}
      e == [gid |-> g, st |-> "held"]
  IN  [n EXCEPT !.entry[s] = IF free = {} THEN Append(@, e)
                             ELSE [@ EXCEPT ![CHOOSE i \in free : \A j \in free : i <= j] = e],
                !.val[s] = NoVal]

-----------------------------------------------------------------------------
(* mpr_rtr_process_sig, its two halves.                                    *)

InScope(k, g) == g[1] \in setup.scope[k]
Add(n, l, g, v) == [n EXCEPT !.bundle[l] = Append(@, [gid |-> g, val |-> v])]

ProcessReleaseToSrc(n, s) ==
  LET g == GidOf(n, s)
      m == IF s # 3 /\ setup.loc[s] = "dst" /\ InScope(s, g) THEN Add(n, Down(s), g, Release) ELSE n
  IN  [m EXCEPT !.sending[s] = TRUE]
ProcessReleaseQuiet(n, s) ==
  IF s # 3 /\ InScope(s, GidOf(n, s)) THEN Add(n, Down(s), GidOf(n, s), Release) ELSE n
ProcessRelease(n, s) ==
  LET g == GidOf(n, s)
      quiet == n.entry[s][Holder(n, s)].st = "ended"
      in == IF s = 1 THEN n
            ELSE LET r == [n EXCEPT !.slot[s - 1] = IF setup.loc[s - 1] = "dst" THEN Zero ELSE @]
                 IN  IF quiet \/ ~InScope(s - 1, g) THEN r ELSE Add(r, Up(s - 1), g, Release)
      out == IF s = 3 THEN in
             ELSE LET r == [in EXCEPT !.slot[s] = IF setup.loc[s] = "src" THEN Zero ELSE @]
                  IN  IF InScope(s, g) THEN Add(r, Down(s), g, Release) ELSE r
  IN  [out EXCEPT !.sending[s] = TRUE]

ProcessValue(n, s, v) ==
  LET g == GidOf(n, s)
      m == [n EXCEPT !.sending[s] = TRUE]
  IN  IF s = 3 \/ ~InScope(s, g) THEN m
      ELSE IF setup.loc[s] = "dst" THEN Add(m, Down(s), g, v)
      ELSE [m EXCEPT !.slot[s] = v, !.pending[s] = TRUE]

(* mpr_sig_release_inst_internal. *)
ReleaseInst(n, s) ==
  LET h == Holder(n, s)
      e == n.entry[s][h]
      sent == ProcessRelease(n, s)
  IN  [sent EXCEPT !.updated[s] = TRUE,
                   !.entry[s][h] = IF e.st = "ended" \/ e.gid[1] = s THEN Free
                                   ELSE [@ EXCEPT !.st = "kept"],
                   !.val[s] = NoVal]

-----------------------------------------------------------------------------
(* mpr_map_send and mpr_link_process_bundles, in _process_outgoing_maps.   *)

MapSendBlind(n, k) ==
  IF ~n.pending[k] \/ setup.loc[k] # "src" \/ n.muted[k] THEN n
  ELSE LET g == IF Holding(n, k) = {} THEN <<k, n.gids>> ELSE GidOf(n, k)
       IN  [Add(n, Down(k), g, n.slot[k]) EXCEPT !.pending[k] = FALSE]
MapSend(n, k) ==
  IF ~n.pending[k] \/ setup.loc[k] # "src" \/ n.muted[k] THEN n
  ELSE LET m == IF Holding(n, k) = {} THEN n ELSE Add(n, Down(k), GidOf(n, k), n.slot[k])
       IN  [m EXCEPT !.pending[k] = FALSE]

Flushed(n, s) ==
  LET m == IF s \in Maps THEN MapSend(n, s) ELSE n
      mine == {l \in Lines : From(l) = s /\ m.bundle[l] # <<>>}
  IN  IF ~n.sending[s] THEN [net |-> n, sent |-> [l \in {} |-> <<>>]]
      ELSE [net |-> [m EXCEPT !.sending[s] = FALSE,
                              !.bundle = [l \in Lines |-> IF l \in mine THEN <<>> ELSE @[l]]],
            sent |-> [l \in mine |-> m.bundle[l]]]

(* A flush of device s in the course of an operation f of it. *)
WithFlush(s, f) ==
  /\ wire' = [l \in Lines |-> IF l \in DOMAIN f.sent THEN Append(wire[l], f.sent[l]) ELSE wire[l]]
  /\ \A l \in Lines : Len(wire'[l]) <= MaxWire

-----------------------------------------------------------------------------
(* mpr_map_receive, in _process_incoming_maps: the result is the value of  *)
(* the instance; an input that is not marked as updated passes it on.      *)
MapReceive(n, k) ==
  LET s == k + 1
      v == n.slot[k]
      set == [n EXCEPT !.val[s] = v, !.pending[k] = FALSE]
  IN  IF Holding(n, s) = {} THEN [n EXCEPT !.pending[k] = FALSE]
      ELSE IF n.updated[s] THEN set
      ELSE ProcessValue([set EXCEPT !.updated[s] = TRUE], s, v)

(* The loop takes every map with an update, incoming or not. *)
Visit(n, s, k) ==
  IF ~n.pending[k] \/ n.muted[k] THEN n
  ELSE IF k = s - 1 /\ setup.loc[k] = "dst" THEN MapReceive(n, k)
  ELSE IF k = s /\ setup.loc[k] = "src" THEN [n EXCEPT !.pending[k] = FALSE]
  ELSE n

-----------------------------------------------------------------------------
(* mpr_dev_handler for a message of an instance g to signal s.  An app in  *)
(* setup.prompt releases the instance when its handler hears of a release. *)

OnRelease(n, s, i) ==
  LET heard == [n EXCEPT !.entry[s][i].st = "ended"]
      done == IF s \in setup.prompt THEN ReleaseInst(heard, s) ELSE heard
  IN  IF s > 1 /\ setup.loc[s - 1] = "dst"
      THEN [done EXCEPT !.slot[s - 1] = Zero] ELSE done

OnValueUnmarked(n, s, v) ==
  IF setup.loc[s - 1] = "dst" THEN [n EXCEPT !.slot[s - 1] = v, !.pending[s - 1] = TRUE]
  ELSE [n EXCEPT !.val[s] = v]
OnValue(n, s, v) ==
  LET k == s - 1
      set == [n EXCEPT !.val[s] = v]
  IN  IF setup.loc[k] = "dst"
      THEN [n EXCEPT !.slot[k] = v, !.pending[k] = TRUE, !.receiving[s] = TRUE]
      ELSE IF n.updated[s] THEN set ELSE ProcessValue(set, s, v)

HandlerAnyone(n, s, m) ==
  IF s = 1 \/ m.val = Release THEN n
  ELSE IF Holding(n, s) = {} THEN OnValue(Activate(n, s, m.gid), s, m.val) ELSE OnValue(n, s, m.val)
Handler(n, s, m) ==
  LET found == EntriesOf(n, s, m.gid)
      i == CHOOSE j \in found : \A k \in found : j <= k
      st == IF found = {} THEN "none" ELSE n.entry[s][i].st
      bound == Len(n.entry[s]) < MaxEntries \/ \E j \in Entries(n, s) : n.entry[s][j].st = "free"
  IN  CASE st = "none" /\ m.val # Release /\ s > 1 /\ Holding(n, s) = {} /\ bound ->
               OnValue(Activate(n, s, m.gid), s, m.val)
        [] st = "kept" /\ m.val = Release -> [n EXCEPT !.entry[s][i] = Free]
        [] st = "held" /\ m.val = Release -> OnRelease(n, s, i)
        [] st = "held" /\ m.val # Release /\ s > 1 -> OnValue(n, s, m.val)
        [] OTHER -> n

HandleAll(n, s, b) ==
  LET f[i \in 0 .. Len(b)] == IF i = 0 THEN n ELSE Handler(f[i - 1], s, b[i])
  IN  f[Len(b)]

-----------------------------------------------------------------------------
Init ==
  /\ setup \in Setups
  /\ net = [entry |-> [s \in Sigs |-> <<Free>>], val |-> [s \in Sigs |-> NoVal],
            updated |-> [s \in Sigs |-> FALSE], sending |-> [s \in Sigs |-> FALSE],
            receiving |-> [s \in Sigs |-> FALSE], stale |-> [s \in Sigs |-> FALSE],
            slot |-> [k \in Maps |-> Zero], pending |-> [k \in Maps |-> FALSE],
            muted |-> [k \in Maps |-> FALSE], bundle |-> [l \in Lines |-> <<>>],
            gids |-> 0, sets |-> 0]
  /\ wire = [l \in Lines |-> <<>>]

(* mpr_sig_set_value.  An input is only set while it has no instance that  *)
(* waits for its release: its id map would be taken over (see Instances).  *)
Set(n, s) ==
  LET new == Holding(n, s) = {}
      g == IF new THEN <<s, n.gids + 1>> ELSE GidOf(n, s)
      held == IF new THEN [Activate(n, s, g) EXCEPT !.gids = @ + 1] ELSE n
      v == <<g, n.sets + 1>>
  IN  ProcessValue([held EXCEPT !.val[s] = v, !.updated[s] = TRUE, !.sets = @ + 1], s, v)
SetValue(s) ==
  LET f == IF net.stale[s] THEN Flushed(net, s) ELSE [net |-> net, sent |-> [l \in {} |-> <<>>]]
  IN  /\ s \in setup.sets
      /\ \A i \in Entries(net, s) : net.entry[s][i].st \notin {"kept", "ended"}
      /\ net.sets < MaxSet
      /\ Holding(net, s) = {} => net.gids < MaxGid
      /\ net' = Set([f.net EXCEPT !.stale[s] = FALSE], s)
      /\ WithFlush(s, f)
      /\ UNCHANGED setup

(* mpr_sig_release_inst. *)
ReleaseValue(s) ==
  /\ Holding(net, s) # {}
  /\ net' = ReleaseInst(net, s)
  /\ UNCHANGED <<setup, wire>>

(* mpr_dev_poll, and mpr_dev_set_time. *)
PollOut(s) ==
  LET f == Flushed(net, s)
  IN  /\ net.sending[s] \/ net.stale[s]
      /\ net' = [f.net EXCEPT !.stale[s] = FALSE]
      /\ WithFlush(s, f)
      /\ UNCHANGED setup

UpdateMaps(s) ==
  LET f == Flushed(net, s)
  IN  /\ s \in setup.sets /\ ~net.stale[s]
      /\ net' = [f.net EXCEPT !.stale[s] = TRUE]
      /\ WithFlush(s, f)
      /\ UNCHANGED setup

(* The maps are visited in the order of the graph's list. *)
PollIn(s) ==
  LET n == [net EXCEPT !.receiving[s] = FALSE]
      mine == {s - 1, s} \cap Maps
  IN  /\ net.receiving[s]
      /\ \E first \in mine : LET rest == mine \ {first}
                                 m == Visit(n, s, first)
                             IN  net' = IF rest = {} THEN m ELSE Visit(m, s, CHOOSE k \in rest : TRUE)
      /\ UNCHANGED <<setup, wire>>

(* lo_servers_recv_noblock: the messages of a bundle, one after another. *)
Recv(l) ==
  /\ wire[l] # <<>>
  /\ net' = HandleAll(net, To(l), Head(wire[l]))
  /\ wire' = [wire EXCEPT ![l] = Tail(@)]
  /\ UNCHANGED setup

(* The property "muted" of a map is changed, at both ends of it. *)
Mute(k) ==
  /\ k \in setup.mutes
  /\ net' = [net EXCEPT !.muted[k] = ~@]
  /\ UNCHANGED <<setup, wire>>

Next == \/ \E s \in Sigs : SetValue(s) \/ ReleaseValue(s) \/ PollOut(s) \/ PollIn(s) \/ UpdateMaps(s)
        \/ \E l \in Lines : Recv(l)
        \/ \E k \in Maps : Mute(k)

Spec == Init /\ [][Next]_vars

(* Applications poll their devices, and TCP delivers: weak fairness of     *)
(* these actions, with the conditions under which they are enabled.        *)
MustSend(s) == (net.sending[s] \/ net.stale[s]) /\ \A l \in Lines : From(l) = s => Len(wire[l]) < MaxWire
FairSpec ==
  /\ Spec
  /\ \A s \in Sigs : /\ []<>~MustSend(s) \/ []<><<PollOut(s)>>_vars
                     /\ []<>~net.receiving[s] \/ []<><<PollIn(s)>>_vars
  /\ \A l \in Lines : []<>(wire[l] = <<>>) \/ []<><<Recv(l)>>_vars

-----------------------------------------------------------------------------
(* Reset slots, ids that go to the next instance and marks that outlive    *)
(* both: the value an instance has in the chain is one that was set for    *)
(* this instance, never for the one before it in its place, and never the  *)
(* zero of a slot that was reset.  Not so behind a map that is processed   *)
(* at its source, if instances of others come and go there: mpr_map_send   *)
(* gives what is in the slot the id of the instance the signal has by then.*)
Exact(s) == s = 3 => setup.loc[2] = "dst"
SameInstance ==
  \A s \in Sigs : /\ Cardinality(Holding(net, s)) <= 1
                  /\ Exact(s) /\ Holding(net, s) # {} /\ net.val[s] # NoVal =>
                       net.val[s] # Zero /\ net.val[s][1] = GidOf(net, s)

(* What a line carries: the bundles on their way and the one being filled. *)
Parts(l) == Append(wire[l], net.bundle[l])

(* mpr_rtr_process_sig writes a release into the bundle before the poll    *)
(* writes the update that was pending: no value follows the release of its *)
(* instance on the line of map 1, whose source has instances of its own    *)
(* only, else the destination would take it for a new one that nobody will *)
(* end.                                                                    *)
NothingAfterRelease ==
  LET c == Parts(Down(1))
  IN  \A i, j \in DOMAIN c : \A p \in DOMAIN c[i], q \in DOMAIN c[j] :
        (i < j \/ (i = j /\ p < q)) /\ c[i][p].val = Release => c[j][q].gid # c[i][p].gid

(* "After taking effect, this setting will cause instance updates          *)
(* originating at this device to be blocked from propagating across the    *)
(* map", mpr_map_remove_scope in mapper.h.  But _is_map_in_scope is asked  *)
(* when a signal changes, and not when its map is evaluated.               *)
ScopeKept ==
  \A l \in Lines : \A i \in DOMAIN Parts(l) :
    \A p \in DOMAIN Parts(l)[i] : InScope(l[1], Parts(l)[i][p].gid)

(* dev->sending: nothing waits that no poll will send. *)
PendingIsFlagged ==
  \A s \in Sigs : (\/ \E l \in Lines : From(l) = s /\ net.bundle[l] # <<>>
                   \/ s \in Maps \ setup.mutes /\ setup.loc[s] = "src" /\ net.pending[s])
                     => net.sending[s]

(* Together: what bundles hold is in order, and will be sent.              *)
BundlesRight == NothingAfterRelease /\ PendingIsFlagged

(* What a signal ended, ends at every input that its instance reached, by  *)
(* way of inputs that pass it on (whose applications release what ended).  *)
Orphan(s) == Holding(net, s) # {} /\ ~Holds(net, GidOf(net, s)[1], GidOf(net, s))
InstanceEnds == \A s \in 2 .. 3 : []<>(setup.prompt = Sigs => ~Orphan(s))

(* The last value that is set at signal 1 arrives, unless its instance     *)
(* ends at one of the two sides, or signal 2 is busy with another one.     *)
Arrived == net.val[2] = net.val[1] \/ Holding(net, 2) = {} \/ GidOf(net, 2) # GidOf(net, 1)
LastArrives ==
  \A n \in 1 .. MaxSet :
    (setup.sets = {1} /\ setup.mutes = {} /\ \E g \in Gids : net.val[1] = <<g, n>>)
      ~> ((\A g \in Gids : net.val[1] # <<g, n>>) \/ Arrived)
=============================================================================
