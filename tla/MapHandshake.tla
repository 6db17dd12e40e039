---------------------------- MODULE MapHandshake ----------------------------
(***************************************************************************)
(* One map from a signal of device "src" to a signal of device "dst", each  *)
(* in a process of its own, and an administrator that asks for it, changes  *)
(* it and removes it over the bus.                                         *)
(*                                                                         *)
(* /map goes to the destination, which adds the map, gives it an id and     *)
(* sends /mapTo to the source as soon as it knows the way (the link).  Who  *)
(* gets to know type and length of the other signal while its link is known *)
(* has a map that is ready, and says /mapped; /mapped makes a map that is   *)
(* ready active.  Whoever removes it sends /unmap to the peer.             *)
(*                                                                         *)
(* All these messages are datagrams.  What two peers send each other is     *)
(* received in order, and so is what an administrator sends on the bus, but *)
(* bus and peer are separate sockets.                                      *)
(***************************************************************************)
EXTENDS Naturals, Sequences

CONSTANTS
    Expr,       \* expressions, all of them valid
    Default,    \* the one the source takes when none is asked for
    Past,       \* those that refer to earlier output (y{-n}): for the destination
    CanRename,  \* a signal may be freed and made again
    LinkBusy,   \* other maps keep the link between the devices alive
    MaxCalls,   \* bound on requests of the administrator
    MaxLost,    \* bound on lost messages
    MaxRestart  \* bound on restarts of devices

Side == {"src", "dst"}
Other(p) == IF p = "src" THEN "dst" ELSE "src"
NoExpr == "-"

ASSUME ExprAssumption == Past \subseteq Expr /\ NoExpr \notin Expr /\ Default \in Expr \ Past
ASSUME SwitchAssumption == CanRename \in BOOLEAN /\ LinkBusy \in BOOLEAN
ASSUME BoundAssumption == MaxCalls \in Nat /\ MaxLost \in Nat /\ MaxRestart \in Nat

VARIABLES
    map,        \* map[p]: the record of the map in the graph of p
    link,       \* link[p]: "none", "new", "known", or "stale" (the peer restarted)
    meta,       \* meta[p]: p knows type and length of the signal of its peer
    sig,        \* sig[p]: p has its signal
    mesh,       \* mesh[p]: messages under way to p from its peer
    bus,        \* bus[p]: messages under way to p from the bus
    nextId,     \* generator of map ids
    calls,      \* requests made
    lost,       \* messages lost
    restarts    \* restarts

vars == <<map, link, meta, sig, mesh, bus, nextId, calls, lost, restarts>>
env == <<calls, lost, restarts>>

\* map->status: staged with its count down (2 is MPR_STATUS_STAGED, 1
\* MPR_STATUS_EXPIRED) and the bits it has of METADATA_OK, ready, or active.
Stage == {"none", "staged", "ready", "active"}

\* Id 0 stands for none.
Map == [stage : Stage, count : 1 .. 2, known : SUBSET {"meta", "link"},
        id : Nat, expr : Expr \cup {NoExpr}]
NoMap == [stage |-> "none", count |-> 2, known |-> {}, id |-> 0, expr |-> NoExpr]

Msg == [cmd : {"map", "mapTo", "mapped", "unmap", "mod"}, id : Nat, expr : Expr \cup {NoExpr}]

TypeOK ==
    /\ map \in [Side -> Map]
    /\ link \in [Side -> {"none", "new", "known", "stale"}]
    /\ meta \in [Side -> BOOLEAN]
    /\ sig \in [Side -> BOOLEAN]
    /\ mesh \in [Side -> Seq(Msg)]
    /\ bus \in [Side -> Seq(Msg)]
    /\ nextId \in Nat
    /\ calls \in 0 .. MaxCalls
    /\ lost \in 0 .. MaxLost
    /\ restarts \in 0 .. MaxRestart

Init ==
    /\ map = [p \in Side |-> NoMap]
    /\ link = [p \in Side |-> IF LinkBusy THEN "known" ELSE "none"]
    /\ meta \in [Side -> BOOLEAN]
    /\ sig = [p \in Side |-> TRUE]
    /\ mesh = [p \in Side |-> <<>>]
    /\ bus = [p \in Side |-> <<>>]
    /\ nextId = 1
    /\ calls = 0 /\ lost = 0 /\ restarts = 0

------------------------------------------------------------------------------
\* What a process does with its record.

Known(p) == map[p].stage # "none"
Working(m) == m.stage \in {"ready", "active"}
Reaches(l) == l \in {"known", "stale"}

\* mpr_graph_get_obj by id, and where an id is not known or not given by names.
FoundById(p, msg) == Known(p) /\ (msg.id = 0 \/ msg.id = map[p].id)

\* find_map with ADD, mpr_graph_add_map and mpr_rtr_add_map: the record that p goes
\* on with.  The destination gives a new one its id.
Entered(p, msg) ==
    IF Known(p) THEN map[p]
    ELSE [NoMap EXCEPT !.stage = "staged", !.id = IF p = "dst" THEN nextId ELSE msg.id]

\* mpr_map_set_from_msg.
Set(m, msg) ==
    [m EXCEPT !.id = IF msg.id = 0 THEN @ ELSE msg.id,
              !.expr = IF msg.expr = NoExpr THEN @ ELSE msg.expr]

\* Seeded bug: the link is not asked for.
CheckedUnlinked(p, m, l, known) ==
    IF m.stage = "staged" /\ known
    THEN [m EXCEPT !.stage = "ready", !.expr = IF p = "src" /\ @ = NoExpr THEN Default ELSE @]
    ELSE m

\* _check_status, with the link l of the map and whether the peer's type and
\* length are known.  Without an expression the source takes the default.
Checked(p, m, l, known) ==
    LET k == m.known \cup (IF known THEN {"meta"} ELSE {})
                     \cup (IF Reaches(l) THEN {"link"} ELSE {})
    IN  IF m.stage # "staged" THEN m
        ELSE IF k # {"meta", "link"} THEN [m EXCEPT !.known = k]
        ELSE [m EXCEPT !.known = k, !.stage = "ready",
                       !.expr = IF p = "src" /\ @ = NoExpr THEN Default ELSE @]

\* mpr_map_send_state.
Message(cmd, m) == [cmd |-> cmd, id |-> m.id, expr |-> m.expr]

\* A message goes out over link l: nowhere if the peer has restarted since.
Over(l, cmd, m) == IF l = "known" THEN <<Message(cmd, m)>> ELSE <<>>

------------------------------------------------------------------------------
\* Handlers.  Each gives what p has after the message: its record, link, whether
\* it knows the signal of its peer, the generator of ids, and what it sends there.

After(m, l, known, next, out) ==
    [map |-> m, link |-> l, meta |-> known, nextId |-> next, out |-> out]
Ignored(p) == After(map[p], link[p], meta[p], nextId, <<>>)

\* handler_map_mod: the destination is in charge of expressions that refer to
\* earlier output, the source of the others.
InCharge(e) == IF e \in Past THEN "dst" ELSE "src"

OnMod(p, msg) ==
    LET m == Set(map[p], [msg EXCEPT !.id = 0]) IN
    IF FoundById(p, msg) /\ map[p].stage = "active" /\ msg.expr # NoExpr /\ p = InCharge(msg.expr)
    THEN After(m, link[p], meta[p], nextId, Over(link[p], "mapped", m))
    ELSE Ignored(p)

\* mpr_graph_add_link, and the generator of ids after Entered.
Linked(p) == IF link[p] = "none" THEN "new" ELSE link[p]
NextAfter(p) == IF p = "dst" /\ ~ Known(p) THEN nextId + 1 ELSE nextId

\* handler_map, at the destination only.
OnMap(p, msg) ==
    LET m == Checked(p, Set(Entered(p, msg), msg), Linked(p), meta[p]) IN
    IF p = "src" \/ ~ sig[p] THEN Ignored(p)
    ELSE IF map[p].stage = "active" THEN OnMod(p, msg)
    ELSE After(m, Linked(p), meta[p], NextAfter(p), Over(Linked(p), "mapTo", m))

\* handler_map_to.
OnMapTo(p, msg) ==
    LET e == Entered(p, msg)
        m == IF e.stage = "active" THEN e ELSE Checked(p, Set(e, msg), Linked(p), TRUE)
    IN  IF ~ sig[p] THEN Ignored(p)
        ELSE After(m, Linked(p), meta[p] \/ e.stage # "active", NextAfter(p),
                   IF Working(m) THEN Over(link[p], "mapped", m) ELSE <<>>)

\* Seeded bug: the side that becomes active does not tell the other.
OnMappedSilent(p, msg) ==
    LET m == Checked(p, Set(map[p], msg), link[p], TRUE)
    IN  IF ~ Known(p) THEN Ignored(p)
        ELSE After([m EXCEPT !.stage = IF @ = "ready" THEN "active" ELSE @],
                   link[p], TRUE, nextId, <<>>)

\* handler_mapped.
OnMapped(p, msg) ==
    LET m == Checked(p, Set(map[p], msg), link[p], TRUE)
        a == [m EXCEPT !.stage = "active"]
    IN  IF ~ Known(p) THEN Ignored(p)
        ELSE IF m.stage = "ready" THEN After(a, link[p], TRUE, nextId, Over(link[p], "mapped", a))
        ELSE After(m, link[p], TRUE, nextId, <<>>)

\* handler_unmap: the peer is told, if the way is known.
OnUnmap(p, msg) ==
    IF FoundById(p, msg)
    THEN After(NoMap, link[p], meta[p], nextId, Over(link[p], "unmap", map[p]))
    ELSE Ignored(p)

Handled(p, msg) ==
    CASE msg.cmd = "map" -> OnMap(p, msg)
      [] msg.cmd = "mapTo" -> OnMapTo(p, msg)
      [] msg.cmd = "mapped" -> OnMapped(p, msg)
      [] msg.cmd = "unmap" -> OnUnmap(p, msg)
      [] msg.cmd = "mod" -> OnMod(p, msg)

Become(p, r) ==
    /\ map' = [map EXCEPT ![p] = r.map]
    /\ link' = [link EXCEPT ![p] = r.link]
    /\ meta' = [meta EXCEPT ![p] = r.meta]
    /\ nextId' = r.nextId

\* A message from the peer, and one from the bus.
Receive(p) ==
    /\ mesh[p] # <<>>
    /\ LET r == Handled(p, Head(mesh[p])) IN
         /\ Become(p, r)
         /\ mesh' = [mesh EXCEPT ![p] = Tail(@), ![Other(p)] = @ \o r.out]
    /\ UNCHANGED <<sig, bus, env>>

ReceiveBus(p) ==
    /\ bus[p] # <<>>
    /\ LET r == Handled(p, Head(bus[p])) IN
         /\ Become(p, r)
         /\ mesh' = [mesh EXCEPT ![Other(p)] = @ \o r.out]
    /\ bus' = [bus EXCEPT ![p] = Tail(@)]
    /\ UNCHANGED <<sig, env>>

\* handler_dev: the peer answers the request that mpr_link_init sent, and a map
\* that waits for the link goes on.
LinkUp(p) ==
    /\ link[p] = "new"
    /\ link' = [link EXCEPT ![p] = "known"]
    /\ mesh' = [mesh EXCEPT ![Other(p)] =
                  @ \o (IF Known(p) THEN <<Message("mapTo", map[p])>> ELSE <<>>)]
    /\ UNCHANGED <<map, meta, sig, bus, nextId, env>>

------------------------------------------------------------------------------
\* Housekeeping.

\* mpr_graph_cleanup looks at records whose status is at most MPR_STATUS_STAGED:
\* nothing is known of the other end.
Idle(m) == m.stage = "staged" /\ m.known = {}

\* Seeded bug: off by one.
CleanupLate(p) ==
    /\ Idle(map[p])
    /\ map' = [map EXCEPT ![p] = IF @.count = 0 THEN NoMap ELSE [@ EXCEPT !.count = @ - 1]]
    /\ UNCHANGED <<link, meta, sig, mesh, bus, nextId, env>>

Cleanup(p) ==
    /\ Idle(map[p])
    /\ map' = [map EXCEPT ![p] = IF @.count = 1 THEN NoMap ELSE [@ EXCEPT !.count = 1]]
    /\ UNCHANGED <<link, meta, sig, mesh, bus, nextId, env>>

\* The peer q pings over its link as long as a map of it works there, and
\* mpr_net_maybe_send_ping removes a link that nothing is heard of.
Pings(q) == LinkBusy \/ (link[q] = "known" /\ Working(map[q]))
Silent(p) == link[p] # "none" /\ ~ Pings(Other(p))

\* Nothing is under way.  A link that is removed was silent for more than twenty
\* seconds; a message that is under way does not take as long.
Still == \A p \in Side : mesh[p] = <<>> /\ bus[p] = <<>> /\ link[p] # "new"

\* Seeded bug: the link goes without its maps.
LinkTimeoutAlone(p) ==
    /\ Still /\ Silent(p)
    /\ link' = [link EXCEPT ![p] = "none"]
    /\ UNCHANGED <<map, meta, sig, mesh, bus, nextId, env>>

\* mpr_rtr_remove_link, mpr_graph_remove_link: its maps go with it.
LinkTimeout(p) ==
    /\ Still /\ Silent(p)
    /\ link' = [link EXCEPT ![p] = "none"]
    /\ map' = [map EXCEPT ![p] = NoMap]
    /\ UNCHANGED <<meta, sig, mesh, bus, nextId, env>>

------------------------------------------------------------------------------
\* Applications.

Request(cmd, id, e) == [cmd |-> cmd, id |-> id, expr |-> e]
Multicast(msg) == bus' = [p \in Side |-> Append(bus[p], msg)]
Call == calls < MaxCalls /\ calls' = calls + 1

\* mpr_map_new and mpr_obj_push by an administrator.
AskMap(e) ==
    /\ Call
    /\ Multicast(Request("map", 0, e))
    /\ UNCHANGED <<map, link, meta, sig, mesh, nextId, lost, restarts>>

\* mpr_obj_push of a map that is active.
AskMod(p, e) ==
    /\ map[p].stage = "active" /\ Call
    /\ Multicast(Request("mod", map[p].id, e))
    /\ UNCHANGED <<map, link, meta, sig, mesh, nextId, lost, restarts>>

\* mpr_map_release, by somebody who knows the id or does not yet.
AskUnmap(id) ==
    /\ Call
    /\ Multicast(Request("unmap", id, NoExpr))
    /\ UNCHANGED <<map, link, meta, sig, mesh, nextId, lost, restarts>>

\* mpr_sig_free releases the maps of the signal; mpr_sig_new makes it again.
FreeSig(p) ==
    /\ CanRename /\ sig[p] /\ Call
    /\ sig' = [sig EXCEPT ![p] = FALSE]
    /\ map' = [map EXCEPT ![p] = NoMap]
    /\ IF Known(p) THEN Multicast(Request("unmap", map[p].id, NoExpr)) ELSE bus' = bus
    /\ UNCHANGED <<link, meta, mesh, nextId, lost, restarts>>

NewSig(p) ==
    /\ ~ sig[p]
    /\ sig' = [sig EXCEPT ![p] = TRUE]
    /\ UNCHANGED <<map, link, meta, mesh, bus, nextId, env>>

------------------------------------------------------------------------------
\* Faults.

LoseMesh(p) ==
    /\ lost < MaxLost /\ mesh[p] # <<>>
    /\ mesh' = [mesh EXCEPT ![p] = Tail(@)]
    /\ lost' = lost + 1
    /\ UNCHANGED <<map, link, meta, sig, bus, nextId, calls, restarts>>

LoseBus(p) ==
    /\ lost < MaxLost /\ bus[p] # <<>>
    /\ bus' = [bus EXCEPT ![p] = Tail(@)]
    /\ lost' = lost + 1
    /\ UNCHANGED <<map, link, meta, sig, mesh, nextId, calls, restarts>>

\* A device crashes and starts again: its peer keeps addresses that lead nowhere.
Restart(p) ==
    /\ restarts < MaxRestart
    /\ restarts' = restarts + 1
    /\ map' = [map EXCEPT ![p] = NoMap]
    /\ link' = [link EXCEPT ![p] = "none", ![Other(p)] = IF @ = "known" THEN "stale" ELSE @]
    /\ meta' = [meta EXCEPT ![p] = FALSE]
    /\ sig' = [sig EXCEPT ![p] = TRUE]
    /\ mesh' = [mesh EXCEPT ![p] = <<>>]
    /\ bus' = [bus EXCEPT ![p] = <<>>]
    /\ UNCHANGED <<nextId, calls, lost>>

Requests ==
    \/ \E e \in Expr \cup {NoExpr} : AskMap(e)
    \/ \E p \in Side : \E e \in Expr : AskMod(p, e)
    \/ \E id \in {0} \cup {map[p].id : p \in Side} : AskUnmap(id)
    \/ \E p \in Side : FreeSig(p)

Network == \E p \in Side : Receive(p) \/ ReceiveBus(p) \/ LinkUp(p)
Housekeeping == \E p \in Side : Cleanup(p) \/ LinkTimeout(p)
Faults == \E p \in Side : LoseMesh(p) \/ LoseBus(p) \/ Restart(p)

Next == Requests \/ Network \/ Housekeeping \/ Faults \/ \E p \in Side : NewSig(p)

Spec == Init /\ [][Next]_vars

\* Both processes are polled: they read their sockets and do the housekeeping,
\* and a device answers a request for its address.
FairSpec ==
    /\ Spec
    /\ \A p \in Side :
         /\ WF_vars(Receive(p)) /\ WF_vars(ReceiveBus(p)) /\ WF_vars(LinkUp(p))
         /\ WF_vars(Cleanup(p)) /\ WF_vars(LinkTimeout(p))

------------------------------------------------------------------------------
\* Nothing is under way and nothing is about to be removed.
Quiet == Still /\ \A p \in Side : ~ Idle(map[p]) /\ ~ Silent(p)

\* At rest both sides have the map active or neither has it, if nothing was lost
\* (the handshake of handler_map, handler_map_to and handler_mapped, and /unmap).
Together ==
    Quiet /\ lost = 0 => /\ map["src"].stage = map["dst"].stage
                         /\ map["src"].stage \in {"none", "active"}

\* At rest both sides of an active map have the same expression: what the last
\* modification made of it (handler_map_mod, handler_mapped).
SameExpr ==
    Quiet /\ (\A p \in Side : map[p].stage = "active") => map["src"].expr = map["dst"].expr

\* A map that works has the link that its values go over (_check_status).
LinkUsable == \A p \in Side : Working(map[p]) => Reaches(link[p])

\* A map that is not complete becomes active or goes away, if nothing was lost
\* (mpr_graph_cleanup, mpr_rtr_remove_link).
Settles ==
    \A p \in Side :
        map[p].stage \in {"staged", "ready"} ~> map[p].stage \in {"none", "active"} \/ lost > 0

=============================================================================
