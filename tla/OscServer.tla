------------------------------ MODULE OscServer ------------------------------
(***************************************************************************)
(* A server of the OSC library (src/src/lo/server.c) as a device uses it   *)
(* (src/src/mapper/device.c, signal.c): the methods of the signals, the    *)
(* bundles that wait to be received, the queue of those that came too      *)
(* early, and the walk along the methods that a message takes, in which a  *)
(* handler may add and delete methods.                                     *)
(*                                                                         *)
(* queueing       whether bundles wait for their time (lo's default)       *)
(* plain          whether the paths that arrive hold no pattern            *)
(* now            the clock                                                *)
(* bundleTime     "ts" of device.c: what handlers take for the time        *)
(* signals        none, unheard (without handler) or heard                 *)
(* methods        the list of the server, [path, id]                       *)
(* inbox, queued  bundles, and messages [path, time, nr] for later         *)
(* work, walk     messages being dispatched, and how far the first one is  *)
(***************************************************************************)
EXTENDS Integers, Sequences, FiniteSets, SequencesExt

CONSTANTS Names,      \* names of signals
          MaxTime,    \* bound: the clock
          MaxMethods, \* bound: methods at a time
          MaxWaiting  \* bound: messages that wait when another bundle comes

VARIABLES queueing, plain, now, bundleTime, signals, methods, inbox, queued, work, walk
vars == <<queueing, plain, now, bundleTime, signals, methods, inbox, queued, work, walk>>

Immediate == 0
Wildcard == "*"   \* a path with a pattern that matches every name
Null == 0         \* end of the list
Dangling == -1    \* the successor of a method that has been freed
Resting == [phase |-> "rest", at |-> Null, calls |-> 0, had |-> FALSE]

TypeOK ==
  /\ now \in 1 .. MaxTime /\ bundleTime \in 0 .. MaxTime
  /\ signals \in [Names -> {"none", "unheard", "heard"}]
  /\ \A i \in DOMAIN methods : methods[i].path \in Names /\ methods[i].id \in 1 .. MaxMethods
  /\ walk.phase \in {"rest", "look", "handler", "end"} /\ walk.at \in -1 .. MaxMethods

-----------------------------------------------------------------------------
(* The list of methods. *)

Listed(id) == \E i \in DOMAIN methods : methods[i].id = id
Position(id) == CHOOSE i \in DOMAIN methods : methods[i].id = id
FirstMethod == IF methods = <<>> THEN Null ELSE methods[1].id
Following(id) ==
  IF ~Listed(id) THEN Dangling
  ELSE IF Position(id) = Len(methods) THEN Null ELSE methods[Position(id) + 1].id
Matches(path, id) == path = Wildcard \/ path = methods[Position(id)].path

(* lo_server_add_method, lo_server_del_method: all methods of the path. *)
FreshIds == {id \in 1 .. MaxMethods : ~Listed(id) /\ walk.at # id}
AddMethod(path) ==
  /\ FreshIds # {}
  /\ methods' = Append(methods, [path |-> path, id |-> CHOOSE id \in FreshIds : TRUE])
DelFirst(path) ==
  methods' = IF \E i \in DOMAIN methods : methods[i].path = path
             THEN RemoveAt(methods, CHOOSE i \in DOMAIN methods :
                              methods[i].path = path /\ \A j \in 1 .. i - 1 : methods[j].path # path)
             ELSE methods
DelMethod(path) == methods' = SelectSeq(methods, LAMBDA m : m.path # path)

-----------------------------------------------------------------------------
(* What the application does, between two polls or in a handler.  Where    *)
(* the server queues it leaves its signals alone: the two do not touch.    *)

MayCall == ~queueing /\ walk.phase \in {"rest", "handler"}
RunsHandlerOf(n) == walk.phase = "handler" /\ Listed(walk.at) /\ methods[Position(walk.at)].path = n

(* mpr_sig_new: the methods are added with or without a handler. *)
NewSignal(n, heard) ==
  /\ MayCall /\ signals[n] = "none"
  /\ AddMethod(n)
  /\ signals' = [signals EXCEPT ![n] = IF heard THEN "heard" ELSE "unheard"]
  /\ UNCHANGED <<queueing, plain, now, bundleTime, inbox, queued, work, walk>>

(* mpr_sig_set_cb; a handler comes with events, none without.  An unheard  *)
(* signal may have its methods already.                                    *)
SetCallback(n, heard) ==
  /\ MayCall /\ signals[n] # "none"
  /\ IF signals[n] = "unheard" /\ heard THEN AddMethod(n)
     ELSE IF signals[n] = "heard" /\ ~heard THEN DelMethod(n)
     ELSE UNCHANGED methods
  /\ signals' = [signals EXCEPT ![n] = IF heard THEN "heard" ELSE "unheard"]
  /\ UNCHANGED <<queueing, plain, now, bundleTime, inbox, queued, work, walk>>

(* mpr_sig_free; not in the handler of the signal itself. *)
FreeSignal(n) ==
  /\ MayCall /\ ~RunsHandlerOf(n) /\ signals[n] # "none"
  /\ DelMethod(n)
  /\ signals' = [signals EXCEPT ![n] = "none"]
  /\ UNCHANGED <<queueing, plain, now, bundleTime, inbox, queued, work, walk>>

-----------------------------------------------------------------------------
(* Receiving: lo_server_recv takes what is due from the queue, else the    *)
(* next datagram.  A bundle that came too early is queued, if the server   *)
(* queues; all others are dispatched as they come.                         *)

Paths == Names \cup (IF plain THEN {} ELSE {Wildcard})
Bundles == [time : Immediate .. MaxTime, paths : {<<p>> : p \in Paths} \cup {<<p, q>> : p, q \in Names}]

Arrive(b) ==
  /\ inbox = <<>> /\ work = <<>> /\ Len(queued) < MaxWaiting
  /\ inbox' = Append(inbox, b)
  /\ UNCHANGED <<queueing, plain, now, bundleTime, signals, methods, queued, work, walk>>

Messages(b) == [i \in DOMAIN b.paths |-> [path |-> b.paths[i], time |-> b.time]]
Early(b) == queueing /\ b.time # Immediate /\ b.time > now

EnqueueLast(q, m) == Append(q, m)
(* queue_data: behind those that are due at the same time. *)
Enqueue(q, m) ==
  LET before == Cardinality({i \in DOMAIN q : q[i].time <= m.time})
  IN  SubSeq(q, 1, before) \o <<m>> \o SubSeq(q, before + 1, Len(q))

Due == queued # <<>> /\ queued[1].time <= now

ReceiveUntimed ==
  /\ walk = Resting /\ work = <<>> /\ ~Due /\ inbox # <<>>
  /\ IF Early(Head(inbox))
     THEN queued' = FoldLeft(Enqueue, queued, Messages(Head(inbox))) /\ UNCHANGED work
     ELSE work' = Messages(Head(inbox)) /\ UNCHANGED queued
  /\ inbox' = Tail(inbox)
  /\ UNCHANGED <<queueing, plain, now, bundleTime, signals, methods, walk>>

Receive ==
  /\ walk = Resting /\ work = <<>> /\ ~Due /\ inbox # <<>>
  /\ bundleTime' = Head(inbox).time      \* mpr_dev_bundle_start
  /\ IF Early(Head(inbox))
     THEN queued' = FoldLeft(Enqueue, queued, Messages(Head(inbox))) /\ UNCHANGED work
     ELSE work' = Messages(Head(inbox)) /\ UNCHANGED queued
  /\ inbox' = Tail(inbox)
  /\ UNCHANGED <<queueing, plain, now, signals, methods, walk>>

(* dispatch_queued: all that share the time of the first one. *)
DispatchQueued ==
  /\ walk = Resting /\ work = <<>> /\ Due
  /\ work' = SelectSeq(queued, LAMBDA m : m.time <= queued[1].time)
  /\ queued' = SelectSeq(queued, LAMBDA m : m.time > queued[1].time)
  /\ UNCHANGED <<queueing, plain, now, bundleTime, signals, methods, inbox, walk>>

-----------------------------------------------------------------------------
(* dispatch_method: the walk of one message along the methods. *)

Begin ==
  /\ walk = Resting /\ work # <<>>
  /\ walk' = [phase |-> "look", at |-> FirstMethod, calls |-> 0,
              had |-> \E i \in DOMAIN methods : methods[i].path = work[1].path]
  /\ UNCHANGED <<queueing, plain, now, bundleTime, signals, methods, inbox, queued, work>>

Look ==
  /\ walk.phase = "look" /\ walk.at # Dangling
  /\ walk' = IF walk.at = Null THEN [walk EXCEPT !.phase = "end"]
             ELSE IF Matches(work[1].path, walk.at)
             THEN [walk EXCEPT !.phase = "handler", !.calls = Min({@ + 1, 2})]
             ELSE [walk EXCEPT !.at = Following(@)]
  /\ UNCHANGED <<queueing, plain, now, bundleTime, signals, methods, inbox, queued, work>>

ReturnOn ==
  /\ walk.phase = "handler"
  /\ walk' = [walk EXCEPT !.phase = "look", !.at = Following(@)]
  /\ UNCHANGED <<queueing, plain, now, bundleTime, signals, methods, inbox, queued, work>>

(* All handlers of a device return 0, which ends the walk unless the path  *)
(* of the message is a pattern.                                            *)
Return ==
  /\ walk.phase = "handler"
  /\ walk' = IF work[1].path # Wildcard THEN [walk EXCEPT !.phase = "end"]
             ELSE [walk EXCEPT !.phase = "look", !.at = Following(@)]
  /\ UNCHANGED <<queueing, plain, now, bundleTime, signals, methods, inbox, queued, work>>

End ==
  /\ walk.phase = "end"
  /\ walk' = Resting /\ work' = Tail(work)
  /\ UNCHANGED <<queueing, plain, now, bundleTime, signals, methods, inbox, queued>>

Tick ==
  /\ queueing /\ now < MaxTime /\ now' = now + 1
  /\ UNCHANGED <<queueing, plain, bundleTime, signals, methods, inbox, queued, work, walk>>

-----------------------------------------------------------------------------
(* mpr_dev_start_servers turns the queue off. *)
Init ==
  /\ plain \in BOOLEAN /\ queueing \in (IF plain THEN BOOLEAN ELSE {FALSE})
  /\ now = 1 /\ bundleTime = Immediate
  /\ signals = [n \in Names |-> IF queueing THEN "heard" ELSE "none"]
  /\ methods = IF queueing THEN [i \in 1 .. Cardinality(Names) |-> [path |-> SetToSeq(Names)[i], id |-> i]]
               ELSE <<>>
  /\ inbox = <<>> /\ queued = <<>> /\ work = <<>> /\ walk = Resting

Next ==
  \/ \E n \in Names : \/ FreeSignal(n)
                      \/ \E heard \in BOOLEAN : NewSignal(n, heard) \/ SetCallback(n, heard)
  \/ \E b \in Bundles : Arrive(b)
  \/ Receive \/ DispatchQueued \/ Begin \/ Look \/ Return \/ End \/ Tick

Spec == Init /\ [][Next]_vars

-----------------------------------------------------------------------------
Handling == walk.phase = "handler"

(* A walk never goes on from a method that its handler has deleted (the    *)
(* application may unset the handler it is in), unless the message carries *)
(* a pattern.                                                              *)
WalkLive == plain => walk.at # Dangling

(* Although an unheard signal that gets a handler has its methods twice, a *)
(* message is handled once, and it is handled if there was a method.       *)
HandledOnce == walk.phase = "end" /\ work[1].path # Wildcard => walk.calls = (IF walk.had THEN 1 ELSE 0)

(* Handlers take the time of the bundle that came last for theirs.  That   *)
(* is right because the queue is turned off.                               *)
TimeRight == Handling /\ ~queueing => bundleTime = work[1].time

(* With the queue, nothing is handled before its time, and the queue is in *)
(* the order of times.                                                     *)
NotEarly ==
  /\ Handling /\ queueing => work[1].time <= now
  /\ \A i, j \in DOMAIN queued : i < j => queued[i].time <= queued[j].time

(* However signals come and go, lose and gain their handlers: each one     *)
(* with a handler can be reached, and no method leads to a freed one.      *)
MethodsMatch ==
  /\ \A n \in Names : signals[n] = "heard" => \E i \in DOMAIN methods : methods[i].path = n
  /\ \A i \in DOMAIN methods : signals[methods[i].path] # "none"
=============================================================================
