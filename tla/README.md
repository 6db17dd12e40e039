# A TLA+ model of libmapper-arduino

libmapper connects *signals* of *devices* on a local network. A program links
the library, creates devices and signals, and polls (`mpr_dev_poll`,
`mpr_graph_poll`); all work happens inside these calls, on one thread. Programs
talk over UDP: a multicast *bus* for discovery and allocation, and unicast
*mesh* messages for everything between two peers. Nothing is acknowledged,
nothing is persisted, and any program may start, stop or crash at any time. The
difficulty is therefore not in threads but in the interleaving of the message
handlers of several programs, in messages that are lost, repeated, late or
reordered, and in timeouts that replace acknowledgements.

All paths below are relative to `src/src/mapper/` unless they say otherwise.

## 1. Inventory

| component | source | state | operations | interacts with |
|---|---|---|---|---|
| name allocation | `network.c` (`mpr_net_add_dev`, `mpr_net_poll`, `check_collisions`, `handler_name`, `handler_name_probe`, `handler_logout`), `device.c` (`mpr_dev_new`, `mpr_dev_on_registered`, `mpr_dev_get_name`, `mpr_dev_free`) | `net->devs`, `net->random_id`, `dev->ordinal_allocator`, `dev->registered`, `dev->name` | add a device, poll, answer a probe, count a collision, take a suggestion, lock, leave, re-initialise | the bus; everything else waits for `registered` |
| outgoing messages | `network.c` (`mpr_net_send`, `mpr_net_use_*`, `mpr_net_add_msg`, `mpr_net_free_msgs`) | one pending `net->bundle` with `net->addr` and `net->msg_type` | choose a destination, add, flush, drop | every component that talks |
| subscriptions, device side | `device.c` (`mpr_dev_manage_subscriber`), `network.c` (`handler_subscribe`, `mpr_net_send`) | `dev->subscribers` with flags and lease | add, change, renew, remove, prune | outgoing messages, map and link state |
| subscriptions, graph side | `graph.c` (`mpr_graph_subscribe`, `autosubscribe`, `renew_subscriptions`, `_check_dev_status`) | `g->subscriptions`, `g->autosub`, remote devices with `synced` | subscribe, renew, expire a device | `handler_dev`, `handler_sync` |
| links and pings | `link.c`, `network.c` (`mpr_net_maybe_send_ping`, `handler_ping`, `handler_sync`) | `link->clock.sent/rcvd`, `net->next_*_ping` | connect, ping, two-stage timeout, remove | maps, router |
| map establishment | `network.c` (`handler_map`, `handler_map_to`, `handler_mapped`, `handler_map_mod`, `handler_unmap`, `handler_unmapped`), `map.c`, `router.c`, `graph.c` | `map->status`, `slot` types and lengths, `rtr->sigs` | request, propose, accept, activate, modify, release, expire | links, subscribers, router |
| graph records | `graph.c`, `network.c` (`handler_*`, `find_map`), `router.c` (slots) | `graph->devs`, `sigs`, `links`, `maps`; `rtr->sigs`, `num_maps` of a link | add, remove with what points to it, expire, find or complete a map by its names | every handler |
| map scopes, linked devices | `map.c` (`_add_scope`, `_remove_scope`, `_update_scope`), `device.c` (`mpr_dev_update_linked`) | `map->scopes`, `dev->linked`: arrays edited in place | add, remove, replace by a message | map and device properties, router |
| signal instances and id maps | `signal.c`, `device.c` (`mpr_dev_*_idmap`, `mpr_dev_handler`) | `sig->inst`, `sig->idmaps`, `dev->idmaps` with reference counts | reserve, activate, steal, release locally and remotely | router, maps |
| router data path | `router.c`, `map.c` (`mpr_map_send`, `mpr_map_receive`), `link.c` bundles | `map->updated`, `slot->val`, link bundles, `dev->sending` | process a value, send queues | instances, links |
| value buffers | `value.c` | circular buffers `pos`, `samps` | reset, resize, next position | router, expressions |
| property tables and messages | `table.c`, `properties.c`, `slot.c` | sorted records with `dirty` and REMOVED marks; atoms of a message | set, remove, clear empty, serialise, parse | every object |
| object lists | `list.c` | linked lists and query state | add, remove, filter, union, intersection, difference | the graph |
| time and clocks | `time.c`, `network.c` (`handler_ping`) | NTP time stamps in two 32-bit words; latency, jitter and offset of a link | add, subtract, compare, estimate | clock sync, leases |
| expressions | `expression.c`, `map.c` (`_set_linear`, `_replace_expr_str`, `_set_expr`) | token stacks, user variables | write, parse, evaluate | maps |
| OSC transport | `../lo/server.c`, `../lo/send.c`, `../lo/pattern_match.c` | methods, queue of timed messages, buffers of TCP connections | add and delete methods, receive, dispatch, frame, match | every server of a device |
| C API headers, C++ wrapper | `mapper.h`, `mapper_cpp.h`, `mapper_internal.h` | none of their own | inline wrappers | all |
| compression, compatibility | `../zlib*`, `../compat` | vendored | | used through `crc32` |

What makes each of them correct, and where that is hard, is listed under
"hazards" in `PROJECT.json`, at the line where it bites, with the properties
that would notice.

## 2. Plan

The order follows the dependencies: nothing talks before it has a name, nothing
is announced without a subscription, nothing is mapped without a link, no value
travels without a map. The sequential parts, which all of these take for
granted, come last; they share one run.

| step | module | state of the work |
|---|---|---|
| 1 | `NameRegistry` (abstract), `NameAlloc` (detailed, refines it), `NameAllocProofs` | done |
| 2 | `Subscribers` (the pending bundle and the device side of subscriptions), `SubscribersProofs` | done |
| 3 | `LinkPing` (two peers, lost pings, the two-stage timeout), `LinkPingProofs` | done |
| 4 | `Discovery` (the graph side: autosubscription, renewal, expiry), `DiscoveryProofs` | done |
| 5 | `MapHandshake`: two devices and an administrator; `/map`, `/mapTo`, `/mapped`, `/map/modify`, `/unmap`, staged maps and their expiry; `MapHandshakeProofs` | done for one source on another device |
| 6 | `Instances`: instances and id maps with reference counts, local and remote release, stealing; `InstancesProofs` | done |
| 7 | `DataPath`: values and releases along a chain of maps, what a bundle carries, polls; `DataPathProofs` | done for a chain of single-source maps |
| 8 | the sequential parts against what they stand for: `ValueBuffer`, `Properties`, `Lists`, `NameLists`, `Times`, `Clocks`, `Records`, `MapNames`, `Messages` | done |
| 9 | expressions: `Parser`, `Evaluator`, `Linear` | done for integers; types and their promotion are left |
| 10 | the transport: `OscServer`, `Streams`, `Patterns` | done; the binary form of messages is left |
| 11 | proofs: unique names and the refinement of `NameRegistry` for any number of devices, `Together`, the end of a lease, the id maps and owners of `Instances`, values and bundles of `DataPath` | done |
| 12 | proofs: the buffer, the property tables, the time stamps, the clocks, the records, the arrays of names, the names of maps and the lists of objects (`StructuresProofs`) | done |
| 13 | convergent maps in `MapHandshake` and `DataPath` | left |

Compositions. `DataPath` composes three devices over two links and holds the
instances of each in the reduced form it needs; the full one is `Instances`.
`Evaluator` contains the circular buffers of `ValueBuffer`, and `Discovery`
repeats the entry of the device (`mpr_dev_manage_subscriber`) of `Subscribers`.
`Structures` puts eight of the sequential parts side by side, those that are proved
about, and `MCStructures` adds the other seven. Worth having:
`MapHandshake` over `LinkPing` (a map that gets ready over an ageing link) and
`Discovery` with two graphs.

Abstract specifications. `NameAlloc` implements `NameRegistry`. The sequential
parts carry what they stand for as history variables, since it is a value and
not a behaviour: a bounded sequence (`ValueBuffer`), a dictionary (`Properties`),
the objects a walk should find (`Lists`), what a peer sent (`Streams`), the
meaning of a string (`Parser`) or of an expression (`Evaluator`, `Linear`), the
meaning of a pattern (`Patterns`), integers (`Times`).

Theorems worth proving are the type invariant of every module and, per module,
the properties on which its users rely: a name is unique and kept (1), a subscriber is
told (2), a used link stays (3), a lease does not end (4), both ends of a map agree and
one that works has a way to the other end (5), no id map is freed in use and an
instance has one owner (6), a value is one of the instance that has it, and bundles are
in order (7), a buffer, a table, a clock, the graph's records and a list under queries are what they stand
for (8). These are proved. Messages, expressions and the transport, which compute over
data, are model-checked.


## 3. The modules and the code

Conventions. Each module is one component as seen from its own state; a handler
or call is one action, everything it does included. Variables keep the names of
the fields. Time is in ticks, and clocks are kept as *ages* or as *time left*,
which saturate at the largest value the code compares them with, so that the
state space is finite without a bound on time. Alternatives marked "Seeded bug"
are definitions no specification uses: each is what a plausible mistake would
have made of the definition that follows it, and shows that some property
notices.

### NameRegistry and NameAlloc

`NameRegistry` is the promise: names are claimed one at a time in a central
place. `NameAlloc` is what the code does instead: probe on the bus and wait for
objections.

| state | code |
|---|---|
| `devs`, `random_id` | `net->devs`, `net->random_id` |
| `alloc[d]` | `dev->ordinal_allocator`: `val`, `age` (now - `count_time`), `collided` (`collision_count > 0`), `hints` (as ages), `locked`, `online` |
| `registered`, `name` | `dev->registered`, the ordinal in the cached `dev->name` |
| `inbox` | datagrams in the sockets of each process |

| action | code |
|---|---|
| `AddDev`, `Reinit` | `mpr_dev_new` with `mpr_net_add_dev`; `mpr_net_init` on a running network, which adds every device again |
| `Poll` = `Reprobe`, `MoveOn`, `Lock`, `Reregister` | the branches of `check_collisions` and `mpr_net_poll` |
| `RecvProbe`, `RecvRegistered`, `RecvLogout` | `handler_name_probe`, `handler_name`, the ordinals' part of `handler_logout` |
| `Leave`, `Crash`, `Lose`, `Tick` | `mpr_dev_free`; a process that ends; the network; time |

### Subscribers

A device, its subscribers and the one pending bundle through which *all*
messages of a process pass.

| state | code |
|---|---|
| `net.subscribers[p]` | the entry of `p` in `dev->subscribers`: flags, lease, and (history) the kinds of information whose present state was sent to it |
| `net.open`, `net.dst`, `net.kinds` | `net->bundle`, `net->addr` with `net->msg_type`, and the kinds the bundle carries in their present state |
| `dirty` | `dev->obj.props.synced->dirty` |
| `polling`, `subPing` | inside `mpr_dev_poll`; `net->next_sub_ping` |

`Send`, `Use`, `Add` are `mpr_net_send`, `mpr_net_use_*` and `mpr_net_add_msg` as
functions on `net`; the handlers compose them in the order in which the code calls
them. How many messages fit into a bundle is a matter of bytes, so `Add` may find
it full at any time. `Subscribe` is `handler_subscribe` with
`mpr_dev_manage_subscriber`; `DevModified`, `SigModified`, `MapActivated`,
`Unmapped`, `MapModified` are what `handler_dev_mod`, `handler_sig_mod`,
`handler_map`/`handler_mapped`, `handler_unmap` and `handler_map_mod` announce;
`SigChanged`, `SetProp`, `PushDev` are calls of the application.

### LinkPing

| state | code |
|---|---|
| `link[p]` | the link in `graph->links` of `p`: whose addresses it has (`addr`, the life of the other process they belong to), `num_maps > 0`, `clock.rcvd.msg_id > 0`, and the age of `clock.rcvd.time` |
| `wait[p]` | `net->next_bus_ping` |
| `wire[p]`, `lost[p]` | pings on their way to `p`, and how many were lost in a row |
| `alive`, `life` | the process runs; how often it was started |

`Housekeep` is the link part of `mpr_net_maybe_send_ping` (ping, warn, remove),
`RecvPing` is `handler_ping`, `Create`, `Connect`, `MapReady`, `MapsGone` are
`mpr_link_init`, `mpr_link_connect`, `_check_status` and `mpr_link_remove_map`.

### Discovery

| state | code |
|---|---|
| `rec` | the graph's record of the device: time since `dev->synced`, -1 without a record |
| `sub`, `autosub` | its entry in `g->subscriptions` (flags, time left before it is renewed), `g->autosub` |
| `up`, `entry`, `busWait`, `subWait` | the device: runs, the entry of this graph in `dev->subscribers`, `net->next_bus_ping`, `net->next_sub_ping` |
| `toDev`, `toGraph` | requests of the graph, in order; messages of the device, in any order |
| `met` | history: the present process of the device got a subscription of the graph |

`Hear`, `Learn`, `LearnSignal`, `LogoutHeard` are the branches of `handler_sync`,
`handler_dev`, `handler_sig` and `handler_logout`; `Poll` is `mpr_graph_poll`
(`renew_subscriptions`, then `_check_dev_status`); `Autosubscribe`,
`EndAutosubscribe`, `SubscribeOne`, `UnsubscribeOne` are the calls of the
program; `CreateLink` is `mpr_link_init`, which sends a subscription request of
its own; `DevRecv` is `handler_subscribe` and `handler_who`; `BusSync` and
`SubSync` are the two halves of `mpr_net_maybe_send_ping`. `Wire` keeps what the
receiver understands of a request: `send_subscribe_msg` writes `incoming_maps`
and `outgoing_maps`, `handler_subscribe` expects `maps_in` and `maps_out`.

### MapHandshake

| state | code |
|---|---|
| `map[p]` | the record of the map in `graph->maps` of `p`: `stage`, `count` and `known` are one field there, `map->status` (a count of 2 or 1 for staged, the bits of `METADATA_OK`, ready, active); `id`, `expr` |
| `link[p]` | the link of the map: none, made by `mpr_link_init`, with addresses, or with those of an earlier life of the peer |
| `meta[p]`, `sig[p]` | `p` knows type and length of the signal of its peer; `p` has its own signal |
| `mesh[p]`, `bus[p]` | datagrams to `p` from its peer, and from the bus |
| `nextId` | `mpr_dev_generate_unique_id` at the destination |

| action | code |
|---|---|
| `Receive`, `ReceiveBus` = `OnMap`, `OnMapTo`, `OnMapped`, `OnMod`, `OnUnmap` | `handler_map`, `handler_map_to`, `handler_mapped`, `handler_map_mod`, `handler_unmap`, each with `find_map`, `mpr_map_set_from_msg` (`Set`), `_check_status` (`Checked`) and what they send (`Over`) |
| `LinkUp` | `handler_dev`: the address arrives, the maps that wait for it send `/mapTo` |
| `Cleanup`, `LinkTimeout` | `mpr_graph_cleanup`; the removal of a silent link with its maps |
| `AskMap`, `AskMod`, `AskUnmap` | `mpr_map_new` with `mpr_obj_push`, and `mpr_map_release`, by an administrator that may know more or less than the devices do |
| `FreeSig`, `NewSig` | `mpr_sig_free`, `mpr_sig_new` |

Handlers are functions from a message to what the process has afterwards
(`After`), so that the two sockets share them and the proofs treat each once.

### Instances

One device with a few signals, any of which the application, a sender and a
destination use at the same time.

| state | code |
|---|---|
| `dev.inst[s]` | `lsig->inst`, sorted by id: `id`, `active` |
| `dev.entry[s]` | `lsig->idmaps`: the id map, the instance, `RELEASED_LOCALLY` (`rl`), `RELEASED_REMOTELY` (`rr`); history: who made the entry |
| `dev.map`, `dev.active`, `dev.reserve` | the id maps with `LID_refcount` and `GID_refcount`, `dev->idmaps.active` and `reserve` |
| `setup` | the signals and their `steal_mode`, fixed |
| `ended` | history: what the application released and the sender has not yet |
| `lent` | history: a release took a reference that the released entry did not have (`Lends`, section 5) |

`SetValue`, `Release`, `ReserveInst`, `RemoveInst`, `FreeSig` are the calls of
the application; `RemoteUpdate`, `RemoteRelease`, `PlainUpdate` are the paths
of `mpr_dev_handler`; a message from upstream or downstream may name any id
(`Gids`). All of them are compositions of functions on `dev` that
carry the names of the code: `mpr_dev_add_idmap`, `LID_decref`, `GID_decref`,
`mpr_sig_get_idmap_with_LID` and `_GID`, `mpr_sig_release_inst_internal`.

### DataPath

A chain of three devices: map 1 leads from an output to an input, map 2 from this
input on to another.

| state | code |
|---|---|
| `net.entry`, `net.val` | the id map entries of the one instance of a signal, its value |
| `net.updated` | `lsig->updated_inst` |
| `net.sending`, `receiving`, `stale` | `dev->sending`, `dev->receiving`, `dev->time_is_stale` |
| `net.slot`, `pending`, `muted` | the value in the source slot of a map, `map->updated`, `map->muted` |
| `net.bundle`, `wire` | the bundle of a link that collects, those on their way over TCP |

`SetValue` and `ReleaseValue` go through `mpr_rtr_process_sig`; `PollOut` is
`_process_outgoing_maps` with `mpr_map_send` and `mpr_link_process_bundles`,
`PollIn` is `_process_incoming_maps` with `mpr_map_receive`, `Recv` dispatches a
bundle to `mpr_dev_handler` message by message; `UpdateMaps` and `Mute` are
`mpr_dev_update_maps` and a modified map. A map copies: what expressions
compute is in `Evaluator`.

### The sequential parts

Each is a module with its own specification. `Structures` instantiates the first eight of the
table and picks one in its initial state (`which`), so that one specification, with one
set of constants, has the behaviours of each of them and `StructuresProofs` can prove about
all; its variables `v1` to `v7` are those of the part that was picked.
`MCStructures` extends `Structures` with the values of its constants and with the other
seven parts, so that one run explores all of them one after
the other (its state space is their sum). History variables hold what the code
should amount to. `Times` has words of `Radix` values, 2^32 in the code.

| module | code | state | compared with |
|---|---|---|---|
| `ValueBuffer` | `value.c`, `mpr_map_alloc_values` | buffers with `pos`, `full`, `mlen`, number of active instances | `hist`: what was written since the buffer has its size, as a sequence, and before, as a set |
| `Properties` | `table.c`, `object.c` | three tables of one object, messages | `want`, `told`: a dictionary |
| `Times` | `time.c` | a time stamp of two words | an integer |
| `Clocks` | `mpr_net_maybe_send_ping`, `handler_ping` | the sync clock of both ends of a link, pings under way | true time |
| `Records` | `graph.c`, `router.c` and the handlers of `network.c` that remove records | devices, signals, links, maps, router slots, counts | each other |
| `NameLists` | `_add_scope`, `_remove_scope`, `_update_scope`, `mpr_dev_update_linked` | two arrays, messages | each other |
| `MapNames` | `find_map`, `mpr_graph_add_map`, `parse_sig_names`, `_sort_sigs` | records of a watching graph, maps at the destination | each other |
| `Lists` | `list.c` | the chain of objects, query headers on the heap, the lists that are held | `due`, `seen`: what a walk should find and has found; `lost`: headers that nobody can free |
| `Messages` | `mpr_msg_parse_props`, `mpr_slot_add_props_to_msg` | what was written into a message | itself, parsed |
| `Parser` | `mpr_expr_new_from_str`, `check_type`, `expr_lex` | input, output and operator stacks, kinds of token allowed | `Meaning`: the value of the string |
| `Evaluator` | `mpr_expr_eval`, `mpr_map_send`, `_set_expr` | source and destination buffers, user variables, offsets | `Value`, of the values sent so far |
| `Linear` | `_set_linear`, `_replace_expr_str`, `_set_expr` | lengths and ranges of signals, the ends of the expression | `want`: the ends asked for |
| `OscServer` | `../lo/server.c`, `mpr_dev_add_sig_methods`, `mpr_sig_set_cb` | methods, queue, the walk of a message along the methods | the signals |
| `Streams` | `../lo/send.c`, `../lo/server.c` | sockets, their buffers, bytes under way | `sent` |
| `Patterns` | `../lo/pattern_match.c` | a pattern by parts, a path | `Means` |

A handler of the library runs to its end before the next message is read, so
nearly every handler is one action. The exception is the dispatch of
`OscServer`, whose steps (`Begin`, `Look`, `Return`, `End`) are apart because a
handler may add and delete methods between them, and because `plain` matters:
whether a message carries a pattern.


## 4. The runs

| run | instance | shows |
|---|---|---|
| `name_alloc` | 2 processes, one prefix, reliable network with delays of one tick, leave and crash | `TypeOK` (no hint outside its array), `UniqueNames`, `NameMatchesId`, `SearchGoesUp`, and the refinement of `NameRegistry` (`ImplementsRegistry`) |
| `name_alloc_live` | fair, no leaving | `EventuallyRegistered` |
| `name_alloc_faults` | one process, datagrams lost and duplicated, the interface changes at any moment | `NameKept` |
| `subscribers` | two peers, three sets of flags that overlap, with and without lease, incoming and outgoing maps, changes by others; fair | `TypeOK`, `ObjectsUpToDate`, `NothingAfterLease`, `LapsedDropped` |
| `link_ping` | two peers, one lost ping in a row, one restart each | `TypeOK`, `UsedLinkKept`, `HalfOpenEnds`, `StaleForgotten` |
| `discovery` | graph and device, one lost message, two starts, one call per tick | `TypeOK`, `SubscriptionHasRecord`, `SubscriptionHeld`, `KeptWhileAlive`, `Heals`, `GoneForgotten` |
| `map_handshake` | two devices, two requests, one lost message, one restart, signals freed and made again | `TypeOK`, `Together`, `LinkUsable`, `Settles` |
| `instances` | six devices of one or two signals (`MCInstances`), two instances per signal, two senders | `RefsExact`, `OneOwner`, `ReleasedStays` |
| `data_path` | seven chains (`MCDataPath`): maps processed at either side or both at their sources, scopes that let all, some or one pass, a muted map, applications that release at once or not; fair | `SameInstance`, `BundlesRight`, `InstanceEnds`, `LastArrives` |
| `structures` | the fifteen sequential parts (`MCStructures`, which extends `Structures`) | `StorageRight`, `CopiesRight`, `ClocksRight`, `GraphRight`, `ListsRight`, `ExpressionsRight`, `MessagesRight` |
| `scope_blocked` | the chain `Scoped` of `MCDataPath`: both maps processed at their sources, of which the second lets only the first device pass | *violated*: `ScopeKept` (section 5) |
| `scope_added` | `NameLists` in `MCStructures` | *violated*: `ScopeAdded` (section 5) |

The properties of `structures` are conjunctions of what each part promises,
and every conjunct has a mutant of its own:

| property | conjuncts |
|---|---|
| `StorageRight` | `HistoryRight` (`ValueBuffer`) |
| `CopiesRight` | `Searchable`, `IsDictionary`, `CopyCatchesUp` (`Properties`), `SameScopes`, `NoneTwice`, `LinksConverge` (`NameLists`) |
| `ClocksRight` | `ArithmeticRight`, `OrderRight` (`Times`), `LatencyRight`, `OffsetClose` (`Clocks`) |
| `GraphRight` | `RecordsComplete`, `SlotsLive`, `ReadyCounted` (`Records`), `ToldRight`, `OneMapEach` (`MapNames`) |
| `ListsRight` | `OwnedOnce`, `FindsAll` (`Lists`) |
| `ExpressionsRight` | `ParsedRight`, `NoneRefused` (`Parser`), `SentRight` (`Evaluator`), `ScalesRight`, `MeanRight` (`Linear`) |
| `MessagesRight` | `WalkLive`, `HandledOnce`, `MethodsMatch`, `TimeRight`, `NotEarly` (`OscServer`), `MatchesRight` (`Patterns`), `InOrder`, `AllArrive` (`Streams`), `AtomsRight`, `SlotsRight` (`Messages`) |

### Bounds, and why they are enough

*Processes.* Two contenders are the smallest network in which an objection
exists; every handler compares its own state with one message of one other
device. For three or more devices there are the theorems of section 6; what
they do not cover (`UniqueNames`) is a relation between two devices. Two
subscribers are enough to share a bundle; links and subscriptions are pairs.

*Times.* The code's seconds are scaled so that the order of all time-outs, and
which sums stay below which, are the same: for names 0.5 s, 2 s, 5 s are 1, 3
and 4 ticks, with a network delay of 1, so that a late objection can arrive just
before and just after each of them. In the runs without delay the times are 1,
2 and 3. For links and discovery 5 to 8 s between
messages and 10 s of silence are 1 to 2 and more than 2. A lease of 60 s renewed
10 s early is 4 renewed 2 early: with one lost renewal it ends, as it would in
the code, and `Heals` says that it comes back.

*Sequences.* `MaxOrd` bounds the ordinals and is not reached in `name_alloc`
(two contenders, `Block` hints); `name_alloc_faults` may reach it, where the
probing stops being explored. `MaxQueued` lets processes start and end only while few
messages wait. `MaxLost` is one message, or one in a row: the code tolerates one
lost ping between two that arrive. `MaxLife` allows every process to come back
once. `MaxQueue` holds the two requests of a call and one more. `MaxCalls`
allows one call of the applications between two ticks, in all ticks. `MaxCalls`
of the handshake is two requests in all: a map and whatever interferes with it
(a second request, a modification, a removal, a signal that goes), at any point
of the handshake, together with one restart and one lost message. Three requests
were tried without the liveness property (1.3 million states) and show nothing
new. At the bounds the system simply stops, so deadlock is not checked there.

*Instances.* Two instances per signal and two remote ones make the third
activation a theft. `MaxMaps` is 3, one more than a signal can hold, so that id
maps go to the reserve and come back for something else while entries of the
other signal still name them. `MaxGid` and `MaxEntries` stop the counters; the
code's limit of 128 entries is not reached (section 5). Each of the six devices
is there for one meeting: an input next to an output that shares its ids, the same with
a destination that releases upstream (`Through`), two inputs of the same remote instances, two outputs whose destinations release
upstream, and signals without instances on either side.

*Data path.* One instance per signal is where successive instances meet, since
each takes the index of the one before. Two instances and two values are a
value, a release and what may come in between; two bundles on a line let the
sender go on before the first one is read. Two maps in a row are what an
input needs that passes on what it gets.

*Sequential parts.* Bounds are those at which every branch of the code is taken:
buffers of up to three samples of two instances, resized at any position; three keys;
two objects under queries of queries; three devices in an array; words of three
bits, for which the times are enumerated; two other devices with four signals and
four maps, one of them convergent and one without an end here; strings of up to seven tokens over seven
small alphabets, each with the operators that interact; eighteen expressions, one per branch of
the evaluator, of two instances and three evaluations; linear expressions set
twice over signals of up to three elements; two signals of a server, three
methods and three points of time; two peers of a stream that is cut after every
byte; patterns of three parts and words of three letters. A stream's length has two bytes
instead of four.

*Symmetry* is used for processes, only in runs without liveness properties.

### Fairness

Weak fairness of the handlers, of polling and of time. It stands for what the
documentation asks of the application, to call `mpr_dev_poll` or
`mpr_graph_poll` again and again, and for `mpr_dev_poll` and `mpr_graph_poll`
reading their sockets until these are empty. `Tick` also needs that a pending
message is read, and due housekeeping done, before time passes: an application
that polls at least once per tick. Nothing is assumed of loss, of crashes, or of
applications that call anything else. `Heals` assumes that the device stays and
that the program stops changing its mind, nothing about what happened before. `Settles` assumes that both
devices are polled and that a device answers a request for its address
(`LinkUp`); an unanswered one is what `LinkPing` and `Discovery` are about.

`data_path` states its fairness by states and steps: a device that must send
(`sending` or `time_is_stale`, and room on the lines) polls again and again, one
that has received polls, and TCP delivers what was sent. `InstanceEnds` is about
chains whose applications release what ended at its source
(`prompt`), as they can when they handle the events `MPR_SIG_REL_UPSTRM` and
`MPR_SIG_REL_DNSTRM`, which the library leaves to them; `LastArrives` about those where only the
first signal is set. In the seventh chain, whose second map has a narrower scope than the
middle signal has instances, the first application does not release what others end, so that
`InstanceEnds` says nothing of it: what leaves the scope there (section 5) is never released
behind the map. The sequential parts have no fairness: their properties
are invariants.

## 5. Findings

`scope_added`: `mpr_map_add_scope` stages the name of a device as an addition
(`map.c:306`); `mpr_record_add_to_msg` writes "none" for a scope record that is
not a list of devices (`table.c:549`); and `mpr_map_set_from_msg` looks at the
property without the bits that mark an addition, so that the case for one
(`map.c:1407`) is never reached and the message passes for a new, empty list. The device is not
added, and the scopes that the map had are gone. (`mapper.h:495`: "After taking
effect, this setting will cause instance updates originating at this device to
be propagated across the map.")

`scope_blocked`: `mpr_rtr_process_sig` asks for the scope when a signal changes, and
marks the index of the instance (`router.c:182`). The release of the instance resets the
slot and leaves the mark (`router.c:131`), and `mpr_map_send` evaluates what is marked and
gives it the id of the instance that has the index by then, without asking for the scope
(`map.c:487`). The middle signal of `Scoped` holds an instance of device 1, whose value
marks the index; the release comes before the next poll, the application sets an instance
of its own, which takes the place and which the scope blocks, and the poll sends the
zero of the slot for it. Its release is in no scope, so that the input behind the map keeps the
instance. (`mapper.h:504`: "After taking effect, this setting will cause instance updates
originating at this device to be blocked from propagating across the map.") Both maps
are processed at their sources, as they are unless somebody asks for something else.

### Seen while modelling

These have no run of their own. Where a model shows one, the constants that do
are given; where the model is kept away from one, the restriction is named in
section 7.

*Names, subscriptions, links, maps*

- `network.c:572`: `mpr_net_add_dev` puts the ordinal of a device that is
  already locked back to 0 when the interface is changed; it is registered
  again at ordinal 0 under its old cached name and with an id of the new one
  (`network.c:711`: "Once the ordinal is locked it won't change."). `NameAlloc`
  with `CanReinit = TRUE` violates `LockedOrdinalKept`.
- `network.c:67`: `inform_device_subscribers` passes `MPR_DEV` for a message
  type; the value is that of `MSG_DEV_MOD`. Subscribers are sent a request to
  modify and not the state of the device, and the dirty mark is cleared.
  `Subscribers` with `RemoteMods = TRUE` violates `DeviceUpToDate`, which is in no run.
- `link.c:53`: the request of a new link, which has no lease, ends the
  subscription that the same program holds at the device. `Discovery` with
  `LinkToSubscribed = TRUE` violates `SubscriptionHeld`.
- `network.c:1662`: `handler_mapped` applies the properties of every `/mapped`, at
  the source too, although the source is in charge of the expression: the
  `override` argument of `mpr_map_set_from_msg` is not used (`map.c:1266`: "if
  'override' flag is not set, only remote properties can be set"). When both ends
  sent `/mapTo`, the destination sends two `/mapped`; one that was sent before a
  modification undoes it at the source. `MapHandshake` with `Expr = {"e", "f"}`,
  `Past = {}`, `CanRename = FALSE` violates `SameExpr`.
- `network.c:671`: a link that was idle is removed together with the map that
  just got ready over it, without any loss: nothing refreshes the clock of the
  link when a map gets ready. `LinkPing` with a `SetupTime` longer than the
  time-out leaves violates `UsedLinkKept`; the theorem `UsedLinkStays` says how
  much is allowed.
- A lost `/mapped` leaves one end ready and the other active for good
  (`network.c:1679`): nothing is sent again, `mpr_graph_cleanup` expires staged
  maps only, and both ends go on pinging. Asking for the map again does not help,
  because the end that is active takes `/map` for a modification
  (`network.c:1513`). `MapHandshake` shows it if `Together` is stated for runs
  with loss.
- A map to a signal that the source does not have stays staged for good when other
  maps keep the link alive (`graph.c:145`): the bit `MPR_STATUS_LINK_KNOWN` lifts
  its status above `MPR_STATUS_STAGED`. `LinkBusy = TRUE` with `CanRename` violates `Settles`.
- Ids may differ between the ends: a destination whose record expired while its
  `/mapTo` was under way gives the next one a new id. Messages carry the names
  too, so nothing gets lost, except an `/unmap` or a modification by the id of
  the other end.
- A device that makes a map itself (`mpr_map_new`) has a record without slots in
  the router until the handshake reaches it. `handler_mapped` takes the status of
  the sender for such a record and then sends over its link, which is not set
  (`network.c:1678`).
- `handler_name_probe` and `handler_name` serve `net->devs[0]` only: a second
  device on one graph is never registered (`network.c:1277`). `NameAlloc` with
  `NetOf` mapping two devices to one process shows it as a violation of
  `EventuallyRegistered`.
- `handler_unmap` and `handler_map_mod` announce a map between two signals of
  one device as an incoming map only (`network.c:1857`, `network.c:1793`).
  `Subscribers` with `Maps = {"local"}` shows it; the theorem `SignalsInformed`
  says that signals are not affected.
- Two processes with the same random id take each other's probe for their own;
  `DistinctIds = FALSE` shows two devices with one name.
- `handler_logout` skips a character of the prefix before it compares
  (`network.c:1013`), so ordinals are given back only for a device whose prefix
  has one more character in front (`Shifted`).
- The dirty mark is overwritten by each set (`table.c:352`: a later set of an
  equal value clears it) and cleared by the answer to one newcomer, whatever the
  others still wait for (`device.c:1018`); and a map that gets ready or
  goes sends `/modify` for its device, as above, and clears it too. Two peers, `SetResults = {TRUE, FALSE}` or a map show one
  each: `DeviceUpToDate` of `Subscribers` is violated, so that no run and no
  theorem promises a subscriber the properties of a device.
- `graph.c:81`: the words for one direction of maps are not those the receiver
  knows (`network.c:1063`), so a subscription to `MPR_MAP_IN` alone asks for
  nothing. `FlagSets = {{"map_in"}}` violates `SubscriptionHeld`; the theorem
  `LeaseNeverEnds` carries the condition that excludes it.
- `mpr_graph_unsubscribe(g, NULL)` does nothing if `autosub` is 0, whatever
  subscriptions to single devices exist (`graph.c:122`).
- Changing the autosubscription from one set of flags to another leaves existing
  subscriptions with the old ones (`graph.c:98`).

*Records and names of maps*

- A signal whose map is removed by `handler_unmapped`, `handler_sig_removed` or
  `_check_dev_status` keeps a slot in the router that points to a map that was
  freed (`network.c:1883`); `Records` reaches it without `orderly`.
- The counts of incoming and outgoing maps of a link are swapped when a map gets
  ready (`map.c:1244-1255`); a map removed from the graph only leaves its slots
  and the count of its link (`EmptyNotPinged` of `Records` fails without its condition
  `orderly`), so that a link may be pinged that needs no ping, never the other
  way round (`ReadyCounted`).
- New records of a map with several sources have slot ids 0 throughout
  (`graph.c:660`), so that the properties of the first source are applied to all.
- A `/mapped` of a source names only its own sources; if it arrives first it may
  complete the record of another map (`graph.c:659`); `MapNames` with
  `Disjoint = FALSE` violates `ToldRight`. With sources on three devices this happens
  even if each part alone fits one map only: of two maps, one from signals 1, 2, 3 and one from
  1 to 4, on devices A, B, B, C, the parts of A and B of the second together become the sources
  of the first (`Sources = 1 .. 4`, `SourceOf` accordingly; `SourcesAssumption`
  excludes it). `mpr_map_new` with the same source
  twice returns an existing map that contains it.
- Sources are sorted by device and signal, and compared by full names, which
  differ for characters that sort before `/` (`map.c:29`).

*Instances*

- `_reserved_inst` sorts the array and then returns what is at the old place,
  which may be another instance (`signal.c:292`), an active one too if instances were
  removed before: `NumInst = 3` violates `OneOwner` for a signal that removes idle ones.
- Freeing a signal with an entry that the application has released and the sender
  has not leaves the id map in use for good: nobody gives up its `GID_refcount`
  (`signal.c:236`).
- An update without a global id is given an instance whatever the application released
  (`device.c:409`): for an input with instances it brings back the one that was
  released (`ReleasedStays`), and the entry it makes has no sender, so that
  a release by the application while an output has the same local id in use marks it
  `RELEASED_LOCALLY` for ever, over an id map that may be reused (`RefsExact`). The
  inputs of `MCInstances` that are updated this way have no instances or nothing else
  that would share them, and the theorems say so (`Regular`).
- `mpr_sig_remove_inst` passes the index of an instance where an index of an
  entry is expected (`signal.c:769`), and `mpr_sig_free` gives up references twice
  (`signal.c:196` and `238`): `RemoveSetups` of `MCInstances` violates `RefsExact` and
  `OneOwner` (`mapper.h:362` allows the removal of an active instance).
- Two inputs on which the application activates the same local id share one id map;
  releasing one leaves the entry of the other with an id map that may be reused
  (`signal.c:743-750`). In `Instances` the application does not set inputs.
- `mpr_dev_handler` gives up a reference for every release of an id that an entry
  names, also if the device made that entry itself and took none (`device.c:434`). An
  output that the application sets with the local id of an input's instance shares
  its id map (`signal.c:381-391`). A destination of the output that releases this
  instance takes the reference of the input; the application
  releases both signals, the id map goes to the reserve while the entry of the input
  names it, and a late update gives the input an instance that it had released. `Instances`
  sets `lent` with the first such release, and the setup `Through` of
  `MCInstances` reaches it: `RefsExact` and `ReleasedStays` say what holds up
  to there, and without `~lent` TLC violates both.
- An entry whose instance was released locally is kept until the sender releases
  it; there is no limit but `MAX_INSTANCES`, and the -1 of a full table is used
  as an index (`signal.c:956`).
- After the overflow handler ran, `mpr_sig_get_idmap_with_LID` goes on with an id
  map that may have been given back (`signal.c:421-434`); stealing releases
  an instance even if the update is dropped afterwards (`signal.c:533`).

*Data path*

- `sig->updated_inst` is set and never cleared (`signal.c:714`): an input that was
  set or released once no longer passes updates on.
- A new instance in the place of a released one is sent a zero, the value of the
  slot that was reset (`map.c:487`, `router.c:131`); a value and a release of
  one instance in one bundle give a spurious zero (`device.c:452-456`). `SameInstance` holds because
  of the receiver's guards and of what the chains are set up to do (`Orderly` of
  `DataPathProofs`). Outside of that TLC violates it: with a receiver that does not release
  at once, a value and a release in one bundle leave it with the zero of the reset slot; in
  `Crossed` of `MCDataPath`, where the middle device both receives and sends through
  its own maps, the slot of its input and the one of its output meet in one instance.
- With both maps processed at their sources, the middle signal may hold instances of which
  only some are in scope of its map. `map->updated` survives the release of an instance
  (`router.c:131`), and the next poll sends the zero of the slot for the instance that
  came in its place: run `scope_blocked`, above. For the same reason the value behind the
  second map may be of another instance than the one that has it, or the zero of a reset slot;
  `SameInstance` compares it at the third signal only if map 2 is processed there (`Exact`).
- A value set just before its instance is released is lost if the map is processed at
  the source; it was never evaluated.
- `mpr_dev_set_time` and a poll tag what they flush with the new time, not with
  the time the values were set at (`mapper.h:237`).
- `_process_incoming_maps` evaluates outgoing maps too (`device.c:685`; `map.c:548`:
  "only called for incoming maps"); a variable of the loop in
  `mpr_rtr_process_sig` is overwritten for signals without instances
  (`router.c:189`); an instance index is used as an index of id maps (`map.c:651`).

*Sequential parts*

- `value.c:78`, `value.c:90`: the copy to a longer or shorter buffer starts with the latest sample, so
  that it is the first one and the others follow oldest first, but puts the position behind them:
  at `mlen` of the old size, where the memory is zero, or at the number of samples copied from the end,
  which may be that of the new size and so behind the buffer (`types_internal.h:267`:
  "Current position in the circular buffer."). From one sample to two, the latest
  one reads 0; from three to two with the position at 0 it is 2. The next evaluation brings the
  position back and the order of what is written from then on is right; `HistoryRight` says
  this, and that what is behind is of the same instance.
- `value.c`: the number of active instances is decremented for destination slots
  that never increment it, and stays as it is when `mpr_value_realloc` empties the
  buffers of a source for a new type or length (`value.c:41-53`). `ActiveCounted`
  of `ValueBuffer` states the comment of `types_internal.h` for sources, and fails.
- `table.c:447`: setting a property that is marked as removed does not clear the
  mark if it comes by a message. `Properties` with `EditSets = {1, 3}` violates
  `CopyCatchesUp`. A wildcard removal removes one record only (`table.c:200`).
  A removal is announced once.
- `list.c`: `mpr_list_start` returns 0 for an empty list without freeing the query
  (`list.c:354`), so that nobody can free its header (`lost` in `Lists`);
  `mpr_list_get_idx` frees a list that is shorter (`mapper.h:550`);
  the size of a query counts from where it stands; combining a static list
  with a query dereferences a null context (`list.c:417`).
- `time.c`: `mpr_time_sub` gives 0 for two times within one second; the comparison
  is wrong for fractions more than half a second apart, or seconds more than 2^31 (`mapper.h:725`).
  `Times` states it as `CompareAsPromised`, which fails; `OrderRight`
  says of every pair of times whether the comparison is right.
- `map.c:386`: `_remove_scope` shifts from one place too late; "-@scope" without values is
  read beyond the message; a second `mpr_map_add_scope` before the push
  reads the bytes of the first name as pointers (`map.c:300`). The pointers of
  `map->scopes` and `dev->linked` outlive the devices (`graph.c:389`).
- Expressions: `y=1*(x+3)` and `y=0+x*2` are refused and `y=1*(x+3)*2` is misread,
  since what is dropped is an operand of several tokens (`expression.c:1599`; `moved` of
  `Parser`, `OperandKept`); the table simplifies `1%x`, `1|x`, `0||x`
  to the wrong values (`expression.c:307`); `y{-1}=10; y=y{-1}+x` does not start at 10 before
  the first release (`map.c:1178`); a division by zero keeps its step in the
  history (`expression.c:3393`); `(x+1).instances().count()` does not end
  (`expression.c:2290`); a reduced value that is assigned to a user variable
  is assigned for one instance (`expression.c:3745`).
- `_set_linear`: signals of integers get an integer slope; a source that is shorter
  than the first is padded by its length (`map.c:1098`); "-" after "?" loses
  the ends (`map.c:968`); numbers in scientific notation lose digits
  (`_trim_zeros`) or are misread (`expression.c:847`).
- `properties.c`: a key without values leaves its bits to the next one; a
  direction of a slot behind the first is cut off by a buffer of 16
  characters (`slot.c:92`).

*The OSC library*

- `lo_server_del_socket` moves sockets and not their buffers (`server.c:1814`):
  `Streams` with `Orderly = FALSE` violates `InOrder`. A partial send of a
  non-blocking socket is not noticed (`send.c:549`). A SLIP message in pieces of
  less than four bytes is taken for a length.
- A handler that unsets and sets its own callback makes a message with a pattern
  walk in a circle (`server.c:1966`; `WalkLive` is stated for `plain`). Methods
  are deleted by pattern, so that special characters in the name of a signal
  delete those of others (`device.c:574`).
- The time of a bundle is one global variable (`device.c:280`): a message
  without a bundle, or one behind a nested bundle, is handled with that of
  another.
- `pattern_match.c`: braces before another part miss a word that begins like a
  shorter one (`{ab,a}?`); `[a-]` does not match `a`; `*` crosses `/`.


## 6. The proofs

`tlapm` checks the modules `NameAllocProofs`, `SubscribersProofs`,
`LinkPingProofs`, `DiscoveryProofs`, `MapHandshakeProofs`, `InstancesProofs`, `DataPathProofs`
and `StructuresProofs`. Every theorem is about the
specification without fairness and for all values of the constants that satisfy
the named assumptions of the module (`ConstantsAssumption`, `LinkAssumption`,
`DiscoveryAssumption`, the three of `MapHandshake`, the two of `Instances`,
`SetupsAssumption` of `DataPath`, the eight of `Structures`); further hypotheses are stated in the theorem. Every
inductive invariant was first checked with TLC.

| theorem | hypothesis | argument |
|---|---|---|
| `NameAllocProofs!TypeCorrect` | none | with `HintsAhead` (a suggestion lies above the ordinal it answers, so hint arithmetic stays in range) and `RegisteredNamed` (an announcement has a name to send) |
| `SearchUp` | no change of interface | `HintsAhead`, and `Placed`: a process manages its own devices only |
| `NameMatches`, `LockedKept` | no change of interface | `NameInv`: registered implies locked, with the name of the locked ordinal |
| `NameStays` | none | a name is only cleared with the device |
| `NamesUnique`, `RegistryImplemented` | `Timely`: one device for each process, distinct ids, no change of interface, no loss, and what is sent arrives before half the quiet time is over | `Contest`: of two devices that are after one name at least one `Loses`. It is not locked, and it has counted a collision, or its last probe has not been read by the other yet, or the answer that tells it to go on is under way, each soon enough to come before it would lock |
| `SubscribersProofs!TypeCorrect`, `ObjectsInformed`, `SignalsInformed` | no local maps, for the second | `Up(net, Promised)`: each promised kind is known to a subscriber or waits *for everybody who asked for it*; every function on the bundle (`Send`, `Use`, `Add`, `Change`, `Tell`, `Announce`) has a lemma that it keeps this, and the handlers are compositions of them |
| `LeaseEnds` | none | `Apart`: no bundle for a single peer is open between two steps (each handler sends what it opened); `mpr_net_send` looks at the lease of everybody before it sends the one for all. `Ends(n, m, q)` says this of a function on the bundle, is transitive, and holds of each of them |
| `LinkPingProofs!TypeCorrect`, `UsedLinkStays` | `InTime`, maps over fresh links | a budget: `Covered(p)` says that a ping on its way, or the next one with all losses still allowed, arrives before the two stages of the time-out are used up; warnings and ticks keep the balance |
| `DiscoveryProofs!TypeCorrect`, `SubscriptionsReferToRecords` | none | `SubTimed`: a subscription is renewed before time passes beyond its last moment |
| `NotTakenForGone` | `LongestWait <= Expiry` | `Heard`: while nothing is lost, the age of the record and the time before the next `/sync` add up to at most `LongestWait`, or a `/sync` is on its way |
| `LeaseNeverEnds` | no links, flags that reach the receiver | `AskedFor`: the requests under way are cut at a position `i` such that no later one takes anything away, and request `i`, or the device if there is none, stands for the subscription and lasts at least as long as the graph believes |
| `MapHandshakeProofs!TypeCorrect`, `WorkingMapsReach` | none | `Sound`: what a record says of its link (the bit `MPR_STATUS_LINK_KNOWN`, or being ready or active) is true of the link. Every handler is a function; `Result` says that what it gives has the right types and is sound, there is one lemma per handler, and the actions are their composition |
| `BothEndsAgree` | `~ LinkBusy`: no other map keeps the link alive | `Hand`: a record that is known has a link and a signal (`Based`); the administrator's bus carries requests only (`BusKinds`); behind an active end a `/mapTo` on its way is followed by a `/mapped` (`Announced`); an end that is ready while the other works has a `/mapped` coming, or something that will bring one (`Hopeful`) |
| `ExactReferences`, `SingleOwner`, `ReleasedForGood` | `Regular`, and until the first release that takes a reference of another entry (`lent`) | `UntilLent`: `lent`, which stays, or the invariant. It says `Right(dev)`: the shape of entries (`Kept`), one entry per remote instance of an input (`Alone`) and per active instance (`Owned`), the ids of an output (`Labelled`), one id map per global id (`Named`), exact counters (`Counted`); every function on the device (`AddEntry`, `AddIdMap`, `ReleaseEntry`, `ActivateLID`, `ActivateGID`) has a lemma that it keeps this, and the two things they do to it have one each: an instance is claimed (`ClaimKeeps`), an entry gives something up (`GoneKeeps`); a release upstream gives up nothing if its id map has no reference (`gref` 0), and is the end else |
| `ValuesOfTheirInstance`, `BundlesInOrder` | `Orderly` | `Right(w, n)`, for the devices `n` and the bundles `w` on the first line: a value, and a slot that waits to be evaluated, belong to the instance that is held on their side of the map (`Owned`); the ids on the line are older than those to come, none that is held was released on it, and nothing comes behind a release (`Ordered`); what is sent is in scope, which with map 2 processed at its destination is true (`Scoped`); bundles and marks have their flag (`Flagged`). Every function on the devices keeps it; between the beginning of an instance and its first value the slots on its side are left out (`Nearly(w, n, K)`) |
| `StructuresProofs!PartsInvariant` | those of `Structures`, below | the conjunction of the eight invariants of the next rows, each for its own value of `which` |
| `HistoryIsRight` | `SizesAssumption` | `BufferInv`: the samples of an instance, read from `pos` (or from the beginning, if `pos` was left behind the buffer: `Place`) backwards and around the end of the ring, are the latest ones that were written since the last resize, newest first (`Ring`), and behind them zeros and samples that this instance had before it. The lemmas are about the ring (`BackIs`, `BackFollows`: one step on is one step further back), and `ResizedAgrees` says what a resize keeps |
| `CopiesAreRight`, tables | `TableAssumption` | `TableInv`: rows are sorted by key, a mark is on the rows without value and only there (`Marked`, `Edited`), also in messages; `Told`: for each key the last message under way that has a row for it says what was announced last, or the copy does if there is none. `Put` says what a search, a shift and an insertion do to a table as a set of rows, `MsgIs` and `ClearIs` what a whole message and the removal of all marked rows do |
| `CopiesAreRight`, names | `NamesAssumption` | `NamesInv`: an array holds each device once, and what is announced last (the copy, if nothing is under way) names the devices in scope at the end in charge. `CutIs`, `CompactIs` and `AddedIs` say what the loops of removals, which skip an entry after each they take out, and of additions leave; half of the stale links go because no two entries in a row are skipped |
| `TimeIsRight`, stamps | `RadixAssumption` | `TimeInv`: the words are in range. By cases of carry and borrow, a sum and a shift are those of the numbers modulo the square of `Radix`, and a difference lacks at most a second; the unsigned difference of two words, read as a signed one, has the sign of the true one exactly up to half the range (`Apart`), and the opposite one beyond |
| `TimeIsRight`, clocks | `ClocksAssumption` | `ClocksInv`: a ping under way that is the last one of its sender left at the time of its clock, and one that answers the last ping of the other knows when that one was sent, less what it took and the time it was held (`OnTheWay`, `Heard`); an offset that has been estimated is `Close` |
| `RecordsAreRight`, records | `MapsAssumption` | `RecInv`: every record has what it points to (`Pointed`), what is ready is in the router (`Staged`), a link counts a ready map if there is one (`Paid`; the link of a device to itself counts them all, since it is given up by number), slots are at an end of their map (`Placed`); with `orderly` the slots are exactly those of the maps (`Live`). Each handler is a function on the records with a lemma that it keeps this |
| `RecordsAreRight`, names of maps | `SourcesAssumption` | `MapNamesInv`: no two records have the same sources or the same id, a record with an id has all sources of that map or one device's part of them, and one the destination told of has them all. Sorted arrays of the same sources are equal (`SameSeq`) |
| `ListsAreRight` | `ListsAssumption` | `ListInv`: the headers are a `Forest`, whose roots are the lists that are held or lost and in which nothing is below two of them; a walk has found what is due down to where it stands, and behind that what is due is what it accepts (`Walk`). What a header accepts depends on the headers below it only (`AcceptsAlike`), so a step of one list leaves the walks of the others. `ContinueIs`, `StartIs` and `GoOnIs` give the outcome of a step along the chain, and each action has a lemma |

`UsedLinkStays` gives numbers: with `TIMEOUT_SEC` 10, periods of 5 to 8 s and
the 10 s of `mpr_link_init`, one ping lost in a row and 4 s of set-up are within
the hypothesis, two lost pings are not. `NotTakenForGone` needs 8 <= 10 and no
loss: one lost `/sync` may make a graph drop a live device, from which it
recovers by the next one (`Heals`, model-checked).

`Timely` is tight in this respect: with messages that take half of the quiet time
TLC violates both properties. A name is locked 2 s after the last collision in the
code, which leaves a message on the local network less than a second.

The hypotheses `~ LinkBusy` and `Regular` are where section 5 begins. A record that waits for its peer is never cleaned up while
other maps keep the link alive. `Regular` has two parts: nothing is freed
while the device is in use (removing an instance or a signal loses
references); and only signals without instances are updated without a global
id. Senders and destinations may name any id in any message. An entry that the device makes
for itself may share the id map of an input; a release of this id by a destination of the
entry's signal gives back the reference of the input, and `Lends` says when. From then on the code does
not keep the counters (section 5), so the theorems are about what comes before.

`Orderly` says that the last map is processed at its destination and that, where a map
is, the application of the receiver releases what its sender has released, and does not
set the signal itself. Of the seven chains of the run `data_path` five are such chains, and in the two whose maps are both
processed at their sources TLC finds the properties kept as well, `SameInstance` at the third signal
aside (`Exact`). Outside of these TLC finds them violated (section 5).

The assumptions of `Structures`. Sizes are not zero, `Radix` is even, a clock has one peer, delays are
bounded, maps have signals for ends: the code has no other. Three are closer to what the code
needs. `TableAssumption` keeps a key from being both set by the other program and removed by
anybody, since a mark may otherwise stay on a row that has a value (section 5, `table.c:447`).
`NamesAssumption` says that the devices are finitely many and none is called 0, which stands for
"all" there. `ListsAssumption` numbers the objects in the order in which they appear, and says that
a condition is a set of them. `SourcesAssumption` puts the sources on at most two devices, and `Mpn` has
`Disjoint = TRUE`: in either case else a record may be completed into one of another map
(section 5, `graph.c:659`).

Several proofs need induction over data: a set of numbers has a first one (`Least`), the
messages of a bundle are handled one after another (`HandledInTurn`, `AllHandled`), and so are the
rows of a message, the rows that are cleared, and the names of an array (the lemmas
`...InTurn` of `StructuresProofs`). The
library's induction rules take an operator as a parameter, which the provers cannot
instantiate; `SetInduction` states the rule for a set instead and follows from the fact that
an injection of a finite set into itself reaches every element. It serves for recursive functions,
but not for what `RECURSIVE` operators compute.

Only model-checked: everything under fairness (`EventuallyRegistered`,
`LapsedDropped`, `HalfOpenEnds`, `StaleForgotten`, `Heals`, `GoneForgotten`, `Settles`,
`InstanceEnds`, `LastArrives`), which the prover cannot treat; and `ExpressionsRight` and
`MessagesRight`, of which TLC explores every sequence of operations up to a length.
`Parser`, `Evaluator` and `Patterns` compute over data with `RECURSIVE` operators, which the
prover does not accept; for `Streams`, `Messages`, `Linear` and `OscServer` no inductive
invariant was worked out.


## 7. What is not modelled

- *Numerics of expressions, crc32, the binary form of OSC messages*: data without
  control; names and ids are values, and hashes are taken to be free of collisions.
- *Examples, headers, the C++ wrapper, compression and compatibility*: they call
  the interface, declare it, or are vendored.
- *Maps*: `MapHandshake` has one source and one destination on two devices.
  Convergent maps, maps within one device, and maps that a device makes itself
  (section 5) are left out, and so are all properties but the expression: it
  stands for them, since it is the one whose place (`process_loc`) matters.
  Expressions are valid; where one is processed follows from the expression.
  The two devices do not subscribe to each other, so that only the handshake
  itself changes their records (`handler_unmapped` and `handler_sig_removed`
  are not reached). A link times out when nothing is under way: its twenty
  seconds are far longer than any message takes; the ageing itself is in
  `LinkPing`, whose map bookkeeping is reduced to "ready" and "gone".
- *Memory*: freed objects are absent. Where a stale pointer could be used the
  hazard is listed: the destination of the pending bundle, the device of a
  subscription.
- `NameAlloc`: one device per process starts, leaves and crashes; a second one
  on the same graph is never served (section 5). Compatibility handlers and the
  choice of the interface are left out.
- `Subscribers`: peers never crash (their entries end with the lease), the bundle
  is not lost on the way; `known` is about what was sent. Nothing is checked of the
  properties of the device itself, which the code does not keep its subscribers informed of
  (section 5, `DeviceUpToDate`).
- `LinkPing`: programs that call `mpr_dev_poll` only. In a program that also
  polls a graph of its own a device expires by `_check_dev_status`, which is
  in `Discovery`. The contents of a ping, latency and clock offset, are in `Clocks`.
- `Discovery`: one graph and one device, whose messages to others are left out;
  messages arrive within a tick or are lost. Subscriptions with a timeout chosen
  by the caller keep no record in the graph: `handler_dev` ignores the
  answers to them unless something else subscribes, so there is no state to
  speak of.
- `Discovery!Wire`: the words for one direction of maps do not reach the receiver;
  what a subscription should hold (`SubscriptionHeld`) is stated of what does,
  since no line of the documentation names the words.
- `Instances`: the application sets outputs only (it may release on either side),
  instances are removed and signals freed while idle, and entries stay below
  their limit (section 5). `RefsExact` and `ReleasedStays` end with the first release that
  takes a reference of another entry (`lent`, section 5); `OneOwner` does not.
- `DataPath`: maps of one source between instanced signals, which copy; the middle
  device does not both receive and send through its own maps (`Crossed`); behind a map that is
  processed at its source values are not compared with their instance (`Exact`); UDP as
  the protocol of a map is left out, so nothing gets lost.
- `Records` is explored with and without `orderly`: without it others may announce the end of
  maps that have an end here, and a device may expire before its link.
  `SlotsLive` needs it.
- `MapNames`: with `Disjoint`, a source announces a map only if no other record of
  the graph could be taken for it, and the sources are on at most two devices
  (section 5). The run has up to two maps, each with up to two sources.
- `NameLists`: all devices are known to both ends, so that no name is dropped.
  `mpr_map_remove_scope` is left out: the message it leads to is read beyond its
  end.
- `Clocks`: one life of each peer, and clocks that run equally fast. Jitter and the weights
  0.9 and 0.1 are a choice between keeping, moving and taking the new estimate.
- `Messages`: with `Clean`, a key without values is followed only by properties that
  it does not spoil. Types of values are a few names.
- `Parser`: the tokens of seven small alphabets; vectors, types and most functions
  are left out. `ParsedRight` and `NoneRefused` exclude expressions in which an operand
  of several tokens was moved (`moved`). `Evaluator` evaluates postfix expressions written by
  hand as the parser would leave them; `quotient` and the others divide as C does,
  over integers.
- `Linear`: numbers are exact fractions; with `Settled`, "-" does not follow "?" before a
  value has come in.
- `OscServer`: names are without special characters; handlers do what the library
  and an application do in them, one change each. `Streams`: with `Orderly`, a message
  is sent whole, the first piece of SLIP is as long as a length, and a connection
  is deleted when those behind it are between messages. Receiving errors and full buffers are left out.
- `Patterns`: braces are the last part of a pattern; `//` is left out.
- `Lists`: an object is removed only if no query stands at it, as in the loops of
  the library. A condition is the set of objects it accepts, which does not change
  while a walk is on. A copy is of a query or of a combination of two, and an index
  is 0 or 1.

