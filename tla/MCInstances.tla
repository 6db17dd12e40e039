---------------------------- MODULE MCInstances ----------------------------
(* Devices for Instances: an input that two remote instances update next   *)
(* to an output that shares its ids, whose destinations release upstream   *)
(* or not; two inputs; two outputs whose destinations release upstream;    *)
(* signals without instances.                                              *)
EXTENDS Instances

Device(ins, outs, plain, from, direct, up, steal, remove) ==
  [inputs |-> ins, outputs |-> outs, plain |-> plain, senders |-> from,
   direct |-> direct, upstream |-> up, steal |-> steal, remove |-> remove]

Nobody == [s \in {} |-> {}]
Two(ins) == [s \in ins |-> {11, 12}]
Thru == Device({"in"}, {"out"}, {}, Two({"in"}), {}, {}, "oldest", "never")
Through == Device({"in"}, {"out"}, {}, [s \in {"in"} |-> {11}], {}, {"out"}, "oldest", "never")
TwoIn == Device({"in", "in2"}, {}, {}, Two({"in", "in2"}), {}, {}, "newest", "never")
TwoOut == Device({}, {"out", "out2"}, {}, Nobody, {}, {"out", "out2"}, "overflow", "idle")
PlainIn == Device({"in"}, {"out"}, {"in"}, Two({"in"}), {"in"}, {}, "oldest", "idle")
PlainOut == Device({"in"}, {"out"}, {"out"}, [s \in {"in"} |-> {}], {"in"}, {}, "none", "never")
MCSetups == {Thru, Through, TwoIn, TwoOut, PlainIn, PlainOut}

(* An application that removes instances while they are active. *)
RemoveSetups == {Device({}, {"out"}, {}, Nobody, {}, {}, "none", "any")}
=============================================================================
