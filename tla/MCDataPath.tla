----------------------------- MODULE MCDataPath -----------------------------
(* Chains for DataPath: every pair of processing locations but the one     *)
(* whose middle device both receives and sends through its own maps        *)
(* (Crossed), with applications that set and release at both ends.         *)
EXTENDS DataPath

Chain(l1, l2, scope2, mutes, sets, prompt) ==
  [loc |-> <<l1, l2>>, scope |-> <<{1}, scope2>>, mutes |-> mutes, sets |-> sets, prompt |-> prompt]

MCSetups == {Chain("src", "dst", {1, 2}, {}, {1, 2}, {1, 2, 3}),
             Chain("src", "dst", {2}, {}, {1, 2}, {2, 3}),
             Chain("dst", "dst", {1, 2}, {}, {1}, {1, 2, 3}),
             Chain("src", "dst", {1}, {1}, {1}, {2, 3}),
             Chain("src", "src", {1, 2}, {}, {1, 2}, {1, 2, 3}),
             Chain("src", "src", {1}, {}, {1}, {1, 2, 3}),
             Chain("src", "src", {1}, {}, {1, 2}, {2, 3})}

(* Signal 2 has instances of device 1 and its own, and map 2 lets only the *)
(* former pass.                                                            *)
Scoped == {Chain("src", "src", {1}, {}, {1, 2}, {1, 2, 3})}

Crossed == {Chain("dst", "src", {1, 2}, {}, {1, 2}, {1, 2, 3})}
=============================================================================
