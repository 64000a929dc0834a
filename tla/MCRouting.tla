----------------------------- MODULE MCRouting -----------------------------
(***************************************************************************)
(* Small instances of Routing for TLC.  The orders are those of the built-in *)
(* registry, shortened: a keyed vendor, a second one, and the composite "rpc" *)
(* or the keyless "public" vendor.                                           *)
(***************************************************************************)
EXTENDS Routing, TLC

CONSTANTS alchemy, quicknode, public, rpc, r1, r2, t1, t2

Symmetry == Permutations(Request)

\* One table, one vendor order.
SoleOrder == [t \in Table |-> <<alchemy>>]
PairOrder == [t \in Table |-> <<alchemy, quicknode>>]
ThreeOrder == [t \in Table |-> <<alchemy, quicknode, public>>]
\* A reload shortens the order and disables the first vendor.
ReloadOrder == [t \in Table |->
  IF t = t1 THEN <<alchemy, quicknode, rpc>> ELSE <<quicknode, alchemy>>]
\* A keyless installation: the keyed vendors have no key.
KeylessUsable == [t \in Table |-> {public}]
AllUsable == [t \in Table |-> Vendor]
ReloadUsable == [t \in Table |-> IF t = t1 THEN Vendor ELSE {quicknode, rpc}]

Unlimited == [t \in Table |-> [v \in Vendor |-> NoLimit]]
CappedFirst == [t \in Table |-> [v \in Vendor |-> IF v = alchemy THEN 2 ELSE NoLimit]]
=============================================================================
