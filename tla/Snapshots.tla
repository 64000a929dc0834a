----------------------------- MODULE Snapshots ------------------------------
(***************************************************************************)
(* What operations with several reads have in common: a chain whose state   *)
(* at block or slot b is world.states[b], and which moves between two       *)
(* reads.  A read that names a block sees the state of that block, one that *)
(* does not that of the latest block its node has.                          *)
(***************************************************************************)
EXTENDS Request

CONSTANTS
  StateLag,   \* how far behind a node may be
  MaxStates   \* bound: the height at which the chain of an instance stops

Now == Len(world.states)
Recent == {b \in 1..Now : b >= Now - StateLag}

\* A step of an operation that leaves the world alone.
ReadOn(a) == answer' = a /\ UNCHANGED <<request, world>>

\* The chain moves to one of some states.
Advance(states) ==
  /\ Now < MaxStates
  /\ \E s \in states : world' = [world EXCEPT !.states = Append(@, s)]
  /\ UNCHANGED <<request, answer>>
=============================================================================
