----------------------------- MODULE AtomicChain -----------------------------
(***************************************************************************)
(* What the ledger promises to the rest of the node, whatever a block      *)
(* contains and however its application is interrupted.                    *)
(*                                                                         *)
(* The node holds the committed state after genesis and after every block  *)
(* of its chain.  A block adds one state; a rollback removes the last one, *)
(* so that the state is again, field for field, the one the removed block  *)
(* was applied to.  Nothing in between is ever visible, and a block at or  *)
(* below the finalized height is never removed.                            *)
(***************************************************************************)
EXTENDS Naturals, Sequences

VARIABLES states, final
vars == <<states, final>>

Height == Len(states) - 1

Init == Len(states) = 1 /\ final = 0

\* incorporate_block, seen from outside: one more state, the floor may rise.
Extend ==
  /\ Len(states') = Len(states) + 1
  /\ SubSeq(states', 1, Len(states)) = states
  /\ final' >= final /\ final' <= Height

\* rollback_one_block, seen from outside.
Revert ==
  /\ Height > final
  /\ states' = SubSeq(states, 1, Height)
  /\ UNCHANGED final

Next == Extend \/ Revert

Spec == Init /\ [][Next]_vars

=============================================================================
