---------------------------- MODULE MCForkChoice ----------------------------
(***************************************************************************)
(* Small networks for ForkChoice.                                          *)
(***************************************************************************)
EXTENDS ForkChoice, TLC

CONSTANTS n1, n2, n3, n4

Pair  == {n1, n2}
Trio  == {n1, n2, n3}
Four  == {n1, n2, n3, n4}
Twins == Permutations({n1, n2}) \cup Permutations({n3, n4})

\* What nodes build: a block of their own, or the same as a twin.
OwnPairPool == (n1 :> 1) @@ (n2 :> 2)
OwnPool     == (n1 :> 1) @@ (n2 :> 2) @@ (n3 :> 3)
SidesPool   == (n1 :> 2) @@ (n2 :> 2) @@ (n3 :> 1)
TwinPool    == (n1 :> 1) @@ (n2 :> 2) @@ (n3 :> 2)
SplitPool   == (n1 :> 1) @@ (n2 :> 1) @@ (n3 :> 2) @@ (n4 :> 2)

Whole     == {FullNet}
Apart     == {{}, FullNet}
OneAstray == {{{n1, n2}}, FullNet}

\* One node is cut off until the network heals, or is reached at times through
\* another.
Parted  == {{{n1, n2}}}
Bridged == {{{n1, n2}}, {{n1, n2}, {n2, n3}}}

\* The network has just healed, and nodes hold these chains, none final above
\* the given height.
Healed(chains, height) ==
  /\ chain \in chains /\ floor = [n \in Nodes |-> height]
  /\ benched = [n \in Nodes |-> {}] /\ rollbacks = [n \in Nodes |-> 0]
  /\ waited = {} /\ doomed = {} /\ net = FullNet /\ healed = TRUE

\* Each node has mined alone, or with its twin, up to a height.
OwnChains(height) == {[n \in Nodes |-> [i \in 1 .. height |-> Mempool[n]]]}

\* An even split has just healed.  Both sides have final blocks of their own, and
\* the shorter one has bonded in its first block.
SplitInit == Healed({[n \in Nodes |-> <<Mempool[n] + 2, Mempool[n]>>]}, 1)

\* A shallow fork of any shape.
Branches    == UNION {[1 .. k -> {1, 2}] : k \in 0 .. MaxRollbacks}
ShallowInit == Healed([Nodes -> Branches], 0) /\ Shallow
ShallowSpec == ShallowInit /\ [][Next]_vars /\ Scheduling

\* A tie as deep as MaxHeight.
DeepTieInit == Healed(OwnChains(MaxHeight), 0)
DeepTieSpec == DeepTieInit /\ [][Next]_vars /\ Fairness
=============================================================================
