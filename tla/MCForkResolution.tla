--------------------------- MODULE MCForkResolution ---------------------------
(* A node of six blocks and three peers: on its chain, on a fork from it at   *)
(* any depth, or split over two forks; pruned below, behind, or ahead.        *)
EXTENDS ForkResolution

CONSTANTS p1, p2, p3

MCPeers == {p1, p2, p3}
Tip     == 6

\* What a peer may hold: everything, a pruned fleet's window, a peer behind
\* the node, windows the doubling stride jumps over, and one that the sweep misses.
Windows == {<<0, 8>>, <<0, 6>>, <<2, 7>>, <<3, 4>>, <<0, 4>>, <<5, 5>>, <<1, 1>>}

World(parts, branch, window, finalized, lossy) ==
  [tip |-> Tip, finalized |-> finalized, lossy |-> lossy,
   parts |-> parts, branch |-> branch,
   first |-> [p \in MCPeers |-> window[p][1]], last |-> [p \in MCPeers |-> window[p][2]]]

Same(x) == [p \in MCPeers |-> x]
OddOne(x, y) == [p \in MCPeers |-> IF p = p3 THEN y ELSE x]

\* Peers of one chain and any windows, no answer lost.
Calm == {World(Same(f), Same("x"), window, n, FALSE) :
           f \in {-1, 0, 2, 3, 5, 8}, window \in [MCPeers -> Windows],
           n \in {0, 3, 4}}
\* Peers of two chains, and lost answers.
Stormy == {World(OddOne(f, g), OddOne("x", "y"), OddOne(window, other), n, TRUE) :
             f \in {-1, 2, 3, 8}, g \in {2, 4, 8},
             window \in {<<0, 8>>, <<0, 4>>, <<2, 7>>, <<5, 5>>}, other \in {<<0, 8>>, <<2, 7>>},
             n \in {0, 3, 4}}

MCWorlds == Calm \cup Stormy
=============================================================================
