---------------------------- MODULE ForkResolution ----------------------------
(***************************************************************************)
(* How a node measures where its chain parts from its peers'               *)
(* (ops/fork_resolution.py, called by core_loop._fork_state).              *)
(*                                                                         *)
(* The node asks each peer for its block hash at one height after another. *)
(* A peer answers for the heights it holds, which are a window of its      *)
(* chain: old bodies are pruned, and it may be behind.  Any answer may be  *)
(* lost.  From these probes the search derives the highest height at which *)
(* the node agrees with the majority, and from that height a verdict on    *)
(* which the recovery of core_loop acts.                                   *)
(*                                                                         *)
(* Every probe is one step, so that answers are lost anew at each of them. *)
(***************************************************************************)
EXTENDS Integers, FiniteSets

CONSTANTS
  Peers,       \* the peers asked
  Worlds,      \* what the node and its peers hold: a set of records, see World
  MinAnswers,  \* min_answers of majority_hash
  Sweep,       \* _SWEEP, resolution of the uniform sweep
  NONE         \* no answer, no majority, not found

(***************************************************************************)
(* A world: the node's tip and finalized height, and for each peer the     *)
(* heights it holds (`first' to `last'), the last height up to which its   *)
(* chain is the node's (`parts'), and the name of the chain it is on above *)
(* (`branch').  `lossy' says whether answers may be lost.                  *)
(***************************************************************************)
IsWorld(w) ==
  /\ {w.tip, w.finalized} \subseteq Nat
  /\ w.finalized <= w.tip /\ w.lossy \in BOOLEAN
  /\ \A p \in Peers :
       /\ {w.first[p], w.last[p]} \subseteq Nat /\ w.parts[p] \in Int
       /\ w.branch[p] \notin {"ours", NONE}

ASSUME PeersAssumption == IsFiniteSet(Peers)
ASSUME WorldAssumption == \A w \in Worlds : IsWorld(w)
ASSUME NumberAssumption == {MinAnswers, Sweep} \subseteq Nat \ {0} /\ NONE \notin Int
ASSUME NoneAssumption == NONE \notin {"ours", "same", "other"}

VARIABLES
  world,     \* what the node and its peers hold, fixed during one search
  at,        \* which probe comes next
  lo, hi,    \* the interval of the binary search in progress
  step,      \* doubling stride, or number of the sweep's next probe
  floor,     \* lowest height the majority can answer
  ceiling,   \* `tip' of find_common_ancestor, lowered if nobody holds ours
  ancestor,  \* the result of find_common_ancestor
  state      \* the verdict of resolve
vars == <<world, at, lo, hi, step, floor, ceiling, ancestor, state>>

-----------------------------------------------------------------------------
(* One probe. *)

HashOf(p, h) == IF h <= world.parts[p] THEN "ours" ELSE world.branch[p]
Holders(h)   == {p \in Peers : world.first[p] <= h /\ h <= world.last[p]}
Answering(h) == IF world.lossy THEN SUBSET Holders(h) ELSE {Holders(h)}

\* A strict majority of those who answer, if enough do.
Majority(h, answering) ==
  {x \in {HashOf(p, h) : p \in answering} :
     /\ Cardinality(answering) >= MinAnswers
     /\ 2 * Cardinality({p \in answering : HashOf(p, h) = x}) > Cardinality(answering)}

MajorityHashes(h) == UNION {Majority(h, answering) : answering \in Answering(h)}

\* Without a majority the probe is repeated, and fails only if each time.
Unanswered(h) == \E answering \in Answering(h) : Majority(h, answering) = {}

\* What `agrees' may answer: the majority's hash is the node's, is another,
\* or there is none.
Agrees(h) ==
  {IF x = "ours" THEN "same" ELSE "other" : x \in MajorityHashes(h)}
    \cup {a \in {NONE} : Unanswered(h)}

-----------------------------------------------------------------------------
(* The search, probe by probe. *)

Goto(label)  == at' = label
SearchOver(from, to) == lo' = from /\ hi' = to
Keep(x)      == UNCHANGED x
Found(a)     == ancestor' = a /\ Goto("classify")

Init ==
  /\ world \in Worlds
  /\ at = "stride" /\ lo = world.tip /\ hi = 0 /\ step = 1
  /\ floor = 0 /\ ceiling = world.tip /\ ancestor = NONE /\ state = NONE

\* Back from the tip with doubling steps to any height somebody can answer.
Stride ==
  /\ at = "stride" /\ lo > 0
  /\ \E a \in Agrees(lo) :
       IF a # NONE THEN Goto("floor") /\ Keep(<<lo, step>>)
                   ELSE step' = 2 * step /\ lo' = world.tip - 2 * step /\ Keep(at)
  /\ Keep(<<world, hi, floor, ceiling, ancestor, state>>)

\* Then genesis, then heights evenly spread over the range.
ProbeGenesis ==
  /\ at = "stride" /\ lo <= 0
  /\ \E a \in Agrees(0) :
       IF a # NONE THEN lo' = 0 /\ Goto("floor") /\ Keep(step)
                   ELSE step' = 1 /\ Goto("sweep") /\ Keep(lo)
  /\ Keep(<<world, hi, floor, ceiling, ancestor, state>>)

SweepHeight == world.tip - (world.tip * step) \div Sweep

SweepRange ==
  /\ at = "sweep" /\ step < Sweep /\ SweepHeight > 0
  /\ \E a \in Agrees(SweepHeight) :
       IF a # NONE THEN lo' = SweepHeight /\ Goto("floor") /\ Keep(step)
                   ELSE step' = step + 1 /\ Keep(<<lo, at>>)
  /\ Keep(<<world, hi, floor, ceiling, ancestor, state>>)

NothingAnswerable ==
  /\ at = "sweep" /\ (step >= Sweep \/ SweepHeight <= 0)
  /\ Found(NONE)
  /\ Keep(<<world, lo, hi, step, floor, ceiling, state>>)

\* The lowest answerable height: genesis, or by bisection below the anchor.
LowestAnswerable ==
  /\ at = "floor"
  /\ \E a \in Agrees(0) :
       IF a # NONE THEN floor' = 0 /\ Goto("top") /\ Keep(<<lo, hi>>)
                   ELSE SearchOver(0, lo) /\ Goto("raise") /\ Keep(floor)
  /\ Keep(<<world, step, ceiling, ancestor, state>>)

Middle == (lo + hi) \div 2
\* A seeded bug: an interval without a height in between is still divided.
ClosedWhenEmpty == hi - lo <= 0
Closed == hi - lo <= 1

RaiseFloor ==
  /\ at = "raise"
  /\ \/ /\ Closed
        /\ floor' = hi /\ Goto("top") /\ Keep(<<lo, hi>>)
     \/ /\ ~Closed
        /\ \E a \in Agrees(Middle) :
             IF a = NONE THEN SearchOver(Middle, hi) ELSE SearchOver(lo, Middle)
        /\ Keep(<<at, floor>>)
  /\ Keep(<<world, step, ceiling, ancestor, state>>)

\* At the node's own tip, or at the height the search was lowered to.
ProbeTop ==
  /\ at \in {"top", "lowered"}
  /\ \E a \in Agrees(ceiling) :
       \/ a = "same" /\ Found(ceiling)
       \/ a = "other" /\ Goto("lowest") /\ Keep(ancestor)
       \/ a = NONE  /\ at = "top"     /\ Goto("ahead") /\ Keep(ancestor)
       \/ a = NONE  /\ at = "lowered" /\ Found(NONE)
  /\ Keep(<<world, lo, hi, step, floor, ceiling, state>>)

\* A seeded bug: the search below the node's tip starts at genesis again,
\* where a pruned fleet answers nothing.
HighestFromGenesis ==
  /\ at = "ahead"
  /\ \E a \in Agrees(floor) :
       IF a = NONE THEN Found(NONE) /\ Keep(<<lo, hi>>)
                   ELSE SearchOver(0, ceiling) /\ Goto("lower") /\ Keep(ancestor)
  /\ Keep(<<world, step, floor, ceiling, state>>)

\* Nobody holds the node's tip: the highest height they do answer.
HighestAnswerable ==
  /\ at = "ahead"
  /\ \E a \in Agrees(floor) :
       IF a = NONE THEN Found(NONE) /\ Keep(<<lo, hi>>)
                   ELSE SearchOver(floor, ceiling) /\ Goto("lower") /\ Keep(ancestor)
  /\ Keep(<<world, step, floor, ceiling, state>>)

LowerCeiling ==
  /\ at = "lower"
  /\ \/ /\ Closed
        /\ ceiling' = lo /\ Goto("lowered") /\ Keep(<<lo, hi>>)
     \/ /\ ~Closed
        /\ \E a \in Agrees(Middle) :
             IF a = NONE THEN SearchOver(lo, Middle) ELSE SearchOver(Middle, hi)
        /\ Keep(<<at, ceiling>>)
  /\ Keep(<<world, step, floor, ancestor, state>>)

\* A seeded bug: pruning is taken for a fork below everything in range.
ProbeLowestUnpruned ==
  /\ at = "lowest"
  /\ \E a \in Agrees(floor) :
       \/ a = NONE  /\ Found(NONE) /\ Keep(<<lo, hi>>)
       \/ a = "other" /\ Found(floor - 1) /\ Keep(<<lo, hi>>)
       \/ a = "same" /\ SearchOver(floor, ceiling) /\ Goto("bisect") /\ Keep(ancestor)
  /\ Keep(<<world, step, floor, ceiling, state>>)

\* Disagreement at the lowest height says where the fork is only if nothing
\* was pruned below it.
ProbeLowest ==
  /\ at = "lowest"
  /\ \E a \in Agrees(floor) :
       \/ a = NONE  /\ Found(NONE) /\ Keep(<<lo, hi>>)
       \/ a = "other" /\ Found(IF floor > 0 THEN NONE ELSE floor - 1) /\ Keep(<<lo, hi>>)
       \/ a = "same" /\ SearchOver(floor, ceiling) /\ Goto("bisect") /\ Keep(ancestor)
  /\ Keep(<<world, step, floor, ceiling, state>>)

\* A seeded bug: the other end of the interval is returned.
BisectUpper ==
  /\ at = "bisect"
  /\ \/ /\ Closed
        /\ Found(hi) /\ Keep(<<lo, hi>>)
     \/ /\ ~Closed
        /\ \E a \in Agrees(Middle) :
             \/ a = NONE  /\ Found(NONE) /\ Keep(<<lo, hi>>)
             \/ a = "same" /\ SearchOver(Middle, hi) /\ Keep(<<at, ancestor>>)
             \/ a = "other" /\ SearchOver(lo, Middle) /\ Keep(<<at, ancestor>>)
  /\ Keep(<<world, step, floor, ceiling, state>>)

Bisect ==
  /\ at = "bisect"
  /\ \/ /\ Closed
        /\ Found(lo) /\ Keep(<<lo, hi>>)
     \/ /\ ~Closed
        /\ \E a \in Agrees(Middle) :
             \/ a = NONE  /\ Found(NONE) /\ Keep(<<lo, hi>>)
             \/ a = "same" /\ SearchOver(Middle, hi) /\ Keep(<<at, ancestor>>)
             \/ a = "other" /\ SearchOver(lo, Middle) /\ Keep(<<at, ancestor>>)
  /\ Keep(<<world, step, floor, ceiling, state>>)

-----------------------------------------------------------------------------
(* The verdict. *)

\* A seeded bug: the fork at the finalized block itself counts as below it.
ClassifyStrict(a) ==
  IF a = NONE THEN "unknown"
  ELSE IF a >= world.tip THEN "behind"
  ELSE IF a > world.finalized THEN "reorg" ELSE "dead_fork"

Classify(a) ==
  IF a = NONE THEN "unknown"
  ELSE IF a >= world.tip THEN "behind"
  ELSE IF a >= world.finalized THEN "reorg" ELSE "dead_fork"

\* Without an ancestor, one more probe, at the node's finalized height.
Resolve ==
  /\ at = "classify"
  /\ \/ /\ ancestor # NONE \/ world.finalized = 0
        /\ state' = Classify(ancestor) /\ Keep(ancestor)
     \/ /\ ancestor = NONE /\ world.finalized > 0
        /\ \E a \in Agrees(world.finalized) :
             IF a = "other"
             THEN state' = "dead_fork" /\ ancestor' = world.finalized - 1
             ELSE state' = "unknown" /\ Keep(ancestor)
  /\ Goto("done")
  /\ Keep(<<world, lo, hi, step, floor, ceiling>>)

Next ==
  \/ Stride \/ ProbeGenesis \/ SweepRange \/ NothingAnswerable
  \/ LowestAnswerable \/ RaiseFloor \/ ProbeTop \/ HighestAnswerable
  \/ LowerCeiling \/ ProbeLowest \/ Bisect \/ Resolve

\* The search runs to its end within one call of the block thread.
Spec == Init /\ [][Next]_vars /\ WF_vars(Next)

-----------------------------------------------------------------------------
(* Properties. *)

TypeOK ==
  /\ world \in Worlds
  /\ at \in {"stride", "sweep", "floor", "raise", "top", "ahead", "lower",
             "lowered", "lowest", "bisect", "classify", "done"}
  /\ lo \in Int /\ {hi, step} \subseteq Nat
  /\ floor \in 0 .. world.tip /\ ceiling \in floor .. world.tip
  /\ ancestor \in -1 .. world.tip \cup {NONE}
  /\ state \in {NONE, "unknown", "behind", "reorg", "dead_fork"}

Verdict(s) == at = "done" /\ state = s

\* Where the bounds of each stage lie.
Ranges ==
  /\ at \in {"stride", "sweep", "floor", "raise", "top", "ahead", "lower"} => ceiling = world.tip
  /\ at \in {"stride", "sweep"} => lo <= world.tip /\ floor = 0
  /\ at \in {"floor", "raise"} => 0 <= lo /\ floor = 0
  /\ at = "floor" => lo <= world.tip
  /\ at = "raise" => lo <= hi /\ hi <= world.tip
  /\ at \in {"lower", "bisect"} => floor <= lo /\ lo <= hi /\ hi <= ceiling
  /\ at = "bisect" => lo < hi \/ lo = ceiling

\* Each side of the interval stays where its answers put it: at `lo' a
\* majority of answers gave the node's own hash, at `hi' another one.
Bracketed ==
  /\ at \in {"lowest", "bisect"} => "other" \in Agrees(ceiling)
  /\ at = "bisect" => "same" \in Agrees(lo) /\ "other" \in Agrees(hi)

\* Which answers an ancestor rests on.
Explained(a) ==
  \/ a = ceiling /\ "same" \in Agrees(a)
  \/ a \in floor .. ceiling - 1 /\ "same" \in Agrees(a) /\ "other" \in Agrees(a + 1)
  \/ a = -1 /\ "other" \in Agrees(0)

Judged ==
  /\ at = "classify" => ancestor = NONE \/ Explained(ancestor)
  /\ at = "done" =>
       \/ state = "unknown" /\ ancestor = NONE
       \/ ancestor # NONE /\ Explained(ancestor) /\ state = Classify(ancestor)
       \/ state = "dead_fork" /\ "other" \in Agrees(world.finalized)

\* The search never leaves the range it was given, and what it concludes
\* rests on answers a majority gave (find_common_ancestor, resolve).
SearchInv == Ranges /\ Bracketed /\ Judged

\* A node told to sync forward is on its peers' chain with its own tip, and
\* one told to roll back shares with some peer the block it would return to
\* (resolve; _maybe_reanchor acts on the difference).
AncestorIsShared ==
  Verdict("behind") \/ Verdict("reorg") =>
    /\ ancestor \in 0 .. world.tip
    /\ \E p \in Holders(ancestor) : world.parts[p] >= ancestor

\* Without lost answers, and if those who answer are of one chain, the search
\* finds the height it is defined by: the highest answerable one with agreement.
\* A window too narrow for the sweep may be missed (_find_answerable: "finds any
\* window wider than (range / _SWEEP)").
OneChain == \A p, q \in Peers :
  world.parts[p] = world.parts[q] /\ world.branch[p] = world.branch[q]
Answerable == {h \in 0 .. world.tip : Cardinality(Holders(h)) >= MinAnswers}
Contiguous == \A g, h \in Answerable : g .. h \subseteq Answerable
WideEnough == \E g, h \in Answerable : world.tip <= (h - g + 1) * Sweep
Agreed     == {h \in Answerable : \A p \in Holders(h) : world.parts[p] >= h}
Highest(S) == CHOOSE h \in S : \A g \in S : g <= h

AncestorIsHighest ==
  at = "done" /\ ~world.lossy /\ OneChain /\ Contiguous /\ WideEnough /\ Agreed # {}
    => ancestor = Highest(Agreed) /\ state = Classify(ancestor)

\* The verdict that leads to a purge, or to an adoption below the floor, is
\* only given if a majority of answers named another block at or below the
\* node's finalized height, or nothing above that height could be answered
\* (resolve; _maybe_reanchor hands it to the escapes).
DeadForkHasWitness ==
  Verdict("dead_fork") =>
    \/ ceiling < world.finalized
    \/ \E h \in 0 .. world.finalized : "other" \in Agrees(h)

\* "An outage must never be read as a fork": if no peer holds another block
\* than the node's, the node is not told that it is on a fork
\* (the comment above _AGREE).
OutageIsNoFork ==
  (\A p \in Peers : world.parts[p] >= world.tip)
    => ~Verdict("reorg") /\ ~Verdict("dead_fork")

\* The search comes to an end whatever is lost (find_common_ancestor).
Terminates == <>(at = "done")
=============================================================================
