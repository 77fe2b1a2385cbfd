------------------------------ MODULE ForkChoice ------------------------------
(***************************************************************************)
(* Fork choice, sync, reorganisation and finality floor of a network of    *)
(* nodes (loops/core_loop.py, loops/consensus_loop.py, rollback.py,        *)
(* ops/peer_ops.py).                                                       *)
(*                                                                         *)
(* A node mints when no peer claims a heavier tip, else it follows a donor *)
(* of the heaviest one: forward if the donor knows its tip, and one block  *)
(* back if not, a limited number of times and never below its floor.  The  *)
(* floor rises with the chain while peers corroborate it.  A node that is  *)
(* on a fork below its floor adopts the snapshot of a heavier chain, or    *)
(* purges its own.                                                         *)
(*                                                                         *)
(* A block is the sequence of the contents of its ancestors and its own,   *)
(* as its hash commits to all of them: a chain is its tip, and <<>> is     *)
(* genesis.  Nodes keep the bodies of their whole chain.  Peers are polled *)
(* several times per block, so a node acts on their present tips, except   *)
(* that nodes may mint at once, before they hear of one another.           *)
(***************************************************************************)
EXTENDS Integers, Sequences, FiniteSets

CONSTANTS
  Nodes,
  Mempool,        \* [Nodes -> Nat], content of the block a node builds
  Bonding,        \* contents that add a share to the weight of later blocks
  Nets,           \* networks: sets of linked pairs {m, n} of nodes
  Seeds,          \* operator seeds
  MinPeers,       \* min_peers
  FinalityDepth,  \* finality_depth
  MaxRollbacks,   \* max_rollbacks, per burst
  MinAnswers,     \* min_answers, DEAD_FORK_QUORUM and SNAPSHOT_MIN_PEERS
  Prompt,         \* BOOLEAN: whether nodes sync in less than a block's time
  LongBench,      \* BOOLEAN: whether a bench outlasts any number of blocks, or one
  Fails,          \* BOOLEAN: whether fetches fail
  MaxHeight       \* bound: height at which production stops

FullNet == {{m, n} : m, n \in Nodes} \ {{n} : n \in Nodes}

ASSUME NodeAssumption ==
  /\ IsFiniteSet(Nodes)
  /\ Mempool \in [Nodes -> Nat] /\ Seeds \subseteq Nodes
  /\ \A net \in Nets : net \subseteq FullNet
ASSUME BoundAssumption ==
  /\ {MinPeers, MaxRollbacks, MaxHeight} \subseteq Nat
  /\ {FinalityDepth, MinAnswers} \subseteq Nat \ {0} /\ MaxRollbacks < FinalityDepth
  /\ {Prompt, LongBench, Fails} \subseteq BOOLEAN

VARIABLES
  chain,      \* latest_block of each node
  floor,      \* finalized_height
  benched,    \* rejected_tips
  rollbacks,  \* rollbacks of the current burst
  waited,     \* nodes that built a block while they knew of a better tip
  doomed,     \* nodes that have decided to purge their chain
  net,        \* who reaches whom
  healed      \* whether the network is whole, and serves, for good
vars == <<chain, floor, benched, rollbacks, waited, doomed, net, healed>>

-----------------------------------------------------------------------------
(* Blocks. *)

OnChain(b, c) == Len(b) <= Len(c) /\ b = SubSeq(c, 1, Len(b))
At(c, h)      == SubSeq(c, 1, h)
Genesis       == <<>>

\* cumulative_weight: a block adds 1 and the shares bonded as of its parent.
Work(b) ==
  LET bonds == {i \in 1 .. Len(b) : b[i] \in Bonding}
  IN Len(b) + Cardinality({ij \in bonds \X (1 .. Len(b)) : ij[1] < ij[2]})

\* Lowest hash: any total order will do.
LowerHash(b, c) ==
  \E i \in 1 .. Len(b) :
    i <= Len(c) /\ b[i] < c[i] /\ At(b, i - 1) = At(c, i - 1)

Better(b, c) == Work(b) > Work(c) \/ (Work(b) = Work(c) /\ LowerHash(b, c))

Highest(S) == CHOOSE h \in S : \A g \in S : g <= h

-----------------------------------------------------------------------------
(* What a node sees of its peers. *)

Peers(n) == {p \in Nodes : {n, p} \in net}

Tips(n)     == ({chain[p] : p \in Peers(n)} \ benched[n]) \cup {chain[n]}

\* A seeded bug: the first tip seen is kept on ties.
HeaviestFirstSeen(n) ==
  IF \A t \in Tips(n) : Work(t) <= Work(chain[n]) THEN chain[n]
  ELSE CHOOSE t \in Tips(n) : \A u \in Tips(n) \ {t} : Better(t, u)

Heaviest(n) == CHOOSE t \in Tips(n) : \A u \in Tips(n) \ {t} : Better(t, u)
Behind(n)   == Heaviest(n) # chain[n]

Donors(n)   == {p \in Peers(n) : chain[p] = Heaviest(n)}

\* A peer claims a heavier tip that was not rejected.
PeerAhead(n) ==
  \E p \in Peers(n) : Work(chain[p]) > Work(chain[n]) /\ chain[p] \notin benched[n]

\* The floor may rise with block b if the heaviest tip is on its chain, no
\* heavier one is off it, and some peer's is on it, or if there are no peers.
Corroborated(n, b) ==
  \/ Peers(n) = {}
  \/ /\ OnChain(Heaviest(n), b)
     /\ \A p \in Peers(n) : Work(chain[p]) > Work(chain[n]) => OnChain(chain[p], b)
     /\ \E p \in Peers(n) : OnChain(chain[p], b)

\* The floor after incorporate_block of b, a child of the node's tip.
Raised(n, b) ==
  IF Corroborated(n, b) THEN Highest({floor[n], Len(b) - FinalityDepth}) ELSE floor[n]

-----------------------------------------------------------------------------
(* The measured fork state, by what its search is shown to return (module  *)
(* ForkResolution): every reachable peer answers for every block it has.   *)

Answering(n, h) == {p \in Peers(n) : Len(chain[p]) >= h}

Measured(n, h, holders) ==
  Cardinality(Answering(n, h)) >= MinAnswers
    /\ 2 * Cardinality(holders) > Cardinality(Answering(n, h))

SameAt(n, h) ==
  Measured(n, h, {p \in Answering(n, h) : At(chain[p], h) = At(chain[n], h)})

ForkState(n) ==
  LET agreed == {h \in 0 .. Len(chain[n]) : SameAt(n, h)}
  IN IF agreed = {} THEN "unknown"
     ELSE IF Highest(agreed) = Len(chain[n]) THEN "behind"
     ELSE IF Highest(agreed) >= floor[n] THEN "reorg" ELSE "dead_fork"

-----------------------------------------------------------------------------
(* The network. *)

Init ==
  /\ chain = [n \in Nodes |-> Genesis] /\ floor = [n \in Nodes |-> 0]
  /\ benched = [n \in Nodes |-> {}] /\ rollbacks = [n \in Nodes |-> 0]
  /\ waited = {} /\ doomed = {} /\ net \in Nets /\ healed = FALSE

Relink ==
  /\ ~healed
  /\ net' \in Nets
  /\ UNCHANGED <<chain, floor, benched, rollbacks, waited, doomed, healed>>

Heal ==
  /\ ~healed
  /\ net' = FullNet /\ healed' = TRUE
  /\ UNCHANGED <<chain, floor, benched, rollbacks, waited, doomed>>

-----------------------------------------------------------------------------
(* Emergency mode. *)

\* A tip that is better by its hash only leaves a node the time to mint once
\* before it follows it, and so does the bench of a rejected one.
Waiting(n) == Behind(n) \/ (benched[n] # {} /\ ~LongBench)

\* The node is not about to purge its chain, nor is another whose purge is over
\* before anything else happens.
Active(n) == n \notin doomed /\ (Prompt => doomed = {})

\* The donor knows the node's tip: the next block of its chain.
FastForward(n, p) ==
  LET b == At(chain[p], Len(chain[n]) + 1)
  IN /\ Behind(n) /\ p \in Donors(n) /\ Active(n)
     /\ OnChain(chain[n], chain[p])
     /\ chain' = [chain EXCEPT ![n] = b]
     /\ floor' = [floor EXCEPT ![n] = Raised(n, b)]
     /\ UNCHANGED <<benched, rollbacks, waited, doomed, net, healed>>

\* It does not: the chains have parted.
Diverged(n) ==
  Behind(n) /\ \E p \in Donors(n) : ~OnChain(chain[n], chain[p])

RollBackOne(n) ==
  /\ Active(n) /\ Diverged(n)
  /\ rollbacks[n] < MaxRollbacks /\ Len(chain[n]) > floor[n]
  /\ chain' = [chain EXCEPT ![n] = At(@, Len(@) - 1)]
  /\ rollbacks' = [rollbacks EXCEPT ![n] = @ + 1]
  /\ UNCHANGED <<floor, benched, waited, doomed, net, healed>>

Spent(n)   == Diverged(n) /\ rollbacks[n] >= MaxRollbacks
Refused(n) == Diverged(n) /\ rollbacks[n] < MaxRollbacks /\ Len(chain[n]) <= floor[n]

\* The burst is spent, or a fetch has failed: the tip is benched.
GivesUp(n)  == Spent(n) \/ (Fails /\ ~healed /\ Behind(n))
WithHeaviestBenched(n) == [benched EXCEPT ![n] = @ \cup {Heaviest(n)}]

RejectTip(n) ==
  /\ Active(n) /\ GivesUp(n)
  /\ benched' = WithHeaviestBenched(n)
  /\ rollbacks' = [rollbacks EXCEPT ![n] = 0] /\ waited' = waited \ {n}
  /\ UNCHANGED <<chain, floor, doomed, net, healed>>

\* The bench of a tip is over.
Release(n) ==
  /\ Active(n) /\ benched[n] # {}
  /\ benched' = [benched EXCEPT ![n] = {}] /\ waited' = waited \ {n}
  /\ UNCHANGED <<chain, floor, rollbacks, doomed, net, healed>>

\* Nothing better is left, or the rollback was refused: the burst is over.
Leave(n) ==
  /\ Active(n)
  /\ \/ rollbacks[n] > 0 /\ (~Behind(n) \/ Refused(n))
     \/ n \in waited /\ ~Waiting(n)
  /\ rollbacks' = [rollbacks EXCEPT ![n] = 0]
  /\ waited' = {m \in waited : m # n \/ Waiting(m)}
  /\ UNCHANGED <<chain, floor, benched, doomed, net, healed>>

-----------------------------------------------------------------------------
(* Production. *)

Candidate(n) == Append(chain[n], Mempool[n])

\* Nobody has a block to fetch or to take back, unless the next one is due first:
\* a node that is behind by the hash only mints once before it follows.
Settled ==
  \A n \in Nodes \ doomed :
    /\ Behind(n) /\ (PeerAhead(n) \/ n \in waited) => Refused(n)
    /\ rollbacks[n] = 0

\* The caught-up gate: a node that is behind may still build the very block
\* a peer advertises.
CanMint(n) ==
  /\ n \notin doomed /\ Len(chain[n]) < MaxHeight
  /\ Cardinality(Peers(n)) >= MinPeers
  /\ Behind(n) => rollbacks[n] = 0
  /\ n \in waited => ~Waiting(n)
  /\ ~PeerAhead(n) \/ \E p \in Peers(n) : chain[p] = Candidate(n)

\* The nodes whose slot has come build a block each.
Produce(minting) ==
  /\ Prompt => Settled
  /\ minting # {} /\ \A n \in minting : CanMint(n)
  /\ chain' = [n \in Nodes |-> IF n \in minting THEN Candidate(n) ELSE chain[n]]
  /\ floor' = [n \in Nodes |-> IF n \in minting THEN Raised(n, Candidate(n)) ELSE floor[n]]
  /\ waited' = waited \cup {n \in minting : Waiting(n)}
  /\ UNCHANGED <<benched, rollbacks, doomed, net, healed>>

-----------------------------------------------------------------------------
(* Recovery. *)

\* The checkpoint a node advertises: its finalized block, if it can serve a
\* block after it.
Snapshots(p) == {s \in {At(chain[p], floor[p])} : s # Genesis /\ Len(chain[p]) > Len(s)}

\* Snapshots on strictly heavier chains that a seed, or enough peers, vouch for.
Anchors(n, above) ==
  LET offers(s) == {p \in Peers(n) : s \in Snapshots(p) /\ Work(chain[p]) > Work(chain[n])}
  IN {s \in UNION {Snapshots(p) : p \in Peers(n)} :
        /\ Len(s) > above
        /\ Cardinality(offers(s)) >= MinAnswers \/ offers(s) \cap Seeds # {}}

\* A tip given up, or a refused rollback, lets the measured fork state decide.
\* The finality floor becomes the snapshot's.
Reanchor(n) ==
  /\ Active(n) /\ (GivesUp(n) \/ Refused(n))
  /\ ForkState(n) \in {"reorg", "dead_fork"}
  /\ \E s \in Anchors(n, IF ForkState(n) = "reorg" THEN floor[n] ELSE 0) :
       /\ chain' = [chain EXCEPT ![n] = s]
       /\ floor' = [floor EXCEPT ![n] = Len(s)]
  /\ rollbacks' = [rollbacks EXCEPT ![n] = 0]
  /\ benched' = IF GivesUp(n) THEN WithHeaviestBenched(n) ELSE benched
  /\ UNCHANGED <<waited, doomed, net, healed>>

\* Where a peer's chain is compared with the finalized block: at its height,
\* or lower if the peer does not reach it.
ProbeHeight(n, p) ==
  LET deep == Highest({floor[p], Len(chain[p]) - FinalityDepth})
  IN IF Len(chain[p]) >= floor[n] THEN floor[n] ELSE deep

Probed(n)   == {p \in Peers(n) : ProbeHeight(n, p) > 0}
Agreeing(n) == {p \in Probed(n) : LET h == ProbeHeight(n, p) IN At(chain[p], h) = At(chain[n], h)}
Opposing(n) == Probed(n) \ Agreeing(n)

\* A seeded bug: weights that are not known count as heavier.
BestOpposingUnasked(n) == Work(chain[n]) + 1

BestOpposing(n) == Highest({Work(chain[p]) : p \in Opposing(n)})

\* Enough peers hold another block at the finalized height, and nobody as
\* heavy as they are holds the node's.
Stranded(n) ==
  /\ Cardinality(Opposing(n)) >= MinAnswers
  /\ \A p \in Agreeing(n) : Work(chain[p]) < BestOpposing(n)

\* A seeded bug: only the lighter side yields.
YieldsByWeight(n) == BestOpposing(n) > Work(chain[n])

\* The lighter side yields, or the one that everybody opposes, or the one that
\* nobody has agreed with for an hour: longer than any purge takes that has
\* been decided.
Yields(n) ==
  \/ BestOpposing(n) > Work(chain[n])
  \/ Opposing(n) = Nodes \ {n}
  \/ Agreeing(n) = {} /\ doomed = {}

\* The peers have been probed and the purge is decided...
Condemn(n) ==
  /\ n \notin doomed /\ floor[n] > 0
  /\ Stranded(n) /\ ForkState(n) = "dead_fork" /\ Yields(n)
  /\ doomed' = doomed \cup {n}
  /\ UNCHANGED <<chain, floor, benched, rollbacks, waited, net, healed>>

\* A seeded bug: the finality floor outlives the purge.
EscapeAboveGenesis(n) ==
  /\ n \in doomed
  /\ chain' = [chain EXCEPT ![n] = Genesis]
  /\ benched' = [benched EXCEPT ![n] = {}]
  /\ rollbacks' = [rollbacks EXCEPT ![n] = 0]
  /\ waited' = waited \ {n} /\ doomed' = doomed \ {n}
  /\ UNCHANGED <<floor, net, healed>>

\* ...then carried out, and the node restarts from genesis.
Escape(n) ==
  /\ n \in doomed
  /\ chain' = [chain EXCEPT ![n] = Genesis] /\ floor' = [floor EXCEPT ![n] = 0]
  /\ benched' = [benched EXCEPT ![n] = {}]
  /\ rollbacks' = [rollbacks EXCEPT ![n] = 0]
  /\ waited' = waited \ {n} /\ doomed' = doomed \ {n}
  /\ UNCHANGED <<net, healed>>

-----------------------------------------------------------------------------
Act(n) ==
  \/ RollBackOne(n) \/ RejectTip(n) \/ Release(n) \/ Leave(n)
  \/ Reanchor(n) \/ Condemn(n) \/ Escape(n)
  \/ \E p \in Nodes : FastForward(n, p)

Next ==
  \/ Relink \/ Heal
  \/ \E minting \in SUBSET Nodes : Produce(minting)
  \/ \E n \in Nodes : Act(n)

\* The loops of a node run about once a second, a bench runs out, and a
\* healed network stays whole.  Nothing is assumed of production but what Prompt
\* says.
Scheduling ==
  /\ WF_vars(Heal)
  /\ \A n \in Nodes :
       /\ WF_vars(RollBackOne(n)) /\ WF_vars(\E p \in Nodes : FastForward(n, p))
       /\ WF_vars(RejectTip(n)) /\ WF_vars(Release(n)) /\ WF_vars(Leave(n))
       /\ WF_vars(Condemn(n)) /\ WF_vars(Escape(n))

\* What a node may do time and again it does: a bench leaves it many passes to
\* fetch a block, every burst that gives up tries to adopt a snapshot, and peers
\* are probed as long as the node runs.
Persistence ==
  \A n \in Nodes :
    /\ SF_vars(\E p \in Nodes : FastForward(n, p))
    /\ SF_vars(Reanchor(n)) /\ SF_vars(Condemn(n))

Fairness == Scheduling /\ Persistence

Spec == Init /\ [][Next]_vars /\ Fairness

-----------------------------------------------------------------------------
\* Every variable has its type, no floor is above its tip and no burst over
\* its budget; a node that mints while behind is below the height bound.
TypeOK ==
  /\ chain \in [Nodes -> Seq(Nat)] /\ \A n \in Nodes : Len(chain[n]) <= MaxHeight
  /\ floor \in [Nodes -> Nat] /\ \A n \in Nodes : floor[n] <= Len(chain[n])
  /\ rollbacks \in [Nodes -> 0 .. MaxRollbacks]
  /\ benched \in [Nodes -> SUBSET Seq(Nat)]
  /\ waited \subseteq Nodes /\ doomed \subseteq Nodes
  /\ net \subseteq FullNet /\ healed \in BOOLEAN

\* No two nodes hold different blocks as final.  A partition may break this, as
\* the floor rises on what the reachable peers corroborate.
FloorsAgree ==
  \A m, n \in Nodes :
    floor[m] <= floor[n] => At(chain[m], floor[m]) = At(chain[n], floor[m])

\* Nodes that finalized different blocks while they were apart do not stay so: once
\* the network is whole some side yields, on its weight or on its being alone
\* (_maybe_escape_dead_fork), whatever was fetched, benched or probed in vain
\* before, and from then on no two nodes hold different blocks as final.
FloorsRejoin == <>[]FloorsAgree

\* The two sides of an even split never purge each other away: some node keeps
\* the chain it has, although the one that was lighter when a purge was
\* decided may have outgrown the other before it is carried out
\* (_maybe_escape_dead_fork).
NoMutualWipe ==
  [][(\E n \in Nodes : chain[n] # Genesis) => \E n \in Nodes : chain'[n] # Genesis]_vars

\* Where two chains part.
Parting(b, c) == Highest({h \in 0 .. Len(b) : OnChain(At(b, h), c)})

\* A fork that every node may roll back in one burst, with room for the block
\* it may add while it waits.
Shallow ==
  /\ \A n \in Nodes : benched[n] = {} /\ rollbacks[n] = 0
  /\ \A m, n \in Nodes :
       LET h == Parting(chain[m], chain[n])
       IN h >= floor[m] /\ Len(chain[m]) - h < MaxRollbacks

Agreed == \A m, n \in Nodes : chain[m] = chain[n]

\* Once the network is whole, the nodes of a fork within the budget of a burst
\* and above their floors come to hold one chain, ties included, although
\* nodes that tie mint on before they follow the lower hash
\* (minority_block_consensus, emergency_mode).
ShallowForksHeal == healed /\ Shallow ~> Agreed

\* "a node producing alone on a minority fork must never self-finalize it":
\* a final block that other nodes contradict is held by another node.
\* FALSE: a peer that lags at an old common ancestor corroborates any fork.
NoneFinalizesAlone ==
  \A n \in Nodes :
    LET final == At(chain[n], floor[n])
    IN (\E p \in Nodes : Len(chain[p]) >= floor[n] /\ ~OnChain(final, chain[p]))
         => \E p \in Nodes \ {n} : OnChain(final, chain[p])

\* "exactly one side of a split can ever purge and a mutual wipe is impossible".
\* FALSE of a split three ways, where everybody is opposed by all others.
OneSidePurges == doomed # Nodes

\* "only if NOBODY agrees with us: one agreeing peer means we are merely
\* poorly connected".  FALSE: a lighter peer's agreement is not counted.
NobodyAgrees == [][\A n \in Nodes : Condemn(n) => Agreeing(n) = {}]_vars

\* "the deterministic tie-break every node computes identically, so they all
\* converge on the lowest-hash tip".  FALSE of a fork deeper than a burst:
\* two nodes that roll back by turns pull each other forward again.
TiesConverge == healed ~> Agreed

\* "Equal or lower weight -> keep our tip (first-seen on ties)", "an equal-weight
\* peer never displaces our tip".  FALSE: on ties the lower hash is followed.
FirstSeenKept ==
  [][\A n \in Nodes : RollBackOne(n) => Work(Heaviest(n)) > Work(chain[n])]_vars
=============================================================================
