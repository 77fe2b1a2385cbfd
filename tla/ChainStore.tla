------------------------------ MODULE ChainStore ------------------------------
(***************************************************************************)
(* What a node keeps on disk, and what a crash leaves of it                *)
(* (ops/segment_store.py, the storage half of ops/block_ops.py and of      *)
(* core_loop.incorporate_block, rollback.py).                              *)
(*                                                                         *)
(* Four stores are written one after the other, never together: the        *)
(* append-only segment files with the bodies, the LMDB environment (state, *)
(* height index, locators: one write transaction at a time), the tip file  *)
(* block_ends.dat, and the in-memory tip.  A crash can fall between any    *)
(* two of these writes, and inside an append.                              *)
(*                                                                         *)
(* Ledger models what happens INSIDE the write transaction; here it is one *)
(* step, and the state is the bag of the effects of the blocks applied.  A *)
(* block hash covers the parent's hash and the state root as of the        *)
(* parent, so that a block IS the sequence of its ancestors' bodies and    *)
(* roots.                                                                  *)
(***************************************************************************)
EXTENDS Naturals, Sequences, FiniteSets, Bags

CONSTANTS
  Bodies,          \* transaction sets
  BlobBodies,      \* those with a blob, which are never pruned
  SegmentRecords,  \* records that fill a segment (SEGMENT_TARGET_BYTES)
  FinalityDepth,   \* memserver.finality_depth
  Retention,       \* eff_retention of prune_block_bodies
  NONE,            \* absent
  MaxHeight,       \* bound on the length of the chain
  MaxRecords       \* bound on the records ever appended

ASSUME BlobAssumption == BlobBodies \subseteq Bodies
ASSUME BoundsAssumption ==
  /\ SegmentRecords \in Nat \ {0} /\ FinalityDepth \in Nat \ {0}
  /\ {Retention, MaxHeight} \subseteq Nat /\ MaxRecords \in Nat \ {0}

(***************************************************************************)
(* Blocks and states.                                                      *)
(***************************************************************************)
Genesis == <<>>
Child(b, body, root) == Append(b, [body |-> body, root |-> root])
Parent(b)   == SubSeq(b, 1, Len(b) - 1)
LastOf(b)   == b[Len(b)]
Ancestors(b) == {SubSeq(b, 1, h) : h \in 0 .. Len(b)}
Effect(b)   == [height |-> Len(b), body |-> LastOf(b).body]
Effects(b)  == SetToBag({Effect(a) : a \in Ancestors(b) \ {Genesis}})

Extended(f, x, y) == [z \in DOMAIN f \cup {x} |-> IF z = x THEN y ELSE f[z]]
Removed(f, x)     == [z \in DOMAIN f \ {x} |-> f[z]]

VARIABLES
  files,        \* segment number -> records, each whole or torn
  written,      \* how many records were ever appended, for the bound
  loc,          \* block_loc: block -> segment and position of its record
  state,        \* the consensus state: effects of the blocks applied
  byNum,        \* block_by_num: height -> block
  byHash,       \* block_by_hash: the blocks applied
  finalized,    \* meta finalized_height
  prunedBelow,  \* meta pruned_below
  latest,       \* block_ends.dat, "latest_block"
  up, tip,      \* the process, and memserver.latest_block
  task,         \* what the block thread is in the middle of
  cut           \* history: a commit was once not followed by the tip file

lmdb == <<loc, state, byNum, byHash, finalized, prunedBelow>>
vars == <<files, written, lmdb, latest, up, tip, task, cut>>

LastSegment(segments) ==
  CHOOSE s \in DOMAIN segments : \A r \in DOMAIN segments : r <= s
Active == LastSegment(files)
Whole(b) == [block |-> b, whole |-> TRUE]
Torn(b)  == [block |-> b, whole |-> FALSE]

\* segment_store.read: the record found there, crc and hash checked.
HoldsIn(segments, place, b) ==
  /\ place.seg \in DOMAIN segments
  /\ place.at \in DOMAIN segments[place.seg]
  /\ segments[place.seg][place.at] = Whole(b)

ReadableIn(segments, b) == b \in DOMAIN loc /\ HoldsIn(segments, loc[b], b)
Readable(b) == ReadableIn(files, b)

Appended(record) == [files EXCEPT ![Active] = Append(@, record)]
Roll(segments, s) == Extended(segments, s + 1, <<>>)

NextPlace == [seg |-> Active, at |-> Len(files[Active]) + 1]

\* The block thread is between two blocks.
Resting == [step |-> "rest"]

\* A record is appended and fsynced, and a full segment is closed.
AppendTo(b) ==
  /\ written < MaxRecords /\ written' = written + 1
  /\ files' = LET segments == Appended(Whole(b))
              IN  IF Len(segments[Active]) >= SegmentRecords
                  THEN Roll(segments, Active) ELSE segments

\* The write failed and so did cutting it off: the tail is abandoned.
AbandonTail(b) ==
  /\ written < MaxRecords /\ written' = written + 1
  /\ files' = Roll(Appended(Torn(b)), Active)

Init ==
  /\ files = [s \in {0} |-> <<Whole(Genesis)>>] /\ written = 1
  /\ loc = [b \in {Genesis} |-> [seg |-> 0, at |-> 1]]
  /\ state = EmptyBag
  /\ byNum = [h \in {0} |-> Genesis] /\ byHash = {Genesis}
  /\ finalized = 0 /\ prunedBelow = 0
  /\ latest = Genesis /\ up = TRUE /\ tip = Genesis
  /\ task = Resting /\ cut = FALSE

At(step) == task.step = step
Idle == up /\ At("rest") /\ tip # NONE
Proceed(step) == task' = [step |-> step, of |-> task.of, block |-> task.block]

(***************************************************************************)
(* incorporate_block.  The block extends the in-memory tip and commits to  *)
(* the state root as of its parent, which verify_block compares with the   *)
(* root of the state the node has.                                         *)
(***************************************************************************)
Accept(body) ==
  /\ Idle /\ Len(tip) < MaxHeight
  /\ LET b == Child(tip, body, state)
     IN  IF b \in byHash
         THEN tip' = b /\ UNCHANGED task
         ELSE task' = [step |-> "save", block |-> b] /\ UNCHANGED tip
  /\ UNCHANGED <<files, written, lmdb, latest, up, cut>>

SaveBody ==
  /\ At("save") /\ AppendTo(task.block)
  /\ task' = [step |-> "locate", block |-> task.block, to |-> NextPlace]
  /\ UNCHANGED <<lmdb, latest, up, tip, cut>>

\* A failed write is cut off again, or its segment is given up; then a retry.
SaveFails ==
  /\ At("save") /\ AbandonTail(task.block)
  /\ UNCHANGED <<lmdb, latest, up, tip, task, cut>>

\* The locator's write failed, and the save is tried again.
LocateFails ==
  /\ At("locate")
  /\ task' = [step |-> "save", block |-> task.block]
  /\ UNCHANGED <<files, written, lmdb, latest, up, tip, cut>>

LocateBody ==
  /\ At("locate")
  /\ loc' = Extended(loc, task.block, task.to)
  /\ task' = [step |-> "apply", block |-> task.block]
  /\ UNCHANGED <<files, written, state, byNum, byHash, finalized, prunedBelow,
                 latest, up, tip, cut>>

\* block_index_put: insert or ignore.
Indexed(b) == IF Len(b) \in DOMAIN byNum THEN byNum
              ELSE Extended(byNum, Len(b), b)

ApplyBlock ==
  /\ At("apply")
  /\ state' = state (+) SetToBag({Effect(task.block)})
  /\ byNum' = Indexed(task.block) /\ byHash' = byHash \cup {task.block}
  /\ task' = [step |-> "point", of |-> "incorporate", block |-> task.block]
  /\ UNCHANGED <<files, written, loc, finalized, prunedBelow, latest, up, tip, cut>>

\* An exception while saving, or inside the write transaction.
Abandon ==
  /\ At("save") \/ At("apply")
  /\ task' = Resting
  /\ UNCHANGED <<files, written, lmdb, latest, up, tip, cut>>

(***************************************************************************)
(* set_latest_block_info, after either commit: the tip file, then the      *)
(* height index again.                                                     *)
(***************************************************************************)
\* Seeded: a rollback does not rewrite the tip file.
PointTipForward ==
  /\ At("point")
  /\ latest' = IF task.of = "rollback" THEN latest ELSE task.block
  /\ Proceed("reindex")
  /\ UNCHANGED <<files, written, lmdb, up, tip, cut>>

PointTip ==
  /\ At("point")
  /\ latest' = task.block
  /\ Proceed("reindex")
  /\ UNCHANGED <<files, written, lmdb, up, tip, cut>>

ReindexTip ==
  /\ At("reindex")
  /\ byNum' = Indexed(task.block) /\ byHash' = byHash \cup {task.block}
  /\ Proceed("settle")
  /\ UNCHANGED <<files, written, loc, state, finalized, prunedBelow, latest,
                 up, tip, cut>>

\* new_final: the floor never comes down.
DepthFloor(b) ==
  IF Len(b) > finalized + FinalityDepth THEN Len(b) - FinalityDepth ELSE finalized

\* The finality floor may follow an applied block, then the in-memory tip does.
Settle ==
  /\ At("settle")
  /\ \/ UNCHANGED finalized
     \/ task.of = "incorporate" /\ finalized' = DepthFloor(task.block)
  /\ tip' = task.block /\ task' = Resting
  /\ UNCHANGED <<files, written, loc, state, byNum, byHash, prunedBelow,
                 latest, up, cut>>

\* One of these three writes raised: the block is committed, the in-memory tip
\* stays where it was, and the block thread goes on.
LoseTrack ==
  /\ \/ At("point") \/ At("reindex")
     \/ At("settle") /\ task.of = "incorporate"
  /\ task' = Resting /\ cut' = TRUE
  /\ UNCHANGED <<files, written, lmdb, latest, up, tip>>

(***************************************************************************)
(* rollback_one_block: the body of the parent must be there, the floor is  *)
(* not crossed, and one write transaction undoes everything the block's    *)
(* own did, its locator included.                                          *)
(***************************************************************************)
\* Seeded: the floor is compared with the block and not with its parent.
UndoableAtFloor(b) == Readable(Parent(b)) /\ Len(b) >= finalized

Undoable(b) == Readable(Parent(b)) /\ Len(b) - 1 >= finalized

\* Seeded: the height index is not part of the rollback.
RollBackStillIndexed ==
  /\ Idle /\ tip # Genesis /\ Undoable(tip)
  /\ state' = state (-) SetToBag({Effect(tip)})
  /\ byHash' = byHash \ {tip} /\ loc' = Removed(loc, tip)
  /\ task' = [step |-> "point", of |-> "rollback", block |-> Parent(tip)]
  /\ UNCHANGED <<files, written, byNum, finalized, prunedBelow, latest, up, tip, cut>>

RollBack ==
  /\ Idle /\ tip # Genesis /\ Undoable(tip)
  /\ state' = state (-) SetToBag({Effect(tip)})
  /\ byNum' = Removed(byNum, Len(tip)) /\ byHash' = byHash \ {tip}
  /\ loc' = Removed(loc, tip)
  /\ task' = [step |-> "point", of |-> "rollback", block |-> Parent(tip)]
  /\ UNCHANGED <<files, written, finalized, prunedBelow, latest, up, tip, cut>>

(***************************************************************************)
(* prune_block_bodies, on a node in rolling mode: bodies of final heights  *)
(* are unreferenced one by one, those with a blob carried into the active  *)
(* segment, then the watermark moves, then dead segments are deleted.      *)
(***************************************************************************)
\* Seeded: the retention is counted from the tip.
PrunableByTip == Len(tip) - Retention

Prunable == finalized - Retention

StartPrune ==
  /\ Idle /\ Prunable > prunedBelow
  /\ task' = [step |-> "prune", at |-> prunedBelow, below |-> Prunable]
  /\ UNCHANGED <<files, written, lmdb, latest, up, tip, cut>>

Pruning == At("prune") /\ task.at < task.below
Victim  == byNum[task.at]
Skip    == task' = [step |-> "prune", at |-> task.at + 1, below |-> task.below]

HasBlob(b) == b # Genesis /\ LastOf(b).body \in BlobBodies

\* Seeded: a blob is looked for in the active segment only.
MustStayIfActive(b) == HasBlob(b) /\ loc[b].seg = Active

\* A block that cannot be read shows no blob.
MustStay(b) == Readable(b) /\ HasBlob(b)

Carrying == /\ Pruning /\ task.at \in DOMAIN byNum /\ Victim \in DOMAIN loc
            /\ MustStay(Victim) /\ loc[Victim].seg # Active

\* Nothing is known of the height, or its blob is in the active segment
\* already, or carrying it over fails.
PassOver ==
  /\ Pruning /\ Skip
  /\ \/ /\ task.at \in DOMAIN byNum /\ Victim \in DOMAIN loc => MustStay(Victim)
        /\ UNCHANGED <<files, written>>
     \/ Carrying /\ AbandonTail(Victim)
  /\ UNCHANGED <<lmdb, latest, up, tip, cut>>

Unreference ==
  /\ Pruning /\ task.at \in DOMAIN byNum /\ Victim \in DOMAIN loc
  /\ ~MustStay(Victim)
  /\ loc' = Removed(loc, Victim) /\ Skip
  /\ UNCHANGED <<files, written, state, byNum, byHash, finalized, prunedBelow,
                 latest, up, tip, cut>>

CarryBody ==
  /\ Carrying /\ AppendTo(Victim)
  /\ task' = [step |-> "repoint", at |-> task.at, below |-> task.below,
              to |-> NextPlace]
  /\ UNCHANGED <<lmdb, latest, up, tip, cut>>

RepointBody ==
  /\ At("repoint")
  /\ \/ loc' = [loc EXCEPT ![Victim] = task.to]
     \/ UNCHANGED loc       \* the write raised: the old record stays
  /\ Skip
  /\ UNCHANGED <<files, written, state, byNum, byHash, finalized, prunedBelow,
                 latest, up, tip, cut>>

MarkPruned ==
  /\ At("prune") /\ task.at = task.below
  /\ prunedBelow' = task.below
  /\ task' = [step |-> "collect"]
  /\ UNCHANGED <<files, written, loc, state, byNum, byHash, finalized, latest,
                 up, tip, cut>>

Live == {loc[b].seg : b \in DOMAIN loc}

CollectSegments ==
  /\ At("collect")
  /\ \/ files' = [s \in DOMAIN files \cap (Live \cup {Active}) |-> files[s]]
     \/ UNCHANGED files     \* the pass failed, the next one will do it
  /\ task' = Resting
  /\ UNCHANGED <<written, lmdb, latest, up, tip, cut>>

(***************************************************************************)
(* The process dies; a write in flight is there, torn or not there at all. *)
(* At start the torn tail of the active segment is cut off and the tip is  *)
(* read through the tip file; a tip whose body cannot be read is `False',  *)
(* on which the block thread dies before its first pass (init_hashes).     *)
(***************************************************************************)
InFlight == IF At("save") THEN {task.block} ELSE IF Carrying THEN {Victim} ELSE {}

Crash ==
  /\ up /\ up' = FALSE /\ tip' = NONE /\ task' = Resting
  /\ \/ UNCHANGED <<files, written>>
     \/ \E b \in InFlight :
          /\ written < MaxRecords /\ written' = written + 1
          /\ files' \in {Appended(Whole(b)), Appended(Torn(b))}
  /\ cut' = (cut \/ At("point"))
  /\ UNCHANGED <<lmdb, latest>>

\* Seeded: the cut falls before the last whole record.
WholePrefixButOne(records) ==
  Cardinality({i \in DOMAIN records : \A k \in 1 .. i + 1 :
                 k \in DOMAIN records /\ records[k].whole})

WholePrefix(records) ==
  CHOOSE n \in 0 .. Len(records) :
    /\ \A i \in 1 .. n : records[i].whole
    /\ n < Len(records) => ~records[n + 1].whole

RepairTail == [files EXCEPT ![Active] = SubSeq(@, 1, WholePrefix(@))]

Restart ==
  /\ ~up /\ up' = TRUE
  /\ files' = RepairTail
  /\ tip' = IF ReadableIn(RepairTail, latest) THEN latest ELSE NONE
  /\ UNCHANGED <<written, lmdb, latest, task, cut>>

Next ==
  \/ \E body \in Bodies : Accept(body)
  \/ SaveBody \/ SaveFails \/ LocateFails \/ LocateBody \/ ApplyBlock \/ Abandon
  \/ PointTip \/ ReindexTip \/ Settle \/ LoseTrack
  \/ RollBack
  \/ StartPrune \/ PassOver \/ Unreference \/ CarryBody \/ RepointBody
  \/ MarkPruned \/ CollectSegments
  \/ Crash \/ Restart

Spec == Init /\ [][Next]_vars

-----------------------------------------------------------------------------
(***************************************************************************)
(* Properties.                                                             *)
(***************************************************************************)
\* Type: every variable keeps its shape, and floor and watermark are heights of
\* the chain, the watermark never above the floor.
TypeOK ==
  /\ \A s \in DOMAIN files : \A i \in DOMAIN files[s] : files[s][i].whole \in BOOLEAN
  /\ \A b \in DOMAIN loc : loc[b].seg \in Nat /\ loc[b].at \in Nat \ {0}
  /\ written \in 0 .. MaxRecords /\ IsABag(state)
  /\ DOMAIN byNum \subseteq 0 .. MaxHeight
  /\ finalized \in 0 .. MaxHeight /\ prunedBelow \in 0 .. finalized
  /\ {up, cut} \subseteq BOOLEAN
  /\ up \/ (tip = NONE /\ At("rest"))

\* save_block's promise "a reader can never resolve a half-written body":
\* whatever was torn, abandoned, repaired or collected, a locator finds its
\* block's own whole record, at every step and in every outage.
LocatorsResolve == \A b \in DOMAIN loc : Readable(b)

\* Rolling mode never takes a body a legal rollback, or the retention window,
\* still needs: every indexed height from the window up can be read.
RetainedBodiesReadable ==
  \A h \in DOMAIN byNum : h >= finalized - Retention => Readable(byNum[h])

\* "NEVER prune a body that carries a blob tx": as long as its block is indexed
\* it can be read, wherever the segment it was first written to has gone.
BlobsForever == \A h \in DOMAIN byNum : HasBlob(byNum[h]) => Readable(byNum[h])

\* A node whose commits were always followed by the tip file: between blocks,
\* the state is exactly that of the tip's branch, the indexes hold its
\* ancestors and nothing else, and the tip file names it.
StoresAgree ==
  (~cut /\ Idle) =>
    /\ state = Effects(tip)
    /\ byHash = Ancestors(tip) /\ latest = tip
    /\ byNum = [h \in 0 .. Len(tip) |-> SubSeq(tip, 1, h)]

\* On such a node, in the middle of anything and while it is down, the disk is
\* never more than one block away from a tip file that can be trusted: the
\* state is that of some applied block, and the file names it, its parent, or
\* a child just reverted.
DurableWithinOne ==
  ~cut => \E b \in byHash :
             /\ state = Effects(b)
             /\ \/ latest = b
                \/ b # Genesis /\ latest = Parent(b)
                \/ latest # Genesis /\ Parent(latest) = b

\* Finality on disk: the block indexed at a height the floor has reached is
\* that height's block for ever, through crashes, lost tips and pruning; and
\* unless a tip was lost there is one at every such height.
FinalIsForever ==
  [][\A h \in 0 .. finalized :
        /\ ~cut => h \in DOMAIN byNum
        /\ h \in DOMAIN byNum => h \in DOMAIN byNum' /\ byNum'[h] = byNum[h]]_vars

\* What incorporate_block says of a crash between its commit and the tip file:
\* "just leaves a stale tip that re-syncs forward".  A block found indexed above
\* the tip at start has to pass verification again: the root it commits to must
\* be the root of the state.
StaleTipResyncs ==
  [][(~up /\ up') => \A b \in byHash :
        (b # Genesis /\ Parent(b) = tip') => LastOf(b).root = state]_vars

\* What get_block_ends_info says of the tip: "the latest body is always kept".
TipBodyKept == up => tip # NONE

\* What get_block_ends_info says of the watermark: "bodies at/above it are
\* kept".  Between passes of the block thread every height from it up is read.
WatermarkHonest ==
  (~cut /\ Idle) => \A h \in DOMAIN byNum : h >= prunedBelow => Readable(byNum[h])

=============================================================================
