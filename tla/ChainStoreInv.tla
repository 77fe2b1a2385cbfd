---------------------------- MODULE ChainStoreInv ----------------------------
(***************************************************************************)
(* The inductive invariant behind the locators of ChainStore.              *)
(*                                                                         *)
(* A locator stays right because records are only ever appended to the     *)
(* last segment, because a torn record can only be that segment's last one *)
(* and only while the node is down, and because a locator is written after *)
(* its record.  A body with a blob stays located because it is unlocated   *)
(* only with the block that the index holds at its height.                 *)
(***************************************************************************)
EXTENDS ChainStore

IsSeq(q) == q \in Seq({q[i] : i \in DOMAIN q})

WellFormed(segments) ==
  /\ \A s \in DOMAIN segments : s \in Nat /\ IsSeq(segments[s])
  /\ \E s \in DOMAIN segments : \A r \in DOMAIN segments : r <= s

OnlyTailTorn ==
  \A i \in DOMAIN files[Active] :
    files[Active][i].whole \/ (~up /\ i = Len(files[Active]))

Blocks ==
  /\ IsSeq(latest) /\ (up /\ tip # NONE => IsSeq(tip))
  /\ \A h \in DOMAIN byNum : IsSeq(byNum[h]) /\ Len(byNum[h]) = h

\* What the block thread is in the middle of.
Halfway ==
  /\ ~At("rest") => up
  /\ \A step \in {"save", "locate", "apply", "point", "reindex", "settle"} :
       At(step) => IsSeq(task.block)
  /\ At("locate") => HoldsIn(files, task.to, task.block)
  /\ \A step \in {"apply", "point", "reindex"} :
       At(step) => task.block \in DOMAIN loc
  /\ At("repoint") => HoldsIn(files, task.to, Victim)

BlobsLocated ==
  \A h \in DOMAIN byNum : HasBlob(byNum[h]) => byNum[h] \in DOMAIN loc

\* Whatever is torn, abandoned, repaired, collected or carried over, every
\* locator finds its record and every indexed blob has a locator
\* (segment_store.append, _repair_tail; block_ops.save_block,
\* prune_block_bodies, unindex_block).
StorageInv ==
  /\ WellFormed(files) /\ OnlyTailTorn /\ Blocks /\ Halfway
  /\ LocatorsResolve /\ BlobsLocated

-----------------------------------------------------------------------------
(***************************************************************************)
(* Heights, the floor and the watermark.  The thread prunes up to a height *)
(* it computed when it started; the floor it was computed from stands      *)
(* still meanwhile, because the same thread moves it.                      *)
(***************************************************************************)
Held == {"save", "locate", "apply", "point", "reindex", "settle"}

HeightsBounded ==
  /\ Len(latest) <= MaxHeight /\ (up /\ tip # NONE => Len(tip) <= MaxHeight)
  /\ \A step \in Held : At(step) => Len(task.block) <= MaxHeight
  /\ \A step \in {"prune", "repoint"} :
       At(step) => /\ {task.at, task.below} \subseteq Nat
                   /\ task.below <= finalized - Retention

\* Every indexed height from the retention window up has a locator.
Retained ==
  \A h \in DOMAIN byNum : h >= finalized - Retention => byNum[h] \in DOMAIN loc

\* What each step of the thread leaves of types, bounds and the window.
WindowInv == StorageInv /\ TypeOK /\ HeightsBounded /\ Retained

-----------------------------------------------------------------------------
(***************************************************************************)
(* The four stores, one beside the other.  Which block the state belongs   *)
(* to is known by the tip file, but between a commit and the rewriting of  *)
(* the file by the block thread alone; a crash or a failure there is what  *)
(* cut records.                                                            *)
(***************************************************************************)
Top == IF At("point") THEN task.block ELSE latest

IsOn(b) ==
  /\ state = Effects(b) /\ byHash = Ancestors(b)
  /\ byNum = [h \in 0 .. Len(b) |-> SubSeq(b, 1, h)]

ChildOf(c, b) == c # Genesis /\ Parent(c) = b

\* Where the tip file and the in-memory tip are, against the block in hand.
InStep ==
  /\ \A step \in {"save", "locate", "apply"} :
       At(step) => ChildOf(task.block, latest)
  /\ At("point") => ChildOf(task.block, latest) \/ ChildOf(latest, task.block)
  /\ \A step \in {"reindex", "settle"} : At(step) => task.block = latest
  /\ ~(At("point") \/ At("reindex") \/ At("settle")) =>
       (up /\ tip # NONE => tip = latest)

\* A node whose commits were always followed by the tip file, in the middle of
\* anything and while it is down: state and indexes are those of one branch,
\* which the floor has not passed.
OnOneBranch == ~cut => IsOn(Top) /\ finalized <= Len(Top) /\ InStep

StoresInv == WindowInv /\ OnOneBranch

=============================================================================
