--------------------------- MODULE ChainStore_proofs ---------------------------
(***************************************************************************)
(* Locators find their records and blobs stay readable, for any segment    *)
(* size, finality depth and retention.                                     *)
(***************************************************************************)
EXTENDS ChainStoreInv, TLAPS

-----------------------------------------------------------------------------
(* Sequences and segments. *)

\* What Append does to a sequence of anything.
LEMMA AppendFacts ==
  ASSUME NEW q, IsSeq(q), NEW x
  PROVE  /\ Len(q) \in Nat /\ DOMAIN q = 1 .. Len(q)
         /\ IsSeq(Append(q, x)) /\ Len(Append(q, x)) = Len(q) + 1
         /\ DOMAIN Append(q, x) = 1 .. Len(q) + 1
         /\ \A i \in 1 .. Len(q) : Append(q, x)[i] = q[i]
         /\ Append(q, x)[Len(q) + 1] = x
<1> DEFINE S == {q[i] : i \in DOMAIN q} \cup {x}
<1>1. q \in Seq(S) /\ x \in S
  <2>1. q \in Seq({q[i] : i \in DOMAIN q}) BY DEF IsSeq
  <2>2. DOMAIN q = 1 .. Len(q) /\ Len(q) \in Nat BY <2>1
  <2>3. \A i \in 1 .. Len(q) : q[i] \in S BY <2>2
  <2>4. q = [i \in 1 .. Len(q) |-> q[i]] BY <2>1
  <2> QED BY <2>2, <2>3, <2>4
<1>2. /\ Append(q, x) \in Seq(S) /\ Len(Append(q, x)) = Len(q) + 1
      /\ Len(q) \in Nat /\ DOMAIN q = 1 .. Len(q)
      /\ DOMAIN Append(q, x) = 1 .. Len(q) + 1
  BY <1>1
<1>3. /\ \A i \in 1 .. Len(q) : Append(q, x)[i] = q[i]
      /\ Append(q, x)[Len(q) + 1] = x
  BY <1>1
<1>4. IsSeq(Append(q, x))
  <2> DEFINE r == Append(q, x)
  <2>0. r \in Seq(S) BY <1>2
  <2> HIDE DEF r
  <2>1. r = [i \in 1 .. Len(r) |-> r[i]] /\ Len(r) \in Nat /\ DOMAIN r = 1 .. Len(r)
    BY <2>0
  <2>2. \A i \in 1 .. Len(r) : r[i] \in {r[j] : j \in DOMAIN r} BY <2>1
  <2>3. r \in Seq({r[j] : j \in DOMAIN r}) BY <2>1, <2>2
  <2> QED BY <2>3 DEF r, IsSeq
<1> QED BY <1>2, <1>3, <1>4

\* The last segment is there, and is known by being last.
LEMMA LastIsLast ==
  ASSUME NEW f, WellFormed(f)
  PROVE  /\ LastSegment(f) \in DOMAIN f /\ LastSegment(f) \in Nat
         /\ \A r \in DOMAIN f : r <= LastSegment(f)
         /\ \A s \in DOMAIN f : (\A r \in DOMAIN f : r <= s) => s = LastSegment(f)
<1>1. LastSegment(f) \in DOMAIN f /\ \A r \in DOMAIN f : r <= LastSegment(f)
  BY DEF WellFormed, LastSegment
<1>2. \A r \in DOMAIN f : r \in Nat BY DEF WellFormed
<1> QED BY <1>1, <1>2

\* Appending to the last segment moves no record.
LEMMA AppendedKeeps ==
  ASSUME WellFormed(files), NEW record
  PROVE  /\ WellFormed(Appended(record)) /\ LastSegment(Appended(record)) = Active
         /\ Appended(record)[Active] = Append(files[Active], record)
         /\ \A place, b : HoldsIn(files, place, b) => HoldsIn(Appended(record), place, b)
         /\ NextPlace.seg \in DOMAIN Appended(record)
         /\ NextPlace.at \in DOMAIN Appended(record)[NextPlace.seg]
         /\ Appended(record)[NextPlace.seg][NextPlace.at] = record
<1> DEFINE g == Appended(record)
<1>1. /\ Active \in DOMAIN files /\ Active \in Nat
      /\ \A r \in DOMAIN files : r <= Active
  BY LastIsLast DEF Active
<1>2. /\ DOMAIN g = DOMAIN files
      /\ g[Active] = Append(files[Active], record)
      /\ \A s \in DOMAIN files : s # Active => g[s] = files[s]
  BY <1>1 DEF Appended
<1>3. IsSeq(files[Active]) BY <1>1 DEF WellFormed
<1> HIDE DEF g
<1>4. WellFormed(g)
  <2>1. IsSeq(g[Active]) BY <1>2, <1>3, AppendFacts
  <2>2. \A s \in DOMAIN g : s \in Nat /\ IsSeq(g[s])
    <3> SUFFICES ASSUME NEW s \in DOMAIN g PROVE s \in Nat /\ IsSeq(g[s]) OBVIOUS
    <3>1. s \in Nat /\ IsSeq(files[s]) BY <1>2 DEF WellFormed
    <3> QED BY <1>2, <2>1, <3>1
  <2> QED BY <1>1, <1>2, <2>2 DEF WellFormed
<1>5. LastSegment(g) = Active BY <1>1, <1>2, <1>4, LastIsLast
<1>6. ASSUME NEW place, NEW b, HoldsIn(files, place, b)
      PROVE  HoldsIn(g, place, b)
  <2>1. CASE place.seg = Active
    <3>1. place.at \in 1 .. Len(files[Active]) BY <1>3, <1>6, <2>1, AppendFacts DEF HoldsIn
    <3>2. Len(files[Active]) \in Nat BY <1>3, AppendFacts
    <3>3. place.at \in DOMAIN g[Active] /\ g[Active][place.at] = files[Active][place.at]
      BY <1>2, <1>3, <3>1, <3>2, AppendFacts
    <3> QED BY <1>2, <1>6, <2>1, <3>3 DEF HoldsIn
  <2>2. CASE place.seg # Active BY <1>2, <1>6, <2>2 DEF HoldsIn
  <2> QED BY <2>1, <2>2
<1>7. /\ NextPlace.seg \in DOMAIN g /\ NextPlace.at \in DOMAIN g[NextPlace.seg]
      /\ g[NextPlace.seg][NextPlace.at] = record
  <2>1. Len(files[Active]) \in Nat BY <1>3, AppendFacts
  <2> QED BY <1>1, <1>2, <1>3, <2>1, AppendFacts DEF NextPlace
<1> QED BY <1>2, <1>4, <1>5, <1>6, <1>7 DEF g

\* Opening the next segment moves no record, and its tail is clean.
LEMMA RollKeeps ==
  ASSUME NEW f, WellFormed(f)
  PROVE  LET g == Roll(f, LastSegment(f))
         IN  /\ WellFormed(g) /\ LastSegment(g) = LastSegment(f) + 1
             /\ g[LastSegment(g)] = <<>>
             /\ \A place, b : HoldsIn(f, place, b) => HoldsIn(g, place, b)
<1> DEFINE a == LastSegment(f)  g == Roll(f, a)
<1>1. a \in DOMAIN f /\ a \in Nat /\ \A r \in DOMAIN f : r <= a /\ r \in Nat
  BY LastIsLast DEF WellFormed
<1> HIDE DEF a
<1>2. /\ DOMAIN g = DOMAIN f \cup {a + 1} /\ g[a + 1] = <<>>
      /\ \A s \in DOMAIN f : s # a + 1 => g[s] = f[s]
  BY DEF Roll, Extended
<1>3. a + 1 \notin DOMAIN f BY <1>1
<1>4. IsSeq(<<>>) BY DEF IsSeq
<1> HIDE DEF g
<1>5. \A r \in DOMAIN g : r <= a + 1 BY <1>1, <1>2
<1>6. WellFormed(g) BY <1>1, <1>2, <1>3, <1>4, <1>5 DEF WellFormed
<1>7. LastSegment(g) = a + 1 BY <1>2, <1>5, <1>6, LastIsLast
<1>8. \A place, b : HoldsIn(f, place, b) => HoldsIn(g, place, b)
  BY <1>2, <1>3 DEF HoldsIn
<1> QED BY <1>2, <1>6, <1>7, <1>8 DEF a, g

-----------------------------------------------------------------------------
(* Appends. *)

\* No record moved, and the node can go on appending.
Grown == /\ WellFormed(files')
         /\ \A i \in DOMAIN files'[Active'] : files'[Active'][i].whole
         /\ \A place, b : HoldsIn(files, place, b) => HoldsIn(files', place, b)

\* Both ways of closing a segment behind an append.
LEMMA AppendToGrows ==
  ASSUME StorageInv, up, NEW b, AppendTo(b)
  PROVE  Grown /\ HoldsIn(files', NextPlace, b)
<1> DEFINE g == Appended(Whole(b))
<1>1. WellFormed(files) BY DEF StorageInv
<1>2. /\ WellFormed(g) /\ LastSegment(g) = Active
      /\ g[Active] = Append(files[Active], Whole(b))
      /\ \A place, c : HoldsIn(files, place, c) => HoldsIn(g, place, c)
      /\ HoldsIn(g, NextPlace, b)
  BY <1>1, AppendedKeeps DEF HoldsIn
<1>3. \A i \in DOMAIN g[Active] : g[Active][i].whole
  <2>1. IsSeq(files[Active]) BY <1>1, LastIsLast DEF WellFormed, Active
  <2>2. \A i \in 1 .. Len(files[Active]) : files[Active][i].whole
    BY <2>1, AppendFacts DEF StorageInv, OnlyTailTorn
  <2>3. Whole(b).whole BY DEF Whole
  <2> QED BY <1>2, <2>1, <2>2, <2>3, AppendFacts
<1>4. files' = Roll(g, Active) \/ files' = g BY DEF AppendTo
<1> HIDE DEF g
<1>5. CASE files' = g BY <1>2, <1>3, <1>5 DEF Grown, Active
<1>6. CASE files' = Roll(g, Active)
  <2>1. files' = Roll(g, LastSegment(g)) BY <1>2, <1>6
  <2>2. /\ WellFormed(files') /\ files'[LastSegment(files')] = <<>>
        /\ \A place, c : HoldsIn(g, place, c) => HoldsIn(files', place, c)
    BY <1>2, <2>1, RollKeeps
  <2> QED BY <1>2, <2>2 DEF Grown, Active
<1> QED BY <1>4, <1>5, <1>6

\* A tail given up is behind a new segment.
LEMMA AbandonTailGrows ==
  ASSUME StorageInv, NEW b, AbandonTail(b)
  PROVE  Grown
<1> DEFINE g == Appended(Torn(b))
<1>1. WellFormed(files) BY DEF StorageInv
<1>2. /\ WellFormed(g) /\ LastSegment(g) = Active
      /\ \A place, c : HoldsIn(files, place, c) => HoldsIn(g, place, c)
  BY <1>1, AppendedKeeps
<1>3. files' = Roll(g, Active) BY DEF AbandonTail
<1> HIDE DEF g
<1>4. /\ WellFormed(files') /\ files'[LastSegment(files')] = <<>>
      /\ \A place, c : HoldsIn(g, place, c) => HoldsIn(files', place, c)
  BY <1>2, <1>3, RollKeeps
<1> QED BY <1>2, <1>4 DEF Grown, Active

\* What a step that only appends keeps.
LEMMA GrownKeeps ==
  ASSUME StorageInv, Grown, UNCHANGED <<loc, byNum, latest, up, tip>>
  PROVE  /\ WellFormed(files)' /\ OnlyTailTorn' /\ Blocks'
         /\ LocatorsResolve' /\ BlobsLocated'
<1>1. WellFormed(files)' /\ OnlyTailTorn' BY DEF Grown, OnlyTailTorn
<1>2. LocatorsResolve'
  BY DEF StorageInv, Grown, LocatorsResolve, Readable, ReadableIn
<1> QED BY <1>1, <1>2 DEF StorageInv, Blocks, BlobsLocated

\* What a step that touches neither segments nor indexes keeps.
LEMMA QuietKeeps ==
  ASSUME StorageInv, UNCHANGED <<files, loc, byNum, up>>
  PROVE  /\ WellFormed(files)' /\ OnlyTailTorn' /\ LocatorsResolve' /\ BlobsLocated'
         /\ (latest' = latest /\ tip' = tip => Blocks')
BY DEF StorageInv, OnlyTailTorn, Active, LocatorsResolve, Readable, ReadableIn,
       BlobsLocated, Blocks

-----------------------------------------------------------------------------
(* One lemma per action. *)

\* Genesis is the one record, and it is located.
LEMMA InitKeeps == Init => StorageInv
<1> SUFFICES ASSUME Init PROVE StorageInv OBVIOUS
<1>0. IsSeq(Genesis) /\ IsSeq(<<Whole(Genesis)>>) /\ Len(Genesis) = 0
  <2>1. \A x : <<x>> \in Seq({x}) OBVIOUS
  <2>2. \A x : {<<x>>[i] : i \in DOMAIN <<x>>} = {x} OBVIOUS
  <2> QED BY <2>1, <2>2 DEF IsSeq, Genesis
<1>1. files = [s \in {0} |-> <<Whole(Genesis)>>] BY DEF Init
<1>2. WellFormed(files) BY <1>0, <1>1 DEF WellFormed
<1>3. Active = 0 BY <1>1, <1>2, LastIsLast DEF Active
<1>4. OnlyTailTorn BY <1>1, <1>3 DEF OnlyTailTorn, Whole
<1>5. Blocks BY <1>0 DEF Init, Blocks
<1>6. Halfway BY DEF Init, Halfway, At, Resting
<1>7. LocatorsResolve /\ BlobsLocated
  BY <1>1 DEF Init, LocatorsResolve, Readable, ReadableIn, HoldsIn, BlobsLocated
<1> QED BY <1>2, <1>4, <1>5, <1>6, <1>7 DEF StorageInv

\* A candidate extends the tip.
LEMMA AcceptKeeps ==
  ASSUME StorageInv, NEW body \in Bodies, Accept(body)
  PROVE  StorageInv'
<1> DEFINE b == Child(tip, body, state)
<1>1. IsSeq(b) BY AppendFacts DEF Child, Accept, Idle, StorageInv, Blocks
<1>2. up' = up /\ UNCHANGED <<files, loc, byNum, latest>> BY DEF Accept, lmdb
<1>3. \/ tip' = b /\ task' = task
      \/ tip' = tip /\ task' = [step |-> "save", block |-> b]
  BY DEF Accept
<1> HIDE DEF b
<1>4. Blocks' BY <1>1, <1>2, <1>3 DEF StorageInv, Blocks
<1>5. Halfway' BY <1>1, <1>2, <1>3 DEF Accept, Idle, Halfway, At, Resting
<1> QED BY <1>2, <1>4, <1>5, QuietKeeps DEF StorageInv

\* The record is there before the locator names it.
LEMMA SaveBodyKeeps ==
  ASSUME StorageInv, SaveBody
  PROVE  StorageInv'
<1>1. up /\ At("save") /\ IsSeq(task.block)
  BY DEF SaveBody, StorageInv, Halfway, At, Resting
<1>2. Grown /\ HoldsIn(files', NextPlace, task.block)
  BY <1>1, AppendToGrows DEF SaveBody
<1>3. Halfway' BY <1>1, <1>2 DEF SaveBody, Halfway, At, Resting
<1> QED BY <1>2, <1>3, GrownKeeps DEF SaveBody, lmdb, StorageInv

\* A failed save leaves its half record behind a new segment.
LEMMA SaveFailsKeeps ==
  ASSUME StorageInv, SaveFails
  PROVE  StorageInv'
<1>1. Grown BY AbandonTailGrows DEF SaveFails
<1>2. Halfway' BY DEF SaveFails, StorageInv, Halfway, At, Resting
<1> QED BY <1>1, <1>2, GrownKeeps DEF SaveFails, lmdb, StorageInv

\* The locator names the record just appended.
LEMMA LocateBodyKeeps ==
  ASSUME StorageInv, LocateBody
  PROVE  StorageInv'
<1>1. /\ loc' = Extended(loc, task.block, task.to)
      /\ UNCHANGED <<files, byNum, latest, up, tip>>
      /\ task' = [step |-> "apply", block |-> task.block]
      /\ HoldsIn(files, task.to, task.block) /\ IsSeq(task.block) /\ up
  BY DEF LocateBody, StorageInv, Halfway, At, Resting
<1>2. /\ DOMAIN loc' = DOMAIN loc \cup {task.block} /\ loc'[task.block] = task.to
      /\ \A b \in DOMAIN loc : b # task.block => loc'[b] = loc[b]
  BY <1>1 DEF Extended
<1>3. LocatorsResolve'
  BY <1>1, <1>2 DEF StorageInv, LocatorsResolve, Readable, ReadableIn
<1>4. Halfway' BY <1>1, <1>2 DEF Halfway, At, Resting
<1>5. WellFormed(files)' /\ OnlyTailTorn' /\ Blocks' /\ BlobsLocated'
  BY <1>1, <1>2 DEF StorageInv, OnlyTailTorn, Active, Blocks, BlobsLocated
<1> QED BY <1>3, <1>4, <1>5 DEF StorageInv

\* The write transaction's index entry, and the one repeated after it.
LEMMA IndexedKeeps ==
  ASSUME StorageInv, IsSeq(task.block), task.block \in DOMAIN loc,
         byNum' = Indexed(task.block), UNCHANGED <<files, loc, latest, up, tip>>
  PROVE  /\ WellFormed(files)' /\ OnlyTailTorn' /\ Blocks'
         /\ LocatorsResolve' /\ BlobsLocated'
<1>1. \/ byNum' = byNum
      \/ /\ DOMAIN byNum' = DOMAIN byNum \cup {Len(task.block)}
         /\ byNum'[Len(task.block)] = task.block
         /\ \A h \in DOMAIN byNum : byNum'[h] = byNum[h]
  BY DEF Indexed, Extended
<1>2. Blocks' BY <1>1 DEF StorageInv, Blocks
<1>3. BlobsLocated' BY <1>1 DEF StorageInv, BlobsLocated, HasBlob
<1> QED BY <1>2, <1>3
        DEF StorageInv, OnlyTailTorn, Active, LocatorsResolve, Readable, ReadableIn

\* The write transaction indexes a block that has its locator.
LEMMA ApplyKeeps ==
  ASSUME StorageInv, ApplyBlock
  PROVE  StorageInv'
<1>1. IsSeq(task.block) /\ task.block \in DOMAIN loc /\ up
  BY DEF ApplyBlock, StorageInv, Halfway, At, Resting
<1>2. Halfway' BY <1>1 DEF ApplyBlock, Halfway, At, Resting
<1> QED BY <1>1, <1>2, IndexedKeeps DEF ApplyBlock, StorageInv

\* The index entry set_latest_block_info repeats.
LEMMA ReindexKeeps ==
  ASSUME StorageInv, ReindexTip
  PROVE  StorageInv'
<1>1. IsSeq(task.block) /\ task.block \in DOMAIN loc /\ up
  BY DEF ReindexTip, StorageInv, Halfway, At, Resting
<1>2. Halfway' BY <1>1 DEF ReindexTip, Proceed, Halfway, At, Resting
<1> QED BY <1>1, <1>2, IndexedKeeps DEF ReindexTip, StorageInv

\* The tip file names a block.
LEMMA PointKeeps ==
  ASSUME StorageInv, PointTip
  PROVE  StorageInv'
<1>1. IsSeq(task.block) /\ task.block \in DOMAIN loc /\ up
  BY DEF PointTip, StorageInv, Halfway, At, Resting
<1>2. Halfway' BY <1>1 DEF PointTip, Proceed, Halfway, At, Resting, lmdb
<1>3. Blocks' BY <1>1 DEF PointTip, StorageInv, Blocks, lmdb
<1> QED BY <1>2, <1>3, QuietKeeps DEF PointTip, StorageInv, lmdb

\* The in-memory tip follows.
LEMMA SettleKeeps ==
  ASSUME StorageInv, Settle
  PROVE  StorageInv'
<1>1. IsSeq(task.block) BY DEF Settle, StorageInv, Halfway, At, Resting
<1>2. Halfway' BY DEF Settle, Halfway, At, Resting
<1>3. Blocks' BY <1>1 DEF Settle, StorageInv, Blocks
<1> QED BY <1>2, <1>3, QuietKeeps DEF Settle, StorageInv

\* Steps that only give something up, or only move the block thread on.
LEMMA PassKeeps ==
  ASSUME StorageInv, LocateFails \/ Abandon \/ LoseTrack \/ StartPrune \/ MarkPruned
  PROVE  StorageInv'
<1>1. UNCHANGED <<files, loc, byNum, latest, up, tip>>
  BY DEF LocateFails, Abandon, LoseTrack, StartPrune, MarkPruned, lmdb
<1>2. Halfway'
  <2>1. CASE LocateFails BY <2>1 DEF LocateFails, StorageInv, Halfway, At, Resting
  <2>2. CASE Abandon BY <2>2 DEF Abandon, Halfway, At, Resting
  <2>3. CASE LoseTrack BY <2>3 DEF LoseTrack, Halfway, At, Resting
  <2>4. CASE StartPrune BY <2>4 DEF StartPrune, Idle, Halfway, At, Resting
  <2>5. CASE MarkPruned BY <2>5 DEF MarkPruned, StorageInv, Halfway, At, Resting
  <2> QED BY <2>1, <2>2, <2>3, <2>4, <2>5
<1> QED BY <1>1, <1>2, QuietKeeps DEF StorageInv

\* What a prefix of a sequence is.
LEMMA PrefixFacts ==
  ASSUME NEW q, IsSeq(q), NEW n \in 0 .. Len(q)
  PROVE  /\ IsSeq(SubSeq(q, 1, n)) /\ Len(SubSeq(q, 1, n)) = n
         /\ DOMAIN SubSeq(q, 1, n) = 1 .. n
         /\ \A i \in 1 .. n : SubSeq(q, 1, n)[i] = q[i]
<1> DEFINE S == {q[i] : i \in DOMAIN q}  p == SubSeq(q, 1, n)
<1>1. q \in Seq(S) BY DEF IsSeq
<1>2. Len(q) \in Nat /\ DOMAIN q = 1 .. Len(q) BY <1>1
<1> HIDE DEF S
<1>3. p \in Seq(S) /\ Len(p) = n /\ \A i \in 1 .. n : p[i] = q[i]
  BY <1>1, <1>2
<1> HIDE DEF p
<1>4. p = [i \in 1 .. n |-> p[i]] /\ DOMAIN p = 1 .. n /\ n \in Nat
  BY <1>2, <1>3
<1>5. \A i \in 1 .. n : p[i] \in {p[j] : j \in DOMAIN p} BY <1>4
<1>6. p \in Seq({p[j] : j \in DOMAIN p}) BY <1>4, <1>5
<1> QED BY <1>3, <1>4, <1>6 DEF p, IsSeq

\* A rollback takes the tip's locator and index entry, and keeps its parent's.
LEMMA RollBackKeeps ==
  ASSUME StorageInv, RollBack
  PROVE  StorageInv'
<1> DEFINE b == Parent(tip)
<1>1. /\ up /\ IsSeq(tip) /\ tip # <<>> /\ b \in DOMAIN loc
      /\ UNCHANGED <<files, latest, up, tip>>
      /\ loc' = Removed(loc, tip) /\ byNum' = Removed(byNum, Len(tip))
      /\ task' = [step |-> "point", of |-> "rollback", block |-> b]
  BY DEF RollBack, Idle, Undoable, Readable, ReadableIn, Genesis, StorageInv, Blocks
<1>2. IsSeq(b) /\ b # tip
  <2>1. Len(tip) \in Nat /\ Len(tip) # 0 BY <1>1 DEF IsSeq
  <2>2. Len(tip) - 1 \in 0 .. Len(tip) BY <2>1
  <2>3. IsSeq(b) /\ Len(b) = Len(tip) - 1 BY <1>1, <2>2, PrefixFacts DEF Parent
  <2> QED BY <2>1, <2>3
<1> HIDE DEF b
<1>3. /\ DOMAIN loc' = DOMAIN loc \ {tip} /\ \A c \in DOMAIN loc' : loc'[c] = loc[c]
      /\ DOMAIN byNum' = DOMAIN byNum \ {Len(tip)}
      /\ \A h \in DOMAIN byNum' : byNum'[h] = byNum[h]
  BY <1>1 DEF Removed
<1>4. Blocks' BY <1>1, <1>3 DEF StorageInv, Blocks
<1>5. \A h \in DOMAIN byNum' : byNum[h] # tip BY <1>3 DEF StorageInv, Blocks
<1>6. BlobsLocated' BY <1>3, <1>5 DEF StorageInv, BlobsLocated, HasBlob
<1>7. Halfway' BY <1>1, <1>2, <1>3 DEF Halfway, At, Resting
<1>8. LocatorsResolve'
  BY <1>1, <1>3 DEF StorageInv, LocatorsResolve, Readable, ReadableIn
<1>9. WellFormed(files)' /\ OnlyTailTorn'
  BY <1>1 DEF StorageInv, OnlyTailTorn, Active
<1> QED BY <1>4, <1>6, <1>7, <1>8, <1>9 DEF StorageInv

\* A height passed over.
LEMMA PassOverKeeps ==
  ASSUME StorageInv, PassOver
  PROVE  StorageInv'
<1>1. UNCHANGED <<loc, byNum, latest, up, tip>> BY DEF PassOver, lmdb
<1>2. Halfway' BY DEF PassOver, Pruning, Skip, StorageInv, Halfway, At, Resting
<1>3. files' = files \/ AbandonTail(Victim) BY DEF PassOver
<1>4. CASE files' = files BY <1>1, <1>2, <1>4, QuietKeeps DEF StorageInv
<1>5. CASE AbandonTail(Victim)
  <2>1. Grown BY <1>5, AbandonTailGrows
  <2> QED BY <1>1, <1>2, <2>1, GrownKeeps DEF StorageInv
<1> QED BY <1>3, <1>4, <1>5

\* A body is unreferenced: it could be read, and showed no blob.
LEMMA UnreferenceKeeps ==
  ASSUME StorageInv, Unreference
  PROVE  StorageInv'
<1>1. /\ UNCHANGED <<files, byNum, latest, up, tip>> /\ loc' = Removed(loc, Victim)
      /\ Victim \in DOMAIN loc
      /\ task' = [step |-> "prune", at |-> task.at + 1, below |-> task.below]
  BY DEF Unreference, Skip
<1>2. ~HasBlob(Victim)
  BY DEF Unreference, MustStay, StorageInv, LocatorsResolve
<1>3. DOMAIN loc' = DOMAIN loc \ {Victim} /\ \A c \in DOMAIN loc' : loc'[c] = loc[c]
  BY <1>1 DEF Removed
<1>4. BlobsLocated' BY <1>1, <1>2, <1>3 DEF StorageInv, BlobsLocated, HasBlob
<1>5. LocatorsResolve'
  BY <1>1, <1>3 DEF StorageInv, LocatorsResolve, Readable, ReadableIn
<1>6. up BY DEF Unreference, Pruning, At, StorageInv, Halfway
<1>7. Halfway' BY <1>1, <1>6 DEF Halfway, At, Resting
<1>8. WellFormed(files)' /\ OnlyTailTorn' /\ Blocks'
  BY <1>1 DEF StorageInv, OnlyTailTorn, Active, Blocks
<1> QED BY <1>4, <1>5, <1>7, <1>8 DEF StorageInv

\* A blob is copied first.
LEMMA CarryBodyKeeps ==
  ASSUME StorageInv, CarryBody
  PROVE  StorageInv'
<1>1. up BY DEF CarryBody, Carrying, Pruning, At, StorageInv, Halfway
<1>2. Grown /\ HoldsIn(files', NextPlace, Victim)
  BY <1>1, AppendToGrows DEF CarryBody
<1>3. UNCHANGED <<loc, byNum, latest, up, tip>> BY DEF CarryBody, lmdb
<1>4. /\ task' = [step |-> "repoint", at |-> task.at, below |-> task.below,
                  to |-> NextPlace]
      /\ Victim' = Victim
  BY <1>3 DEF CarryBody, Victim
<1>5. Halfway' BY <1>1, <1>2, <1>3, <1>4 DEF Halfway, At, Resting
<1> QED BY <1>2, <1>3, <1>5, GrownKeeps DEF StorageInv

\* The locator follows it, or keeps naming the old record.
LEMMA RepointBodyKeeps ==
  ASSUME StorageInv, RepointBody
  PROVE  StorageInv'
<1>1. /\ UNCHANGED <<files, byNum, latest, up, tip>>
      /\ HoldsIn(files, task.to, Victim) /\ up
      /\ task' = [step |-> "prune", at |-> task.at + 1, below |-> task.below]
  BY DEF RepointBody, Skip, StorageInv, Halfway, At, Resting
<1>2. /\ DOMAIN loc' = DOMAIN loc
      /\ \A b \in DOMAIN loc : loc'[b] = loc[b] \/ (b = Victim /\ loc'[b] = task.to)
  BY DEF RepointBody
<1>3. LocatorsResolve'
  BY <1>1, <1>2 DEF StorageInv, LocatorsResolve, Readable, ReadableIn
<1>4. Halfway' BY <1>1 DEF Halfway, At, Resting
<1>5. WellFormed(files)' /\ OnlyTailTorn' /\ Blocks' /\ BlobsLocated'
  BY <1>1, <1>2 DEF StorageInv, OnlyTailTorn, Active, Blocks, BlobsLocated
<1> QED BY <1>3, <1>4, <1>5 DEF StorageInv

\* Only segments no locator names are deleted, and never the last one.
LEMMA CollectKeeps ==
  ASSUME StorageInv, CollectSegments
  PROVE  StorageInv'
<1>1. UNCHANGED <<loc, byNum, latest, up, tip>>
  BY DEF CollectSegments, lmdb
<1>2. Halfway' BY DEF CollectSegments, Halfway, At, Resting
<1>3. CASE files' = files BY <1>1, <1>2, <1>3, QuietKeeps DEF StorageInv
<1>4. CASE files' = [s \in DOMAIN files \cap (Live \cup {Active}) |-> files[s]]
  <2>1. /\ Active \in DOMAIN files /\ \A r \in DOMAIN files : r <= Active
        /\ WellFormed(files)
    BY LastIsLast DEF Active, StorageInv
  <2>2. /\ DOMAIN files' = DOMAIN files \cap (Live \cup {Active})
        /\ \A s \in DOMAIN files' : files'[s] = files[s]
    BY <1>4
  <2>3. WellFormed(files') BY <2>1, <2>2 DEF WellFormed
  <2>4. LastSegment(files') = Active BY <2>1, <2>2, <2>3, LastIsLast
  <2>5. OnlyTailTorn'
    BY <1>1, <2>1, <2>2, <2>4 DEF StorageInv, OnlyTailTorn, Active
  <2>6. LocatorsResolve'
    BY <1>1, <2>2 DEF StorageInv, LocatorsResolve, Readable, ReadableIn, HoldsIn, Live
  <2> QED BY <1>1, <1>2, <2>3, <2>5, <2>6 DEF StorageInv, Blocks, BlobsLocated
<1> QED BY <1>3, <1>4 DEF CollectSegments

\* A write in flight can tear the last record, and nothing else.
LEMMA CrashKeeps ==
  ASSUME StorageInv, Crash
  PROVE  StorageInv'
<1>1. UNCHANGED <<loc, byNum, latest>> /\ ~up' /\ task' = Resting /\ up
  BY DEF Crash, lmdb
<1>2. Halfway' BY <1>1 DEF Halfway, At, Resting
<1>3. Blocks' /\ BlobsLocated' BY <1>1 DEF StorageInv, Blocks, BlobsLocated
<1>4. CASE files' = files
  <2>1. OnlyTailTorn' BY <1>1, <1>4 DEF StorageInv, OnlyTailTorn, Active
  <2>2. LocatorsResolve'
    BY <1>1, <1>4 DEF StorageInv, LocatorsResolve, Readable, ReadableIn
  <2> QED BY <1>2, <1>3, <1>4, <2>1, <2>2 DEF StorageInv
<1>5. ASSUME NEW record, files' = Appended(record) PROVE StorageInv'
  <2>1. WellFormed(files) BY DEF StorageInv
  <2>2. /\ WellFormed(files') /\ LastSegment(files') = Active
        /\ files'[Active] = Append(files[Active], record)
        /\ \A place, b : HoldsIn(files, place, b) => HoldsIn(files', place, b)
    BY <1>5, <2>1, AppendedKeeps
  <2>3. IsSeq(files[Active]) BY <2>1, LastIsLast DEF WellFormed, Active
  <2>4. \A i \in 1 .. Len(files[Active]) : files[Active][i].whole
    BY <1>1, <2>3, AppendFacts DEF StorageInv, OnlyTailTorn
  <2>5. OnlyTailTorn'
    <3> DEFINE q == files[Active]  r == files'[Active]
    <3>1. /\ Len(q) \in Nat /\ Len(r) = Len(q) + 1 /\ DOMAIN r = 1 .. Len(q) + 1
          /\ \A i \in 1 .. Len(q) : r[i] = q[i]
      BY <2>2, <2>3, AppendFacts
    <3>2. \A i \in DOMAIN r : r[i].whole \/ i = Len(r) BY <2>4, <3>1
    <3> QED BY <1>1, <2>2, <3>2 DEF OnlyTailTorn, Active
  <2>6. LocatorsResolve'
    BY <1>1, <2>2 DEF StorageInv, LocatorsResolve, Readable, ReadableIn
  <2> QED BY <1>2, <1>3, <2>2, <2>5, <2>6 DEF StorageInv
<1> QED BY <1>4, <1>5 DEF Crash

\* The repair cuts off the torn record, if there is one, and nothing else.
LEMMA RepairFacts ==
  ASSUME StorageInv
  PROVE  LET q == files[Active]  n == WholePrefix(q)
         IN  /\ n \in 0 .. Len(q) /\ \A i \in 1 .. n : q[i].whole
             /\ \A i \in DOMAIN q : q[i].whole => i \in 1 .. n
<1> DEFINE q == files[Active]  n == WholePrefix(q)
<1>1. IsSeq(q) BY LastIsLast DEF Active, StorageInv, WellFormed
<1>2. Len(q) \in Nat /\ DOMAIN q = 1 .. Len(q) BY <1>1 DEF IsSeq
<1>3. \A i \in DOMAIN q : q[i].whole \/ i = Len(q) BY DEF StorageInv, OnlyTailTorn
<1> HIDE DEF q
<1> DEFINE Cut(k) == /\ \A i \in 1 .. k : q[i].whole
                     /\ k < Len(q) => ~q[k + 1].whole
<1>4. \E k \in 0 .. Len(q) : Cut(k)
  <2>1. CASE \A i \in DOMAIN q : q[i].whole
    <3>1. Cut(Len(q)) BY <1>2, <2>1
    <3> QED BY <1>2, <3>1
  <2>2. CASE ~\A i \in DOMAIN q : q[i].whole
    <3>1. Len(q) \in DOMAIN q /\ ~q[Len(q)].whole BY <1>3, <2>2
    <3>2. Len(q) - 1 \in 0 .. Len(q) BY <1>2, <3>1
    <3>3. ASSUME NEW i \in 1 .. (Len(q) - 1) PROVE q[i].whole
      <4>0. \A L \in Nat : \A k \in 1 .. (L - 1) : k \in 1 .. L /\ k # L OBVIOUS
      <4>1. i \in DOMAIN q /\ i # Len(q) BY <1>2, <4>0
      <4> QED BY <1>3, <4>1
    <3>4. Cut(Len(q) - 1)
      <4>1. Len(q) - 1 + 1 = Len(q) BY <1>2
      <4> QED BY <3>1, <3>3, <4>1
    <3> QED BY <3>2, <3>4
  <2> QED BY <2>1, <2>2
<1>5. n \in 0 .. Len(q) /\ Cut(n) BY <1>4 DEF WholePrefix
<1> HIDE DEF n
<1>6. \A i \in DOMAIN q : q[i].whole => i \in 1 .. n
  <2> SUFFICES ASSUME NEW i \in DOMAIN q, q[i].whole, ~(i \in 1 .. n) PROVE FALSE
    OBVIOUS
  <2>1. i \in Nat /\ n \in Nat /\ n < i /\ i <= Len(q) BY <1>2, <1>5
  <2>2. n + 1 \in DOMAIN q /\ ~q[n + 1].whole BY <1>2, <1>5, <2>1
  <2>3. n + 1 = Len(q) BY <1>3, <2>2
  <2>4. i = n + 1 BY <1>2, <2>1, <2>3
  <2> QED BY <2>2, <2>4
<1> QED BY <1>5, <1>6 DEF q, n

\* After the repair every record of the last segment is whole, and every
\* located one is still there.
LEMMA RestartKeeps ==
  ASSUME StorageInv, Restart
  PROVE  StorageInv'
<1> DEFINE q == files[Active]  n == WholePrefix(q)
<1>1. /\ UNCHANGED <<loc, byNum, latest, task>> /\ ~up
      /\ files' = [files EXCEPT ![Active] = SubSeq(@, 1, n)]
      /\ tip' = latest \/ tip' = NONE
  BY DEF Restart, lmdb, RepairTail
<1>2. /\ Active \in DOMAIN files /\ \A r \in DOMAIN files : r <= Active
      /\ WellFormed(files) /\ IsSeq(q)
  BY LastIsLast DEF Active, StorageInv, WellFormed
<1>3. /\ n \in 0 .. Len(q) /\ \A i \in 1 .. n : q[i].whole
      /\ \A i \in DOMAIN q : q[i].whole => i \in 1 .. n
  BY RepairFacts
<1>4. /\ DOMAIN files' = DOMAIN files /\ files'[Active] = SubSeq(q, 1, n)
      /\ \A s \in DOMAIN files : s # Active => files'[s] = files[s]
  BY <1>1, <1>2
<1> HIDE DEF n
<1>5. /\ IsSeq(files'[Active]) /\ DOMAIN files'[Active] = 1 .. n
      /\ \A i \in 1 .. n : files'[Active][i] = q[i]
  BY <1>2, <1>3, <1>4, PrefixFacts
<1>6. WellFormed(files') BY <1>2, <1>4, <1>5 DEF WellFormed
<1>7. LastSegment(files') = Active BY <1>2, <1>4, <1>6, LastIsLast
<1>8. OnlyTailTorn' BY <1>3, <1>5, <1>7 DEF OnlyTailTorn, Active
<1>9. ASSUME NEW place, NEW b, HoldsIn(files, place, b)
      PROVE  HoldsIn(files', place, b)
  <2>1. CASE place.seg = Active
    <3>1. place.at \in DOMAIN q /\ q[place.at] = Whole(b) BY <1>9, <2>1 DEF HoldsIn
    <3>2. q[place.at].whole BY <3>1 DEF Whole
    <3> QED BY <1>2, <1>3, <1>4, <1>5, <2>1, <3>1, <3>2 DEF HoldsIn
  <2>2. CASE place.seg # Active BY <1>4, <1>9, <2>2 DEF HoldsIn
  <2> QED BY <2>1, <2>2
<1>10. LocatorsResolve'
  BY <1>1, <1>9 DEF StorageInv, LocatorsResolve, Readable, ReadableIn
<1>11. Halfway' BY <1>1 DEF StorageInv, Halfway, At, Resting
<1>12. Blocks' /\ BlobsLocated' BY <1>1 DEF StorageInv, Blocks, BlobsLocated
<1> QED BY <1>6, <1>8, <1>10, <1>11, <1>12 DEF StorageInv

-----------------------------------------------------------------------------
(* The invariant, and what follows from it. *)

\* Every step keeps the storage invariant.
LEMMA NextKeeps == StorageInv /\ [Next]_vars => StorageInv'
<1> SUFFICES ASSUME StorageInv, [Next]_vars PROVE StorageInv'
  OBVIOUS
<1>1. CASE UNCHANGED vars
  <2>1. Halfway' BY <1>1 DEF vars, lmdb, StorageInv, Halfway, At, Resting, Victim
  <2> QED BY <1>1, <2>1, QuietKeeps DEF vars, lmdb, StorageInv
<1>2. CASE Next
  <2>1. CASE \E body \in Bodies : Accept(body) BY <2>1, AcceptKeeps
  <2>2. CASE LocateFails \/ Abandon \/ LoseTrack \/ StartPrune \/ MarkPruned
    BY <2>2, PassKeeps
  <2> QED
    BY <1>2, <2>1, <2>2, SaveBodyKeeps, SaveFailsKeeps, LocateBodyKeeps,
       ApplyKeeps, PointKeeps, ReindexKeeps, SettleKeeps, RollBackKeeps,
       PassOverKeeps, UnreferenceKeeps, CarryBodyKeeps, RepointBodyKeeps,
       CollectKeeps, CrashKeeps, RestartKeeps
    DEF Next
<1> QED BY <1>1, <1>2

\* Whatever is torn, abandoned, repaired, collected or carried over, the
\* storage invariant holds (segment_store.py; save_block, prune_block_bodies).
THEOREM StorageInvariant == Spec => []StorageInv
<1>1. StorageInv /\ [Next]_vars => StorageInv' BY NextKeeps
<1> QED BY InitKeeps, <1>1, PTL DEF Spec

\* A locator finds its block's own whole record, at every step and in every
\* outage: "a reader can never resolve a half-written body" (save_block).
THEOREM LocatorsAlwaysResolve == Spec => []LocatorsResolve
<1>1. StorageInv => LocatorsResolve BY DEF StorageInv
<1> QED BY StorageInvariant, <1>1, PTL

\* A body with a blob is readable as long as its block is indexed, however
\* long the chain and however often its segment is collected
\* (prune_block_bodies).
THEOREM BlobsAreForever == Spec => []BlobsForever
<1>1. StorageInv => BlobsForever
  BY DEF StorageInv, LocatorsResolve, BlobsLocated, BlobsForever
<1> QED BY StorageInvariant, <1>1, PTL

-----------------------------------------------------------------------------
(* Branches and bags. *)

\* Sequences with the same elements are equal.
LEMMA SameSequence ==
  ASSUME NEW p, IsSeq(p), NEW q, IsSeq(q), Len(p) = Len(q),
         \A i \in 1 .. Len(p) : p[i] = q[i]
  PROVE  p = q
<1>1. p = [i \in DOMAIN p |-> p[i]] /\ DOMAIN p = 1 .. Len(p) BY DEF IsSeq
<1>2. q = [i \in DOMAIN q |-> q[i]] /\ DOMAIN q = 1 .. Len(q) BY DEF IsSeq
<1> QED BY <1>1, <1>2

\* A block is its own last ancestor, and has its parent's ancestors.
LEMMA ParentFacts ==
  ASSUME NEW c, IsSeq(c), c # Genesis
  PROVE  /\ Len(c) \in Nat \ {0} /\ IsSeq(Parent(c)) /\ Len(Parent(c)) = Len(c) - 1
         /\ SubSeq(c, 1, Len(c)) = c
         /\ \A h \in 0 .. Len(c) - 1 : SubSeq(Parent(c), 1, h) = SubSeq(c, 1, h)
<1>1. Len(c) \in Nat \ {0} BY DEF IsSeq, Genesis
<1>2. Len(c) - 1 \in 0 .. Len(c) /\ Len(c) \in 0 .. Len(c) BY <1>1
<1>3. /\ IsSeq(Parent(c)) /\ Len(Parent(c)) = Len(c) - 1
      /\ \A i \in 1 .. Len(c) - 1 : Parent(c)[i] = c[i]
  BY <1>2, PrefixFacts DEF Parent
<1>4. SubSeq(c, 1, Len(c)) = c
  <2> DEFINE p == SubSeq(c, 1, Len(c))
  <2>1. IsSeq(p) /\ Len(p) = Len(c) /\ \A i \in 1 .. Len(c) : p[i] = c[i]
    BY <1>2, PrefixFacts
  <2> HIDE DEF p
  <2>2. p = c BY <2>1, SameSequence
  <2> QED BY <2>2 DEF p
<1>5. ASSUME NEW h \in 0 .. Len(c) - 1
      PROVE  SubSeq(Parent(c), 1, h) = SubSeq(c, 1, h)
  <2>1. h \in 0 .. Len(c) /\ h \in 0 .. Len(Parent(c)) BY <1>1, <1>3
  <2>2. \A i \in 1 .. h : i \in 1 .. Len(c) - 1 BY <1>1
  <2>3. /\ IsSeq(SubSeq(c, 1, h)) /\ Len(SubSeq(c, 1, h)) = h
        /\ \A i \in 1 .. h : SubSeq(c, 1, h)[i] = c[i]
    BY <2>1, PrefixFacts
  <2>4. /\ IsSeq(SubSeq(Parent(c), 1, h)) /\ Len(SubSeq(Parent(c), 1, h)) = h
        /\ \A i \in 1 .. h : SubSeq(Parent(c), 1, h)[i] = Parent(c)[i]
    BY <1>3, <2>1, PrefixFacts
  <2> QED BY <1>3, <2>2, <2>3, <2>4, SameSequence
<1> QED BY <1>1, <1>3, <1>4, <1>5

\* A candidate is one block longer than the tip it extends.
LEMMA ChildFacts ==
  ASSUME NEW b, IsSeq(b), NEW body, NEW root
  PROVE  LET c == Child(b, body, root)
         IN  IsSeq(c) /\ Len(b) \in Nat /\ Len(c) = Len(b) + 1 /\ ChildOf(c, b)
<1> DEFINE x == [body |-> body, root |-> root]  c == Append(b, x)
<1>1. /\ Len(b) \in Nat /\ IsSeq(c) /\ Len(c) = Len(b) + 1
      /\ \A i \in 1 .. Len(b) : c[i] = b[i]
  BY AppendFacts
<1> HIDE DEF c
<1>2. c # Genesis BY <1>1 DEF Genesis
<1>3. /\ IsSeq(Parent(c)) /\ Len(Parent(c)) = Len(b)
      /\ \A i \in 1 .. Len(b) : Parent(c)[i] = c[i]
  <2>1. Len(c) - 1 = Len(b) /\ Len(b) \in 0 .. Len(c) BY <1>1
  <2> QED BY <1>1, <2>1, PrefixFacts DEF Parent
<1>4. Parent(c) = b BY <1>1, <1>3, SameSequence
<1> QED BY <1>1, <1>2, <1>4 DEF ChildOf, Child, c

\* The ancestors of a block are its parent's and itself, all of them lower.
LEMMA AncestorsGrow ==
  ASSUME NEW c, IsSeq(c), c # Genesis
  PROVE  /\ Ancestors(c) = Ancestors(Parent(c)) \cup {c}
         /\ \A a \in Ancestors(Parent(c)) : Len(a) \in Nat /\ Len(a) < Len(c)
         /\ c \notin Ancestors(Parent(c))
<1> DEFINE b == Parent(c)  n == Len(c)
<1>1. /\ n \in Nat \ {0} /\ IsSeq(b) /\ Len(b) = n - 1 /\ SubSeq(c, 1, n) = c
      /\ \A h \in 0 .. n - 1 : SubSeq(b, 1, h) = SubSeq(c, 1, h)
  BY ParentFacts
<1>2. \A a \in Ancestors(b) : Len(a) \in Nat /\ Len(a) < n
  <2> SUFFICES ASSUME NEW h \in 0 .. Len(b)
               PROVE  Len(SubSeq(b, 1, h)) \in Nat /\ Len(SubSeq(b, 1, h)) < n
    BY DEF Ancestors
  <2> HIDE DEF b, n
  <2>1. Len(SubSeq(b, 1, h)) = h BY <1>1, PrefixFacts
  <2> QED BY <1>1, <2>1
<1>3. 0 .. n = (0 .. n - 1) \cup {n} BY <1>1
<1>4. Ancestors(c) = {SubSeq(c, 1, h) : h \in 0 .. n - 1} \cup {c}
  BY <1>1, <1>3 DEF Ancestors
<1>5. Ancestors(b) = {SubSeq(c, 1, h) : h \in 0 .. n - 1}
  BY <1>1 DEF Ancestors
<1> QED BY <1>2, <1>4, <1>5

\* Adding to a bag what it does not hold, and taking it out again.
LEMMA BagGrows ==
  ASSUME NEW S, NEW e, e \notin S
  PROVE  /\ SetToBag(S \cup {e}) = SetToBag(S) (+) SetToBag({e})
         /\ SetToBag(S \cup {e}) (-) SetToBag({e}) = SetToBag(S)
<1>1. SetToBag(S \cup {e}) = SetToBag(S) (+) SetToBag({e})
  BY DEF SetToBag, (+)
<1>2. SetToBag(S \cup {e}) (-) SetToBag({e}) = SetToBag(S)
  BY DEF SetToBag, (-)
<1> QED BY <1>1, <1>2

\* Bags stay bags.
LEMMA BagTypes ==
  ASSUME NEW B, IsABag(B), NEW e
  PROVE  IsABag(B (+) SetToBag({e})) /\ IsABag(B (-) SetToBag({e}))
<1>1. IsABag(B (+) SetToBag({e})) BY DEF IsABag, SetToBag, (+)
<1>2. IsABag(B (-) SetToBag({e})) BY DEF IsABag, SetToBag, (-)
<1> QED BY <1>1, <1>2

\* Applying a block, and undoing it, moves state and indexes one block along
\* the branch.
LEMMA BranchMoves ==
  ASSUME NEW c, IsSeq(c), c # Genesis
  PROVE  LET b == Parent(c)
             on(d) == [h \in 0 .. Len(d) |-> SubSeq(d, 1, h)]
         IN  /\ Effects(c) = Effects(b) (+) SetToBag({Effect(c)})
             /\ Effects(b) = Effects(c) (-) SetToBag({Effect(c)})
             /\ on(c) = Extended(on(b), Len(c), c) /\ on(b) = Removed(on(c), Len(c))
             /\ Len(c) \notin DOMAIN on(b)
<1> DEFINE b == Parent(c)  n == Len(c)
           on(d) == [h \in 0 .. Len(d) |-> SubSeq(d, 1, h)]
           E(d) == {Effect(a) : a \in Ancestors(d) \ {Genesis}}
<1>1. /\ n \in Nat \ {0} /\ Len(b) = n - 1 /\ SubSeq(c, 1, n) = c
      /\ \A h \in 0 .. n - 1 : SubSeq(b, 1, h) = SubSeq(c, 1, h)
  BY ParentFacts
<1>2. E(c) = E(b) \cup {Effect(c)} /\ Effect(c) \notin E(b)
  <2>1. E(c) = E(b) \cup {Effect(c)} BY AncestorsGrow
  <2>2. \A a \in Ancestors(b) : Effect(a).height < Effect(c).height
    BY AncestorsGrow DEF Effect
  <2>3. Effect(c).height \in Nat BY <1>1 DEF Effect
  <2>4. ASSUME Effect(c) \in E(b) PROVE FALSE
    <3>1. PICK a \in Ancestors(b) : Effect(c) = Effect(a) BY <2>4
    <3>2. Effect(c).height < Effect(c).height BY <2>2, <3>1
    <3> QED BY <2>3, <3>2
  <2> QED BY <2>1, <2>4
<1>3. /\ Effects(c) = Effects(b) (+) SetToBag({Effect(c)})
      /\ Effects(b) = Effects(c) (-) SetToBag({Effect(c)})
  <2>1. Effects(c) = SetToBag(E(c)) /\ Effects(b) = SetToBag(E(b)) BY DEF Effects
  <2> HIDE DEF E
  <2> QED BY <1>2, <2>1, BagGrows
<1>4. on(c) = Extended(on(b), n, c) /\ on(b) = Removed(on(c), n) /\ n \notin DOMAIN on(b)
  <2>1. 0 .. n = (0 .. n - 1) \cup {n} /\ n \notin 0 .. n - 1 BY <1>1
  <2> QED BY <1>1, <2>1 DEF Extended, Removed
<1> QED BY <1>3, <1>4

-----------------------------------------------------------------------------
(* Types, heights and the window of pruning. *)

\* Which steps write what.
LEMMA Writers ==
  ASSUME Next
  PROVE  /\ written' = written \/ (written < MaxRecords /\ written' = written + 1)
         /\ state' = state \/ ApplyBlock \/ RollBack
         /\ byNum' = byNum \/ ApplyBlock \/ ReindexTip \/ RollBack
         /\ byHash' = byHash \/ ApplyBlock \/ ReindexTip \/ RollBack
         /\ finalized' = finalized \/ Settle
         /\ prunedBelow' = prunedBelow \/ MarkPruned
         /\ loc' = loc \/ LocateBody \/ RollBack \/ Unreference \/ RepointBody
         /\ latest' = latest \/ PointTip
<1>1. CASE \E body \in Bodies : Accept(body) BY <1>1 DEF Accept, lmdb
<1>2. CASE SaveBody \/ SaveFails \/ PassOver \/ CarryBody
  BY <1>2 DEF SaveBody, SaveFails, PassOver, CarryBody, AppendTo, AbandonTail, lmdb
<1>3. CASE LocateFails \/ Abandon \/ LoseTrack \/ StartPrune \/ CollectSegments
  BY <1>3 DEF LocateFails, Abandon, LoseTrack, StartPrune, CollectSegments, lmdb
<1>4. CASE LocateBody \/ Unreference \/ RepointBody
  BY <1>4 DEF LocateBody, Unreference, RepointBody
<1>5. CASE ApplyBlock \/ ReindexTip \/ RollBack
  BY <1>5 DEF ApplyBlock, ReindexTip, RollBack
<1>6. CASE PointTip \/ Settle \/ MarkPruned
  BY <1>6 DEF PointTip, Settle, MarkPruned, lmdb
<1>7. CASE Crash \/ Restart
  BY <1>7 DEF Crash, Restart, lmdb
<1> QED BY <1>1, <1>2, <1>3, <1>4, <1>5, <1>6, <1>7 DEF Next

\* The history of failures is never forgotten.
LEMMA CutStays ==
  ASSUME Next
  PROVE  (cut => cut') /\ (cut \in BOOLEAN => cut' \in BOOLEAN)
<1>1. cut' = cut \/ LoseTrack \/ Crash
  BY DEF Next, Accept, SaveBody, SaveFails, LocateFails, LocateBody, ApplyBlock,
         Abandon, PointTip, ReindexTip, Settle, RollBack, StartPrune, PassOver,
         Unreference, CarryBody, RepointBody, MarkPruned, CollectSegments, Restart
<1>2. CASE LoseTrack BY <1>2 DEF LoseTrack
<1>3. CASE Crash
  <2>1. cut' = (cut \/ At("point")) BY <1>3 DEF Crash
  <2>2. (cut \/ At("point")) \in BOOLEAN OBVIOUS
  <2> QED BY <2>1, <2>2
<1> QED BY <1>1, <1>2, <1>3

Flagged(segments) ==
  \A s \in DOMAIN segments : \A i \in DOMAIN segments[s] :
    segments[s][i].whole \in BOOLEAN

\* An append adds one record, whole or torn, and perhaps an empty segment.
LEMMA AppendFlags ==
  ASSUME WellFormed(files), Flagged(files), NEW b,
         NEW record \in {Whole(b), Torn(b)}
  PROVE  Flagged(Appended(record)) /\ Flagged(Roll(Appended(record), Active))
<1> DEFINE g == Appended(record)  q == files[Active]
<1>1. Active \in DOMAIN files /\ IsSeq(q) BY LastIsLast DEF Active, WellFormed
<1>2. /\ DOMAIN g = DOMAIN files /\ g[Active] = Append(q, record)
      /\ \A s \in DOMAIN files : s # Active => g[s] = files[s]
  BY <1>1 DEF Appended
<1>3. \A i \in DOMAIN Append(q, record) : Append(q, record)[i].whole \in BOOLEAN
  <2>1. record.whole \in BOOLEAN
    <3>1. Whole(b).whole = TRUE /\ Torn(b).whole = FALSE BY DEF Whole, Torn
    <3> QED BY <3>1
  <2>2. \A i \in 1 .. Len(q) : q[i].whole \in BOOLEAN
    BY <1>1, AppendFacts DEF Flagged
  <2> QED BY <1>1, <2>1, <2>2, AppendFacts
<1> HIDE DEF g, q
<1>4. Flagged(g) BY <1>2, <1>3 DEF Flagged
<1>5. Flagged(Roll(g, Active)) BY <1>4 DEF Flagged, Roll, Extended
<1> QED BY <1>4, <1>5 DEF g

\* Whatever happens to the segments, a record is whole or torn.
LEMMA FlaggedKept ==
  ASSUME StorageInv, Flagged(files), Next
  PROVE  Flagged(files')
<1>1. WellFormed(files) BY DEF StorageInv
<1>2. ASSUME NEW b, AppendTo(b) \/ AbandonTail(b) PROVE Flagged(files')
  BY <1>1, <1>2, AppendFlags DEF AppendTo, AbandonTail
<1>3. CASE SaveBody \/ SaveFails \/ PassOver \/ CarryBody
  BY <1>2, <1>3 DEF SaveBody, SaveFails, PassOver, CarryBody
<1>4. CASE CollectSegments BY <1>4 DEF CollectSegments, Flagged
<1>5. CASE Crash
  <2>1. CASE files' = files BY <2>1
  <2>2. CASE \E b \in InFlight : files' \in {Appended(Whole(b)), Appended(Torn(b))}
    BY <1>1, <2>2, AppendFlags
  <2> QED BY <1>5, <2>1, <2>2 DEF Crash
<1>6. CASE Restart
  <2> DEFINE q == files[Active]  n == WholePrefix(q)
  <2>1. Active \in DOMAIN files /\ IsSeq(q) BY <1>1, LastIsLast DEF Active, WellFormed
  <2>2. files' = [files EXCEPT ![Active] = SubSeq(@, 1, n)]
    BY <1>6 DEF Restart, RepairTail
  <2>3. n \in 0 .. Len(q) BY RepairFacts
  <2> HIDE DEF n
  <2>4. /\ DOMAIN SubSeq(q, 1, n) = 1 .. n
        /\ \A i \in 1 .. n : SubSeq(q, 1, n)[i] = q[i] /\ i \in DOMAIN q
    <3>1. DOMAIN q = 1 .. Len(q) /\ Len(q) \in Nat BY <2>1, AppendFacts
    <3>2. \A i \in 1 .. n : i \in 1 .. Len(q) BY <2>3, <3>1
    <3> HIDE DEF q
    <3> QED BY <2>1, <2>3, <3>1, <3>2, PrefixFacts
  <2> QED BY <2>1, <2>2, <2>4 DEF Flagged
<1>7. CASE files' = files BY <1>7
<1>8. \/ files' = files \/ SaveBody \/ SaveFails \/ PassOver \/ CarryBody
      \/ CollectSegments \/ Crash \/ Restart
  BY DEF Next, Accept, LocateFails, LocateBody, ApplyBlock, Abandon, PointTip,
         ReindexTip, Settle, LoseTrack, RollBack, StartPrune, Unreference,
         RepointBody, MarkPruned
<1> QED BY <1>3, <1>4, <1>5, <1>6, <1>7, <1>8

\* The block thread's steps, and the node's two.
ThreadSteps ==
  \/ \E body \in Bodies : Accept(body)
  \/ SaveBody \/ SaveFails \/ LocateFails \/ LocateBody \/ ApplyBlock \/ Abandon
  \/ PointTip \/ ReindexTip \/ Settle \/ LoseTrack \/ RollBack
  \/ StartPrune \/ PassOver \/ Unreference \/ CarryBody \/ RepointBody
  \/ MarkPruned \/ CollectSegments

\* The thread runs only while the node is up, which it leaves as it is.
LEMMA UpMoves ==
  ASSUME TypeOK, Next
  PROVE  \/ ThreadSteps /\ up /\ up' = up
         \/ Crash /\ up /\ up' = FALSE /\ tip' = NONE /\ task' = Resting
         \/ Restart /\ up' = TRUE /\ task' = task /\ (tip' = latest \/ tip' = NONE)
<1>1. ASSUME NEW step, step # "rest", At(step) PROVE up BY <1>1 DEF TypeOK, At
<1>2. CASE \E body \in Bodies : Accept(body) BY <1>2 DEF ThreadSteps, Accept, Idle
<1>3. CASE SaveBody \/ SaveFails \/ LocateFails \/ LocateBody \/ ApplyBlock \/ Abandon
  BY <1>1, <1>3 DEF ThreadSteps, SaveBody, SaveFails, LocateFails, LocateBody,
                    ApplyBlock, Abandon
<1>4. CASE PointTip \/ ReindexTip \/ Settle \/ LoseTrack
  BY <1>1, <1>4 DEF ThreadSteps, PointTip, ReindexTip, Settle, LoseTrack
<1>5. CASE RollBack \/ StartPrune
  BY <1>5 DEF ThreadSteps, RollBack, StartPrune, Idle
<1>6. CASE PassOver \/ Unreference \/ CarryBody \/ RepointBody \/ MarkPruned
           \/ CollectSegments
  BY <1>1, <1>6 DEF ThreadSteps, PassOver, Unreference, CarryBody, RepointBody,
                    MarkPruned, CollectSegments, Carrying, Pruning
<1>7. CASE Crash BY <1>7 DEF Crash
<1>8. CASE Restart BY <1>8 DEF Restart
<1> QED BY <1>2, <1>3, <1>4, <1>5, <1>6, <1>7, <1>8 DEF Next

\* Blocks in hand are sequences, and lower than the bound.
LEMMA InHand ==
  ASSUME WindowInv
  PROVE  /\ \A step \in Held :
              At(step) => IsSeq(task.block) /\ Len(task.block) \in 0 .. MaxHeight
         /\ IsSeq(latest) /\ Len(latest) \in 0 .. MaxHeight
         /\ (up /\ tip # NONE => IsSeq(tip) /\ Len(tip) \in 0 .. MaxHeight)
<1>1. \A q : IsSeq(q) => Len(q) \in Nat BY DEF IsSeq
<1>2. MaxHeight \in Nat BY BoundsAssumption
<1>3. ASSUME NEW step \in Held, At(step)
      PROVE  IsSeq(task.block) /\ Len(task.block) \in 0 .. MaxHeight
  BY <1>1, <1>2, <1>3 DEF WindowInv, StorageInv, Halfway, Held, HeightsBounded
<1>4. IsSeq(latest) /\ Len(latest) \in 0 .. MaxHeight
  BY <1>1, <1>2 DEF WindowInv, StorageInv, Blocks, HeightsBounded
<1>5. up /\ tip # NONE => IsSeq(tip) /\ Len(tip) \in 0 .. MaxHeight
  BY <1>1, <1>2 DEF WindowInv, StorageInv, Blocks, HeightsBounded
<1> QED BY <1>3, <1>4, <1>5

\* Every variable keeps its shape, and the watermark stays below the floor.
LEMMA TypesKept ==
  ASSUME WindowInv, Next
  PROVE  TypeOK'
<1> USE BoundsAssumption
<1>0. StorageInv' BY NextKeeps DEF WindowInv
<1>1. \A s \in DOMAIN files' : \A i \in DOMAIN files'[s] : files'[s][i].whole \in BOOLEAN
  BY FlaggedKept DEF WindowInv, TypeOK, Flagged
<1>2. \A b \in DOMAIN loc' : loc'[b].seg \in Nat /\ loc'[b].at \in Nat \ {0}
  <2> SUFFICES ASSUME NEW b \in DOMAIN loc'
               PROVE  loc'[b].seg \in Nat /\ loc'[b].at \in Nat \ {0}
    OBVIOUS
  <2>1. loc'[b].seg \in DOMAIN files' /\ loc'[b].at \in DOMAIN files'[loc'[b].seg]
    BY <1>0 DEF StorageInv, LocatorsResolve, Readable, ReadableIn, HoldsIn
  <2>2. loc'[b].seg \in Nat /\ IsSeq(files'[loc'[b].seg])
    BY <1>0, <2>1 DEF StorageInv, WellFormed
  <2> QED BY <2>1, <2>2, AppendFacts
<1>3. written' \in 0 .. MaxRecords BY Writers DEF WindowInv, TypeOK
<1>4. IsABag(state')
  BY Writers, BagTypes DEF WindowInv, TypeOK, ApplyBlock, RollBack
<1>5. DOMAIN byNum' \subseteq 0 .. MaxHeight
  <2>1. CASE ApplyBlock \/ ReindexTip
    <3>1. Len(task.block) \in 0 .. MaxHeight
      BY <2>1, InHand DEF ApplyBlock, ReindexTip, Held
    <3>2. byNum' = Indexed(task.block) BY <2>1 DEF ApplyBlock, ReindexTip
    <3> QED BY <3>1, <3>2 DEF WindowInv, TypeOK, Indexed, Extended
  <2>2. CASE RollBack BY <2>2 DEF RollBack, Removed, WindowInv, TypeOK
  <2>3. CASE byNum' = byNum BY <2>3 DEF WindowInv, TypeOK
  <2> QED BY <2>1, <2>2, <2>3, Writers
<1>6. finalized' \in 0 .. MaxHeight /\ finalized' >= finalized
  <2>1. finalized \in 0 .. MaxHeight BY DEF WindowInv, TypeOK
  <2>2. CASE Settle
    <3>1. Len(task.block) \in 0 .. MaxHeight BY <2>2, InHand DEF Settle, Held
    <3> QED BY <2>1, <2>2, <3>1 DEF Settle, DepthFloor
  <2> QED BY <2>1, <2>2, Writers
<1>7. prunedBelow' \in 0 .. finalized'
  <2>1. finalized \in 0 .. MaxHeight /\ prunedBelow \in 0 .. finalized
    BY DEF WindowInv, TypeOK
  <2>2. CASE MarkPruned
    <3>1. task.below \in Nat /\ task.below <= finalized - Retention
      BY <2>2 DEF MarkPruned, WindowInv, HeightsBounded
    <3> QED BY <1>6, <2>1, <2>2, <3>1 DEF MarkPruned
  <2> QED BY <1>6, <2>1, <2>2, Writers
<1>8. {up', cut'} \subseteq BOOLEAN /\ (up' \/ (tip' = NONE /\ task'.step = "rest"))
  <2>1. up \in BOOLEAN /\ cut \in BOOLEAN /\ TypeOK BY DEF WindowInv, TypeOK
  <2>2. cut' \in BOOLEAN BY <2>1, CutStays
  <2>3. up' \in BOOLEAN /\ (up' \/ (tip' = NONE /\ task' = Resting)) BY <2>1, UpMoves
  <2> QED BY <2>2, <2>3 DEF Resting
<1> QED BY <1>1, <1>2, <1>3, <1>4, <1>5, <1>6, <1>7, <1>8 DEF TypeOK, At

\* No block above the bound is ever in hand, and pruning stays below the window.
LEMMA HeightsKept ==
  ASSUME WindowInv, Next
  PROVE  HeightsBounded'
<1> USE BoundsAssumption
<1>1. Len(latest') <= MaxHeight
  BY Writers, InHand DEF PointTip, Held
<1>2. ASSUME up', tip' # NONE PROVE Len(tip') <= MaxHeight
  <2>1. CASE \E body \in Bodies : Accept(body)
    <3>1. PICK body \in Bodies : Accept(body) BY <2>1
    <3>2. IsSeq(tip) /\ Len(tip) < MaxHeight /\ Len(tip) \in 0 .. MaxHeight
      BY <3>1, InHand DEF Accept, Idle
    <3>3. tip' = tip \/ tip' = Child(tip, body, state) BY <3>1 DEF Accept
    <3>4. Len(Child(tip, body, state)) = Len(tip) + 1 BY <3>2, ChildFacts
    <3> QED BY <3>2, <3>3, <3>4
  <2>2. CASE Settle BY <2>2, InHand DEF Settle, Held
  <2>3. CASE ThreadSteps /\ up /\ tip' = tip BY <1>2, <2>3, InHand
  <2>4. ThreadSteps => \/ tip' = tip \/ Settle \/ \E body \in Bodies : Accept(body)
    BY DEF ThreadSteps, SaveBody, SaveFails, LocateFails, LocateBody, ApplyBlock,
           Abandon, PointTip, ReindexTip, LoseTrack, RollBack, StartPrune, PassOver,
           Unreference, CarryBody, RepointBody, MarkPruned, CollectSegments
  <2>5. CASE tip' = latest BY <2>5, InHand
  <2> QED BY <1>2, <2>1, <2>2, <2>3, <2>4, <2>5, UpMoves DEF WindowInv
<1>3. ASSUME NEW step \in Held, At(step)' PROVE Len(task'.block) <= MaxHeight
  <2>1. CASE \E body \in Bodies : Accept(body)
    <3>1. PICK body \in Bodies : Accept(body) BY <2>1
    <3>2. IsSeq(tip) /\ Len(tip) < MaxHeight /\ Len(tip) \in 0 .. MaxHeight
          /\ At("rest")
      BY <3>1, InHand DEF Accept, Idle
    <3>3. task' = task \/ task' = [step |-> "save", block |-> Child(tip, body, state)]
      BY <3>1 DEF Accept
    <3>4. Len(Child(tip, body, state)) = Len(tip) + 1 BY <3>2, ChildFacts
    <3>5. task' # task BY <1>3, <3>2 DEF At, Held
    <3> QED BY <3>2, <3>3, <3>4, <3>5
  <2>2. CASE RollBack
    <3>1. IsSeq(tip) /\ tip # Genesis /\ Len(tip) \in 0 .. MaxHeight
      BY <2>2, InHand DEF RollBack, Idle
    <3>2. Len(Parent(tip)) = Len(tip) - 1 BY <3>1, ParentFacts
    <3> QED BY <2>2, <3>1, <3>2 DEF RollBack
  <2>3. CASE task' = task BY <1>3, <2>3, InHand DEF At
  <2>4. CASE SaveBody \/ LocateFails \/ LocateBody \/ ApplyBlock \/ PointTip \/ ReindexTip
    <3>1. task'.block = task.block /\ \E s \in Held : At(s)
      BY <2>4 DEF SaveBody, LocateFails, LocateBody, ApplyBlock, PointTip,
                  ReindexTip, Proceed, Held
    <3> QED BY <3>1, InHand
  <2>5. CASE task'.step \in {"rest", "prune", "repoint", "collect"}
    BY <1>3, <2>5 DEF At, Held
  <2> QED
    BY <2>1, <2>2, <2>3, <2>4, <2>5
    DEF Next, SaveFails, Abandon, Settle, LoseTrack, StartPrune, PassOver,
        Unreference, CarryBody, RepointBody, MarkPruned, CollectSegments, Skip,
        Crash, Restart, Resting
<1>4. ASSUME NEW step \in {"prune", "repoint"}, At(step)'
      PROVE  /\ {task'.at, task'.below} \subseteq Nat
             /\ task'.below <= finalized' - Retention
  <2>0. finalized \in Nat /\ prunedBelow \in Nat BY DEF WindowInv, TypeOK
  <2>1. CASE StartPrune
    BY <2>0, <2>1 DEF StartPrune, Prunable, lmdb
  <2>2. CASE PassOver \/ Unreference \/ CarryBody \/ RepointBody
    <3>1. At("prune") \/ At("repoint")
      BY <2>2 DEF PassOver, Unreference, CarryBody, RepointBody, Carrying, Pruning
    <3>2. {task.at, task.below} \subseteq Nat /\ task.below <= finalized - Retention
      BY <3>1 DEF WindowInv, HeightsBounded
    <3> QED BY <2>2, <3>2 DEF PassOver, Unreference, CarryBody, RepointBody, Skip, lmdb
  <2>3. CASE task' = task /\ finalized' = finalized
    BY <1>4, <2>3 DEF At, WindowInv, HeightsBounded
  <2>4. CASE task'.step \notin {"prune", "repoint"} BY <1>4, <2>4 DEF At
  <2> QED
    BY <2>1, <2>2, <2>3, <2>4
    DEF Next, Accept, SaveBody, SaveFails, LocateFails, LocateBody, ApplyBlock,
        Abandon, PointTip, ReindexTip, Settle, LoseTrack, RollBack, MarkPruned,
        CollectSegments, Crash, Restart, Resting, Proceed, lmdb
<1> QED BY <1>1, <1>2, <1>3, <1>4 DEF HeightsBounded

\* What pruning takes is below the window, and what a rollback takes is not
\* indexed any more.
LEMMA RetainedKept ==
  ASSUME WindowInv, Next
  PROVE  Retained'
<1> SUFFICES ASSUME NEW h \in DOMAIN byNum', h >= finalized' - Retention
             PROVE  byNum'[h] \in DOMAIN loc'
  BY DEF Retained
<1>0. /\ finalized' \in Nat /\ finalized \in Nat /\ h \in Nat /\ finalized' >= finalized
      /\ Retention \in Nat
  <2>1. TypeOK' /\ TypeOK BY TypesKept DEF WindowInv
  <2>2. CASE Settle
    <3>1. Len(task.block) \in 0 .. MaxHeight BY <2>2, InHand DEF Settle, Held
    <3> QED BY <2>1, <2>2, <3>1, BoundsAssumption DEF TypeOK, Settle, DepthFloor
  <2> QED BY <2>1, <2>2, Writers, BoundsAssumption DEF TypeOK
<1>1. h >= finalized - Retention BY <1>0
<1>2. /\ \A g \in DOMAIN byNum : IsSeq(byNum[g]) /\ Len(byNum[g]) = g
      /\ \A g \in DOMAIN byNum : g >= finalized - Retention => byNum[g] \in DOMAIN loc
  BY DEF WindowInv, StorageInv, Blocks, Retained
<1>3. CASE ApplyBlock \/ ReindexTip
  <2>1. task.block \in DOMAIN loc
    BY <1>3 DEF ApplyBlock, ReindexTip, WindowInv, StorageInv, Halfway
  <2>2. loc' = loc /\ byNum' = Indexed(task.block) BY <1>3 DEF ApplyBlock, ReindexTip
  <2>3. \/ h \in DOMAIN byNum /\ byNum'[h] = byNum[h]
        \/ byNum'[h] = task.block
    BY <2>2 DEF Indexed, Extended
  <2> QED BY <1>1, <1>2, <2>1, <2>2, <2>3
<1>4. CASE RollBack
  <2>1. h \in DOMAIN byNum /\ h # Len(tip) /\ byNum'[h] = byNum[h]
    BY <1>4 DEF RollBack, Removed
  <2>2. byNum[h] # tip BY <1>2, <2>1
  <2> QED BY <1>1, <1>2, <1>4, <2>1, <2>2 DEF RollBack, Removed
<1>5. CASE Unreference
  <2>1. /\ byNum' = byNum /\ loc' = Removed(loc, byNum[task.at])
        /\ task.at \in DOMAIN byNum /\ task.at < task.below /\ At("prune")
    BY <1>5 DEF Unreference, Pruning, Victim
  <2>2. {task.at, task.below} \subseteq Nat /\ task.below <= finalized - Retention
    BY <2>1 DEF WindowInv, HeightsBounded
  <2>3. h # task.at BY <1>0, <1>1, <2>1, <2>2
  <2>4. byNum[h] # byNum[task.at] BY <1>2, <2>1, <2>3
  <2> QED BY <1>1, <1>2, <2>1, <2>4 DEF Removed
<1>6. CASE byNum' = byNum /\ (loc' = loc \/ LocateBody \/ RepointBody)
  BY <1>1, <1>2, <1>6 DEF LocateBody, RepointBody, Extended
<1> QED BY <1>3, <1>4, <1>5, <1>6, Writers

-----------------------------------------------------------------------------
(* The stores, one beside the other. *)

\* A block is among its own ancestors, at its own height.
LEMMA OwnAncestor ==
  ASSUME NEW c, IsSeq(c)
  PROVE  c \in Ancestors(c) /\ SubSeq(c, 1, Len(c)) = c /\ Len(c) \in 0 .. Len(c)
<1>1. Len(c) \in Nat /\ Len(c) \in 0 .. Len(c) BY DEF IsSeq
<1>2. SubSeq(c, 1, Len(c)) = c
  <2> DEFINE p == SubSeq(c, 1, Len(c))
  <2>1. IsSeq(p) /\ Len(p) = Len(c) /\ \A i \in 1 .. Len(c) : p[i] = c[i]
    BY <1>1, PrefixFacts
  <2> HIDE DEF p
  <2>2. p = c BY <2>1, SameSequence
  <2> QED BY <2>2 DEF p
<1> QED BY <1>1, <1>2 DEF Ancestors

\* Genesis has no ancestors but itself, and no effects.
LEMMA GenesisAlone ==
  /\ IsSeq(Genesis) /\ Len(Genesis) = 0 /\ SubSeq(Genesis, 1, 0) = Genesis
  /\ Ancestors(Genesis) = {Genesis} /\ Effects(Genesis) = EmptyBag
<1>1. IsSeq(Genesis) /\ Len(Genesis) = 0 BY DEF IsSeq, Genesis
<1>2. SubSeq(Genesis, 1, 0) = Genesis BY <1>1, OwnAncestor
<1>3. Ancestors(Genesis) = {Genesis}
  <2>1. 0 .. 0 = {0} OBVIOUS
  <2> QED BY <1>1, <1>2, <2>1 DEF Ancestors
<1>4. {Effect(a) : a \in Ancestors(Genesis) \ {Genesis}} = {} BY <1>3
<1> QED BY <1>1, <1>2, <1>3, <1>4 DEF Effects, EmptyBag

\* What is not between two blocks' steps of writing, and leaves stores and tip
\* alone, keeps them in step.
LEMMA Undisturbed ==
  ASSUME IsOn(Top), finalized <= Len(Top), InStep,
         UNCHANGED <<state, byHash, byNum, finalized, latest, tip, up>>,
         \A step \in {"point", "reindex", "settle"} : ~At(step) /\ ~At(step)',
         \A step \in {"save", "locate", "apply"} :
           At(step)' => ChildOf(task'.block, latest)
  PROVE  (IsOn(Top) /\ finalized <= Len(Top) /\ InStep)'
<1>1. Top = latest /\ Top' = latest BY DEF Top
<1>2. IsOn(Top)' BY <1>1 DEF IsOn
<1> QED BY <1>1, <1>2 DEF InStep

\* The steps that only prepare, give up, or prune.
LEMMA ThreadInStep ==
  ASSUME IsOn(Top), finalized <= Len(Top), InStep, up' = up,
         \/ SaveBody \/ SaveFails \/ LocateFails \/ LocateBody \/ Abandon
         \/ StartPrune \/ PassOver \/ Unreference \/ CarryBody \/ RepointBody
         \/ MarkPruned \/ CollectSegments
  PROVE  (IsOn(Top) /\ finalized <= Len(Top) /\ InStep)'
<1>1. UNCHANGED <<state, byHash, byNum, finalized, latest, tip, up>>
  BY DEF SaveBody, SaveFails, LocateFails, LocateBody, Abandon, StartPrune, PassOver,
         Unreference, CarryBody, RepointBody, MarkPruned, CollectSegments, lmdb
<1>2. CASE SaveBody \/ SaveFails \/ LocateFails \/ LocateBody
  <2>1. /\ \E step \in {"save", "locate", "apply"} : At(step)
        /\ task'.block = task.block /\ task'.step \in {"save", "locate", "apply"}
    BY <1>2 DEF SaveBody, SaveFails, LocateFails, LocateBody, At
  <2>2. ChildOf(task'.block, latest) BY <2>1 DEF InStep
  <2>3. \A step \in {"point", "reindex", "settle"} : ~At(step) /\ ~At(step)'
    BY <2>1 DEF At
  <2> QED BY <1>1, <2>2, <2>3, Undisturbed
<1>3. CASE \/ Abandon \/ StartPrune \/ PassOver \/ Unreference \/ CarryBody
           \/ RepointBody \/ MarkPruned \/ CollectSegments
  <2>1. /\ task.step \in {"save", "apply", "rest", "prune", "repoint", "collect"}
        /\ task'.step \in {"rest", "prune", "repoint", "collect"}
    BY <1>3 DEF Abandon, StartPrune, PassOver, Unreference, CarryBody, RepointBody,
                MarkPruned, CollectSegments, Idle, Carrying, Pruning, Skip, At, Resting
  <2>2. \A step \in {"point", "reindex", "settle"} : ~At(step) /\ ~At(step)'
    BY <2>1 DEF At
  <2>3. \A step \in {"save", "locate", "apply"} : ~At(step)' BY <2>1 DEF At
  <2> QED BY <1>1, <2>2, <2>3, Undisturbed
<1> QED BY <1>2, <1>3

\* A candidate is new: the index holds its parent's branch only.
LEMMA AcceptInStep ==
  ASSUME StoresInv, ~cut, NEW body \in Bodies, Accept(body)
  PROVE  (IsOn(Top) /\ finalized <= Len(Top) /\ InStep)'
<1> DEFINE c == Child(tip, body, state)
<1>1. /\ IsOn(Top) /\ finalized <= Len(Top) /\ InStep /\ At("rest") /\ up /\ tip # NONE
      /\ Top = latest /\ tip = latest /\ IsSeq(tip)
  BY InHand DEF StoresInv, OnOneBranch, Accept, Idle, InStep, Top, At
<1>2. ChildOf(c, latest) /\ IsSeq(c) BY <1>1, ChildFacts
<1> HIDE DEF c
<1>3. c \notin byHash BY <1>1, <1>2, AncestorsGrow DEF ChildOf, IsOn
<1>4. task' = [step |-> "save", block |-> c] /\ tip' = tip
  BY <1>3 DEF Accept, c
<1>5. UNCHANGED <<state, byHash, byNum, finalized, latest, tip, up>>
  BY <1>4 DEF Accept, lmdb
<1> QED BY <1>1, <1>2, <1>4, <1>5, Undisturbed DEF At

\* A commit moves state and indexes to the block in hand.
LEMMA ApplyInStep ==
  ASSUME StoresInv, ~cut, ApplyBlock
  PROVE  (IsOn(Top) /\ finalized <= Len(Top) /\ InStep)'
<1> PICK c : c = task.block OBVIOUS
<1>1. /\ IsOn(latest) /\ finalized <= Len(latest) /\ ChildOf(c, latest) /\ IsSeq(c)
  BY InHand DEF StoresInv, OnOneBranch, ApplyBlock, InStep, Top, At, Held
<1>2. /\ task' = [step |-> "point", of |-> "incorporate", block |-> c]
      /\ state' = state (+) SetToBag({Effect(c)})
      /\ byNum' = Indexed(c) /\ byHash' = byHash \cup {c}
      /\ UNCHANGED <<finalized, latest>>
  BY DEF ApplyBlock
<1>3. Top' = c BY <1>2 DEF Top, At
<1>4. c # Genesis /\ Parent(c) = latest BY <1>1 DEF ChildOf
<1>5. IsOn(Top)'
  <2>1. state' = Effects(c) BY <1>1, <1>2, <1>4, BranchMoves DEF IsOn
  <2>2. byHash' = Ancestors(c) BY <1>1, <1>2, <1>4, AncestorsGrow DEF IsOn
  <2>3. byNum' = Extended(byNum, Len(c), c)
    BY <1>1, <1>2, <1>4, BranchMoves DEF IsOn, Indexed
  <2>4. byNum' = [h \in 0 .. Len(c) |-> SubSeq(c, 1, h)]
    BY <1>1, <1>4, <2>3, BranchMoves DEF IsOn
  <2> QED BY <1>3, <2>1, <2>2, <2>4 DEF IsOn
<1>6. finalized' <= Len(c)
  <2>1. Len(latest) = Len(c) - 1 /\ Len(c) \in Nat BY <1>1, <1>4, ParentFacts
  <2>2. finalized \in Nat BY DEF StoresInv, WindowInv, TypeOK
  <2> QED BY <1>1, <1>2, <2>1, <2>2
<1>7. InStep' BY <1>1, <1>2 DEF InStep, At
<1> QED BY <1>3, <1>5, <1>6, <1>7

\* A rollback's commit moves them back to the parent.
LEMMA RollBackInStep ==
  ASSUME StoresInv, ~cut, RollBack
  PROVE  (IsOn(Top) /\ finalized <= Len(Top) /\ InStep)'
<1> PICK c : c = tip OBVIOUS
<1> PICK b : b = Parent(c) OBVIOUS
<1>1. /\ IsOn(c) /\ latest = c /\ IsSeq(c) /\ c # Genesis /\ finalized <= Len(c) - 1
  BY InHand DEF StoresInv, OnOneBranch, RollBack, Idle, InStep, Top, At, Undoable
<1>2. /\ task' = [step |-> "point", of |-> "rollback", block |-> b]
      /\ state' = state (-) SetToBag({Effect(c)})
      /\ byNum' = Removed(byNum, Len(c)) /\ byHash' = byHash \ {c}
      /\ UNCHANGED <<finalized, latest>>
  BY DEF RollBack
<1>3. Top' = b BY <1>2 DEF Top, At
<1>4. IsOn(Top)'
  <2>1. state' = Effects(b) BY <1>1, <1>2, BranchMoves DEF IsOn
  <2>2. byHash' = Ancestors(b) BY <1>1, <1>2, AncestorsGrow DEF IsOn
  <2>3. byNum' = [h \in 0 .. Len(b) |-> SubSeq(b, 1, h)]
    BY <1>1, <1>2, BranchMoves DEF IsOn
  <2> QED BY <1>3, <2>1, <2>2, <2>3 DEF IsOn
<1>5. finalized' <= Len(b) BY <1>1, <1>2, ParentFacts
<1>6. InStep' BY <1>1, <1>2 DEF InStep, At, ChildOf
<1> QED BY <1>3, <1>4, <1>5, <1>6

\* The tip file catches up with the commit, the index is as it was, and the
\* in-memory tip comes last.
LEMMA CatchUpInStep ==
  ASSUME StoresInv, ~cut, PointTip \/ ReindexTip \/ Settle
  PROVE  (IsOn(Top) /\ finalized <= Len(Top) /\ InStep)'
<1> PICK c : c = task.block OBVIOUS
<1>1. /\ Top = c /\ IsOn(c) /\ IsSeq(c) /\ Len(c) \in Nat /\ finalized <= Len(c)
      /\ finalized \in Nat /\ (~At("point") => latest = c)
  BY InHand
  DEF StoresInv, WindowInv, TypeOK, OnOneBranch, PointTip, ReindexTip, Settle, InStep,
      Top, At, Held
<1>2. CASE PointTip
  <2>1. /\ task'.step = "reindex" /\ task'.block = c /\ latest' = c
        /\ UNCHANGED <<state, byHash, byNum, finalized>>
    BY <1>2 DEF PointTip, Proceed, lmdb
  <2>2. Top' = c BY <2>1 DEF Top, At
  <2> QED BY <1>1, <2>1, <2>2 DEF IsOn, InStep, At
<1>3. CASE ReindexTip
  <2>1. /\ task'.step = "settle" /\ task'.block = c /\ latest = c
        /\ UNCHANGED <<state, finalized, latest>>
    BY <1>1, <1>3 DEF ReindexTip, Proceed, At
  <2>2. Top' = c BY <2>1 DEF Top, At
  <2>3. byHash' = byHash /\ byNum' = byNum
    BY <1>1, <1>3, OwnAncestor DEF ReindexTip, Indexed, IsOn
  <2> QED BY <1>1, <2>1, <2>2, <2>3 DEF IsOn, InStep, At
<1>4. CASE Settle
  <2>1. /\ task'.step = "rest" /\ tip' = c /\ latest = c
        /\ UNCHANGED <<state, byHash, byNum, latest>>
    BY <1>1, <1>4 DEF Settle, At, Resting
  <2>2. Top' = c BY <2>1 DEF Top, At
  <2>3. finalized' <= Len(c)
    BY <1>1, <1>4, BoundsAssumption DEF Settle, DepthFloor
  <2> QED BY <1>1, <2>1, <2>2, <2>3 DEF IsOn, InStep, At
<1> QED BY <1>2, <1>3, <1>4

\* Every step keeps the stores one beside the other, or is recorded as a cut.
LEMMA BranchKept ==
  ASSUME StoresInv, Next
  PROVE  OnOneBranch'
<1> SUFFICES ASSUME ~cut' PROVE (IsOn(Top) /\ finalized <= Len(Top) /\ InStep)'
  BY DEF OnOneBranch
<1>1. ~cut BY CutStays
<1>2. IsOn(Top) /\ finalized <= Len(Top) /\ InStep BY <1>1 DEF StoresInv, OnOneBranch
<1>3. TypeOK BY DEF StoresInv, WindowInv
<1>4. CASE ThreadSteps /\ up' = up
  <2>1. ~LoseTrack BY DEF LoseTrack
  <2> QED
    BY <1>1, <1>2, <1>4, <2>1, AcceptInStep, ApplyInStep, RollBackInStep,
       CatchUpInStep, ThreadInStep
    DEF ThreadSteps
<1>5. CASE Crash
  <2>1. /\ ~At("point") /\ task' = Resting /\ ~up'
        /\ UNCHANGED <<state, byHash, byNum, finalized, latest>>
    BY <1>5 DEF Crash, lmdb
  <2>2. Top = latest /\ Top' = latest BY <2>1 DEF Top, At, Resting
  <2>3. InStep' BY <2>1 DEF InStep, At, Resting
  <2> QED BY <1>2, <2>1, <2>2, <2>3 DEF IsOn
<1>6. CASE Restart
  <2>1. /\ task.step = "rest" /\ task' = task /\ (tip' = latest \/ tip' = NONE)
        /\ UNCHANGED <<state, byHash, byNum, finalized, latest>>
    BY <1>3, <1>6 DEF TypeOK, At, Restart, lmdb
  <2>2. Top = latest /\ Top' = latest BY <2>1 DEF Top, At
  <2>3. InStep' BY <2>1 DEF InStep, At
  <2> QED BY <1>2, <2>1, <2>2, <2>3 DEF IsOn
<1> QED BY <1>3, <1>4, <1>5, <1>6, UpMoves

-----------------------------------------------------------------------------
(* The stronger invariant, and what follows from it. *)

\* At genesis everything is on the branch of genesis.
LEMMA InitInStep == Init => StoresInv
<1> SUFFICES ASSUME Init PROVE StoresInv OBVIOUS
<1> USE BoundsAssumption
<1>1. StorageInv BY InitKeeps
<1>2. TypeOK
  <2>1. IsABag(state) BY DEF Init, EmptyBag, SetToBag, IsABag
  <2>2. Flagged(files)
    <3>1. files = [s \in {0} |-> <<Whole(Genesis)>>] BY DEF Init
    <3>2. \A i \in DOMAIN <<Whole(Genesis)>> :
            <<Whole(Genesis)>>[i].whole \in BOOLEAN
      <4>1. Whole(Genesis).whole = TRUE BY DEF Whole
      <4>2. \A x : \A i \in DOMAIN <<x>> : <<x>>[i] = x OBVIOUS
      <4> QED BY <4>1, <4>2
    <3> HIDE DEF Whole
    <3> QED BY <3>1, <3>2 DEF Flagged
  <2>3. \A b \in DOMAIN loc : loc[b].seg \in Nat /\ loc[b].at \in Nat \ {0}
    BY DEF Init
  <2>4. written \in 0 .. MaxRecords /\ DOMAIN byNum \subseteq 0 .. MaxHeight
    BY DEF Init
  <2>5. finalized \in 0 .. MaxHeight /\ prunedBelow \in 0 .. finalized BY DEF Init
  <2>6. {up, cut} \subseteq BOOLEAN /\ up BY DEF Init
  <2> QED BY <2>1, <2>2, <2>3, <2>4, <2>5, <2>6 DEF TypeOK, Flagged
<1>3. HeightsBounded BY GenesisAlone DEF Init, HeightsBounded, At, Resting, Held
<1>4. Retained BY DEF Init, Retained
<1>5. OnOneBranch
  <2>1. Top = Genesis BY DEF Init, Top, At, Resting
  <2>2. 0 .. 0 = {0} OBVIOUS
  <2>3. IsOn(Genesis) BY <2>2, GenesisAlone DEF Init, IsOn
  <2>4. InStep BY DEF Init, InStep, At, Resting
  <2> QED BY <2>1, <2>3, <2>4, GenesisAlone DEF Init, OnOneBranch
<1> QED BY <1>1, <1>2, <1>3, <1>4, <1>5 DEF StoresInv, WindowInv

\* Every step keeps it.
LEMMA StoresKept == StoresInv /\ [Next]_vars => StoresInv'
<1> SUFFICES ASSUME StoresInv, [Next]_vars PROVE StoresInv' OBVIOUS
<1>1. CASE Next
  <2>1. StorageInv' BY <1>1, NextKeeps DEF StoresInv, WindowInv
  <2>2. TypeOK' /\ HeightsBounded' /\ Retained'
    BY <1>1, TypesKept, HeightsKept, RetainedKept DEF StoresInv
  <2> QED BY <1>1, <2>1, <2>2, BranchKept DEF StoresInv, WindowInv
<1>2. CASE UNCHANGED vars
  <2>1. StorageInv' BY <1>2, NextKeeps DEF StoresInv, WindowInv
  <2>2. TypeOK' /\ HeightsBounded' /\ Retained'
    BY <1>2 DEF StoresInv, WindowInv, TypeOK, HeightsBounded, Retained, At, vars, lmdb
  <2>3. OnOneBranch'
    BY <1>2 DEF StoresInv, OnOneBranch, IsOn, Top, InStep, At, vars, lmdb
  <2> QED BY <2>1, <2>2, <2>3 DEF StoresInv, WindowInv
<1> QED BY <1>1, <1>2

\* Types, the window of pruning and, on a node whose commits were always
\* followed by the tip file, the agreement of state, indexes and tip file: in
\* the middle of anything and in every outage (incorporate_block,
\* rollback_one_block, set_latest_block_info, prune_block_bodies).
THEOREM StoresInvariant == Spec => []StoresInv
BY InitInStep, StoresKept, PTL DEF Spec

\* Every variable keeps its shape, and the watermark stays below the floor.
THEOREM StoreTypeCorrect == Spec => []TypeOK
<1>1. StoresInv => TypeOK BY DEF StoresInv, WindowInv
<1> QED BY StoresInvariant, <1>1, PTL

\* Rolling mode never takes a body that a legal rollback or the retention
\* window still needs (prune_block_bodies).
THEOREM RetainedStayReadable == Spec => []RetainedBodiesReadable
<1>1. StoresInv => RetainedBodiesReadable
  BY DEF StoresInv, WindowInv, Retained, StorageInv, LocatorsResolve,
         RetainedBodiesReadable
<1> QED BY StoresInvariant, <1>1, PTL

\* Between blocks, the state is that of the tip's branch, the indexes hold its
\* ancestors and nothing else, and the tip file names it, unless a commit was
\* once cut off from the tip file.
THEOREM StoresAlwaysAgree == Spec => []StoresAgree
<1>1. StoresInv => StoresAgree
  BY DEF StoresInv, OnOneBranch, IsOn, InStep, Top, Idle, At, StoresAgree
<1> QED BY StoresInvariant, <1>1, PTL

\* In the middle of anything and in every outage, the tip file is at most one
\* block away from the state on disk.
THEOREM AlwaysWithinOne == Spec => []DurableWithinOne
<1>1. StoresInv => DurableWithinOne
  <2> SUFFICES ASSUME StoresInv, ~cut
               PROVE  \E b \in byHash :
                        /\ state = Effects(b)
                        /\ \/ latest = b
                           \/ b # Genesis /\ latest = Parent(b)
                           \/ latest # Genesis /\ Parent(latest) = b
    BY DEF DurableWithinOne
  <2>1. IsOn(Top) /\ InStep /\ IsSeq(Top)
    BY InHand DEF StoresInv, OnOneBranch, Top, Held
  <2>2. Top \in byHash /\ state = Effects(Top) BY <2>1, OwnAncestor DEF IsOn
  <2>3. Top = latest \/ ChildOf(Top, latest) \/ ChildOf(latest, Top)
    BY <2>1 DEF InStep, Top
  <2> QED BY <2>2, <2>3 DEF ChildOf
<1> QED BY StoresInvariant, <1>1, PTL

\* The block indexed at a height the floor has reached is that height's block
\* for ever; only a rollback takes an index entry, and it stops at the floor.
THEOREM FinalBlocksStay == Spec => FinalIsForever
<1> DEFINE Stays ==
      \A h \in 0 .. finalized :
        /\ ~cut => h \in DOMAIN byNum
        /\ h \in DOMAIN byNum => h \in DOMAIN byNum' /\ byNum'[h] = byNum[h]
<1>1. StoresInv /\ [Next]_vars => [Stays]_vars
  <2> SUFFICES ASSUME StoresInv, Next, NEW h \in 0 .. finalized
               PROVE  /\ ~cut => h \in DOMAIN byNum
                      /\ h \in DOMAIN byNum =>
                           h \in DOMAIN byNum' /\ byNum'[h] = byNum[h]
    OBVIOUS
  <2>0. finalized \in Nat BY DEF StoresInv, WindowInv, TypeOK
  <2>1. ASSUME ~cut PROVE h \in DOMAIN byNum
    <3>1. IsOn(Top) /\ finalized <= Len(Top) /\ IsSeq(Top)
      BY <2>1, InHand DEF StoresInv, OnOneBranch, Top, Held
    <3>2. Len(Top) \in Nat BY <3>1 DEF IsSeq
    <3>3. h \in 0 .. Len(Top) BY <2>0, <3>1, <3>2
    <3> QED BY <3>1, <3>3 DEF IsOn
  <2>2. ASSUME h \in DOMAIN byNum PROVE h \in DOMAIN byNum' /\ byNum'[h] = byNum[h]
    <3>1. CASE ApplyBlock \/ ReindexTip
      BY <2>2, <3>1 DEF ApplyBlock, ReindexTip, Indexed, Extended
    <3>2. CASE RollBack
      <4>1. Len(tip) \in Nat /\ Len(tip) - 1 >= finalized
        BY <3>2, InHand DEF StoresInv, RollBack, Idle, Undoable
      <4>2. h # Len(tip) BY <2>0, <4>1
      <4> QED BY <2>2, <3>2, <4>2 DEF RollBack, Removed
    <3>3. CASE byNum' = byNum BY <2>2, <3>3
    <3> QED BY <3>1, <3>2, <3>3, Writers
  <2> QED BY <2>1, <2>2
<1> QED BY StoresInvariant, <1>1, PTL DEF Spec, FinalIsForever

=============================================================================
