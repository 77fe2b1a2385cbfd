------------------------------ MODULE MCDuties ------------------------------
(***************************************************************************)
(* A validator at the last block of epoch 0, for TLC, with or without a    *)
(* commitment for epoch 2 behind it.                                       *)
(***************************************************************************)
EXTENDS Duties

\* The chain of a node that was up and heard by all since genesis.
Quiet(commit) ==
  [h \in 1 .. EpochLength - 1 |->
     [branch |-> 0,
      duty |-> IF h = 1 THEN [NoDuty EXCEPT !.commit = commit] ELSE NoDuty]]

StartInit ==
  \E commit \in 0 .. 1 :
    /\ chain = Quiet(commit) /\ branch = 0 /\ synced = TRUE
    /\ floor = EpochLength - 1 - FinalityDepth
    /\ memo = [e \in Epochs |-> <<>>] /\ pruned = 0
    /\ secrets = [e \in Epochs |-> IF e = 2 THEN commit ELSE 0]
    /\ saved = secrets /\ drawn = secrets
    /\ task = "idle" /\ pool = {}
    /\ wire = IF commit = 0 THEN {} ELSE {Duty(1, <<>>, commit, 0)}
    /\ seeded = [e \in Epochs |-> IF e = 0 THEN 0 ELSE Unset] /\ lost = {}

\* One kind of loss per behaviour.
OneLoss == Cardinality(lost \ {"memo"}) <= 1

StartSpec == StartInit /\ [][Next]_vars
=============================================================================
