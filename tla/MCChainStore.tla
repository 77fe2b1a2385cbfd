----------------------------- MODULE MCChainStore -----------------------------
(* A chain of a few blocks, one body of two with a blob, segments that fill   *)
(* after one or two records, and room for a handful of appends.               *)
EXTENDS ChainStoreInv

CONSTANTS plain, blob

MCBodies     == {plain, blob}
MCBlobBodies == {blob}
=============================================================================
