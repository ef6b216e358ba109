----------------------------- MODULE MCHashTable -----------------------------
(***************************************************************************)
(* A table of three cells.  Keys k1 and k2 share a bucket, k3 has one of   *)
(* its own, and k4 is too long for a cell, so that chains of up to three   *)
(* links, collisions, a full table and duplicate keys all occur.           *)
(***************************************************************************)
EXTENDS HashTable

CONSTANTS k1, k2, k3, k4

MCKeys == {k1, k2, k3, k4}
MCLongKeys == {k4}
MCBucket == [k \in MCKeys |-> IF k \in {k1, k2} THEN 1 ELSE 0]
=============================================================================
