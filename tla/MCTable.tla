------------------------------ MODULE MCTable ------------------------------
(***************************************************************************)
(* Three keys for three blocks.  kInlineCap is 2: the value of length 1    *)
(* fits inline, those of length 2 and 3 spill.  k1 and k2 share a bucket   *)
(* in a table of two and part when it grows to four; k1 and k3 have the    *)
(* same hash, so only the bytes tell them apart.                           *)
(***************************************************************************)
EXTENDS Table, TLC

CONSTANTS k1, k2, k3, v1, v2, v3

MCHash == k1 :> 1 @@ k2 :> 3 @@ k3 :> 1
MCKeyLen == k1 :> 1 @@ k2 :> 1 @@ k3 :> 1
MCValLen == v1 :> 1 @@ v2 :> 2 @@ v3 :> 3
=============================================================================
