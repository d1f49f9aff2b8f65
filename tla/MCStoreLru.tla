----------------------------- MODULE MCStoreLru -----------------------------
(***************************************************************************)
(* An LRU store without a cap of its own, so that the pool is the cap; the *)
(* sampler sees every entry and the clock rolls over inside the run.       *)
(***************************************************************************)
EXTENDS StoreLru, TLC

CONSTANTS k1, k2, k3

MCHash == k1 :> 1 @@ k2 :> 3 @@ k3 :> 0

MCConfigs ==
    {[initialBuckets |-> 1, maxKeys |-> 0, lruSamples |-> 2, policy |-> AllKeysLru]}
=============================================================================
