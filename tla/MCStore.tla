------------------------------ MODULE MCStore ------------------------------
(***************************************************************************)
(* Instances of Store for TLC: three keys, two of them in one bucket until *)
(* the table grows.                                                        *)
(***************************************************************************)
EXTENDS Store

CONSTANTS k1, k2, k3

Config(buckets, cap, samples, pol) ==
    [initialBuckets |-> buckets, maxKeys |-> cap, lruSamples |-> samples, policy |-> pol]

\* No cap and a table that has to grow; a cap of two under each policy.
MCConfigs ==
    {Config(1, 0, 1, NoEviction), Config(1, 2, 1, NoEviction), Config(1, 2, 2, AllKeysLru)}

\* Two keys, a cap of one under each policy and no cap.
MapConfigs ==
    {Config(1, 0, 1, NoEviction), Config(1, 1, 1, NoEviction), Config(1, 1, 1, AllKeysLru)}

\* A cap above the pool, as --maxkeys passes it on unchecked.
OverCapConfigs == {Config(1, 3, 1, NoEviction)}

MCHash == [k \in Keys |-> CASE k = k1 -> 1 [] k = k2 -> 3 [] k = k3 -> 0]
=============================================================================
