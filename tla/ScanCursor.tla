----------------------------- MODULE ScanCursor -----------------------------
(***************************************************************************)
(* The scan guarantee of Table::scanBucket, apart from any entry: the      *)
(* cursor walks the buckets of a table whose bucket count may double       *)
(* between two calls (Table::maybeGrow), and the entry whose 32-bit hash   *)
(* is h is seen when the scanned bucket is h & mask.                       *)
(*                                                                         *)
(* Every hash value stands for an entry that lives through the whole scan; *)
(* entries that come and go are those of the module Store.                 *)
(***************************************************************************)
EXTENDS Bits, FiniteSets

CONSTANTS
    HashRange,    \* hash values are 0 .. HashRange - 1, a power of two
    FewestBuckets \* bucketCount() of the table when a scan starts, at least

ASSUME ScanAssumption ==
    /\ HashRange \in Nat /\ nextPow2(HashRange) = HashRange
    /\ FewestBuckets \in Nat /\ nextPow2(FewestBuckets) = FewestBuckets
    /\ FewestBuckets <= HashRange

VARIABLES
    bucketCount, \* buckets_.size()
    cursor,      \* expireCursor_, the value the last scanBucket returned
    visits,      \* history: how often this scan has handed each hash to its visitor:
                 \* 0, 1, or 2 for more than once
    scanned      \* has this scan visited a bucket yet

vars == <<bucketCount, cursor, visits, scanned>>

Hashes == 0 .. HashRange - 1
BucketCounts == {b \in FewestBuckets .. HashRange : nextPow2(b) = b}

TypeOK ==
    /\ bucketCount \in BucketCounts
    /\ cursor \in 0 .. bucketCount - 1
    /\ visits \in [Hashes -> 0 .. 2]
    /\ scanned \in BOOLEAN

NotVisited == [h \in Hashes |-> 0]

Init ==
    /\ bucketCount \in BucketCounts
    /\ cursor = 0
    /\ visits = NotVisited
    /\ scanned = FALSE

ScanOver == scanned /\ cursor = 0

\* One call of scanBucket: the whole chain at cursor, then the next cursor.
scanBucket ==
    LET mask == bucketCount - 1
    IN  /\ ~ScanOver
        /\ visits' = [h \in Hashes |->
                        IF h % bucketCount = cursor % bucketCount /\ visits[h] < 2
                        THEN visits[h] + 1 ELSE visits[h]]
        /\ cursor' = nextCursor(cursor, mask)
        /\ scanned' = TRUE
        /\ UNCHANGED bucketCount

\* The next cycle starts at the cursor 0 the last one ended with.
NextScan ==
    /\ ScanOver
    /\ visits' = NotVisited
    /\ scanned' = FALSE
    /\ UNCHANGED <<bucketCount, cursor>>

\* maybeGrow doubles; an insert may do so between any two scanBucket calls.
maybeGrow ==
    /\ 2 * bucketCount <= HashRange
    /\ bucketCount' = 2 * bucketCount
    /\ UNCHANGED <<cursor, visits, scanned>>

Next == scanBucket \/ NextScan \/ maybeGrow

Spec == Init /\ [][Next]_vars /\ WF_vars(scanBucket)
-----------------------------------------------------------------------------
\* Whatever growth happens in the middle of a scan, no entry that was there
\* throughout is handed to the visitor twice, and by the end of the scan each has
\* been (Table::scanBucket): growth only splits buckets, and the reverse-binary
\* order has both halves on the same side of the cursor.
EachEntryOnce ==
    /\ TypeOK
    /\ \A h \in Hashes : visits[h] <= 1
    /\ ScanOver => \A h \in Hashes : visits[h] = 1

\* A scan always comes to its end, growth included: cursor 0 is returned again.
ScanEnds == (scanned /\ cursor # 0) ~> ScanOver
=============================================================================
