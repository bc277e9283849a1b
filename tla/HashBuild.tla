------------------------------- MODULE HashBuild -------------------------------
(***************************************************************************)
(* The hash stage of elfrc_container_build: sizing the open-addressed      *)
(* table (next_pow2) and inserting one bucket per directory entry with     *)
(* linear probing.  The names, in directory order, come from a validated   *)
(* manifest: a name may occur several times (one entry per language).      *)
(*                                                                         *)
(* elfr_fnv1a64 is any function from names to HashValues: nothing below    *)
(* depends on which one, and two different names may collide.              *)
(***************************************************************************)
EXTENDS Integers, FiniteSets

CONSTANTS
    Names,          \* resource names
    HashValues,     \* the values elfr_fnv1a64 takes (64-bit in the code)
    MaxResources,   \* bound on resource_count
    MinBuckets,     \* 16 in next_pow2
    U32             \* 2^32: the modulus of uint32_t arithmetic

(* next_pow2 doubles a uint32_t until it reaches 2 * resource_count: it     *)
(* neither wraps nor loops while 4 * resource_count stays within 32 bits.   *)
ASSUME HashBuildAssumption ==
    /\ HashValues \subseteq Nat
    /\ MaxResources \in Nat
    /\ MinBuckets \in Nat \ {0}
    /\ U32 \in Nat
    /\ MinBuckets < U32
    /\ 4 * MaxResources < U32

VARIABLES
    count,        \* manifest->resource_count
    names,        \* name of each directory entry
    hash,         \* elfr_fnv1a64
    pc,           \* where elfrc_container_build is
    bucketCount,  \* hth.bucket_count
    buckets,      \* the ERFHashBucket array
    entry,        \* i: the entry being inserted
    slot          \* the bucket being probed

inputs == <<count, names, hash>>
buildVars == <<count, names, hash, pc, bucketCount, buckets, entry, slot>>

Entries == 0 .. count - 1
Slots == 0 .. bucketCount - 1

ERF_HASH_EMPTY == U32 - 1
EmptyBucket == [hash |-> 0, index |-> ERF_HASH_EMPTY]
(* Broken forms: index 0 taken for an unused bucket; no reduction to the    *)
(* table; a step over a bucket; no return to the first bucket.              *)
OccupiedButZero(s) == buckets[s].index \notin {ERF_HASH_EMPTY, 0}
HomeUnreduced(h) == h
NextSlotSkipping(s) == (s + 2) % bucketCount
NextSlotNoWrap(s) == IF s + 1 < bucketCount THEN s + 1 ELSE s

Occupied(s) == buckets[s].index # ERF_HASH_EMPTY
Home(h) == h % bucketCount
NextSlot(s) == (s + 1) % bucketCount

BuildInit ==
    /\ count \in 0 .. MaxResources
    /\ names \in [Entries -> Names]
    /\ hash \in [Names -> HashValues]
    /\ pc = "size"
    /\ bucketCount = MinBuckets
    /\ buckets = <<>>
    /\ entry = 0
    /\ slot = 0

WantedBucketsFull == count % U32
WantedBuckets == (count * 2) % U32

(* One turn of the loop of next_pow2. *)
DoubleBuckets ==
    /\ pc = "size"
    /\ bucketCount < WantedBuckets
    /\ bucketCount' = (bucketCount * 2) % U32
    /\ UNCHANGED <<inputs, pc, buckets, entry, slot>>

(* next_pow2 returns and every bucket is marked unused. *)
AllocBuckets ==
    /\ pc = "size"
    /\ bucketCount >= WantedBuckets
    /\ buckets' = [s \in Slots |-> EmptyBucket]
    /\ pc' = "entry"
    /\ UNCHANGED <<inputs, bucketCount, entry, slot>>

(* The head of the insertion loop: hash the name, go to its home bucket. *)
HashEntry ==
    /\ pc = "entry"
    /\ entry < count
    /\ slot' = Home(hash[names[entry]])
    /\ pc' = "probe"
    /\ UNCHANGED <<inputs, bucketCount, buckets, entry>>

(* The bucket is taken: linear probing moves on. *)
ProbeTaken ==
    /\ pc = "probe"
    /\ Occupied(slot)
    /\ slot' = NextSlot(slot)
    /\ UNCHANGED <<inputs, pc, bucketCount, buckets, entry>>

(* The bucket is free: the entry takes it and the loop turns. *)
PlaceEntry ==
    /\ pc = "probe"
    /\ ~Occupied(slot)
    /\ buckets' = [buckets EXCEPT
                     ![slot] = [hash |-> hash[names[entry]], index |-> entry]]
    /\ entry' = entry + 1
    /\ pc' = "entry"
    /\ UNCHANGED <<inputs, bucketCount, slot>>

(* The loop is over: the table is appended to the container. *)
FinishTable ==
    /\ pc = "entry"
    /\ entry = count
    /\ pc' = "built"
    /\ UNCHANGED <<inputs, bucketCount, buckets, entry, slot>>

BuildNext ==
    \/ DoubleBuckets
    \/ AllocBuckets
    \/ HashEntry
    \/ ProbeTaken
    \/ PlaceEntry
    \/ FinishTable

BuildSpec == BuildInit /\ [][BuildNext]_buildVars /\ WF_buildVars(BuildNext)

-----------------------------------------------------------------------------
(* Slots passed by a probe that started at h and is now at s. *)
Passed(h, s) == IF h <= s THEN h .. (s - 1)
                ELSE (h .. bucketCount - 1) \cup (0 .. s - 1)

TableExists == pc \in {"entry", "probe", "built"}
Bucket == [hash : HashValues \cup {0}, index : Entries \cup {ERF_HASH_EMPTY}]

(* Types of the builder's state; a slot being probed is inside the table.  *)
BuildTypeOK ==
    /\ count \in 0 .. MaxResources
    /\ names \in [Entries -> Names]
    /\ hash \in [Names -> HashValues]
    /\ pc \in {"size", "entry", "probe", "built"}
    /\ bucketCount \in Nat \ {0}
    /\ entry \in 0 .. count
    /\ TableExists => buckets \in [Slots -> Bucket]
    /\ pc = "probe" => slot \in Slots /\ entry < count

(* The table of a built container holds every directory entry exactly once, *)
(* under the hash of its own name: an entry that lost its bucket to another *)
(* could never be found by name again.                                      *)
HoldsOnce(e) ==
    \E s \in Slots :
        /\ buckets[s] = [hash |-> hash[names[e]], index |-> e]
        /\ \A t \in Slots \ {s} : buckets[t].index # e
EveryEntryIndexed == TableExists => \A e \in 0 .. entry - 1 : HoldsOnce(e)

(* The heart of open addressing: between the home of an occupied bucket and *)
(* the bucket itself every slot is occupied, and by an older entry.  A gap  *)
(* would hide the entry from erf_find_in; a younger entry on the path would *)
(* change which language variant an ambiguous name resolves to.             *)
PathsFullAndOlder ==
    TableExists =>
        \A s \in Slots : Occupied(s) =>
            \A t \in Passed(Home(buckets[s].hash), s) :
                Occupied(t) /\ buckets[t].index < buckets[s].index

(* The table is never full: the builder's probe loop has no bound of its    *)
(* own, so a full table would hang elfrc, and a lookup of an absent name    *)
(* would have to visit every bucket.                                        *)
RoomLeft == TableExists => \E s \in Slots : ~Occupied(s)

(* An insertion steps over no more buckets than there are entries in the    *)
(* table, whatever the hash function does: the probe loop, which has no     *)
(* bound of its own, never runs through a gap nor around the table.         *)
BoundedInsertion ==
    pc = "probe" =>
        Cardinality(Passed(Home(hash[names[entry]]), slot)) <= entry

(* Sizing and insertion come to an end: the code runs to completion once    *)
(* started, which is the fairness of BuildSpec (and of LookupSpec).         *)
BuildTerminates == <>(pc = "built")

=============================================================================
