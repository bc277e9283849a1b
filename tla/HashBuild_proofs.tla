--------------------------- MODULE HashBuild_proofs ---------------------------
(***************************************************************************)
(* Proofs about HashBuild, for every number of resources, every set of     *)
(* names and every hash function.  The argument is one inductive           *)
(* invariant, IndInv: entries are placed in increasing order, so whatever  *)
(* a probe passes is older than what it is looking for a place for.        *)
(***************************************************************************)
EXTENDS HashBuild, Descent, FiniteSetTheorems, WellFoundedInduction, TLAPS

(* Moving one slot on either adds one to the slot or wraps to slot 0. *)
LEMMA NextSlotIs ==
    ASSUME bucketCount \in Nat \ {0}, NEW s \in Slots
    PROVE  /\ NextSlot(s) \in Slots
           /\ NextSlot(s) = IF s + 1 = bucketCount THEN 0 ELSE s + 1
  BY DEF NextSlot, Slots

LEMMA HomeInSlots ==
    ASSUME bucketCount \in Nat \ {0}, NEW h \in Nat
    PROVE  Home(h) \in Slots
  BY DEF Home, Slots

(* A probe that does not come back to its home has passed exactly one slot *)
(* more.                                                                   *)
LEMMA PassedNext ==
    ASSUME bucketCount \in Nat \ {0}, NEW h \in Slots, NEW s \in Slots,
           NextSlot(s) # h
    PROVE  Passed(h, NextSlot(s)) = Passed(h, s) \cup {s}
<1>1. NextSlot(s) \in Slots
      /\ NextSlot(s) = IF s + 1 = bucketCount THEN 0 ELSE s + 1
  BY NextSlotIs
<1>2. CASE s + 1 = bucketCount
  BY <1>1, <1>2 DEF Passed, Slots
<1>3. CASE s + 1 # bucketCount
  BY <1>1, <1>3 DEF Passed, Slots
<1> QED BY <1>2, <1>3

(* A probe that comes back to its home has passed every slot. *)
LEMMA PassedAll ==
    ASSUME bucketCount \in Nat \ {0}, NEW h \in Slots, NEW s \in Slots,
           NextSlot(s) = h
    PROVE  Slots = Passed(h, s) \cup {s}
<1>1. h = IF s + 1 = bucketCount THEN 0 ELSE s + 1
  BY NextSlotIs
<1> QED BY <1>1 DEF Passed, Slots

LEMMA PassedIsSlots ==
    ASSUME bucketCount \in Nat \ {0}, NEW h \in Slots, NEW s \in Slots
    PROVE  /\ Passed(h, s) \subseteq Slots
           /\ s \notin Passed(h, s)
           /\ Passed(h, h) = {}
  BY DEF Passed, Slots

(* Of two slots reached from the same home, one is passed before the other.*)
LEMMA PassedTotal ==
    ASSUME bucketCount \in Nat \ {0},
           NEW h \in Slots, NEW s \in Slots, NEW t \in Slots
    PROVE  s = t \/ s \in Passed(h, t) \/ t \in Passed(h, s)
  BY DEF Passed, Slots

(* Buckets from h to s in probe order. *)
Distance(h, s) == IF h <= s THEN s - h ELSE s + bucketCount - h

LEMMA DistanceBound ==
    ASSUME bucketCount \in Nat \ {0}, NEW h \in Slots, NEW s \in Slots
    PROVE  /\ Distance(h, s) \in Nat
           /\ Distance(h, s) < bucketCount
           /\ Distance(h, h) = 0
           /\ NextSlot(s) # h => Distance(h, NextSlot(s)) = Distance(h, s) + 1
  BY NextSlotIs DEF Distance, Slots

LEMMA IntervalCount ==
    ASSUME NEW a \in Nat, NEW b \in Nat, a <= b
    PROVE  IsFiniteSet(a .. (b - 1)) /\ Cardinality(a .. (b - 1)) = b - a
<1> DEFINE c == b - 1
<1>1. a \in Int /\ c \in Int /\ (a > c => b - a = 0) /\ c - a + 1 = b - a
  OBVIOUS
<1> HIDE DEF c
<1>2. /\ IsFiniteSet(a .. c)
      /\ Cardinality(a .. c) = IF a > c THEN 0 ELSE c - a + 1
  BY <1>1, FS_Interval
<1> QED BY <1>1, <1>2 DEF c

(* As many buckets are passed as the distance says. *)
LEMMA PassedCount ==
    ASSUME bucketCount \in Nat \ {0}, NEW h \in Slots, NEW s \in Slots
    PROVE  /\ IsFiniteSet(Passed(h, s))
           /\ Cardinality(Passed(h, s)) = Distance(h, s)
<1>1. h \in Nat /\ s \in Nat /\ h < bucketCount
  BY DEF Slots
<1>2. CASE h <= s
  <2>1. Passed(h, s) = h .. (s - 1) /\ Distance(h, s) = s - h
    BY <1>2 DEF Passed, Distance
  <2> QED BY <1>1, <1>2, <2>1, IntervalCount
<1>3. CASE h > s
  <2> DEFINE A == h .. (bucketCount - 1)
             B == 0 .. (s - 1)
  <2>1. IsFiniteSet(A) /\ Cardinality(A) = bucketCount - h
    BY <1>1, IntervalCount
  <2>2. IsFiniteSet(B) /\ Cardinality(B) = s
    <3>1. 0 \in Nat /\ 0 <= s /\ s - 0 = s
      BY <1>1
    <3> HIDE DEF B
    <3>2. IsFiniteSet(0 .. (s - 1)) /\ Cardinality(0 .. (s - 1)) = s - 0
      BY <1>1, <3>1, IntervalCount
    <3> QED BY <3>1, <3>2 DEF B
  <2>3. A \cap B = {} /\ Passed(h, s) = A \cup B
    BY <1>1, <1>3 DEF Passed
  <2>4. /\ IsFiniteSet(A \cup B)
        /\ Cardinality(A \cup B)
             = Cardinality(A) + Cardinality(B) - Cardinality(A \cap B)
    BY <2>1, <2>2, FS_Union
  <2>5. Cardinality(A \cap B) = 0
    BY <2>3, FS_EmptySet
  <2> QED BY <1>1, <1>3, <2>1, <2>2, <2>3, <2>4, <2>5 DEF Distance
<1> QED BY <1>1, <1>2, <1>3

-----------------------------------------------------------------------------
(* What an occupied bucket holds: an entry already inserted, under the hash *)
(* of its name, and no other bucket holds it.                               *)
BucketsTrue ==
    TableExists =>
        \A s \in Slots : Occupied(s) =>
            /\ buckets[s].index \in 0 .. entry - 1
            /\ buckets[s].hash = hash[names[buckets[s].index]]
            /\ \A t \in Slots \ {s} : buckets[t].index # buckets[s].index

(* The probe in progress has passed occupied buckets only. *)
ProbeFull ==
    pc = "probe" =>
        \A t \in Passed(Home(hash[names[entry]]), slot) : Occupied(t)

Spacious ==
    /\ pc = "size" => entry = 0 /\ bucketCount < U32
    /\ TableExists => count * 2 <= bucketCount

IndInv ==
    /\ BuildTypeOK
    /\ Spacious
    /\ BucketsTrue
    /\ EveryEntryIndexed
    /\ PathsFullAndOlder
    /\ ProbeFull

LEMMA EntryNotEmpty ==
    ASSUME BuildTypeOK
    PROVE  /\ count \in Nat
           /\ entry \in Nat
           /\ U32 \in Nat
           /\ HashValues \subseteq Nat
           /\ \A e \in Entries : e # ERF_HASH_EMPTY
           /\ ERF_HASH_EMPTY \notin 0 .. count
           /\ WantedBuckets = count * 2
  BY HashBuildAssumption DEF BuildTypeOK, Entries, ERF_HASH_EMPTY, WantedBuckets

(* Fewer entries than buckets, each entry in one bucket: one is unused. *)
LEMMA RoomFromInv ==
    ASSUME IndInv, TableExists
    PROVE  \E s \in Slots : ~Occupied(s)
<1>1. /\ bucketCount \in Nat \ {0} /\ count \in Nat /\ entry \in 0 .. count
      /\ count * 2 <= bucketCount
  BY EntryNotEmpty DEF IndInv, BuildTypeOK, Spacious
<1> SUFFICES ASSUME \A s \in Slots : Occupied(s) PROVE FALSE
  OBVIOUS
<1> DEFINE f == [s \in Slots |-> buckets[s].index]
<1>2. f \in Injection(Slots, 0 .. entry - 1)
  <2>1. \A s \in Slots : buckets[s].index \in 0 .. entry - 1
    BY DEF IndInv, BucketsTrue
  <2>2. \A s, t \in Slots : buckets[s].index = buckets[t].index => s = t
    BY DEF IndInv, BucketsTrue
  <2> QED BY <2>1, <2>2 DEF Injection, IsInjective
<1>3. IsFiniteSet(0 .. entry - 1) /\ Cardinality(0 .. entry - 1) = entry
  BY <1>1, FS_Interval
<1>4. IsFiniteSet(Slots) /\ Cardinality(Slots) = bucketCount
  BY <1>1, FS_Interval DEF Slots
<1>5. Cardinality(Slots) <= Cardinality(0 .. entry - 1)
  BY <1>2, <1>3, FS_Injection
<1> QED BY <1>1, <1>3, <1>4, <1>5

(* No more buckets are passed than there are entries: each holds its own.   *)
LEMMA PassedHoldEntries ==
    ASSUME IndInv, TableExists, NEW h \in Slots, NEW s \in Slots,
           \A t \in Passed(h, s) : Occupied(t)
    PROVE  Cardinality(Passed(h, s)) <= entry
<1> DEFINE P == Passed(h, s)
           f == [t \in P |-> buckets[t].index]
<1>1. bucketCount \in Nat \ {0} /\ entry \in Nat
  BY EntryNotEmpty DEF IndInv, BuildTypeOK
<1>2. P \subseteq Slots
  BY <1>1, PassedIsSlots
<1>3. \A t \in P : buckets[t].index \in 0 .. entry - 1
  BY <1>2 DEF IndInv, BucketsTrue
<1>4. \A t, u \in P : buckets[t].index = buckets[u].index => t = u
  BY <1>2 DEF IndInv, BucketsTrue
<1>5. f \in Injection(P, 0 .. entry - 1)
  BY <1>3, <1>4 DEF Injection, IsInjective
<1>6. IsFiniteSet(0 .. entry - 1) /\ Cardinality(0 .. entry - 1) = entry
  BY <1>1, FS_Interval
<1> QED BY <1>5, <1>6, FS_Injection

LEMMA InitIndInv == BuildInit => IndInv
<1> SUFFICES ASSUME BuildInit PROVE IndInv
  OBVIOUS
<1>1. pc = "size" /\ ~TableExists
  BY DEF BuildInit, TableExists
<1>2. BuildTypeOK
  BY <1>1, HashBuildAssumption DEF BuildInit, BuildTypeOK, Entries
<1>3. Spacious
  BY <1>1, HashBuildAssumption DEF BuildInit, Spacious
<1> QED
  BY <1>1, <1>2, <1>3
     DEF IndInv, BucketsTrue, EveryEntryIndexed, PathsFullAndOlder, ProbeFull

LEMMA DoublePreserves == IndInv /\ DoubleBuckets => IndInv'
<1> SUFFICES ASSUME IndInv, DoubleBuckets PROVE IndInv'
  OBVIOUS
<1>1. pc' = "size" /\ ~TableExists'
  BY DEF DoubleBuckets, TableExists
<1>2. bucketCount' = bucketCount * 2 /\ bucketCount' < U32
  BY HashBuildAssumption, EntryNotEmpty
     DEF IndInv, DoubleBuckets, Spacious, BuildTypeOK
<1>3. BuildTypeOK'
  BY <1>1, <1>2 DEF IndInv, DoubleBuckets, inputs, BuildTypeOK, Entries
<1>4. Spacious'
  BY <1>1, <1>2 DEF IndInv, DoubleBuckets, Spacious
<1> QED
  BY <1>1, <1>3, <1>4
     DEF IndInv, BucketsTrue, EveryEntryIndexed, PathsFullAndOlder, ProbeFull

LEMMA AllocPreserves == IndInv /\ AllocBuckets => IndInv'
<1> SUFFICES ASSUME IndInv, AllocBuckets PROVE IndInv'
  OBVIOUS
<1>1. /\ pc' = "entry" /\ entry' = 0 /\ entry = 0
      /\ bucketCount' = bucketCount /\ UNCHANGED inputs
      /\ buckets' = [s \in Slots |-> EmptyBucket]
  BY DEF IndInv, AllocBuckets, Spacious
<1>2. BuildTypeOK'
  BY <1>1
     DEF IndInv, BuildTypeOK, inputs, Entries, Slots, Bucket, EmptyBucket,
         ERF_HASH_EMPTY
<1>3. Spacious'
  BY <1>1, EntryNotEmpty DEF IndInv, Spacious, AllocBuckets, inputs
<1>4. \A s \in Slots' : ~Occupied(s)'
  BY <1>1 DEF Occupied, EmptyBucket, Slots, ERF_HASH_EMPTY
<1>5. BucketsTrue' /\ PathsFullAndOlder'
  BY <1>4 DEF BucketsTrue, PathsFullAndOlder
<1>6. EveryEntryIndexed'
  BY <1>1 DEF EveryEntryIndexed
<1>7. ProbeFull'
  BY <1>1 DEF ProbeFull
<1> QED BY <1>2, <1>3, <1>5, <1>6, <1>7 DEF IndInv

(* A step that leaves the table as it is, and the entry to place, keeps     *)
(* what IndInv says of the table.                                           *)
LEMMA TableUnchanged ==
    ASSUME IndInv, TableExists, TableExists',
           UNCHANGED <<inputs, bucketCount, buckets, entry>>
    PROVE  /\ BucketsTrue' /\ EveryEntryIndexed' /\ PathsFullAndOlder'
           /\ Slots' = Slots
           /\ \A s : Occupied(s)' = Occupied(s)
           /\ \A h : Home(h)' = Home(h)
<1>1. /\ Slots' = Slots
      /\ \A s : Occupied(s)' = Occupied(s)
      /\ \A h : Home(h)' = Home(h)
      /\ \A h, s : Passed(h, s)' = Passed(h, s)
  BY DEF Slots, Occupied, Home, Passed, ERF_HASH_EMPTY
<1>2. /\ count' = count /\ names' = names /\ hash' = hash
  BY DEF inputs
<1> QED
  BY <1>1, <1>2
     DEF IndInv, BucketsTrue, EveryEntryIndexed, HoldsOnce, PathsFullAndOlder

LEMMA HashEntryPreserves == IndInv /\ HashEntry => IndInv'
<1> SUFFICES ASSUME IndInv, HashEntry PROVE IndInv'
  OBVIOUS
<1>1. /\ TableExists /\ TableExists'
      /\ UNCHANGED <<inputs, bucketCount, buckets, entry>>
      /\ pc' = "probe" /\ entry < count
  BY DEF HashEntry, TableExists
<1>2. hash[names[entry]] \in Nat
  BY <1>1, EntryNotEmpty DEF IndInv, BuildTypeOK, Entries
<1>3. slot' \in Slots
  BY <1>2, HomeInSlots DEF HashEntry, IndInv, BuildTypeOK
<1>4. BuildTypeOK'
  BY <1>1, <1>3, TableUnchanged
     DEF IndInv, BuildTypeOK, inputs, Entries, Bucket, ERF_HASH_EMPTY
<1>5. Spacious'
  BY <1>1 DEF IndInv, Spacious, inputs
<1>6. ProbeFull'
  <2>0. slot' \in Int
    BY <1>3, EntryNotEmpty DEF Slots, IndInv, BuildTypeOK
  <2>1. Passed(slot, slot)' = {}
    BY <2>0 DEF Passed
  <2>2. Home(hash[names[entry]])' = slot'
    BY <1>1 DEF HashEntry, Home, inputs
  <2> QED BY <2>1, <2>2 DEF ProbeFull
<1> QED BY <1>1, <1>4, <1>5, <1>6, TableUnchanged DEF IndInv

(* An insertion never comes back to the home of its name: what it has passed *)
(* is in use, and that is not the whole table.                               *)
LEMMA ProbeGoesOn ==
    ASSUME IndInv, ProbeTaken, Home(hash[names[entry]]) \in Slots
    PROVE  NextSlot(slot) # Home(hash[names[entry]])
<1> DEFINE h == Home(hash[names[entry]])
<1>1. /\ TableExists /\ bucketCount \in Nat \ {0}
      /\ slot \in Slots /\ Occupied(slot)
      /\ \A t \in Passed(h, slot) : Occupied(t)
  BY DEF ProbeTaken, TableExists, IndInv, BuildTypeOK, ProbeFull
<1> SUFFICES ASSUME NextSlot(slot) = h PROVE FALSE
  OBVIOUS
<1>2. Slots = Passed(h, slot) \cup {slot}
  BY <1>1, PassedAll
<1>3. \A s \in Slots : Occupied(s)
  BY <1>1, <1>2
<1> QED BY <1>1, <1>3, RoomFromInv

LEMMA ProbeTakenPreserves == IndInv /\ ProbeTaken => IndInv'
<1> SUFFICES ASSUME IndInv, ProbeTaken PROVE IndInv'
  OBVIOUS
<1> DEFINE h == Home(hash[names[entry]])
<1>1. /\ TableExists /\ TableExists'
      /\ UNCHANGED <<inputs, bucketCount, buckets, entry>>
      /\ pc = "probe" /\ pc' = "probe" /\ entry < count
      /\ slot \in Slots /\ slot' = NextSlot(slot) /\ Occupied(slot)
      /\ bucketCount \in Nat \ {0}
  BY DEF ProbeTaken, TableExists, IndInv, BuildTypeOK
<1>2. h \in Slots
  BY <1>1, EntryNotEmpty, HomeInSlots DEF IndInv, BuildTypeOK, Entries
<1>3. BuildTypeOK'
  BY <1>1, NextSlotIs, TableUnchanged
     DEF IndInv, BuildTypeOK, inputs, Entries, Bucket, ERF_HASH_EMPTY
<1>4. Spacious'
  BY <1>1 DEF IndInv, Spacious, inputs
<1>5. \A t \in Passed(h, slot) : Occupied(t)
  BY <1>1 DEF IndInv, ProbeFull
<1>6. NextSlot(slot) # h
  BY <1>2, ProbeGoesOn
<1>7. Passed(h, NextSlot(slot)) = Passed(h, slot) \cup {slot}
  BY <1>1, <1>2, <1>6, PassedNext
<1>8. ProbeFull'
  <2>1. h' = h /\ Passed(h, slot)' = Passed(h, NextSlot(slot))
    BY <1>1 DEF Home, Passed, inputs
  <2>2. \A t : Occupied(t)' = Occupied(t)
    BY <1>1, TableUnchanged
  <2> QED BY <1>1, <1>5, <1>7, <2>1, <2>2 DEF ProbeFull
<1> QED BY <1>1, <1>3, <1>4, <1>8, TableUnchanged DEF IndInv

LEMMA PlaceEntryPreserves == IndInv /\ PlaceEntry => IndInv'
<1> SUFFICES ASSUME IndInv, PlaceEntry PROVE IndInv'
  OBVIOUS
<1> DEFINE mine == [hash |-> hash[names[entry]], index |-> entry]
<1>1. /\ TableExists /\ TableExists' /\ pc = "probe" /\ pc' = "entry"
      /\ UNCHANGED <<inputs, bucketCount, slot>> /\ entry' = entry + 1
      /\ buckets' = [buckets EXCEPT ![slot] = mine]
      /\ slot \in Slots /\ ~Occupied(slot) /\ entry < count
      /\ bucketCount \in Nat \ {0} /\ entry \in Nat /\ count \in Nat
      /\ buckets \in [Slots -> Bucket]
  BY EntryNotEmpty DEF PlaceEntry, TableExists, IndInv, BuildTypeOK
<1>2. mine \in Bucket /\ entry \in Entries /\ entry # ERF_HASH_EMPTY
  BY <1>1, EntryNotEmpty DEF IndInv, BuildTypeOK, Entries, Bucket
<1>3. Slots' = Slots /\ UNCHANGED <<count, names, hash>>
  BY <1>1 DEF Slots, inputs
<1>4. /\ buckets'[slot] = mine
      /\ \A s \in Slots \ {slot} : buckets'[s] = buckets[s]
  BY <1>1
<1>5. \A s \in Slots : Occupied(s)' <=> s = slot \/ Occupied(s)
  BY <1>2, <1>4 DEF Occupied, ERF_HASH_EMPTY
<1>6. \A s \in Slots : Occupied(s) =>
         s # slot /\ buckets[s].index \in 0 .. entry - 1
  BY <1>1 DEF IndInv, BucketsTrue
<1>7. BuildTypeOK'
  <2>1. buckets' \in [Slots -> Bucket]
    BY <1>1, <1>2
  <2> QED
    BY <1>1, <1>3, <2>1
       DEF IndInv, BuildTypeOK, Entries, Bucket, ERF_HASH_EMPTY
<1>8. Spacious'
  BY <1>1, <1>3 DEF IndInv, Spacious
<1>9. BucketsTrue'
  <2> SUFFICES ASSUME NEW s \in Slots, Occupied(s)'
               PROVE  /\ buckets'[s].index \in 0 .. entry' - 1
                      /\ buckets'[s].hash = hash[names[buckets'[s].index]]
                      /\ \A t \in Slots \ {s} :
                             buckets'[t].index # buckets'[s].index
    BY <1>3 DEF BucketsTrue
  <2>1. CASE s = slot
    <3>1. \A t \in Slots \ {slot} : buckets[t].index # entry
      BY <1>1, <1>2, <1>6 DEF Occupied
    <3> QED BY <1>1, <1>4, <2>1, <3>1
  <2>2. CASE s # slot
    <3>1. Occupied(s) /\ buckets'[s] = buckets[s]
      BY <1>4, <1>5, <2>2
    <3>2. /\ buckets[s].index \in 0 .. entry - 1
          /\ buckets[s].hash = hash[names[buckets[s].index]]
          /\ \A t \in Slots \ {s} : buckets[t].index # buckets[s].index
      BY <1>1, <3>1 DEF IndInv, BucketsTrue
    <3> QED BY <1>1, <1>4, <3>1, <3>2
  <2> QED BY <2>1, <2>2
<1>10. EveryEntryIndexed'
  <2> SUFFICES ASSUME NEW e \in 0 .. entry PROVE HoldsOnce(e)'
    BY <1>1 DEF EveryEntryIndexed
  <2>1. CASE e = entry
    <3>1. \A t \in Slots \ {slot} : buckets[t].index # entry
      BY <1>1, <1>2, <1>6 DEF Occupied
    <3> QED BY <1>1, <1>3, <1>4, <2>1, <3>1 DEF HoldsOnce
  <2>2. CASE e # entry
    <3>1. PICK s \in Slots :
             /\ buckets[s] = [hash |-> hash[names[e]], index |-> e]
             /\ \A t \in Slots \ {s} : buckets[t].index # e
      BY <1>1, <2>2 DEF IndInv, EveryEntryIndexed, HoldsOnce
    <3>2. e \in Entries /\ buckets[s].index = e
      BY <1>1, <3>1 DEF Entries
    <3>3. s # slot
      BY <1>1, <3>2, EntryNotEmpty DEF Occupied, IndInv
    <3> QED BY <1>3, <1>4, <2>2, <3>1, <3>3 DEF HoldsOnce
  <2> QED BY <2>1, <2>2
<1>11. PathsFullAndOlder'
  <2> SUFFICES ASSUME NEW s \in Slots, Occupied(s)',
                      NEW t \in Passed(Home(buckets'[s].hash), s)
               PROVE  Occupied(t)' /\ buckets'[t].index < buckets'[s].index
    BY <1>1, <1>3 DEF PathsFullAndOlder, Passed, Home, TableExists
  <2>0. ASSUME NEW g \in Nat PROVE Passed(Home(g), s) \subseteq Slots
    BY <1>1, HomeInSlots, PassedIsSlots
  <2>1. CASE s = slot
    <3>0. buckets'[s].hash = hash[names[entry]]
      BY <1>4, <2>1
    <3>1. t \in Passed(Home(hash[names[entry]]), slot)
      BY <2>1, <3>0
    <3>2. Occupied(t) /\ hash[names[entry]] \in Nat
      BY <1>1, <1>2, <3>1, EntryNotEmpty DEF IndInv, ProbeFull, BuildTypeOK
    <3>3. t \in Slots
      BY <2>0, <2>1, <3>1, <3>2
    <3> QED BY <1>1, <1>4, <1>5, <1>6, <2>1, <3>2, <3>3
  <2>2. CASE s # slot
    <3>1. Occupied(s) /\ buckets'[s] = buckets[s]
      BY <1>4, <1>5, <2>2
    <3>2. buckets[s].hash \in Nat
      BY <1>1, EntryNotEmpty DEF Bucket, IndInv
    <3>3. t \in Slots
      BY <2>0, <3>1, <3>2
    <3>4. Occupied(t) /\ buckets[t].index < buckets[s].index
      BY <1>1, <3>1 DEF IndInv, PathsFullAndOlder
    <3> QED BY <1>4, <1>5, <1>6, <3>1, <3>3, <3>4
  <2> QED BY <2>1, <2>2
<1>12. ProbeFull'
  BY <1>1 DEF ProbeFull
<1> QED BY <1>7, <1>8, <1>9, <1>10, <1>11, <1>12 DEF IndInv

LEMMA FinishPreserves == IndInv /\ FinishTable => IndInv'
<1> SUFFICES ASSUME IndInv, FinishTable PROVE IndInv'
  OBVIOUS
<1>1. /\ TableExists /\ TableExists' /\ pc' = "built"
      /\ UNCHANGED <<inputs, bucketCount, buckets, entry>>
  BY DEF FinishTable, TableExists
<1>2. BuildTypeOK' /\ Spacious' /\ ProbeFull'
  BY <1>1, TableUnchanged
     DEF IndInv, BuildTypeOK, inputs, Entries, Bucket, ERF_HASH_EMPTY,
         Spacious, ProbeFull
<1> QED BY <1>1, <1>2, TableUnchanged DEF IndInv

LEMMA StutterPreserves == IndInv /\ UNCHANGED buildVars => IndInv'
BY DEF IndInv, buildVars, BuildTypeOK, Entries, TableExists, Slots, Bucket,
       ERF_HASH_EMPTY, Spacious, BucketsTrue, Occupied, EveryEntryIndexed,
       HoldsOnce, PathsFullAndOlder, Passed, Home, ProbeFull

(* IndInv is inductive: every step of the hash stage preserves it. *)
LEMMA NextPreserves == IndInv /\ [BuildNext]_buildVars => IndInv'
BY DoublePreserves, AllocPreserves, HashEntryPreserves, ProbeTakenPreserves,
   PlaceEntryPreserves, FinishPreserves, StutterPreserves DEF BuildNext

THEOREM BuildInvariant == BuildSpec => []IndInv
BY InitIndInv, NextPreserves, PTL DEF BuildSpec

(* The types of the hash stage hold in every reachable state.  *)
THEOREM BuildTypes == BuildSpec => []BuildTypeOK
<1>1. IndInv => BuildTypeOK
  BY DEF IndInv
<1> QED BY <1>1, BuildInvariant, PTL

(* elfrc_container_build indexes every directory entry exactly once, under  *)
(* the hash of its own name.                                                *)
THEOREM EntriesIndexed == BuildSpec => []EveryEntryIndexed
<1>1. IndInv => EveryEntryIndexed
  BY DEF IndInv
<1> QED BY <1>1, BuildInvariant, PTL

(* The probe path of every bucket is free of gaps and of younger entries,   *)
(* whatever names collide.                                                  *)
THEOREM PathsOlder == BuildSpec => []PathsFullAndOlder
<1>1. IndInv => PathsFullAndOlder
  BY DEF IndInv
<1> QED BY <1>1, BuildInvariant, PTL

(* A table of at least twice as many buckets as entries never fills, so the *)
(* unbounded probe loop of the builder always has a free bucket to reach.   *)
THEOREM TableNeverFull == BuildSpec => []RoomLeft
<1>1. IndInv => RoomLeft
  BY RoomFromInv DEF RoomLeft
<1> QED BY <1>1, BuildInvariant, PTL

(* What the insertion at hand has passed: no more buckets than entries are   *)
(* in the table, and one more with each step.                                *)
LEMMA PassedByProbe ==
    ASSUME IndInv, pc = "probe"
    PROVE  LET h == Home(hash[names[entry]])
               passed == Cardinality(Passed(h, slot))
           IN  /\ passed \in Nat /\ passed <= entry
               /\ ProbeTaken => passed' = passed + 1
<1> DEFINE h == Home(hash[names[entry]])
           passed == Cardinality(Passed(h, slot))
<1>1. /\ TableExists /\ bucketCount \in Nat \ {0}
      /\ slot \in Slots /\ entry \in Entries
  BY EntryNotEmpty DEF TableExists, IndInv, BuildTypeOK, Entries
<1>2. h \in Slots
  BY <1>1, EntryNotEmpty, HomeInSlots DEF IndInv, BuildTypeOK
<1>3. passed <= entry
  BY <1>1, <1>2, PassedHoldEntries DEF IndInv, ProbeFull
<1>4. passed \in Nat
  BY <1>1, <1>2, PassedCount, FS_CardinalityType
<1>5. ASSUME ProbeTaken PROVE passed' = passed + 1
  <2>1. h' = h /\ slot' = NextSlot(slot)
        /\ Passed(h, slot)' = Passed(h, NextSlot(slot))
    BY <1>5 DEF ProbeTaken, inputs, Home, Passed
  <2>2. NextSlot(slot) # h
    BY <1>1, <1>2, <1>5, ProbeGoesOn
  <2>3. NextSlot(slot) \in Slots
    BY <1>1, NextSlotIs
  <2>4. Distance(h, NextSlot(slot)) = Distance(h, slot) + 1
    BY <1>1, <1>2, <2>2, DistanceBound
  <2> QED BY <1>1, <1>2, <2>1, <2>3, <2>4, PassedCount
<1> QED BY <1>3, <1>4, <1>5

(* An insertion steps over at most as many buckets as there are entries in  *)
(* the table, for every hash function and however many names collide.       *)
THEOREM InsertionsBounded == BuildSpec => []BoundedInsertion
<1>1. IndInv => BoundedInsertion
  BY PassedByProbe DEF BoundedInsertion
<1> QED BY <1>1, BuildInvariant, PTL

-----------------------------------------------------------------------------
(* The same order as a relation, put together from that of the numbers. *)
LessNat == {ss \in Nat \X Nat : ss[1] < ss[2]}
LessPair == LexPairOrdering(LessNat, LessNat, Nat, Nat)
LessTriple == LexPairOrdering(LessNat, LessPair, Nat, Nat \X Nat)

LEMMA TriplesWellFounded == IsWellFoundedOn(LessTriple, Nat \X (Nat \X Nat))
<1>1. IsWellFoundedOn(LessNat, Nat)
  BY NatLessThanWellFounded DEF LessNat, OpToRel
<1>2. IsWellFoundedOn(LessPair, Nat \X Nat)
  BY <1>1, WFLexPairOrdering DEF LessPair
<1> QED BY <1>1, <1>2, WFLexPairOrdering DEF LessTriple

(* No sequence of triples becomes smaller for ever.  *)
LEMMA NoInfiniteDescent ==
    ~\E f \in [Nat -> Triples] : \A n \in Nat : Less(f[n + 1], f[n])
<1> SUFFICES ASSUME NEW f \in [Nat -> Triples],
                    \A n \in Nat : Less(f[n + 1], f[n])
             PROVE  FALSE
  OBVIOUS
<1> DEFINE g == [n \in Nat |-> <<f[n][1], <<f[n][2], f[n][3]>>>>]
<1>1. \A n \in Nat : f[n][1] \in Nat /\ f[n][2] \in Nat /\ f[n][3] \in Nat
  BY DEF Triples
<1>2. g \in [Nat -> Nat \X (Nat \X Nat)]
  BY <1>1
<1>3. ASSUME NEW n \in Nat PROVE <<g[n + 1], g[n]>> \in LessTriple
  <2> DEFINE a == f[n + 1]
             b == f[n]
  <2>1. n + 1 \in Nat /\ Less(a, b)
    OBVIOUS
  <2>2. /\ a[1] \in Nat /\ a[2] \in Nat /\ a[3] \in Nat
        /\ b[1] \in Nat /\ b[2] \in Nat /\ b[3] \in Nat
    BY <1>1, <2>1
  <2>3. g[n + 1] = <<a[1], <<a[2], a[3]>>>> /\ g[n] = <<b[1], <<b[2], b[3]>>>>
    BY <2>1
  <2> HIDE DEF a, b, g
  <2>4. a[1] < b[1] \/ (a[1] = b[1] /\ (a[2] < b[2] \/ (a[2] = b[2] /\ a[3] < b[3])))
    BY <2>1 DEF Less
  <2>5. a[2] < b[2] \/ (a[2] = b[2] /\ a[3] < b[3])
           => <<<<a[2], a[3]>>, <<b[2], b[3]>>>> \in LessPair
    BY <2>2 DEF LessPair, LexPairOrdering, LessNat
  <2>6. <<<<a[1], <<a[2], a[3]>>>>, <<b[1], <<b[2], b[3]>>>>>> \in LessTriple
    BY <2>2, <2>4, <2>5 DEF LessTriple, LexPairOrdering, LessNat
  <2> QED BY <2>3, <2>6
<1> QED BY <1>2, <1>3, TriplesWellFounded DEF IsWellFoundedOn

(* How much of the hash stage is left: doublings of the table, entries, and  *)
(* buckets the insertion at hand may still step over.                        *)
LeftToDo ==
    <<IF pc = "size" THEN 1 + U32 - bucketCount ELSE IF pc = "built" THEN 0 ELSE 1,
      count - entry,
      IF pc = "probe"
      THEN count - Cardinality(Passed(Home(hash[names[entry]]), slot))
      ELSE count + 1>>

LEMMA LeftIsTriple == IndInv => LeftToDo \in Triples
<1> SUFFICES ASSUME IndInv PROVE LeftToDo \in Triples
  OBVIOUS
<1> DEFINE passed == Cardinality(Passed(Home(hash[names[entry]]), slot))
<1>1. /\ count \in Nat /\ entry \in Nat /\ entry <= count /\ U32 \in Nat
      /\ bucketCount \in Nat \ {0} /\ (pc = "size" => bucketCount < U32)
      /\ pc = "probe" => entry < count
  BY EntryNotEmpty DEF IndInv, BuildTypeOK, Spacious
<1>2. pc = "probe" => passed \in Nat /\ passed <= entry
  BY PassedByProbe
<1> HIDE DEF passed
<1>3. count - entry \in Nat
  BY <1>1
<1>4. (IF pc = "probe" THEN count - passed ELSE count + 1) \in Nat
  BY <1>1, <1>2
<1>5. (IF pc = "size" THEN 1 + U32 - bucketCount ELSE IF pc = "built" THEN 0 ELSE 1)
        \in Nat
  BY <1>1
<1> QED BY <1>3, <1>4, <1>5 DEF LeftToDo, Triples, passed

LEMMA StepLeavesLess == IndInv /\ BuildNext => Less(LeftToDo', LeftToDo)
<1> SUFFICES ASSUME IndInv, BuildNext PROVE Less(LeftToDo', LeftToDo)
  OBVIOUS
<1> DEFINE h == Home(hash[names[entry]])
           passed == Cardinality(Passed(h, slot))
<1>1. /\ count \in Nat /\ entry \in Nat /\ U32 \in Nat /\ IndInv'
      /\ bucketCount \in Nat \ {0} /\ (pc = "size" => bucketCount < U32)
  BY EntryNotEmpty, NextPreserves DEF IndInv, BuildTypeOK, Spacious
<1>2. CASE DoubleBuckets
  <2>1. bucketCount' = bucketCount * 2 /\ bucketCount' < U32 /\ pc = "size"
        /\ pc' = "size"
    BY <1>2, HashBuildAssumption, EntryNotEmpty
       DEF IndInv, DoubleBuckets, Spacious, BuildTypeOK
  <2>2. 1 + U32 - bucketCount' < 1 + U32 - bucketCount
    BY <1>1, <2>1
  <2> QED BY <2>1, <2>2 DEF LeftToDo, Less
<1>3. CASE AllocBuckets
  <2>1. pc = "size" /\ pc' = "entry" /\ 1 < 1 + U32 - bucketCount
    BY <1>1, <1>3 DEF AllocBuckets
  <2> QED BY <2>1 DEF LeftToDo, Less
<1>4. CASE HashEntry
  <2>1. pc = "entry" /\ pc' = "probe" /\ entry' = entry /\ count' = count
    BY <1>4 DEF HashEntry, inputs
  <2>2. passed' = 0
    <3>1. h' = slot' /\ slot' \in Int
      BY <1>1, <1>4, <2>1 DEF HashEntry, Home, inputs, IndInv, BuildTypeOK, Slots
    <3>2. Passed(h, slot)' = {}
      BY <3>1 DEF Passed
    <3> QED BY <3>2, FS_EmptySet
  <2>3. (count - passed)' < count + 1
    BY <1>1, <2>1, <2>2
  <2> QED BY <2>1, <2>3 DEF LeftToDo, Less
<1>5. CASE ProbeTaken
  <2>1. /\ pc = "probe" /\ pc' = "probe" /\ slot' = NextSlot(slot)
        /\ entry' = entry /\ UNCHANGED <<count, names, hash, bucketCount>>
    BY <1>5 DEF ProbeTaken, inputs
  <2>2. passed \in Nat /\ passed' = passed + 1
    BY <1>1, <1>5, <2>1, PassedByProbe
  <2>3. (count - passed)' < count - passed
    BY <1>1, <2>1, <2>2
  <2> QED BY <2>1, <2>3 DEF LeftToDo, Less
<1>6. CASE PlaceEntry
  <2>1. pc = "probe" /\ pc' = "entry" /\ entry' = entry + 1 /\ count' = count
    BY <1>6 DEF PlaceEntry, inputs
  <2>2. count' - entry' < count - entry
    BY <1>1, <2>1
  <2> QED BY <2>1, <2>2 DEF LeftToDo, Less
<1>7. CASE FinishTable
  BY <1>7 DEF FinishTable, LeftToDo, Less
<1> QED BY <1>2, <1>3, <1>4, <1>5, <1>6, <1>7 DEF BuildNext

(* Every step of the hash stage leaves less to do, so that sizing and       *)
(* insertion come to an end, whatever the hash function does.               *)
THEOREM BuildDescends ==
    BuildSpec => /\ [](LeftToDo \in Triples)
                 /\ [][Less(LeftToDo', LeftToDo)]_buildVars
<1>1. IndInv /\ [BuildNext]_buildVars => [Less(LeftToDo', LeftToDo)]_buildVars
  BY StepLeavesLess
<1>2. IndInv => LeftToDo \in Triples
  BY LeftIsTriple
<1> QED BY <1>1, <1>2, BuildInvariant, PTL DEF BuildSpec

=============================================================================
