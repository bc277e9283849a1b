----------------------------- MODULE Lookup_proofs -----------------------------
(***************************************************************************)
(* Proofs about Lookup, for every container the hash stage can build, any  *)
(* number of threads and any hash function.  What a probe needs from the   *)
(* builder is IndInv of HashBuild_proofs; ReaderInv says what the probes   *)
(* and scans in progress have excluded so far.                             *)
(***************************************************************************)
EXTENDS Lookup, HashBuild_proofs

HomeOf(t) == Home(hash[query[t].key])

(* A probe has passed used buckets of other names, one per step. *)
ProbeSoFar(t) ==
    /\ \A s \in Passed(HomeOf(t), at[t]) :
          Occupied(s) /\ names[buckets[s].index] # query[t].key
    /\ probed[t] = Distance(HomeOf(t), at[t])

ScanSoFar(t) ==
    /\ at[t] <= count
    /\ \A i \in 0 .. at[t] - 1 : ~EntryMatches(i, query[t])

ReaderInv ==
    /\ LookupTypeOK
    /\ pc = "built" => entry = count
    /\ \A t \in Threads :
          /\ stage[t] = "probe" => ProbeSoFar(t)
          /\ stage[t] = "scan" => ScanSoFar(t)
          /\ stage[t] # "probe" => probed[t] = 0

LookupInv == IndInv /\ ReaderInv

-----------------------------------------------------------------------------
(* What every lookup relies on in a built container. *)
LEMMA BuiltTable ==
    ASSUME LookupInv, pc = "built"
    PROVE  /\ bucketCount \in Nat \ {0}
           /\ count \in Nat
           /\ TableExists
           /\ \A e \in Entries : HoldsOnce(e)
           /\ \A n \in Names : hash[n] \in Nat /\ Home(hash[n]) \in Slots
           /\ \A s \in Slots : Occupied(s) =>
                 /\ buckets[s].index \in Entries
                 /\ buckets[s].hash = hash[names[buckets[s].index]]
<1>1. bucketCount \in Nat \ {0} /\ count \in Nat /\ TableExists /\ entry = count
  BY EntryNotEmpty DEF LookupInv, ReaderInv, IndInv, BuildTypeOK, TableExists
<1>2. \A e \in Entries : HoldsOnce(e)
  BY <1>1 DEF LookupInv, IndInv, EveryEntryIndexed, Entries
<1>3. \A n \in Names : hash[n] \in Nat
  BY EntryNotEmpty DEF LookupInv, IndInv, BuildTypeOK
<1>4. \A n \in Names : Home(hash[n]) \in Slots
  BY <1>1, <1>3, HomeInSlots
<1>5. \A s \in Slots : Occupied(s) =>
         /\ buckets[s].index \in Entries
         /\ buckets[s].hash = hash[names[buckets[s].index]]
  BY <1>1 DEF LookupInv, IndInv, BucketsTrue, Entries
<1> QED BY <1>1, <1>2, <1>3, <1>4, <1>5

(* A probe that stopped at s, having excluded what it passed, has met every *)
(* entry of its name that is older than the one at s, and every entry of    *)
(* its name at all when s is unused.                                        *)
LEMMA NothingBehind ==
    ASSUME LookupInv, pc = "built", NEW n \in Names, NEW s \in Slots,
           \A u \in Passed(Home(hash[n]), s) :
               Occupied(u) /\ names[buckets[u].index] # n,
           NEW j \in Entries, names[j] = n
    PROVE  Occupied(s) /\ (buckets[s].index = j \/ buckets[s].index < j)
<1> DEFINE h == Home(hash[n])
<1>1. PICK u \in Slots : buckets[u] = [hash |-> hash[n], index |-> j]
  BY BuiltTable DEF HoldsOnce
<1>2. Occupied(u) /\ buckets[u].index = j /\ buckets[u].hash = hash[n]
  BY <1>1, EntryNotEmpty DEF Occupied, LookupInv, IndInv
<1>3. h \in Slots /\ bucketCount \in Nat \ {0} /\ TableExists
  BY BuiltTable
<1>4. s = u \/ s \in Passed(h, u) \/ u \in Passed(h, s)
  BY <1>3, PassedTotal
<1>5. u \notin Passed(h, s)
  BY <1>2
<1>6. CASE s = u
  BY <1>2, <1>6
<1>7. CASE s \in Passed(h, u)
  BY <1>2, <1>3, <1>7 DEF LookupInv, IndInv, PathsFullAndOlder
<1> QED BY <1>4, <1>5, <1>6, <1>7

-----------------------------------------------------------------------------
(* The entry a probe hits is the first one of its name. *)
LEMMA HitIsFirst ==
    ASSUME LookupInv, NEW t \in Threads, ProbeHit(t)
    PROVE  /\ buckets[at[t]].index \in Entries
           /\ Dir!IsFirst(buckets[at[t]].index, query[t])
<1> DEFINE s == at[t]
           n == query[t].key
           e == buckets[s].index
<1>1. /\ pc = "built" /\ s \in Slots /\ query[t] \in NameQueries
      /\ n \in Names /\ query[t].by = "name"
      /\ Occupied(s) /\ names[e] = n /\ ProbeSoFar(t)
  BY DEF ProbeHit, Probing, BucketMatches, LookupInv, ReaderInv, LookupTypeOK,
         NameQueries
<1>2. e \in Entries /\ count \in Nat
  BY <1>1, BuiltTable
<1>3. ASSUME NEW j \in 0 .. e - 1, Dir!Wanted(j, query[t]) PROVE FALSE
  <2>1. names[j] = n
    BY <1>1, <1>3 DEF Dir!Wanted
  <2>2. j \in Entries /\ e \in Int /\ j < e
    BY <1>2 DEF Entries
  <2>3. e = j \/ e < j
    BY <1>1, <2>1, <2>2, NothingBehind DEF ProbeSoFar, HomeOf
  <2> QED BY <2>2, <2>3 DEF Entries
<1> QED BY <1>1, <1>2, <1>3 DEF Dir!IsFirst, Dir!Wanted

(* A probe that gives up has no entry of its name to find. *)
LEMMA GiveUpIsRight ==
    ASSUME LookupInv, NEW t \in Threads, ProbeEnd(t)
    PROVE  \A i \in Entries : ~Dir!Wanted(i, query[t])
<1> DEFINE s == at[t]
           n == query[t].key
<1>1. /\ pc = "built" /\ s \in Slots /\ query[t] \in NameQueries
      /\ n \in Names /\ query[t].by = "name" /\ ProbeSoFar(t)
      /\ stage[t] = "probe" /\ ~Probing(t)
  BY DEF ProbeEnd, LookupInv, ReaderInv, LookupTypeOK, NameQueries
<1>2. probed[t] < bucketCount
  BY <1>1, BuiltTable, DistanceBound DEF ProbeSoFar, HomeOf
<1>3. ~Occupied(s)
  BY <1>1, <1>2 DEF Probing
<1>4. \A i \in Entries : names[i] # n
  BY <1>1, <1>3, NothingBehind DEF ProbeSoFar, HomeOf
<1> QED BY <1>1, <1>4 DEF Dir!Wanted

-----------------------------------------------------------------------------
LEMMA InitLookupInv == LookupInit => LookupInv
<1> SUFFICES ASSUME LookupInit PROVE LookupInv
  OBVIOUS
<1>1. IndInv
  BY InitIndInv DEF LookupInit
<1>2. LookupTypeOK
  BY DEF LookupInit, LookupTypeOK, NoQuery
<1>3. pc = "size" /\ \A t \in Threads : stage[t] = "idle" /\ probed[t] = 0
  BY DEF LookupInit, BuildInit
<1> QED BY <1>1, <1>2, <1>3 DEF LookupInv, ReaderInv

(* Nobody reads while the table is being built. *)
LEMMA BuildStep ==
    ASSUME LookupInv, Build
    PROVE  LookupInv'
<1>1. IndInv'
  BY NextPreserves DEF Build, LookupInv
<1>2. /\ UNCHANGED <<ids, hasTable, stage, query, at, probed, reply, lastError>>
      /\ count' = count /\ pc # "built"
      /\ (pc' = "built" => entry' = count')
  BY DEF Build, container, calls, BuildNext, DoubleBuckets, AllocBuckets,
         HashEntry, ProbeTaken, PlaceEntry, FinishTable, inputs
<1>3. \A t \in Threads : stage[t] = "idle" /\ query[t] = NoQuery /\ probed[t] = 0
  BY <1>2 DEF LookupInv, ReaderInv, LookupTypeOK
<1>4. LookupTypeOK'
  BY <1>2, <1>3
     DEF LookupInv, ReaderInv, LookupTypeOK, Entries, NoQuery, NULL,
         NameQueries, IdQueries
<1> QED BY <1>1, <1>2, <1>3, <1>4 DEF LookupInv, ReaderInv

(* The invariant does not look at replies and errors of other calls: a step *)
(* of thread t has to restore the clauses about t only.                     *)
LEMMA OneThreadMoves ==
    ASSUME LookupInv, UNCHANGED <<buildVars, container>>,
           LookupTypeOK',
           NEW t \in Threads,
           \A u \in Threads \ {t} :
               /\ stage'[u] = stage[u] /\ query'[u] = query[u]
               /\ at'[u] = at[u] /\ probed'[u] = probed[u],
           stage'[t] = "probe" => ProbeSoFar(t)',
           stage'[t] = "scan" => ScanSoFar(t)',
           stage'[t] # "probe" => probed'[t] = 0
    PROVE  LookupInv'
<1>1. IndInv'
  BY StutterPreserves DEF LookupInv
<1>2. /\ UNCHANGED <<count, names, hash, pc, bucketCount, buckets, entry, ids>>
  BY DEF buildVars, container
<1>3. \A u \in Threads \ {t} :
         /\ stage'[u] = "probe" => ProbeSoFar(u)'
         /\ stage'[u] = "scan" => ScanSoFar(u)'
         /\ stage'[u] # "probe" => probed'[u] = 0
  BY <1>2
     DEF LookupInv, ReaderInv, ProbeSoFar, ScanSoFar, HomeOf, Home, Passed,
         Occupied, ERF_HASH_EMPTY, Distance, EntryMatches
<1> QED BY <1>1, <1>2, <1>3 DEF LookupInv, ReaderInv

(* A call that ends leaves nothing in progress. *)
LEMMA FinishStep ==
    ASSUME LookupInv, NEW t \in Threads, NEW result \in Entries \cup {NULL},
           NEW error, Finish(t, result, error)
    PROVE  LookupInv'
<1>1. LookupTypeOK'
  BY DEF LookupInv, ReaderInv, LookupTypeOK, Finish, buildVars, container,
         Entries, Slots, NoQuery, NameQueries, IdQueries, NULL
<1>2. /\ UNCHANGED <<buildVars, container>>
      /\ stage'[t] = "idle" /\ probed'[t] = 0
      /\ \A u \in Threads \ {t} :
            /\ stage'[u] = stage[u] /\ query'[u] = query[u]
            /\ at'[u] = at[u] /\ probed'[u] = probed[u]
  BY DEF Finish, LookupInv, ReaderInv, LookupTypeOK
<1> QED BY <1>1, <1>2, OneThreadMoves

LEMMA FindHashedStep ==
    ASSUME LookupInv, NEW t \in Threads, NEW n \in Names, FindHashed(t, n)
    PROVE  LookupInv'
<1> DEFINE q == [by |-> "name", key |-> n]
<1>1. /\ pc = "built" /\ UNCHANGED <<buildVars, container>>
      /\ stage' = [stage EXCEPT ![t] = "probe"]
      /\ query' = [query EXCEPT ![t] = q]
      /\ at' = [at EXCEPT ![t] = Home(hash[n])]
      /\ probed' = [probed EXCEPT ![t] = 0]
      /\ reply' = [reply EXCEPT ![t] = NULL]
  BY DEF FindHashed, Begin
<1>2. Home(hash[n]) \in Slots /\ bucketCount \in Nat \ {0} /\ Slots \subseteq Nat
  BY <1>1, BuiltTable DEF Slots
<1>3. q \in NameQueries /\ q # NoQuery
  BY DEF NameQueries, NoQuery
<1>4. LookupTypeOK'
  BY <1>1, <1>2, <1>3
     DEF LookupInv, ReaderInv, LookupTypeOK, buildVars, container, Entries,
         Slots, NameQueries, IdQueries, NoQuery, NULL
<1>5. stage'[t] = "probe" /\ query'[t] = q /\ probed'[t] = 0
      /\ at'[t] = Home(hash[n])
  BY <1>1 DEF LookupInv, ReaderInv, LookupTypeOK
<1>6. ProbeSoFar(t)'
  <2>1. Home(hash[n])' = Home(hash[n]) /\ bucketCount' = bucketCount
        /\ hash' = hash
    BY <1>1 DEF Home, buildVars
  <2>2. HomeOf(t)' = at'[t] /\ at'[t] \in Slots
    BY <1>2, <1>5, <2>1 DEF HomeOf
  <2>3. at'[t] \in Int
    BY <1>2, <1>5 DEF Slots
  <2>4. Passed(at[t], at[t])' = {} /\ Distance(at[t], at[t])' = 0
    BY <2>3 DEF Passed, Distance
  <2> QED BY <1>5, <2>2, <2>4 DEF ProbeSoFar
<1>7. \A u \in Threads \ {t} :
         /\ stage'[u] = stage[u] /\ query'[u] = query[u]
         /\ at'[u] = at[u] /\ probed'[u] = probed[u]
  BY <1>1 DEF LookupInv, ReaderInv, LookupTypeOK
<1> QED BY <1>1, <1>4, <1>5, <1>6, <1>7, OneThreadMoves

LEMMA BeginScanStep ==
    ASSUME LookupInv, NEW t \in Threads, NEW q \in NameQueries \cup IdQueries,
           Begin(t, q, "scan", 0)
    PROVE  LookupInv'
<1>1. q # NoQuery
  BY DEF NameQueries, IdQueries, NoQuery
<1>2. LookupTypeOK'
  <2>1. /\ UNCHANGED <<count, ids, hasTable, pc, bucketCount>> /\ pc = "built"
        /\ stage' = [stage EXCEPT ![t] = "scan"]
        /\ query' = [query EXCEPT ![t] = q]
        /\ at' = [at EXCEPT ![t] = 0]
        /\ probed' = [probed EXCEPT ![t] = 0]
        /\ reply' = [reply EXCEPT ![t] = NULL]
    BY DEF Begin, buildVars, container
  <2>2. Entries' = Entries /\ Slots' = Slots
    BY <2>1 DEF Entries, Slots
  <2>3. LookupTypeOK
    BY DEF LookupInv, ReaderInv
  <2>4. /\ NameQueries' = NameQueries /\ IdQueries' = IdQueries
        /\ NoQuery' = NoQuery /\ NULL' = NULL
    BY DEF NameQueries, IdQueries, NoQuery, NULL
  <2> QED BY <1>1, <2>1, <2>2, <2>3, <2>4 DEF LookupTypeOK
<1>3. /\ UNCHANGED <<buildVars, container>> /\ pc = "built"
      /\ stage'[t] = "scan" /\ probed'[t] = 0 /\ at'[t] = 0
      /\ \A u \in Threads \ {t} :
            /\ stage'[u] = stage[u] /\ query'[u] = query[u]
            /\ at'[u] = at[u] /\ probed'[u] = probed[u]
  BY DEF Begin, LookupInv, ReaderInv, LookupTypeOK
<1>4. count' \in Nat
  BY <1>3, BuiltTable DEF buildVars
<1>5. ScanSoFar(t)'
  BY <1>3, <1>4 DEF ScanSoFar
<1> QED BY <1>2, <1>3, <1>5, OneThreadMoves

LEMMA ProbeMissStep ==
    ASSUME LookupInv, NEW t \in Threads, ProbeMiss(t)
    PROVE  LookupInv'
<1> DEFINE s == at[t]
           n == query[t].key
           h == HomeOf(t)
<1>1. /\ pc = "built" /\ s \in Slots /\ n \in Names /\ Occupied(s)
      /\ stage[t] = "probe" /\ ~BucketMatches(s, n) /\ ProbeSoFar(t)
  BY DEF ProbeMiss, Probing, LookupInv, ReaderInv, LookupTypeOK, NameQueries
<1>2. /\ bucketCount \in Nat \ {0} /\ h \in Slots /\ TableExists
      /\ NextSlot(s) \in Slots /\ Slots \subseteq Nat
  BY <1>1, BuiltTable, NextSlotIs DEF HomeOf, Slots
<1>3. names[buckets[s].index] # n
  BY <1>1, BuiltTable DEF BucketMatches, Entries
<1>4. NextSlot(s) # h
  <2> SUFFICES ASSUME NextSlot(s) = h PROVE FALSE
    OBVIOUS
  <2>1. Slots = Passed(h, s) \cup {s}
    BY <1>1, <1>2, PassedAll
  <2>2. \A u \in Slots : Occupied(u)
    BY <1>1, <2>1 DEF ProbeSoFar
  <2> QED BY <1>2, <2>2, RoomFromInv DEF LookupInv
<1>5. /\ at' = [at EXCEPT ![t] = NextSlot(s)]
      /\ probed' = [probed EXCEPT ![t] = probed[t] + 1]
      /\ UNCHANGED <<buildVars, container, stage, query, reply>>
  BY DEF ProbeMiss, StepTo
<1>6. LookupTypeOK'
  BY <1>1, <1>2, <1>5
     DEF LookupInv, ReaderInv, LookupTypeOK, buildVars, container, Entries,
         Slots, NameQueries, IdQueries, NoQuery, NULL
<1>7. at'[t] = NextSlot(s) /\ probed'[t] = probed[t] + 1
  BY <1>5 DEF LookupInv, ReaderInv, LookupTypeOK
<1>8. ProbeSoFar(t)'
  <2>1. /\ HomeOf(t)' = h
        /\ Passed(h, NextSlot(s)) = Passed(HomeOf(t), at[t])'
        /\ Distance(h, NextSlot(s)) = Distance(HomeOf(t), at[t])'
        /\ \A u : Occupied(u)' = Occupied(u)
        /\ UNCHANGED <<names, buckets, query>>
    BY <1>5, <1>7
       DEF HomeOf, Home, Passed, Distance, Occupied, ERF_HASH_EMPTY, buildVars
  <2>2. Passed(h, NextSlot(s)) = Passed(h, s) \cup {s}
    BY <1>1, <1>2, <1>4, PassedNext
  <2>3. Distance(h, NextSlot(s)) = Distance(h, s) + 1
    BY <1>1, <1>2, <1>4, DistanceBound
  <2> QED BY <1>1, <1>3, <1>7, <2>1, <2>2, <2>3 DEF ProbeSoFar
<1>9. \A u \in Threads \ {t} : at'[u] = at[u] /\ probed'[u] = probed[u]
  BY <1>5 DEF LookupInv, ReaderInv, LookupTypeOK
<1> QED BY <1>1, <1>5, <1>6, <1>8, <1>9, OneThreadMoves

LEMMA ScanMissStep ==
    ASSUME LookupInv, NEW t \in Threads, ScanMiss(t)
    PROVE  LookupInv'
<1>1. /\ pc = "built" /\ stage[t] = "scan" /\ ScanSoFar(t)
      /\ at[t] \in Nat /\ at[t] < count /\ ~EntryMatches(at[t], query[t])
      /\ at' = [at EXCEPT ![t] = at[t] + 1]
      /\ UNCHANGED <<buildVars, container, stage, query, probed, reply>>
      /\ probed[t] = 0
  BY DEF ScanMiss, LookupInv, ReaderInv, LookupTypeOK
<1>2. count \in Nat
  BY <1>1, BuiltTable
<1>3. LookupTypeOK'
  BY <1>1
     DEF LookupInv, ReaderInv, LookupTypeOK, buildVars, container, Entries,
         Slots, NameQueries, IdQueries, NoQuery, NULL
<1>4. at'[t] = at[t] + 1 /\ \A u \in Threads \ {t} : at'[u] = at[u]
  BY <1>1 DEF LookupInv, ReaderInv, LookupTypeOK
<1>5. ScanSoFar(t)'
  <2>1. UNCHANGED <<count, names, ids, query>>
    BY <1>1 DEF buildVars, container
  <2> QED BY <1>1, <1>2, <1>4, <2>1 DEF ScanSoFar, EntryMatches
<1> QED BY <1>1, <1>3, <1>4, <1>5, OneThreadMoves

LEMMA TurnStep ==
    ASSUME LookupInv, NEW t \in Threads, Turn(t)
    PROVE  LookupInv'
<1>1. CASE ProbeEnd(t)
  BY <1>1, FinishStep DEF ProbeEnd
<1>2. CASE ProbeHit(t)
  BY <1>2, FinishStep, HitIsFirst DEF ProbeHit
<1>3. CASE ProbeMiss(t)
  BY <1>3, ProbeMissStep
<1>4. CASE ScanHit(t)
  <2>1. at[t] \in Nat /\ count \in Nat /\ at[t] < count
    BY <1>4, EntryNotEmpty DEF ScanHit, LookupInv, ReaderInv, LookupTypeOK, IndInv
  <2>2. at[t] \in Entries
    BY <2>1 DEF Entries
  <2> QED BY <1>4, <2>2, FinishStep DEF ScanHit
<1>5. CASE ScanMiss(t)
  BY <1>5, ScanMissStep
<1>6. CASE ScanEnd(t)
  BY <1>6, FinishStep DEF ScanEnd
<1> QED BY <1>1, <1>2, <1>3, <1>4, <1>5, <1>6 DEF Turn

LEMMA CallStep ==
    ASSUME LookupInv, NEW t \in Threads, Call(t)
    PROVE  LookupInv'
<1>1. CASE \E n \in Names : FindHashed(t, n)
  BY <1>1, FindHashedStep
<1>2. CASE \E n \in Names : FindScanning(t, n)
  BY <1>2, BeginScanStep DEF FindScanning, NameQueries
<1>3. CASE \E id \in Ids : FindIdIn(t, id)
  BY <1>3, BeginScanStep DEF FindIdIn, IdQueries
<1>4. CASE RefuseArgument(t)
  BY <1>4, FinishStep DEF RefuseArgument
<1>5. CASE \E i \in Entries : ResourceAt(t, i)
  BY <1>5, FinishStep DEF ResourceAt
<1> QED BY <1>1, <1>2, <1>3, <1>4, <1>5 DEF Call

LEMMA LookupStutter ==
    ASSUME LookupInv, UNCHANGED lookupVars
    PROVE  LookupInv'
<1>1. IndInv'
  BY StutterPreserves DEF LookupInv, lookupVars
<1> QED
  BY <1>1
     DEF LookupInv, lookupVars, buildVars, container, calls, ReaderInv,
         LookupTypeOK, Entries, Slots, ProbeSoFar, ScanSoFar, HomeOf, Home,
         Passed, Occupied, ERF_HASH_EMPTY, Distance, EntryMatches,
         NameQueries, IdQueries, NoQuery, NULL

LEMMA LookupNextPreserves == LookupInv /\ [LookupNext]_lookupVars => LookupInv'
BY BuildStep, CallStep, TurnStep, LookupStutter DEF LookupNext

THEOREM LookupInvariant == LookupSpec => []LookupInv
BY InitLookupInv, LookupNextPreserves, PTL DEF LookupSpec

(* The types of the readers' state hold in every reachable state. *)
THEOREM LookupTypes == LookupSpec => []LookupTypeOK
<1>1. LookupInv => LookupTypeOK
  BY DEF LookupInv, ReaderInv
<1> QED BY <1>1, LookupInvariant, PTL

-----------------------------------------------------------------------------
LEMMA ProbesBounded == LookupInv => BoundedProbe
<1> SUFFICES ASSUME LookupInv, NEW t \in Threads PROVE probed[t] <= count
  BY DEF BoundedProbe
<1>1. count \in Nat
  BY EntryNotEmpty DEF LookupInv, IndInv
<1>2. CASE stage[t] # "probe"
  BY <1>1, <1>2 DEF LookupInv, ReaderInv
<1>3. CASE stage[t] = "probe"
  <2>1. /\ pc = "built" /\ at[t] \in Slots /\ query[t].key \in Names
        /\ ProbeSoFar(t)
    BY <1>3 DEF LookupInv, ReaderInv, LookupTypeOK, NameQueries
  <2>2. HomeOf(t) \in Slots /\ bucketCount \in Nat \ {0} /\ TableExists
    BY <2>1, BuiltTable DEF HomeOf
  <2>3. Cardinality(Passed(HomeOf(t), at[t])) = probed[t]
    BY <2>1, <2>2, PassedCount DEF ProbeSoFar
  <2>4. Cardinality(Passed(HomeOf(t), at[t])) <= count
    BY <2>1, <2>2, PassedHoldEntries DEF LookupInv, ReaderInv, ProbeSoFar
  <2> QED BY <2>3, <2>4
<1> QED BY <1>2, <1>3

(* A lookup by name never steps over more buckets than there are entries.   *)
THEOREM ProbeLength == LookupSpec => []BoundedProbe
BY LookupInvariant, ProbesBounded, PTL

-----------------------------------------------------------------------------
(* How many turns the call of a thread may still take. *)
TurnsLeft(t) ==
    CASE stage[t] = "probe" -> 1 + count - probed[t]
      [] stage[t] = "scan" -> 1 + count - at[t]
      [] stage[t] = "idle" -> 0
SameTurn(t) ==
    /\ stage'[t] = stage[t] /\ query'[t] = query[t]
    /\ at'[t] = at[t] /\ probed'[t] = probed[t]

LEMMA TurnsLeftNat ==
    ASSUME LookupInv, NEW t \in Threads
    PROVE  /\ TurnsLeft(t) \in 0 .. count + 1
           /\ stage[t] # "idle" => TurnsLeft(t) > 0
<1>1. count \in Nat
  BY EntryNotEmpty DEF LookupInv, IndInv
<1>2. /\ stage[t] \in {"idle", "probe", "scan"}
      /\ at[t] \in Nat /\ probed[t] \in Nat
  BY DEF LookupInv, ReaderInv, LookupTypeOK
<1>3. probed[t] <= count
  BY ProbesBounded DEF BoundedProbe
<1>4. stage[t] = "scan" => at[t] <= count
  BY DEF LookupInv, ReaderInv, ScanSoFar
<1>5. CASE stage[t] = "probe"
  BY <1>1, <1>2, <1>3, <1>5 DEF TurnsLeft
<1>6. CASE stage[t] = "scan"
  BY <1>1, <1>2, <1>4, <1>6 DEF TurnsLeft
<1>7. CASE stage[t] = "idle"
  BY <1>1, <1>7 DEF TurnsLeft
<1> QED BY <1>2, <1>5, <1>6, <1>7

LEMMA TurnLeavesLess ==
    ASSUME LookupInv, NEW t \in Threads, Turn(t)
    PROVE  TurnsLeft(t)' < TurnsLeft(t)
<1>1. /\ count \in Nat /\ at[t] \in Nat /\ probed[t] \in Nat
      /\ stage \in [Threads -> {"idle", "probe", "scan"}]
      /\ at \in [Threads -> Nat] /\ probed \in [Threads -> Nat]
  BY EntryNotEmpty DEF LookupInv, IndInv, ReaderInv, LookupTypeOK
<1>2. TurnsLeft(t) \in Nat
  BY <1>1, TurnsLeftNat
<1>3. CASE ProbeEnd(t) \/ ProbeHit(t) \/ ScanHit(t) \/ ScanEnd(t)
  <2>1. stage[t] # "idle" /\ stage'[t] = "idle"
    BY <1>1, <1>3 DEF ProbeEnd, ProbeHit, Probing, ScanHit, ScanEnd, Finish
  <2>2. TurnsLeft(t)' = 0
    BY <2>1 DEF TurnsLeft
  <2> QED BY <1>2, <2>1, <2>2, TurnsLeftNat
<1>4. CASE ProbeMiss(t)
  <2>1. /\ stage[t] = "probe" /\ stage' = stage /\ count' = count
        /\ probed'[t] = probed[t] + 1
    BY <1>1, <1>4 DEF ProbeMiss, Probing, StepTo, buildVars
  <2>2. /\ TurnsLeft(t) = 1 + count - probed[t]
        /\ TurnsLeft(t)' = 1 + count - (probed[t] + 1)
    BY <2>1 DEF TurnsLeft
  <2> QED BY <1>1, <2>2
<1>5. CASE ScanMiss(t)
  <2>1. /\ stage[t] = "scan" /\ stage' = stage /\ count' = count
        /\ at'[t] = at[t] + 1
    BY <1>1, <1>5 DEF ScanMiss, buildVars
  <2>2. /\ TurnsLeft(t) = 1 + count - at[t]
        /\ TurnsLeft(t)' = 1 + count - (at[t] + 1)
    BY <2>1 DEF TurnsLeft
  <2> QED BY <1>1, <2>2
<1> QED BY <1>3, <1>4, <1>5 DEF Turn

(* A call in progress is at most as many turns from its return as there are *)
(* entries, and one: each turn brings it nearer, and no step of another     *)
(* thread takes it back.                                                    *)
THEOREM CallsDescend ==
    LookupSpec =>
        /\ [](\A t \in Threads : TurnsLeft(t) \in 0 .. count + 1)
        /\ [][\A t \in Threads : stage[t] # "idle" =>
                  TurnsLeft(t)' < TurnsLeft(t) \/ SameTurn(t)]_lookupVars
<1>1. LookupInv => \A t \in Threads : TurnsLeft(t) \in 0 .. count + 1
  BY TurnsLeftNat
<1>2. LookupInv /\ [LookupNext]_lookupVars =>
        [\A t \in Threads : stage[t] # "idle" =>
             TurnsLeft(t)' < TurnsLeft(t) \/ SameTurn(t)]_lookupVars
  <2> SUFFICES ASSUME LookupInv, LookupNext, NEW t \in Threads, stage[t] # "idle"
               PROVE  TurnsLeft(t)' < TurnsLeft(t) \/ SameTurn(t)
    OBVIOUS
  <2>1. CASE Build
    BY <2>1 DEF Build, calls, SameTurn
  <2>2. ASSUME NEW u \in Threads, Call(u) \/ Turn(u)
        PROVE  TurnsLeft(t)' < TurnsLeft(t) \/ SameTurn(t)
    <3>1. CASE u = t
      <4>1. ~Call(t)
        BY DEF Call, FindHashed, FindScanning, FindIdIn, Begin, RefuseArgument,
               ResourceAt
      <4> QED BY <2>2, <3>1, <4>1, TurnLeavesLess
    <3>2. CASE u # t
      <4>1. DOMAIN stage = Threads /\ DOMAIN query = Threads
            /\ DOMAIN at = Threads /\ DOMAIN probed = Threads
        BY DEF LookupInv, ReaderInv, LookupTypeOK
      <4>2. CASE Call(u)
        BY <3>2, <4>1, <4>2
           DEF Call, FindHashed, FindScanning, FindIdIn, Begin, RefuseArgument,
               ResourceAt, Finish, SameTurn
      <4>3. CASE Turn(u)
        BY <3>2, <4>1, <4>3
           DEF Turn, ProbeEnd, ProbeHit, ProbeMiss, ScanHit, ScanMiss, ScanEnd,
               StepTo, Finish, SameTurn
      <4> QED BY <2>2, <4>2, <4>3
    <3> QED BY <3>1, <3>2
  <2> QED BY <2>1, <2>2 DEF LookupNext
<1> QED BY <1>1, <1>2, LookupInvariant, PTL DEF LookupSpec

-----------------------------------------------------------------------------
LEMMA InitImplements == LookupInit => Dir!DirInit
<1> SUFFICES ASSUME LookupInit PROVE Dir!DirInit
  OBVIOUS
<1>1. count \in Nat
  BY HashBuildAssumption DEF LookupInit, BuildInit
<1> QED
  BY <1>1 DEF LookupInit, BuildInit, Dir!DirInit, Dir!Entries, Entries,
              Dir!NoRequest, NoQuery, Dir!NULL, NULL

(* A call that ends is a return of the directory. *)
LEMMA FinishReturns ==
    ASSUME NEW t, NEW result, NEW error, Finish(t, result, error)
    PROVE  Dir!Return(t, result, error)
BY DEF Finish, Dir!Return, buildVars, container, NoQuery, Dir!NoRequest,
       NULL, Dir!NULL

LEMMA BeginAsks ==
    ASSUME LookupInv, NEW t \in Threads, NEW q \in NameQueries \cup IdQueries,
           NEW loop, NEW start, Begin(t, q, loop, start)
    PROVE  Dir!DirNext
<1>1. query[t] = NoQuery
  BY DEF Begin, LookupInv, ReaderInv, LookupTypeOK
<1>2. Dir!Ask(t, q)
  BY <1>1 DEF Begin, Dir!Ask, buildVars, container, NoQuery, Dir!NoRequest,
              NULL, Dir!NULL
<1> QED BY <1>2 DEF Dir!DirNext, NameQueries, IdQueries, Dir!NameRequests,
                    Dir!IdRequests

LEMMA CallImplements ==
    ASSUME LookupInv, NEW t \in Threads, Call(t)
    PROVE  Dir!DirNext
<1>1. CASE \E n \in Names : FindHashed(t, n) \/ FindScanning(t, n)
  BY <1>1, BeginAsks DEF FindHashed, FindScanning, NameQueries
<1>2. CASE \E id \in Ids : FindIdIn(t, id)
  BY <1>2, BeginAsks DEF FindIdIn, IdQueries
<1>3. CASE RefuseArgument(t)
  <2>1. query[t] = NoQuery
    BY <1>3 DEF RefuseArgument, LookupInv, ReaderInv, LookupTypeOK
  <2>2. Dir!Refuse(t)
    BY <1>3, <2>1, FinishReturns
       DEF RefuseArgument, Dir!Refuse, NoQuery, Dir!NoRequest, NULL, Dir!NULL
  <2> QED BY <2>2 DEF Dir!DirNext
<1>4. CASE \E i \in Entries : ResourceAt(t, i)
  <2>1. PICK i \in Entries : ResourceAt(t, i)
    BY <1>4
  <2>2. query[t] = NoQuery
    BY <2>1 DEF ResourceAt, LookupInv, ReaderInv, LookupTypeOK
  <2>3. Dir!At(t, i)
    BY <2>1, <2>2, FinishReturns
       DEF ResourceAt, Dir!At, NoQuery, Dir!NoRequest, NULL, Dir!NULL
  <2> QED BY <2>3 DEF Dir!DirNext, Entries, Dir!Entries
<1> QED BY <1>1, <1>2, <1>3, <1>4 DEF Call

LEMMA TurnImplements ==
    ASSUME LookupInv, NEW t \in Threads, Turn(t)
    PROVE  [Dir!DirNext]_Dir!dirVars
<1>1. query[t] # Dir!NoRequest
  BY DEF Turn, ProbeEnd, ProbeHit, ProbeMiss, Probing, ScanHit, ScanMiss,
         ScanEnd, LookupInv, ReaderInv, LookupTypeOK, NoQuery, Dir!NoRequest,
         NULL, Dir!NULL
<1>2. Dir!Entries = Entries /\ Dir!NULL = NULL
  BY DEF Entries, Dir!Entries, NULL, Dir!NULL
<1>3. \A i : EntryMatches(i, query[t]) <=> Dir!Wanted(i, query[t])
  BY DEF EntryMatches, Dir!Wanted
<1>4. CASE ProbeEnd(t)
  <2>1. Dir!AnswerNotFound(t)
    BY <1>1, <1>2, <1>4, GiveUpIsRight, FinishReturns
       DEF ProbeEnd, Dir!AnswerNotFound
  <2> QED BY <2>1 DEF Dir!DirNext
<1>5. CASE ProbeHit(t)
  <2>1. Dir!AnswerFound(t)
    BY <1>1, <1>2, <1>5, HitIsFirst, FinishReturns DEF ProbeHit, Dir!AnswerFound
  <2> QED BY <2>1 DEF Dir!DirNext
<1>6. CASE ScanHit(t)
  <2>1. /\ at[t] \in Entries
        /\ \A j \in 0 .. at[t] - 1 : ~EntryMatches(j, query[t])
    BY <1>6, EntryNotEmpty
       DEF ScanHit, LookupInv, ReaderInv, LookupTypeOK, IndInv, ScanSoFar, Entries
  <2>2. Dir!IsFirst(at[t], query[t])
    BY <1>3, <1>6, <2>1 DEF ScanHit, Dir!IsFirst
  <2>3. Dir!AnswerFound(t)
    BY <1>1, <1>2, <1>6, <2>1, <2>2, FinishReturns DEF ScanHit, Dir!AnswerFound
  <2> QED BY <2>3 DEF Dir!DirNext
<1>7. CASE ScanEnd(t)
  <2>1. \A i \in Entries : ~EntryMatches(i, query[t])
    BY <1>7, EntryNotEmpty
       DEF ScanEnd, LookupInv, ReaderInv, LookupTypeOK, IndInv, ScanSoFar, Entries
  <2>2. Dir!AnswerNotFound(t)
    BY <1>1, <1>2, <1>3, <1>7, <2>1, FinishReturns
       DEF ScanEnd, Dir!AnswerNotFound
  <2> QED BY <2>2 DEF Dir!DirNext
<1>8. CASE ProbeMiss(t) \/ ScanMiss(t)
  BY <1>8 DEF ProbeMiss, StepTo, ScanMiss, buildVars, container, Dir!dirVars
<1> QED BY <1>4, <1>5, <1>6, <1>7, <1>8 DEF Turn

LEMMA StepImplements ==
    LookupInv /\ [LookupNext]_lookupVars => [Dir!DirNext]_Dir!dirVars
<1> SUFFICES ASSUME LookupInv, [LookupNext]_lookupVars
             PROVE  [Dir!DirNext]_Dir!dirVars
  OBVIOUS
<1>1. CASE Build
  <2>1. UNCHANGED inputs
    BY <1>1 DEF Build, BuildNext, DoubleBuckets, AllocBuckets, HashEntry,
                ProbeTaken, PlaceEntry, FinishTable
  <2> QED BY <1>1, <2>1 DEF Build, container, calls, inputs, Dir!dirVars
<1>2. CASE \E t \in Threads : Call(t) \/ Turn(t)
  BY <1>2, CallImplements, TurnImplements
<1>3. CASE UNCHANGED lookupVars
  BY <1>3 DEF lookupVars, buildVars, container, calls, Dir!dirVars
<1> QED BY <1>1, <1>2, <1>3 DEF LookupNext

(* libelfr keeps the promise of Directory: through the hash table or by a   *)
(* scan, a lookup returns the first entry that matches, and NOT_FOUND only  *)
(* when there is none, in every container elfrc can build.                  *)
THEOREM LookupImplementsDirectory == LookupSpec => ImplementsDirectory
BY LookupInvariant, InitImplements, StepImplements, PTL
   DEF LookupSpec, ImplementsDirectory, Dir!DirSpec

=============================================================================
