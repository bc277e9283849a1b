-------------------------------- MODULE Lookup --------------------------------
(***************************************************************************)
(* The lookups of libelfr on an open container: erf_find_in through the    *)
(* hash table HashBuild filled, or by a scan of the directory when the     *)
(* container has no table; erf_find_id_in, always by a scan; and           *)
(* erf_resource_at.  erf_resource_data_in is erf_find_in followed by a     *)
(* read of the entry it returned.  Threads share the container and never   *)
(* write it; each has its own last error.                                  *)
(***************************************************************************)
EXTENDS HashBuild

CONSTANTS Threads, Ids

VARIABLES
    ids,        \* id of each directory entry
    hasTable,   \* has_hash_table && hash_bucket_count > 0
    stage,      \* where each thread is: "idle", "probe" or "scan"
    query,      \* the argument of the call the thread is in
    at,         \* the bucket being probed or the entry being compared
    probed,     \* buckets the call has stepped over
    reply,      \* what the last call returned: an entry, or NULL
    lastError   \* g_last_error

container == <<ids, hasTable>>
calls == <<stage, query, at, probed, reply, lastError>>
lookupVars == <<buildVars, container, calls>>

NULL == -1
NameQueries == [by : {"name"}, key : Names]
IdQueries == [by : {"id"}, key : Ids]
NoQuery == [by |-> "nothing", key |-> NULL]

LookupInit ==
    /\ BuildInit
    /\ ids \in [Entries -> Ids]
    /\ hasTable \in BOOLEAN
    /\ stage = [t \in Threads |-> "idle"]
    /\ query = [t \in Threads |-> NoQuery]
    /\ at = [t \in Threads |-> 0]
    /\ probed = [t \in Threads |-> 0]
    /\ reply = [t \in Threads |-> NULL]
    /\ lastError = [t \in Threads |-> "ERF_OK"]

(* elfrc finishes the container before any program opens it. *)
Build == BuildNext /\ UNCHANGED <<container, calls>>

Begin(t, q, loop, start) ==
    /\ pc = "built"
    /\ stage[t] = "idle"
    /\ stage' = [stage EXCEPT ![t] = loop]
    /\ query' = [query EXCEPT ![t] = q]
    /\ at' = [at EXCEPT ![t] = start]
    /\ probed' = [probed EXCEPT ![t] = 0]
    /\ reply' = [reply EXCEPT ![t] = NULL]
    /\ UNCHANGED <<buildVars, container, lastError>>

Finish(t, result, error) ==
    /\ stage' = [stage EXCEPT ![t] = "idle"]
    /\ query' = [query EXCEPT ![t] = NoQuery]
    /\ at' = [at EXCEPT ![t] = 0]
    /\ probed' = [probed EXCEPT ![t] = 0]
    /\ reply' = [reply EXCEPT ![t] = result]
    /\ lastError' = [lastError EXCEPT ![t] = error]
    /\ UNCHANGED <<buildVars, container>>

(* erf_find_in hashes the name it is given and goes to its home bucket. *)
FindHashed(t, n) ==
    /\ hasTable
    /\ Begin(t, [by |-> "name", key |-> n], "probe", Home(hash[n]))

FindScanning(t, n) ==
    /\ ~hasTable
    /\ Begin(t, [by |-> "name", key |-> n], "scan", 0)

FindIdIn(t, id) == Begin(t, [by |-> "id", key |-> id], "scan", 0)

(* A NULL container or name, or an index erf_resource_at refuses. *)
RefuseArgument(t) ==
    /\ pc = "built"
    /\ stage[t] = "idle"
    /\ Finish(t, NULL, "ERF_ERR_INVALID_ARGUMENT")

(* A successful erf_resource_at is the one call that leaves the last error. *)
ResourceAt(t, i) ==
    /\ pc = "built"
    /\ stage[t] = "idle"
    /\ Finish(t, i, lastError[t])

BucketMatchesHashOnly(s, n) == buckets[s].hash = hash[n]

(* The bucket is in use by an entry of this container with this name. *)
BucketMatches(s, n) ==
    /\ buckets[s].hash = hash[n]
    /\ buckets[s].index < count
    /\ names[buckets[s].index] = n

(* The loop goes on: not every bucket was seen and this one is in use.      *)
(* Broken: an unused bucket is one that does not match.                     *)
ProbingThroughUnused(t) == stage[t] = "probe" /\ probed[t] < bucketCount
Probing(t) == stage[t] = "probe" /\ probed[t] < bucketCount /\ Occupied(at[t])

ProbeEnd(t) ==
    /\ stage[t] = "probe"
    /\ ~Probing(t)
    /\ Finish(t, NULL, "ERF_ERR_NOT_FOUND")

ProbeHit(t) ==
    /\ Probing(t)
    /\ BucketMatches(at[t], query[t].key)
    /\ Finish(t, buckets[at[t]].index, "ERF_OK")

StepTo(t, s) ==
    /\ at' = [at EXCEPT ![t] = s]
    /\ probed' = [probed EXCEPT ![t] = probed[t] + 1]
    /\ UNCHANGED <<buildVars, container, stage, query, reply, lastError>>

(* Broken forms of ProbeMiss: it runs off the end of the table; it forgets  *)
(* to move on.                                                              *)
ProbeMissNoWrap(t) ==
    /\ Probing(t)
    /\ ~BucketMatches(at[t], query[t].key)
    /\ StepTo(t, at[t] + 1)

ProbeMissStuck(t) ==
    /\ Probing(t)
    /\ ~BucketMatches(at[t], query[t].key)
    /\ UNCHANGED lookupVars

ProbeMiss(t) ==
    /\ Probing(t)
    /\ ~BucketMatches(at[t], query[t].key)
    /\ StepTo(t, NextSlot(at[t]))

EntryMatches(i, q) ==
    \/ q.by = "name" /\ names[i] = q.key
    \/ q.by = "id" /\ ids[i] = q.key

ScanHit(t) ==
    /\ stage[t] = "scan"
    /\ at[t] < count
    /\ EntryMatches(at[t], query[t])
    /\ Finish(t, at[t], "ERF_OK")

ScanMiss(t) ==
    /\ stage[t] = "scan"
    /\ at[t] < count
    /\ ~EntryMatches(at[t], query[t])
    /\ at' = [at EXCEPT ![t] = at[t] + 1]
    /\ UNCHANGED <<buildVars, container, stage, query, probed, reply, lastError>>

ScanEnd(t) ==
    /\ stage[t] = "scan"
    /\ at[t] >= count
    /\ Finish(t, NULL, "ERF_ERR_NOT_FOUND")

Call(t) ==
    \/ \E n \in Names : FindHashed(t, n) \/ FindScanning(t, n)
    \/ \E id \in Ids : FindIdIn(t, id)
    \/ RefuseArgument(t)
    \/ \E i \in Entries : ResourceAt(t, i)

(* One turn of a loop of a call in progress. *)
Turn(t) ==
    \/ ProbeEnd(t) \/ ProbeHit(t) \/ ProbeMiss(t)
    \/ ScanHit(t) \/ ScanMiss(t) \/ ScanEnd(t)

LookupNext == Build \/ \E t \in Threads : Call(t) \/ Turn(t)

LookupSpec ==
    /\ LookupInit
    /\ [][LookupNext]_lookupVars
    /\ WF_lookupVars(Build)
    /\ \A t \in Threads : WF_lookupVars(Turn(t))

-----------------------------------------------------------------------------
(* Types of the readers' state; a bucket being probed is inside the table.  *)
LookupTypeOK ==
    /\ ids \in [Entries -> Ids]
    /\ hasTable \in BOOLEAN
    /\ stage \in [Threads -> {"idle", "probe", "scan"}]
    /\ query \in [Threads -> NameQueries \cup IdQueries \cup {NoQuery}]
    /\ at \in [Threads -> Nat]
    /\ probed \in [Threads -> Nat]
    /\ reply \in [Threads -> Entries \cup {NULL}]
    /\ \A t \in Threads :
          /\ stage[t] # "idle" => pc = "built"
          /\ stage[t] = "idle" <=> query[t] = NoQuery
          /\ stage[t] = "probe" => at[t] \in Slots /\ query[t] \in NameQueries

(* Every lookup answers what Directory promises: with the first entry that  *)
(* matches, whether it was reached through the hash table, where names of   *)
(* one hash share a path and the entries of other names are in between, or  *)
(* by a scan; and NOT_FOUND only when no entry matches.                     *)
Dir == INSTANCE Directory WITH request <- query
ImplementsDirectory == Dir!DirSpec

(* A lookup by name steps over no more buckets than there are entries, so   *)
(* that the last one it reads is unused: probing never has to come round    *)
(* the whole table.                                                         *)
BoundedProbe == \A t \in Threads : probed[t] <= count

(* Every call returns, whatever the other threads do: the fairness is that  *)
(* of a thread that is running its own loop.                                *)
CallsReturn == \A t \in Threads : stage[t] # "idle" ~> stage[t] = "idle"

=============================================================================
