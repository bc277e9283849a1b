------------------------------ MODULE ManifestIds ------------------------------
(***************************************************************************)
(* Resource identifiers in the manifest parser of elfrc: reading the 'id'  *)
(* fields (parse_uint), giving an id to every resource that has none, and  *)
(* refusing duplicates (assign_and_validate_ids).  Every other field of a  *)
(* resource is taken to be well formed here.                               *)
(*                                                                         *)
(* Languages are the numbers language_from_tag returns: different tags may *)
(* already have become one language.                                       *)
(***************************************************************************)
EXTENDS Integers, FiniteSets

CONSTANTS
    Names, Languages,
    WrittenIds,     \* the numbers an 'id' field may hold, of any size
    MaxResources,   \* bound on the number of resources
    LongMax,        \* LONG_MAX, where strtol saturates
    U32             \* 2^32

(* Ids run out, and next wraps, only beyond 2^32 - 2 resources. *)
ASSUME ManifestIdsAssumption ==
    /\ WrittenIds \subseteq Nat
    /\ MaxResources \in Nat
    /\ LongMax \in Nat
    /\ U32 \in Nat
    /\ MaxResources + 1 < U32

VARIABLES
    count,     \* how many resources the manifest lists
    field,     \* their 'id' fields
    key,       \* their names and languages
    pc,        \* where the parser is
    i,         \* the resource at hand
    id,        \* r->id of the resources read so far
    next,      \* the next automatic id to try
    finalId,   \* r->final_id of the resources assigned so far
    error      \* what set_error reported, if it did

manifest == <<count, field, key>>
idVars == <<manifest, pc, i, id, next, finalId, error>>

Resources == 0 .. count - 1
NoId == -2     \* the resource has no 'id' field
BadId == -1    \* the field is negative, or no number at all

Explicit == {r \in Resources : field[r] \notin {NoId, BadId}}
ExplicitIds == {id[r] : r \in Explicit}

(* strtol, then a cast to uint32_t. *)
ToU32Uncast(v) == v
ToU32(v) == (IF v > LongMax THEN LongMax ELSE v) % U32

IdsInit ==
    /\ count \in 0 .. MaxResources
    /\ field \in [Resources -> WrittenIds \cup {NoId, BadId}]
    /\ key \in [Resources -> Names \X Languages]
    /\ pc = "read"
    /\ i = 0
    /\ id = [r \in Resources |-> 0]
    /\ next = 1
    /\ finalId = [r \in Resources |-> 0]
    /\ error = "none"

(* set_error, then elfrc_manifest_parse returns -1. *)
Fail(e) ==
    /\ pc' = "failed"
    /\ error' = e
    /\ UNCHANGED <<manifest, i, id, next, finalId>>

ReadId ==
    /\ pc = "read"
    /\ i < count
    /\ field[i] # BadId
    /\ id' = IF field[i] = NoId THEN id ELSE [id EXCEPT ![i] = ToU32(field[i])]
    /\ i' = i + 1
    /\ UNCHANGED <<manifest, pc, next, finalId, error>>

ReadBadId ==
    /\ pc = "read"
    /\ i < count
    /\ field[i] = BadId
    /\ Fail("invalid id")

(* Two equal neighbours in the sorted array of explicit ids. *)
DuplicateId == \E r, s \in Explicit : r # s /\ id[r] = id[s]

RefuseDuplicateId ==
    /\ pc = "read"
    /\ i = count
    /\ DuplicateId
    /\ Fail("duplicate id")

(* Broken: automatic ids that start at 0. *)
StartAssigningAtZero ==
    /\ pc = "read"
    /\ i = count
    /\ ~DuplicateId
    /\ pc' = "assign"
    /\ i' = 0
    /\ next' = 0
    /\ UNCHANGED <<manifest, id, finalId, error>>

StartAssigning ==
    /\ pc = "read"
    /\ i = count
    /\ ~DuplicateId
    /\ pc' = "assign"
    /\ i' = 0
    /\ next' = 1
    /\ UNCHANGED <<manifest, id, finalId, error>>

AssignExplicit ==
    /\ pc = "assign"
    /\ i \in Explicit
    /\ finalId' = [finalId EXCEPT ![i] = id[i]]
    /\ i' = i + 1
    /\ UNCHANGED <<manifest, pc, id, next, error>>

(* Broken: only the explicit ids met so far. *)
TakenSoFar(n) == \E r \in Explicit : r < i /\ id[r] = n

(* n is an explicit id of some resource, before or after this one. *)
Taken(n) == n \in ExplicitIds

(* Broken: bsearch is asked again for the same number. *)
SkipTakenStuck ==
    /\ pc = "assign"
    /\ i \in Resources \ Explicit
    /\ Taken(next)
    /\ UNCHANGED idVars

SkipTaken ==
    /\ pc = "assign"
    /\ i \in Resources \ Explicit
    /\ Taken(next)
    /\ next' = (next + 1) % U32
    /\ UNCHANGED <<manifest, pc, i, id, finalId, error>>

AssignNext ==
    /\ pc = "assign"
    /\ i \in Resources \ Explicit
    /\ ~Taken(next)
    /\ finalId' = [finalId EXCEPT ![i] = next]
    /\ next' = (next + 1) % U32
    /\ i' = i + 1
    /\ UNCHANGED <<manifest, pc, id, error>>

DuplicateNeighbour == \E r \in Resources : r > 0 /\ key[r] = key[r - 1]
DuplicateResource == \E r, s \in Resources : r < s /\ key[r] = key[s]

RefuseDuplicateResource ==
    /\ pc = "assign"
    /\ i = count
    /\ DuplicateResource
    /\ Fail("duplicate resource")

Accept ==
    /\ pc = "assign"
    /\ i = count
    /\ ~DuplicateResource
    /\ pc' = "accepted"
    /\ UNCHANGED <<manifest, i, id, next, finalId, error>>

IdsNext ==
    \/ ReadId \/ ReadBadId \/ RefuseDuplicateId \/ StartAssigning
    \/ AssignExplicit \/ SkipTaken \/ AssignNext
    \/ RefuseDuplicateResource \/ Accept

IdsSpec == IdsInit /\ [][IdsNext]_idVars /\ WF_idVars(IdsNext)

-----------------------------------------------------------------------------
(* Types; ids are uint32_t values and next never wraps round to 0.  *)
IdsTypeOK ==
    /\ count \in 0 .. MaxResources
    /\ field \in [Resources -> WrittenIds \cup {NoId, BadId}]
    /\ key \in [Resources -> Names \X Languages]
    /\ pc \in {"read", "assign", "accepted", "failed"}
    /\ i \in 0 .. count
    /\ id \in [Resources -> 0 .. U32 - 1]
    /\ next \in 1 .. U32 - 1
    /\ finalId \in [Resources -> 0 .. U32 - 1]
    /\ error \in {"none", "invalid id", "duplicate id", "duplicate resource"}

(* No two resources of an accepted manifest have one id, so erf_find_id can *)
(* reach each of them: explicit ids may come after automatic ones in the    *)
(* manifest, and may have been truncated.                                   *)
UniqueFinalIds ==
    pc = "accepted" =>
        \A r, s \in Resources : finalId[r] = finalId[s] => r = s

(* The automatic ids are the least positive numbers that are no explicit    *)
(* id, in manifest order: the n-th resource without an id gets the n-th of  *)
(* them, whatever the order of the resources in between.                    *)
AutoIdsLeast ==
    pc = "accepted" =>
        \A r \in Resources \ Explicit :
            /\ finalId[r] \in 1 .. count
            /\ finalId[r] \notin ExplicitIds
            /\ Cardinality({n \in 1 .. finalId[r] : n \notin ExplicitIds})
                 = Cardinality({s \in 0 .. r : s \notin Explicit})

(* The verdict is that of the manifest as it is written, ids taken modulo   *)
(* 2^32, and the error is the first in the order of the checks.             *)
Malformed == \E r \in Resources : field[r] = BadId
SameId ==
    \E r, s \in Explicit : r # s /\ ToU32(field[r]) = ToU32(field[s])
SameResource == \E r, s \in Resources : r # s /\ key[r] = key[s]
VerdictRight ==
    /\ pc = "accepted" => ~Malformed /\ ~SameId /\ ~SameResource
    /\ error = "invalid id" => Malformed
    /\ error = "duplicate id" => ~Malformed /\ SameId
    /\ error = "duplicate resource" => ~Malformed /\ ~SameId /\ SameResource

(* The parser reaches a verdict: the search for a free id comes to an end.  *)
IdsDecided == <>(pc \in {"accepted", "failed"})

(* tests/unit/test_manifest.c:32 expects of an accepted manifest "explicit  *)
(* id kept": the id in the container is the number in the manifest.         *)
ExplicitIdKept ==
    pc = "accepted" => \A r \in Explicit : finalId[r] = field[r]

=============================================================================
