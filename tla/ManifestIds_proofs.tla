-------------------------- MODULE ManifestIds_proofs --------------------------
(***************************************************************************)
(* Proofs about ManifestIds, for every manifest of fewer than 2^32 - 1     *)
(* resources.  The hard part is that next never wraps: every number below  *)
(* it has gone to a resource of its own, so it stays within the number of  *)
(* resources.                                                              *)
(***************************************************************************)
EXTENDS ManifestIds, Descent, FiniteSetTheorems, TLAPS

(* The resources whose id is known once those below i are assigned. *)
Settled == {r \in Resources : r \in Explicit \/ r < i}
IdOf(r) == IF r \in Explicit THEN id[r] ELSE finalId[r]
SettledIds == {IdOf(r) : r \in Settled}

(* Explicit ids in hand are the written ones as uint32_t. *)
ReadSoFar ==
    pc # "failed" =>
        /\ \A r \in Explicit : (pc = "read" => r < i) => id[r] = ToU32(field[r])
        /\ \A r \in Resources : (pc = "read" => r < i) => field[r] # BadId

(* What assignment keeps: distinct ids, and no gap below next. *)
AssignedSoFar ==
    pc \in {"assign", "accepted"} =>
        /\ \A r, s \in Explicit : id[r] = id[s] => r = s
        /\ \A r \in Resources : r < i =>
              IF r \in Explicit THEN finalId[r] = id[r]
              ELSE finalId[r] \in 1 .. next - 1 /\ finalId[r] \notin ExplicitIds
        /\ \A r, s \in Resources \ Explicit :
              r < i /\ s < i /\ finalId[r] = finalId[s] => r = s
        /\ 1 .. next - 1 \subseteq SettledIds
        /\ pc = "accepted" => i = count

IdsInv == IdsTypeOK /\ ReadSoFar /\ AssignedSoFar /\ VerdictRight

LEMMA Numbers ==
    ASSUME IdsTypeOK
    PROVE  /\ count \in Nat /\ i \in Nat /\ i <= count
           /\ U32 \in Nat /\ count + 1 < U32
           /\ next \in Nat /\ next > 0 /\ next < U32
<1>1. MaxResources \in Nat /\ U32 \in Nat /\ MaxResources + 1 < U32
  BY ManifestIdsAssumption
<1>2. count \in 0 .. MaxResources /\ i \in 0 .. count /\ next \in 1 .. U32 - 1
  BY DEF IdsTypeOK
<1> QED BY <1>1, <1>2

LEMMA ToU32Range == ASSUME NEW v \in Nat PROVE ToU32(v) \in 0 .. U32 - 1
BY ManifestIdsAssumption DEF ToU32

LEMMA ExplicitWritten ==
    ASSUME IdsTypeOK, NEW r \in Explicit
    PROVE  r \in Resources /\ field[r] \in Nat
BY ManifestIdsAssumption DEF Explicit, IdsTypeOK, Resources, NoId, BadId

(* While a resource waits for an id, next is within the number of them. *)
LEMMA NextBounded ==
    ASSUME IdsInv, pc = "assign", i \in Resources \ Explicit
    PROVE  next <= count
<1>1. count \in Nat /\ next \in Nat \ {0} /\ i \in Nat
  BY Numbers DEF IdsInv
<1> DEFINE D == Resources \ {i}
           m == next - 1
           f == [r \in Settled |-> IdOf(r)]
<1>2. Settled \subseteq D
  BY DEF Settled, Resources
<1>3. IsFiniteSet(Resources) /\ Cardinality(Resources) = count
  BY <1>1, FS_Interval DEF Resources
<1>4. IsFiniteSet(D) /\ Cardinality(D) = count - 1
  BY <1>3, FS_RemoveElement
<1>5. IsFiniteSet(Settled) /\ Cardinality(Settled) <= count - 1
  BY <1>2, <1>4, FS_Subset
<1>6. f \in Surjection(Settled, SettledIds)
  BY DEF Surjection, SettledIds
<1>7. IsFiniteSet(SettledIds) /\ Cardinality(SettledIds) <= Cardinality(Settled)
  BY <1>5, <1>6, FS_Surjection
<1>8. 1 .. m \subseteq SettledIds
  BY DEF IdsInv, AssignedSoFar
<1>9. Cardinality(1 .. m) <= Cardinality(SettledIds)
  BY <1>7, <1>8, FS_Subset
<1>10. Cardinality(1 .. m) = m
  <2>1. m \in Int /\ 1 \in Int /\ m >= 0
    BY <1>1
  <2> HIDE DEF m
  <2>2. Cardinality(1 .. m) = IF 1 > m THEN 0 ELSE m - 1 + 1
    BY <2>1, FS_Interval
  <2> QED BY <2>1, <2>2
<1>11. Cardinality(SettledIds) \in Nat /\ Cardinality(Settled) \in Nat
  BY <1>5, <1>7, FS_CardinalityType
<1> QED BY <1>1, <1>5, <1>7, <1>9, <1>10, <1>11

-----------------------------------------------------------------------------
LEMMA InitIdsInv == IdsInit => IdsInv
<1> SUFFICES ASSUME IdsInit PROVE IdsInv
  OBVIOUS
<1>1. IdsTypeOK
  BY ManifestIdsAssumption DEF IdsInit, IdsTypeOK, Resources
<1>2. ReadSoFar
  BY DEF IdsInit, ReadSoFar, Explicit, Resources
<1> QED
  BY <1>1, <1>2 DEF IdsInit, IdsInv, AssignedSoFar, VerdictRight

LEMMA ReadPreserves == ASSUME IdsInv, ReadId PROVE IdsInv'
<1>1. /\ pc = "read" /\ pc' = "read" /\ i \in Resources /\ field[i] # BadId
      /\ i' = i + 1 /\ UNCHANGED <<count, field, key, next, finalId, error>>
      /\ Resources' = Resources /\ Explicit' = Explicit
      /\ count \in Nat
  BY Numbers DEF ReadId, IdsInv, Resources, manifest, Explicit, NoId, BadId
<1>2. field[i] # NoId => i \in Explicit /\ ToU32(field[i]) \in 0 .. U32 - 1
  BY <1>1, ExplicitWritten, ToU32Range DEF Explicit, IdsInv
<1>3. IdsTypeOK'
  <2>1. i' \in 0 .. count
    BY <1>1, Numbers DEF IdsInv, Resources
  <2>2. id' \in [Resources -> 0 .. U32 - 1]
    <3>1. CASE field[i] = NoId
      BY <3>1 DEF ReadId, IdsInv, IdsTypeOK
    <3>2. CASE field[i] # NoId
      BY <1>1, <1>2, <3>2 DEF ReadId, IdsInv, IdsTypeOK
    <3> QED BY <3>1, <3>2
  <2> QED BY <1>1, <2>1, <2>2 DEF IdsInv, IdsTypeOK, NoId, BadId
<1>4. ReadSoFar'
  <2>1. ASSUME NEW r \in Explicit, r < i' PROVE id'[r] = ToU32(field[r])
    <3>1. r \in Resources /\ field[r] # NoId
      BY <2>1 DEF Explicit
    <3>2. CASE r = i
      BY <1>1, <3>1, <3>2 DEF ReadId, IdsInv, IdsTypeOK
    <3>3. CASE r # i
      <4>1. id'[r] = id[r]
        BY <3>1, <3>3 DEF ReadId, IdsInv, IdsTypeOK
      <4>2. r < i
        BY <1>1, <2>1, <3>1, <3>3 DEF Resources
      <4> QED BY <1>1, <2>1, <4>1, <4>2 DEF IdsInv, ReadSoFar
    <3> QED BY <3>2, <3>3
  <2>2. ASSUME NEW r \in Resources, r < i' PROVE field[r] # BadId
    BY <1>1, <2>2 DEF IdsInv, ReadSoFar, Resources
  <2> QED BY <1>1, <2>1, <2>2 DEF ReadSoFar, ToU32, BadId
<1>5. AssignedSoFar'
  BY <1>1 DEF AssignedSoFar
<1>6. VerdictRight'
  BY <1>1 DEF IdsInv, VerdictRight, Malformed, SameId, SameResource, ToU32, BadId
<1> QED BY <1>3, <1>4, <1>5, <1>6 DEF IdsInv

(* The verdicts. *)
LEMMA AllRead ==
    ASSUME IdsInv, pc \in {"read", "assign"}, i = count \/ pc = "assign"
    PROVE  /\ ~Malformed
           /\ \A r \in Explicit : id[r] = ToU32(field[r])
           /\ DuplicateId <=> SameId
<1>1. \A r \in Resources : r < count
  BY Numbers DEF Resources, IdsInv
<1>2. ~Malformed
  BY <1>1 DEF IdsInv, ReadSoFar, Malformed
<1>3. \A r \in Explicit : id[r] = ToU32(field[r])
  BY <1>1 DEF IdsInv, ReadSoFar, Explicit
<1> QED BY <1>2, <1>3 DEF DuplicateId, SameId

LEMMA SameResourceOrdered == IdsTypeOK => (DuplicateResource <=> SameResource)
BY Numbers DEF DuplicateResource, SameResource, Resources

LEMMA FailPreserves ==
    ASSUME IdsInv, pc \in {"read", "assign"}, NEW e, Fail(e),
           \/ e = "invalid id" /\ Malformed
           \/ e = "duplicate id" /\ ~Malformed /\ SameId
           \/ e = "duplicate resource" /\ ~Malformed /\ ~SameId /\ SameResource
    PROVE  IdsInv'
<1>1. /\ pc' = "failed" /\ error' = e
      /\ UNCHANGED <<count, field, key, i, id, next, finalId>>
  BY DEF Fail, manifest
<1>2. IdsTypeOK'
  BY <1>1 DEF IdsInv, IdsTypeOK, Resources, NoId, BadId
<1>3. /\ Malformed' = Malformed /\ SameId' = SameId
      /\ SameResource' = SameResource
  <2>1. Resources' = Resources /\ Explicit' = Explicit
    BY <1>1 DEF Resources, Explicit, NoId, BadId
  <2> QED
    BY <1>1, <2>1 DEF Malformed, SameId, SameResource, ToU32, BadId
<1> QED
  BY <1>1, <1>2, <1>3 DEF IdsInv, ReadSoFar, AssignedSoFar, VerdictRight

LEMMA RefusePreserves ==
    ASSUME IdsInv, ReadBadId \/ RefuseDuplicateId \/ RefuseDuplicateResource
    PROVE  IdsInv'
<1>1. CASE ReadBadId
  <2>0. i < count /\ i \in Nat /\ count \in Nat
    BY <1>1, Numbers DEF ReadBadId, IdsInv
  <2>1. i \in Resources
    BY <2>0 DEF Resources
  <2>2. Malformed
    BY <1>1, <2>1 DEF ReadBadId, Malformed
  <2> QED BY <1>1, <2>2, FailPreserves DEF ReadBadId
<1>2. CASE RefuseDuplicateId
  BY <1>2, AllRead, FailPreserves DEF RefuseDuplicateId
<1>3. CASE RefuseDuplicateResource
  <2>1. ~SameId
    BY <1>3, AllRead
       DEF RefuseDuplicateResource, IdsInv, AssignedSoFar, SameId
  <2> QED BY <1>3, <2>1, AllRead, SameResourceOrdered, FailPreserves
          DEF RefuseDuplicateResource, IdsInv
<1> QED BY <1>1, <1>2, <1>3

(* Steps that leave the manifest and the ids read from it alone keep what   *)
(* is said of them, and VerdictRight as long as there is no verdict.        *)
LEMMA ManifestUnchanged ==
    ASSUME IdsInv, pc \in {"read", "assign"}, pc' \in {"assign", "accepted"},
           pc = "read" => i = count,
           UNCHANGED <<manifest, id, error>>
    PROVE  /\ Resources' = Resources /\ Explicit' = Explicit
           /\ ExplicitIds' = ExplicitIds
           /\ UNCHANGED <<count, field, key, id, error>>
           /\ Malformed' = Malformed /\ SameId' = SameId
           /\ SameResource' = SameResource
           /\ ReadSoFar'
           /\ pc' = "assign" => VerdictRight'
<1>1. /\ UNCHANGED <<count, field, key, id, error>>
      /\ Resources' = Resources /\ Explicit' = Explicit
  BY DEF manifest, Resources, Explicit, NoId, BadId
<1>2. ExplicitIds' = ExplicitIds
  BY <1>1 DEF ExplicitIds
<1>3. /\ Malformed' = Malformed /\ SameId' = SameId
      /\ SameResource' = SameResource
  BY <1>1 DEF Malformed, SameId, SameResource, ToU32, BadId
<1>4. ReadSoFar'
  <2>1. /\ \A r \in Explicit : id[r] = ToU32(field[r])
        /\ \A r \in Resources : field[r] # BadId
    BY AllRead DEF Malformed
  <2> QED BY <1>1, <2>1 DEF ReadSoFar, ToU32, BadId
<1>5. pc' = "assign" => VerdictRight'
  BY <1>1, <1>3 DEF IdsInv, VerdictRight
<1> QED BY <1>1, <1>2, <1>3, <1>4, <1>5

LEMMA StartPreserves == ASSUME IdsInv, StartAssigning PROVE IdsInv'
<1>1. /\ pc = "read" /\ i = count /\ ~DuplicateId
      /\ pc' = "assign" /\ i' = 0 /\ next' = 1
      /\ UNCHANGED <<manifest, id, finalId, error>>
  BY DEF StartAssigning
<1>2. /\ Resources' = Resources /\ Explicit' = Explicit
      /\ UNCHANGED <<count, field, key, id, error>>
      /\ ReadSoFar' /\ VerdictRight'
  BY <1>1, ManifestUnchanged
<1>3. /\ count \in Nat /\ 1 \in 1 .. U32 - 1 /\ 0 \in 0 .. count
      /\ \A r \in Resources : ~(r < 0)
  BY Numbers DEF IdsInv, Resources
<1>4. IdsTypeOK'
  BY <1>1, <1>2, <1>3 DEF IdsInv, IdsTypeOK, NoId, BadId
<1>5. AssignedSoFar'
  <2>1. \A r, s \in Explicit : id[r] = id[s] => r = s
    BY <1>1 DEF DuplicateId
  <2>2. \A r \in Resources : ~(r < i')
    BY <1>1, <1>3
  <2>3. 1 .. next' - 1 = {}
    BY <1>1
  <2> QED BY <1>1, <1>2, <2>1, <2>2, <2>3 DEF AssignedSoFar
<1> QED BY <1>2, <1>4, <1>5 DEF IdsInv

(* An assignment step: what it must establish is about resource i only.     *)
LEMMA AssignPreserves ==
    ASSUME IdsInv, pc = "assign", pc' = "assign", i \in Resources,
           UNCHANGED <<manifest, id, error>>,
           NEW n \in 0 .. U32 - 1,
           finalId' = [finalId EXCEPT ![i] = n], i' = i + 1,
           next' \in 1 .. U32 - 1, next <= next',
           i \in Explicit => n = id[i] /\ next' = next,
           i \notin Explicit => n = next /\ next' = next + 1 /\ ~Taken(n)
    PROVE  IdsInv'
<1>1. /\ Resources' = Resources /\ Explicit' = Explicit
      /\ ExplicitIds' = ExplicitIds
      /\ UNCHANGED <<count, field, key, id, error>>
      /\ ReadSoFar' /\ VerdictRight'
  BY ManifestUnchanged
<1>2. /\ count \in Nat /\ i \in Nat /\ i < count /\ next \in Nat /\ next > 0
      /\ next' \in Nat
  BY Numbers DEF IdsInv, Resources
<1>3. /\ finalId'[i] = n
      /\ \A r \in Resources \ {i} : finalId'[r] = finalId[r]
  BY DEF IdsInv, IdsTypeOK
<1>4. IdsTypeOK'
  <2>1. finalId' \in [Resources -> 0 .. U32 - 1]
    BY DEF IdsInv, IdsTypeOK
  <2>2. i' \in 0 .. count
    BY <1>2
  <2> QED BY <1>1, <2>1, <2>2 DEF IdsInv, IdsTypeOK, NoId, BadId
<1>5. \A r \in Resources : r < i' <=> r < i \/ r = i
  BY <1>2 DEF Resources
<1>6. \A r \in Resources : r < i' =>
         IF r \in Explicit THEN finalId'[r] = id[r]
         ELSE finalId'[r] \in 1 .. next' - 1 /\ finalId'[r] \notin ExplicitIds
  <2> SUFFICES ASSUME NEW r \in Resources, r < i'
               PROVE  IF r \in Explicit THEN finalId'[r] = id[r]
                      ELSE /\ finalId'[r] \in 1 .. next' - 1
                           /\ finalId'[r] \notin ExplicitIds
    OBVIOUS
  <2>1. CASE r = i
    BY <1>2, <1>3, <2>1 DEF Taken
  <2>2. CASE r # i
    <3>1. r < i /\ finalId'[r] = finalId[r]
      BY <1>3, <1>5, <2>2
    <3>2. CASE r \in Explicit
      BY <3>1, <3>2 DEF IdsInv, AssignedSoFar
    <3>3. CASE r \notin Explicit
      <4>1. finalId[r] \in 1 .. next - 1 /\ finalId[r] \notin ExplicitIds
        BY <3>1, <3>3 DEF IdsInv, AssignedSoFar
      <4> QED BY <1>2, <3>1, <3>3, <4>1
    <3> QED BY <3>2, <3>3
  <2> QED BY <2>1, <2>2
<1>7. \A r, s \in Resources \ Explicit :
         r < i' /\ s < i' /\ finalId'[r] = finalId'[s] => r = s
  <2> SUFFICES ASSUME NEW r \in Resources \ Explicit,
                      NEW s \in Resources \ Explicit,
                      r < i', s < i', finalId'[r] = finalId'[s]
               PROVE  r = s
    OBVIOUS
  <2>1. ASSUME NEW x \in Resources \ Explicit, x # i, x < i'
        PROVE  /\ x < i /\ finalId'[x] = finalId[x]
               /\ finalId[x] \in 1 .. next - 1
    BY <1>3, <1>5, <2>1 DEF IdsInv, AssignedSoFar
  <2>2. CASE r # i /\ s # i
    BY <2>1, <2>2 DEF IdsInv, AssignedSoFar
  <2>3. CASE r = i \/ s = i
    <3>1. next \notin 1 .. next - 1
      BY <1>2
    <3> QED BY <1>3, <2>1, <2>3, <3>1
  <2> QED BY <2>2, <2>3
<1>8. 1 .. next' - 1 \subseteq SettledIds'
  <2>1. SettledIds \subseteq SettledIds'
    <3> SUFFICES ASSUME NEW r \in Settled
                 PROVE  r \in Settled' /\ IdOf(r)' = IdOf(r)
      BY DEF SettledIds
    <3>1. r \in Resources /\ (r \in Explicit \/ (r < i /\ r # i))
      BY <1>2 DEF Settled, Resources
    <3> QED BY <1>1, <1>3, <1>5, <3>1 DEF Settled, IdOf
  <2>2. 1 .. next - 1 \subseteq SettledIds
    BY DEF IdsInv, AssignedSoFar
  <2>3. CASE i \in Explicit
    BY <2>1, <2>2, <2>3
  <2>4. CASE i \notin Explicit
    <3>0. PICK j \in Resources : j = i
      OBVIOUS
    <3>1. j \in Settled' /\ IdOf(j)' = next
      BY <1>1, <1>3, <1>5, <2>4, <3>0 DEF Settled, IdOf
    <3>2. next \in SettledIds'
      BY <3>1 DEF SettledIds
    <3>3. 1 .. next' - 1 = (1 .. next - 1) \cup {next}
      BY <1>2, <2>4
    <3> QED BY <2>1, <2>2, <3>2, <3>3
  <2> QED BY <2>3, <2>4
<1>9. AssignedSoFar'
  <2>1. \A r, s \in Explicit : id[r] = id[s] => r = s
    BY DEF IdsInv, AssignedSoFar
  <2>2. \A r, s \in Explicit' : id'[r] = id'[s] => r = s
    BY <1>1, <2>1
  <2>3. \A r \in Resources' : r < i' =>
           IF r \in Explicit' THEN finalId'[r] = id'[r]
           ELSE /\ finalId'[r] \in 1 .. next' - 1
                /\ finalId'[r] \notin ExplicitIds'
    BY <1>1, <1>6
  <2>4. \A r, s \in Resources' \ Explicit' :
           r < i' /\ s < i' /\ finalId'[r] = finalId'[s] => r = s
    BY <1>1, <1>7
  <2> QED BY <1>8, <2>2, <2>3, <2>4 DEF AssignedSoFar
<1> QED BY <1>1, <1>4, <1>9 DEF IdsInv

LEMMA AssignExplicitPreserves == ASSUME IdsInv, AssignExplicit PROVE IdsInv'
<1>1. i \in Explicit /\ i \in Resources /\ id[i] \in 0 .. U32 - 1
  BY DEF AssignExplicit, Explicit, IdsInv, IdsTypeOK
<1>2. next \in 1 .. U32 - 1 /\ next <= next
  BY Numbers DEF IdsInv
<1>3. /\ pc = "assign" /\ pc' = "assign" /\ i' = i + 1 /\ next' = next
      /\ UNCHANGED <<manifest, id, error>>
      /\ finalId' = [finalId EXCEPT ![i] = id[i]]
  BY DEF AssignExplicit
<1>4. PICK n \in 0 .. U32 - 1 : n = id[i]
  BY <1>1
<1> QED BY <1>1, <1>2, <1>3, <1>4, AssignPreserves

LEMMA NextPlusOne ==
    ASSUME IdsInv, pc = "assign", i \in Resources \ Explicit
    PROVE  /\ (next + 1) % U32 = next + 1
           /\ next + 1 \in 1 .. U32 - 1 /\ next <= next + 1
           /\ next \in 0 .. U32 - 1
<1>1. next <= count
  BY NextBounded
<1> QED BY <1>1, Numbers DEF IdsInv

LEMMA AssignNextPreserves == ASSUME IdsInv, AssignNext PROVE IdsInv'
BY NextPlusOne, AssignPreserves DEF AssignNext

LEMMA SkipPreserves == ASSUME IdsInv, SkipTaken PROVE IdsInv'
<1>1. /\ pc = "assign" /\ pc' = "assign" /\ next' = next + 1
      /\ next' \in 1 .. U32 - 1 /\ next \in Nat /\ next > 0
      /\ Taken(next) /\ UNCHANGED <<manifest, i, id, finalId, error>>
  BY NextPlusOne, Numbers DEF SkipTaken, IdsInv
<1>2. /\ Resources' = Resources /\ Explicit' = Explicit
      /\ ExplicitIds' = ExplicitIds
      /\ UNCHANGED <<count, field, key, id, error>>
      /\ ReadSoFar' /\ VerdictRight'
  BY <1>1, ManifestUnchanged
<1>3. IdsTypeOK'
  BY <1>1, <1>2 DEF IdsInv, IdsTypeOK, NoId, BadId
<1>4. SettledIds' = SettledIds
  <2>1. Settled' = Settled /\ \A r : IdOf(r)' = IdOf(r)
    BY <1>1, <1>2 DEF Settled, IdOf
  <2> QED BY <2>1 DEF SettledIds
<1>5. 1 .. next' - 1 \subseteq SettledIds'
  <2>1. next \in SettledIds
    <3>1. PICK r \in Explicit : id[r] = next
      BY <1>1 DEF Taken, ExplicitIds
    <3> QED BY <3>1 DEF SettledIds, Settled, IdOf, Explicit
  <2>2. 1 .. next' - 1 = (1 .. next - 1) \cup {next}
    BY <1>1
  <2>3. 1 .. next - 1 \subseteq SettledIds
    BY <1>1 DEF IdsInv, AssignedSoFar
  <2> QED BY <1>4, <2>1, <2>2, <2>3
<1>6. 1 .. next - 1 \subseteq 1 .. next' - 1
  BY <1>1
<1>7. AssignedSoFar'
  BY <1>1, <1>2, <1>5, <1>6 DEF IdsInv, AssignedSoFar
<1> QED BY <1>2, <1>3, <1>7 DEF IdsInv

LEMMA AcceptPreserves == ASSUME IdsInv, Accept PROVE IdsInv'
<1>1. /\ pc = "assign" /\ pc' = "accepted" /\ i = count /\ ~DuplicateResource
      /\ UNCHANGED <<manifest, i, id, next, finalId, error>>
  BY DEF Accept
<1>2. /\ Resources' = Resources /\ Explicit' = Explicit
      /\ ExplicitIds' = ExplicitIds
      /\ UNCHANGED <<count, field, key, id, error>>
      /\ Malformed' = Malformed /\ SameId' = SameId
      /\ SameResource' = SameResource /\ ReadSoFar'
  BY <1>1, ManifestUnchanged
<1>3. IdsTypeOK'
  BY <1>1, <1>2 DEF IdsInv, IdsTypeOK, NoId, BadId
<1>4. SettledIds' = SettledIds
  <2>1. Settled' = Settled /\ \A r : IdOf(r)' = IdOf(r)
    BY <1>1, <1>2 DEF Settled, IdOf
  <2> QED BY <2>1 DEF SettledIds
<1>5. AssignedSoFar'
  BY <1>1, <1>2, <1>4 DEF IdsInv, AssignedSoFar
<1>6. ~Malformed /\ ~SameId /\ ~SameResource
  BY <1>1, AllRead, SameResourceOrdered DEF IdsInv, AssignedSoFar, SameId
<1>7. VerdictRight'
  BY <1>2, <1>6 DEF IdsInv, VerdictRight
<1> QED BY <1>2, <1>3, <1>5, <1>7 DEF IdsInv

LEMMA IdsStutter == ASSUME IdsInv, UNCHANGED idVars PROVE IdsInv'
<1>1. /\ UNCHANGED <<count, field, key, pc, i, id, next, finalId, error>>
      /\ Resources' = Resources /\ Explicit' = Explicit
      /\ ExplicitIds' = ExplicitIds
  BY DEF idVars, manifest, Resources, Explicit, ExplicitIds, NoId, BadId
<1>2. SettledIds' = SettledIds
  <2>1. Settled' = Settled /\ \A r : IdOf(r)' = IdOf(r)
    BY <1>1 DEF Settled, IdOf
  <2> QED BY <2>1 DEF SettledIds
<1>3. IdsTypeOK'
  BY <1>1 DEF IdsInv, IdsTypeOK, NoId, BadId
<1>4. ReadSoFar'
  BY <1>1 DEF IdsInv, ReadSoFar, ToU32, BadId
<1>5. AssignedSoFar'
  BY <1>1, <1>2 DEF IdsInv, AssignedSoFar
<1>6. VerdictRight'
  <2>1. /\ Malformed' = Malformed /\ SameId' = SameId
        /\ SameResource' = SameResource
    BY <1>1 DEF Malformed, SameId, SameResource, ToU32, BadId
  <2> QED BY <1>1, <2>1 DEF IdsInv, VerdictRight
<1> QED BY <1>3, <1>4, <1>5, <1>6 DEF IdsInv

LEMMA IdsNextPreserves == IdsInv /\ [IdsNext]_idVars => IdsInv'
BY ReadPreserves, RefusePreserves, StartPreserves, AssignExplicitPreserves,
   SkipPreserves, AssignNextPreserves, AcceptPreserves, IdsStutter DEF IdsNext

LEMMA IdsInvUnique == IdsInv => UniqueFinalIds
<1> SUFFICES ASSUME IdsInv, pc = "accepted", NEW r \in Resources,
                    NEW s \in Resources, finalId[r] = finalId[s]
             PROVE  r = s
  BY DEF UniqueFinalIds
<1>1. /\ r < i /\ s < i
  BY Numbers DEF IdsInv, AssignedSoFar, Resources
<1>2. \A x \in Resources : x < i =>
         IF x \in Explicit THEN finalId[x] = id[x] /\ finalId[x] \in ExplicitIds
         ELSE finalId[x] \notin ExplicitIds
  BY DEF IdsInv, AssignedSoFar, ExplicitIds
<1>3. CASE r \in Explicit /\ s \in Explicit
  BY <1>1, <1>2, <1>3 DEF IdsInv, AssignedSoFar
<1>4. CASE r \notin Explicit /\ s \notin Explicit
  BY <1>1, <1>4 DEF IdsInv, AssignedSoFar
<1> QED BY <1>1, <1>2, <1>3, <1>4

THEOREM IdsInvariant == IdsSpec => []IdsInv
BY InitIdsInv, IdsNextPreserves, PTL DEF IdsSpec

(* Ids stay uint32_t values and the search for a free one never wraps.      *)
THEOREM IdsTypes == IdsSpec => []IdsTypeOK
<1>1. IdsInv => IdsTypeOK
  BY DEF IdsInv
<1> QED BY <1>1, IdsInvariant, PTL

(* The resources of an accepted manifest have different ids.                *)
THEOREM IdsUnique == IdsSpec => []UniqueFinalIds
BY IdsInvariant, IdsInvUnique, PTL

(* A manifest is accepted or refused for the reason its text gives.         *)
THEOREM Verdicts == IdsSpec => []VerdictRight
<1>1. IdsInv => VerdictRight
  BY DEF IdsInv
<1> QED BY <1>1, IdsInvariant, PTL

-----------------------------------------------------------------------------
(* The automatic ids are counted out: of the numbers below next as many are *)
(* no explicit id as there are resources below i without one.               *)
FreeUpTo(n) == Cardinality({m \in 1 .. n : m \notin ExplicitIds})
AutosUpTo(r) == Cardinality({s \in 0 .. r : s \notin Explicit})

LeastSoFar ==
    pc \in {"assign", "accepted"} =>
        /\ \A r \in Resources \ Explicit : r < i =>
              finalId[r] \in 1 .. count /\ FreeUpTo(finalId[r]) = AutosUpTo(r)
        /\ FreeUpTo(next - 1) = AutosUpTo(i - 1)

LEMMA CountOneMore ==
    ASSUME NEW E, NEW a \in Int, NEW b \in Int, a <= b
    PROVE  /\ Cardinality({m \in a .. b - 1 : m \notin E}) \in Nat
           /\ Cardinality({m \in a .. b : m \notin E})
                = Cardinality({m \in a .. b - 1 : m \notin E})
                    + (IF b \in E THEN 0 ELSE 1)
<1> DEFINE S == {m \in a .. b - 1 : m \notin E}
           T == {m \in a .. b : m \notin E}
<1>1. IsFiniteSet(a .. b - 1)
  <2>1. b - 1 \in Int
    OBVIOUS
  <2> QED BY <2>1, FS_Interval
<1>2. IsFiniteSet(S)
  <2>1. S \in SUBSET (a .. b - 1)
    OBVIOUS
  <2> QED BY <1>1, <2>1, FS_Subset
<1>3. Cardinality(S) \in Nat
  BY <1>2, FS_CardinalityType
<1>4. b \notin S
  OBVIOUS
<1>5. CASE b \in E
  <2>1. T = S
    BY <1>5
  <2> QED BY <1>3, <1>5, <2>1
<1>6. CASE b \notin E
  <2>1. T = S \cup {b}
    BY <1>6
  <2>2. Cardinality(T) = Cardinality(S) + 1
    <3> HIDE DEF S, T
    <3> QED BY <1>2, <1>4, <2>1, FS_AddElement
  <2> QED BY <1>3, <1>6, <2>2
<1> QED BY <1>5, <1>6

LEMMA StartLeast == ASSUME IdsInv, StartAssigning PROVE LeastSoFar'
<1>1. i' = 0 /\ next' = 1
  BY DEF StartAssigning
<1>2. \A r \in Resources' : ~(r < 0)
  BY DEF Resources
<1>3. FreeUpTo(next - 1)' = 0 /\ AutosUpTo(i - 1)' = 0
  <2>1. 1 .. next' - 1 = {} /\ 0 .. i' - 1 = {}
    BY <1>1
  <2>2. {m \in 1 .. next' - 1 : m \notin ExplicitIds'} = {}
        /\ {s \in 0 .. i' - 1 : s \notin Explicit'} = {}
    BY <2>1
  <2> QED BY <2>2, FS_EmptySet DEF FreeUpTo, AutosUpTo
<1> QED BY <1>1, <1>2, <1>3 DEF LeastSoFar

(* What the counts depend on is settled once assignment has begun. *)
LEMMA SameCounts ==
    ASSUME Explicit' = Explicit, ExplicitIds' = ExplicitIds
    PROVE  \A n : FreeUpTo(n)' = FreeUpTo(n) /\ AutosUpTo(n)' = AutosUpTo(n)
BY DEF FreeUpTo, AutosUpTo

LEMMA AssignLeast ==
    ASSUME IdsInv, LeastSoFar, AssignExplicit \/ AssignNext \/ SkipTaken
    PROVE  LeastSoFar'
<1>1. /\ pc = "assign" /\ pc' = "assign" /\ i \in Resources
      /\ UNCHANGED <<manifest, id, error>>
  BY DEF AssignExplicit, AssignNext, SkipTaken, Explicit
<1>2. /\ Resources' = Resources /\ Explicit' = Explicit
      /\ ExplicitIds' = ExplicitIds /\ count' = count
  BY <1>1, ManifestUnchanged
<1>3. \A n : FreeUpTo(n)' = FreeUpTo(n) /\ AutosUpTo(n)' = AutosUpTo(n)
  BY <1>2, SameCounts
<1>4. count \in Nat /\ i \in Nat /\ next \in Nat /\ next > 0
  BY Numbers DEF IdsInv
<1>5. /\ FreeUpTo(next - 1) \in Nat
      /\ FreeUpTo(next) = FreeUpTo(next - 1) + (IF Taken(next) THEN 0 ELSE 1)
  <2>1. 1 \in Int /\ next \in Int /\ 1 <= next
    BY <1>4
  <2> DEFINE X == ExplicitIds
  <2>2. /\ FreeUpTo(next - 1) = Cardinality({m \in 1 .. next - 1 : m \notin X})
        /\ FreeUpTo(next) = Cardinality({m \in 1 .. next : m \notin X})
        /\ Taken(next) <=> next \in X
    BY DEF FreeUpTo, Taken
  <2> HIDE DEF X
  <2> QED BY <2>1, <2>2, CountOneMore
<1>6. /\ AutosUpTo(i - 1) \in Nat
      /\ AutosUpTo(i) = AutosUpTo(i - 1) + (IF i \in Explicit THEN 0 ELSE 1)
  <2>1. 0 \in Int /\ i \in Int /\ 0 <= i
    BY <1>4
  <2> QED BY <2>1, CountOneMore DEF AutosUpTo
<1>7. FreeUpTo(next - 1) = AutosUpTo(i - 1)
  BY <1>1 DEF LeastSoFar
<1>8. ASSUME NEW n \in Nat, NEW j \in Nat, next' = n, i' = j,
             FreeUpTo(n - 1) = AutosUpTo(j - 1),
             \A r \in Resources \ Explicit : r < j =>
                finalId'[r] \in 1 .. count /\ FreeUpTo(finalId'[r]) = AutosUpTo(r)
      PROVE  LeastSoFar'
  BY <1>1, <1>2, <1>3, <1>8 DEF LeastSoFar
<1>9. CASE AssignExplicit
  <2>1. /\ i \in Explicit /\ next' = next /\ i' = i + 1
        /\ finalId' = [finalId EXCEPT ![i] = id[i]]
    BY <1>9 DEF AssignExplicit
  <2>2. FreeUpTo(next - 1) = AutosUpTo(i + 1 - 1)
    BY <1>4, <1>6, <1>7, <2>1
  <2>3. ASSUME NEW r \in Resources \ Explicit, r < i + 1
        PROVE  r < i /\ finalId'[r] = finalId[r]
    <3>1. r # i /\ r \in Int
      BY <2>1, <2>3 DEF Resources
    <3>2. r < i
      BY <1>4, <2>3, <3>1
    <3>3. finalId'[r] = finalId[r]
      BY <2>1, <2>3, <3>1 DEF IdsInv, IdsTypeOK
    <3> QED BY <3>2, <3>3
  <2>4. i + 1 \in Nat
    BY <1>4
  <2> QED BY <1>1, <1>4, <1>8, <2>1, <2>2, <2>3, <2>4 DEF LeastSoFar
<1>10. CASE SkipTaken
  <2>1. /\ i \in Resources \ Explicit /\ Taken(next) /\ i' = i
        /\ finalId' = finalId /\ next' = next + 1
    BY <1>1, <1>10, NextPlusOne DEF SkipTaken
  <2>2. FreeUpTo(next + 1 - 1) = AutosUpTo(i - 1)
    BY <1>4, <1>5, <1>7, <2>1
  <2>3. next + 1 \in Nat
    BY <1>4
  <2> QED BY <1>1, <1>4, <1>8, <2>1, <2>2, <2>3 DEF LeastSoFar
<1>11. CASE AssignNext
  <2>1. /\ i \in Resources \ Explicit /\ ~Taken(next) /\ i' = i + 1
        /\ finalId' = [finalId EXCEPT ![i] = next] /\ next' = next + 1
        /\ next \in 1 .. count
    <3>1. i \in Resources \ Explicit
      BY <1>11 DEF AssignNext
    <3>2. next <= count
      BY <1>1, <3>1, NextBounded
    <3>3. next' = next + 1
      BY <1>11, NextPlusOne DEF AssignNext
    <3> QED BY <1>4, <1>11, <3>2, <3>3 DEF AssignNext
  <2>2. FreeUpTo(next) = AutosUpTo(i)
    BY <1>5, <1>6, <1>7, <2>1
  <2>4. ASSUME NEW r \in Resources \ Explicit, r < i + 1
        PROVE  /\ finalId'[r] \in 1 .. count
               /\ FreeUpTo(finalId'[r]) = AutosUpTo(r)
    <3>1. CASE r = i
      <4>1. finalId'[i] = next
        BY <1>1, <2>1 DEF IdsInv, IdsTypeOK
      <4> QED BY <2>1, <2>2, <3>1, <4>1
    <3>2. CASE r # i
      <4>1. r \in Int
        BY <2>4 DEF Resources
      <4>2. r < i
        BY <1>4, <2>4, <3>2, <4>1
      <4>3. finalId'[r] = finalId[r]
        BY <2>1, <2>4, <3>2 DEF IdsInv, IdsTypeOK
      <4> QED BY <1>1, <2>4, <4>2, <4>3 DEF LeastSoFar
    <3> QED BY <3>1, <3>2
  <2>5. i + 1 \in Nat /\ next + 1 \in Nat
    BY <1>4
  <2>6. PICK n \in Nat, j \in Nat : n = next + 1 /\ j = i + 1
    BY <2>5
  <2>7. next' = n /\ i' = j /\ FreeUpTo(n - 1) = AutosUpTo(j - 1)
    <3>1. n - 1 = next /\ j - 1 = i
      BY <1>4, <2>6
    <3> QED BY <2>1, <2>2, <2>6, <3>1
  <2>8. \A r \in Resources \ Explicit : r < j =>
           finalId'[r] \in 1 .. count /\ FreeUpTo(finalId'[r]) = AutosUpTo(r)
    BY <2>4, <2>6
  <2> QED BY <1>8, <2>7, <2>8
<1> QED BY <1>9, <1>10, <1>11

LEMMA LeastStep ==
    ASSUME IdsInv, LeastSoFar, [IdsNext]_idVars
    PROVE  LeastSoFar'
<1>1. CASE ReadId \/ ReadBadId \/ RefuseDuplicateId \/ RefuseDuplicateResource
  BY <1>1 DEF ReadId, ReadBadId, RefuseDuplicateId, RefuseDuplicateResource, Fail,
              LeastSoFar
<1>2. CASE StartAssigning
  BY <1>2, StartLeast
<1>3. CASE AssignExplicit \/ AssignNext \/ SkipTaken
  BY <1>3, AssignLeast
<1>4. CASE Accept \/ UNCHANGED idVars
  <2>1. /\ pc' \in {"assign", "accepted"} => pc \in {"assign", "accepted"}
        /\ UNCHANGED <<count, field, key, i, id, next, finalId>>
    BY <1>4 DEF Accept, idVars, manifest
  <2>2. /\ Resources' = Resources /\ Explicit' = Explicit
        /\ ExplicitIds' = ExplicitIds
    BY <2>1 DEF Resources, Explicit, ExplicitIds, NoId, BadId
  <2>3. \A n : FreeUpTo(n)' = FreeUpTo(n) /\ AutosUpTo(n)' = AutosUpTo(n)
    BY <2>2, SameCounts
  <2> QED BY <2>1, <2>2, <2>3 DEF LeastSoFar, FreeUpTo, AutosUpTo
<1> QED BY <1>1, <1>2, <1>3, <1>4 DEF IdsNext

(* The resources of any accepted manifest that have no id of their own get  *)
(* the least ones that are free, in manifest order.                         *)
THEOREM AutomaticIdsLeast == IdsSpec => []AutoIdsLeast
<1>1. IdsInit => LeastSoFar
  BY DEF IdsInit, LeastSoFar
<1>2. IdsInv /\ LeastSoFar /\ [IdsNext]_idVars => LeastSoFar'
  BY LeastStep
<1>3. IdsInv /\ LeastSoFar => AutoIdsLeast
  <2> SUFFICES ASSUME IdsInv, LeastSoFar, pc = "accepted",
                      NEW r \in Resources \ Explicit
               PROVE  /\ finalId[r] \in 1 .. count
                      /\ finalId[r] \notin ExplicitIds
                      /\ FreeUpTo(finalId[r]) = AutosUpTo(r)
    BY DEF AutoIdsLeast, FreeUpTo, AutosUpTo
  <2>1. r < i
    BY Numbers DEF IdsInv, AssignedSoFar, Resources
  <2> QED BY <2>1 DEF IdsInv, AssignedSoFar, LeastSoFar
<1> QED BY <1>1, <1>2, <1>3, IdsInvariant, PTL DEF IdsSpec

-----------------------------------------------------------------------------
(* How much is left of reading and assigning ids: the loops, the resources  *)
(* of the loop at hand, the numbers bsearch may still find taken.           *)
LeftToDo ==
    <<CASE pc = "read" -> 2 [] pc = "assign" -> 1 [] OTHER -> 0,
      count - i,
      U32 - next>>

LEMMA StepLeavesLess == IdsInv /\ IdsNext => Less(LeftToDo', LeftToDo)
<1> SUFFICES ASSUME IdsInv, IdsNext PROVE Less(LeftToDo', LeftToDo)
  OBVIOUS
<1>1. /\ count \in Nat /\ i \in Nat /\ next \in Nat /\ U32 \in Nat
  BY Numbers DEF IdsInv
<1>2. CASE ReadId \/ AssignExplicit \/ AssignNext
  <2>1. pc' = pc /\ count' = count /\ i' = i + 1
    BY <1>2 DEF ReadId, AssignExplicit, AssignNext, manifest
  <2>2. count' - i' < count - i
    BY <1>1, <2>1
  <2> QED BY <2>1, <2>2 DEF LeftToDo, Less
<1>3. CASE SkipTaken
  <2>1. pc' = pc /\ count' = count /\ i' = i /\ next' = next + 1
    <3>1. pc = "assign" /\ i \in Resources \ Explicit
      BY <1>3 DEF SkipTaken
    <3> QED BY <1>3, <3>1, NextPlusOne DEF SkipTaken, manifest
  <2>2. U32 - next' < U32 - next
    BY <1>1, <2>1
  <2> QED BY <2>1, <2>2 DEF LeftToDo, Less
<1>4. CASE \/ ReadBadId \/ RefuseDuplicateId \/ StartAssigning
            \/ RefuseDuplicateResource \/ Accept
  <2>1. \/ pc = "read" /\ pc' \in {"assign", "failed"}
        \/ pc = "assign" /\ pc' \in {"accepted", "failed"}
    BY <1>4 DEF ReadBadId, RefuseDuplicateId, StartAssigning,
                RefuseDuplicateResource, Accept, Fail
  <2>2. LeftToDo'[1] < LeftToDo[1]
    BY <2>1 DEF LeftToDo
  <2> QED BY <2>2 DEF Less
<1> QED BY <1>2, <1>3, <1>4 DEF IdsNext

(* Every step of reading and assigning ids leaves less to do, although the  *)
(* loop that skips ids already taken has no bound of its own.               *)
THEOREM IdsDescend ==
    IdsSpec => /\ [](LeftToDo \in Triples)
               /\ [][Less(LeftToDo', LeftToDo)]_idVars
<1>1. IdsInv => LeftToDo \in Triples
  <2> SUFFICES ASSUME IdsInv PROVE LeftToDo \in Triples
    OBVIOUS
  <2>1. count - i \in Nat /\ U32 - next \in Nat
    BY Numbers DEF IdsInv
  <2> QED BY <2>1 DEF LeftToDo, Triples
<1>2. IdsInv /\ [IdsNext]_idVars => [Less(LeftToDo', LeftToDo)]_idVars
  BY StepLeavesLess
<1> QED BY <1>1, <1>2, IdsInvariant, PTL DEF IdsSpec

=============================================================================
