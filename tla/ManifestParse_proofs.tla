-------------------------- MODULE ManifestParse_proofs --------------------------
(***************************************************************************)
(* Proofs about ManifestParse, for any manifests with any number of        *)
(* resources, fields and metadata pairs.  Three things are kept at every   *)
(* step of the parser: whose blocks the heap holds, what the error says of *)
(* the manifest, and that without an error everything read so far is       *)
(* without a fault and stored.                                             *)
(***************************************************************************)
EXTENDS ManifestParse, Descent, TLAPS

Succ == [node |-> "name", name |-> "file", file |-> "type", type |-> "id",
         id |-> "language", language |-> "compression",
         compression |-> "encryption", encryption |-> "metadata",
         metadata |-> "flags", flags |-> "turn"]

Looping == {"turn"} \cup ReadFields

(* How many resources have been pushed, by where the parser is. *)
Counted ==
    /\ pc \in TopFields \cup {"defaults"} => i = 0 /\ error = NoError
    /\ pc = "node" => count = i - 1 /\ error = NoError
    /\ pc \in ReadFields \ {"node"} => count = i
    /\ pc \in {"validate", "accepted"} => error = NoError
    /\ error = NoError =>
          /\ pc \in {"turn", "validate", "done", "accepted"} => count = i
          /\ pc \in {"validate", "done", "accepted"} => i = Len(doc.resources)

(* What has not been reached is as calloc left it.  *)
Untouched ==
    /\ pc \in {"document", "root", "version"} => module = NULL
    /\ pc # "failed" =>
          \A r \in Listed : r > count => resources[r] = Blank /\ codes[r] = Zero /\ pairs[r] = 0
    /\ pc \in {"node", "name"} => resources[i]["name"] = NULL
    /\ pc \in {"node", "name", "file"} => resources[i]["file"] = NULL

DefaultsRead ==
    pc \in {"list"} \cup Looping =>
        defaults = [f \in DefaultFields |-> DefaultOf(f)]

(* The blocks in use: those of the scaffolding, of the defaults while they  *)
(* are needed, and what elfrc_manifest_free would find.                     *)
DefaultsHeld ==
    IF pc \in {"list"} \cup Looping
    THEN UNION {Copy(DefaultOf(f), <<f, 0, 0>>) : f \in DefaultFields}
    ELSE {}
Working == {"root", "version", "defaults", "list", "validate", "done"} \cup Looping
HeapExact ==
    /\ pc = "document" => heap = {}
    /\ pc \in Working => heap = Frame \cup DefaultsHeld \cup ManifestBlocks

(* What the error says is so. *)
AllClean == \A r \in Listed, f \in ReadFields : ~Faulty(r, f)
ErrorTrue(e) ==
    /\ e[2] \in TopFields => TopFault(e[2])
    /\ e[2] \in ReadFields =>
          e[1] \in Listed /\ Faulty(e[1], e[2]) /\ CleanBefore(e[1], e[2])
    /\ e[2] \in {"ids", "duplicate"} => AllClean
    /\ e[2] = "ids" => \E r, s \in Listed : r < s /\ SameId(r, s)
    /\ e[2] = "duplicate" =>
          e[1] \in Listed /\ \E r \in Listed : r < e[1] /\ SameName(r, e[1])
ErrorRight == ErrorTrue(error)

(* A field that was read holds no fault, and its value is stored.  *)
Applied(r, f) ==
    CASE f = "metadata" -> pairs[r] = Len(doc.resources[r].metadata)
      [] f \in TextFields -> resources[r][f] = Given(r, f)
      [] OTHER -> \A c \in CodeFields : SourceOf(c) = f => codes[r][c] = Coded(r, c)
Settled(r, f) == ~Faulty(r, f) /\ Applied(r, f)

Finished == {"turn", "validate", "done", "accepted"}
SettledSoFar ==
    error = NoError =>
        /\ \A r \in 1 .. i - 1, g \in ReadFields : Settled(r, g)
        /\ pc \in ReadFields =>
              \A g \in ReadFields : Order[g] < Order[pc] => Settled(i, g)
        /\ pc \in Finished /\ i > 0 => \A g \in ReadFields : Settled(i, g)

PairsWanted ==
    \A r \in Listed : \A j \in 1 .. pairs[r] :
        ~Unwanted(doc.resources[r].metadata, j)

(* No error is left after the ids were compared only if none repeats. *)
DistinctAccepted ==
    pc \in {"done", "accepted"} /\ error = NoError => AllDistinct

ParseInv ==
    /\ ParseTypeOK
    /\ Counted
    /\ Untouched
    /\ DefaultsRead
    /\ HeapExact
    /\ ErrorRight
    /\ SettledSoFar
    /\ PairsWanted
    /\ NothingLeft
    /\ DistinctAccepted

-----------------------------------------------------------------------------
(* The document: what its fields are, and that nothing about it changes.    *)
LEMMA DocumentParts ==
    ASSUME doc \in Document
    PROVE  /\ Len(doc.resources) \in Nat
           /\ doc.module \in Texts /\ doc.defaults \in [DefaultFields -> Texts]
           /\ \A r \in Listed :
                 /\ doc.resources[r].scalars \in [Fields -> Texts]
                 /\ Len(doc.resources[r].metadata) \in Nat
<1> DEFINE R == [scalars : [Fields -> Texts], metadata : Seq(Texts)]
<1>1. /\ doc.module \in Texts /\ doc.defaults \in [DefaultFields -> Texts]
      /\ doc.resources \in Seq(R)
  BY DEF Document
<1>2. \A x \in R : /\ x.scalars \in [Fields -> Texts]
                   /\ Len(x.metadata) \in Nat
  OBVIOUS
<1> HIDE DEF R
<1>3. Len(doc.resources) \in Nat /\ \A r \in Listed : doc.resources[r] \in R
  BY <1>1 DEF Listed
<1> QED
  BY <1>1, <1>2, <1>3

LEMMA SameDocument ==
    ASSUME doc' = doc
    PROVE  /\ Listed' = Listed
           /\ \A r, f : Given(r, f)' = Given(r, f)
           /\ \A r, f : Faulty(r, f)' <=> Faulty(r, f)
           /\ \A f : DefaultOf(f)' = DefaultOf(f)
           /\ \A f : TopFault(f)' <=> TopFault(f)
           /\ \A r, c : Coded(r, c)' = Coded(r, c)
           /\ \A r, s : SameId(r, s)' <=> SameId(r, s)
           /\ \A r, s : SameName(r, s)' <=> SameName(r, s)
           /\ AllDistinct' <=> AllDistinct
<1>1. Listed' = Listed
  BY DEF Listed
<1>2. \A f : DefaultOf(f)' = DefaultOf(f)
  BY DEF DefaultOf, ScalarDup, BuiltIn
<1>3. \A r, f : Given(r, f)' = Given(r, f)
  BY <1>2 DEF Given, ScalarDup
<1>4. \A r, f : Faulty(r, f)' <=> Faulty(r, f)
  BY <1>3 DEF Faulty, Unwanted, Refused
<1>5. \A f : TopFault(f)' <=> TopFault(f)
  BY DEF TopFault
<1>6. \A r, c : Coded(r, c)' = Coded(r, c)
  BY <1>3 DEF Coded
<1>7. \A r, s : (SameId(r, s)' <=> SameId(r, s)) /\ (SameName(r, s)' <=> SameName(r, s))
  BY <1>3, <1>6 DEF SameId, SameName
<1>8. AllDistinct' <=> AllDistinct
  BY <1>1, <1>7 DEF AllDistinct
<1> QED
  BY <1>1, <1>2, <1>3, <1>4, <1>5, <1>6, <1>7, <1>8

LEMMA SameErrorTrue ==
    ASSUME doc' = doc, NEW e, ErrorTrue(e)
    PROVE  ErrorTrue(e)'
BY SameDocument DEF ErrorTrue, CleanBefore, AllClean

LEMMA DefaultHeld ==
    ASSUME doc \in Document, NEW f \in DefaultFields
    PROVE  DefaultOf(f) \in Held
<1>1. doc.defaults[f] \in Texts
  BY DocumentParts
<1>2. BuiltIn[f] \in {"neutral", "none"}
  BY DEF BuiltIn, DefaultFields
<1> QED
  BY <1>1, <1>2, ManifestParseAssumption DEF DefaultOf, ScalarDup, Held

LEMMA CodeRange ==
    ASSUME NEW c \in CodeFields, NEW v \in Held, NEW file \in Held
    PROVE  Code(c, v, file) \in 0 .. U32 - 1
<1>1. \A n \in Nat : ToU32(n) \in 0 .. U32 - 1
  BY ManifestParseAssumption DEF ToU32
<1>2. \A n \in Numbered, w \in Held : ToU32(Number[n][w]) \in 0 .. U32 - 1
  BY <1>1, ManifestParseAssumption
<1>3. 0 \in 0 .. U32 - 1 /\ 1 \in 0 .. U32 - 1
  BY ManifestParseAssumption
<1>4. CASE c = "explicit" \/ c = "compression"
  BY <1>3, <1>4 DEF Code
<1>5. CASE c \in {"type", "id", "language", "flags"}
  <2>1. c \in Numbered /\ "extension" \in Numbered
    BY <1>5 DEF Numbered
  <2> HIDE DEF ToU32
  <2>2. ToU32(Number[c][v]) \in 0 .. U32 - 1
        /\ ToU32(Number["extension"][file]) \in 0 .. U32 - 1
    BY <1>2, <2>1
  <2> QED
    BY <1>3, <1>5, <2>2 DEF Code
<1> QED
  BY <1>4, <1>5 DEF CodeFields

(* The fields in their order. *)
LEMMA Ordered ==
    /\ \A f \in ReadFields : Order[f] \in Nat
    /\ \A f \in ReadFields : Order["node"] <= Order[f]
    /\ \A f \in ReadFields \ {"flags"} :
          /\ Succ[f] \in ReadFields
          /\ \A g \in ReadFields :
                Order[g] < Order[Succ[f]] => g = f \/ Order[g] < Order[f]
    /\ Succ["flags"] = "turn"
    /\ \A g \in ReadFields : g = "flags" \/ Order[g] < Order["flags"]
<1> USE DEF ReadFields, Fields, Order, Succ
<1>1. \A f \in ReadFields : Order[f] \in Nat
  OBVIOUS
<1>2. \A f \in ReadFields : Order["node"] <= Order[f]
  OBVIOUS
<1>3. \A f \in ReadFields \ {"flags"} : Succ[f] \in ReadFields
  OBVIOUS
<1>4. \A f \in ReadFields \ {"flags"} : Order[Succ[f]] = Order[f] + 1
  OBVIOUS
<1>5. \A f, g \in ReadFields : Order[f] = Order[g] => f = g
  OBVIOUS
<1>6. ASSUME NEW f \in ReadFields \ {"flags"}, NEW g \in ReadFields,
             Order[g] < Order[Succ[f]]
      PROVE  g = f \/ Order[g] < Order[f]
  <2> HIDE DEF ReadFields, Fields, Order, Succ
  <2> QED
    BY <1>1, <1>4, <1>5, <1>6
<1>7. Succ["flags"] = "turn"
  OBVIOUS
<1>8. \A g \in ReadFields : g = "flags" \/ Order[g] < Order["flags"]
  OBVIOUS
<1> HIDE DEF ReadFields, Fields, Order, Succ
<1> QED
  BY <1>1, <1>2, <1>3, <1>6, <1>7, <1>8

(* What the code sees in a field is what the manifest means by it. *)
LEMMA ValueGiven ==
    ASSUME ParseInv, pc \in ReadFields, NEW f \in Fields
    PROVE  /\ i \in Listed /\ Value(f) = Given(i, f) /\ Value(f) \in Held
           /\ Faulty(i, f) <=> Value(f) \in Refused[f]
<1>1. i \in Listed /\ doc \in Document
  BY DocumentParts DEF ParseInv, ParseTypeOK, Listed
<1>2. defaults = [g \in DefaultFields |-> DefaultOf(g)]
  BY DEF ParseInv, DefaultsRead, Looping
<1>3. Value(f) = Given(i, f)
  BY <1>2 DEF Value, Given, Node
<1>4. Node[f] \in Texts
  BY <1>1, DocumentParts DEF Node
<1>5. f # "metadata"
  BY DEF Fields
<1>6. Value(f) \in Held
  BY <1>1, <1>2, <1>4, DefaultHeld DEF Value, ScalarDup, Held
<1> QED
  BY <1>1, <1>3, <1>5, <1>6 DEF Faulty

-----------------------------------------------------------------------------
(* Blocks of memory: what is in ManifestBlocks, one kind at a time; and     *)
(* the same of the next state.                                              *)
LEMMA OneString ==
    \A R, res, f, b :
        b \in UNION {Copy(res[r][f], <<f, r, 0>>) : r \in R}
            <=> \E r \in R : res[r][f] # NULL /\ b = <<f, r, 0>>
BY DEF Copy

LEMMA OnePair ==
    \A R, prs, b :
        b \in UNION {{<<"pair", r, j>> : j \in 1 .. prs[r]} : r \in R}
            <=> \E r \in R : \E j \in 1 .. prs[r] : b = <<"pair", r, j>>
OBVIOUS

LEMMA Blocks ==
    \A b : b \in ManifestBlocks <=>
        \/ module # NULL /\ b = <<"module", 0, 0>>
        \/ count # 0 /\ b = <<"array", 0, 0>>
        \/ \E f \in {"name", "file"}, r \in Read :
              resources[r][f] # NULL /\ b = <<f, r, 0>>
        \/ \E r \in Read : \E j \in 1 .. pairs[r] : b = <<"pair", r, j>>
BY OneString, OnePair DEF ManifestBlocks, Copy

LEMMA BlocksNext ==
    \A b : b \in ManifestBlocks' <=>
        \/ module' # NULL /\ b = <<"module", 0, 0>>
        \/ count' # 0 /\ b = <<"array", 0, 0>>
        \/ \E f \in {"name", "file"}, r \in Read' :
              resources'[r][f] # NULL /\ b = <<f, r, 0>>
        \/ \E r \in Read' : \E j \in 1 .. pairs'[r] : b = <<"pair", r, j>>
BY OneString, OnePair DEF ManifestBlocks, Copy

LEMMA BlocksApart ==
    /\ Frame \cap ManifestBlocks = {}
    /\ DefaultBlocks \cap ManifestBlocks = {}
    /\ Frame \cap DefaultBlocks = {}
    /\ DefaultsHeld \subseteq DefaultBlocks
<1>1. \A b \in Frame : b[1] \in {"document", "directory"}
  BY DEF Frame
<1>2. \A b \in DefaultBlocks : b[1] \in {"language", "compression", "encryption"}
  BY DEF DefaultBlocks, DefaultFields
<1>3. \A b \in ManifestBlocks : b[1] \in {"module", "array", "name", "file", "pair"}
  BY Blocks
<1>4. DefaultsHeld \subseteq DefaultBlocks
  BY DEF DefaultsHeld, DefaultBlocks, Copy
<1> QED
  BY <1>1, <1>2, <1>3, <1>4

LEMMA SameBlocks ==
    ASSUME UNCHANGED <<module, count, pairs>>,
           \A r \in Read, f \in {"name", "file"} : resources'[r][f] = resources[r][f]
    PROVE  ManifestBlocks' = ManifestBlocks
BY DEF ManifestBlocks, Read, Copy

-----------------------------------------------------------------------------
LEMMA InitParse == ParseInit => ParseInv
<1> SUFFICES ASSUME ParseInit PROVE ParseInv
  OBVIOUS
<1>1. doc \in Document /\ pc = "document" /\ i = 0 /\ count = 0 /\ heap = {}
      /\ error = NoError /\ module = NULL
  BY ManifestParseAssumption DEF ParseInit
<1>2. /\ resources = [r \in Listed |-> Blank] /\ pairs = [r \in Listed |-> 0]
      /\ codes = [r \in Listed |-> Zero]
      /\ defaults = [f \in DefaultFields |-> NULL]
  BY DEF ParseInit
<1>3. /\ NULL \in Held /\ Blank \in [TextFields -> Held]
      /\ Zero \in [CodeFields -> 0 .. U32 - 1]
  BY ManifestParseAssumption DEF Held, Blank, Zero
<1>4. ParseTypeOK
  <2>1. pc \in TopFields /\ pc \notin ReadFields
    BY <1>1 DEF TopFields, ReadFields, Fields
  <2>2. Len(doc.resources) \in Nat
        /\ \A r \in Listed : Len(doc.resources[r].metadata) \in Nat
    BY <1>1, DocumentParts
  <2>3. defaults \in [DefaultFields -> Held] /\ module \in Held
        /\ resources \in [Listed -> [TextFields -> Held]]
        /\ codes \in [Listed -> [CodeFields -> 0 .. U32 - 1]]
        /\ pairs \in [Listed -> Nat]
        /\ \A r \in Listed : pairs[r] <= Len(doc.resources[r].metadata)
    BY <1>1, <1>2, <1>3, <2>2
  <2> QED
    BY <1>1, <2>1, <2>2, <2>3 DEF ParseTypeOK
<1>5. Counted /\ Untouched /\ DefaultsRead /\ HeapExact
  BY <1>1, <1>2 DEF Counted, Untouched, DefaultsRead, HeapExact, TopFields,
     ReadFields, Fields, Looping, Working
<1>6. ErrorRight
  BY <1>1 DEF ErrorRight, ErrorTrue, NoError, TopFields, ReadFields, Fields
<1>7. SettledSoFar
  BY <1>1 DEF SettledSoFar, ReadFields, Fields, Finished
<1>8. PairsWanted
  BY <1>2 DEF PairsWanted
<1>9. NothingLeft /\ DistinctAccepted
  BY <1>1 DEF NothingLeft, DistinctAccepted
<1> QED
  BY <1>4, <1>5, <1>6, <1>7, <1>8, <1>9 DEF ParseInv

(* The steps above the list of resources, where no resource has been read.  *)
Above == {"root", "version", "defaults", "list", "turn"}
LEMMA TopStep ==
    ASSUME ParseInv, pc \in TopFields \cup {"defaults"},
           UNCHANGED <<doc, i, count, resources, codes, pairs>>,
           pc' \in Above \cup {"done", "failed"},
           module' \in Held, defaults' \in [DefaultFields -> Held],
           pc' \in {"root", "version"} => module' = NULL,
           pc' \in {"list", "turn"} =>
               defaults' = [f \in DefaultFields |-> DefaultOf(f)],
           pc' \in Above => error' = NoError,
           pc' = "done" => error' # NoError,
           ErrorTrue(error'),
           pc' # "failed" =>
               heap' = Frame \cup DefaultsHeld' \cup ManifestBlocks',
           pc' = "failed" => heap' = {} /\ module' = NULL
    PROVE  ParseInv'
<1> USE DEF Above
<1>1. i = 0 /\ count = 0 /\ doc \in Document /\ Listed' = Listed
  BY SameDocument DEF ParseInv, Counted, ParseTypeOK
<1>2. pc' \notin ReadFields \cup {"document", "accepted"}
  BY DEF ReadFields, Fields
<1>3. ParseTypeOK'
  BY <1>1, <1>2 DEF ParseInv, ParseTypeOK, TopFields
<1>4. Counted'
  BY <1>1, <1>2 DEF Counted, TopFields, ReadFields, Fields
<1>5. Untouched'
  <2>1. \A r \in Listed : r > count => resources[r] = Blank /\ codes[r] = Zero /\ pairs[r] = 0
    BY DEF ParseInv, Untouched, TopFields
  <2> QED
    BY <1>1, <1>2, <2>1 DEF Untouched, ReadFields, Fields, Blank
<1>6. DefaultsRead'
  BY <1>2, SameDocument DEF DefaultsRead, Looping
<1>7. HeapExact'
  BY <1>2 DEF HeapExact, Working, Looping, ReadFields, Fields
<1>8. ErrorRight'
  BY SameErrorTrue DEF ErrorRight
<1>9. SettledSoFar'
  BY <1>1, <1>2 DEF SettledSoFar
<1>10. PairsWanted'
  BY <1>1, SameDocument DEF ParseInv, PairsWanted, Unwanted
<1>11. NothingLeft' /\ DistinctAccepted'
  BY <1>1, <1>2 DEF NothingLeft, DistinctAccepted
<1> QED
  BY <1>3, <1>4, <1>5, <1>6, <1>7, <1>8, <1>9, <1>10, <1>11 DEF ParseInv

LEMMA NoFault == ErrorTrue(NoError)
BY DEF ErrorTrue, NoError, TopFields, ReadFields, Fields

LEMMA TopFaultTrue ==
    ASSUME NEW f \in TopFields, TopFault(f)
    PROVE  ErrorTrue(<<0, f>>) /\ <<0, f>> # NoError
BY DEF ErrorTrue, NoError, TopFields, ReadFields, Fields

LEMMA CannotLoadStep == ParseInv /\ CannotLoad => ParseInv'
<1> SUFFICES ASSUME ParseInv, CannotLoad PROVE ParseInv'
  OBVIOUS
<1> USE DEF CannotLoad, out
<1>1. TopFault("document")
  BY DEF TopFault
<1>2. ErrorTrue(error')
  BY <1>1, TopFaultTrue DEF TopFields
<1>3. heap = {} /\ module = NULL
  BY DEF ParseInv, HeapExact, Untouched
<1>4. module' \in Held /\ defaults' \in [DefaultFields -> Held]
  BY DEF ParseInv, ParseTypeOK
<1> QED
  BY <1>2, <1>3, <1>4, TopStep DEF TopFields, Above

LEMMA LoadStep == ParseInv /\ Load => ParseInv'
<1> SUFFICES ASSUME ParseInv, Load PROVE ParseInv'
  OBVIOUS
<1> USE DEF Load, out
<1>1. module = NULL /\ count = 0 /\ error = NoError
  BY DEF ParseInv, Untouched, Counted, TopFields, ParseTypeOK
<1>2. ManifestBlocks' = {} /\ DefaultsHeld' = {}
  <2>1. Read' = {}
    BY <1>1 DEF Read
  <2>2. ManifestBlocks' = {}
    BY <1>1, <2>1 DEF ManifestBlocks, Copy
  <2>3. DefaultsHeld' = {}
    BY DEF DefaultsHeld, Looping, ReadFields, Fields
  <2> QED
    BY <2>2, <2>3
<1>3. module' \in Held /\ defaults' \in [DefaultFields -> Held]
  BY DEF ParseInv, ParseTypeOK
<1>4. ErrorTrue(error')
  BY <1>1, NoFault
<1> QED
  BY <1>1, <1>2, <1>3, <1>4, TopStep DEF TopFields, Above

(* A step that allocates and frees nothing.  *)
LEMMA SameHeap ==
    ASSUME ParseInv, UNCHANGED <<doc, heap, module, count, pairs>>,
           \A r \in Read, f \in {"name", "file"} : resources'[r][f] = resources[r][f],
           pc \in Working, pc' \in Working,
           pc \in {"list"} \cup Looping <=> pc' \in {"list"} \cup Looping
    PROVE  heap' = Frame \cup DefaultsHeld' \cup ManifestBlocks'
<1>1. ManifestBlocks' = ManifestBlocks
  BY SameBlocks
<1>2. DefaultsHeld' = DefaultsHeld
  BY SameDocument DEF DefaultsHeld, Copy
<1> QED
  BY <1>1, <1>2 DEF ParseInv, HeapExact

LEMMA RefuseTopStep == ParseInv /\ RefuseTop => ParseInv'
<1> SUFFICES ASSUME ParseInv, RefuseTop PROVE ParseInv'
  OBVIOUS
<1> USE DEF RefuseTop, out
<1>1. error = NoError /\ pc \in TopFields
  BY DEF ParseInv, Counted, TopFields
<1>2. ErrorTrue(error') /\ error' # NoError
  BY <1>1, TopFaultTrue DEF SetError
<1>3. module' \in Held /\ defaults' \in [DefaultFields -> Held]
  BY DEF ParseInv, ParseTypeOK
<1>4. heap' = Frame \cup DefaultsHeld' \cup ManifestBlocks'
  BY SameHeap DEF Working, Looping, ReadFields, Fields
<1> QED
  BY <1>1, <1>2, <1>3, <1>4, TopStep DEF Above

LEMMA TakeTopStep == ParseInv /\ (TakeRoot \/ TakeList) => ParseInv'
<1> SUFFICES ASSUME ParseInv, TakeRoot \/ TakeList PROVE ParseInv'
  OBVIOUS
<1> USE DEF TakeRoot, TakeList, out
<1>1. error = NoError /\ pc \in TopFields
  BY DEF ParseInv, Counted, TopFields
<1>2. module' \in Held /\ defaults' \in [DefaultFields -> Held]
  BY DEF ParseInv, ParseTypeOK
<1>3. heap' = Frame \cup DefaultsHeld' \cup ManifestBlocks'
  BY SameHeap DEF Working, Looping, ReadFields, Fields
<1>4. /\ pc = "root" => module = NULL
      /\ pc = "list" => defaults = [f \in DefaultFields |-> DefaultOf(f)]
  BY DEF ParseInv, Untouched, DefaultsRead
<1>5. ErrorTrue(error')
  BY <1>1, NoFault
<1> QED
  BY <1>1, <1>2, <1>3, <1>4, <1>5, TopStep DEF Above

LEMMA TakeVersionStep == ParseInv /\ TakeVersion => ParseInv'
<1> SUFFICES ASSUME ParseInv, TakeVersion PROVE ParseInv'
  OBVIOUS
<1> USE DEF TakeVersion
<1>1. error = NoError /\ pc \in TopFields /\ module = NULL /\ count = 0
  BY DEF ParseInv, Counted, TopFields, Untouched, ParseTypeOK
<1>2. module' \in Held /\ defaults' \in [DefaultFields -> Held]
  BY DocumentParts DEF ParseInv, ParseTypeOK, ScalarDup, Held
<1>3. heap' = Frame \cup DefaultsHeld' \cup ManifestBlocks'
  <2>1. Read = {} /\ Read' = {}
    BY <1>1 DEF Read
  <2>2. ManifestBlocks = {} /\ ManifestBlocks' = Copy(module', <<"module", 0, 0>>)
    BY <1>1, <2>1 DEF ManifestBlocks, Copy
  <2>3. DefaultsHeld = {} /\ DefaultsHeld' = {}
    BY DEF DefaultsHeld, Looping, ReadFields, Fields
  <2>4. heap = Frame
    BY <2>2, <2>3 DEF ParseInv, HeapExact, Working
  <2> QED
    BY <2>2, <2>3, <2>4
<1>4. ErrorTrue(error')
  BY <1>1, NoFault
<1> QED
  BY <1>1, <1>2, <1>3, <1>4, TopStep DEF Above

LEMMA TakeDefaultsStep == ParseInv /\ TakeDefaults => ParseInv'
<1> SUFFICES ASSUME ParseInv, TakeDefaults PROVE ParseInv'
  OBVIOUS
<1> USE DEF TakeDefaults, out
<1>1. error = NoError
  BY DEF ParseInv, Counted
<1>2. module' \in Held /\ defaults' \in [DefaultFields -> Held]
  BY DefaultHeld DEF ParseInv, ParseTypeOK
<1>3. heap' = Frame \cup DefaultsHeld' \cup ManifestBlocks'
  <2>1. ManifestBlocks' = ManifestBlocks
    BY SameBlocks
  <2>2. DefaultsHeld = {}
    BY DEF DefaultsHeld, Looping, ReadFields, Fields
  <2>3. DefaultsHeld' = UNION {Copy(DefaultOf(f), <<f, 0, 0>>) : f \in DefaultFields}
    BY SameDocument DEF DefaultsHeld, Copy
  <2>4. heap = Frame \cup ManifestBlocks
    BY <2>2 DEF ParseInv, HeapExact, Working
  <2> QED
    BY <2>1, <2>3, <2>4
<1>4. ErrorTrue(error')
  BY <1>1, NoFault
<1> QED
  BY <1>1, <1>2, <1>3, <1>4, TopStep DEF Above

LEMMA RefuseListStep == ParseInv /\ RefuseList => ParseInv'
<1> SUFFICES ASSUME ParseInv, RefuseList PROVE ParseInv'
  OBVIOUS
<1> USE DEF RefuseList, out
<1>1. error = NoError /\ pc \in TopFields
  BY DEF ParseInv, Counted, TopFields
<1>2. ErrorTrue(error') /\ error' # NoError
  BY <1>1, TopFaultTrue DEF SetError
<1>3. module' \in Held /\ defaults' \in [DefaultFields -> Held]
  BY DEF ParseInv, ParseTypeOK
<1>4. heap' = Frame \cup DefaultsHeld' \cup ManifestBlocks'
  <2>1. ManifestBlocks' = ManifestBlocks
    BY SameBlocks
  <2>2. DefaultsHeld' = {}
    BY DEF DefaultsHeld, Looping, ReadFields, Fields
  <2>3. heap = Frame \cup DefaultsHeld \cup ManifestBlocks
    BY DEF ParseInv, HeapExact, Working
  <2> QED
    BY <2>1, <2>2, <2>3, BlocksApart
<1> QED
  BY <1>1, <1>2, <1>3, <1>4, TopStep DEF Above

-----------------------------------------------------------------------------
(* The loop over the resources.  *)
LEMMA TurnEmpty ==
    ASSUME ParseInv, pc = "turn", error = NoError
    PROVE  \A r \in 1 .. i, g \in ReadFields : Settled(r, g)
<1>1. /\ \A r \in 1 .. i - 1, g \in ReadFields : Settled(r, g)
      /\ i > 0 => \A g \in ReadFields : Settled(i, g)
  BY DEF ParseInv, SettledSoFar, Finished
<1>2. i \in Nat
  BY DocumentParts DEF ParseInv, ParseTypeOK
<1>3. \A r \in 1 .. i : r \in 1 .. i - 1 \/ (r = i /\ i > 0)
  BY <1>2
<1> QED
  BY <1>1, <1>3

LEMMA SameSettled ==
    ASSUME UNCHANGED <<doc, resources, codes, pairs>>
    PROVE  \A r, g : Settled(r, g)' <=> Settled(r, g)
<1>1. \A r, g : Applied(r, g)' <=> Applied(r, g)
  BY SameDocument DEF Applied
<1> QED
  BY <1>1, SameDocument DEF Settled

LEMMA NextResourceStep == ParseInv /\ NextResource => ParseInv'
<1> SUFFICES ASSUME ParseInv, NextResource PROVE ParseInv'
  OBVIOUS
<1> USE DEF NextResource, out
<1>1. /\ error = NoError /\ i \in Nat /\ i < Len(doc.resources) /\ count = i
      /\ Len(doc.resources) \in Nat
  BY DocumentParts DEF ParseInv, ParseTypeOK, LoopOver, Counted
<1>2. /\ i' = i + 1 /\ pc' = "node" /\ i' \in Listed /\ Listed' = Listed
      /\ pc' \in ReadFields
      /\ UNCHANGED <<doc, defaults, module, count, resources, codes, pairs, heap, error>>
  BY <1>1 DEF Listed, ReadFields, Fields
<1>3. ParseTypeOK'
  BY <1>1, <1>2 DEF ParseInv, ParseTypeOK
<1>4. Counted'
  BY <1>1, <1>2 DEF Counted, TopFields
<1>5. Untouched'
  <2>1. resources[i'] = Blank
    BY <1>1, <1>2 DEF ParseInv, Untouched
  <2>2. Blank["name"] = NULL /\ Blank["file"] = NULL
    BY DEF Blank, TextFields
  <2>3. \A r \in Listed : r > count => resources[r] = Blank /\ codes[r] = Zero /\ pairs[r] = 0
    BY <1>1 DEF ParseInv, Untouched
  <2> QED
    BY <1>2, <2>1, <2>2, <2>3 DEF Untouched, Blank, Zero
<1>6. DefaultsRead'
  BY <1>2, SameDocument DEF ParseInv, DefaultsRead, Looping
<1>7. HeapExact'
  <2>1. heap' = Frame \cup DefaultsHeld' \cup ManifestBlocks'
    BY <1>2, SameHeap DEF Working, Looping
  <2> QED
    BY <1>2, <2>1 DEF HeapExact
<1>8. ErrorRight'
  BY <1>1, <1>2, NoFault, SameErrorTrue DEF ErrorRight
<1>9. SettledSoFar'
  <2>1. \A r \in 1 .. i, g \in ReadFields : Settled(r, g)
    BY <1>1, TurnEmpty
  <2>2. i' - 1 = i
    BY <1>1, <1>2
  <2>3. \A g \in ReadFields : ~(Order[g] < Order["node"])
    BY Ordered DEF ReadFields, Fields
  <2> QED
    BY <1>2, <2>1, <2>2, <2>3, SameSettled DEF SettledSoFar, Finished
<1>10. PairsWanted' /\ NothingLeft' /\ DistinctAccepted'
  BY <1>2 DEF ParseInv, PairsWanted, Unwanted, NothingLeft, DistinctAccepted
<1> QED
  BY <1>3, <1>4, <1>5, <1>6, <1>7, <1>8, <1>9, <1>10 DEF ParseInv

LEMMA EndLoopStep == ParseInv /\ EndLoop => ParseInv'
<1> SUFFICES ASSUME ParseInv, EndLoop PROVE ParseInv'
  OBVIOUS
<1> USE DEF EndLoop, out
<1>1. /\ pc' \in {"validate", "done"} /\ Listed' = Listed
      /\ pc' \notin ReadFields \cup TopFields \cup Looping
      /\ pc' = "validate" <=> error = NoError
      /\ UNCHANGED <<doc, i, defaults, module, count, resources, codes, pairs, error>>
  BY SameDocument DEF ReadFields, Fields, TopFields, Looping
<1>2. error = NoError => i = Len(doc.resources) /\ count = i
  BY DEF LoopOver, ParseInv, Counted
<1>3. ParseTypeOK'
  BY <1>1 DEF ParseInv, ParseTypeOK
<1>4. Counted'
  BY <1>1, <1>2 DEF Counted
<1>5. Untouched' /\ DefaultsRead'
  <2>1. Untouched'
    BY <1>1 DEF ParseInv, Untouched, Blank, Zero
  <2>2. DefaultsRead'
    BY <1>1 DEF DefaultsRead
  <2> QED
    BY <2>1, <2>2
<1>6. HeapExact'
  <2>1. ManifestBlocks' = ManifestBlocks
    BY <1>1, SameBlocks
  <2>2. DefaultsHeld' = {}
    BY <1>1 DEF DefaultsHeld
  <2>3. heap = Frame \cup DefaultsHeld \cup ManifestBlocks
    BY DEF ParseInv, HeapExact, Working, Looping
  <2>4. heap' = Frame \cup DefaultsHeld' \cup ManifestBlocks'
    BY <2>1, <2>2, <2>3, BlocksApart
  <2> QED
    BY <1>1, <2>4 DEF HeapExact
<1>7. ErrorRight'
  BY <1>1, SameErrorTrue DEF ParseInv, ErrorRight
<1>8. SettledSoFar'
  <2>1. SettledSoFar
    BY DEF ParseInv
  <2> QED
    BY <1>1, <2>1, SameSettled DEF SettledSoFar, Finished
<1>9. PairsWanted' /\ NothingLeft' /\ DistinctAccepted'
  BY <1>1 DEF ParseInv, PairsWanted, Unwanted, NothingLeft, DistinctAccepted
<1> QED
  BY <1>3, <1>4, <1>5, <1>6, <1>7, <1>8, <1>9 DEF ParseInv

(* A NULL that is used ends elfrc. *)
LEMMA CrashStep == ParseInv /\ (Crash \/ CrashOnName) => ParseInv'
<1> SUFFICES ASSUME ParseInv, Crash \/ CrashOnName PROVE ParseInv'
  OBVIOUS
<1> USE DEF Crash, CrashOnName, out
<1>1. /\ pc' = "crashed" /\ Listed' = Listed /\ pc # "failed"
      /\ UNCHANGED <<doc, i, defaults, module, count, resources, codes, pairs, error>>
  BY SameDocument DEF Fields
<1>2. ParseTypeOK'
  BY <1>1 DEF ParseInv, ParseTypeOK, ReadFields, Fields
<1>3. Counted' /\ DefaultsRead' /\ HeapExact' /\ NothingLeft' /\ DistinctAccepted'
  BY <1>1 DEF Counted, DefaultsRead, HeapExact, NothingLeft, DistinctAccepted,
     Working, Looping, TopFields, ReadFields, Fields
<1>4. Untouched'
  BY <1>1 DEF ParseInv, Untouched, Blank, Zero
<1>5. ErrorRight'
  BY <1>1, SameErrorTrue DEF ParseInv, ErrorRight
<1>6. SettledSoFar'
  <2>1. SettledSoFar
    BY DEF ParseInv
  <2> QED
    BY <1>1, <2>1, SameSettled DEF SettledSoFar, Finished, ReadFields, Fields
<1>7. PairsWanted'
  BY <1>1 DEF ParseInv, PairsWanted, Unwanted
<1> QED
  BY <1>2, <1>3, <1>4, <1>5, <1>6, <1>7 DEF ParseInv

-----------------------------------------------------------------------------
(* Inside a resource. *)
LEMMA InResource ==
    ASSUME ParseInv, pc \in ReadFields
    PROVE  /\ i \in Listed /\ i \in Nat /\ count \in Nat
           /\ pc = "node" => count = i - 1 /\ error = NoError
           /\ pc # "node" => count = i
           /\ pairs[i] \in Nat /\ pairs[i] <= Len(Keys) /\ Len(Keys) \in Nat
<1>1. i \in Listed /\ i \in Nat /\ count \in Nat
  BY DocumentParts DEF ParseInv, ParseTypeOK, Listed
<1> QED
  BY <1>1, DocumentParts DEF ParseInv, ParseTypeOK, Counted, Keys

LEMMA FieldError ==
    ASSUME ParseInv, pc \in ReadFields, doc' = doc, Faulty(i, pc),
           SetError(<<i, pc>>)
    PROVE  ErrorRight' /\ error' # NoError
<1>1. i \in Listed
  BY InResource
<1>2. ASSUME error = NoError
      PROVE  ErrorTrue(<<i, pc>>)
  <2>1. /\ \A r \in 1 .. i - 1, g \in ReadFields : ~Faulty(r, g)
        /\ \A g \in ReadFields : Order[g] < Order[pc] => ~Faulty(i, g)
    BY <1>2 DEF ParseInv, SettledSoFar, Settled
  <2>2. CleanBefore(i, pc)
    BY <2>1 DEF CleanBefore
  <2> QED
    BY <1>1, <2>2 DEF ErrorTrue, ReadFields, Fields, TopFields
<1>3. ErrorTrue(error')
  BY <1>2 DEF SetError, ParseInv, ErrorRight
<1>4. <<i, pc>> # NoError
  BY DEF NoError, ReadFields, Fields
<1> QED
  BY <1>3, <1>4, SameErrorTrue DEF ErrorRight, SetError

(* The parser goes on to the next field with what it has read so far.  *)
LEMMA Advance ==
    ASSUME ParseInv, NEW f \in ReadFields, pc = f, UNCHANGED <<doc, i>>,
           error' = NoError =>
               error = NoError /\ pc' = Succ[f] /\ Settled(i, f)',
           \A r \in Listed \ {i} :
               /\ resources'[r] = resources[r] /\ codes'[r] = codes[r]
               /\ pairs'[r] = pairs[r],
           \A g \in TextFields \ {pc} : resources'[i][g] = resources[i][g],
           \A c \in CodeFields : SourceOf(c) # pc => codes'[i][c] = codes[i][c],
           pc # "metadata" => pairs'[i] = pairs[i]
    PROVE  SettledSoFar'
<1> SUFFICES ASSUME error' = NoError
             PROVE  SettledSoFar'
  BY DEF SettledSoFar
<1>1. i \in Listed /\ i \in Nat /\ i > 0
  BY InResource DEF Listed
<1>2. ASSUME NEW r \in 1 .. i - 1, NEW g \in ReadFields
      PROVE  Settled(r, g)'
  <2>1. Settled(r, g)
    BY DEF ParseInv, SettledSoFar
  <2>2. r \in Listed \ {i}
    BY <1>1, DocumentParts DEF Listed, ParseInv, ParseTypeOK
  <2>3. Applied(r, g) => Applied(r, g)'
    BY <2>2, SameDocument DEF Applied
  <2> QED
    BY <2>1, <2>3, SameDocument DEF Settled
<1>3. ASSUME NEW g \in ReadFields, Order[g] < Order[f]
      PROVE  Settled(i, g)'
  <2>1. Settled(i, g)
    BY <1>3 DEF ParseInv, SettledSoFar
  <2>2. g # pc
    BY <1>3, Ordered
  <2>3. Applied(i, g) => Applied(i, g)'
    <3>1. CASE g = "metadata"
      BY <2>2, <3>1 DEF Applied, TextFields
    <3>2. CASE g # "metadata"
      <4>1. g \in TextFields => resources'[i][g] = resources[i][g]
        BY <2>2
      <4>2. \A c \in CodeFields : SourceOf(c) = g => codes'[i][c] = codes[i][c]
        BY <2>2
      <4> QED
        BY <3>2, <4>1, <4>2, SameDocument DEF Applied
    <3> QED
      BY <3>1, <3>2
  <2> QED
    BY <2>1, <2>3, SameDocument DEF Settled
<1>4. CASE pc = "flags"
  <2>1. pc' = "turn" /\ \A g \in ReadFields : g = f \/ Order[g] < Order[f]
    BY <1>4, Ordered
  <2>2. \A g \in ReadFields : Settled(i, g)'
    BY <1>3, <2>1
  <2>3. pc' \notin ReadFields
    BY <2>1 DEF ReadFields, Fields
  <2> QED
    BY <1>2, <2>2, <2>3 DEF SettledSoFar
<1>5. CASE pc # "flags"
  <2>1. /\ pc' \in ReadFields
        /\ \A g \in ReadFields : Order[g] < Order[pc'] => g = f \/ Order[g] < Order[f]
    BY <1>5, Ordered
  <2>2. \A g \in ReadFields : Order[g] < Order[pc'] => Settled(i, g)'
    BY <1>3, <2>1
  <2>3. pc' \notin Finished
    BY <2>1 DEF ReadFields, Fields, Finished
  <2> QED
    BY <1>2, <2>1, <2>2, <2>3 DEF SettledSoFar
<1> QED
  BY <1>4, <1>5

(* What a step inside a resource has to say for itself.  *)
LEMMA FieldStep ==
    ASSUME ParseInv, pc \in ReadFields,
           UNCHANGED <<doc, i, defaults, module>>,
           pc' \in (ReadFields \ {"node"}) \cup {"turn"},
           count' \in 0 .. i, count' >= count,
           pc' # "turn" \/ error' = NoError => count' = i,
           resources' \in [Listed -> [TextFields -> Held]],
           codes' \in [Listed -> [CodeFields -> 0 .. U32 - 1]],
           pairs' \in [Listed -> Nat], pairs'[i] <= Len(Keys),
           \A r \in Listed \ {i} :
               /\ resources'[r] = resources[r] /\ codes'[r] = codes[r]
               /\ pairs'[r] = pairs[r],
           count = i \/ (/\ resources'[i] = resources[i] /\ codes'[i] = codes[i]
                         /\ pairs'[i] = pairs[i]),
           pc' = "name" => resources'[i]["name"] = NULL,
           pc' \in {"name", "file"} => resources'[i]["file"] = NULL,
           heap' = Frame \cup DefaultsHeld \cup ManifestBlocks',
           ErrorRight', SettledSoFar',
           \A j \in 1 .. pairs'[i] : ~Unwanted(Keys, j)
    PROVE  ParseInv'
<1>1. /\ i \in Listed /\ i \in Nat /\ count \in Nat /\ Listed' = Listed
      /\ i <= Len(doc.resources)
  BY InResource, SameDocument DEF Listed
<1>2. pc' \in Looping /\ pc \in Looping
      /\ pc' \notin TopFields \cup {"defaults", "validate", "done", "accepted", "failed"}
      /\ pc # "failed"
  BY DEF Looping, TopFields, ReadFields, Fields
<1>3. ParseTypeOK'
  <2>1. \A r \in Listed : pairs'[r] <= Len(doc.resources[r].metadata)
    BY DEF ParseInv, ParseTypeOK, Keys
  <2>2. pc' \in TopFields \cup ReadFields \cup
            {"defaults", "turn", "validate", "done", "accepted", "failed", "crashed"}
    OBVIOUS
  <2>3. doc \in Document /\ i \in 0 .. Len(doc.resources) /\ i > 0
        /\ defaults \in [DefaultFields -> Held] /\ module \in Held
    BY DEF ParseInv, ParseTypeOK
  <2> QED
    BY <1>1, <2>1, <2>2, <2>3 DEF ParseTypeOK
<1>4. Counted'
  BY <1>1, <1>2 DEF Counted, ReadFields, Fields
<1>5. Untouched'
  <2>1. \A r \in Listed : r > count => resources[r] = Blank /\ codes[r] = Zero /\ pairs[r] = 0
    BY <1>2 DEF ParseInv, Untouched
  <2>2. \A r \in Listed : r > count' => resources'[r] = Blank /\ codes'[r] = Zero /\ pairs'[r] = 0
    <3> SUFFICES ASSUME NEW r \in Listed, r > count'
                 PROVE  resources'[r] = Blank /\ codes'[r] = Zero /\ pairs'[r] = 0
      OBVIOUS
    <3>1. r > count /\ r \in Nat
      BY <1>1 DEF Listed
    <3>2. CASE r = i
      BY <1>1, <2>1, <3>1, <3>2
    <3>3. CASE r # i
      BY <2>1, <3>1, <3>3
    <3> QED
      BY <3>2, <3>3
  <2> QED
    BY <1>1, <1>2, <2>2 DEF Untouched, Blank, Zero, TopFields, ReadFields, Fields
<1>6. DefaultsRead'
  BY <1>2, SameDocument DEF ParseInv, DefaultsRead
<1>7. HeapExact'
  <2>1. DefaultsHeld' = DefaultsHeld
    BY <1>2, SameDocument DEF DefaultsHeld, Copy
  <2> QED
    BY <1>2, <2>1 DEF HeapExact, TopFields
<1>8. PairsWanted'
  <2>1. ASSUME NEW r \in Listed, NEW j \in 1 .. pairs'[r]
        PROVE  ~Unwanted(doc.resources[r].metadata, j)
    <3>1. CASE r = i
      BY <3>1 DEF Keys
    <3>2. CASE r # i
      BY <3>2 DEF ParseInv, PairsWanted
    <3> QED
      BY <3>1, <3>2
  <2> QED
    BY <1>1, <2>1 DEF PairsWanted, Unwanted
<1>9. NothingLeft' /\ DistinctAccepted'
  BY <1>2 DEF NothingLeft, DistinctAccepted
<1> QED
  BY <1>3, <1>4, <1>5, <1>6, <1>7, <1>8, <1>9 DEF ParseInv

LEMMA HeldNow ==
    ASSUME ParseInv, pc \in ReadFields
    PROVE  heap = Frame \cup DefaultsHeld \cup ManifestBlocks
BY DEF ParseInv, HeapExact, Working, Looping

LEMMA Unfaulted ==
    ASSUME ParseInv, pc \in ReadFields
    PROVE  /\ resources \in [Listed -> [TextFields -> Held]]
           /\ codes \in [Listed -> [CodeFields -> 0 .. U32 - 1]]
           /\ pairs \in [Listed -> Nat]
           /\ ErrorRight
           /\ \A j \in 1 .. pairs[i] : ~Unwanted(Keys, j)
<1>1. i \in Listed
  BY InResource
<1> QED
  BY <1>1 DEF ParseInv, ParseTypeOK, PairsWanted, Keys

(* Steps after an error: no value is stored, and the first error is kept. *)
LEMMA RefusalSteps ==
    ASSUME ParseInv, RefuseResource \/ RefuseField \/ RefusePair
    PROVE  ParseInv'
<1>1. /\ pc \in ReadFields /\ Faulty(i, pc) /\ SetError(<<i, pc>>)
      /\ pc' \in (ReadFields \ {"node", "name", "file"}) \cup {"turn"}
      /\ pc' # "turn" => count = i
      /\ UNCHANGED <<doc, i, defaults, module, count, resources, pairs, heap>>
      /\ codes' \in [Listed -> [CodeFields -> 0 .. U32 - 1]]
      /\ \A r \in Listed \ {i} : codes'[r] = codes[r]
      /\ count = i \/ codes'[i] = codes[i]
  <2>1. CASE RefuseResource
    <3>1. pc \in ReadFields /\ pc \in Fields
      BY <2>1 DEF RefuseResource, ReadFields, Fields
    <3>2. Value(pc) \in Refused[pc]
      BY <2>1 DEF RefuseResource, Refused
    <3> QED
      BY <2>1, <3>1, <3>2, ValueGiven, Unfaulted DEF RefuseResource, out
  <2>2. CASE RefuseField
    <3>1. pc \in ReadFields /\ pc \in Fields /\ pc # "node"
      BY <2>2 DEF RefuseField, Checked, ReadFields, Fields
    <3>2. pc' \in (ReadFields \ {"node", "name", "file"}) \cup {"turn"}
      BY <2>2 DEF RefuseField, Checked, After, ReadFields, Fields
    <3>3. i \in Listed /\ codes \in [Listed -> [CodeFields -> 0 .. U32 - 1]]
      BY <3>1, InResource, Unfaulted
    <3>4. [codes[i] EXCEPT !["explicit"] = 1] \in [CodeFields -> 0 .. U32 - 1]
      BY <3>3, ManifestParseAssumption DEF CodeFields
    <3>5. /\ codes' \in [Listed -> [CodeFields -> 0 .. U32 - 1]]
          /\ \A r \in Listed \ {i} : codes'[r] = codes[r]
      BY <2>2, <3>3, <3>4 DEF RefuseField
    <3> QED
      BY <2>2, <3>1, <3>2, <3>5, ValueGiven, InResource DEF RefuseField
  <2>3. CASE RefusePair
    <3>1. pc \in ReadFields /\ pc # "node"
      BY <2>3 DEF RefusePair, ReadFields
    <3>2. pc' = "flags"
      BY <2>3 DEF RefusePair, After
    <3>3. Faulty(i, pc)
      <4>1. pairs[i] + 1 \in 1 .. Len(Keys)
        BY <2>3, <3>1, InResource DEF RefusePair
      <4> QED
        BY <2>3, <4>1 DEF RefusePair, Faulty, Keys
    <3> QED
      BY <2>3, <3>1, <3>2, <3>3, InResource, Unfaulted
         DEF RefusePair, out, ReadFields, Fields
  <2> QED
    BY <2>1, <2>2, <2>3
<1>2. ErrorRight' /\ error' # NoError
  BY <1>1, FieldError
<1>3. SettledSoFar'
  BY <1>2 DEF SettledSoFar
<1>4. heap' = Frame \cup DefaultsHeld \cup ManifestBlocks'
  BY <1>1, SameBlocks, HeldNow
<1>5. count \in 0 .. i /\ count' >= count
  BY <1>1, InResource DEF ParseInv, ParseTypeOK
<1> HIDE DEF SetError
<1> QED
  BY <1>1, <1>2, <1>3, <1>4, <1>5, FieldStep, InResource, Unfaulted

LEMMA PushResourceStep == ParseInv /\ PushResource => ParseInv'
<1> SUFFICES ASSUME ParseInv, PushResource PROVE ParseInv'
  OBVIOUS
<1>1. /\ pc = "node" /\ pc \in ReadFields /\ pc \in Fields
      /\ pc' = "name" /\ pc' \in ReadFields
      /\ count' = count + 1 /\ heap' = heap \cup {<<"array", 0, 0>>}
      /\ UNCHANGED <<doc, i, defaults, module, resources, codes, pairs, error>>
  BY DEF PushResource, ReadFields, Fields
<1>2. /\ i \in Listed /\ i \in Nat /\ count = i - 1 /\ count' = i /\ count \in Nat
      /\ error = NoError
  BY <1>1, InResource
<1>3. resources[i] = Blank /\ pairs[i] = 0
  BY <1>1, <1>2 DEF ParseInv, Untouched
<1>4. ManifestBlocks' = ManifestBlocks \cup {<<"array", 0, 0>>}
  <2>1. Read' = Read \cup {i} /\ count' # 0
    BY <1>2 DEF Read
  <2>2. resources[i]["name"] = NULL /\ resources[i]["file"] = NULL /\ 1 .. pairs[i] = {}
    BY <1>3 DEF Blank, TextFields
  <2>3. \A b : b \in ManifestBlocks' <=>
          \/ module # NULL /\ b = <<"module", 0, 0>>
          \/ count' # 0 /\ b = <<"array", 0, 0>>
          \/ \E f \in {"name", "file"}, r \in Read' :
                resources[r][f] # NULL /\ b = <<f, r, 0>>
          \/ \E r \in Read' : \E j \in 1 .. pairs[r] : b = <<"pair", r, j>>
    BY <1>1, BlocksNext
  <2> QED
    BY <2>1, <2>2, <2>3, Blocks
<1>5. heap' = Frame \cup DefaultsHeld \cup ManifestBlocks'
  BY <1>1, <1>4, HeldNow
<1>6. Settled(i, "node")'
  <2>1. ~Faulty(i, "node")
    BY <1>1, ValueGiven DEF PushResource, Refused
  <2>2. Applied(i, "node")'
    BY DEF Applied, TextFields, CodeFields, SourceOf
  <2> QED
    BY <1>1, <2>1, <2>2, SameDocument DEF Settled
<1>7. SettledSoFar'
  BY <1>1, <1>2, <1>6, Advance DEF Succ
<1>8. ErrorRight'
  BY <1>1, <1>2, NoFault, SameErrorTrue DEF ErrorRight
<1>9. resources[i]["name"] = NULL /\ resources[i]["file"] = NULL
  BY <1>3 DEF Blank, TextFields
<1>10. count' \in 0 .. i /\ count' >= count
  BY <1>1, <1>2
<1> QED
  BY <1>1, <1>2, <1>5, <1>7, <1>8, <1>9, <1>10, FieldStep, InResource, Unfaulted

(* Storing the value of a field, and what it may do to the blocks.  *)
LEMMA Stored ==
    ASSUME ParseInv, pc \in TextFields, NEW v \in Held, Store(v)
    PROVE  /\ resources' \in [Listed -> [TextFields -> Held]]
           /\ resources'[i][pc] = v
           /\ \A g \in TextFields \ {pc} : resources'[i][g] = resources[i][g]
           /\ \A r \in Listed \ {i} : resources'[r] = resources[r]
<1>1. i \in Listed /\ resources \in [Listed -> [TextFields -> Held]]
  BY InResource, Unfaulted DEF ReadFields, Fields, TextFields
<1>2. resources[i] \in [TextFields -> Held]
  BY <1>1
<1> DEFINE new == [resources[i] EXCEPT ![pc] = v]
<1>3. new \in [TextFields -> Held] /\ new[pc] = v
      /\ \A g \in TextFields \ {pc} : new[g] = resources[i][g]
  BY <1>2
<1>4. resources' = [resources EXCEPT ![i] = new]
  BY DEF Store
<1> HIDE DEF new
<1> QED
  BY <1>1, <1>3, <1>4

LEMMA StoredBlocks ==
    ASSUME ParseInv, pc \in {"name", "file"}, NEW v \in Held, Store(v),
           resources[i][pc] = NULL, count = i, UNCHANGED <<module, count, pairs>>
    PROVE  ManifestBlocks' = ManifestBlocks \cup Copy(v, <<pc, i, 0>>)
<1>1. pc \in TextFields /\ i \in Read /\ Read' = Read /\ Read \subseteq Listed
  <2>1. pc \in TextFields /\ pc \in ReadFields
    BY DEF Fields, ReadFields, TextFields
  <2> QED
    BY <2>1, InResource DEF Read, Listed
<1>2. /\ resources'[i][pc] = v
      /\ \A g \in TextFields \ {pc} : resources'[i][g] = resources[i][g]
      /\ \A r \in Listed \ {i} : resources'[r] = resources[r]
  BY <1>1, Stored
<1>3. \A r \in Read, f \in {"name", "file"} :
         resources'[r][f] = IF r = i /\ f = pc THEN v ELSE resources[r][f]
  BY <1>1, <1>2 DEF TextFields
<1>4. \A b : b \in ManifestBlocks' <=>
        \/ module # NULL /\ b = <<"module", 0, 0>>
        \/ count # 0 /\ b = <<"array", 0, 0>>
        \/ \E f \in {"name", "file"}, r \in Read :
              resources'[r][f] # NULL /\ b = <<f, r, 0>>
        \/ \E r \in Read : \E j \in 1 .. pairs[r] : b = <<"pair", r, j>>
  BY <1>1, BlocksNext
<1>5. \A b : (\E f \in {"name", "file"}, r \in Read :
                  resources'[r][f] # NULL /\ b = <<f, r, 0>>)
        <=> \/ \E f \in {"name", "file"}, r \in Read :
                  resources[r][f] # NULL /\ b = <<f, r, 0>>
            \/ v # NULL /\ b = <<pc, i, 0>>
  BY <1>1, <1>3
<1> QED
  BY <1>4, <1>5, Blocks DEF Copy

(* A field that is stored and was no fault is settled. *)
LEMMA SettledField ==
    ASSUME ParseInv, NEW f \in TextFields, pc = f, UNCHANGED <<doc, i>>,
           Value(f) \notin Refused[f], resources'[i][f] = Value(f)
    PROVE  Settled(i, f)'
<1>1. pc \in ReadFields /\ f \in Fields /\ f # "metadata"
  BY DEF ReadFields, Fields, TextFields
<1>2. Value(f) = Given(i, f) /\ ~Faulty(i, f)
  BY <1>1, ValueGiven
<1>3. Given(i, f)' = Given(i, f) /\ ~Faulty(i, f)'
  BY <1>2, SameDocument
<1>4. Applied(i, f)'
  BY <1>1, <1>2, <1>3 DEF Applied
<1> QED
  BY <1>3, <1>4 DEF Settled

LEMMA SettledCodes ==
    ASSUME ParseInv, NEW f \in Checked, pc = f, UNCHANGED <<doc, i>>,
           error = NoError, Value(f) \notin Refused[f],
           \A c \in CodeFields : SourceOf(c) = f =>
               codes'[i][c] = Code(c, Value(f), resources[i]["file"])
    PROVE  Settled(i, f)'
<1>1. pc \in ReadFields /\ f \in Fields /\ f # "metadata" /\ f \notin TextFields
  BY DEF ReadFields, Fields, TextFields, Checked
<1>2. Value(f) = Given(i, f) /\ ~Faulty(i, f)
  BY <1>1, ValueGiven
<1>3. resources[i]["file"] = Given(i, "file")
  <2>1. "file" \in ReadFields /\ Order["file"] < Order[f]
    BY DEF ReadFields, Fields, Order, Checked
  <2>2. Settled(i, "file")
    BY <1>1, <2>1 DEF ParseInv, SettledSoFar
  <2> QED
    BY <2>2 DEF Settled, Applied, TextFields
<1>4. ~Faulty(i, f)'
  BY <1>2, SameDocument
<1>5. \A c \in CodeFields : SourceOf(c) = f => codes'[i][c] = Coded(i, c)
  BY <1>2, <1>3 DEF Coded
<1>6. Applied(i, f)'
  BY <1>1, <1>5, SameDocument DEF Applied
<1> QED
  BY <1>4, <1>6 DEF Settled

LEMMA TakeNameStep == ParseInv /\ TakeName => ParseInv'
<1> SUFFICES ASSUME ParseInv, TakeName PROVE ParseInv'
  OBVIOUS
<1> DEFINE v == Value("name")
<1>1. /\ pc = "name" /\ pc \in ReadFields /\ pc \in Fields /\ pc \in TextFields
      /\ pc' = "file" /\ pc' \in ReadFields \ {"node"}
      /\ v # "absent" /\ Store(v)
      /\ heap' = heap \cup Copy(v, <<pc, i, 0>>)
      /\ UNCHANGED <<doc, i, defaults, module, count, codes, pairs, error>>
  BY DEF TakeName, ReadFields, Fields, TextFields
<1>2. /\ i \in Listed /\ i \in Nat /\ count = i /\ count \in 0 .. i /\ count' >= count
      /\ pairs'[i] <= Len(Keys)
  BY <1>1, InResource
<1>3. v \in Held /\ v \notin Refused["name"]
  BY <1>1, ValueGiven DEF Refused
<1>4. resources[i]["name"] = NULL /\ resources[i]["file"] = NULL
  BY <1>1 DEF ParseInv, Untouched
<1> HIDE DEF v
<1>5. /\ resources' \in [Listed -> [TextFields -> Held]]
      /\ resources'[i]["name"] = v
      /\ \A g \in TextFields \ {"name"} : resources'[i][g] = resources[i][g]
      /\ \A r \in Listed \ {i} : resources'[r] = resources[r]
  BY <1>1, <1>3, Stored
<1>6. heap' = Frame \cup DefaultsHeld \cup ManifestBlocks'
  <2>1. ManifestBlocks' = ManifestBlocks \cup Copy(v, <<pc, i, 0>>)
    BY <1>1, <1>2, <1>3, <1>4, StoredBlocks
  <2> QED
    BY <1>1, <2>1, HeldNow
<1>7. Settled(i, "name")'
  BY <1>1, <1>3, <1>5, SettledField DEF v
<1>8. SettledSoFar'
  BY <1>1, <1>5, <1>7, Advance DEF Succ
<1>9. ErrorRight'
  BY <1>1, Unfaulted, SameErrorTrue DEF ErrorRight
<1>10. resources'[i]["file"] = NULL
  BY <1>4, <1>5 DEF TextFields
<1> QED
  BY <1>1, <1>2, <1>5, <1>6, <1>8, <1>9, <1>10, FieldStep, InResource, Unfaulted

LEMMA TakeFileStep == ParseInv /\ TakeFile => ParseInv'
<1> SUFFICES ASSUME ParseInv, TakeFile PROVE ParseInv'
  OBVIOUS
<1> DEFINE v == Value("file")
<1>1. /\ pc = "file" /\ pc \in ReadFields /\ pc \in Fields /\ pc \in TextFields
      /\ pc' \in (ReadFields \ {"node", "name", "file"}) \cup {"turn"}
      /\ v \notin {"absent", NULL} /\ Store(v)
      /\ heap' = heap \cup {<<pc, i, 0>>}
      /\ UNCHANGED <<doc, i, defaults, module, count, codes, pairs>>
  BY DEF TakeFile, ReadFields, Fields, TextFields
<1>2. /\ i \in Listed /\ i \in Nat /\ count = i /\ count \in 0 .. i /\ count' >= count
      /\ pairs'[i] <= Len(Keys)
  BY <1>1, InResource
<1>3. v \in Held /\ (Faulty(i, "file") <=> v = "bad")
  BY <1>1, ValueGiven DEF Refused
<1>4. resources[i]["file"] = NULL
  BY <1>1 DEF ParseInv, Untouched
<1>5. /\ v = "bad" => SetError(<<i, pc>>)
      /\ v # "bad" => pc' = "type" /\ error' = error /\ v \notin Refused["file"]
  BY <1>1 DEF TakeFile, Refused
<1> HIDE DEF v, SetError
<1>6. /\ resources' \in [Listed -> [TextFields -> Held]]
      /\ resources'[i]["file"] = v
      /\ \A g \in TextFields \ {"file"} : resources'[i][g] = resources[i][g]
      /\ \A r \in Listed \ {i} : resources'[r] = resources[r]
  BY <1>1, <1>3, Stored
<1>7. heap' = Frame \cup DefaultsHeld \cup ManifestBlocks'
  <2>1. ManifestBlocks' = ManifestBlocks \cup Copy(v, <<pc, i, 0>>)
    BY <1>1, <1>2, <1>3, <1>4, StoredBlocks
  <2> QED
    BY <1>1, <2>1, HeldNow DEF Copy
<1>8. ErrorRight' /\ SettledSoFar'
  <2>1. CASE v = "bad"
    <3>1. ErrorRight' /\ error' # NoError
      BY <1>1, <1>3, <1>5, <2>1, FieldError
    <3> QED
      BY <3>1 DEF SettledSoFar
  <2>2. CASE v # "bad"
    <3>1. Settled(i, "file")'
      BY <1>1, <1>5, <1>6, <2>2, SettledField DEF v
    <3>2. SettledSoFar'
      BY <1>1, <1>5, <1>6, <2>2, <3>1, Advance DEF Succ
    <3> QED
      BY <1>1, <1>5, <2>2, <3>2, Unfaulted, SameErrorTrue DEF ErrorRight
  <2> QED
    BY <2>1, <2>2
<1> QED
  BY <1>1, <1>2, <1>6, <1>7, <1>8, FieldStep, InResource, Unfaulted

LEMMA StoreStep ==
    ASSUME ParseInv, TakeField
    PROVE  ParseInv'
<1> DEFINE new == [c \in CodeFields |->
                     IF SourceOf(c) = pc
                     THEN Code(c, Value(pc), resources[i]["file"])
                     ELSE codes[i][c]]
<1>1. /\ pc \in Checked /\ pc' = After[pc] /\ Value(pc) \notin Refused[pc]
      /\ codes' = [codes EXCEPT ![i] = new]
      /\ UNCHANGED <<doc, i, defaults, module, count, resources, pairs, heap, error>>
  BY DEF TakeField
<1>2. PICK f \in Checked : pc = f
  BY <1>1
<1>3. /\ f \in Fields \ {"node", "name", "file"} /\ f \in ReadFields
      /\ pc' = Succ[f] /\ pc' \in (ReadFields \ {"node", "name", "file"}) \cup {"turn"}
  BY <1>1, <1>2 DEF Checked, After, Succ, ReadFields, Fields
<1>4. /\ i \in Listed /\ i \in Nat /\ count = i /\ count \in 0 .. i /\ count' >= count
      /\ pairs'[i] <= Len(Keys)
  BY <1>1, <1>2, <1>3, InResource
<1>5. /\ resources \in [Listed -> [TextFields -> Held]]
      /\ codes \in [Listed -> [CodeFields -> 0 .. U32 - 1]]
  BY <1>2, <1>3, Unfaulted
<1>6. new \in [CodeFields -> 0 .. U32 - 1]
  <2>1. Value(pc) \in Held /\ resources[i]["file"] \in Held
    BY <1>2, <1>3, <1>4, <1>5, ValueGiven DEF TextFields
  <2>2. codes[i] \in [CodeFields -> 0 .. U32 - 1]
    BY <1>4, <1>5
  <2> QED
    BY <2>1, <2>2, CodeRange
<1>7. /\ codes' \in [Listed -> [CodeFields -> 0 .. U32 - 1]]
      /\ codes'[i] = new
      /\ \A r \in Listed \ {i} : codes'[r] = codes[r]
  <2> HIDE DEF new
  <2> QED
    BY <1>1, <1>4, <1>5, <1>6
<1>8. \A c \in CodeFields :
         codes'[i][c] = IF SourceOf(c) = f
                        THEN Code(c, Value(f), resources[i]["file"])
                        ELSE codes[i][c]
  BY <1>2, <1>7
<1> HIDE DEF new
<1>9. heap' = Frame \cup DefaultsHeld \cup ManifestBlocks'
  BY <1>1, <1>2, <1>3, SameBlocks, HeldNow
<1>10. error' = NoError => Settled(i, f)'
  BY <1>1, <1>2, <1>8, SettledCodes
<1>11. SettledSoFar'
  BY <1>1, <1>2, <1>3, <1>7, <1>8, <1>10, Advance
<1>12. ErrorRight'
  BY <1>1, <1>2, <1>3, Unfaulted, SameErrorTrue DEF ErrorRight
<1> QED
  BY <1>1, <1>2, <1>3, <1>4, <1>5, <1>7, <1>9, <1>11, <1>12, FieldStep, InResource,
     Unfaulted

LEMMA TakePairStep == ParseInv /\ TakePair => ParseInv'
<1> SUFFICES ASSUME ParseInv, TakePair PROVE ParseInv'
  OBVIOUS
<1>1. /\ pc = "metadata" /\ pc' = pc /\ pc \in ReadFields \ {"node"}
      /\ pairs[i] < Len(Keys) /\ ~Unwanted(Keys, pairs[i] + 1)
      /\ pairs' = [pairs EXCEPT ![i] = pairs[i] + 1]
      /\ heap' = heap \cup {<<"pair", i, pairs[i] + 1>>}
      /\ UNCHANGED <<doc, i, defaults, module, count, resources, codes, error>>
  BY DEF TakePair, ReadFields, Fields
<1>2. /\ i \in Listed /\ i \in Nat /\ count = i /\ count \in 0 .. i /\ count' >= count
      /\ pairs[i] \in Nat /\ Len(Keys) \in Nat
  BY <1>1, InResource
<1>3. /\ pairs' \in [Listed -> Nat] /\ pairs'[i] = pairs[i] + 1
      /\ pairs'[i] <= Len(Keys)
      /\ \A r \in Listed \ {i} : pairs'[r] = pairs[r]
  BY <1>1, <1>2, Unfaulted
<1>4. heap' = Frame \cup DefaultsHeld \cup ManifestBlocks'
  <2>1. i \in Read /\ Read' = Read /\ Read \subseteq Listed
    BY <1>1, <1>2 DEF Read, Listed
  <2>2. 1 .. pairs'[i] = (1 .. pairs[i]) \cup {pairs[i] + 1}
    BY <1>2, <1>3
  <2>3. \A b : (\E r \in Read : \E j \in 1 .. pairs'[r] : b = <<"pair", r, j>>)
          <=> \/ \E r \in Read : \E j \in 1 .. pairs[r] : b = <<"pair", r, j>>
              \/ b = <<"pair", i, pairs[i] + 1>>
    BY <1>3, <2>1, <2>2
  <2>4. ManifestBlocks' = ManifestBlocks \cup {<<"pair", i, pairs[i] + 1>>}
    BY <1>1, <2>1, <2>3, Blocks, BlocksNext
  <2> QED
    BY <1>1, <2>4, HeldNow
<1>5. SettledSoFar'
  <2> SUFFICES ASSUME error = NoError
               PROVE  SettledSoFar'
    BY <1>1 DEF SettledSoFar
  <2>1. ASSUME NEW r \in Listed, NEW g \in ReadFields, Settled(r, g),
               r # i \/ g # "metadata"
        PROVE  Settled(r, g)'
    <3>1. Applied(r, g)'
      BY <1>1, <1>3, <2>1, SameDocument DEF Settled, Applied
    <3> QED
      BY <1>1, <2>1, <3>1, SameDocument DEF Settled
  <2>2. \A r \in 1 .. i - 1 : r \in Listed /\ r # i
    BY <1>2 DEF Listed
  <2>3. \A g \in ReadFields : Order[g] < Order["metadata"] => g # "metadata"
    BY Ordered DEF ReadFields
  <2>4. /\ \A r \in 1 .. i - 1, g \in ReadFields : Settled(r, g)
        /\ \A g \in ReadFields : Order[g] < Order["metadata"] => Settled(i, g)
    BY <1>1 DEF ParseInv, SettledSoFar
  <2>5. pc' \notin Finished
    BY <1>1 DEF Finished
  <2> QED
    BY <1>1, <1>2, <2>1, <2>2, <2>3, <2>4, <2>5 DEF SettledSoFar
<1>6. ErrorRight'
  BY <1>1, Unfaulted, SameErrorTrue DEF ErrorRight
<1>7. \A j \in 1 .. pairs'[i] : ~Unwanted(Keys, j)
  BY <1>1, <1>2, <1>3, Unfaulted
<1> QED
  BY <1>1, <1>2, <1>3, <1>4, <1>5, <1>6, <1>7, FieldStep, Unfaulted

LEMMA PairsDoneStep == ParseInv /\ PairsDone => ParseInv'
<1> SUFFICES ASSUME ParseInv, PairsDone PROVE ParseInv'
  OBVIOUS
<1>1. /\ pc = "metadata" /\ pc \in ReadFields \ {"node"}
      /\ pc' = "flags" /\ pc' \in ReadFields \ {"node"}
      /\ pairs[i] = Len(Keys)
      /\ UNCHANGED <<doc, i, defaults, module, count, resources, codes, pairs, heap, error>>
  BY DEF PairsDone, After, ReadFields, Fields, out
<1>2. /\ i \in Listed /\ i \in Nat /\ count = i /\ count \in 0 .. i /\ count' >= count
      /\ pairs'[i] <= Len(Keys) /\ pairs[i] = Len(doc.resources[i].metadata)
  BY <1>1, InResource DEF Keys
<1>3. heap' = Frame \cup DefaultsHeld \cup ManifestBlocks'
  BY <1>1, SameBlocks, HeldNow
<1>4. Settled(i, "metadata")'
  <2>1. ~Faulty(i, "metadata")
    BY <1>1, Unfaulted DEF Faulty, Keys
  <2>2. Applied(i, "metadata")'
    BY <1>1, <1>2 DEF Applied, TextFields
  <2> QED
    BY <1>1, <2>1, <2>2, SameDocument DEF Settled
<1>5. SettledSoFar'
  BY <1>1, <1>4, Advance DEF Succ
<1>6. ErrorRight'
  BY <1>1, Unfaulted, SameErrorTrue DEF ErrorRight
<1> QED
  BY <1>1, <1>2, <1>3, <1>5, <1>6, FieldStep, Unfaulted

-----------------------------------------------------------------------------
(* The verdict.  *)
LEMMA AllRead ==
    ASSUME ParseInv, error = NoError, pc \in {"validate", "done", "accepted"}
    PROVE  \A r \in Listed, g \in ReadFields : Settled(r, g)
<1>1. i = Len(doc.resources) /\ i \in Nat
  BY DocumentParts DEF ParseInv, Counted, ParseTypeOK
<1>2. /\ \A r \in 1 .. i - 1, g \in ReadFields : Settled(r, g)
      /\ i > 0 => \A g \in ReadFields : Settled(i, g)
  BY DEF ParseInv, SettledSoFar, Finished
<1>3. \A r \in Listed : r \in 1 .. i - 1 \/ (r = i /\ i > 0)
  BY <1>1 DEF Listed
<1> QED
  BY <1>2, <1>3

(* Once everything is read, the verdict is an error that is true, or none.  *)
LEMMA VerdictStep ==
    ASSUME ParseInv, NEW e, pc = "validate", pc' = "done", error' = e,
           (e = NoError /\ AllDistinct) \/ (e # NoError /\ ErrorTrue(e)),
           UNCHANGED <<doc, i, defaults, out, heap>>
    PROVE  ParseInv'
<1> USE DEF out
<1>1. /\ error = NoError /\ count = i /\ i = Len(doc.resources) /\ Listed' = Listed
      /\ \A r \in Listed, g \in ReadFields : Settled(r, g)
      /\ pc' \notin TopFields \cup {"defaults"} \cup Looping
      /\ UNCHANGED <<doc, i, defaults, module, count, resources, codes, pairs, heap>>
  BY AllRead, SameDocument DEF ParseInv, Counted, TopFields, Looping, ReadFields, Fields
<1>2. ParseTypeOK' /\ Counted' /\ Untouched' /\ DefaultsRead'
  <2>1. ParseTypeOK'
    BY <1>1 DEF ParseInv, ParseTypeOK, Looping
  <2>2. Counted'
    BY <1>1 DEF Counted, Looping
  <2>3. Untouched'
    BY <1>1 DEF ParseInv, Untouched, Blank, Zero
  <2>4. DefaultsRead'
    BY <1>1 DEF DefaultsRead
  <2> QED
    BY <2>1, <2>2, <2>3, <2>4
<1>3. HeapExact'
  <2>1. ManifestBlocks' = ManifestBlocks
    BY <1>1, SameBlocks
  <2>2. DefaultsHeld = {} /\ DefaultsHeld' = {}
    BY <1>1 DEF DefaultsHeld, Looping, ReadFields, Fields
  <2> QED
    BY <1>1, <2>1, <2>2 DEF ParseInv, HeapExact, Working
<1>4. ErrorRight'
  BY <1>1, NoFault, SameErrorTrue DEF ErrorRight
<1>5. SettledSoFar'
  <2>1. \A r \in 1 .. i - 1 : r \in Listed
    BY <1>1, DocumentParts DEF Listed, ParseInv, ParseTypeOK
  <2>2. i > 0 => i \in Listed
    BY <1>1, DocumentParts DEF Listed, ParseInv, ParseTypeOK
  <2> QED
    BY <1>1, <2>1, <2>2, SameSettled DEF SettledSoFar, Looping
<1>6. PairsWanted' /\ NothingLeft'
  BY <1>1 DEF ParseInv, PairsWanted, Unwanted, NothingLeft
<1>7. DistinctAccepted'
  BY <1>1, SameDocument DEF DistinctAccepted
<1> QED
  BY <1>2, <1>3, <1>4, <1>5, <1>6, <1>7 DEF ParseInv

LEMMA ValidateSteps ==
    ASSUME ParseInv, RefuseIds \/ RefuseDuplicate \/ AcceptIds
    PROVE  ParseInv'
<1>1. pc = "validate"
  BY DEF RefuseIds, RefuseDuplicate, AcceptIds, Validated
<1>2. /\ error = NoError /\ count = i /\ i = Len(doc.resources)
      /\ \A r \in Listed, g \in ReadFields : Settled(r, g)
  BY <1>1, AllRead DEF ParseInv, Counted
<1>3. AllClean /\ Read = Listed
  BY <1>2 DEF AllClean, Settled, Read, Listed
<1>4. ASSUME NEW r \in Listed
      PROVE  /\ resources[r]["name"] = Given(r, "name")
             /\ \A c \in CodeFields : codes[r][c] = Coded(r, c)
             /\ codes[r]["explicit"] = 1 <=> Given(r, "id") # "absent"
  <2>1. \A g \in ReadFields : Applied(r, g)
    BY <1>2 DEF Settled
  <2>2. resources[r]["name"] = Given(r, "name")
    BY <2>1 DEF Applied, TextFields, ReadFields, Fields
  <2>3. \A c \in CodeFields : codes[r][c] = Coded(r, c)
    <3>1. \A c \in CodeFields : /\ SourceOf(c) \in ReadFields \ TextFields
                               /\ SourceOf(c) # "metadata"
      BY DEF CodeFields, SourceOf, ReadFields, Fields, TextFields
    <3> QED
      BY <2>1, <3>1 DEF Applied
  <2>4. codes[r]["explicit"] = IF Given(r, "id") = "absent" THEN 0 ELSE 1
    BY <2>3 DEF Coded, Code, SourceOf, CodeFields
  <2> QED
    BY <2>2, <2>3, <2>4
<1>5. PICK e : /\ Validated(e)
               /\ \/ e = NoError /\ AllDistinct
                  \/ e # NoError /\ ErrorTrue(e)
  <2>1. CASE RefuseIds
    <3>1. PICK r \in Listed, s \in Listed :
             /\ r < s /\ codes[r]["explicit"] = 1 /\ codes[s]["explicit"] = 1
             /\ codes[r]["id"] = codes[s]["id"]
      BY <1>3, <2>1 DEF RefuseIds, DuplicateId
    <3>2. SameId(r, s)
      BY <1>4, <3>1 DEF SameId, CodeFields
    <3>3. ErrorTrue(<<0, "ids">>) /\ <<0, "ids">> # NoError
      BY <1>3, <3>1, <3>2 DEF ErrorTrue, NoError, TopFields, ReadFields, Fields
    <3> QED
      BY <2>1, <3>3 DEF RefuseIds
  <2>2. CASE RefuseDuplicate
    <3>1. PICK p \in Compared : /\ Validated(<<p[2], "duplicate">>)
                               /\ StopsFirst(p) /\ Named(p[1]) /\ Named(p[2])
      BY <2>2 DEF RefuseDuplicate
    <3>2. p[1] \in Listed /\ p[2] \in Listed /\ p[1] < p[2]
      BY <1>3, <3>1 DEF Compared
    <3>3. SameName(p[1], p[2])
      BY <1>4, <3>1, <3>2
         DEF StopsFirst, Stops, SameResource, SameName, CodeFields
    <3> DEFINE e == <<p[2], "duplicate">>
    <3>4. e[1] = p[2] /\ e[2] = "duplicate"
      OBVIOUS
    <3>5. ErrorTrue(e) /\ e # NoError
      <4> HIDE DEF e
      <4> QED
        BY <1>3, <3>2, <3>3, <3>4 DEF ErrorTrue, NoError, TopFields, ReadFields, Fields
    <3> QED
      BY <3>1, <3>5
  <2>3. CASE AcceptIds
    <3>1. ASSUME NEW r \in Listed, NEW s \in Listed, r < s
          PROVE  ~SameId(r, s) /\ ~SameName(r, s)
      <4>1. ~SameId(r, s)
        BY <1>3, <1>4, <2>3, <3>1 DEF AcceptIds, DuplicateId, SameId, CodeFields
      <4>2. <<r, s>> \in Compared
        BY <1>3, <3>1 DEF Compared
      <4>3. ~SameResource(r, s)
        BY <2>3, <4>2 DEF AcceptIds, Stops
      <4>4. ~SameName(r, s)
        BY <1>4, <4>3 DEF SameResource, SameName, CodeFields
      <4> QED
        BY <4>1, <4>4
    <3> QED
      BY <2>3, <3>1 DEF AcceptIds, AllDistinct
  <2> QED
    BY <2>1, <2>2, <2>3
<1>6. /\ pc = "validate" /\ pc' = "done" /\ error' = e
      /\ UNCHANGED <<doc, i, defaults, out, heap>>
  BY <1>5 DEF Validated
<1> HIDE DEF out
<1> QED
  BY <1>5, <1>6, VerdictStep

LEMMA AcceptStep == ParseInv /\ Accept => ParseInv'
<1> SUFFICES ASSUME ParseInv, Accept PROVE ParseInv'
  OBVIOUS
<1> USE DEF Accept, out
<1>1. /\ error = NoError /\ count = i /\ i = Len(doc.resources) /\ Listed' = Listed
      /\ pc = "done" /\ pc' = "accepted" /\ heap' = heap \ Frame
      /\ pc' \notin TopFields \cup {"defaults"} \cup Looping
      /\ UNCHANGED <<doc, i, defaults, module, count, resources, codes, pairs, error>>
  BY SameDocument DEF ParseInv, Counted, TopFields, Looping, ReadFields, Fields
<1>2. ParseTypeOK' /\ Counted' /\ Untouched' /\ DefaultsRead'
  <2>1. ParseTypeOK'
    BY <1>1 DEF ParseInv, ParseTypeOK, Looping
  <2>2. Counted'
    BY <1>1 DEF Counted, Looping
  <2>3. Untouched'
    BY <1>1 DEF ParseInv, Untouched, Blank, Zero
  <2>4. DefaultsRead'
    BY <1>1 DEF DefaultsRead
  <2> QED
    BY <2>1, <2>2, <2>3, <2>4
<1>3. HeapExact' /\ NothingLeft'
  <2>1. ManifestBlocks' = ManifestBlocks
    BY <1>1, SameBlocks
  <2>2. DefaultsHeld = {}
    BY <1>1 DEF DefaultsHeld, Looping, ReadFields, Fields
  <2>3. heap = Frame \cup ManifestBlocks
    BY <1>1, <2>2 DEF ParseInv, HeapExact, Working
  <2>4. heap' = ManifestBlocks'
    BY <1>1, <2>1, <2>3, BlocksApart
  <2> QED
    BY <1>1, <2>4 DEF HeapExact, NothingLeft, Working
<1>4. ErrorRight'
  BY <1>1, NoFault, SameErrorTrue DEF ErrorRight
<1>5. SettledSoFar'
  <2>1. SettledSoFar
    BY DEF ParseInv
  <2> QED
    BY <1>1, <2>1, SameSettled DEF SettledSoFar, Looping, Finished
<1>6. PairsWanted' /\ DistinctAccepted'
  BY <1>1, SameDocument DEF ParseInv, PairsWanted, Unwanted, DistinctAccepted
<1> QED
  BY <1>2, <1>3, <1>4, <1>5, <1>6 DEF ParseInv

LEMMA GiveUpStep == ParseInv /\ GiveUp => ParseInv'
<1> SUFFICES ASSUME ParseInv, GiveUp PROVE ParseInv'
  OBVIOUS
<1>1. /\ error # NoError /\ pc = "done" /\ pc' = "failed" /\ Listed' = Listed
      /\ heap' = (heap \ Frame) \ ManifestBlocks /\ module' = NULL /\ count' = 0
      /\ pc' \notin TopFields \cup {"defaults"} \cup Looping
      /\ UNCHANGED <<doc, i, defaults, resources, codes, pairs, error>>
  BY SameDocument DEF GiveUp, TopFields, Looping, ReadFields, Fields
<1>2. ParseTypeOK'
  <2>1. NULL \in Held /\ 0 \in 0 .. i
    BY DocumentParts DEF ParseInv, ParseTypeOK, Held
  <2> QED
    BY <1>1, <2>1 DEF ParseInv, ParseTypeOK, Looping
<1>3. Counted' /\ Untouched' /\ DefaultsRead' /\ SettledSoFar'
  BY <1>1 DEF Counted, Untouched, DefaultsRead, SettledSoFar, Looping
<1>4. HeapExact' /\ NothingLeft'
  <2>1. DefaultsHeld = {}
    BY <1>1 DEF DefaultsHeld, Looping, ReadFields, Fields
  <2>2. heap = Frame \cup ManifestBlocks
    BY <1>1, <2>1 DEF ParseInv, HeapExact, Working
  <2>3. heap' = {}
    BY <1>1, <2>2
  <2> QED
    BY <1>1, <2>3 DEF HeapExact, NothingLeft, Working
<1>5. ErrorRight'
  BY <1>1, SameErrorTrue DEF ParseInv, ErrorRight
<1>6. PairsWanted' /\ DistinctAccepted'
  BY <1>1, SameDocument DEF ParseInv, PairsWanted, Unwanted, DistinctAccepted
<1> QED
  BY <1>2, <1>3, <1>4, <1>5, <1>6 DEF ParseInv

LEMMA StepParse == ParseInv /\ [ParseNext]_parseVars => ParseInv'
<1> SUFFICES ASSUME ParseInv, [ParseNext]_parseVars PROVE ParseInv'
  OBVIOUS
<1>1. CASE CannotLoad \/ Load \/ RefuseTop \/ TakeRoot \/ TakeList
  BY <1>1, CannotLoadStep, LoadStep, RefuseTopStep, TakeTopStep
<1>2. CASE TakeVersion \/ TakeDefaults \/ RefuseList
  BY <1>2, TakeVersionStep, TakeDefaultsStep, RefuseListStep
<1>3. CASE NextResource \/ EndLoop \/ Crash \/ CrashOnName
  BY <1>3, NextResourceStep, EndLoopStep, CrashStep
<1>4. CASE RefuseResource \/ RefuseField \/ RefusePair
  BY <1>4, RefusalSteps
<1>5. CASE PushResource \/ TakeName \/ TakeFile
  BY <1>5, PushResourceStep, TakeNameStep, TakeFileStep
<1>6. CASE TakeField
  BY <1>6, StoreStep
<1>7. CASE TakePair \/ PairsDone
  BY <1>7, TakePairStep, PairsDoneStep
<1>8. CASE RefuseIds \/ RefuseDuplicate \/ AcceptIds
  BY <1>8, ValidateSteps
<1>9. CASE Accept \/ GiveUp
  BY <1>9, AcceptStep, GiveUpStep
<1>10. CASE UNCHANGED parseVars
  <2>1. UNCHANGED <<doc, pc, i, defaults, module, count, resources, codes, pairs, heap, error>>
    BY <1>10 DEF parseVars, out
  <2>2. ParseTypeOK' /\ Counted' /\ NothingLeft'
    BY <2>1, SameBlocks, SameDocument
       DEF ParseInv, ParseTypeOK, Counted, NothingLeft
  <2>3. Untouched' /\ DefaultsRead'
    BY <2>1, SameDocument DEF ParseInv, Untouched, DefaultsRead, Blank
  <2>4. HeapExact'
    <3>1. DefaultsHeld' = DefaultsHeld /\ ManifestBlocks' = ManifestBlocks
      BY <2>1, SameBlocks, SameDocument DEF DefaultsHeld, Copy
    <3> QED
      BY <2>1, <3>1 DEF ParseInv, HeapExact
  <2>5. ErrorRight' /\ PairsWanted' /\ DistinctAccepted'
    BY <2>1, SameDocument, SameErrorTrue
       DEF ParseInv, ErrorRight, PairsWanted, Unwanted, DistinctAccepted
  <2>6. SettledSoFar'
    <3>1. SettledSoFar
      BY DEF ParseInv
    <3> QED
      BY <2>1, <3>1, SameSettled DEF SettledSoFar
  <2> QED
    BY <2>2, <2>3, <2>4, <2>5, <2>6 DEF ParseInv
<1> QED
  BY <1>1, <1>2, <1>3, <1>4, <1>5, <1>6, <1>7, <1>8, <1>9, <1>10 DEF ParseNext

(* The inductive invariant: at every step of the parser the heap is what    *)
(* has been read and the scaffolding, an error is true, and without one     *)
(* what has been read is without a fault and stored.                        *)
THEOREM ParseInvariant == ParseSpec => []ParseInv
<1> QED
  BY InitParse, StepParse, PTL DEF ParseSpec

(* The parser keeps its types and stays within its arrays, whatever the     *)
(* manifest.                                                                *)
THEOREM ParseTypes == ParseSpec => []ParseTypeOK
<1>1. ParseInv => ParseTypeOK
  BY DEF ParseInv
<1> QED
  BY <1>1, ParseInvariant, PTL

(* Of any manifest the parser reports the first fault, and an accepted one  *)
(* has none; an error of duplicates has two resources behind it.            *)
THEOREM FirstErrors == ParseSpec => []FirstErrorReported
<1>1. ParseInv => FirstErrorReported
  <2> SUFFICES ASSUME ParseInv PROVE FirstErrorReported
    OBVIOUS
  <2>1. ErrorTrue(error)
    BY DEF ParseInv, ErrorRight
  <2>2. pc = "accepted" => AllClean
    BY AllRead DEF ParseInv, Counted, AllClean, Settled
  <2>3. pc = "accepted" => AllDistinct
    BY DEF ParseInv, Counted, DistinctAccepted
  <2> QED
    BY <2>1, <2>2, <2>3 DEF ErrorTrue, AllClean, FirstErrorReported
<1> QED
  BY <1>1, ParseInvariant, PTL

(* Wherever a manifest is refused, everything allocated for it is freed; of *)
(* an accepted one everything is within reach of elfrc_manifest_free.       *)
THEOREM NothingLeaks == ParseSpec => []NothingLeft
<1>1. ParseInv => NothingLeft
  BY DEF ParseInv
<1> QED
  BY <1>1, ParseInvariant, PTL

(* An accepted manifest has all its resources, with every name and file as  *)
(* written, and every number what its field or the default comes to in 32   *)
(* bits.                                                                    *)
THEOREM AcceptedComplete == ParseSpec => []DefaultsApplied
<1>1. ParseInv => DefaultsApplied
  <2> SUFFICES ASSUME ParseInv, pc = "accepted" PROVE DefaultsApplied
    BY DEF DefaultsApplied
  <2>1. count = Len(doc.resources) /\ error = NoError
    BY DEF ParseInv, Counted
  <2>2. \A r \in Listed, g \in ReadFields : Applied(r, g)
    BY <2>1, AllRead DEF Settled
  <2>3. ASSUME NEW r \in Listed
        PROVE  /\ \A f \in TextFields : resources[r][f] = Given(r, f)
               /\ \A c \in CodeFields : codes[r][c] = Coded(r, c)
               /\ pairs[r] = Len(doc.resources[r].metadata)
    <3>1. \A f \in TextFields : f \in ReadFields /\ f # "metadata"
      BY DEF TextFields, ReadFields, Fields
    <3>2. \A c \in CodeFields : /\ SourceOf(c) \in ReadFields \ TextFields
                               /\ SourceOf(c) # "metadata"
      BY DEF CodeFields, SourceOf, ReadFields, Fields, TextFields
    <3>3. \A f \in TextFields : resources[r][f] = Given(r, f)
      BY <2>2, <3>1 DEF Applied
    <3>4. \A c \in CodeFields : codes[r][c] = Coded(r, c)
      BY <2>2, <3>2 DEF Applied
    <3>5. pairs[r] = Len(doc.resources[r].metadata)
      BY <2>2 DEF Applied, ReadFields, TextFields
    <3> QED
      BY <3>3, <3>4, <3>5
  <2> QED
    BY <2>1, <2>3 DEF DefaultsApplied
<1> QED
  BY <1>1, ParseInvariant, PTL

-----------------------------------------------------------------------------
(* How much of a manifest is left to parse: the parts of the document, the   *)
(* resources, and the fields and metadata pairs of the resource at hand.     *)
PartsLeft ==
    CASE pc = "document" -> 8
      [] pc = "root" -> 7
      [] pc = "version" -> 6
      [] pc = "defaults" -> 5
      [] pc = "list" -> 4
      [] pc \in Looping -> 3
      [] pc = "validate" -> 2
      [] pc = "done" -> 1
      [] pc \in {"accepted", "failed", "crashed"} -> 0
PairsLeft ==
    IF pc = "flags" THEN 0
    ELSE IF pc = "metadata" THEN Len(Keys) - pairs[i]
    ELSE Len(Keys)
FieldsLeft == IF pc \in ReadFields THEN 12 - Order[pc] + PairsLeft ELSE 0
LeftToDo == <<PartsLeft, Len(doc.resources) - i, FieldsLeft>>

LEMMA OrderOf ==
    /\ \A f \in ReadFields : 12 - Order[f] \in Nat \ {0}
    /\ \A f \in ReadFields \ {"flags"} :
          /\ Succ[f] \in ReadFields
          /\ 12 - Order[Succ[f]] < 12 - Order[f]
BY DEF ReadFields, Fields, Order, Succ

LEMMA FieldsLeftNat ==
    ASSUME ParseInv
    PROVE  /\ FieldsLeft \in Nat
           /\ pc \in ReadFields => FieldsLeft > 0 /\ PairsLeft \in Nat
<1>1. CASE pc \in ReadFields
  <2>1. /\ pairs[i] \in Nat /\ pairs[i] <= Len(Keys) /\ Len(Keys) \in Nat
    BY <1>1, InResource
  <2>2. PairsLeft \in Nat
    BY <2>1 DEF PairsLeft
  <2>3. 12 - Order[pc] \in Nat \ {0}
    BY <1>1, OrderOf
  <2> QED BY <1>1, <2>2, <2>3 DEF FieldsLeft
<1>2. CASE pc \notin ReadFields
  BY <1>2 DEF FieldsLeft
<1> QED BY <1>1, <1>2

(* The parser goes on to a later field of the resource, or leaves it. *)
LEMMA FieldsDescend ==
    ASSUME ParseInv, pc \in ReadFields, UNCHANGED <<doc, i, pairs>>,
           pc' = "turn" \/ pc' = Succ[pc]
    PROVE  Less(LeftToDo', LeftToDo)
<1>1. FieldsLeft \in Nat /\ FieldsLeft > 0 /\ PairsLeft \in Nat
  BY FieldsLeftNat
<1>2. FieldsLeft' < FieldsLeft
  <2>1. CASE pc' = "turn"
    <3>1. FieldsLeft' = 0
      BY <2>1 DEF FieldsLeft, ReadFields, Fields
    <3> QED BY <1>1, <3>1
  <2>2. CASE pc' # "turn"
    <3>1. pc' = Succ[pc] /\ pc # "flags"
      BY <2>2, Ordered
    <3>2. pc' \in ReadFields /\ 12 - Order[pc'] < 12 - Order[pc]
      BY <3>1, OrderOf
    <3>3. PairsLeft' \in Nat /\ PairsLeft' <= PairsLeft
      <4>1. /\ pairs[i] \in Nat /\ pairs[i] <= Len(Keys) /\ Len(Keys) \in Nat
        BY InResource
      <4>2. Keys' = Keys /\ pairs'[i'] = pairs[i]
        BY DEF Keys
      <4>3. pc = "metadata" => pc' = "flags"
        BY <3>1 DEF Succ
      <4> QED BY <3>1, <4>1, <4>2, <4>3 DEF PairsLeft
    <3>4. 12 - Order[pc] \in Nat /\ 12 - Order[pc'] \in Nat
      BY <3>2, OrderOf
    <3>5. /\ FieldsLeft = 12 - Order[pc] + PairsLeft
          /\ FieldsLeft' = 12 - Order[pc'] + PairsLeft'
      BY <3>2 DEF FieldsLeft
    <3> QED BY <1>1, <3>2, <3>3, <3>4, <3>5
  <2> QED BY <2>1, <2>2
<1>3. PartsLeft = 3 /\ PartsLeft' = 3
  <2>1. pc \in Looping /\ pc' \in Looping
    BY Ordered DEF Looping
  <2> QED BY <2>1 DEF PartsLeft, Looping, ReadFields, Fields
<1> QED BY <1>2, <1>3 DEF LeftToDo, Less

LEMMA StepLeavesLess == ParseInv /\ ParseNext => Less(LeftToDo', LeftToDo)
<1> SUFFICES ASSUME ParseInv, ParseNext PROVE Less(LeftToDo', LeftToDo)
  OBVIOUS
<1>1. CASE \/ CannotLoad \/ Load \/ RefuseTop \/ TakeRoot \/ TakeVersion
            \/ TakeDefaults \/ RefuseList \/ TakeList \/ EndLoop \/ Crash
            \/ RefuseIds \/ RefuseDuplicate \/ AcceptIds \/ CrashOnName
            \/ Accept \/ GiveUp
  <2>1. \/ pc = "document" /\ pc' \in {"failed", "root"}
        \/ pc = "root" /\ pc' \in {"done", "version"}
        \/ pc = "version" /\ pc' \in {"done", "defaults"}
        \/ pc = "defaults" /\ pc' = "list"
        \/ pc = "list" /\ pc' \in {"done", "turn"}
        \/ pc \in Looping /\ pc' \in {"validate", "done", "crashed"}
        \/ pc = "validate" /\ pc' \in {"done", "crashed"}
        \/ pc = "done" /\ pc' \in {"accepted", "failed"}
    BY <1>1 DEF CannotLoad, Load, RefuseTop, TakeRoot, TakeVersion, TakeDefaults,
                RefuseList, TakeList, EndLoop, Crash, RefuseIds, RefuseDuplicate,
                AcceptIds, CrashOnName, Accept, GiveUp, Validated, Looping,
                ReadFields
  <2>2. PartsLeft' < PartsLeft
    BY <2>1 DEF PartsLeft, Looping, ReadFields, Fields
  <2> QED BY <2>2 DEF LeftToDo, Less
<1>2. CASE NextResource
  <2>1. pc = "turn" /\ pc' = "node" /\ i' = i + 1 /\ doc' = doc
    BY <1>2 DEF NextResource
  <2>2. i \in Nat /\ Len(doc.resources) \in Nat
    BY DocumentParts DEF ParseInv, ParseTypeOK
  <2>3. Len(doc'.resources) - i' < Len(doc.resources) - i
    BY <2>1, <2>2
  <2>4. PartsLeft = 3 /\ PartsLeft' = 3
    BY <2>1 DEF PartsLeft, Looping, ReadFields, Fields
  <2> QED BY <2>3, <2>4 DEF LeftToDo, Less
<1>3. CASE \/ RefuseResource \/ PushResource \/ TakeName \/ TakeFile \/ TakeField
            \/ RefuseField \/ RefusePair \/ PairsDone
  <2>1. pc \in ReadFields
    BY <1>3 DEF RefuseResource, PushResource, TakeName, TakeFile, TakeField,
                RefuseField, RefusePair, PairsDone, Checked,
                ReadFields, Fields
  <2>2. UNCHANGED <<doc, i, pairs>>
    BY <1>3 DEF RefuseResource, PushResource, TakeName, TakeFile, TakeField,
                RefuseField, RefusePair, PairsDone, out
  <2>3. pc' = "turn" \/ pc' = Succ[pc]
    BY <1>3 DEF RefuseResource, PushResource, TakeName, TakeFile, TakeField,
                RefuseField, RefusePair, PairsDone, Checked, Succ,
                After
  <2> QED BY <2>1, <2>2, <2>3, FieldsDescend
<1>4. CASE TakePair
  <2>1. /\ pc = "metadata" /\ pc' = pc /\ i' = i /\ doc' = doc
        /\ pairs' = [pairs EXCEPT ![i] = pairs[i] + 1]
    BY <1>4 DEF TakePair
  <2>2. pc \in ReadFields
    BY <2>1 DEF ReadFields
  <2>3. /\ i \in Listed /\ pairs[i] \in Nat /\ Len(Keys) \in Nat
        /\ pairs \in [Listed -> Nat]
    BY <2>2, InResource DEF ParseInv, ParseTypeOK
  <2>4. pairs'[i'] = pairs[i] + 1 /\ Keys' = Keys
    BY <2>1, <2>3 DEF Keys
  <2>5. /\ FieldsLeft = 12 - Order["metadata"] + (Len(Keys) - pairs[i])
        /\ FieldsLeft' = 12 - Order["metadata"] + (Len(Keys) - (pairs[i] + 1))
    BY <2>1, <2>2, <2>4 DEF FieldsLeft, PairsLeft
  <2>6. 12 - Order["metadata"] \in Nat
    BY <2>1, <2>2, OrderOf
  <2>7. FieldsLeft' < FieldsLeft
    BY <2>3, <2>5, <2>6
  <2>8. PartsLeft' = PartsLeft
    BY <2>1 DEF PartsLeft
  <2> QED BY <2>1, <2>7, <2>8 DEF LeftToDo, Less
<1> QED BY <1>1, <1>2, <1>3, <1>4 DEF ParseNext

(* Every step of elfrc_manifest_parse leaves less to do, whatever the        *)
(* manifest and wherever an error was met.                                   *)
THEOREM ParserDescends ==
    ParseSpec => /\ [](LeftToDo \in Triples)
                 /\ [][Less(LeftToDo', LeftToDo)]_parseVars
<1>1. ParseInv => LeftToDo \in Triples
  <2> SUFFICES ASSUME ParseInv PROVE LeftToDo \in Triples
    OBVIOUS
  <2>1. pc \in {"document", "root", "version", "defaults", "list", "validate",
                "done", "accepted", "failed", "crashed"} \cup Looping
    BY DEF ParseInv, ParseTypeOK, TopFields, Looping
  <2>2. PartsLeft \in Nat
    BY <2>1 DEF PartsLeft, Looping, ReadFields, Fields
  <2>3. Len(doc.resources) - i \in Nat
    BY DocumentParts DEF ParseInv, ParseTypeOK
  <2> QED BY <2>2, <2>3, FieldsLeftNat DEF LeftToDo, Triples
<1>2. ParseInv /\ [ParseNext]_parseVars => [Less(LeftToDo', LeftToDo)]_parseVars
  BY StepLeavesLess
<1> QED BY <1>1, <1>2, ParseInvariant, PTL DEF ParseSpec

=============================================================================
