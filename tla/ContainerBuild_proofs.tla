--------------------------- MODULE ContainerBuild_proofs ---------------------------
(***************************************************************************)
(* Proofs about ContainerBuild, for any number of resources, any metadata, *)
(* any lengths and any sequence of changes to the resource files: every    *)
(* entry of a finished container has its own bytes, a build fails only at  *)
(* a file that does not open or read or has changed, and nothing that is   *)
(* written overlaps anything else.                                         *)
(***************************************************************************)
EXTENDS ContainerBuild, Descent, TLAPS

FileStates ==
    [size : FileSizes, version : 0 .. MaxChanges, opens : BOOLEAN, reads : BOOLEAN]

BuilderTypes ==
    /\ count \in Nat
    /\ file \in [Entries -> FileStates]
    /\ entry \in 0 .. count
    /\ stage \in {"front", "strings", "metadata", "pairs", "data", "read",
                  "built", "failed"}
    /\ stage \in {"pairs", "read"} => entry < count
    /\ DOMAIN dataOffset = Entries
    /\ DOMAIN dataSize = Entries

(* A file differs from what ftell said only if it changed. *)
Measured ==
    stage = "read" => fsize \in Nat /\ (~Changed(entry) => fsize = file[entry].size)

EmbeddedSoFar ==
    /\ stage \in {"data", "read"} => \A e \in 0 .. entry - 1 : Embedded(e)
    /\ stage = "built" => \A e \in Entries : Embedded(e)

BuilderInv ==
    BuilderTypes /\ Measured /\ EmbeddedSoFar /\ FailureNamesFile

-----------------------------------------------------------------------------
LEMMA FileNat == \A f \in FileStates : f.size \in Nat /\ f.version \in Nat
<1>1. \A n \in FileSizes : n \in Nat
  BY ContainerBuildAssumption DEF ContainerBuildAssumption
<1>2. \A f \in FileStates : f.size \in FileSizes /\ f.version \in 0 .. MaxChanges
  BY DEF FileStates
<1> QED
  BY <1>1, <1>2

LEMMA InitBuilder == BuildInit => BuilderInv
<1> SUFFICES ASSUME BuildInit PROVE BuilderInv
  OBVIOUS
<1>1. count \in Nat /\ stage = "front" /\ entry = 0
  BY DEF BuildInit
<1>2. file \in [Entries -> FileStates]
  <2>1. 0 \in 0 .. MaxChanges
    BY ContainerBuildAssumption DEF ContainerBuildAssumption
  <2>2. [size : FileSizes, version : {0}, opens : BOOLEAN, reads : BOOLEAN] \subseteq FileStates
    BY <2>1 DEF FileStates
  <2>3. file \in [Entries -> [size : FileSizes, version : {0}, opens : BOOLEAN, reads : BOOLEAN]]
    BY DEF BuildInit
  <2> QED
    BY <2>2, <2>3
<1>3. DOMAIN dataOffset = Entries /\ DOMAIN dataSize = Entries
  BY DEF BuildInit
<1> QED
  BY <1>1, <1>2, <1>3 DEF BuilderInv, BuilderTypes, Measured,
     EmbeddedSoFar, FailureNamesFile

(* The stages before the data: no resource has been embedded yet, and none  *)
(* of the files looked at.                                                  *)
LEMMA EarlyStep ==
    ASSUME BuilderInv, UNCHANGED <<manifest, file, dataOffset, dataSize>>,
           entry' \in 0 .. count,
           \/ stage' \in {"strings", "metadata"}
           \/ stage' = "pairs" /\ entry' < count
           \/ stage' = "data" /\ entry' = 0
    PROVE  BuilderInv'
<1> USE DEF BuilderInv, manifest, Entries
<1>1. BuilderTypes'
  BY DEF BuilderTypes
<1>2. Measured' /\ FailureNamesFile'
  BY DEF Measured, FailureNamesFile
<1>3. EmbeddedSoFar'
  <2>1. stage' \in {"data", "read"} => entry' = 0
    OBVIOUS
  <2>2. 0 .. 0 - 1 = {}
    OBVIOUS
  <2>3. stage' # "built"
    OBVIOUS
  <2> QED
    BY <2>1, <2>2, <2>3 DEF EmbeddedSoFar
<1> QED
  BY <1>1, <1>2, <1>3

LEMMA FrontSteps ==
    ASSUME BuilderInv,
           \/ ReserveFront \/ InternKnown \/ InternNew \/ StringsDone
           \/ NoBlock \/ StartBlock \/ WritePair \/ BlockDone
           \/ DoubleBuckets \/ WriteTable
    PROVE  BuilderInv'
<1> USE DEF manifest, sections, BuilderInv, BuilderTypes
<1>1. CASE ReserveFront
  BY <1>1, EarlyStep DEF ReserveFront
<1>2. CASE InternKnown
  BY <1>2, EarlyStep DEF InternKnown
<1>3. CASE InternNew
  BY <1>3, EarlyStep DEF InternNew
<1>4. CASE StringsDone
  BY <1>4, EarlyStep DEF StringsDone
<1>5. CASE NoBlock
  BY <1>5, EarlyStep DEF NoBlock
<1>6. CASE StartBlock
  BY <1>6, EarlyStep DEF StartBlock
<1>7. CASE WritePair
  <2>1. stage = "pairs" /\ stage' = stage /\ entry' = entry
    BY <1>7 DEF WritePair
  <2>2. UNCHANGED <<manifest, file, dataOffset, dataSize>>
    BY <1>7 DEF WritePair
  <2> QED
    BY <2>1, <2>2, EarlyStep
<1>8. CASE BlockDone
  BY <1>8, EarlyStep DEF BlockDone
<1>9. CASE WriteTable
  <2>1. stage' = "data" /\ entry' = 0
    BY <1>9 DEF WriteTable
  <2>2. UNCHANGED <<manifest, file, dataOffset, dataSize>>
    BY <1>9 DEF WriteTable
  <2> QED
    BY <2>1, <2>2, EarlyStep
<1>10. CASE DoubleBuckets
  <2>1. stage' = "metadata" /\ entry' = entry
    BY <1>10 DEF DoubleBuckets
  <2>2. UNCHANGED <<manifest, file, dataOffset, dataSize>>
    BY <1>10 DEF DoubleBuckets
  <2> QED
    BY <2>1, <2>2, EarlyStep
<1> QED
  BY <1>1, <1>2, <1>3, <1>4, <1>5, <1>6, <1>7, <1>8, <1>9, <1>10

(* A build that fails has met a file that does not open or read, or that     *)
(* changed.                                                                  *)
LEMMA FailStep ==
    ASSUME BuilderInv, Fail,
           ~file[entry].opens \/ ~file[entry].reads \/ Changed(entry)
    PROVE  BuilderInv'
<1> USE DEF BuilderInv, Fail, manifest, sections, Entries
<1>1. BuilderTypes'
  BY DEF BuilderTypes
<1>2. Measured' /\ EmbeddedSoFar'
  BY DEF Measured, EmbeddedSoFar
<1>3. FailureNamesFile'
  BY DEF FailureNamesFile, Changed
<1> QED
  BY <1>1, <1>2, <1>3

LEMMA CannotOpenStep == BuilderInv /\ CannotOpen => BuilderInv'
BY FailStep DEF CannotOpen

LEMMA ShortReadStep == BuilderInv /\ ShortRead => BuilderInv'
<1> SUFFICES ASSUME BuilderInv, ShortRead PROVE BuilderInv'
  OBVIOUS
<1>1. /\ entry \in Entries /\ file[entry].size \in Nat /\ fsize \in Nat
      /\ stage = "read" /\ Short
  BY FileNat DEF BuilderInv, BuilderTypes, ShortRead, Entries, Measured
<1>2. CASE ~file[entry].reads
  BY <1>2, FailStep DEF ShortRead
<1>3. CASE file[entry].size < fsize
  <2>1. Changed(entry)
    BY <1>1, <1>3 DEF BuilderInv, Measured
  <2> QED
    BY <2>1, FailStep DEF ShortRead
<1> QED
  BY <1>1, <1>2, <1>3 DEF Short

LEMMA MeasureStep == BuilderInv /\ MeasureFile => BuilderInv'
<1> SUFFICES ASSUME BuilderInv, MeasureFile PROVE BuilderInv'
  OBVIOUS
<1> USE DEF BuilderInv, MeasureFile, manifest, sections, Entries
<1>1. BuilderTypes'
  BY DEF BuilderTypes, Changed
<1>2. Measured'
  BY FileNat DEF Measured, BuilderTypes
<1>3. EmbeddedSoFar'
  BY DEF EmbeddedSoFar, Embedded, Changed
<1> QED
  BY <1>1, <1>2, <1>3 DEF FailureNamesFile

LEMMA ReadStep == BuilderInv /\ ReadFile => BuilderInv'
<1> SUFFICES ASSUME BuilderInv, ReadFile PROVE BuilderInv'
  OBVIOUS
<1> USE DEF BuilderInv, manifest, Entries
<1> DEFINE start == Align(len, 16)
           content == [of |-> entry, had |-> file[entry].size]
           c == Cell(start, fsize, "data", content)
<1>1. /\ stage = "read" /\ stage' = "data" /\ entry' = entry + 1
      /\ UNCHANGED <<manifest, file>>
      /\ ~Short
      /\ dataOffset' = [dataOffset EXCEPT ![entry] = start]
      /\ dataSize' = [dataSize EXCEPT ![entry] = fsize]
      /\ cells' = cells \cup {c}
  BY DEF ReadFile
<1>2. /\ entry \in Entries /\ file[entry].size \in Nat /\ fsize \in Nat
      /\ entry \in Nat
  BY <1>1, FileNat DEF BuilderTypes, Measured
<1>3. fsize <= file[entry].size /\ (~Changed(entry) => fsize = file[entry].size)
  BY <1>1, <1>2 DEF Short, Measured
<1>4. /\ c.at = start /\ c.size = fsize /\ c.holds[1] = "data"
      /\ c.holds[2].of = entry /\ c.holds[2].had = file[entry].size
  BY DEF Cell
<1> HIDE DEF c, start, content
<1>5. dataOffset'[entry] = start /\ dataSize'[entry] = fsize
  BY <1>1, <1>2 DEF BuilderTypes
<1>6. ASSUME NEW e \in Entries, e = entry
      PROVE  Embedded(e)'
  BY <1>1, <1>3, <1>4, <1>5, <1>6 DEF Embedded, Changed
<1>7. ASSUME NEW e \in 0 .. entry - 1
      PROVE  Embedded(e)'
  <2>1. Embedded(e)
    BY <1>1 DEF EmbeddedSoFar
  <2>2. e \in Entries /\ e # entry
    BY <1>2 DEF BuilderTypes
  <2>3. dataOffset'[e] = dataOffset[e] /\ dataSize'[e] = dataSize[e]
    BY <1>1, <2>2 DEF BuilderTypes
  <2> QED
    BY <1>1, <2>1, <2>3 DEF Embedded, Changed
<1>8. EmbeddedSoFar'
  <2>1. entry' - 1 = entry
    BY <1>1, <1>2
  <2>2. ASSUME NEW e \in 0 .. entry
        PROVE  Embedded(e)'
    <3>1. CASE e = entry
      BY <1>2, <1>6, <3>1
    <3>2. CASE e # entry
      <4>1. e \in 0 .. entry - 1
        BY <1>2, <3>2
      <4> QED
        BY <1>7, <4>1
    <3> QED
      BY <3>1, <3>2
  <2> QED
    BY <1>1, <2>1, <2>2 DEF EmbeddedSoFar
<1>9. BuilderTypes'
  BY <1>1, <1>2 DEF BuilderTypes, Changed
<1>10. Measured' /\ FailureNamesFile'
  BY <1>1 DEF Measured, FailureNamesFile
<1> QED
  BY <1>8, <1>9, <1>10

LEMMA FillFrontStep == BuilderInv /\ FillFront => BuilderInv'
<1> SUFFICES ASSUME BuilderInv, FillFront PROVE BuilderInv'
  OBVIOUS
<1> USE DEF BuilderInv, manifest, sections, Entries
<1>1. /\ stage = "data" /\ stage' = "built" /\ entry = count
      /\ cells \subseteq cells'
      /\ UNCHANGED <<manifest, file, entry, sections>>
  BY DEF FillFront
<1>2. \A e \in Entries : Embedded(e)
  BY <1>1 DEF EmbeddedSoFar
<1>3. \A e \in Entries : Embedded(e)'
  BY <1>1, <1>2 DEF Embedded, Changed
<1>4. BuilderTypes'
  BY <1>1 DEF BuilderTypes, Changed
<1>5. Measured' /\ EmbeddedSoFar' /\ FailureNamesFile'
  BY <1>1, <1>3 DEF Measured, EmbeddedSoFar, FailureNamesFile
<1> QED
  BY <1>4, <1>5

(* A file that changes is marked as changed, the others stay as they are.   *)
LEMMA ChangeStep ==
    ASSUME BuilderInv, NEW e \in Entries, Rewrite(e) \/ Remove(e)
    PROVE  BuilderInv'
<1> USE DEF BuilderInv, manifest, sections, Entries
<1>1. /\ stage \notin {"built", "failed"}
      /\ file[e].version < MaxChanges
      /\ UNCHANGED <<manifest, stage, entry, cells, sections, fsize>>
  BY DEF Rewrite, Remove, MayChange
<1>2. file[e] \in FileStates /\ file[e].version \in Nat
  BY FileNat DEF BuilderTypes
<1>3. PICK f \in FileStates : /\ file' = [file EXCEPT ![e] = f]
                              /\ f.version = file[e].version + 1
  <2>1. file[e].version + 1 \in 0 .. MaxChanges
    BY <1>1, <1>2, ContainerBuildAssumption DEF ContainerBuildAssumption
  <2>2. CASE Rewrite(e)
    <3>1. PICK n \in FileSizes :
             file' = [file EXCEPT ![e].size = n, ![e].version = @ + 1]
      BY <2>2 DEF Rewrite
    <3> DEFINE v == file[e].version + 1
               f == [file[e] EXCEPT !.size = n, !.version = v]
    <3>2. file' = [file EXCEPT ![e] = f]
      BY <3>1 DEF BuilderTypes
    <3>3. v \in 0 .. MaxChanges
      BY <2>1
    <3> HIDE DEF v
    <3>4. f \in FileStates /\ f.version = v
      BY <1>2, <3>3 DEF FileStates
    <3> QED
      BY <3>2, <3>4 DEF v
  <2>3. CASE Remove(e)
    <3>1. file' = [file EXCEPT ![e].opens = FALSE, ![e].version = @ + 1]
      BY <2>3 DEF Remove
    <3> DEFINE v == file[e].version + 1
               f == [file[e] EXCEPT !.opens = FALSE, !.version = v]
    <3>2. file' = [file EXCEPT ![e] = f]
      BY <3>1 DEF BuilderTypes
    <3>3. v \in 0 .. MaxChanges
      BY <2>1
    <3> HIDE DEF v
    <3>4. f \in FileStates /\ f.version = v
      BY <1>2, <3>3 DEF FileStates
    <3> QED
      BY <3>2, <3>4 DEF v
  <2> QED
    BY <2>2, <2>3
<1>4. /\ file' \in [Entries -> FileStates]
      /\ Changed(e)'
      /\ \A d \in Entries \ {e} : file'[d] = file[d]
  <2>1. f.version > 0
    BY <1>2, <1>3
  <2> QED
    BY <1>3, <2>1 DEF BuilderTypes, Changed
<1>5. \A d \in Entries : ~Changed(d)' => ~Changed(d) /\ file'[d] = file[d]
  BY <1>4 DEF Changed
<1>6. BuilderTypes'
  BY <1>1, <1>4 DEF BuilderTypes
<1>7. Measured'
  <2>1. stage = "read" => entry \in Entries
    BY DEF BuilderTypes
  <2> QED
    BY <1>1, <1>5, <2>1 DEF Measured
<1>8. \A d \in Entries : Embedded(d) => Embedded(d)'
  BY <1>1, <1>5 DEF Embedded
<1>9. EmbeddedSoFar'
  <2>1. \A d \in 0 .. entry - 1 : d \in Entries
    BY DEF BuilderTypes
  <2> QED
    BY <1>1, <1>8, <2>1 DEF EmbeddedSoFar
<1> QED
  BY <1>1, <1>6, <1>7, <1>9 DEF FailureNamesFile

LEMMA StepBuilder == BuilderInv /\ [BuildNext]_buildVars => BuilderInv'
<1> SUFFICES ASSUME BuilderInv, [BuildNext]_buildVars PROVE BuilderInv'
  OBVIOUS
<1>1. CASE \/ ReserveFront \/ InternKnown \/ InternNew \/ StringsDone
           \/ NoBlock \/ StartBlock \/ WritePair \/ BlockDone
           \/ DoubleBuckets \/ WriteTable
  BY <1>1, FrontSteps
<1>2. CASE CannotOpen \/ ShortRead
  BY <1>2, CannotOpenStep, ShortReadStep
<1>3. CASE MeasureFile \/ ReadFile \/ FillFront
  BY <1>3, MeasureStep, ReadStep, FillFrontStep
<1>4. ASSUME NEW e \in Entries, Rewrite(e) \/ Remove(e)
      PROVE  BuilderInv'
  BY <1>4, ChangeStep
<1>5. CASE UNCHANGED buildVars
  <2> USE <1>5 DEF buildVars, manifest, sections, BuilderInv, Entries
  <2>1. BuilderTypes' /\ Measured'
    BY DEF BuilderTypes, Measured, Changed
  <2>2. EmbeddedSoFar' /\ FailureNamesFile'
    BY DEF EmbeddedSoFar, Embedded, FailureNamesFile, Changed
  <2> QED
    BY <2>1, <2>2
<1> QED
  BY <1>1, <1>2, <1>3, <1>4, <1>5 DEF BuildNext, BuilderNext

LEMMA BuilderInvariant == BuildSpec => []BuilderInv
<1> QED
  BY InitBuilder, StepBuilder, PTL DEF BuildSpec

(* However the files change while elfrc runs, every entry of a finished      *)
(* container points at bytes of its own file, as many as it says, and at the *)
(* whole file if nobody touched it.                                          *)
THEOREM EntriesTrue == BuildSpec => []DataTrue
<1>1. BuilderInv => DataTrue
  BY DEF BuilderInv, EmbeddedSoFar, DataTrue
<1> QED
  BY <1>1, BuilderInvariant, PTL

(* A build of any manifest fails only at a file that does not open or read,  *)
(* or that has changed: the one the message names.                           *)
THEOREM FailuresExcused == BuildSpec => []FailureNamesFile
<1>1. BuilderInv => FailureNamesFile
  BY DEF BuilderInv
<1> QED
  BY <1>1, BuilderInvariant, PTL

-----------------------------------------------------------------------------
(* Where things lie.  Cells are appended at or behind the end of the buffer, *)
(* so no two share a byte, and all of them lie behind the room reserved for  *)
(* header and directory until that is filled in.                             *)
Multiples(a) == {n \in Nat : n % a = 0}
Front == HeaderSize + count * EntrySize

Within(C, lo, hi) ==
    \A c \in C : c.at \in Nat /\ c.size \in Nat /\ lo <= c.at /\ End(c) <= hi
AllApart(C) == \A c, d \in C : c = d \/ Apart(c, d)

SectionTypes ==
    /\ pair \in Nat /\ fsize \in Nat
    /\ stage = "pairs" => pair <= Len(meta[entry])
    /\ nameOffset \in [Entries -> Nat]
    /\ metaOffset \in [Entries -> Multiples(8)]
    /\ dataOffset \in [Entries -> Multiples(16)]
    /\ dataSize \in [Entries -> Nat]
    /\ offsets \in [directory : Nat, strings : Nat, metadata : Nat,
                    table : Multiples(8), data : Multiples(16)]

Laid ==
    /\ stage = "front" => cells = {}
    /\ stage \notin {"front", "failed"} => offsets.directory = HeaderSize /\ Front <= len
    /\ IF stage = "built" THEN Within(cells, 0, len) ELSE Within(cells, Front, len)
    /\ AllApart(cells)

LayoutInv == ContainerTypeOK /\ SectionTypes /\ Laid

LEMMA AlignFacts ==
    ASSUME NEW n \in Nat, NEW a \in {8, 16}
    PROVE  Align(n, a) \in Multiples(a) /\ n <= Align(n, a)
<1>1. CASE a = 8
  <2> DEFINE q == (n + 7) \div 8
  <2>1. q \in Nat /\ n <= q * 8
    OBVIOUS
  <2>2. Align(n, a) = q * 8
    BY <1>1 DEF Align
  <2> HIDE DEF q
  <2>3. q * 8 \in Nat /\ (q * 8) % 8 = 0
    BY <2>1
  <2> QED BY <1>1, <2>1, <2>2, <2>3 DEF Multiples
<1>2. CASE a = 16
  <2> DEFINE q == (n + 15) \div 16
  <2>1. q \in Nat /\ n <= q * 16
    OBVIOUS
  <2>2. Align(n, a) = q * 16
    BY <1>2 DEF Align
  <2> HIDE DEF q
  <2>3. q * 16 \in Nat /\ (q * 16) % 16 = 0
    BY <2>1
  <2> QED BY <1>2, <2>1, <2>2, <2>3 DEF Multiples
<1> QED BY <1>1, <1>2

LEMMA CellParts ==
    ASSUME NEW at, NEW size, NEW kind, NEW value
    PROVE  /\ Cell(at, size, kind, value).at = at
           /\ Cell(at, size, kind, value).size = size
           /\ End(Cell(at, size, kind, value)) = at + size
           /\ Cell(at, size, kind, value).holds = <<kind, value>>
BY DEF Cell, End

(* A cell written at the end of what is there, or behind it.  *)
LEMMA AddCell ==
    ASSUME NEW C, NEW lo \in Nat, NEW hi \in Nat, NEW n, NEW top \in Nat,
           Within(C, lo, hi), AllApart(C), n.at \in Nat, n.size \in Nat,
           lo <= n.at, hi <= n.at, End(n) = top
    PROVE  Within(C \cup {n}, lo, top) /\ AllApart(C \cup {n})
<1>1. \A c \in C : c.at \in Nat /\ c.size \in Nat /\ lo <= c.at /\ End(c) <= hi
  BY DEF Within
<1>2. \A c \in C : End(c) \in Nat
  BY <1>1 DEF End
<1>3. n.at <= top
  BY DEF End
<1>4. Within(C \cup {n}, lo, top)
  <2>1. \A c \in C : End(c) <= top
    BY <1>1, <1>2, <1>3
  <2> QED BY <1>1, <2>1 DEF Within
<1>5. \A c \in C : Apart(c, n) /\ Apart(n, c)
  BY <1>1, <1>2 DEF Apart
<1> QED BY <1>4, <1>5 DEF AllApart

LEMMA Widen ==
    ASSUME NEW C, NEW lo \in Nat, NEW hi \in Nat, NEW top \in Nat,
           Within(C, lo, hi), hi <= top
    PROVE  Within(C, lo, top)
<1>1. \A c \in C : c.at \in Nat /\ c.size \in Nat /\ lo <= c.at /\ End(c) <= hi
  BY DEF Within
<1>2. \A c \in C : End(c) \in Nat
  BY <1>1 DEF End
<1> QED BY <1>1, <1>2 DEF Within

LEMMA FrontNat == count \in Nat => Front \in Nat /\ HeaderSize <= Front
BY DEF Front, HeaderSize, EntrySize

LEMMA StrLenNat ==
    ASSUME strLen \in [Names \cup Texts -> Lengths], NEW t \in Names \cup Texts
    PROVE  strLen[t] \in Nat
BY ContainerBuildAssumption DEF ContainerBuildAssumption

LEMMA InitLayout == BuildInit => LayoutInv
<1> SUFFICES ASSUME BuildInit PROVE LayoutInv
  OBVIOUS
<1>1. file \in [Entries -> [size : FileSizes, version : 0 .. MaxChanges,
                            opens : BOOLEAN, reads : BOOLEAN]]
  BY InitBuilder DEF BuilderInv, BuilderTypes, FileStates
<1>2. 0 \in Multiples(8) /\ 0 \in Multiples(16)
  BY DEF Multiples
<1>3. count \in 0 .. MaxResources /\ count \in Nat
  BY ContainerBuildAssumption DEF BuildInit, ContainerBuildAssumption
<1>4. ContainerTypeOK
  BY <1>1, <1>3, ContainerBuildAssumption
     DEF BuildInit, ContainerTypeOK, ContainerBuildAssumption
<1>5. SectionTypes
  BY <1>2 DEF BuildInit, SectionTypes
<1>6. Laid
  BY DEF BuildInit, Laid, Within, AllApart
<1> QED BY <1>4, <1>5, <1>6 DEF LayoutInv

(* A step of the builder between the first and the last. *)
LEMMA MidStep ==
    ASSUME LayoutInv, UNCHANGED <<manifest, file>>, entry' \in 0 .. count,
           stage' \in {"strings", "metadata", "pairs", "data", "read"},
           stage' \in {"pairs", "read"} => entry' < count,
           pair' \in Nat, stage' = "pairs" => pair' <= Len(meta[entry']),
           len' \in Nat, buckets' \in Nat \ {0}, fsize' \in Nat,
           nameOffset' \in [Entries -> Nat], dataSize' \in [Entries -> Nat],
           metaOffset' \in [Entries -> Multiples(8)],
           dataOffset' \in [Entries -> Multiples(16)],
           offsets' \in [directory : Nat, strings : Nat, metadata : Nat,
                         table : Multiples(8), data : Multiples(16)],
           offsets'.directory = HeaderSize, Front <= len',
           Within(cells', Front, len'), AllApart(cells')
    PROVE  LayoutInv'
<1>1. UNCHANGED <<count, names, meta, strLen>> /\ Entries' = Entries /\ Front' = Front
  BY DEF manifest, Entries, Front
<1>2. \A c \in cells' : c.at \in Nat /\ c.size \in Nat /\ End(c) <= len'
  BY DEF Within
<1>3. ContainerTypeOK'
  BY <1>1, <1>2 DEF LayoutInv, ContainerTypeOK, End
<1>4. SectionTypes'
  BY <1>1 DEF SectionTypes
<1>5. Laid'
  BY <1>1 DEF Laid, Within, AllApart, Apart, End
<1> QED BY <1>3, <1>4, <1>5 DEF LayoutInv

(* What a step of the builder finds. *)
LEMMA LayoutFacts ==
    ASSUME LayoutInv
    PROVE  /\ count \in Nat /\ Front \in Nat /\ HeaderSize <= Front
           /\ entry \in 0 .. count /\ entry \in Nat /\ len \in Nat /\ AllApart(cells)
           /\ buckets \in Nat \ {0} /\ pair \in Nat /\ fsize \in Nat
           /\ nameOffset \in [Entries -> Nat] /\ dataSize \in [Entries -> Nat]
           /\ metaOffset \in [Entries -> Multiples(8)]
           /\ dataOffset \in [Entries -> Multiples(16)]
           /\ offsets \in [directory : Nat, strings : Nat, metadata : Nat,
                           table : Multiples(8), data : Multiples(16)]
           /\ stage = "front" => cells = {}
           /\ stage \in {"strings", "metadata", "pairs", "data", "read"} =>
                 /\ Within(cells, Front, len)
                 /\ offsets.directory = HeaderSize /\ Front <= len
           /\ stage \in {"pairs", "read"} => entry < count
<1>1. count \in 0 .. MaxResources /\ MaxResources \in Nat
  BY ContainerBuildAssumption DEF LayoutInv, ContainerTypeOK, ContainerBuildAssumption
<1>2. count \in Nat
  BY <1>1
<1>3. Front \in Nat /\ HeaderSize <= Front
  BY <1>2, FrontNat
<1>4. entry \in 0 .. count /\ len \in Nat /\ buckets \in Nat \ {0}
      /\ (stage \in {"pairs", "read"} => entry < count)
  BY DEF LayoutInv, ContainerTypeOK
<1>5. entry \in Nat
  BY <1>2, <1>4
<1> QED BY <1>2, <1>3, <1>4, <1>5 DEF LayoutInv, SectionTypes, Laid

LEMMA ReserveLayout == ASSUME LayoutInv, ReserveFront PROVE LayoutInv'
<1>1. /\ stage = "front" /\ stage' = "strings" /\ len' = Align(Front, 8)
      /\ offsets' = [offsets EXCEPT !.directory = HeaderSize, !.strings = len']
      /\ UNCHANGED <<manifest, file, entry, pair, cells, nameOffset, metaOffset,
                     dataOffset, dataSize, buckets, fsize>>
  BY DEF ReserveFront, Front
<1>2. len' \in Nat /\ Front <= len'
  BY <1>1, LayoutFacts, AlignFacts DEF Multiples
<1>3. offsets' \in [directory : Nat, strings : Nat, metadata : Nat,
                    table : Multiples(8), data : Multiples(16)]
      /\ offsets'.directory = HeaderSize
  <2>1. offsets \in [directory : Nat, strings : Nat, metadata : Nat,
                     table : Multiples(8), data : Multiples(16)]
    BY LayoutFacts
  <2>2. offsets' = [offsets EXCEPT !.directory = HeaderSize, !.strings = len']
    BY <1>1
  <2>3. HeaderSize \in Nat /\ len' \in Nat
    BY <1>2 DEF HeaderSize
  <2> QED BY <2>1, <2>2, <2>3
<1>4. Within(cells', Front, len') /\ AllApart(cells')
  BY <1>1, LayoutFacts DEF Within, AllApart
<1> QED BY <1>1, <1>2, <1>3, <1>4, LayoutFacts, MidStep

LEMMA InternLayout == ASSUME LayoutInv, InternKnown \/ InternNew PROVE LayoutInv'
<1>1. stage = "strings" /\ stage' = "strings" /\ entry < count /\ entry' = entry + 1
  BY DEF InternKnown, InternNew
<1>2. entry' \in 0 .. count /\ entry \in Entries
  <2>1. entry \in Nat /\ count \in Nat
    BY LayoutFacts
  <2> QED BY <1>1, <2>1 DEF Entries
<1>3. CASE InternKnown
  <2>1. PICK e \in 0 .. entry - 1 :
           nameOffset' = [nameOffset EXCEPT ![entry] = nameOffset[e]]
    BY <1>3 DEF InternKnown
  <2>2. e \in Entries
    BY <1>2, LayoutFacts DEF Entries
  <2>3. nameOffset' \in [Entries -> Nat]
    BY <1>2, <2>1, <2>2, LayoutFacts
  <2>4. UNCHANGED <<manifest, file, pair, len, cells, metaOffset, dataOffset,
                    dataSize, offsets, buckets, fsize>>
    BY <1>3 DEF InternKnown
  <2> QED BY <1>1, <1>2, <2>3, <2>4, LayoutFacts, MidStep
<1>4. CASE InternNew
  <2> DEFINE k == strLen[names[entry]]
             c == Cell(len, k + 1, "text", names[entry])
  <2>1. k \in Nat
    <3>1. names[entry] \in Names
      BY <1>2 DEF LayoutInv, ContainerTypeOK
    <3> QED BY <3>1, StrLenNat DEF LayoutInv, ContainerTypeOK
  <2>2. /\ nameOffset' = [nameOffset EXCEPT ![entry] = len]
        /\ cells' = cells \cup {c}
        /\ len' = len + (k + 1)
        /\ UNCHANGED <<manifest, file, pair, metaOffset, dataOffset,
                       dataSize, offsets, buckets, fsize>>
    BY <1>4 DEF InternNew, Interned
  <2> HIDE DEF k
  <2>3. nameOffset' \in [Entries -> Nat] /\ len' \in Nat /\ k + 1 \in Nat
        /\ len <= len' /\ Front <= len'
    BY <1>1, <1>2, <2>1, <2>2, LayoutFacts
  <2>4. Within(cells', Front, len') /\ AllApart(cells')
    <3>1. c.at = len /\ c.size = k + 1 /\ End(c) = len'
      BY <2>2, CellParts
    <3> HIDE DEF c
    <3>2. Within(cells, Front, len) /\ AllApart(cells) /\ Front <= len
          /\ Front \in Nat /\ len \in Nat
      BY <1>1, LayoutFacts
    <3>3. len <= len
      BY <3>2
    <3> QED BY <2>2, <2>3, <3>1, <3>2, <3>3, AddCell
  <2> QED BY <1>1, <1>2, <2>2, <2>3, <2>4, LayoutFacts, MidStep
<1> QED BY <1>3, <1>4

LEMMA StringsDoneLayout == ASSUME LayoutInv, StringsDone PROVE LayoutInv'
<1>1. /\ stage = "strings" /\ stage' = "metadata" /\ entry' = 0
      /\ len' = Align(len, 8)
      /\ offsets' = [offsets EXCEPT !.metadata = IF AnyMetadata THEN len' ELSE 0]
      /\ UNCHANGED <<manifest, file, pair, cells, nameOffset, metaOffset,
                     dataOffset, dataSize, buckets, fsize>>
  BY DEF StringsDone
<1>2. len' \in Nat /\ len <= len' /\ Front <= len'
  <2>1. len' \in Nat /\ len <= len'
    BY <1>1, LayoutFacts, AlignFacts DEF Multiples
  <2> QED BY <1>1, <2>1, LayoutFacts
<1>3. offsets' \in [directory : Nat, strings : Nat, metadata : Nat,
                    table : Multiples(8), data : Multiples(16)]
      /\ offsets'.directory = HeaderSize
  <2>1. (IF AnyMetadata THEN len' ELSE 0) \in Nat
    BY <1>2
  <2> QED BY <1>1, <2>1, LayoutFacts
<1>4. Within(cells', Front, len') /\ AllApart(cells')
  BY <1>1, <1>2, LayoutFacts, Widen
<1>5. entry' \in 0 .. count
  BY <1>1, LayoutFacts
<1> QED BY <1>1, <1>2, <1>3, <1>4, <1>5, LayoutFacts, MidStep

LEMMA PassLayout ==
    ASSUME LayoutInv, NoBlock \/ BlockDone \/ DoubleBuckets \/ MeasureFile
    PROVE  LayoutInv'
<1>1. /\ stage \in {"metadata", "pairs", "data"} /\ entry' \in {entry, entry + 1}
      /\ stage' \in {"metadata", "read"}
      /\ UNCHANGED <<manifest, file, pair, len, cells, nameOffset, metaOffset,
                     dataOffset, dataSize, offsets>>
      /\ entry' = entry + 1 => entry < count
      /\ stage' = "read" => entry < count /\ entry' = entry
  BY LayoutFacts DEF NoBlock, BlockDone, DoubleBuckets, MeasureFile, sections
<1>2. entry' \in 0 .. count
  BY <1>1, LayoutFacts
<1>3. buckets' \in Nat \ {0}
  BY LayoutFacts DEF NoBlock, BlockDone, DoubleBuckets, MeasureFile, sections
<1>4. fsize' \in Nat
  <2>1. CASE MeasureFile
    <3>1. entry \in Entries /\ fsize' = file[entry].size
      BY <2>1, LayoutFacts DEF MeasureFile, Entries
    <3>2. file[entry] \in FileStates
      BY <3>1 DEF LayoutInv, ContainerTypeOK, FileStates
    <3> QED BY <3>1, <3>2, FileNat
  <2>2. CASE ~MeasureFile
    BY <2>2, LayoutFacts DEF NoBlock, BlockDone, DoubleBuckets, sections
  <2> QED BY <2>1, <2>2
<1> QED BY <1>1, <1>2, <1>3, <1>4, LayoutFacts, MidStep

LEMMA MetaPairs ==
    ASSUME LayoutInv, NEW e \in Entries
    PROVE  meta[e] \in Seq(Texts \X Texts) /\ Len(meta[e]) \in Nat
<1>1. meta[e] \in Metadata
  BY DEF LayoutInv, ContainerTypeOK
<1>2. meta[e] \in Seq(Texts \X Texts)
  BY <1>1, ContainerBuildAssumption DEF ContainerBuildAssumption
<1> QED BY <1>2

LEMMA StartBlockLayout == ASSUME LayoutInv, StartBlock PROVE LayoutInv'
<1> DEFINE start == Align(len, 8)
           c == Cell(start, 4, "u32", Len(meta[entry]))
<1>1. /\ stage = "metadata" /\ stage' = "pairs" /\ entry < count /\ entry' = entry
      /\ metaOffset' = [metaOffset EXCEPT ![entry] = start]
      /\ cells' = cells \cup {c}
      /\ len' = start + 4 /\ pair' = 0
      /\ UNCHANGED <<manifest, file, nameOffset, dataOffset, dataSize,
                     offsets, buckets, fsize>>
  BY DEF StartBlock
<1>2. start \in Multiples(8) /\ start \in Nat /\ len <= start /\ Front <= start
  <2>1. start \in Multiples(8) /\ len <= start
    BY LayoutFacts, AlignFacts
  <2>2. start \in Nat
    BY <2>1 DEF Multiples
  <2> QED BY <1>1, <2>1, <2>2, LayoutFacts
<1> HIDE DEF start
<1>3. entry \in Entries
  BY <1>1, LayoutFacts DEF Entries
<1>4. pair' <= Len(meta[entry'])
  BY <1>1, <1>3, MetaPairs
<1>5. metaOffset' \in [Entries -> Multiples(8)]
  BY <1>1, <1>2, <1>3, LayoutFacts
<1>6. len' \in Nat /\ Front <= len'
  BY <1>1, <1>2, LayoutFacts
<1>7. Within(cells', Front, len') /\ AllApart(cells')
  <2>1. c.at = start /\ c.size = 4 /\ End(c) = len'
    BY <1>1, CellParts
  <2> HIDE DEF c
  <2>2. Within(cells, Front, len) /\ AllApart(cells) /\ Front \in Nat /\ len \in Nat
    BY <1>1, LayoutFacts
  <2>3. c.size \in Nat
    BY <2>1
  <2> QED BY <1>1, <1>2, <1>6, <2>1, <2>2, <2>3, AddCell
<1> QED BY <1>1, <1>4, <1>5, <1>6, <1>7, LayoutFacts, MidStep

LEMMA PairLengths ==
    ASSUME LayoutInv, WritePair
    PROVE  /\ entry \in Entries
           /\ pair + 1 \in 1 .. Len(meta[entry])
           /\ strLen[meta[entry][pair + 1][1]] \in Nat
           /\ strLen[meta[entry][pair + 1][2]] \in Nat
<1> DEFINE p == meta[entry][pair + 1]
<1>1. stage = "pairs" /\ pair < Len(meta[entry])
  BY DEF WritePair
<1>2. entry \in Entries
  BY <1>1, LayoutFacts DEF Entries
<1>3. pair + 1 \in 1 .. Len(meta[entry])
  <2> DEFINE n == Len(meta[entry])
  <2>1. n \in Nat
    BY <1>2, MetaPairs
  <2>2. pair \in Nat /\ pair < n
    BY <1>1, LayoutFacts
  <2> HIDE DEF n
  <2>3. pair + 1 \in 1 .. n
    BY <2>1, <2>2
  <2> QED BY <2>3 DEF n
<1>4. p \in Texts \X Texts
  <2> DEFINE n == Len(meta[entry])
             k == pair + 1
  <2>1. \A j \in 1 .. n : meta[entry][j] \in Texts \X Texts
    BY <1>2, MetaPairs
  <2>2. k \in 1 .. n
    BY <1>3
  <2> HIDE DEF k, n
  <2>3. meta[entry][k] \in Texts \X Texts
    BY <2>1, <2>2
  <2> QED BY <2>3 DEF k
<1>5. p[1] \in Names \cup Texts /\ p[2] \in Names \cup Texts
  BY <1>4
<1> HIDE DEF p
<1>6. strLen[p[1]] \in Nat /\ strLen[p[2]] \in Nat
  BY <1>5, StrLenNat DEF LayoutInv, ContainerTypeOK
<1> QED BY <1>2, <1>3, <1>6 DEF p

LEMMA WritePairLayout == ASSUME LayoutInv, WritePair PROVE LayoutInv'
<1> DEFINE p == meta[entry][pair + 1]
           k == strLen[p[1]]
           v == strLen[p[2]]
           a2 == len + 4
           a3 == len + 5 + k
           a4 == len + 9 + k
           top == len + 10 + k + v
           c1 == Cell(len, 4, "u32", Recorded(p[1]))
           c2 == Cell(a2, k + 1, "text", p[1])
           c3 == Cell(a3, 4, "u32", Recorded(p[2]))
           c4 == Cell(a4, v + 1, "text", p[2])
           C1 == cells \cup {c1}
           C2 == C1 \cup {c2}
           C3 == C2 \cup {c3}
           C4 == C3 \cup {c4}
<1>1. /\ stage = "pairs" /\ stage' = "pairs" /\ entry' = entry
      /\ pair < Len(meta[entry]) /\ pair' = pair + 1
      /\ UNCHANGED <<manifest, file, nameOffset, metaOffset, dataOffset, dataSize,
                     offsets, buckets, fsize>>
  BY DEF WritePair, sections
<1>2. cells' = C4 /\ len' = top
  <2>1. cells' = cells \cup {c1, c2, c3, c4}
    BY DEF WritePair
  <2>2. len' = top
    BY DEF WritePair
  <2> HIDE DEF c1, c2, c3, c4, top
  <2> QED BY <2>1, <2>2
<1>3. entry \in Entries
  BY PairLengths
<1>4. pair + 1 \in 1 .. Len(meta[entry])
  BY PairLengths
<1>6. k \in Nat /\ v \in Nat
  BY PairLengths
<1>7. pair' \in Nat /\ pair' <= Len(meta[entry'])
  <2>1. pair' \in 1 .. Len(meta[entry]) /\ entry' = entry
    BY <1>1, <1>4
  <2> QED BY <1>3, <2>1, MetaPairs
<1> HIDE DEF p, k, v
<1>8. /\ len \in Nat /\ a2 \in Nat /\ a3 \in Nat /\ a4 \in Nat /\ top \in Nat
      /\ k + 1 \in Nat /\ v + 1 \in Nat
      /\ len + 4 = a2 /\ a2 + (k + 1) = a3 /\ a3 + 4 = a4 /\ a4 + (v + 1) = top
      /\ Front \in Nat
      /\ Front <= len /\ Front <= a2 /\ Front <= a3 /\ Front <= a4
  <2>1. len \in Nat /\ Front \in Nat /\ Front <= len
    BY <1>1, LayoutFacts
  <2> QED BY <1>6, <2>1
<1>9. /\ c1.at = len /\ c1.size = 4 /\ End(c1) = a2
      /\ c2.at = a2 /\ c2.size = k + 1 /\ End(c2) = a3
      /\ c3.at = a3 /\ c3.size = 4 /\ End(c3) = a4
      /\ c4.at = a4 /\ c4.size = v + 1 /\ End(c4) = top
  <2> HIDE DEF a2, a3, a4, top
  <2> QED BY <1>8, CellParts
<1>10. 4 \in Nat /\ len <= len /\ a2 <= a2 /\ a3 <= a3 /\ a4 <= a4
  BY <1>8
<1> HIDE DEF a2, a3, a4, top, c1, c2, c3, c4
<1>11. Within(C1, Front, a2) /\ AllApart(C1)
  <2>1. Within(cells, Front, len) /\ AllApart(cells)
    BY <1>1, LayoutFacts
  <2> QED BY <1>8, <1>9, <1>10, <2>1, AddCell
<1> HIDE DEF C1
<1>12. Within(C2, Front, a3) /\ AllApart(C2)
  BY <1>8, <1>9, <1>10, <1>11, AddCell
<1> HIDE DEF C2
<1>13. Within(C3, Front, a4) /\ AllApart(C3)
  BY <1>8, <1>9, <1>10, <1>12, AddCell
<1> HIDE DEF C3
<1>14. Within(C4, Front, top) /\ AllApart(C4)
  BY <1>8, <1>9, <1>10, <1>13, AddCell
<1> HIDE DEF C4
<1>15. Front <= top
  BY <1>6, <1>8
<1> QED BY <1>1, <1>2, <1>7, <1>8, <1>14, <1>15, LayoutFacts, MidStep

LEMMA WriteTableLayout == ASSUME LayoutInv, WriteTable PROVE LayoutInv'
<1> DEFINE start == Align(len, 8)
           mid == start + TableHeaderSize
           bytes == buckets * BucketSize
           end == start + TableHeaderSize + buckets * BucketSize
           c1 == Cell(start, TableHeaderSize, "u32", buckets)
           c2 == Cell(mid, bytes, "table", buckets)
           C1 == cells \cup {c1}
           C2 == C1 \cup {c2}
<1>1. /\ stage = "metadata" /\ stage' = "data" /\ entry' = 0
      /\ len' = Align(end, 16)
      /\ offsets' = [offsets EXCEPT !.table = start, !.data = len']
      /\ UNCHANGED <<manifest, file, pair, nameOffset, metaOffset, dataOffset,
                     dataSize, buckets, fsize>>
  BY DEF WriteTable
<1>2. cells' = C2
  <2>1. cells' = cells \cup {c1, c2}
    BY DEF WriteTable
  <2> HIDE DEF c1, c2
  <2> QED BY <2>1
<1>3. len \in Nat /\ Front \in Nat /\ Front <= len /\ buckets \in Nat
      /\ Within(cells, Front, len) /\ AllApart(cells)
  BY <1>1, LayoutFacts
<1>4. start \in Multiples(8) /\ start \in Nat /\ len <= start
  BY <1>3, AlignFacts DEF Multiples
<1>5. /\ mid \in Nat /\ end \in Nat /\ bytes \in Nat /\ TableHeaderSize \in Nat
      /\ start + TableHeaderSize = mid /\ mid + bytes = end
      /\ Front <= start /\ Front <= mid /\ mid <= mid /\ Front <= end
  BY <1>3, <1>4 DEF TableHeaderSize, BucketSize
<1>6. /\ c1.at = start /\ c1.size = TableHeaderSize /\ End(c1) = mid
      /\ c2.at = mid /\ c2.size = bytes /\ End(c2) = end
  <2> HIDE DEF start, mid, end, bytes
  <2> QED BY <1>5, CellParts
<1>7. len' \in Multiples(16) /\ len' \in Nat /\ end <= len' /\ Front <= len'
  <2>1. len' \in Multiples(16) /\ len' \in Nat /\ end <= len'
    BY <1>1, <1>5, AlignFacts DEF Multiples
  <2> QED BY <1>3, <1>5, <2>1
<1> HIDE DEF start, mid, end, bytes, c1, c2
<1>8. Within(C1, Front, mid) /\ AllApart(C1)
  BY <1>3, <1>4, <1>5, <1>6, AddCell
<1> HIDE DEF C1
<1>9. Within(C2, Front, end) /\ AllApart(C2)
  BY <1>3, <1>5, <1>6, <1>8, AddCell
<1> HIDE DEF C2
<1>10. Within(cells', Front, len') /\ AllApart(cells')
  BY <1>2, <1>3, <1>5, <1>7, <1>9, Widen
<1>11. offsets' \in [directory : Nat, strings : Nat, metadata : Nat,
                     table : Multiples(8), data : Multiples(16)]
       /\ offsets'.directory = HeaderSize
  BY <1>1, <1>4, <1>7, LayoutFacts
<1>12. entry' \in 0 .. count
  BY <1>1, LayoutFacts
<1> QED BY <1>1, <1>7, <1>10, <1>11, <1>12, LayoutFacts, MidStep

LEMMA ReadLayout == ASSUME LayoutInv, ReadFile PROVE LayoutInv'
<1> DEFINE start == Align(len, 16)
           c == Cell(start, fsize, "data", [of |-> entry, had |-> file[entry].size])
<1>1. /\ stage = "read" /\ stage' = "data" /\ entry' = entry + 1
      /\ dataOffset' = [dataOffset EXCEPT ![entry] = start]
      /\ dataSize' = [dataSize EXCEPT ![entry] = fsize]
      /\ cells' = cells \cup {c}
      /\ len' = start + fsize
      /\ UNCHANGED <<manifest, file, pair, nameOffset, metaOffset, offsets,
                     buckets, fsize>>
  BY DEF ReadFile
<1>2. len \in Nat /\ Front \in Nat /\ Front <= len /\ fsize \in Nat /\ entry < count
      /\ Within(cells, Front, len) /\ AllApart(cells)
  BY <1>1, LayoutFacts
<1>3. start \in Multiples(16) /\ start \in Nat /\ len <= start
  BY <1>2, AlignFacts DEF Multiples
<1>4. c.at = start /\ c.size = fsize /\ End(c) = len'
  <2> HIDE DEF start
  <2> QED BY <1>1, CellParts
<1> HIDE DEF start, c
<1>5. len' \in Nat /\ Front <= start /\ Front <= len'
  BY <1>1, <1>2, <1>3
<1>6. Within(cells', Front, len') /\ AllApart(cells')
  BY <1>1, <1>2, <1>3, <1>4, <1>5, AddCell
<1>7. entry \in Entries /\ entry' \in 0 .. count
  <2>1. entry \in Nat /\ count \in Nat
    BY LayoutFacts
  <2> QED BY <1>1, <1>2, <2>1 DEF Entries
<1>8. dataOffset' \in [Entries -> Multiples(16)] /\ dataSize' \in [Entries -> Nat]
  BY <1>1, <1>2, <1>3, <1>7, LayoutFacts
<1> QED BY <1>1, <1>2, <1>5, <1>6, <1>7, <1>8, LayoutFacts, MidStep

(* Entries are as far apart as they are long, and end where the front does.  *)
LEMMA EntryCellsPlaced ==
    ASSUME LayoutInv, offsets.directory = HeaderSize
    PROVE  /\ Within(EntryCells, HeaderSize, Front)
           /\ AllApart(EntryCells)
<1> DEFINE E(e) == Cell(offsets.directory + e * EntrySize, EntrySize, "entry",
                        DirectoryEntry(e))
<1>1. count \in Nat
  BY LayoutFacts
<1>2. EntryCells = {E(e) : e \in Entries}
  BY DEF EntryCells
<1>3. ASSUME NEW e \in Entries
      PROVE  /\ e \in Nat /\ e < count
             /\ E(e).at = 160 + e * 128 /\ E(e).size = 128
             /\ End(E(e)) = 160 + e * 128 + 128
  <2>1. e \in Nat /\ e < count
    BY <1>1, <1>3 DEF Entries
  <2>2. /\ E(e).at = offsets.directory + e * EntrySize
        /\ E(e).size = EntrySize
        /\ End(E(e)) = offsets.directory + e * EntrySize + EntrySize
    BY CellParts
  <2> HIDE DEF E
  <2> QED BY <2>1, <2>2 DEF HeaderSize, EntrySize
<1> HIDE DEF E
<1>4. Within(EntryCells, HeaderSize, Front)
  <2> SUFFICES ASSUME NEW e \in Entries
               PROVE  /\ E(e).at \in Nat /\ E(e).size \in Nat
                      /\ HeaderSize <= E(e).at /\ End(E(e)) <= Front
    BY <1>2 DEF Within
  <2>1. e \in Nat /\ e < count
    BY <1>3
  <2>2. E(e).at \in Nat /\ E(e).size \in Nat /\ HeaderSize <= E(e).at
    BY <1>3, <2>1 DEF HeaderSize
  <2>3. 160 + e * 128 + 128 <= Front
    BY <1>1, <2>1 DEF Front, HeaderSize, EntrySize
  <2> QED BY <1>3, <2>2, <2>3
<1>5. AllApart(EntryCells)
  <2> SUFFICES ASSUME NEW e \in Entries, NEW f \in Entries
               PROVE  E(e) = E(f) \/ Apart(E(e), E(f))
    BY <1>2 DEF AllApart
  <2>1. e \in Nat /\ f \in Nat
    BY <1>3
  <2>2. e = f \/ e + 1 <= f \/ f + 1 <= e
    BY <2>1
  <2>3. e + 1 <= f => End(E(e)) <= E(f).at
    BY <1>3, <2>1
  <2>4. f + 1 <= e => End(E(f)) <= E(e).at
    BY <1>3, <2>1
  <2> QED BY <2>2, <2>3, <2>4 DEF Apart
<1> QED BY <1>4, <1>5

(* Two regions, one behind the other.  *)
LEMMA Join ==
    ASSUME NEW C, NEW D, NEW lo \in Nat, NEW mid \in Nat, NEW hi \in Nat,
           Within(C, lo, mid), Within(D, mid, hi), AllApart(C), AllApart(D),
           lo <= mid, mid <= hi
    PROVE  Within(D \cup C, lo, hi) /\ AllApart(D \cup C)
<1>1. \A c \in C : c.at \in Nat /\ c.size \in Nat /\ lo <= c.at /\ End(c) <= mid
  BY DEF Within
<1>2. \A d \in D : d.at \in Nat /\ d.size \in Nat /\ mid <= d.at /\ End(d) <= hi
  BY DEF Within
<1>3. (\A c \in C : End(c) \in Nat) /\ (\A d \in D : End(d) \in Nat)
  BY <1>1, <1>2 DEF End
<1>4. \A c \in C, d \in D : Apart(c, d) /\ Apart(d, c)
  BY <1>1, <1>2, <1>3 DEF Apart
<1>5. AllApart(D \cup C)
  BY <1>4 DEF AllApart
<1>6. \A c \in C : End(c) <= hi
  BY <1>1, <1>3
<1>7. \A d \in D : lo <= d.at
  BY <1>2
<1>8. Within(D \cup C, lo, hi)
  BY <1>1, <1>2, <1>6, <1>7 DEF Within
<1> QED BY <1>5, <1>8

LEMMA FillFrontLayout == ASSUME LayoutInv, FillFront PROVE LayoutInv'
<1> DEFINE h == Cell(0, HeaderSize, "header", Header)
<1>1. /\ stage = "data" /\ stage' = "built"
      /\ cells' = cells \cup EntryCells \cup {h}
      /\ UNCHANGED <<manifest, file, entry, pair, len, sections, fsize>>
  BY DEF FillFront
<1>2. /\ Front \in Nat /\ HeaderSize <= Front /\ Front <= len /\ len \in Nat
      /\ HeaderSize \in Nat /\ 0 <= HeaderSize /\ 0 <= Front
      /\ Within(cells, Front, len) /\ AllApart(cells)
      /\ offsets.directory = HeaderSize
  BY <1>1, LayoutFacts DEF HeaderSize
<1>3. Within(EntryCells, HeaderSize, Front) /\ AllApart(EntryCells)
  BY <1>2, EntryCellsPlaced
<1>4. Within({h}, 0, HeaderSize) /\ AllApart({h})
  <2>1. h.at = 0 /\ h.size = HeaderSize /\ End(h) = 0 + HeaderSize
    BY CellParts
  <2> HIDE DEF h
  <2> QED BY <2>1 DEF Within, AllApart, HeaderSize
<1> HIDE DEF h
<1>5. Within(EntryCells \cup {h}, 0, Front) /\ AllApart(EntryCells \cup {h})
  BY <1>2, <1>3, <1>4, Join
<1>6. Within(cells', 0, len) /\ AllApart(cells')
  <2>1. cells' = cells \cup (EntryCells \cup {h})
    BY <1>1
  <2> QED BY <1>2, <1>5, <2>1, Join
<1>7. UNCHANGED <<count, names, meta, strLen>> /\ Entries' = Entries /\ Front' = Front
      /\ UNCHANGED <<nameOffset, metaOffset, dataOffset, dataSize, offsets, buckets>>
  BY <1>1 DEF manifest, sections, Entries, Front
<1>8. \A c \in cells' : c.at \in Nat /\ c.size \in Nat /\ End(c) <= len'
  BY <1>1, <1>6 DEF Within
<1>9. ContainerTypeOK'
  BY <1>1, <1>7, <1>8 DEF LayoutInv, ContainerTypeOK, End
<1>10. SectionTypes'
  BY <1>1, <1>7 DEF LayoutInv, SectionTypes
<1>11. Laid'
  BY <1>1, <1>2, <1>6, <1>7 DEF Laid, Within, AllApart, Apart, End
<1> QED BY <1>9, <1>10, <1>11 DEF LayoutInv

LEMMA FailLayout ==
    ASSUME LayoutInv, CannotOpen \/ ShortRead
    PROVE  LayoutInv'
<1>1. /\ stage' = "failed" /\ len' = 0 /\ cells' = {}
      /\ UNCHANGED <<manifest, file, entry, pair, sections, fsize>>
  BY DEF CannotOpen, ShortRead, Fail
<1>2. UNCHANGED <<count, names, meta, strLen>> /\ Entries' = Entries /\ Front' = Front
      /\ UNCHANGED <<nameOffset, metaOffset, dataOffset, dataSize, offsets, buckets>>
  BY <1>1 DEF manifest, sections, Entries, Front
<1>3. ContainerTypeOK' /\ SectionTypes'
  BY <1>1, <1>2 DEF LayoutInv, ContainerTypeOK, SectionTypes
<1>4. Laid'
  BY <1>1 DEF Laid, Within, AllApart
<1> QED BY <1>3, <1>4 DEF LayoutInv

(* Nothing that happens outside touches the buffer.  *)
LEMMA OutsideLayout ==
    ASSUME LayoutInv, file' \in [Entries -> FileStates],
           UNCHANGED <<manifest, stage, entry, pair, len, cells, sections, fsize>>
    PROVE  LayoutInv'
<1>1. UNCHANGED <<count, names, meta, strLen>> /\ Entries' = Entries /\ Front' = Front
      /\ UNCHANGED <<nameOffset, metaOffset, dataOffset, dataSize, offsets, buckets>>
  BY DEF manifest, sections, Entries, Front
<1>2. ContainerTypeOK'
  BY <1>1 DEF LayoutInv, ContainerTypeOK, FileStates, End
<1>3. SectionTypes'
  BY <1>1 DEF LayoutInv, SectionTypes
<1>4. Laid'
  BY <1>1 DEF LayoutInv, Laid, Within, AllApart, Apart, End
<1> QED BY <1>2, <1>3, <1>4 DEF LayoutInv

LEMMA StepLayout == BuilderInv /\ LayoutInv /\ [BuildNext]_buildVars => LayoutInv'
<1> SUFFICES ASSUME BuilderInv, LayoutInv, [BuildNext]_buildVars
             PROVE  LayoutInv'
  OBVIOUS
<1>1. CASE BuilderNext
  BY <1>1, ReserveLayout, InternLayout, StringsDoneLayout, PassLayout,
     StartBlockLayout, WritePairLayout, WriteTableLayout, ReadLayout,
     FillFrontLayout, FailLayout DEF BuilderNext
<1>2. ASSUME NEW e \in Entries, Rewrite(e) \/ Remove(e)
      PROVE  LayoutInv'
  <2>1. UNCHANGED <<manifest, stage, entry, pair, len, cells, sections, fsize>>
    BY <1>2 DEF Rewrite, Remove, MayChange
  <2>2. Entries' = Entries
    BY <2>1 DEF manifest, Entries
  <2>3. file' \in [Entries -> FileStates]
    BY <1>2, <2>2, ChangeStep DEF BuilderInv, BuilderTypes
  <2> QED BY <2>1, <2>3, OutsideLayout
<1>3. CASE UNCHANGED buildVars
  <2>1. /\ file' = file
        /\ UNCHANGED <<manifest, stage, entry, pair, len, cells, sections, fsize>>
    BY <1>3 DEF buildVars
  <2>2. file' \in [Entries -> FileStates]
    BY <2>1 DEF BuilderInv, BuilderTypes
  <2> QED BY <2>1, <2>2, OutsideLayout
<1> QED BY <1>1, <1>2, <1>3 DEF BuildNext

LEMMA LayoutInvariant == BuildSpec => []LayoutInv
BY InitLayout, StepLayout, BuilderInvariant, PTL DEF BuildSpec

(* The builder's variables keep their types, and everything it writes lies  *)
(* inside the buffer, whatever the manifest and the length of its strings.   *)
THEOREM ContainerTypes == BuildSpec => []ContainerTypeOK
<1>1. LayoutInv => ContainerTypeOK
  BY DEF LayoutInv
<1> QED BY <1>1, LayoutInvariant, PTL

(* In every finished container no two sections, entries, strings or blocks   *)
(* share a byte, and what is read through pointers is aligned.               *)
THEOREM SectionsSound == BuildSpec => []LayoutSound
<1>1. LayoutInv => LayoutSound
  <2> SUFFICES ASSUME LayoutInv PROVE LayoutSound
    OBVIOUS
  <2>1. \A c, d \in cells : c = d \/ Apart(c, d)
    BY DEF LayoutInv, Laid, AllApart
  <2>2. offsets.table % 8 = 0 /\ offsets.data % 16 = 0
    BY LayoutFacts DEF Multiples
  <2>3. \A e \in Entries : metaOffset[e] % 8 = 0 /\ dataOffset[e] % 16 = 0
    BY LayoutFacts DEF Multiples
  <2> QED BY <2>1, <2>2, <2>3 DEF LayoutSound
<1> QED BY <1>1, LayoutInvariant, PTL

-----------------------------------------------------------------------------
(* How much of a container is left to build: the sections, the entries of   *)
(* the section at hand, and what is left of the entry - its pairs, or one   *)
(* of the two steps of its file - or, behind the last one, of the table's   *)
(* size.                                                                    *)
PairsLeft ==
    CASE stage = "pairs" -> Len(meta[entry]) - pair
      [] stage = "metadata" ->
           IF entry < count THEN Len(meta[entry]) + 1
           ELSE IF buckets < 2 * count THEN 2 * count - buckets
           ELSE 0
      [] stage = "data" -> 1
      [] OTHER -> 0
LeftToDo ==
    <<CASE stage = "front" -> 4
        [] stage = "strings" -> 3
        [] stage \in {"metadata", "pairs"} -> 2
        [] stage \in {"data", "read"} -> 1
        [] stage \in {"built", "failed"} -> 0,
      count - entry,
      PairsLeft>>

LEMMA LeftIsTriple == LayoutInv => LeftToDo \in Triples
<1> SUFFICES ASSUME LayoutInv PROVE LeftToDo \in Triples
  OBVIOUS
<1>1. count \in Nat /\ entry \in Nat /\ entry \in 0 .. count /\ buckets \in Nat
      /\ pair \in Nat /\ (stage = "pairs" => entry < count)
  BY LayoutFacts
<1>2. /\ stage \in {"front", "strings", "metadata", "pairs", "data", "read",
                     "built", "failed"}
      /\ stage = "pairs" => pair <= Len(meta[entry])
  BY DEF LayoutInv, ContainerTypeOK, SectionTypes
<1>3. count - entry \in Nat
  BY <1>1
<1>4. entry < count => Len(meta[entry]) \in Nat
  BY <1>1, MetaPairs DEF Entries
<1>5. PairsLeft \in Nat
  <2>1. CASE stage = "pairs"
    <3>1. Len(meta[entry]) - pair \in Nat
      BY <1>1, <1>2, <1>4, <2>1
    <3> QED BY <2>1, <3>1 DEF PairsLeft
  <2>2. CASE stage = "metadata" /\ entry < count
    BY <1>4, <2>2 DEF PairsLeft
  <2>3. CASE stage = "metadata" /\ entry = count
    <3>1. buckets < 2 * count => 2 * count - buckets \in Nat
      BY <1>1
    <3> QED BY <1>1, <2>3, <3>1 DEF PairsLeft
  <2>4. CASE stage \notin {"pairs", "metadata"}
    BY <2>4 DEF PairsLeft
  <2> QED BY <1>1, <2>1, <2>2, <2>3, <2>4
<1>6. LeftToDo[1] \in Nat
  BY <1>2 DEF LeftToDo
<1> QED BY <1>3, <1>5, <1>6 DEF LeftToDo, Triples

LEMMA StepLeavesLess == LayoutInv /\ BuilderNext => Less(LeftToDo', LeftToDo)
<1> SUFFICES ASSUME LayoutInv, BuilderNext PROVE Less(LeftToDo', LeftToDo)
  OBVIOUS
<1>1. count \in Nat /\ entry \in Nat /\ buckets \in Nat /\ buckets > 0
      /\ pair \in Nat
  BY LayoutFacts
<1>2. entry < count => Len(meta[entry]) \in Nat
  BY <1>1, MetaPairs DEF Entries
<1>3. CASE ReserveFront \/ StringsDone \/ WriteTable
  BY <1>3 DEF ReserveFront, StringsDone, WriteTable, LeftToDo, Less
<1>4. CASE InternKnown \/ InternNew \/ NoBlock \/ BlockDone \/ ReadFile
  <2>1. /\ entry' = entry + 1 /\ count' = count
        /\ \/ stage' = stage /\ stage \in {"strings", "metadata"}
           \/ stage = "pairs" /\ stage' = "metadata"
           \/ stage = "read" /\ stage' = "data"
    BY <1>4 DEF InternKnown, InternNew, NoBlock, BlockDone, ReadFile, manifest
  <2>2. count' - entry' < count - entry
    BY <1>1, <2>1
  <2>3. LeftToDo'[1] = LeftToDo[1]
    BY <2>1 DEF LeftToDo
  <2> QED BY <2>2, <2>3 DEF LeftToDo, Less
<1>5. CASE StartBlock
  <2>1. /\ stage = "metadata" /\ stage' = "pairs" /\ pair' = 0 /\ entry < count
        /\ entry' = entry /\ count' = count /\ meta' = meta
    BY <1>5 DEF StartBlock, manifest
  <2>2. PairsLeft = Len(meta[entry]) + 1 /\ PairsLeft' = Len(meta[entry]) - 0
    BY <2>1 DEF PairsLeft
  <2>3. PairsLeft' < PairsLeft
    BY <1>2, <2>1, <2>2
  <2> QED BY <2>1, <2>3 DEF LeftToDo, Less
<1>6. CASE WritePair
  <2>1. /\ stage = "pairs" /\ stage' = "pairs" /\ pair' = pair + 1
        /\ entry' = entry /\ count' = count /\ meta' = meta
    BY <1>6 DEF WritePair, manifest, sections
  <2>2. PairsLeft = Len(meta[entry]) - pair
        /\ PairsLeft' = Len(meta[entry]) - (pair + 1)
    BY <2>1 DEF PairsLeft
  <2>3. entry < count
    BY <2>1, LayoutFacts
  <2>4. PairsLeft' < PairsLeft
    BY <1>1, <1>2, <2>2, <2>3
  <2> QED BY <2>1, <2>4 DEF LeftToDo, Less
<1>7. CASE DoubleBuckets
  <2>1. /\ stage = "metadata" /\ stage' = "metadata" /\ entry = count
        /\ entry' = entry /\ count' = count
        /\ buckets < 2 * count /\ buckets' = 2 * buckets
    BY <1>7 DEF DoubleBuckets, manifest
  <2>2. PairsLeft = 2 * count - buckets
    BY <1>1, <2>1 DEF PairsLeft
  <2>3. PairsLeft' = IF buckets' < 2 * count THEN 2 * count - buckets' ELSE 0
    BY <1>1, <2>1 DEF PairsLeft
  <2>4. PairsLeft' < PairsLeft
    BY <1>1, <2>1, <2>2, <2>3
  <2> QED BY <2>1, <2>4 DEF LeftToDo, Less
<1>8. CASE MeasureFile
  <2>1. stage = "data" /\ stage' = "read" /\ entry' = entry /\ count' = count
    BY <1>8 DEF MeasureFile, manifest
  <2>2. PairsLeft = 1 /\ PairsLeft' = 0
    BY <2>1 DEF PairsLeft
  <2> QED BY <2>1, <2>2 DEF LeftToDo, Less
<1>9. CASE CannotOpen \/ ShortRead \/ FillFront
  BY <1>9 DEF CannotOpen, ShortRead, FillFront, Fail, LeftToDo, Less
<1> QED
  BY <1>3, <1>4, <1>5, <1>6, <1>7, <1>8, <1>9 DEF BuilderNext

(* Every step of elfrc_container_build leaves less to do, and whoever       *)
(* changes a file meanwhile gives it no more.                               *)
THEOREM BuilderDescends ==
    BuildSpec =>
        /\ [](LeftToDo \in Triples)
        /\ [][\/ Less(LeftToDo', LeftToDo)
              \/ LeftToDo' = LeftToDo /\ file' # file]_buildVars
<1>1. LayoutInv => LeftToDo \in Triples
  BY LeftIsTriple
<1>2. BuilderInv /\ LayoutInv /\ [BuildNext]_buildVars =>
        [\/ Less(LeftToDo', LeftToDo)
         \/ LeftToDo' = LeftToDo /\ file' # file]_buildVars
  <2> SUFFICES ASSUME BuilderInv, LayoutInv, BuildNext
               PROVE  \/ Less(LeftToDo', LeftToDo)
                      \/ LeftToDo' = LeftToDo /\ file' # file
    OBVIOUS
  <2>1. CASE BuilderNext
    BY <2>1, StepLeavesLess
  <2>2. CASE \E e \in Entries : Rewrite(e) \/ Remove(e)
    <3>1. PICK e \in Entries : Rewrite(e) \/ Remove(e)
      BY <2>2
    <3>2. LeftToDo' = LeftToDo
      BY <3>1 DEF Rewrite, Remove, MayChange, manifest, sections, LeftToDo, PairsLeft
    <3>3. file'[e].version = file[e].version + 1
      BY <3>1 DEF Rewrite, Remove, BuilderInv, BuilderTypes, FileStates
    <3>4. file[e].version \in Nat
      BY FileNat DEF BuilderInv, BuilderTypes
    <3>5. file' # file
      BY <3>3, <3>4
    <3> QED BY <3>2, <3>5
  <2> QED BY <2>1, <2>2 DEF BuildNext
<1> QED BY <1>1, <1>2, BuilderInvariant, LayoutInvariant, PTL DEF BuildSpec

=============================================================================
