------------------------------ MODULE ErfReader_proofs ------------------------------
(***************************************************************************)
(* Proofs about libelfr on containers of elfrc, for any manifest, any      *)
(* lengths and any damaged field: what the builder wrote is what the       *)
(* reader finds.  The first part says what a finished container holds and  *)
(* that no address in it is ambiguous; the second follows the reader.      *)
(***************************************************************************)
EXTENDS ErfReader, ContainerBuild_proofs

EntryRecord == [name : Nat, data : Nat, size : Nat, meta : Nat]

(* Only the data of an empty file takes no room. *)
Good(c) ==
    /\ c.holds[1] # "data" => c.size > 0
    /\ c.holds[1] = "u32" => c.holds[2] \in Nat
    /\ c.holds[1] = "entry" => c.holds[2] \in EntryRecord
Solid == \A c \in cells : Good(c)

Named(e) ==
    \E c \in cells : /\ c.at = nameOffset[e]
                     /\ c.size = strLen[names[e]] + 1
                     /\ c.holds = <<"text", names[e]>>

NamesWritten ==
    /\ stage = "front" => entry = 0
    /\ stage = "strings" => \A e \in 0 .. entry - 1 : Named(e)
    /\ stage \in {"metadata", "pairs", "data", "read", "built"} =>
          \A e \in Entries : Named(e)

(* The data cells are those of the entries read so far. *)
DataKnown ==
    \A c \in cells : c.holds[1] = "data" =>
        /\ stage \in {"data", "read", "built"}
        /\ c.holds[2].of \in 0 .. entry - 1
        /\ c.at = dataOffset[c.holds[2].of]
        /\ c.size = dataSize[c.holds[2].of]

(* A metadata block: the number of pairs, then each pair where the lengths   *)
(* of the one before lead to.                                                *)
PairCells(p, at) ==
    {Cell(at, 4, "u32", strLen[p[1]]),
     Cell(at + 4, strLen[p[1]] + 1, "text", p[1]),
     Cell(at + 5 + strLen[p[1]], 4, "u32", strLen[p[2]]),
     Cell(at + 9 + strLen[p[1]], strLen[p[2]] + 1, "text", p[2])}
PairSize(p) == 10 + strLen[p[1]] + strLen[p[2]]

Chain(e, n, a) ==
    /\ a[0] = metaOffset[e] + 4
    /\ \A j \in 0 .. n - 1 :
          /\ PairCells(meta[e][j + 1], a[j]) \subseteq cells
          /\ a[j + 1] = a[j] + PairSize(meta[e][j + 1])
Counted(e) ==
    metaOffset[e] # 0 /\ Cell(metaOffset[e], 4, "u32", Len(meta[e])) \in cells
BlockWritten(e) ==
    meta[e] # <<>> =>
        Counted(e) /\ \E a \in [0 .. Len(meta[e]) -> Nat] : Chain(e, Len(meta[e]), a)

BlocksWritten ==
    /\ \A e \in Entries : meta[e] = <<>> => metaOffset[e] = 0
    /\ stage \in {"metadata", "pairs"} => \A e \in 0 .. entry - 1 : BlockWritten(e)
    /\ stage = "pairs" =>
          /\ meta[entry] # <<>> /\ Counted(entry)
          /\ \E a \in [0 .. pair -> Nat] : Chain(entry, pair, a) /\ a[pair] = len
    /\ stage \in {"data", "read", "built"} => \A e \in Entries : BlockWritten(e)

FrontWritten ==
    /\ stage \in {"strings", "metadata", "pairs", "data", "read", "built"} =>
          offsets.strings <= len
    /\ stage \in {"data", "read", "built"} =>
          /\ Cell(offsets.table, TableHeaderSize, "u32", buckets) \in cells
          /\ offsets.table + TableHeaderSize + buckets * BucketSize <= len
    /\ stage = "built" =>
          /\ Cell(0, HeaderSize, "header", Header) \in cells
          /\ EntryCells \subseteq cells

Contents == Solid /\ NamesWritten /\ DataKnown /\ BlocksWritten /\ FrontWritten

-----------------------------------------------------------------------------
(* What any step of the build leaves alone. *)
LEMMA StepGrows ==
    ASSUME BuilderNext
    PROVE  /\ UNCHANGED manifest
           /\ Entries' = Entries
           /\ stage' # "failed" => cells \subseteq cells'
           /\ stage # "built" /\ stage' # "front"
BY DEF BuilderNext, ReserveFront, InternKnown, InternNew, StringsDone, NoBlock,
   StartBlock, WritePair, BlockDone, DoubleBuckets, WriteTable, CannotOpen,
   MeasureFile, ShortRead, ReadFile, FillFront, Fail, manifest, Entries


(* A container stays what it is as long as the builder's own variables do.   *)
Built == <<manifest, stage, entry, pair, len, cells, sections>>

LEMMA SameContents == ASSUME Contents, UNCHANGED Built PROVE Contents'
<1>1. /\ UNCHANGED <<count, names, meta, strLen, stage, entry, pair, len, cells>>
      /\ UNCHANGED <<nameOffset, metaOffset, dataOffset, dataSize, offsets, buckets>>
      /\ Entries' = Entries
  BY DEF Built, manifest, sections, Entries
<1>2. Solid' /\ DataKnown'
  BY <1>1 DEF Contents, Solid, Good, DataKnown
<1>3. NamesWritten'
  BY <1>1 DEF Contents, NamesWritten, Named
<1>4. BlocksWritten'
  <2>1. \A p, at : PairCells(p, at)' = PairCells(p, at) /\ PairSize(p)' = PairSize(p)
    BY <1>1 DEF PairCells, PairSize
  <2>2. \A e, n, a : Chain(e, n, a)' = Chain(e, n, a)
    BY <1>1, <2>1 DEF Chain
  <2>3. \A e : Counted(e)' = Counted(e)
    BY <1>1 DEF Counted
  <2>4. \A e : BlockWritten(e)' = BlockWritten(e)
    BY <1>1, <2>2, <2>3 DEF BlockWritten
  <2> QED BY <1>1, <2>2, <2>3, <2>4 DEF Contents, BlocksWritten
<1>5. FrontWritten'
  <2>1. Header' = Header
    BY <1>1 DEF Header, Flags, AnyMetadata, Localized
  <2>2. EntryCells' = EntryCells
    BY <1>1 DEF EntryCells, DirectoryEntry
  <2> QED BY <1>1, <2>1, <2>2 DEF Contents, FrontWritten
<1> QED BY <1>2, <1>3, <1>4, <1>5 DEF Contents

LEMMA OutsideSame ==
    ASSUME NEW e \in Entries, Rewrite(e) \/ Remove(e)
    PROVE  UNCHANGED Built
<1>1. MayChange(e)
  BY DEF Rewrite, Remove
<1> QED BY <1>1 DEF MayChange, Built

LEMMA StutterSame == UNCHANGED buildVars => UNCHANGED Built
BY DEF buildVars, Built

LEMMA FailedContents == ASSUME LayoutInv, Contents, CannotOpen \/ ShortRead PROVE Contents'
<1>1. /\ stage' = "failed" /\ cells' = {}
      /\ UNCHANGED <<manifest, entry, sections>>
  BY DEF CannotOpen, ShortRead, Fail
<1>2. UNCHANGED <<meta, metaOffset>> /\ Entries' = Entries
  BY <1>1 DEF manifest, sections, Entries
<1>3. BlocksWritten'
  BY <1>1, <1>2 DEF Contents, BlocksWritten
<1>4. Solid' /\ NamesWritten' /\ DataKnown' /\ FrontWritten'
  BY <1>1 DEF Solid, NamesWritten, DataKnown, FrontWritten
<1> QED BY <1>3, <1>4 DEF Contents

(* ---- Solid ---- *)
LEMMA StepSolid == ASSUME LayoutInv, Solid, BuilderNext PROVE Solid'
<1> SUFFICES \A c \in cells' : Good(c)
  BY DEF Solid, Good
<1>1. CASE cells' \subseteq cells
  BY <1>1 DEF Solid
<1>2. CASE InternNew
  <2> DEFINE k == strLen[names[entry]]
             c == Cell(len, k + 1, "text", names[entry])
  <2>1. cells' = cells \cup {c} /\ entry \in Entries
    BY <1>2, LayoutFacts DEF InternNew, Entries
  <2>2. k \in Nat
    <3>1. names[entry] \in Names
      BY <2>1 DEF LayoutInv, ContainerTypeOK
    <3> QED BY <3>1, StrLenNat DEF LayoutInv, ContainerTypeOK
  <2> HIDE DEF k
  <2>3. c.size = k + 1 /\ c.holds[1] = "text"
    BY CellParts
  <2> HIDE DEF c
  <2>4. k + 1 > 0
    BY <2>2
  <2>5. Good(c)
    BY <2>3, <2>4 DEF Good
  <2> QED BY <2>1, <2>5 DEF Solid
<1>3. CASE StartBlock
  <2> DEFINE n == Len(meta[entry])
             c == Cell(Align(len, 8), 4, "u32", n)
  <2>1. cells' = cells \cup {c} /\ entry \in Entries
    BY <1>3, LayoutFacts DEF StartBlock, Entries
  <2>2. n \in Nat
    BY <2>1, MetaPairs
  <2> HIDE DEF n
  <2>3. c.size = 4 /\ c.holds = <<"u32", n>>
    BY CellParts
  <2> HIDE DEF c
  <2>4. Good(c)
    BY <2>2, <2>3 DEF Good
  <2> QED BY <2>1, <2>4 DEF Solid
<1>4. CASE WritePair
  <2> DEFINE p == meta[entry][pair + 1]
             k == strLen[p[1]]
             v == strLen[p[2]]
             c1 == Cell(len, 4, "u32", k)
             c2 == Cell(len + 4, k + 1, "text", p[1])
             c3 == Cell(len + 5 + k, 4, "u32", v)
             c4 == Cell(len + 9 + k, v + 1, "text", p[2])
  <2>1. cells' = cells \cup {c1, c2, c3, c4}
    BY <1>4 DEF WritePair, Recorded
  <2>2. k \in Nat /\ v \in Nat
    BY <1>4, PairLengths
  <2> HIDE DEF p, k, v
  <2>3. /\ c1.size = 4 /\ c1.holds = <<"u32", k>>
        /\ c2.size = k + 1 /\ c2.holds = <<"text", p[1]>>
        /\ c3.size = 4 /\ c3.holds = <<"u32", v>>
        /\ c4.size = v + 1 /\ c4.holds = <<"text", p[2]>>
    BY CellParts
  <2> HIDE DEF c1, c2, c3, c4
  <2>4. k + 1 > 0 /\ v + 1 > 0
    BY <2>2
  <2>5. \A c \in {c1, c2, c3, c4} : Good(c)
    BY <2>2, <2>3, <2>4 DEF Good
  <2> QED BY <2>1, <2>5 DEF Solid
<1>5. CASE WriteTable
  <2> DEFINE start == Align(len, 8)
             c1 == Cell(start, TableHeaderSize, "u32", buckets)
             c2 == Cell(start + TableHeaderSize, buckets * BucketSize, "table", buckets)
  <2>1. cells' = cells \cup {c1, c2}
    BY <1>5 DEF WriteTable
  <2>2. /\ c1.size = TableHeaderSize /\ c1.holds = <<"u32", buckets>>
        /\ c2.size = buckets * BucketSize /\ c2.holds = <<"table", buckets>>
    BY CellParts
  <2> HIDE DEF c1, c2
  <2>3. buckets \in Nat \ {0}
    BY LayoutFacts
  <2>4. TableHeaderSize > 0 /\ buckets * BucketSize > 0
    BY <2>3 DEF TableHeaderSize, BucketSize
  <2>5. \A c \in {c1, c2} : Good(c)
    BY <2>2, <2>3, <2>4 DEF Good
  <2> QED BY <2>1, <2>5 DEF Solid
<1>6. CASE ReadFile
  <2> DEFINE x == [of |-> entry, had |-> file[entry].size]
             c == Cell(Align(len, 16), fsize, "data", x)
  <2>1. cells' = cells \cup {c}
    BY <1>6 DEF ReadFile
  <2>2. c.holds[1] = "data"
    BY CellParts
  <2> HIDE DEF c
  <2>3. Good(c)
    BY <2>2 DEF Good
  <2> QED BY <2>1, <2>3 DEF Solid
<1>7. CASE FillFront
  <2> DEFINE h == Cell(0, HeaderSize, "header", Header)
             E(e) == Cell(offsets.directory + e * EntrySize, EntrySize, "entry",
                          DirectoryEntry(e))
  <2>1. cells' = cells \cup (EntryCells \cup {h})
    BY <1>7 DEF FillFront
  <2>2. h.size = 160 /\ h.holds[1] = "header"
    BY CellParts DEF HeaderSize
  <2>3. ASSUME NEW e \in Entries
        PROVE  Good(E(e))
    <3>1. E(e).size = 128 /\ E(e).holds = <<"entry", DirectoryEntry(e)>>
      BY CellParts DEF EntrySize
    <3>2. DirectoryEntry(e) \in EntryRecord
      <4>1. /\ nameOffset[e] \in Nat /\ dataOffset[e] \in Nat
            /\ dataSize[e] \in Nat /\ metaOffset[e] \in Nat
        BY LayoutFacts DEF Multiples
      <4> QED BY <4>1 DEF DirectoryEntry, EntryRecord
    <3> HIDE DEF E
    <3> QED BY <3>1, <3>2 DEF Good
  <2>4. EntryCells = {E(e) : e \in Entries}
    BY DEF EntryCells
  <2> HIDE DEF h, E
  <2>5. \A c \in EntryCells \cup {h} : Good(c)
    BY <2>2, <2>3, <2>4 DEF Good
  <2> QED BY <2>1, <2>5 DEF Solid
<1>8. CASE \/ ReserveFront \/ InternKnown \/ StringsDone \/ NoBlock \/ BlockDone
           \/ DoubleBuckets \/ CannotOpen \/ MeasureFile \/ ShortRead
  <2>1. cells' \subseteq cells
    BY <1>8 DEF ReserveFront, InternKnown, StringsDone, NoBlock, BlockDone,
       DoubleBuckets, CannotOpen, MeasureFile, ShortRead, Fail
  <2> QED BY <1>1, <2>1
<1> QED BY <1>2, <1>3, <1>4, <1>5, <1>6, <1>7, <1>8 DEF BuilderNext

(* ---- NamesWritten and DataKnown ---- *)
(* A name written stays where it is. *)
LEMMA NamedKept ==
    ASSUME NEW e, Named(e), UNCHANGED manifest, cells \subseteq cells',
           nameOffset'[e] = nameOffset[e]
    PROVE  Named(e)'
BY DEF Named, manifest

LEMMA StepNames == ASSUME LayoutInv, NamesWritten, BuilderNext PROVE NamesWritten'
<1>1. /\ UNCHANGED <<names, strLen>> /\ UNCHANGED manifest
      /\ Entries' = Entries /\ stage' # "front"
      /\ stage' # "failed" => cells \subseteq cells'
  BY StepGrows DEF manifest
<1>2. CASE stage' = "failed"
  BY <1>2 DEF NamesWritten
<1>3. CASE ReserveFront
  <2>1. stage' = "strings" /\ entry' = 0
    BY <1>3 DEF ReserveFront, NamesWritten
  <2> QED BY <2>1 DEF NamesWritten
<1>4. CASE InternKnown \/ InternNew
  <2>1. /\ stage = "strings" /\ stage' = "strings"
        /\ entry \in Entries /\ entry' = entry + 1 /\ entry \in Nat
    BY <1>4, LayoutFacts DEF InternKnown, InternNew, Entries
  <2>2. \A e \in Entries : e # entry => nameOffset'[e] = nameOffset[e]
    <3>1. \E n : nameOffset' = [nameOffset EXCEPT ![entry] = n]
      BY <1>4 DEF InternKnown, InternNew
    <3> QED BY <3>1, LayoutFacts
  <2>3. \A e \in 0 .. entry - 1 : Named(e) /\ e \in Entries /\ e # entry
    BY <2>1, LayoutFacts DEF NamesWritten, Entries
  <2>4. ASSUME NEW i, i = entry PROVE Named(i)'
    <3>1. CASE InternKnown
      <4>1. PICK e \in 0 .. entry - 1 :
               names[e] = names[entry]
               /\ nameOffset' = [nameOffset EXCEPT ![entry] = nameOffset[e]]
        BY <3>1 DEF InternKnown
      <4>2. nameOffset'[entry] = nameOffset[e]
        BY <2>1, <4>1, LayoutFacts
      <4>3. Named(e)
        BY <2>3, <4>1
      <4>4. cells' = cells
        BY <3>1 DEF InternKnown
      <4> QED BY <1>1, <2>1, <4>1, <4>2, <4>3, <4>4, <2>4 DEF Named
    <3>2. CASE InternNew
      <4> DEFINE c == Cell(len, strLen[names[entry]] + 1, "text", names[entry])
      <4>1. cells' = cells \cup {c} /\ nameOffset' = [nameOffset EXCEPT ![entry] = len]
        BY <3>2 DEF InternNew
      <4>2. nameOffset'[entry] = len
        BY <2>1, <4>1, LayoutFacts
      <4>3. /\ c.at = len /\ c.size = strLen[names[entry]] + 1
            /\ c.holds = <<"text", names[entry]>>
        BY CellParts
      <4> HIDE DEF c
      <4> QED BY <1>1, <2>1, <2>4, <4>1, <4>2, <4>3 DEF Named
    <3> QED BY <1>4, <3>1, <3>2
  <2>5. \A e \in 0 .. entry - 1 : Named(e)'
    BY <1>1, <2>1, <2>2, <2>3, NamedKept
  <2>6. \A e \in 0 .. entry' - 1 : e = entry \/ e \in 0 .. entry - 1
    BY <2>1
  <2> QED BY <2>1, <2>4, <2>5, <2>6 DEF NamesWritten
<1>5. CASE StringsDone
  <2>1. /\ stage = "strings" /\ entry = count /\ stage' = "metadata"
        /\ UNCHANGED nameOffset
    BY <1>5 DEF StringsDone
  <2>2. \A e \in Entries : Named(e)
    BY <2>1 DEF NamesWritten, Entries
  <2>3. \A e \in Entries : Named(e)'
    BY <1>1, <2>1, <2>2, NamedKept
  <2> QED BY <1>1, <2>1, <2>3 DEF NamesWritten
<1>6. CASE /\ stage \in {"metadata", "pairs", "data", "read", "built"}
           /\ stage' \in {"metadata", "pairs", "data", "read", "built"}
           /\ UNCHANGED nameOffset
  <2>1. \A e \in Entries : Named(e)
    BY <1>6 DEF NamesWritten
  <2>2. \A e \in Entries : Named(e)'
    BY <1>1, <1>6, <2>1, NamedKept
  <2> QED BY <1>1, <1>6, <2>2 DEF NamesWritten
<1>7. CASE CannotOpen \/ ShortRead
  BY <1>2, <1>7 DEF CannotOpen, ShortRead, Fail
<1>8. CASE NoBlock \/ StartBlock \/ WritePair \/ BlockDone \/ DoubleBuckets
           \/ WriteTable \/ MeasureFile \/ ReadFile \/ FillFront
  BY <1>6, <1>8 DEF NoBlock, StartBlock, WritePair, BlockDone, DoubleBuckets,
     WriteTable, MeasureFile, ReadFile, FillFront, sections
<1> QED BY <1>3, <1>4, <1>5, <1>7, <1>8 DEF BuilderNext

LEMMA StepData == ASSUME LayoutInv, DataKnown, BuilderNext PROVE DataKnown'
<1> DEFINE Told(c) == /\ c.holds[2].of \in 0 .. entry - 1
                      /\ c.at = dataOffset[c.holds[2].of]
                      /\ c.size = dataSize[c.holds[2].of]
<1>1. CASE /\ \A c \in cells' : c.holds[1] = "data" => c \in cells
           /\ stage \notin {"data", "read", "built"}
  BY <1>1 DEF DataKnown
<1>2. CASE /\ \A c \in cells' : c.holds[1] = "data" => c \in cells
           /\ stage' \in {"data", "read", "built"}
           /\ UNCHANGED <<entry, dataOffset, dataSize>>
  BY <1>2 DEF DataKnown
<1>3. CASE cells' = {}
  BY <1>3 DEF DataKnown
<1>4. CASE cells' = cells /\ stage \notin {"data", "read", "built"}
  BY <1>1, <1>4
<1>5. CASE InternNew
  <2> DEFINE c == Cell(len, strLen[names[entry]] + 1, "text", names[entry])
  <2>1. cells' = cells \cup {c} /\ stage = "strings"
    BY <1>5 DEF InternNew
  <2>2. c.holds[1] # "data"
    BY CellParts
  <2> HIDE DEF c
  <2> QED BY <1>1, <2>1, <2>2
<1>6. CASE StartBlock
  <2> DEFINE c == Cell(Align(len, 8), 4, "u32", Len(meta[entry]))
  <2>1. cells' = cells \cup {c} /\ stage = "metadata"
    BY <1>6 DEF StartBlock
  <2>2. c.holds[1] # "data"
    BY CellParts
  <2> HIDE DEF c
  <2> QED BY <1>1, <2>1, <2>2
<1>7. CASE WritePair
  <2> DEFINE p == meta[entry][pair + 1]
             c1 == Cell(len, 4, "u32", Recorded(p[1]))
             c2 == Cell(len + 4, strLen[p[1]] + 1, "text", p[1])
             c3 == Cell(len + 5 + strLen[p[1]], 4, "u32", Recorded(p[2]))
             c4 == Cell(len + 9 + strLen[p[1]], strLen[p[2]] + 1, "text", p[2])
  <2>1. cells' = cells \cup {c1, c2, c3, c4} /\ stage = "pairs"
    BY <1>7 DEF WritePair
  <2>2. /\ c1.holds[1] # "data" /\ c2.holds[1] # "data"
        /\ c3.holds[1] # "data" /\ c4.holds[1] # "data"
    <3> HIDE DEF p
    <3> QED BY CellParts
  <2> HIDE DEF c1, c2, c3, c4
  <2> QED BY <1>1, <2>1, <2>2
<1>8. CASE WriteTable
  <2> DEFINE start == Align(len, 8)
             c1 == Cell(start, TableHeaderSize, "u32", buckets)
             c2 == Cell(start + TableHeaderSize, buckets * BucketSize, "table", buckets)
  <2>1. cells' = cells \cup {c1, c2} /\ stage = "metadata"
    BY <1>8 DEF WriteTable
  <2>2. c1.holds[1] # "data" /\ c2.holds[1] # "data"
    BY CellParts
  <2> HIDE DEF c1, c2
  <2> QED BY <1>1, <2>1, <2>2
<1>9. CASE ReadFile
  <2> DEFINE x == [of |-> entry, had |-> file[entry].size]
             c == Cell(Align(len, 16), fsize, "data", x)
  <2>1. /\ stage = "read" /\ stage' = "data" /\ entry' = entry + 1
        /\ entry \in Entries /\ entry \in Nat
        /\ cells' = cells \cup {c}
        /\ dataOffset' = [dataOffset EXCEPT ![entry] = Align(len, 16)]
        /\ dataSize' = [dataSize EXCEPT ![entry] = fsize]
    BY <1>9, LayoutFacts DEF ReadFile, Entries
  <2>2. c.at = dataOffset'[entry] /\ c.size = dataSize'[entry] /\ c.holds[2].of = entry
    BY <2>1, LayoutFacts, CellParts
  <2>3. \A i \in 0 .. entry - 1 :
           /\ i \in Entries /\ i # entry /\ i \in 0 .. entry' - 1
           /\ dataOffset'[i] = dataOffset[i] /\ dataSize'[i] = dataSize[i]
    BY <2>1, LayoutFacts DEF Entries
  <2>4. entry \in 0 .. entry' - 1
    BY <2>1
  <2> HIDE DEF c
  <2>5. \A d \in cells : d.holds[1] = "data" => Told(d)
    BY DEF DataKnown
  <2>6. \A d \in cells' : d.holds[1] = "data" =>
           /\ d.holds[2].of \in 0 .. entry' - 1
           /\ d.at = dataOffset'[d.holds[2].of]
           /\ d.size = dataSize'[d.holds[2].of]
    BY <2>1, <2>2, <2>3, <2>4, <2>5
  <2> QED BY <2>1, <2>6 DEF DataKnown
<1>10. CASE FillFront
  <2> DEFINE h == Cell(0, HeaderSize, "header", Header)
             E(e) == Cell(offsets.directory + e * EntrySize, EntrySize, "entry",
                          DirectoryEntry(e))
  <2>1. /\ cells' = cells \cup EntryCells \cup {h} /\ stage' = "built"
        /\ UNCHANGED <<entry, dataOffset, dataSize>>
    BY <1>10 DEF FillFront, sections
  <2>2. h.holds[1] # "data"
    BY CellParts
  <2>3. \A e \in Entries : E(e).holds[1] # "data"
    BY CellParts
  <2>4. EntryCells = {E(e) : e \in Entries}
    BY DEF EntryCells
  <2> HIDE DEF h, E
  <2>5. \A c \in cells' : c.holds[1] = "data" => c \in cells
    BY <2>1, <2>2, <2>3, <2>4
  <2> QED BY <1>2, <2>1, <2>5
<1>11. CASE CannotOpen \/ ShortRead
  BY <1>3, <1>11 DEF CannotOpen, ShortRead, Fail
<1>12. CASE MeasureFile
  <2>1. /\ cells' = cells /\ stage' = "read"
        /\ UNCHANGED <<entry, dataOffset, dataSize>>
    BY <1>12 DEF MeasureFile, sections
  <2> QED BY <1>2, <2>1
<1>13. CASE ReserveFront \/ InternKnown \/ StringsDone \/ NoBlock \/ BlockDone
            \/ DoubleBuckets
  BY <1>4, <1>13 DEF ReserveFront, InternKnown, StringsDone, NoBlock, BlockDone,
     DoubleBuckets
<1> QED BY <1>5, <1>6, <1>7, <1>8, <1>9, <1>10, <1>11, <1>12, <1>13 DEF BuilderNext

(* ---- BlocksWritten ---- *)
(* A block stays what it is as the buffer grows. *)
LEMMA ChainKept ==
    ASSUME NEW e, NEW n \in Nat, NEW a, Chain(e, n, a), UNCHANGED manifest,
           cells \subseteq cells', metaOffset'[e] = metaOffset[e]
    PROVE  Chain(e, n, a)'
<1>1. UNCHANGED <<meta, strLen>>
  BY DEF manifest
<1>2. \A p, at : PairCells(p, at)' = PairCells(p, at) /\ PairSize(p)' = PairSize(p)
  BY <1>1 DEF PairCells, PairSize
<1> QED BY <1>1, <1>2 DEF Chain

LEMMA CountedKept ==
    ASSUME NEW e, Counted(e), UNCHANGED manifest, cells \subseteq cells',
           metaOffset'[e] = metaOffset[e]
    PROVE  Counted(e)'
BY DEF Counted, manifest

LEMMA BlockKept ==
    ASSUME LayoutInv, NEW e \in Entries, BlockWritten(e), UNCHANGED manifest,
           cells \subseteq cells', metaOffset'[e] = metaOffset[e]
    PROVE  BlockWritten(e)'
<1>1. UNCHANGED meta
  BY DEF manifest
<1> SUFFICES ASSUME meta[e] # <<>>
             PROVE  Counted(e)' /\ \E a \in [0 .. Len(meta[e]) -> Nat] :
                                      Chain(e, Len(meta[e]), a)'
  BY <1>1 DEF BlockWritten
<1>2. Counted(e)'
  BY CountedKept DEF BlockWritten
<1>3. PICK a \in [0 .. Len(meta[e]) -> Nat] : Chain(e, Len(meta[e]), a)
  BY DEF BlockWritten
<1>4. Len(meta[e]) \in Nat
  BY MetaPairs
<1> DEFINE n == Len(meta[e])
<1>5. Chain(e, n, a)'
  <2>1. n \in Nat /\ Chain(e, n, a)
    BY <1>3, <1>4
  <2>2. n' = n
    BY <1>1
  <2>3. ASSUME NEW m \in Nat, Chain(e, m, a)
        PROVE  Chain(e, m, a)'
    BY <2>3, ChainKept
  <2> HIDE DEF n
  <2> QED BY <2>1, <2>2, <2>3
<1> QED BY <1>1, <1>2, <1>3, <1>5

(* Blocks of entries whose offset is not touched.  *)
LEMMA BlocksKept ==
    ASSUME LayoutInv, UNCHANGED manifest, cells \subseteq cells',
           NEW S \in SUBSET Entries, \A e \in S : BlockWritten(e),
           \A e \in S : metaOffset'[e] = metaOffset[e]
    PROVE  \A e \in S : BlockWritten(e)'
BY BlockKept

LEMMA StepBlocks == ASSUME LayoutInv, BlocksWritten, BuilderNext PROVE BlocksWritten'
<1>1. /\ UNCHANGED <<count, meta, strLen>> /\ UNCHANGED manifest
      /\ Entries' = Entries
      /\ stage' # "failed" => cells \subseteq cells'
  BY StepGrows DEF manifest
<1>2. ASSUME UNCHANGED metaOffset, stage' \in {"strings", "failed"}
      PROVE  BlocksWritten'
  BY <1>1, <1>2 DEF BlocksWritten
<1>3. ASSUME UNCHANGED metaOffset, NEW S \in SUBSET Entries,
             stage' # "failed", \A e \in S : BlockWritten(e)
      PROVE  \A e \in S : BlockWritten(e)'
  BY <1>1, <1>3, BlocksKept
<1>4. CASE ReserveFront \/ InternKnown \/ InternNew \/ CannotOpen \/ ShortRead
  <2>1. UNCHANGED metaOffset /\ stage' \in {"strings", "failed"}
    BY <1>4 DEF ReserveFront, InternKnown, InternNew, CannotOpen, ShortRead, Fail,
       sections
  <2> QED BY <1>2, <2>1
<1>5. CASE StringsDone
  <2>1. UNCHANGED metaOffset /\ stage' = "metadata" /\ entry' = 0
    BY <1>5 DEF StringsDone
  <2>2. 0 .. entry' - 1 = {}
    BY <2>1
  <2> QED BY <1>1, <2>1, <2>2 DEF BlocksWritten
<1>6. CASE NoBlock
  <2>1. /\ UNCHANGED metaOffset /\ stage = "metadata" /\ stage' = "metadata"
        /\ entry' = entry + 1 /\ entry \in Entries /\ entry \in Nat
        /\ meta[entry] = <<>>
    BY <1>6, LayoutFacts DEF NoBlock, sections, Entries
  <2> DEFINE S == 0 .. entry' - 1
  <2>2. S \subseteq Entries /\ \A e \in S : e = entry \/ e \in 0 .. entry - 1
    <3>1. count \in Nat
      BY LayoutFacts
    <3> QED BY <2>1, <3>1 DEF Entries
  <2>3. \A e \in S : BlockWritten(e)
    BY <2>1, <2>2 DEF BlocksWritten, BlockWritten
  <2>4. \A e \in S : BlockWritten(e)'
    <3> HIDE DEF S
    <3> QED BY <1>3, <2>1, <2>2, <2>3
  <2> QED BY <1>1, <2>1, <2>4 DEF BlocksWritten
<1>7. CASE StartBlock
  <2> DEFINE start == Align(len, 8)
             c == Cell(start, 4, "u32", Len(meta[entry]))
             S == 0 .. entry - 1
  <2>1. /\ stage = "metadata" /\ stage' = "pairs" /\ entry < count
        /\ entry' = entry /\ meta[entry] # <<>> /\ pair' = 0
        /\ metaOffset' = [metaOffset EXCEPT ![entry] = start]
        /\ cells' = cells \cup {c} /\ len' = start + 4
    BY <1>7 DEF StartBlock
  <2>2. start \in Nat /\ start # 0
    <3>1. len \in Nat /\ Front <= len /\ Front \in Nat /\ HeaderSize <= Front
      BY <2>1, LayoutFacts
    <3>2. start \in Nat /\ len <= start
      BY <3>1, AlignFacts DEF Multiples
    <3> HIDE DEF start
    <3> QED BY <3>1, <3>2 DEF HeaderSize
  <2> HIDE DEF start
  <2>3. entry \in Entries /\ S \subseteq Entries /\ entry \notin S
    <3>1. entry \in Nat /\ count \in Nat
      BY LayoutFacts
    <3> QED BY <2>1, <3>1 DEF Entries
  <2>4. /\ metaOffset'[entry] = start
        /\ \A e \in Entries : e # entry => metaOffset'[e] = metaOffset[e]
    BY <2>1, <2>3, LayoutFacts
  <2>5. \A e \in S : BlockWritten(e)'
    <3>1. \A e \in S : BlockWritten(e)
      BY <2>1 DEF BlocksWritten
    <3>2. \A e \in S : metaOffset'[e] = metaOffset[e]
      BY <2>3, <2>4
    <3> HIDE DEF S
    <3> QED BY <1>1, <2>1, <2>3, <3>1, <3>2, BlocksKept
  <2>6. Counted(entry)'
    BY <1>1, <2>1, <2>2, <2>4 DEF Counted
  <2>7. PICK a \in [0 .. pair' -> Nat] : a[0] = start + 4
    <3>1. [j \in 0 .. pair' |-> start + 4] \in [0 .. pair' -> Nat]
      BY <2>2
    <3>2. 0 \in 0 .. pair'
      BY <2>1
    <3> QED BY <3>1, <3>2
  <2>8. Chain(entry, pair, a)' /\ a[pair'] = len'
    <3>1. 0 .. pair' - 1 = {}
      BY <2>1
    <3> QED BY <2>1, <2>4, <2>7, <3>1 DEF Chain
  <2>9. \A e \in Entries : meta[e] = <<>> => metaOffset'[e] = 0
    BY <2>1, <2>3, <2>4 DEF BlocksWritten
  <2> QED BY <1>1, <2>1, <2>5, <2>6, <2>7, <2>8, <2>9 DEF BlocksWritten
<1>8. CASE WritePair
  <2> DEFINE p == meta[entry][pair + 1]
             S == 0 .. entry - 1
  <2>1. /\ stage = "pairs" /\ stage' = "pairs" /\ entry' = entry
        /\ pair < Len(meta[entry]) /\ pair' = pair + 1
        /\ UNCHANGED metaOffset
    BY <1>8 DEF WritePair, sections
  <2>2. PairCells(p, len) \subseteq cells'
    BY <1>8 DEF WritePair, PairCells, Recorded
  <2>3. len' = len + PairSize(p)
    <3>1. len' = len + 10 + strLen[p[1]] + strLen[p[2]]
      BY <1>8 DEF WritePair
    <3>2. len \in Nat /\ strLen[p[1]] \in Nat /\ strLen[p[2]] \in Nat
      BY <1>8, PairLengths, LayoutFacts
    <3> HIDE DEF p
    <3> QED BY <3>1, <3>2 DEF PairSize
  <2>4. len \in Nat /\ len' \in Nat /\ pair \in Nat /\ pair' \in Nat
        /\ entry \in Entries /\ S \subseteq Entries
    <3>1. LayoutInv'
      BY <1>8, WritePairLayout
    <3>2. len' \in Nat
      BY <3>1 DEF LayoutInv, ContainerTypeOK
    <3>3. len \in Nat /\ pair \in Nat /\ count \in Nat /\ entry \in Nat
      BY LayoutFacts
    <3>4. entry \in Entries
      BY <1>8, PairLengths
    <3> QED BY <2>1, <3>2, <3>3, <3>4 DEF Entries
  <2>5. PICK a \in [0 .. pair -> Nat] : Chain(entry, pair, a) /\ a[pair] = len
    BY <2>1 DEF BlocksWritten
  <2>6. Chain(entry, pair, a) /\ meta[entry] # <<>> /\ Counted(entry)
    BY <2>1, <2>5 DEF BlocksWritten
  <2>7. PICK b \in [0 .. pair' -> Nat] :
           (\A j \in 0 .. pair : b[j] = a[j]) /\ b[pair'] = len'
    <3> DEFINE f == [j \in 0 .. pair' |-> IF j \in 0 .. pair THEN a[j] ELSE len']
    <3>1. f \in [0 .. pair' -> Nat]
      BY <2>4, <2>5
    <3>2. (\A j \in 0 .. pair : f[j] = a[j]) /\ f[pair'] = len'
      BY <2>1, <2>4
    <3> HIDE DEF f
    <3> QED BY <3>1, <3>2
  <2>8. /\ a[0] = metaOffset[entry] + 4
        /\ \A j \in 0 .. pair - 1 :
              /\ PairCells(meta[entry][j + 1], a[j]) \subseteq cells
              /\ a[j + 1] = a[j] + PairSize(meta[entry][j + 1])
    BY <2>6 DEF Chain
  <2>9. /\ b[0] = metaOffset'[entry] + 4
        /\ \A j \in 0 .. pair' - 1 :
              /\ PairCells(meta[entry][j + 1], b[j]) \subseteq cells'
              /\ b[j + 1] = b[j] + PairSize(meta[entry][j + 1])
    <3>1. b[0] = a[0]
      BY <2>4, <2>7
    <3>2. ASSUME NEW j \in 0 .. pair - 1
          PROVE  /\ PairCells(meta[entry][j + 1], b[j]) \subseteq cells'
                 /\ b[j + 1] = b[j] + PairSize(meta[entry][j + 1])
      <4>1. j \in 0 .. pair /\ j + 1 \in 0 .. pair
        BY <2>4
      <4>2. b[j] = a[j] /\ b[j + 1] = a[j + 1]
        BY <2>7, <4>1
      <4> QED BY <1>1, <2>1, <2>8, <4>2
    <3>3. /\ PairCells(meta[entry][pair + 1], b[pair]) \subseteq cells'
          /\ b[pair + 1] = b[pair] + PairSize(meta[entry][pair + 1])
      <4>1. b[pair] = len /\ b[pair + 1] = len'
        BY <2>1, <2>4, <2>5, <2>7
      <4> QED BY <2>2, <2>3, <4>1
    <3>4. \A j \in 0 .. pair' - 1 : j = pair \/ j \in 0 .. pair - 1
      BY <2>1, <2>4
    <3> QED BY <2>1, <2>8, <3>1, <3>2, <3>3, <3>4
  <2>10. Chain(entry, pair, b)'
    <3>1. \A q, at : PairCells(q, at)' = PairCells(q, at) /\ PairSize(q)' = PairSize(q)
      BY <1>1 DEF PairCells, PairSize
    <3> QED BY <1>1, <2>1, <2>9, <3>1 DEF Chain
  <2>11. Counted(entry)' /\ meta'[entry'] # <<>>
    <3>1. \A e : Counted(e) => Counted(e)'
      BY <1>1, <2>1, CountedKept
    <3> QED BY <1>1, <2>1, <2>6 DEF Counted
  <2>12. \A e \in S : BlockWritten(e)'
    <3>1. \A e \in S : BlockWritten(e)
      BY <2>1 DEF BlocksWritten
    <3> HIDE DEF S
    <3> QED BY <1>3, <2>1, <2>4, <3>1
  <2>13. \A e \in Entries : meta[e] = <<>> => metaOffset'[e] = 0
    BY <2>1 DEF BlocksWritten
  <2> HIDE DEF p
  <2> QED BY <1>1, <2>1, <2>7, <2>10, <2>11, <2>12, <2>13 DEF BlocksWritten
<1>9. CASE BlockDone
  <2>1. /\ stage = "pairs" /\ stage' = "metadata" /\ entry' = entry + 1
        /\ pair = Len(meta[entry]) /\ UNCHANGED metaOffset
        /\ entry \in Entries /\ entry \in Nat
    BY <1>9, LayoutFacts DEF BlockDone, sections, Entries
  <2> DEFINE S == 0 .. entry' - 1
  <2>2. S \subseteq Entries /\ \A e \in S : e = entry \/ e \in 0 .. entry - 1
    BY <2>1, LayoutFacts DEF Entries
  <2>3. BlockWritten(entry)
    BY <2>1 DEF BlocksWritten, BlockWritten
  <2>4. \A e \in S : BlockWritten(e)
    BY <2>1, <2>2, <2>3 DEF BlocksWritten
  <2>5. \A e \in S : BlockWritten(e)'
    <3> HIDE DEF S
    <3> QED BY <1>3, <2>1, <2>2, <2>4
  <2> QED BY <1>1, <2>1, <2>5 DEF BlocksWritten
<1>10. CASE DoubleBuckets
  <2>1. stage = "metadata" /\ stage' = "metadata" /\ entry' = entry
        /\ UNCHANGED metaOffset
    BY <1>10 DEF DoubleBuckets
  <2> DEFINE S == 0 .. entry - 1
  <2>2. S \subseteq Entries
    BY LayoutFacts DEF Entries
  <2>3. \A e \in S : BlockWritten(e)
    BY <2>1 DEF BlocksWritten
  <2>4. \A e \in S : BlockWritten(e)'
    <3> HIDE DEF S
    <3> QED BY <1>3, <2>1, <2>2, <2>3
  <2> QED BY <1>1, <2>1, <2>4 DEF BlocksWritten
<1>11. CASE WriteTable \/ MeasureFile \/ ReadFile \/ FillFront
  <2>1. /\ stage = "metadata" => entry = count
        /\ stage \in {"metadata", "data", "read"}
        /\ stage' \in {"data", "read", "built"}
        /\ UNCHANGED metaOffset
    BY <1>11 DEF WriteTable, MeasureFile, ReadFile, FillFront, sections
  <2>2. \A e \in Entries : BlockWritten(e)
    BY <2>1 DEF BlocksWritten, Entries
  <2>3. \A e \in Entries : BlockWritten(e)'
    BY <1>3, <2>1, <2>2
  <2> QED BY <1>1, <2>1, <2>3 DEF BlocksWritten
<1> QED BY <1>4, <1>5, <1>6, <1>7, <1>8, <1>9, <1>10, <1>11 DEF BuilderNext

(* ---- FrontWritten ---- *)
LEMMA StepFront == ASSUME LayoutInv, FrontWritten, BuilderNext PROVE FrontWritten'
<1>1. stage' # "failed" => cells \subseteq cells'
  BY StepGrows
<1>2. len \in Nat /\ offsets.strings \in Nat
  BY LayoutFacts
<1>3. CASE stage' = "failed"
  BY <1>3 DEF FrontWritten
<1>4. CASE ReserveFront
  <2>1. /\ stage' = "strings" /\ len' \in Nat
        /\ offsets' = [offsets EXCEPT !.directory = HeaderSize, !.strings = len']
    <3>1. LayoutInv'
      BY <1>4, ReserveLayout
    <3> QED BY <1>4, <3>1 DEF ReserveFront, LayoutInv, ContainerTypeOK
  <2>2. offsets'.strings = len'
    BY <2>1, LayoutFacts
  <2> QED BY <2>1, <2>2 DEF FrontWritten
<1>5. CASE /\ stage \in {"strings", "metadata", "pairs"}
           /\ stage' \in {"strings", "metadata", "pairs"}
           /\ len' \in Nat /\ len <= len' /\ offsets'.strings = offsets.strings
  BY <1>2, <1>5 DEF FrontWritten
<1>6. CASE InternKnown \/ NoBlock \/ BlockDone \/ DoubleBuckets
  BY <1>2, <1>5, <1>6 DEF InternKnown, NoBlock, BlockDone, DoubleBuckets, sections
<1>7. CASE InternNew
  <2>1. strLen[names[entry]] \in Nat
    <3>1. entry \in Entries
      BY <1>7, LayoutFacts DEF InternNew, Entries
    <3>2. names[entry] \in Names
      BY <3>1 DEF LayoutInv, ContainerTypeOK
    <3> QED BY <3>2, StrLenNat DEF LayoutInv, ContainerTypeOK
  <2>2. /\ stage = "strings" /\ stage' = "strings" /\ UNCHANGED offsets
        /\ len' = len + (strLen[names[entry]] + 1)
    BY <1>7 DEF InternNew, Interned
  <2>3. len' \in Nat /\ len <= len'
    BY <1>2, <2>1, <2>2
  <2> QED BY <1>5, <2>2, <2>3
<1>8. CASE StringsDone
  <2>1. /\ stage = "strings" /\ stage' = "metadata" /\ len' = Align(len, 8)
        /\ offsets' = [offsets EXCEPT !.metadata = IF AnyMetadata THEN len' ELSE 0]
    BY <1>8 DEF StringsDone
  <2>2. len' \in Nat /\ len <= len'
    BY <1>2, <2>1, AlignFacts DEF Multiples
  <2>3. offsets'.strings = offsets.strings
    BY <2>1, LayoutFacts
  <2> QED BY <1>5, <2>1, <2>2, <2>3
<1>9. CASE StartBlock
  <2>1. /\ stage = "metadata" /\ stage' = "pairs" /\ UNCHANGED offsets
        /\ len' = Align(len, 8) + 4
    BY <1>9 DEF StartBlock
  <2>2. Align(len, 8) \in Nat /\ len <= Align(len, 8)
    BY <1>2, AlignFacts DEF Multiples
  <2>3. len' \in Nat /\ len <= len'
    BY <1>2, <2>1, <2>2
  <2> QED BY <1>5, <2>1, <2>3
<1>10. CASE WritePair
  <2> DEFINE p == meta[entry][pair + 1]
             k == strLen[p[1]]
             v == strLen[p[2]]
  <2>1. /\ stage = "pairs" /\ stage' = "pairs" /\ UNCHANGED offsets
        /\ len' = len + 10 + k + v
    BY <1>10 DEF WritePair, sections
  <2>2. k \in Nat /\ v \in Nat
    BY <1>10, PairLengths
  <2> HIDE DEF p, k, v
  <2>3. len' \in Nat /\ len <= len'
    BY <1>2, <2>1, <2>2
  <2> QED BY <1>5, <2>1, <2>3
<1>11. CASE WriteTable
  <2> DEFINE start == Align(len, 8)
             end == start + TableHeaderSize + buckets * BucketSize
             c1 == Cell(start, TableHeaderSize, "u32", buckets)
  <2>1. /\ stage = "metadata" /\ stage' = "data" /\ len' = Align(end, 16)
        /\ offsets' = [offsets EXCEPT !.table = start, !.data = len']
        /\ c1 \in cells' /\ UNCHANGED buckets
    BY <1>11 DEF WriteTable
  <2>2. start \in Nat /\ len <= start
    BY <1>2, AlignFacts DEF Multiples
  <2>3. buckets \in Nat
    BY LayoutFacts
  <2>4. end \in Nat /\ start <= end
    <3> HIDE DEF start
    <3> QED BY <2>2, <2>3 DEF TableHeaderSize, BucketSize
  <2>5. len' \in Nat /\ end <= len'
    <3> HIDE DEF end
    <3> QED BY <2>1, <2>4, AlignFacts DEF Multiples
  <2>6. offsets'.table = start /\ offsets'.strings = offsets.strings
    BY <2>1, LayoutFacts
  <2>7. offsets.strings <= len
    BY <2>1 DEF FrontWritten
  <2>8. offsets'.strings <= len'
    <3> HIDE DEF start, end
    <3> QED BY <1>2, <2>2, <2>4, <2>5, <2>6, <2>7
  <2>9. offsets'.table + TableHeaderSize + buckets' * BucketSize <= len'
    BY <2>1, <2>5, <2>6
  <2>10. Cell(offsets'.table, TableHeaderSize, "u32", buckets') \in cells'
    BY <2>1, <2>6
  <2> HIDE DEF start, end, c1
  <2> QED BY <2>1, <2>8, <2>9, <2>10 DEF FrontWritten
<1>12. CASE MeasureFile
  BY <1>12 DEF MeasureFile, FrontWritten, sections
<1>13. CASE ReadFile
  <2> DEFINE start == Align(len, 16)
  <2>1. /\ stage = "read" /\ stage' = "data" /\ len' = start + fsize
        /\ UNCHANGED <<offsets, buckets>>
    BY <1>13 DEF ReadFile
  <2>2. start \in Nat /\ len <= start
    BY <1>2, AlignFacts DEF Multiples
  <2>3. fsize \in Nat /\ buckets \in Nat /\ offsets.table \in Nat
    BY LayoutFacts DEF Multiples
  <2> HIDE DEF start
  <2>4. len' \in Nat /\ len <= len'
    BY <1>2, <2>1, <2>2, <2>3
  <2>5. /\ offsets.strings <= len
        /\ Cell(offsets.table, TableHeaderSize, "u32", buckets) \in cells
        /\ offsets.table + TableHeaderSize + buckets * BucketSize <= len
    BY <2>1 DEF FrontWritten
  <2>6. /\ offsets.strings <= len'
        /\ offsets.table + TableHeaderSize + buckets * BucketSize <= len'
    <3>1. offsets.table + TableHeaderSize + buckets * BucketSize \in Nat
      BY <2>3 DEF TableHeaderSize, BucketSize
    <3> QED BY <1>2, <2>4, <2>5, <3>1
  <2> QED BY <1>1, <2>1, <2>5, <2>6 DEF FrontWritten
<1>14. CASE FillFront
  <2>1. /\ stage = "data" /\ stage' = "built"
        /\ cells' = cells \cup EntryCells \cup {Cell(0, HeaderSize, "header", Header)}
        /\ UNCHANGED <<manifest, len, sections>>
    BY <1>14 DEF FillFront
  <2>2. UNCHANGED <<count, names, meta, nameOffset, metaOffset, dataOffset, dataSize,
                    offsets, buckets>> /\ Entries' = Entries
    BY <2>1 DEF manifest, sections, Entries
  <2>3. Header' = Header
    BY <2>1, <2>2 DEF Header, Flags, AnyMetadata, Localized
  <2>4. EntryCells' = EntryCells
    BY <2>2 DEF EntryCells, DirectoryEntry
  <2> QED BY <2>1, <2>2, <2>3, <2>4 DEF FrontWritten
<1>15. CASE CannotOpen \/ ShortRead
  BY <1>3, <1>15 DEF CannotOpen, ShortRead, Fail
<1> QED BY <1>4, <1>6, <1>7, <1>8, <1>9, <1>10, <1>11, <1>12, <1>13, <1>14, <1>15
        DEF BuilderNext

(* ---- together ---- *)
LEMMA InitContents == BuildInit => Contents
<1> SUFFICES ASSUME BuildInit PROVE Contents
  OBVIOUS
<1>1. /\ stage = "front" /\ entry = 0 /\ cells = {}
      /\ metaOffset = [e \in Entries |-> 0]
  BY DEF BuildInit
<1>2. Solid /\ DataKnown
  BY <1>1 DEF Solid, DataKnown
<1>3. NamesWritten
  BY <1>1 DEF NamesWritten
<1>4. BlocksWritten
  BY <1>1 DEF BlocksWritten
<1>5. FrontWritten
  BY <1>1 DEF FrontWritten
<1> QED BY <1>2, <1>3, <1>4, <1>5 DEF Contents

LEMMA StepContents ==
    LayoutInv /\ Contents /\ [BuildNext]_buildVars => Contents'
<1> SUFFICES ASSUME LayoutInv, Contents, [BuildNext]_buildVars PROVE Contents'
  OBVIOUS
<1>1. CASE BuilderNext
  BY <1>1, StepSolid, StepNames, StepData, StepBlocks, StepFront DEF Contents
<1>2. ASSUME NEW e \in Entries, Rewrite(e) \/ Remove(e)
      PROVE  Contents'
  BY <1>2, OutsideSame, SameContents
<1>3. CASE UNCHANGED buildVars
  BY <1>3, StutterSame, SameContents
<1> QED BY <1>1, <1>2, <1>3 DEF BuildNext

-----------------------------------------------------------------------------
(* ---- what is found at an address ---- *)
(* Cells that take room are told apart by where they start.  *)
LEMMA OneCell ==
    ASSUME LayoutInv, Contents, NEW c \in cells, c.holds[1] # "data", NEW otherwise
    PROVE  Holds(c.at, c.holds[1], otherwise) = c.holds[2]
<1> DEFINE found == {d \in cells : d.at = c.at /\ d.holds[1] = c.holds[1]}
<1>1. \A d \in cells : d.at \in Nat /\ d.size \in Nat
  BY DEF LayoutInv, ContainerTypeOK
<1>2. \A d \in found : d.size > 0 /\ d.at = c.at
  BY DEF Contents, Solid, Good
<1>3. \A d \in found : d = c
  <2> SUFFICES ASSUME NEW d \in found, d # c PROVE FALSE
    OBVIOUS
  <2>1. Apart(c, d)
    BY DEF LayoutInv, Laid, AllApart
  <2>2. c.at + c.size <= d.at \/ d.at + d.size <= c.at
    BY <2>1 DEF Apart, End
  <2>3. c \in found
    OBVIOUS
  <2> QED BY <1>1, <1>2, <2>2, <2>3
<1>4. found = {c}
  BY <1>3
<1>5. (CHOOSE d \in found : TRUE) = c
  BY <1>4
<1> QED BY <1>4, <1>5 DEF Holds

HeaderRecord ==
    [magic : Nat, version : Nat, flags : Nat, headerSize : Nat, count : Nat,
     entrySize : Nat, directory : Nat, strings : Nat, table : Nat, total : Nat]

LEMMA HeaderTrue ==
    ASSUME LayoutInv, Contents, stage = "built"
    PROVE  Holds(0, "header", <<>>) = Header /\ Header \in HeaderRecord
<1> DEFINE c == Cell(0, HeaderSize, "header", Header)
<1>1. c \in cells
  BY DEF Contents, FrontWritten
<1>2. c.at = 0 /\ c.holds = <<"header", Header>>
  BY CellParts
<1> HIDE DEF c
<1>3. Holds(0, "header", <<>>) = Header
  <2>1. c.holds[1] = "header" /\ c.holds[2] = Header
    BY <1>2
  <2>2. c.holds[1] # "data"
    BY <2>1
  <2>3. Holds(c.at, c.holds[1], <<>>) = c.holds[2]
    BY <1>1, <2>2, OneCell
  <2> QED BY <1>2, <2>1, <2>3
<1>4. Header \in HeaderRecord
  <2>1. /\ count \in Nat /\ len \in Nat /\ offsets.directory \in Nat
        /\ offsets.strings \in Nat /\ offsets.table \in Nat
    BY LayoutFacts DEF Multiples
  <2>2. Flags \in Nat
    BY DEF Flags, ERF_HFLAG_HASH_TABLE_PRESENT, ERF_HFLAG_METADATA_PRESENT,
       ERF_HFLAG_LOCALIZED
  <2> QED BY <2>1, <2>2 DEF Header, HeaderRecord, ERF_MAGIC, ERF_VERSION_MAJOR,
             HeaderSize, EntrySize
<1> QED BY <1>3, <1>4

SoundBytes == {NoDamage, PayloadDamage}

LEMMA DamageFacts ==
    ASSUME NEW d \in Damages
    PROVE  /\ d.value \in Nat
           /\ d \in SoundBytes =>
                 d.field \notin HeaderFields \cup EntryFields \cup {"buckets"}
           /\ d \notin SoundBytes =>
                 d.field \in HeaderFields \cup EntryFields \cup {"buckets"}
<1>1. CASE d \in SoundBytes
  BY <1>1 DEF SoundBytes, NoDamage, PayloadDamage, HeaderFields, EntryFields
<1>2. CASE d \notin SoundBytes
  <2>1. d \in [field : HeaderFields \cup EntryFields \cup {"buckets"}, value : Values]
    BY <1>2 DEF Damages, SoundBytes
  <2>2. d.field \in HeaderFields \cup EntryFields \cup {"buckets"} /\ d.value \in Values
    BY <2>1
  <2> QED BY <1>2, <2>2, ErfReaderAssumption DEF ErfReaderAssumption
<1> QED BY <1>1, <1>2

(* Whatever is damaged, there are numbers in the header.  *)
LEMMA HeaderNat ==
    ASSUME LayoutInv, Contents, stage = "built", NEW d \in Damages
    PROVE  /\ HeaderUnder(d) \in HeaderRecord
           /\ d \in SoundBytes => HeaderUnder(d) = Header
<1>1. Holds(0, "header", <<>>) = Header /\ Header \in HeaderRecord
  BY HeaderTrue
<1>2. d.value \in Nat
  BY DamageFacts
<1>3. HeaderUnder(d) = IF d.field \in HeaderFields
                       THEN [Header EXCEPT ![d.field] = d.value] ELSE Header
  BY <1>1 DEF HeaderUnder
<1>4. ASSUME NEW f \in HeaderFields, NEW v \in Nat
      PROVE  [Header EXCEPT ![f] = v] \in HeaderRecord
  BY <1>1, <1>4 DEF HeaderFields, HeaderRecord
<1> QED BY <1>1, <1>2, <1>3, <1>4, DamageFacts

LEMMA BucketsNat ==
    ASSUME Contents, NEW d \in Damages
    PROVE  BucketsUnder(d) \in Nat
<1>1. d.value \in Nat
  BY DamageFacts
<1>2. ASSUME NEW at PROVE Holds(at, "u32", d.value) \in Nat
  <2> DEFINE found == {c \in cells : c.at = at /\ c.holds[1] = "u32"}
  <2>1. \A c \in found : c.holds[2] \in Nat
    BY DEF Contents, Solid, Good
  <2>2. found # {} => (CHOOSE c \in found : TRUE) \in found
    OBVIOUS
  <2> QED BY <1>1, <2>1, <2>2 DEF Holds
<1> QED BY <1>1, <1>2 DEF BucketsUnder

LEMMA EntryNat ==
    ASSUME Contents, damage \in Damages, NEW e
    PROVE  ReadEntry(e) \in EntryRecord
<1>1. damage.value \in Nat
  BY DamageFacts
<1>2. EntryElsewhere \in EntryRecord
  BY <1>1 DEF EntryElsewhere, EntryRecord
<1>3. ASSUME NEW at PROVE Holds(at, "entry", EntryElsewhere) \in EntryRecord
  <2> DEFINE found == {c \in cells : c.at = at /\ c.holds[1] = "entry"}
  <2>1. \A c \in found : c.holds[2] \in EntryRecord
    BY DEF Contents, Solid, Good
  <2>2. found # {} => (CHOOSE c \in found : TRUE) \in found
    OBVIOUS
  <2> QED BY <1>2, <2>1, <2>2 DEF Holds
<1>4. ASSUME NEW f \in EntryFields, NEW v \in Nat, NEW d \in EntryRecord
      PROVE  [d EXCEPT ![f] = v] \in EntryRecord
  BY <1>4 DEF EntryFields, EntryRecord
<1> DEFINE at == TheHeader.directory + e * TheHeader.entrySize
           d == Holds(at, "entry", EntryElsewhere)
<1>5. ReadEntry(e) = IF damage.field \in EntryFields /\ e = TheHeader.count - 1
                     THEN [d EXCEPT ![damage.field] = damage.value] ELSE d
  BY DEF ReadEntry
<1>6. d \in EntryRecord
  BY <1>3
<1> HIDE DEF d
<1> QED BY <1>1, <1>4, <1>5, <1>6

(* ---- an undamaged image ---- *)
(* Every entry of the directory is found where the header says.  *)
LEMMA EntryTrue ==
    ASSUME LayoutInv, Contents, stage = "built", damage \in SoundBytes,
           damage \in Damages, NEW e \in Entries
    PROVE  ReadEntry(e) = DirectoryEntry(e)
<1> DEFINE c == Cell(offsets.directory + e * EntrySize, EntrySize, "entry",
                     DirectoryEntry(e))
<1>1. c \in cells
  BY DEF Contents, FrontWritten, EntryCells
<1>2. c.at = offsets.directory + e * EntrySize /\ c.holds = <<"entry", DirectoryEntry(e)>>
  BY CellParts
<1>3. TheHeader.directory = offsets.directory /\ TheHeader.entrySize = EntrySize
  BY HeaderNat DEF TheHeader, Header
<1> HIDE DEF c
<1>4. c.holds[1] = "entry" /\ c.holds[2] = DirectoryEntry(e)
  BY <1>2
<1>5. Holds(c.at, "entry", EntryElsewhere) = DirectoryEntry(e)
  BY <1>1, <1>4, OneCell
<1>6. damage.field \notin EntryFields
  BY DamageFacts
<1>7. Holds(TheHeader.directory + e * TheHeader.entrySize, "entry", EntryElsewhere)
        = DirectoryEntry(e)
  BY <1>2, <1>3, <1>5
<1> QED BY <1>6, <1>7 DEF ReadEntry

(* The name an entry points at.  *)
LEMMA NameTrue ==
    ASSUME LayoutInv, Contents, stage = "built", NEW e \in Entries
    PROVE  /\ Holds(nameOffset[e], "text", "garbage") = names[e]
           /\ nameOffset[e] \in Nat /\ strLen[names[e]] \in Nat
           /\ nameOffset[e] + strLen[names[e]] + 1 <= len
<1>1. PICK c \in cells : /\ c.at = nameOffset[e]
                         /\ c.size = strLen[names[e]] + 1
                         /\ c.holds = <<"text", names[e]>>
  BY DEF Contents, NamesWritten, Named
<1>2. c.holds[1] = "text" /\ c.holds[2] = names[e]
  BY <1>1
<1>3. Holds(c.at, "text", "garbage") = names[e]
  BY <1>2, OneCell
<1>4. names[e] \in Names
  BY DEF LayoutInv, ContainerTypeOK
<1>5. strLen[names[e]] \in Nat
  BY <1>4, StrLenNat DEF LayoutInv, ContainerTypeOK
<1>6. c.at + c.size <= len
  BY DEF LayoutInv, ContainerTypeOK, End
<1>7. nameOffset[e] \in Nat /\ len \in Nat
  BY LayoutFacts
<1> QED BY <1>1, <1>3, <1>5, <1>6, <1>7

(* The data an entry points at.  *)
LEMMA DataFound ==
    ASSUME BuilderInv, LayoutInv, Contents, stage = "built", NEW e \in Entries
    PROVE  LET c == CHOOSE c \in cells : c.holds[1] = "data" /\ c.holds[2].of = e
           IN  /\ c.at = dataOffset[e] /\ c.size = dataSize[e]
               /\ dataOffset[e] \in Nat /\ dataSize[e] \in Nat
               /\ dataOffset[e] + dataSize[e] <= len
<1> DEFINE P(d) == d.holds[1] = "data" /\ d.holds[2].of = e
           c == CHOOSE d \in cells : P(d)
<1>1. \E d \in cells : P(d)
  BY DEF BuilderInv, EmbeddedSoFar, Embedded
<1>2. c \in cells /\ P(c)
  BY <1>1
<1> HIDE DEF c
<1>3. c.at = dataOffset[e] /\ c.size = dataSize[e]
  BY <1>2 DEF Contents, DataKnown
<1>4. c.at \in Nat /\ c.size \in Nat /\ c.at + c.size <= len
  BY <1>2 DEF LayoutInv, ContainerTypeOK, End
<1>5. /\ c.at = dataOffset[e] /\ c.size = dataSize[e]
      /\ dataOffset[e] \in Nat /\ dataSize[e] \in Nat
      /\ dataOffset[e] + dataSize[e] <= len
  BY <1>3, <1>4
<1> QED BY <1>5 DEF c

(* The table the header points at lies in the container.  *)
LEMMA TableTrue ==
    ASSUME LayoutInv, Contents, stage = "built", NEW d \in Damages, d \in SoundBytes
    PROVE  TableInBounds(len, d)
<1> DEFINE c == Cell(offsets.table, TableHeaderSize, "u32", buckets)
<1>1. /\ c \in cells
      /\ offsets.table + TableHeaderSize + buckets * BucketSize <= len
  BY DEF Contents, FrontWritten
<1>2. c.at = offsets.table /\ c.holds = <<"u32", buckets>>
  BY CellParts
<1> HIDE DEF c
<1>3. c.holds[1] = "u32" /\ c.holds[2] = buckets
  BY <1>2
<1>4. Holds(offsets.table, "u32", d.value) = buckets
  <2>1. Holds(c.at, "u32", d.value) = buckets
    BY <1>1, <1>3, OneCell
  <2> QED BY <1>2, <2>1
<1>5. HeaderUnder(d).table = offsets.table
  BY HeaderNat DEF Header
<1>6. d.field # "buckets"
  BY DamageFacts
<1>7. BucketsUnder(d) = buckets
  BY <1>4, <1>5, <1>6 DEF BucketsUnder
<1>8. offsets.table \in Nat /\ buckets \in Nat /\ len \in Nat
  BY LayoutFacts DEF Multiples
<1> DEFINE room == buckets * BucketSize
<1>9. room \in Nat /\ offsets.table + 8 + room <= len
  BY <1>1, <1>8 DEF BucketSize, TableHeaderSize
<1> HIDE DEF room
<1>10. InBounds(len, offsets.table, 8) /\ InBounds(len, offsets.table + 8, room)
  BY <1>8, <1>9 DEF InBounds
<1> QED BY <1>5, <1>7, <1>10 DEF TableInBounds, TableHeaderSize, room

(* A whole container with no field damaged is accepted.  *)
LEMMA HeaderAccepted ==
    ASSUME LayoutInv, Contents, stage = "built", NEW d \in Damages, d \in SoundBytes,
           NEW n \in Nat, len <= n
    PROVE  HeaderError(n, d) = "ERF_OK"
<1>1. HeaderUnder(d) = Header
  BY HeaderNat
<1>2. /\ len \in Nat /\ count \in Nat /\ Front = 160 + count * 128
      /\ Front <= len /\ offsets.directory = 160
      /\ offsets.strings \in Nat /\ offsets.strings <= len
  BY LayoutFacts DEF LayoutInv, Laid, Front, HeaderSize, EntrySize, Contents, FrontWritten
<1>3. /\ Header.magic = ERF_MAGIC /\ Header.version = ERF_VERSION_MAJOR
      /\ Header.headerSize = HeaderSize /\ Header.total = len
      /\ Header.count = count /\ Header.entrySize = EntrySize
      /\ Header.directory = offsets.directory /\ Header.strings = offsets.strings
  BY DEF Header
<1> DEFINE room == count * 128
<1>4. room \in Nat /\ 160 + room <= len
  BY <1>2
<1> HIDE DEF room
<1>5. n # 0 /\ ~(n < HeaderSize) /\ 160 <= len
  BY <1>2, <1>4 DEF HeaderSize
<1>6. HeaderInBounds(n, d)
  <2>1. HeaderSize <= Header.headerSize /\ EntrySize <= Header.entrySize
    BY <1>3 DEF HeaderSize, EntrySize
  <2>2. Fits(Header, n)
    BY <1>3, <1>5 DEF Fits, HeaderSize
  <2>3. InBounds(Header.total, Header.directory, Header.count * Header.entrySize)
    <3>1. InBounds(len, 160, room)
      BY <1>2, <1>4 DEF InBounds
    <3> QED BY <1>2, <1>3, <3>1 DEF EntrySize, room
  <2>4. InBounds(Header.total, Header.strings, 0)
    BY <1>2, <1>3 DEF InBounds
  <2>5. TableInBounds(Header.total, d)
    BY <1>3, TableTrue
  <2> QED BY <1>1, <2>1, <2>2, <2>3, <2>4, <2>5 DEF HeaderInBounds
<1> QED BY <1>1, <1>3, <1>5, <1>6 DEF HeaderError

(* What an accepted header is good for, damaged or not.  *)
LEMMA HeaderBounds ==
    ASSUME LayoutInv, Contents, stage = "built", NEW d \in Damages, NEW n \in Nat,
           HeaderError(n, d) = "ERF_OK"
    PROVE  /\ HeaderUnder(d).total \in Nat /\ HeaderUnder(d).total <= n
           /\ HasHash(HeaderUnder(d)) => TableInBounds(n, d)
           /\ d \in SoundBytes => len <= n
<1>1. HeaderInBounds(n, d)
  BY DEF HeaderError
<1>2. /\ HeaderUnder(d).total \in Nat /\ HeaderUnder(d).table \in Nat
      /\ HeaderUnder(d).total <= n
  BY <1>1, HeaderNat DEF HeaderRecord, HeaderInBounds, Fits
<1>3. d \in SoundBytes => len <= n
  BY <1>2, HeaderNat DEF Header
<1>4. ASSUME TableInBounds(HeaderUnder(d).total, d)
      PROVE  TableInBounds(n, d)
  <2> DEFINE total == HeaderUnder(d).total
             table == HeaderUnder(d).table
             room == BucketsUnder(d) * BucketSize
  <2>1. room \in Nat
    BY BucketsNat DEF BucketSize
  <2>2. InBounds(total, table, 8) /\ InBounds(total, table + 8, room)
    BY <1>4 DEF TableInBounds, TableHeaderSize
  <2>3. total \in Nat /\ table \in Nat /\ total <= n
    BY <1>2
  <2>4. TableInBounds(n, d) <=> InBounds(n, table, 8) /\ InBounds(n, table + 8, room)
    BY DEF TableInBounds, TableHeaderSize
  <2> HIDE DEF total, table, room
  <2> QED BY <2>1, <2>2, <2>3, <2>4 DEF InBounds
<1> QED BY <1>1, <1>2, <1>3, <1>4 DEF HeaderInBounds

(* An entry of an undamaged container passes its checks.  *)
LEMMA EntryAccepted ==
    ASSUME BuilderInv, LayoutInv, Contents, stage = "built", damage \in Damages,
           damage \in SoundBytes, NEW e \in Entries
    PROVE  EntryInBounds(ReadEntry(e))
<1>1. ReadEntry(e) = DirectoryEntry(e)
  BY EntryTrue
<1>2. TheHeader.total = len
  BY HeaderNat DEF TheHeader, Header
<1>3. /\ nameOffset[e] \in Nat /\ strLen[names[e]] \in Nat
      /\ nameOffset[e] + strLen[names[e]] + 1 <= len
  BY NameTrue
<1>4. /\ dataOffset[e] \in Nat /\ dataSize[e] \in Nat
      /\ dataOffset[e] + dataSize[e] <= len
  BY DataFound
<1>5. len \in Nat
  BY LayoutFacts
<1>6. InBounds(len, nameOffset[e], 1) /\ InBounds(len, dataOffset[e], dataSize[e])
  BY <1>3, <1>4, <1>5 DEF InBounds
<1> QED BY <1>1, <1>2, <1>6 DEF EntryInBounds, DirectoryEntry

(* ---- the reader's way through the metadata ---- *)
LEMMA CountTrue ==
    ASSUME LayoutInv, Contents, stage = "built", NEW e \in Entries, NEW r,
           resources[r] = DirectoryEntry(e), size \in Nat, len <= size
    PROVE  MetadataCount(r) = Len(meta[e])
<1>1. resources[r].meta = metaOffset[e]
  BY DEF DirectoryEntry
<1>2. CASE meta[e] = <<>>
  <2>1. metaOffset[e] = 0
    BY <1>2 DEF Contents, BlocksWritten
  <2> QED BY <1>1, <1>2, <2>1 DEF MetadataCount
<1>3. CASE meta[e] # <<>>
  <2> DEFINE c == Cell(metaOffset[e], 4, "u32", Len(meta[e]))
  <2>1. metaOffset[e] # 0 /\ c \in cells
    BY <1>3 DEF Contents, BlocksWritten, BlockWritten, Counted
  <2>2. c.at = metaOffset[e] /\ End(c) = metaOffset[e] + 4
        /\ c.holds = <<"u32", Len(meta[e])>>
    BY CellParts
  <2> HIDE DEF c
  <2>3. metaOffset[e] \in Nat /\ len \in Nat
    BY LayoutFacts DEF Multiples
  <2>4. End(c) <= len
    BY <2>1 DEF LayoutInv, ContainerTypeOK
  <2>5. InBounds(size, metaOffset[e], 4)
    BY <2>2, <2>3, <2>4 DEF InBounds
  <2>6. Holds(metaOffset[e], "u32", damage.value) = Len(meta[e])
    <3>1. c.holds[1] = "u32" /\ c.holds[2] = Len(meta[e])
      BY <2>2
    <3>2. Holds(c.at, "u32", damage.value) = Len(meta[e])
      BY <2>1, <3>1, OneCell
    <3> QED BY <2>2, <3>2
  <2> QED BY <1>1, <2>1, <2>5, <2>6 DEF MetadataCount
<1> QED BY <1>2, <1>3

(* The pair p lies at from, and the reader that starts there reads p and    *)
(* arrives at to, inside the container.                                     *)
PairRead(p, from, to) ==
    /\ p = <<p[1], p[2]>>
    /\ PastString(PastString(from)) = to
    /\ from \in Nat /\ to \in Nat /\ from <= to /\ to <= len
    /\ Holds(from + 4, "text", "garbage") = p[1]
    /\ Holds(PastString(from) + 4, "text", "garbage") = p[2]

(* The lengths of a string lead to what follows it, and a pair is read as it *)
(* was written.                                                              *)
LEMMA PairFound ==
    ASSUME LayoutInv, Contents, NEW e \in Entries, NEW n, n = Len(meta[e]),
           NEW a \in [0 .. n -> Nat], Chain(e, n, a), NEW j \in 0 .. n - 1,
           NEW p, p = meta[e][j + 1]
    PROVE  PairRead(p, a[j], a[j + 1])
<1> DEFINE at == a[j]
           k == strLen[p[1]]
           v == strLen[p[2]]
           a2 == at + 4
           a3 == at + 5 + k
           a4 == at + 9 + k
           c1 == Cell(at, 4, "u32", k)
           c2 == Cell(a2, k + 1, "text", p[1])
           c3 == Cell(a3, 4, "u32", v)
           c4 == Cell(a4, v + 1, "text", p[2])
<1>1. n \in Nat /\ j \in Nat /\ j \in 0 .. n /\ j + 1 \in 0 .. n /\ j + 1 \in 1 .. n
  BY MetaPairs
<1>2. p \in Texts \X Texts
  BY <1>1, MetaPairs
<1>3. p = <<p[1], p[2]>> /\ p[1] \in Names \cup Texts /\ p[2] \in Names \cup Texts
  BY <1>2
<1>4. k \in Nat /\ v \in Nat
  BY <1>3, StrLenNat DEF LayoutInv, ContainerTypeOK
<1>5. at \in Nat /\ a[j + 1] \in Nat
  BY <1>1
<1>6. PairCells(p, at) \subseteq cells /\ a[j + 1] = at + PairSize(p)
  BY DEF Chain
<1>7. c1 \in cells /\ c2 \in cells /\ c3 \in cells /\ c4 \in cells
  BY <1>6 DEF PairCells
<1>8. a[j + 1] = at + (10 + k + v)
  BY <1>6 DEF PairSize
<1> HIDE DEF k, v, at, a2, a3, a4
<1>9. /\ c1.at = at /\ c1.holds = <<"u32", k>>
      /\ c2.at = a2 /\ c2.holds = <<"text", p[1]>>
      /\ c3.at = a3 /\ c3.holds = <<"u32", v>>
      /\ c4.at = a4 /\ c4.holds = <<"text", p[2]>> /\ End(c4) = a4 + (v + 1)
  BY CellParts
<1> HIDE DEF c1, c2, c3, c4
<1>10. /\ c1.holds[1] = "u32" /\ c1.holds[2] = k
       /\ c2.holds[1] = "text" /\ c2.holds[2] = p[1]
       /\ c3.holds[1] = "u32" /\ c3.holds[2] = v
       /\ c4.holds[1] = "text" /\ c4.holds[2] = p[2]
  BY <1>9
<1>11. Holds(at, "u32", 0) = k /\ Holds(a3, "u32", 0) = v
  <2>1. Holds(c1.at, "u32", 0) = k /\ Holds(c3.at, "u32", 0) = v
    BY <1>7, <1>10, OneCell
  <2> QED BY <1>9, <2>1
<1>12. Holds(a2, "text", "garbage") = p[1] /\ Holds(a4, "text", "garbage") = p[2]
  <2>1. /\ Holds(c2.at, "text", "garbage") = p[1]
        /\ Holds(c4.at, "text", "garbage") = p[2]
    BY <1>7, <1>10, OneCell
  <2> QED BY <1>9, <2>1
<1>13. PastString(at) = a3
  <2>1. PastString(at) = at + 4 + k + 1
    BY <1>11 DEF PastString
  <2> QED BY <1>4, <1>5, <2>1 DEF a3
<1>14. PastString(a3) = a[j + 1]
  <2>1. PastString(a3) = a3 + 4 + v + 1
    BY <1>11 DEF PastString
  <2> QED BY <1>4, <1>5, <1>8, <2>1 DEF a3
<1>15. a3 + 4 = a4 /\ at + 4 = a2 /\ a4 + (v + 1) = a[j + 1] /\ at <= a[j + 1]
  BY <1>4, <1>5, <1>8 DEF a2, a3, a4
<1>16. a[j + 1] <= len
  BY <1>7, <1>9, <1>15 DEF LayoutInv, ContainerTypeOK
<1>17. /\ PastString(PastString(at)) = a[j + 1]
       /\ Holds(at + 4, "text", "garbage") = p[1]
       /\ Holds(PastString(at) + 4, "text", "garbage") = p[2]
  BY <1>12, <1>13, <1>14, <1>15
<1> QED BY <1>3, <1>5, <1>15, <1>16, <1>17 DEF at, PairRead

-----------------------------------------------------------------------------
(* The invariant of the reader: what it has loaded is the directory under    *)
(* the damage there is, each entry checked; a walk over metadata stands at a *)
(* pair of the block, and a verdict has its reason.                          *)
ReaderTypes ==
    /\ size \in Nat
    /\ damage \in Damages
    /\ handle \in {"none", "opening", "open", "closed"}
    /\ verified \in {"unknown", "match", "mismatch"}
    /\ resources \in Seq(EntryRecord)
    /\ handle # "none" => stage = "built"
    /\ handle \in {"none", "closed"} => resources = <<>>

Accepted == handle \in {"opening", "open"} => HeaderError(size, damage) = "ERF_OK"

LoadedTrue ==
    /\ handle \in {"opening", "open"} =>
          \A e \in 1 .. loaded :
             resources[e] = ReadEntry(e - 1) /\ EntryInBounds(resources[e])
    /\ handle = "opening" => loaded <= TheHeader.count
    /\ handle = "open" => loaded = TheHeader.count

ErrorTrue ==
    /\ handle # "closed" => lastError = "ERF_OK"
    /\ RefusedForReason

WalkRecord == [of : Nat, index : Nat, at : Nat, round : Nat]
AtPair(w) ==
    /\ w.index < Len(meta[w.of - 1])
    /\ \E a \in [0 .. Len(meta[w.of - 1]) -> Nat] :
          Chain(w.of - 1, Len(meta[w.of - 1]), a) /\ w.at = a[w.round]
WalkTrue ==
    walk # NoWalk =>
        /\ handle = "open"
        /\ walk \in WalkRecord
        /\ walk.of \in 1 .. loaded
        /\ walk.round <= walk.index
        /\ Sound => AtPair(walk)

GotTrue ==
    /\ handle # "open" => got.asked = NoWalk
    /\ MetadataFaithful

ReaderInv ==
    ReaderTypes /\ Accepted /\ LoadedTrue /\ ErrorTrue /\ WalkTrue /\ GotTrue

LEMMA InitReader == ReaderInit => ReaderInv
<1> SUFFICES ASSUME ReaderInit PROVE ReaderInv
  OBVIOUS
<1>1. /\ size = 0 /\ damage = NoDamage /\ handle = "none" /\ resources = <<>>
      /\ lastError = "ERF_OK" /\ walk = NoWalk /\ got = NoAnswer
      /\ verified = "unknown"
  BY DEF ReaderInit
<1>2. ReaderTypes
  BY <1>1 DEF ReaderTypes, Damages
<1>3. Accepted /\ LoadedTrue /\ ErrorTrue /\ WalkTrue
  BY <1>1 DEF Accepted, LoadedTrue, ErrorTrue, WalkTrue, RefusedForReason
<1>4. GotTrue
  BY <1>1 DEF GotTrue, MetadataFaithful, NoAnswer
<1> QED BY <1>2, <1>3, <1>4 DEF ReaderInv

(* Why the header is refused under a damage: the parts of RefusedForReason. *)
LEMMA HeaderReasons ==
    ASSUME LayoutInv, Contents, stage = "built", NEW d \in Damages, NEW n \in Nat
    PROVE  /\ HeaderError(n, d) = "ERF_ERR_INVALID_ARGUMENT" => n = 0
           /\ HeaderError(n, d) = "ERF_ERR_TRUNCATED" => 0 < n /\ n < HeaderSize
           /\ HeaderError(n, d) = "ERF_ERR_BAD_MAGIC" =>
                 HeaderSize <= n /\ d.field = "magic"
           /\ HeaderError(n, d) = "ERF_ERR_UNSUPPORTED_VERSION" =>
                 HeaderSize <= n /\ d.field = "version"
           /\ HeaderError(n, d) \in {"ERF_ERR_BAD_OFFSET", "ERF_OK"} =>
                 /\ HeaderSize <= n
                 /\ HeaderUnder(d).magic = ERF_MAGIC
                 /\ HeaderUnder(d).version = ERF_VERSION_MAJOR
<1>1. Holds(0, "header", <<>>) = Header /\ Header \in HeaderRecord
  BY HeaderTrue
<1>2. Header.magic = ERF_MAGIC /\ Header.version = ERF_VERSION_MAJOR
  BY DEF Header
<1>3. HeaderUnder(d) = IF d.field \in HeaderFields
                       THEN [Header EXCEPT ![d.field] = d.value] ELSE Header
  BY <1>1 DEF HeaderUnder
<1>4. /\ d.field # "magic" => HeaderUnder(d).magic = ERF_MAGIC
      /\ d.field # "version" => HeaderUnder(d).version = ERF_VERSION_MAJOR
  BY <1>1, <1>2, <1>3 DEF HeaderRecord
<1> QED BY <1>4 DEF HeaderError, HeaderSize

(* Nothing of the container moves while it is read.  *)
LEMMA SameCells ==
    ASSUME UNCHANGED buildVars
    PROVE  /\ UNCHANGED <<count, names, meta, strLen, stage, len, cells, metaOffset>>
           /\ Entries' = Entries
           /\ \A at, kind, x : Holds(at, kind, x)' = Holds(at, kind, x)
           /\ \A e, n, a : Chain(e, n, a)' = Chain(e, n, a)
<1>1. /\ UNCHANGED <<count, names, meta, strLen, stage, len, cells, metaOffset>>
      /\ Entries' = Entries
  BY DEF buildVars, manifest, sections, Entries
<1>2. \A p, at : PairCells(p, at)' = PairCells(p, at) /\ PairSize(p)' = PairSize(p)
  BY <1>1 DEF PairCells, PairSize
<1> QED BY <1>1, <1>2 DEF Holds, Chain

LEMMA SameHeader ==
    ASSUME UNCHANGED buildVars, NEW n, NEW d, size' = n, damage' = d
    PROVE  /\ HeaderError(size, damage)' = HeaderError(n, d)
           /\ TheHeader' = HeaderUnder(d)
<1>1. \A at, kind, x : Holds(at, kind, x)' = Holds(at, kind, x)
  BY SameCells
<1>2. TheHeader' = HeaderUnder(d) /\ HeaderUnder(damage)' = HeaderUnder(d)
  BY <1>1 DEF TheHeader, HeaderUnder
<1>3. BucketsUnder(damage)' = BucketsUnder(d)
  BY <1>1, <1>2 DEF BucketsUnder
<1>4. HeaderInBounds(size, damage)' = HeaderInBounds(n, d)
  <2>1. \A m : TableInBounds(m, damage)' = TableInBounds(m, d)
    BY <1>2, <1>3 DEF TableInBounds, InBounds
  <2> QED BY <1>2, <2>1 DEF HeaderInBounds, TableInBounds, Fits, InBounds, HasHash
<1> QED BY <1>2, <1>4 DEF HeaderError

LEMMA SameImage ==
    ASSUME UNCHANGED buildVars, UNCHANGED image
    PROVE  /\ HeaderError(size, damage)' = HeaderError(size, damage)
           /\ TheHeader' = TheHeader
           /\ \A e : ReadEntry(e)' = ReadEntry(e)
           /\ \A r : EntryInBounds(r)' = EntryInBounds(r)
           /\ Sound' = Sound
<1>1. size' = size /\ damage' = damage
  BY DEF image
<1>2. \A at, kind, x : Holds(at, kind, x)' = Holds(at, kind, x)
  BY SameCells
<1>3. TheHeader' = TheHeader /\ EntryElsewhere' = EntryElsewhere
  BY <1>1, <1>2 DEF TheHeader, HeaderUnder, EntryElsewhere
<1>4. HeaderError(size, damage)' = HeaderError(size, damage)
  BY <1>1, SameHeader
<1>5. \A e : ReadEntry(e)' = ReadEntry(e)
  BY <1>1, <1>2, <1>3 DEF ReadEntry
<1>6. \A r : EntryInBounds(r)' = EntryInBounds(r)
  BY <1>3 DEF EntryInBounds, InBounds
<1> QED BY <1>1, <1>3, <1>4, <1>5, <1>6 DEF Sound

(* Calls on an open handle do not touch it.  *)
LEMMA SameHandle ==
    ASSUME ReaderInv, UNCHANGED <<buildVars, image, handle, resources, lastError>>,
           verified' \in {"unknown", "match", "mismatch"}
    PROVE  ReaderTypes' /\ Accepted' /\ LoadedTrue' /\ ErrorTrue'
<1>1. /\ HeaderError(size, damage)' = HeaderError(size, damage)
      /\ TheHeader' = TheHeader /\ Sound' = Sound
      /\ \A e : ReadEntry(e)' = ReadEntry(e)
      /\ \A r : EntryInBounds(r)' = EntryInBounds(r)
      /\ size' = size /\ damage' = damage /\ stage' = stage /\ len' = len
  BY SameImage, SameCells DEF image
<1>2. ReaderTypes'
  BY <1>1 DEF ReaderInv, ReaderTypes
<1>3. Accepted'
  BY <1>1 DEF ReaderInv, Accepted
<1>4. LoadedTrue'
  <2>1. loaded' = loaded
    BY DEF loaded
  <2>2. \A e \in 1 .. loaded : EntryInBounds(resources[e])' <=> EntryInBounds(resources[e])
    BY <1>1 DEF EntryInBounds, InBounds
  <2> QED BY <1>1, <2>1, <2>2 DEF ReaderInv, LoadedTrue
<1>5. ErrorTrue'
  <2>1. lastError' = lastError /\ handle' = handle
    OBVIOUS
  <2> QED BY <1>1, <2>1 DEF ReaderInv, ErrorTrue, RefusedForReason
<1> QED BY <1>2, <1>3, <1>4, <1>5

(* ---- the steps ---- *)
LEMMA OpenStep ==
    ASSUME BuilderInv, LayoutInv, Contents, ReaderInv, NEW n \in Sizes,
           NEW d \in Damages, OpenRefused(n, d) \/ OpenHeader(n, d)
    PROVE  ReaderInv'
<1>1. /\ stage = "built" /\ handle = "none" /\ size' = n /\ damage' = d
      /\ UNCHANGED <<buildVars, resources, walk, got, verified>>
      /\ resources = <<>> /\ lastError = "ERF_OK"
  BY DEF OpenRefused, OpenHeader, Arrive, ReaderInv, ReaderTypes, ErrorTrue
<1>2. /\ handle' = "closed" /\ lastError' = HeaderError(n, d)
         /\ HeaderError(n, d) # "ERF_OK"
      \/ /\ handle' = "opening" /\ lastError' = "ERF_OK"
         /\ HeaderError(n, d) = "ERF_OK"
  BY <1>1 DEF OpenRefused, OpenHeader
<1>3. n \in Nat
  <2>1. len \in Nat /\ Front \in Nat /\ 160 <= Front /\ Front <= len
    BY <1>1, LayoutFacts DEF LayoutInv, Laid, HeaderSize
  <2> QED BY <2>1 DEF Sizes
<1>4. /\ HeaderError(size, damage)' = HeaderError(n, d)
      /\ TheHeader' = HeaderUnder(d) /\ stage' = stage /\ len' = len
  BY <1>1, SameHeader, SameCells
<1>5. ReaderTypes'
  BY <1>1, <1>2, <1>3, <1>4 DEF ReaderInv, ReaderTypes
<1>6. Accepted'
  BY <1>2, <1>4 DEF Accepted
<1>7. LoadedTrue'
  <2>1. loaded' = 0
    BY <1>1 DEF loaded
  <2>2. HeaderUnder(d).count \in Nat
    BY <1>1, HeaderNat DEF HeaderRecord
  <2>3. 1 .. loaded' = {}
    BY <2>1
  <2> QED BY <1>2, <1>4, <2>1, <2>2, <2>3 DEF LoadedTrue
<1>8. ErrorTrue'
  <2>1. Sound' <=> d \in SoundBytes
    BY <1>1 DEF Sound, SoundBytes
  <2>2. d \in SoundBytes /\ len <= n => HeaderError(n, d) = "ERF_OK"
    BY <1>1, <1>3, HeaderAccepted
  <2>3. len \in Nat
    BY LayoutFacts
  <2>4. RefusedForReason'
    <3>1. CASE lastError' = "ERF_OK"
      BY <3>1 DEF RefusedForReason
    <3>2. CASE lastError' = HeaderError(n, d) /\ HeaderError(n, d) # "ERF_OK"
      <4>1. n < len \/ ~Sound'
        BY <1>3, <2>1, <2>2, <2>3, <3>2
      <4> QED BY <1>1, <1>3, <1>4, <3>2, <4>1, HeaderReasons DEF RefusedForReason
    <3> QED BY <1>2, <3>1, <3>2
  <2> QED BY <1>2, <2>4 DEF ErrorTrue
<1>9. WalkTrue'
  BY <1>1 DEF ReaderInv, WalkTrue
<1>10. GotTrue'
  BY <1>1 DEF ReaderInv, GotTrue, MetadataFaithful
<1> QED BY <1>5, <1>6, <1>7, <1>8, <1>9, <1>10 DEF ReaderInv

LEMMA LoadStep ==
    ASSUME BuilderInv, LayoutInv, Contents, ReaderInv,
           LoadEntry \/ EntryRefused \/ OpenDone
    PROVE  ReaderInv'
<1>1. /\ handle = "opening" /\ UNCHANGED <<buildVars, image, walk, got, verified>>
      /\ size' = size /\ damage' = damage /\ stage = "built"
      /\ HeaderError(size, damage) = "ERF_OK" /\ lastError = "ERF_OK"
  BY DEF LoadEntry, EntryRefused, OpenDone, Loading, image, ReaderInv, ReaderTypes,
     Accepted, ErrorTrue
<1>2. /\ HeaderError(size, damage)' = HeaderError(size, damage)
      /\ TheHeader' = TheHeader /\ Sound' = Sound
      /\ \A e : ReadEntry(e)' = ReadEntry(e)
      /\ \A r : EntryInBounds(r)' = EntryInBounds(r)
      /\ stage' = stage /\ len' = len /\ meta' = meta
  BY <1>1, SameImage, SameCells
<1>3. walk = NoWalk /\ got.asked = NoWalk
  BY <1>1 DEF ReaderInv, WalkTrue, GotTrue
<1>4. WalkTrue' /\ GotTrue'
  BY <1>1, <1>3 DEF WalkTrue, GotTrue, MetadataFaithful
<1>5. /\ resources \in Seq(EntryRecord) /\ loaded \in Nat
      /\ loaded <= TheHeader.count /\ TheHeader.count \in Nat
      /\ \A e \in 1 .. loaded :
            resources[e] = ReadEntry(e - 1) /\ EntryInBounds(resources[e])
  <2>1. resources \in Seq(EntryRecord) /\ damage \in Damages
    BY DEF ReaderInv, ReaderTypes
  <2>2. TheHeader.count \in Nat
    BY <1>1, <2>1, HeaderNat DEF TheHeader, HeaderRecord
  <2> QED BY <1>1, <2>1, <2>2 DEF ReaderInv, LoadedTrue, loaded
<1>6. CASE LoadEntry
  <2>1. /\ loaded < TheHeader.count /\ EntryInBounds(ReadEntry(loaded))
        /\ resources' = Append(resources, ReadEntry(loaded))
        /\ handle' = "opening" /\ lastError' = lastError
    BY <1>1, <1>6 DEF LoadEntry, Loading
  <2>2. ReadEntry(loaded) \in EntryRecord
    BY EntryNat DEF ReaderInv, ReaderTypes
  <2>3. /\ resources' \in Seq(EntryRecord) /\ loaded' = loaded + 1
        /\ resources'[loaded + 1] = ReadEntry(loaded)
        /\ \A e \in 1 .. loaded : resources'[e] = resources[e]
    BY <1>5, <2>1, <2>2 DEF loaded
  <2>4. ReaderTypes'
    BY <1>1, <1>2, <2>1, <2>3 DEF ReaderInv, ReaderTypes
  <2>5. Accepted'
    BY <1>1, <1>2 DEF Accepted
  <2>6. LoadedTrue'
    <3>1. ASSUME NEW e \in 1 .. loaded'
          PROVE  resources'[e] = ReadEntry(e - 1) /\ EntryInBounds(resources'[e])
      <4>1. CASE e \in 1 .. loaded
        BY <1>5, <2>3, <4>1
      <4>2. CASE e = loaded + 1
        <5>1. e - 1 = loaded
          BY <1>5, <4>2
        <5> QED BY <2>1, <2>3, <4>2, <5>1
      <4> QED BY <1>5, <2>3, <4>1, <4>2
    <3>2. \A e \in 1 .. loaded' :
             EntryInBounds(resources[e])' <=> EntryInBounds(resources'[e])
      BY <1>2 DEF EntryInBounds, InBounds
    <3>3. loaded' <= TheHeader.count
      BY <1>5, <2>1, <2>3
    <3> QED BY <1>2, <2>1, <3>1, <3>2, <3>3 DEF LoadedTrue
  <2>7. ErrorTrue'
    BY <1>1, <2>1 DEF ErrorTrue, RefusedForReason
  <2> QED BY <1>4, <2>4, <2>5, <2>6, <2>7 DEF ReaderInv
<1>7. CASE EntryRefused
  <2>1. /\ loaded < TheHeader.count /\ ~EntryInBounds(ReadEntry(loaded))
        /\ resources' = <<>> /\ handle' = "closed"
    BY <1>7 DEF EntryRefused, Loading
  <2>2. ~Sound
    <3> SUFFICES ASSUME Sound PROVE FALSE
      OBVIOUS
    <3>1. damage \in SoundBytes /\ damage \in Damages
      BY DEF Sound, SoundBytes, ReaderInv, ReaderTypes
    <3>2. TheHeader.count = count
      BY <1>1, <3>1, HeaderNat DEF TheHeader, Header
    <3>3. loaded \in Entries
      BY <1>5, <2>1, <3>2 DEF Entries
    <3> QED BY <1>1, <2>1, <3>1, <3>3, EntryAccepted
  <2>3. ReaderTypes'
    BY <1>1, <1>2, <2>1 DEF ReaderInv, ReaderTypes
  <2>4. Accepted' /\ LoadedTrue'
    BY <2>1 DEF Accepted, LoadedTrue
  <2>5. ErrorTrue'
    <3>1. lastError' = "ERF_ERR_BAD_OFFSET"
      BY <1>7 DEF EntryRefused
    <3>2. /\ HeaderSize <= size /\ TheHeader.magic = ERF_MAGIC
          /\ TheHeader.version = ERF_VERSION_MAJOR
      BY <1>1, HeaderReasons DEF TheHeader, ReaderInv, ReaderTypes
    <3> QED BY <1>1, <1>2, <2>1, <2>2, <3>1, <3>2 DEF ErrorTrue, RefusedForReason
  <2> QED BY <1>4, <2>3, <2>4, <2>5 DEF ReaderInv
<1>8. CASE OpenDone
  <2>1. /\ loaded = TheHeader.count /\ handle' = "open"
        /\ lastError' = "ERF_OK" /\ UNCHANGED resources
    BY <1>8 DEF OpenDone
  <2>2. ReaderTypes'
    BY <1>1, <1>2, <2>1 DEF ReaderInv, ReaderTypes
  <2>3. Accepted'
    BY <1>1, <1>2 DEF Accepted
  <2>4. LoadedTrue'
    <3>1. loaded' = loaded
      BY <2>1 DEF loaded
    <3>2. \A e \in 1 .. loaded :
             EntryInBounds(resources[e])' <=> EntryInBounds(resources[e])
      BY <1>2, <2>1 DEF EntryInBounds, InBounds
    <3> QED BY <1>2, <1>5, <2>1, <3>1, <3>2 DEF LoadedTrue
  <2>5. ErrorTrue'
    BY <2>1 DEF ErrorTrue, RefusedForReason
  <2>6. WalkTrue' /\ GotTrue'
    BY <1>1, <1>3 DEF WalkTrue, GotTrue, MetadataFaithful
  <2> QED BY <2>2, <2>3, <2>4, <2>5, <2>6 DEF ReaderInv
<1> QED BY <1>6, <1>7, <1>8

(* ---- calls on an open container ---- *)
LEMMA OpenKnown ==
    ASSUME LayoutInv, Contents, ReaderInv, handle = "open", Sound, NEW r \in 1 .. loaded
    PROVE  /\ r - 1 \in Entries /\ resources[r] = DirectoryEntry(r - 1)
           /\ size \in Nat /\ len <= size /\ loaded = count /\ stage = "built"
<1>1. damage \in SoundBytes /\ damage \in Damages /\ size \in Nat /\ stage = "built"
  BY DEF Sound, SoundBytes, ReaderInv, ReaderTypes
<1>2. loaded = TheHeader.count /\ resources[r] = ReadEntry(r - 1)
      /\ HeaderError(size, damage) = "ERF_OK"
  BY DEF ReaderInv, LoadedTrue, Accepted
<1>3. TheHeader.count = count
  BY <1>1, HeaderNat DEF TheHeader, Header
<1>4. count \in Nat
  BY LayoutFacts
<1>5. r - 1 \in Entries
  BY <1>2, <1>3, <1>4 DEF Entries
<1> DEFINE e == r - 1
<1>6. resources[r] = DirectoryEntry(e)
  <2>1. e \in Entries /\ resources[r] = ReadEntry(e)
    BY <1>2, <1>5
  <2> HIDE DEF e
  <2> QED BY <1>1, <2>1, EntryTrue
<1>7. len <= size
  BY <1>1, <1>2, HeaderBounds
<1> QED BY <1>1, <1>2, <1>3, <1>5, <1>6, <1>7

LEMMA CountKnown ==
    ASSUME LayoutInv, Contents, ReaderInv, handle = "open", Sound, NEW r \in 1 .. loaded
    PROVE  MetadataCount(r) = Len(meta[r - 1]) /\ Len(meta[r - 1]) \in Nat
<1> DEFINE e == r - 1
<1>1. /\ e \in Entries /\ resources[r] = DirectoryEntry(e) /\ size \in Nat
      /\ len <= size /\ stage = "built"
  BY OpenKnown
<1> HIDE DEF e
<1>2. MetadataCount(r) = Len(meta[e]) /\ Len(meta[e]) \in Nat
  BY <1>1, CountTrue, MetaPairs
<1> QED BY <1>2 DEF e

LEMMA PastNat ==
    ASSUME Contents, NEW at \in Nat
    PROVE  PastString(at) \in Nat
<1> DEFINE found == {c \in cells : c.at = at /\ c.holds[1] = "u32"}
<1>1. \A c \in found : c.holds[2] \in Nat
  BY DEF Contents, Solid, Good
<1>2. found # {} => (CHOOSE c \in found : TRUE) \in found
  OBVIOUS
<1>3. Holds(at, "u32", 0) \in Nat
  BY <1>1, <1>2 DEF Holds
<1> QED BY <1>3 DEF PastString

LEMMA AskStep ==
    ASSUME BuilderInv, LayoutInv, Contents, ReaderInv, NEW e \in DOMAIN resources,
           NEW k \in 0 .. 2, MetadataNone(e, k) \/ MetadataGet(e, k)
    PROVE  ReaderInv'
<1>1. /\ handle = "open" /\ walk = NoWalk
      /\ UNCHANGED <<buildVars, image, handle, resources, lastError>>
      /\ verified' = "unknown"
  BY DEF MetadataNone, MetadataGet, Idle
<1>2. ReaderTypes' /\ Accepted' /\ LoadedTrue' /\ ErrorTrue'
  BY <1>1, SameHandle
<1>3. /\ Sound' = Sound /\ meta' = meta /\ loaded' = loaded
      /\ \A i, n, a : Chain(i, n, a)' = Chain(i, n, a)
  BY <1>1, SameImage, SameCells DEF loaded
<1>4. e \in 1 .. loaded /\ resources \in Seq(EntryRecord) /\ resources[e] \in EntryRecord
  BY DEF loaded, ReaderInv, ReaderTypes
<1>5. CASE MetadataNone(e, k)
  <2>1. /\ walk' = NoWalk /\ got' = [asked |-> Asked(e, k), pair |-> NoPair]
        /\ k >= MetadataCount(e)
    BY <1>1, <1>5 DEF MetadataNone
  <2>2. WalkTrue'
    BY <2>1 DEF WalkTrue
  <2>3. got'.pair = NoPair /\ got'.asked.of = e /\ got'.asked.index = k
    BY <2>1 DEF Asked, NoWalk
  <2>4. Sound => ~(k < Len(meta[e - 1]))
    BY <1>1, <1>4, <2>1, CountKnown
  <2>5. GotTrue'
    BY <1>1, <1>3, <2>3, <2>4 DEF GotTrue, MetadataFaithful
  <2> QED BY <1>2, <2>2, <2>5 DEF ReaderInv
<1>6. CASE MetadataGet(e, k)
  <2>1. /\ walk' = [of |-> e, index |-> k, at |-> resources[e].meta + 4, round |-> 0]
        /\ got' = NoAnswer /\ k < MetadataCount(e)
    BY <1>1, <1>6 DEF MetadataGet, HasPair
  <2>2. walk' \in WalkRecord /\ walk'.of = e /\ walk'.index = k /\ walk'.round = 0
        /\ walk'.at = resources[e].meta + 4
    <3>1. resources[e].meta \in Nat /\ e \in Nat /\ k \in Nat
      BY <1>4 DEF EntryRecord
    <3> QED BY <2>1, <3>1 DEF WalkRecord
  <2>3. ASSUME Sound
        PROVE  /\ k < Len(meta[e - 1])
               /\ \E a \in [0 .. Len(meta[e - 1]) -> Nat] :
                     Chain(e - 1, Len(meta[e - 1]), a) /\ walk'.at = a[0]
    <3> DEFINE i == e - 1
    <3>1. /\ i \in Entries /\ resources[e] = DirectoryEntry(i) /\ stage = "built"
          /\ k < Len(meta[i]) /\ Len(meta[i]) \in Nat
      BY <1>1, <1>4, <2>1, <2>3, OpenKnown, CountKnown
    <3> HIDE DEF i
    <3>2. meta[i] # <<>>
      BY <3>1
    <3>3. PICK a \in [0 .. Len(meta[i]) -> Nat] : Chain(i, Len(meta[i]), a)
      BY <3>1, <3>2 DEF Contents, BlocksWritten, BlockWritten
    <3>4. a[0] = metaOffset[i] + 4
      BY <3>3 DEF Chain
    <3>5. walk'.at = a[0]
      BY <2>2, <3>1, <3>4 DEF DirectoryEntry
    <3> QED BY <3>1, <3>3, <3>5 DEF i
  <2>4. Sound' => AtPair(walk)'
    BY <1>3, <2>2, <2>3 DEF AtPair
  <2>5. WalkTrue'
    BY <1>1, <1>3, <1>4, <2>2, <2>4 DEF WalkTrue
  <2>6. GotTrue'
    BY <2>1 DEF GotTrue, MetadataFaithful, NoAnswer
  <2> QED BY <1>2, <2>5, <2>6 DEF ReaderInv
<1> QED BY <1>5, <1>6

LEMMA WalkStep ==
    ASSUME BuilderInv, LayoutInv, Contents, ReaderInv, WalkPair
    PROVE  ReaderInv'
<1> DEFINE v == PastString(walk.at)
           past == PastString(v)
           r == walk.of
           q == <<Holds(walk.at + 4, "text", "garbage"), Holds(v + 4, "text", "garbage")>>
<1>1. /\ walk # NoWalk
      /\ UNCHANGED <<buildVars, image, handle, resources, lastError, verified>>
      /\ \/ /\ ~InBounds(size, walk.at, past - walk.at)
            /\ Answer(walk, NoPair)
         \/ /\ InBounds(size, walk.at, past - walk.at)
            /\ walk.round = walk.index
            /\ Answer(walk, q)
         \/ /\ InBounds(size, walk.at, past - walk.at)
            /\ walk.round # walk.index
            /\ walk' = [walk EXCEPT !.at = past, !.round = @ + 1]
            /\ UNCHANGED got
  BY DEF WalkPair
<1>2. /\ handle = "open" /\ walk \in WalkRecord /\ r \in 1 .. loaded
      /\ walk.round <= walk.index
      /\ Sound => AtPair(walk)
  BY <1>1 DEF ReaderInv, WalkTrue
<1>3. walk.of \in Nat /\ walk.index \in Nat /\ walk.at \in Nat /\ walk.round \in Nat
  BY <1>2 DEF WalkRecord
<1>4. ReaderTypes' /\ Accepted' /\ LoadedTrue' /\ ErrorTrue'
  <2>1. verified' \in {"unknown", "match", "mismatch"}
    BY <1>1 DEF ReaderInv, ReaderTypes
  <2> QED BY <1>1, <2>1, SameHandle
<1>5. /\ Sound' = Sound /\ meta' = meta /\ loaded' = loaded
      /\ \A i, n, a : Chain(i, n, a)' = Chain(i, n, a)
  BY <1>1, SameImage, SameCells DEF loaded
<1>6. ASSUME Sound
      PROVE  /\ walk.index < Len(meta[r - 1])
             /\ \E a \in [0 .. Len(meta[r - 1]) -> Nat] :
                   /\ Chain(r - 1, Len(meta[r - 1]), a)
                   /\ walk.at = a[walk.round] /\ past = a[walk.round + 1]
             /\ InBounds(size, walk.at, past - walk.at)
             /\ q = meta[r - 1][walk.round + 1]
  <2> DEFINE i == r - 1
             n == Len(meta[i])
             p == meta[i][walk.round + 1]
  <2>1. i \in Entries /\ size \in Nat /\ len <= size /\ stage = "built"
    BY <1>2, <1>6, OpenKnown
  <2>2. PICK a \in [0 .. n -> Nat] : Chain(i, n, a) /\ walk.at = a[walk.round]
    BY <1>2, <1>6 DEF AtPair
  <2>3. n \in Nat /\ walk.index < n
    BY <1>2, <1>6, <2>1, MetaPairs DEF AtPair
  <2>4. walk.round \in 0 .. n - 1 /\ walk.round < n
    BY <1>2, <1>3, <2>3
  <2>5. len \in Nat
    BY LayoutFacts
  <2> HIDE DEF v, past, q
  <2>6. /\ p = <<p[1], p[2]>>
        /\ PastString(PastString(a[walk.round])) = a[walk.round + 1]
        /\ a[walk.round] \in Nat /\ a[walk.round + 1] \in Nat
        /\ a[walk.round] <= a[walk.round + 1] /\ a[walk.round + 1] <= len
        /\ Holds(a[walk.round] + 4, "text", "garbage") = p[1]
        /\ Holds(PastString(a[walk.round]) + 4, "text", "garbage") = p[2]
    <3>1. PairRead(p, a[walk.round], a[walk.round + 1])
      <4> DEFINE j == walk.round
      <4>1. n = Len(meta[i]) /\ p = meta[i][j + 1] /\ j \in 0 .. n - 1
        BY <2>4
      <4>2. a \in [0 .. n -> Nat] /\ Chain(i, n, a)
        BY <2>2
      <4> HIDE DEF i, n, p, j
      <4>3. PairRead(p, a[j], a[j + 1])
        BY <2>1, <4>1, <4>2, PairFound
      <4> QED BY <4>3 DEF j
    <3> HIDE DEF i, n, p
    <3> QED BY <3>1 DEF PairRead
  <2>7. past = a[walk.round + 1]
    BY <2>2, <2>6 DEF past, v
  <2>8. q = p
    <3>1. /\ Holds(walk.at + 4, "text", "garbage") = p[1]
          /\ Holds(v + 4, "text", "garbage") = p[2]
      BY <2>2, <2>6 DEF v
    <3>2. q = <<p[1], p[2]>>
      BY <3>1 DEF q
    <3> HIDE DEF p
    <3> QED BY <2>6, <3>2
  <2>9. InBounds(size, walk.at, past - walk.at)
    <3>1. walk.at \in Nat /\ past \in Nat /\ walk.at <= past /\ past <= size
      BY <2>1, <2>2, <2>5, <2>6, <2>7
    <3> QED BY <2>1, <3>1 DEF InBounds
  <2> QED BY <2>2, <2>3, <2>4, <2>7, <2>8, <2>9
<1>7. CASE Answer(walk, NoPair) /\ ~InBounds(size, walk.at, past - walk.at)
  <2>1. ~Sound
    BY <1>6, <1>7
  <2>2. walk' = NoWalk
    BY <1>7 DEF Answer
  <2>3. WalkTrue' /\ GotTrue'
    BY <1>1, <1>2, <1>5, <2>1, <2>2 DEF WalkTrue, GotTrue, MetadataFaithful
  <2> QED BY <1>4, <2>3 DEF ReaderInv
<1>8. CASE Answer(walk, q) /\ walk.round = walk.index
  <2>1. walk' = NoWalk /\ got' = [asked |-> Asked(walk.of, walk.index), pair |-> q]
    BY <1>8 DEF Answer
  <2>2. got'.pair = q /\ got'.asked.of = walk.of /\ got'.asked.index = walk.index
    BY <2>1 DEF Asked, NoWalk
  <2>3. Sound => walk.index < Len(meta[walk.of - 1])
                 /\ q = meta[walk.of - 1][walk.index + 1]
    BY <1>6, <1>8
  <2>4. WalkTrue'
    BY <2>1 DEF WalkTrue
  <2>5. GotTrue'
    <3> HIDE DEF q
    <3> QED BY <1>1, <1>2, <1>5, <2>2, <2>3 DEF GotTrue, MetadataFaithful
  <2> QED BY <1>4, <2>4, <2>5 DEF ReaderInv
<1>9. CASE /\ walk.round # walk.index /\ UNCHANGED got
           /\ walk' = [walk EXCEPT !.at = past, !.round = @ + 1]
  <2>1. past \in Nat
    BY <1>3, PastNat
  <2> HIDE DEF past
  <2>2. /\ walk' \in WalkRecord /\ walk'.of = walk.of /\ walk'.index = walk.index
        /\ walk'.at = past /\ walk'.round = walk.round + 1
    <3> DEFINE n == walk.round + 1
    <3>1. n \in Nat /\ walk \in WalkRecord /\ past \in Nat
      BY <1>2, <1>3, <2>1
    <3>2. walk' = [walk EXCEPT !.at = past, !.round = n]
      BY <1>9
    <3> HIDE DEF n
    <3>3. /\ walk' \in WalkRecord /\ walk'.of = walk.of /\ walk'.index = walk.index
          /\ walk'.at = past /\ walk'.round = n
      BY <3>1, <3>2 DEF WalkRecord
    <3> QED BY <3>3 DEF n
  <2>3. walk'.round <= walk'.index
    BY <1>2, <1>3, <1>9, <2>2
  <2>4. Sound' => AtPair(walk)'
    <3>1. ASSUME Sound
          PROVE  /\ walk'.index < Len(meta[r - 1])
                 /\ \E a \in [0 .. Len(meta[r - 1]) -> Nat] :
                       Chain(r - 1, Len(meta[r - 1]), a) /\ walk'.at = a[walk'.round]
      BY <1>6, <2>2, <3>1
    <3> QED BY <1>5, <2>2, <3>1 DEF AtPair
  <2>5. WalkTrue'
    BY <1>1, <1>2, <1>5, <2>2, <2>3, <2>4 DEF WalkTrue
  <2>6. GotTrue'
    BY <1>1, <1>2, <1>5, <1>9 DEF ReaderInv, GotTrue, MetadataFaithful
  <2> QED BY <1>4, <2>5, <2>6 DEF ReaderInv
<1> QED BY <1>1, <1>7, <1>8, <1>9

LEMMA RestStep ==
    ASSUME BuilderInv, LayoutInv, Contents, ReaderInv, VerifyChecksum \/ Close
    PROVE  ReaderInv'
<1>1. /\ handle = "open" /\ walk = NoWalk /\ walk' = NoWalk /\ got' = NoAnswer
      /\ UNCHANGED <<buildVars, image, lastError>>
      /\ verified' \in {"unknown", "match", "mismatch"}
  BY DEF VerifyChecksum, Close, Idle
<1>2. WalkTrue' /\ GotTrue'
  BY <1>1 DEF WalkTrue, GotTrue, MetadataFaithful, NoAnswer
<1>3. CASE VerifyChecksum
  <2>1. UNCHANGED <<handle, resources>>
    BY <1>3 DEF VerifyChecksum
  <2>2. ReaderTypes' /\ Accepted' /\ LoadedTrue' /\ ErrorTrue'
    BY <1>1, <2>1, SameHandle
  <2> QED BY <1>2, <2>2 DEF ReaderInv
<1>4. CASE Close
  <2>1. handle' = "closed" /\ resources' = <<>>
    BY <1>4 DEF Close
  <2>2. /\ stage' = stage /\ len' = len /\ size' = size /\ damage' = damage
        /\ Sound' = Sound /\ TheHeader' = TheHeader
    BY <1>1, SameCells, SameImage DEF image
  <2>3. ReaderTypes'
    BY <1>1, <2>1, <2>2 DEF ReaderInv, ReaderTypes
  <2>4. Accepted' /\ LoadedTrue'
    BY <2>1 DEF Accepted, LoadedTrue
  <2>5. ErrorTrue'
    BY <1>1, <2>1, <2>2 DEF ReaderInv, ErrorTrue, RefusedForReason
  <2> QED BY <1>2, <2>3, <2>4, <2>5 DEF ReaderInv
<1> QED BY <1>3, <1>4

(* While elfrc builds, nobody reads.  *)
LEMMA BuildStep ==
    ASSUME ReaderInv, BuildNext, UNCHANGED readerVars
    PROVE  ReaderInv'
<1>1. stage # "built"
  <2>1. CASE BuilderNext
    BY <2>1, StepGrows
  <2>2. ASSUME NEW e \in Entries, Rewrite(e) \/ Remove(e)
        PROVE  stage # "built"
    BY <2>2 DEF Rewrite, Remove, MayChange
  <2> QED BY <2>1, <2>2 DEF BuildNext
<1>2. UNCHANGED <<size, damage, handle, resources, lastError, walk, got, verified>>
  BY DEF readerVars, image
<1>3. handle = "none" /\ lastError = "ERF_OK" /\ walk = NoWalk /\ got.asked = NoWalk
  BY <1>1 DEF ReaderInv, ReaderTypes, ErrorTrue, WalkTrue, GotTrue
<1>4. ReaderTypes'
  BY <1>2, <1>3 DEF ReaderInv, ReaderTypes
<1>5. Accepted' /\ LoadedTrue' /\ ErrorTrue' /\ WalkTrue' /\ GotTrue'
  BY <1>2, <1>3 DEF Accepted, LoadedTrue, ErrorTrue, RefusedForReason, WalkTrue,
     GotTrue, MetadataFaithful
<1> QED BY <1>4, <1>5 DEF ReaderInv

LEMMA StepReader ==
    BuilderInv /\ LayoutInv /\ Contents /\ ReaderInv /\ [ReaderNext]_erfVars
      => ReaderInv'
<1> SUFFICES ASSUME BuilderInv, LayoutInv, Contents, ReaderInv, [ReaderNext]_erfVars
             PROVE  ReaderInv'
  OBVIOUS
<1>1. CASE UNCHANGED erfVars
  <2>1. UNCHANGED <<buildVars, image, handle, resources, lastError, walk, got, verified>>
    BY <1>1 DEF erfVars, readerVars
  <2>2. verified' \in {"unknown", "match", "mismatch"}
    BY <2>1 DEF ReaderInv, ReaderTypes
  <2>3. ReaderTypes' /\ Accepted' /\ LoadedTrue' /\ ErrorTrue'
    BY <2>1, <2>2, SameHandle
  <2>4. /\ Sound' = Sound /\ meta' = meta /\ loaded' = loaded
        /\ \A i, n, a : Chain(i, n, a)' = Chain(i, n, a)
    BY <2>1, SameImage, SameCells DEF loaded
  <2>5. AtPair(walk)' = AtPair(walk)
    BY <2>1, <2>4 DEF AtPair
  <2>6. WalkTrue' /\ GotTrue'
    BY <2>1, <2>4, <2>5 DEF ReaderInv, WalkTrue, GotTrue, MetadataFaithful
  <2> QED BY <2>3, <2>6 DEF ReaderInv
<1>2. CASE ReaderNext
  BY <1>2, BuildStep, OpenStep, LoadStep, AskStep, WalkStep, RestStep DEF ReaderNext
<1> QED BY <1>1, <1>2

(* A step of the reader is a stutter of the builder.  *)
LEMMA ReaderBuilds == ASSUME [ReaderNext]_erfVars PROVE [BuildNext]_buildVars
<1>1. CASE UNCHANGED erfVars
  BY <1>1 DEF erfVars
<1>2. CASE BuildNext
  BY <1>2
<1>3. ASSUME NEW n \in Sizes, NEW d \in Damages, OpenRefused(n, d) \/ OpenHeader(n, d)
      PROVE  UNCHANGED buildVars
  BY <1>3 DEF OpenRefused, OpenHeader, Arrive
<1>4. CASE LoadEntry \/ EntryRefused \/ OpenDone \/ WalkPair \/ VerifyChecksum \/ Close
  BY <1>4 DEF LoadEntry, EntryRefused, OpenDone, WalkPair, VerifyChecksum, Close
<1>5. ASSUME NEW e \in DOMAIN resources, NEW k \in 0 .. 2,
             MetadataNone(e, k) \/ MetadataGet(e, k)
      PROVE  UNCHANGED buildVars
  BY <1>5 DEF MetadataNone, MetadataGet
<1> QED BY <1>1, <1>2, <1>3, <1>4, <1>5 DEF ReaderNext

(* The inductive invariant of a container's whole life: it holds what the    *)
(* manifest says, laid out without overlap, and the reader has found it.     *)
THEOREM ReaderInvariant ==
    ReaderSpec => [](BuilderInv /\ LayoutInv /\ Contents /\ ReaderInv)
<1> DEFINE Inv == BuilderInv /\ LayoutInv /\ Contents /\ ReaderInv
<1>1. ReaderInit => Inv
  BY InitBuilder, InitLayout, InitContents, InitReader DEF ReaderInit
<1>2. Inv /\ [ReaderNext]_erfVars => Inv'
  BY ReaderBuilds, StepBuilder, StepLayout, StepContents, StepReader
<1> QED BY <1>1, <1>2, PTL DEF ReaderSpec

(* A container of any manifest, with whatever of its fields damaged, is read *)
(* within its types; a walk over metadata never leaves the pairs there are.  *)
THEOREM ReaderTypesHold == ReaderSpec => []ReaderTypeOK
<1>1. ReaderInv => ReaderTypeOK
  <2> SUFFICES ASSUME ReaderInv PROVE ReaderTypeOK
    OBVIOUS
  <2>1. ReaderTypes
    BY DEF ReaderInv
  <2>2. walk # NoWalk =>
           /\ handle = "open"
           /\ walk.of \in DOMAIN resources
           /\ walk.round <= walk.index
           /\ Sound => walk.index < Len(meta[walk.of - 1])
    <3>1. DOMAIN resources = 1 .. loaded
      BY <2>1 DEF ReaderTypes, loaded
    <3> QED BY <3>1 DEF ReaderInv, WalkTrue, AtPair
  <2> QED BY <2>1, <2>2 DEF ReaderTypes, ReaderTypeOK
<1> QED BY <1>1, ReaderInvariant, PTL

(* Whatever field is damaged, the entries and the table of an open container *)
(* lie in memory; undamaged, they are the manifest's, whatever its size.     *)
THEOREM OpensFaithfully == ReaderSpec => []OpenFaithful
<1>1. BuilderInv /\ LayoutInv /\ Contents /\ ReaderInv => OpenFaithful
  <2> SUFFICES ASSUME BuilderInv, LayoutInv, Contents, ReaderInv, handle = "open"
               PROVE  OpenFaithful
    BY DEF OpenFaithful
  <2>1. /\ stage = "built" /\ damage \in Damages /\ size \in Nat
        /\ HeaderError(size, damage) = "ERF_OK" /\ resources \in Seq(EntryRecord)
        /\ DOMAIN resources = 1 .. loaded
    BY DEF ReaderInv, ReaderTypes, Accepted, loaded
  <2>2. /\ TheHeader.total \in Nat /\ TheHeader.total <= size
        /\ HasHash(TheHeader) => TableInBounds(size, damage)
    BY <2>1, HeaderBounds DEF TheHeader
  <2>3. ASSUME NEW e \in DOMAIN resources
        PROVE  /\ InBounds(size, resources[e].name, 1)
               /\ InBounds(size, resources[e].data, resources[e].size)
    <3>1. EntryInBounds(resources[e])
      BY <2>1 DEF ReaderInv, LoadedTrue
    <3>2. /\ resources[e].name \in Nat /\ resources[e].data \in Nat
          /\ resources[e].size \in Nat
      <4>1. resources[e] \in EntryRecord
        BY <2>1, <2>3 DEF loaded
      <4> QED BY <4>1 DEF EntryRecord
    <3> QED BY <2>1, <2>2, <3>1, <3>2 DEF EntryInBounds, InBounds
  <2>4. ASSUME Sound
        PROVE  loaded = count
    <3>1. damage \in SoundBytes
      BY <2>4 DEF Sound, SoundBytes
    <3>2. TheHeader.count = count
      BY <2>1, <3>1, HeaderNat DEF TheHeader, Header
    <3> QED BY <3>2 DEF ReaderInv, LoadedTrue
  <2>5. ASSUME Sound, NEW e \in Entries
        PROVE  LET r == resources[e + 1]
                   data == CHOOSE c \in cells :
                               c.holds[1] = "data" /\ c.holds[2].of = e
               IN  /\ Holds(r.name, "text", "garbage") = names[e]
                   /\ InBounds(size, r.name, strLen[names[e]] + 1)
                   /\ r.data = data.at /\ r.size = data.size
    <3> DEFINE data == CHOOSE c \in cells : c.holds[1] = "data" /\ c.holds[2].of = e
               i == e + 1
    <3>1. count \in Nat /\ len \in Nat
      BY LayoutFacts
    <3>2. i \in 1 .. loaded /\ i - 1 = e
      BY <2>4, <2>5, <3>1 DEF Entries
    <3>3. resources[i] = DirectoryEntry(i - 1) /\ len <= size
      <4> HIDE DEF i
      <4> QED BY <2>5, <3>2, OpenKnown
    <3>4. /\ Holds(nameOffset[e], "text", "garbage") = names[e]
          /\ nameOffset[e] \in Nat /\ strLen[names[e]] \in Nat
          /\ nameOffset[e] + strLen[names[e]] + 1 <= len
      BY <2>1, NameTrue
    <3>5. data.at = dataOffset[e] /\ data.size = dataSize[e]
      BY <2>1, DataFound
    <3>6. InBounds(size, nameOffset[e], strLen[names[e]] + 1)
      BY <2>1, <3>1, <3>3, <3>4 DEF InBounds
    <3>7. resources[e + 1] = DirectoryEntry(e)
      BY <3>2, <3>3
    <3> HIDE DEF data, i
    <3>8. LET r == resources[e + 1]
          IN  /\ Holds(r.name, "text", "garbage") = names[e]
              /\ InBounds(size, r.name, strLen[names[e]] + 1)
              /\ r.data = data.at /\ r.size = data.size
      BY <3>4, <3>5, <3>6, <3>7 DEF DirectoryEntry
    <3> QED BY <3>8 DEF data
  <2> QED BY <2>2, <2>3, <2>4, <2>5 DEF OpenFaithful
<1> QED BY <1>1, ReaderInvariant, PTL

(* The error of a refused container tells what is wrong with it: no memory,  *)
(* less than a header, another magic or version, or bytes missing or a       *)
(* checked field damaged behind them.  The compiler's containers all open.   *)
THEOREM RefusalsReasoned == ReaderSpec => []RefusedForReason
<1>1. ReaderInv => RefusedForReason
  BY DEF ReaderInv, ErrorTrue
<1> QED BY <1>1, ReaderInvariant, PTL

(* erf_metadata_get returns the pairs of the manifest in order, and none     *)
(* beyond them, for any number of pairs and strings of any length.           *)
THEOREM MetadataReturned == ReaderSpec => []MetadataFaithful
<1>1. ReaderInv => MetadataFaithful
  BY DEF ReaderInv, GotTrue
<1> QED BY <1>1, ReaderInvariant, PTL
=============================================================================
