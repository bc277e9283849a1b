----------------------------- MODULE ContainerBuild -----------------------------
(***************************************************************************)
(* elfrc_container_build: the sections of an ERF container laid out one    *)
(* after the other in a growing buffer, the resource files read while      *)
(* somebody may still be editing them, and the directory and the header    *)
(* filled in last.                                                         *)
(*                                                                         *)
(* The buffer is its length and the cells written to it: where each lies,  *)
(* how many bytes it takes and what it holds.  The hash stage is one cell  *)
(* here; HashBuild is what goes on inside.                                 *)
(***************************************************************************)
EXTENDS Integers, Sequences

CONSTANTS
    Names, Texts,    \* resource names; metadata keys and values
    Lengths,         \* what strlen of either may be
    Metadata,        \* what a resource may carry: sequences of <<key, value>>
    FileSizes,       \* sizes in bytes of resource files
    MinBuckets,      \* 16 in next_pow2
    MaxResources,    \* bound on resource_count
    MaxChanges       \* bound on how often files change while elfrc runs

(* The doubling of next_pow2 is taken not to wrap: see HashBuild. *)
ASSUME ContainerBuildAssumption ==
    /\ Lengths \subseteq Nat
    /\ Metadata \subseteq Seq(Texts \X Texts)
    /\ MinBuckets \in Nat \ {0}
    /\ FileSizes \subseteq Nat
    /\ MaxResources \in Nat
    /\ MaxChanges \in Nat

VARIABLES
    count, names, meta, strLen,   \* the manifest, and strlen
    file,        \* the resource files: size, version, whether fopen can open
                 \* the path and fread can read what is in it
    stage,       \* where the builder is
    entry,       \* i: the resource at hand
    pair,        \* j: metadata pairs of that resource written so far
    len,         \* buf.len
    cells,       \* what has been written to buf
    nameOffset, metaOffset, dataOffset, dataSize,   \* per resource
    offsets,     \* the section offsets kept for the header
    buckets,     \* bucket_count: p in next_pow2 until that returns
    fsize        \* what ftell returned for the file that is open

manifest == <<count, names, meta, strLen>>
sections == <<nameOffset, metaOffset, dataOffset, dataSize, offsets, buckets>>
buildVars == <<manifest, file, stage, entry, pair, len, cells, sections, fsize>>

Entries == 0 .. count - 1

HeaderSize == 160
EntrySize == 128
BucketSize == 16
TableHeaderSize == 8

AlignNever(n, a) == n
Align(n, a) == ((n + a - 1) \div a) * a

Cell(at, size, kind, value) == [at |-> at, size |-> size, holds |-> <<kind, value>>]

BuildInit ==
    /\ count \in 0 .. MaxResources
    /\ names \in [Entries -> Names]
    /\ meta \in [Entries -> Metadata]
    /\ strLen \in [Names \cup Texts -> Lengths]
    /\ file \in [Entries -> [size : FileSizes, version : {0},
                            opens : BOOLEAN, reads : BOOLEAN]]
    /\ stage = "front"
    /\ entry = 0
    /\ pair = 0
    /\ len = 0
    /\ cells = {}
    /\ nameOffset = [e \in Entries |-> 0]
    /\ metaOffset = [e \in Entries |-> 0]
    /\ dataOffset = [e \in Entries |-> 0]
    /\ dataSize = [e \in Entries |-> 0]
    /\ offsets = [directory |-> 0, strings |-> 0, metadata |-> 0,
                  table |-> 0, data |-> 0]
    /\ buckets = MinBuckets
    /\ fsize = 0

(* Header and directory are reserved, to be written at the end.  *)
ReserveFront ==
    /\ stage = "front"
    /\ len' = Align(HeaderSize + count * EntrySize, 8)
    /\ offsets' = [offsets EXCEPT !.directory = HeaderSize, !.strings = len']
    /\ stage' = "strings"
    /\ UNCHANGED <<manifest, file, entry, pair, cells, nameOffset, metaOffset,
                   dataOffset, dataSize, buckets, fsize>>

(* The bytes string_table_intern appends; broken, the NUL is not counted. *)
InternedUncountedNul(t) == strLen[t]
Interned(t) == strLen[t] + 1

(* string_table_intern finds the name, ... *)
InternKnown ==
    /\ stage = "strings"
    /\ entry < count
    /\ \E e \in 0 .. entry - 1 :
          /\ names[e] = names[entry]
          /\ nameOffset' = [nameOffset EXCEPT ![entry] = nameOffset[e]]
    /\ entry' = entry + 1
    /\ UNCHANGED <<manifest, file, stage, pair, len, cells, metaOffset,
                   dataOffset, dataSize, offsets, buckets, fsize>>

(* ... or appends it with its NUL. *)
InternNew ==
    /\ stage = "strings"
    /\ entry < count
    /\ \A e \in 0 .. entry - 1 : names[e] # names[entry]
    /\ nameOffset' = [nameOffset EXCEPT ![entry] = len]
    /\ cells' = cells
         \cup {Cell(len, strLen[names[entry]] + 1, "text", names[entry])}
    /\ len' = len + Interned(names[entry])
    /\ entry' = entry + 1
    /\ UNCHANGED <<manifest, file, stage, pair, metaOffset, dataOffset,
                   dataSize, offsets, buckets, fsize>>

AnyMetadata == \E e \in Entries : meta[e] # <<>>

StringsDone ==
    /\ stage = "strings"
    /\ entry = count
    /\ len' = Align(len, 8)
    /\ offsets' = [offsets EXCEPT !.metadata = IF AnyMetadata THEN len' ELSE 0]
    /\ stage' = "metadata"
    /\ entry' = 0
    /\ UNCHANGED <<manifest, file, pair, cells, nameOffset, metaOffset,
                   dataOffset, dataSize, buckets, fsize>>

(* Broken: a resource without metadata is not stepped over. *)
NoBlockStuck ==
    /\ stage = "metadata"
    /\ entry < count
    /\ meta[entry] = <<>>
    /\ UNCHANGED buildVars

NoBlock ==
    /\ stage = "metadata"
    /\ entry < count
    /\ meta[entry] = <<>>
    /\ entry' = entry + 1
    /\ UNCHANGED <<manifest, file, stage, pair, len, cells, sections, fsize>>

(* The metadata block of a resource starts with the number of its pairs. *)
StartBlock ==
    /\ stage = "metadata"
    /\ entry < count
    /\ meta[entry] # <<>>
    /\ LET start == Align(len, 8) IN
         /\ metaOffset' = [metaOffset EXCEPT ![entry] = start]
         /\ cells' = cells \cup {Cell(start, 4, "u32", Len(meta[entry]))}
         /\ len' = start + 4
    /\ stage' = "pairs"
    /\ pair' = 0
    /\ UNCHANGED <<manifest, file, entry, nameOffset, dataOffset, dataSize,
                   offsets, buckets, fsize>>

(* The length recorded for a string; broken, it counts the NUL, which is    *)
(* written either way.                                                      *)
RecordedWithNul(t) == strLen[t] + 1
Recorded(t) == strLen[t]

(* A pair: each string behind its length. *)
WritePair ==
    /\ stage = "pairs"
    /\ pair < Len(meta[entry])
    /\ LET p == meta[entry][pair + 1]
           k == strLen[p[1]]
           v == strLen[p[2]]
       IN  /\ cells' = cells \cup
                 {Cell(len, 4, "u32", Recorded(p[1])),
                  Cell(len + 4, k + 1, "text", p[1]),
                  Cell(len + 5 + k, 4, "u32", Recorded(p[2])),
                  Cell(len + 9 + k, v + 1, "text", p[2])}
           /\ len' = len + 10 + k + v
    /\ pair' = pair + 1
    /\ UNCHANGED <<manifest, file, stage, entry, sections, fsize>>

BlockDone ==
    /\ stage = "pairs"
    /\ pair = Len(meta[entry])
    /\ stage' = "metadata"
    /\ entry' = entry + 1
    /\ UNCHANGED <<manifest, file, pair, len, cells, sections, fsize>>

(* One turn of the loop of next_pow2. *)
DoubleBuckets ==
    /\ stage = "metadata"
    /\ entry = count
    /\ buckets < 2 * count
    /\ buckets' = 2 * buckets
    /\ UNCHANGED <<manifest, file, stage, entry, pair, len, cells, nameOffset,
                   metaOffset, dataOffset, dataSize, offsets, fsize>>

(* The hash table: its header, then the buckets.  Data follows.  *)
WriteTable ==
    /\ stage = "metadata"
    /\ entry = count
    /\ buckets >= 2 * count
    /\ LET start == Align(len, 8)
           end == start + TableHeaderSize + buckets * BucketSize
       IN  /\ cells' = cells \cup
                 {Cell(start, TableHeaderSize, "u32", buckets),
                  Cell(start + TableHeaderSize, buckets * BucketSize,
                       "table", buckets)}
           /\ len' = Align(end, 16)
           /\ offsets' = [offsets EXCEPT !.table = start, !.data = len']
    /\ stage' = "data"
    /\ entry' = 0
    /\ UNCHANGED <<manifest, file, pair, nameOffset, metaOffset, dataOffset,
                   dataSize, buckets, fsize>>

(* fail: the buffer is freed, out keeps its zeroes. *)
Fail ==
    /\ stage' = "failed"
    /\ len' = 0
    /\ cells' = {}
    /\ UNCHANGED <<manifest, file, entry, pair, sections, fsize>>

(* fopen refuses the path: parsing the manifest has only asked stat for it. *)
CannotOpen ==
    /\ stage = "data"
    /\ entry < count
    /\ ~file[entry].opens
    /\ Fail

(* fopen, and ftell at the end of the file. *)
MeasureFile ==
    /\ stage = "data"
    /\ entry < count
    /\ file[entry].opens
    /\ fsize' = file[entry].size
    /\ stage' = "read"
    /\ UNCHANGED <<manifest, file, entry, pair, len, cells, sections>>

(* fread returns less than was asked for; of an empty file nothing is.      *)
(* Broken forms: reading nothing of an empty file is a failure too; what is *)
(* left of a file that shrank is taken for all of it.                       *)
ShortOrEmpty == file[entry].size < fsize \/ fsize = 0 \/ ~file[entry].reads
ShortNever == FALSE
Short == file[entry].size < fsize \/ (fsize > 0 /\ ~file[entry].reads)

ShortRead ==
    /\ stage = "read"
    /\ Short
    /\ Fail

(* fread returns the fsize bytes asked for: all of the file, or the front   *)
(* of it when it has grown since.                                           *)
ReadFile ==
    /\ stage = "read"
    /\ ~Short
    /\ LET start == Align(len, 16)
           content == [of |-> entry, had |-> file[entry].size]
       IN  /\ dataOffset' = [dataOffset EXCEPT ![entry] = start]
           /\ dataSize' = [dataSize EXCEPT ![entry] = fsize]
           /\ cells' = cells \cup {Cell(start, fsize, "data", content)}
           /\ len' = start + fsize
    /\ stage' = "data"
    /\ entry' = entry + 1
    /\ UNCHANGED <<manifest, file, pair, nameOffset, metaOffset, offsets,
                   buckets, fsize>>

DirectoryEntry(e) ==
    [name |-> nameOffset[e], data |-> dataOffset[e], size |-> dataSize[e],
     meta |-> metaOffset[e]]

EntryCells ==
    {Cell(offsets.directory + e * EntrySize, EntrySize, "entry",
          DirectoryEntry(e)) : e \in Entries}

Localized == \E e, f \in Entries : e # f /\ names[e] = names[f]

ERF_HFLAG_LOCALIZED == 1
ERF_HFLAG_METADATA_PRESENT == 2
ERF_HFLAG_HASH_TABLE_PRESENT == 4

Flags ==
    ERF_HFLAG_HASH_TABLE_PRESENT
      + (IF AnyMetadata THEN ERF_HFLAG_METADATA_PRESENT ELSE 0)
      + (IF Localized THEN ERF_HFLAG_LOCALIZED ELSE 0)

(* One number stands for the four bytes of the magic.  *)
ERF_MAGIC == 1
ERF_VERSION_MAJOR == 1

Header ==
    [magic |-> ERF_MAGIC, version |-> ERF_VERSION_MAJOR, flags |-> Flags,
     headerSize |-> HeaderSize, count |-> count, entrySize |-> EntrySize,
     directory |-> offsets.directory, strings |-> offsets.strings,
     table |-> offsets.table, total |-> len]

(* The directory and the header are copied over the room reserved for them, *)
(* and the buffer becomes the container.                                    *)
FillFront ==
    /\ stage = "data"
    /\ entry = count
    /\ cells' = cells \cup EntryCells \cup {Cell(0, HeaderSize, "header", Header)}
    /\ stage' = "built"
    /\ UNCHANGED <<manifest, file, entry, pair, len, sections, fsize>>

BuilderNext ==
    \/ ReserveFront \/ InternKnown \/ InternNew \/ StringsDone
    \/ NoBlock \/ StartBlock \/ WritePair \/ BlockDone
    \/ DoubleBuckets \/ WriteTable
    \/ CannotOpen \/ MeasureFile \/ ShortRead \/ ReadFile \/ FillFront

(* Somebody rewrites a resource file in place, or removes it or its         *)
(* permissions, while elfrc, which had found it there when it parsed the    *)
(* manifest, is still running.                                              *)
Changed(e) == file[e].version > 0

MayChange(e) ==
    /\ stage \notin {"built", "failed"}
    /\ file[e].version < MaxChanges
    /\ UNCHANGED <<manifest, stage, entry, pair, len, cells, sections, fsize>>

Rewrite(e) ==
    /\ MayChange(e)
    /\ \E n \in FileSizes :
          file' = [file EXCEPT ![e].size = n, ![e].version = @ + 1]

Remove(e) ==
    /\ MayChange(e)
    /\ file' = [file EXCEPT ![e].opens = FALSE, ![e].version = @ + 1]

BuildNext == BuilderNext \/ \E e \in Entries : Rewrite(e) \/ Remove(e)

BuildSpec ==
    BuildInit /\ [][BuildNext]_buildVars /\ WF_buildVars(BuilderNext)

-----------------------------------------------------------------------------
End(c) == c.at + c.size

(* Types; everything recorded so far lies inside the buffer.  *)
ContainerTypeOK ==
    /\ count \in 0 .. MaxResources
    /\ names \in [Entries -> Names]
    /\ meta \in [Entries -> Metadata]
    /\ strLen \in [Names \cup Texts -> Lengths]
    /\ file \in [Entries -> [size : FileSizes, version : 0 .. MaxChanges,
                            opens : BOOLEAN, reads : BOOLEAN]]
    /\ stage \in {"front", "strings", "metadata", "pairs", "data", "read",
                  "built", "failed"}
    /\ entry \in 0 .. count
    /\ stage \in {"pairs", "read"} => entry < count
    /\ len \in Nat
    /\ buckets \in Nat \ {0}
    /\ \A c \in cells : c.at \in Nat /\ c.size \in Nat /\ End(c) <= len

(* The sections of a finished container do not run into each other, what is *)
(* filled in last stays inside the room reserved for it, and what libelfr   *)
(* reads through a pointer into the image is aligned for it.                *)
Apart(c, d) == End(c) <= d.at \/ End(d) <= c.at
LayoutSound ==
    stage = "built" =>
        /\ \A c, d \in cells : c = d \/ Apart(c, d)
        /\ offsets.table % 8 = 0 /\ offsets.data % 16 = 0
        /\ \A e \in Entries : metaOffset[e] % 8 = 0 /\ dataOffset[e] % 16 = 0

(* Every entry of a finished container points at as many bytes as it says,  *)
(* all of them read from its own file; and at the whole file when nobody    *)
(* touched it during the build.                                             *)
Embedded(e) ==
    \E c \in cells :
        /\ c.at = dataOffset[e]
        /\ c.size = dataSize[e]
        /\ c.holds[1] = "data"
        /\ c.holds[2].of = e
        /\ c.size <= c.holds[2].had
        /\ ~Changed(e) => c.size = file[e].size
DataTrue == stage = "built" => \A e \in Entries : Embedded(e)

(* elfrc gives up on a container only at a file that cannot be opened or    *)
(* read, or that somebody changed meanwhile: the one its message names.  A  *)
(* sound file of any size, an empty one too, is never held against it.      *)
FailureNamesFile ==
    stage = "failed" =>
        \/ ~file[entry].opens
        \/ ~file[entry].reads
        \/ Changed(entry)

(* The build ends, one way or the other: the code runs to completion and    *)
(* the files change finitely often.                                         *)
BuildEnds == <>(stage \in {"built", "failed"})

=============================================================================
