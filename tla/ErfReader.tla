-------------------------------- MODULE ErfReader --------------------------------
(***************************************************************************)
(* libelfr on a container elfrc built: erf_open_memory with its checks,    *)
(* erf_metadata_count and erf_metadata_get, erf_verify_checksum and        *)
(* erf_close.  The program may be handed too few or too many bytes, or     *)
(* bytes that storage has damaged.  Reading memory is finding the cell     *)
(* ContainerBuild wrote at an address.                                     *)
(***************************************************************************)
EXTENDS ContainerBuild

CONSTANTS Values   \* what a damaged field may hold

ASSUME ErfReaderAssumption == Values \subseteq Nat

VARIABLES
    size,        \* the size passed to erf_open_memory: container->size
    damage,      \* what has happened to the image
    handle,      \* "none", "opening", "open" or "closed"
    resources,   \* the ERFResource array, as far as it is materialized
    lastError,   \* g_last_error
    walk,        \* erf_metadata_get in progress, or NoWalk
    got,         \* what erf_metadata_get returned, if it was called last
    verified     \* what erf_verify_checksum returned, if it was called last

image == <<size, damage>>
readerVars == <<image, handle, resources, lastError, walk, got, verified>>
erfVars == <<buildVars, readerVars>>

NoWalk == [of |-> 0, index |-> -1, at |-> 0, round |-> 0]
NoPair == <<>>
NoAnswer == [asked |-> NoWalk, pair |-> NoPair]

(* One field overwritten: of the header, of the header of the hash table,   *)
(* of the last directory entry, or bytes that erf_open_memory does not look *)
(* at.                                                                      *)
NoDamage == [field |-> "none", value |-> 0]
PayloadDamage == [field |-> "payload", value |-> 0]
HeaderFields == {"magic", "version", "flags", "headerSize", "count",
                 "entrySize", "directory", "strings", "table", "total"}
EntryFields == {"name", "data", "size"}
Damages ==
    {NoDamage, PayloadDamage}
      \cup [field : HeaderFields \cup EntryFields \cup {"buckets"}, value : Values]

ReaderInit ==
    /\ BuildInit
    /\ size = 0
    /\ damage = NoDamage
    /\ handle = "none"
    /\ resources = <<>>
    /\ lastError = "ERF_OK"
    /\ walk = NoWalk
    /\ got = NoAnswer
    /\ verified = "unknown"

(* The value of a kind found at an address; an address that is not that of  *)
(* a cell of the kind yields something else.                                *)
Holds(at, kind, otherwise) ==
    LET found == {c \in cells : c.at = at /\ c.holds[1] = kind}
    IN  IF found # {} THEN (CHOOSE c \in found : TRUE).holds[2] ELSE otherwise

InBounds(limit, offset, n) == offset <= limit /\ n <= limit - offset

(* Header, bucket count and directory entries as they are read under damage *)
(* d; what is read in a wrong place is the value of the damage.             *)
HeaderUnder(d) ==
    LET h == Holds(0, "header", <<>>)
    IN  IF d.field \in HeaderFields THEN [h EXCEPT ![d.field] = d.value] ELSE h

BucketsUnder(d) ==
    IF d.field = "buckets" THEN d.value
    ELSE Holds(HeaderUnder(d).table, "u32", d.value)

TheHeader == HeaderUnder(damage)
EntryElsewhere ==
    [name |-> damage.value, data |-> damage.value, size |-> damage.value,
     meta |-> 0]
ReadEntry(e) ==
    LET at == TheHeader.directory + e * TheHeader.entrySize
        d == Holds(at, "entry", EntryElsewhere)
    IN  IF damage.field \in EntryFields /\ e = TheHeader.count - 1
        THEN [d EXCEPT ![damage.field] = damage.value]
        ELSE d

(* flags say that there is a hash table, and it has an offset. *)
HasHash(h) ==
    (h.flags \div ERF_HFLAG_HASH_TABLE_PRESENT) % 2 = 1 /\ h.table # 0

TableInBounds(limit, d) ==
    LET table == HeaderUnder(d).table
    IN  /\ InBounds(limit, table, TableHeaderSize)
        /\ InBounds(limit, table + TableHeaderSize, BucketsUnder(d) * BucketSize)

(* Broken: a container is refused when not a byte follows it. *)
FitsStrictly(h, n) == h.headerSize <= h.total /\ h.total < n
Fits(h, n) == h.headerSize <= h.total /\ h.total <= n

HeaderInBounds(n, d) ==
    LET h == HeaderUnder(d)
    IN  /\ HeaderSize <= h.headerSize
        /\ Fits(h, n)
        /\ EntrySize <= h.entrySize
        /\ InBounds(h.total, h.directory, h.count * h.entrySize)
        /\ h.count > 0 => InBounds(h.total, h.strings, 0)
        /\ HasHash(h) => TableInBounds(h.total, d)

(* The checks made before anything is allocated, in their order. *)
HeaderError(n, d) ==
    IF n = 0 THEN "ERF_ERR_INVALID_ARGUMENT"
    ELSE IF n < HeaderSize THEN "ERF_ERR_TRUNCATED"
    ELSE IF HeaderUnder(d).magic # ERF_MAGIC THEN "ERF_ERR_BAD_MAGIC"
    ELSE IF HeaderUnder(d).version # ERF_VERSION_MAJOR
         THEN "ERF_ERR_UNSUPPORTED_VERSION"
    ELSE IF HeaderInBounds(n, d) THEN "ERF_OK" ELSE "ERF_ERR_BAD_OFFSET"

(* The bytes arrive, maybe damaged; erf_open_memory is called on n of them. *)
Arrive(n, d) ==
    /\ stage = "built"
    /\ handle = "none"
    /\ d.field \in EntryFields => count > 0
    /\ size' = n
    /\ damage' = d
    /\ UNCHANGED <<buildVars, resources, walk, got, verified>>

OpenRefused(n, d) ==
    /\ Arrive(n, d)
    /\ HeaderError(n, d) # "ERF_OK"
    /\ lastError' = HeaderError(n, d)
    /\ handle' = "closed"

OpenHeader(n, d) ==
    /\ Arrive(n, d)
    /\ HeaderError(n, d) = "ERF_OK"
    /\ handle' = "opening"
    /\ UNCHANGED lastError

loaded == Len(resources)
Loading == handle = "opening" /\ loaded < TheHeader.count

(* Broken: the data of an entry is not looked at. *)
EntryInBoundsByName(d) == InBounds(TheHeader.total, d.name, 1)
EntryInBounds(d) ==
    /\ InBounds(TheHeader.total, d.name, 1)
    /\ InBounds(TheHeader.total, d.data, d.size)

LoadEntry ==
    /\ Loading
    /\ EntryInBounds(ReadEntry(loaded))
    /\ resources' = Append(resources, ReadEntry(loaded))
    /\ UNCHANGED <<buildVars, image, handle, lastError, walk, got, verified>>

(* One entry out of bounds and the whole container is refused. *)
EntryRefused ==
    /\ Loading
    /\ ~EntryInBounds(ReadEntry(loaded))
    /\ resources' = <<>>
    /\ lastError' = "ERF_ERR_BAD_OFFSET"
    /\ handle' = "closed"
    /\ UNCHANGED <<buildVars, image, walk, got, verified>>

OpenDone ==
    /\ handle = "opening"
    /\ loaded = TheHeader.count
    /\ handle' = "open"
    /\ lastError' = "ERF_OK"
    /\ UNCHANGED <<buildVars, image, resources, walk, got, verified>>

(* In resources, e counts from 1. *)
MetadataCount(e) ==
    IF resources[e].meta = 0 \/ ~InBounds(size, resources[e].meta, 4) THEN 0
    ELSE Holds(resources[e].meta, "u32", damage.value)

Asked(e, k) == [NoWalk EXCEPT !.of = e, !.index = k]
Idle == handle = "open" /\ walk = NoWalk

(* erf_metadata_get returns -1 at once: no block, or no pair of that index. *)
MetadataNone(e, k) ==
    /\ Idle
    /\ k >= MetadataCount(e)
    /\ got' = [asked |-> Asked(e, k), pair |-> NoPair]
    /\ verified' = "unknown"
    /\ UNCHANGED <<buildVars, image, handle, resources, lastError, walk>>

(* Broken: the index one past the last pair is walked to. *)
HasPairOrPast(e, k) == k <= MetadataCount(e)
HasPair(e, k) == k < MetadataCount(e)

MetadataGet(e, k) ==
    /\ Idle
    /\ HasPair(e, k)
    /\ walk' = [of |-> e, index |-> k, at |-> resources[e].meta + 4, round |-> 0]
    /\ got' = NoAnswer
    /\ verified' = "unknown"
    /\ UNCHANGED <<buildVars, image, handle, resources, lastError>>

(* The address past a string whose length is at the given one. *)
PastString(at) == at + 4 + Holds(at, "u32", 0) + 1

Answer(w, p) ==
    /\ walk' = NoWalk
    /\ got' = [asked |-> Asked(w.of, w.index), pair |-> p]

(* One turn of the loop over the pairs: the lengths lead to the next pair;  *)
(* the last turn is that of the pair asked for.                             *)
WalkPair ==
    /\ walk # NoWalk
    /\ LET v == PastString(walk.at)
           past == PastString(v)
       IN  IF ~InBounds(size, walk.at, past - walk.at)
           THEN Answer(walk, NoPair)
           ELSE IF walk.round = walk.index
           THEN Answer(walk, <<Holds(walk.at + 4, "text", "garbage"),
                               Holds(v + 4, "text", "garbage")>>)
           ELSE /\ walk' = [walk EXCEPT !.at = past, !.round = @ + 1]
                /\ UNCHANGED got
    /\ UNCHANGED <<buildVars, image, handle, resources, lastError, verified>>

(* The checksum is taken over container->size bytes; bytes that differ, or  *)
(* more bytes, are taken to have another one.                               *)
ChecksumMatches == damage = NoDamage /\ size = TheHeader.total

VerifyChecksum ==
    /\ Idle
    /\ verified' = IF ChecksumMatches THEN "match" ELSE "mismatch"
    /\ got' = NoAnswer
    /\ UNCHANGED <<buildVars, image, handle, resources, lastError, walk>>

Close ==
    /\ Idle
    /\ handle' = "closed"
    /\ resources' = <<>>
    /\ got' = NoAnswer
    /\ verified' = "unknown"
    /\ UNCHANGED <<buildVars, image, lastError, walk>>

(* What a program is handed: nothing, part of a header, all but a byte, the *)
(* container, the container and what happens to follow it.                  *)
Sizes == {0, 100, len - 1, len, len + 16}

ReaderNext ==
    \/ BuildNext /\ UNCHANGED readerVars
    \/ \E n \in Sizes, d \in Damages : OpenRefused(n, d) \/ OpenHeader(n, d)
    \/ LoadEntry \/ EntryRefused \/ OpenDone
    \/ \E e \in DOMAIN resources, k \in 0 .. 2 :
          MetadataNone(e, k) \/ MetadataGet(e, k)
    \/ WalkPair \/ VerifyChecksum \/ Close

ReaderSpec == ReaderInit /\ [][ReaderNext]_erfVars

-----------------------------------------------------------------------------
(* What erf_open_memory relies on is as elfrc wrote it. *)
Sound == damage \in {NoDamage, PayloadDamage}

(* Types; a walk over metadata stays within the pairs of its resource.  *)
ReaderTypeOK ==
    /\ size \in Nat
    /\ damage \in Damages
    /\ handle \in {"none", "opening", "open", "closed"}
    /\ handle # "none" => stage = "built"
    /\ handle \in {"none", "closed"} => resources = <<>>
    /\ verified \in {"unknown", "match", "mismatch"}
    /\ walk # NoWalk =>
          /\ handle = "open"
          /\ walk.of \in DOMAIN resources
          /\ walk.round <= walk.index
          /\ Sound => walk.index < Len(meta[walk.of - 1])

(* Whatever field of the image is damaged, the entries and the hash table   *)
(* of a container that opens lie in the memory the program handed over.     *)
(* And unless a field is damaged, the open container is the manifest's:     *)
(* every resource under its own name, with the bytes embedded for it.       *)
OpenFaithful ==
    handle = "open" =>
        /\ \A e \in DOMAIN resources :
              /\ InBounds(size, resources[e].name, 1)
              /\ InBounds(size, resources[e].data, resources[e].size)
        /\ HasHash(TheHeader) => TableInBounds(size, damage)
        /\ Sound =>
              /\ loaded = count
              /\ \A e \in Entries :
                    LET r == resources[e + 1]
                        data == CHOOSE c \in cells :
                                    c.holds[1] = "data" /\ c.holds[2].of = e
                    IN  /\ Holds(r.name, "text", "garbage") = names[e]
                        /\ InBounds(size, r.name, strLen[names[e]] + 1)
                        /\ r.data = data.at /\ r.size = data.size

(* A container is refused only for a reason, and the error tells which: no  *)
(* memory at all, too little for a header, another magic or version, or a   *)
(* header that was right so far and something behind it that is not as      *)
(* elfrc wrote it: bytes are missing, or a field that is checked differs.   *)
RefusedForReason ==
    /\ lastError = "ERF_ERR_INVALID_ARGUMENT" => size = 0
    /\ lastError = "ERF_ERR_TRUNCATED" => 0 < size /\ size < HeaderSize
    /\ lastError = "ERF_ERR_BAD_MAGIC" =>
          HeaderSize <= size /\ damage.field = "magic"
    /\ lastError = "ERF_ERR_UNSUPPORTED_VERSION" =>
          HeaderSize <= size /\ damage.field = "version"
    /\ lastError = "ERF_ERR_BAD_OFFSET" =>
          /\ HeaderSize <= size
          /\ TheHeader.magic = ERF_MAGIC /\ TheHeader.version = ERF_VERSION_MAJOR
          /\ size < len \/ ~Sound

(* erf_metadata_get returns the pairs of the manifest, in order, and -1 for *)
(* an index beyond them: the reader finds its way through the lengths the   *)
(* compiler wrote.                                                          *)
MetadataFaithful ==
    Sound /\ got.asked # NoWalk =>
        LET pairs == meta[got.asked.of - 1]
            k == got.asked.index
        IN  got.pair = IF k < Len(pairs) THEN pairs[k + 1] ELSE NoPair

(* docs/ELF Resource Format Specification.md:298 defines the checksum as    *)
(* "computed over the entire resource container", and elfr.h:63 says that   *)
(* erf_verify_checksum recomputes it: undamaged bytes would verify whenever *)
(* they open.                                                               *)
IntactVerifies == verified = "mismatch" => damage # NoDamage

=============================================================================
