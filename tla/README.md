# elfrc and libelfr in TLA+

elfrc compiles a YAML manifest and the files it names into an *ERF container*,
wraps the container in an ELF object whose `.resource` section a program links
in, and libelfr reads it back at run time.  This directory holds a TLA+ model of
that tool chain, the TLC runs that check it on small instances, and TLAPS proofs
of its main invariants for every size.  Paths below are relative to the
repository root.

## The system

| Component | Source | State | Operations | What makes it correct |
|---|---|---|---|---|
| Manifest parser | `src/elfrc/manifest_yaml.c` | the first error, the resources read so far, default fields | read fields, assign ids, refuse duplicates, free | unique ids; the verdict is that of the manifest; a failed parse leaves nothing behind |
| Container builder | `src/elfrc/container_build.c` | a growing buffer, offsets recorded on the way, the hash table | lay out each section, insert names, read files, fill directory and header, fail | sections do not overlap, entries point at their own data, the table finds every name, the build ends |
| ELF writer | `src/elfrc/elf_writer.c` | the output file | lay out sections and symbols, write | the object on disk is whole or the exit status says not |
| elfrc `main` | `src/elfrc/main.c` | none | parse, build, write in sequence | no step runs on the leavings of a failed one |
| libelfr, explicit handles | `src/libelfr/erf_reader.c` | a read-only handle, one error code per thread | open, find by name or id, metadata, verify, close | a lookup answers as the directory would; nothing out of bounds; refusal only for a reason |
| libelfr, default container | `src/libelfr/erf_lookup.c` | two unlocked globals | lazy open, then a lookup | one container, shared; no NULL without a reason |
| Linker, linked image | external; `ELFR_DECLARE` in `elfr.h` | the `.resource` section of a program | place sections, resolve boundary symbols | each program finds its own container, aligned, in its own size |
| elfresdump | `src/elfresdump/main.c` | a mapped file | list, extract | no torn object passes for a whole one |
| Byte buffer, CRC-64, FNV-1a | `src/common/` | length, capacity | append, align; hash | pure helpers |

The components meet in data rather than in calls: the parser hands the builder a
validated manifest, the builder hands the writer bytes, and the bytes are all that
libelfr knows of the manifest.  So the properties that matter relate what one
component wrote to what another one reads much later: that linear probing in the
reader retraces the insertion order of the writer, that the reader's walk over
metadata agrees with the writer about what a length counts, that `<=` and `<` in
a bounds check agree with where the last byte of a section was put.

The hard behaviours are few and specific.  elfrc is sequential, but the files it
embeds belong to somebody else, who may rewrite or delete them while it runs.
libelfr is called from many threads: containers are never written after they are
opened, error codes are per thread, and the one shared mutable object, the default
container, is protected by a calling discipline written in a comment.  Integer
widths matter in the parser (`long` to `uint32_t`) and in the sizing of the table.
After its first error the parser goes on reading the resource at hand, and must
still report that error and give back all it allocated.  The object file is written
in place, over the one of an earlier run, on a disk that may fill up and by a
process that may be killed.
`PROJECT.json` lists each hazard with its line and the properties aimed at it.

## Modules

| Module | Models | Correspondence |
|---|---|---|
| `ManifestParse` | `elfrc_manifest_parse` but the inside of id assignment | `pc` is the place in the code, inside a resource the field being read; one action per field, `set_error` and the memory (`heap`) as in the code; `resources` are the strings it keeps and `codes` the 32-bit numbers; `Number` is what `strtol` or a table of names makes of a text; `Documents` are the manifests |
| `ManifestIds` | `parse_uint`, `assign_and_validate_ids` | `next`, `id`, `finalId` are the C variables; `sort` and `bsearch` are the set of explicit ids |
| `HashBuild` | hash stage of `elfrc_container_build`, `next_pow2` | one action per loop turn; `entry` is `i`, `slot` and `buckets` keep their names; the hash function is an arbitrary element of `[Names -> HashValues]` |
| `ContainerBuild` | all of `elfrc_container_build` but the inside of the hash table | the buffer is `len` and a set of cells (address, size, content); one action per section, string, pair and file step; `buckets` is the size of the table, `DoubleBuckets` a turn of `next_pow2`; a `file` has a size, a version and whether it opens and can be read; `Rewrite` and `Remove` are the outside world |
| `Elfrc` | `main` of elfrc and `elfrc_write_elf_object` | `pc` is where `main` is, `disk` the file at each output path; one action per outcome of each call; `Killed`, `Edit` and the outcomes of `fopen`, `fwrite`, `fclose` are the outside world |
| `LinkedImage` (extends `Elfrc`) | boundary symbols, `ELFR_START`, `ELFR_SIZE` | the linker places the sections of one or two objects; `Symbol` is the name as `snprintf` left it, `Declared` the one a program asks for |
| `Directory` | abstract: what a lookup promises | the first entry with the wanted name or id, or `ERF_ERR_NOT_FOUND` |
| `Lookup` (extends `HashBuild`) | `erf_find_in`, `erf_find_id_in`, `erf_resource_at` | per thread, one action per turn of the probe or scan loop; `Dir` maps `request` to `query` and shares the rest |
| `ErfReader` (extends `ContainerBuild`) | `erf_open_memory`, `erf_metadata_count`, `erf_metadata_get`, `erf_verify_checksum`, `erf_close` | reading memory is finding the cell the builder wrote there; `Sizes` and `Damages` are what the program may be handed |
| `DefaultContainer` | `get_default_container` and its callers | `attempted`, `default` are the two globals; each read and write of them is a step; `HandleCall` is a call on a handle of the thread's own, which shares `g_last_error` with them |

`Lookup`, `ErfReader` and `LinkedImage` are compositions: the reader starts from
whatever the writer produced, not from a state made up for it.  `Elfrc` takes from
`ManifestParse` and `ContainerBuild` only a verdict and the size of a container.

`Descent` models no code: it holds the order of triples of numbers that the proofs
of termination use.

Every `MC*` module instantiates one of these for TLC, and every `*_proofs` module
holds the theorems about one.  Operators introduced as *broken* are plausible
slips in the code; they are not part of any specification and exist so that each
property can be seen to fail on one of them (the `mutants` of `PROJECT.json`).

## Runs

| Run | Question | Bounds |
|---|---|---|
| `lookup` | Is the table complete, gapless, ordered by age, never full, and finished, with each insertion in bounded steps; do lookups implement `Directory`, in bounded steps, and return? | 3 entries over 3 names, hash values {0, 3, 7}, tables from 2 buckets up, with and without a table, two ids, one thread |
| `manifest_ids` | Unique ids, least automatic ids, right verdict, an end? | 3 resources, 8 for 2^32 and 15 for `LONG_MAX` |
| `manifest_ids_kept` | Is an explicit id kept as written? (Not from 2^32 on.) | 2 resources |
| `manifest_parse` | Is the first fault the one reported, are duplicates of what fields come to refused, is all memory given back, do defaults apply, is there a verdict? | up to 3 resources, 16 for 2^32; see below |
| `manifest_parse_malformed` | Is a name or file that is no string refused? (One is accepted, one crashes.) | the same |
| `container_build` | Is the layout sound and the data the files', and does the build fail only at a file that does not open, cannot be read or was changed? | 2 resources, 2 string lengths, 0 to 2 pairs, files of 0 or 17 bytes that open and read or not, each changing once; tables from 2 buckets up |
| `erf_reader` | Does libelfr return what the manifest said, refuse only with reason, and stay in bounds whatever is damaged? | the same with unchanging files and tables from 16 buckets up, as in the code; 5 sizes times 4 values in any of 14 fields |
| `erf_reader_verify` | Does an undamaged container verify? (Not with bytes behind it.) | 1 string length, 1 file size |
| `default_container` | One container, no spurious NULL, a reason for the first refusal? | 3 threads, each with calls on handles of its own |
| `default_container_absent` | Is every NULL for want of a container explained? (Only the first.) | 3 threads |
| `toolchain` | Whole objects, harmless refusals, torn objects refused, and in the linked program each container where its symbols say? | 2 output paths, 2 runs, 1 edit per source, 2 container sizes, 2 prefixes and none |
| `elfrc_flush` | Is the object written when elfrc exits with 0? (Not when `fclose` fails.) | the same |

Why the bounds are enough.  Three hash values on a table of two to eight buckets
give every relation two names can have on a probe path: same home, adjacent
homes, a path that wraps, a path shared by different hashes.  Three entries are
the least with a third name between two variants of one name.  A container is not
written after it is opened, so threads meet only in `lastError`, which is per
thread: one thread shows what any number does, and the proofs are for any number.

The moduli of `ManifestIds` are small so that truncation and saturation are reached;
the ids 0, 1, 2, 9 (which truncates to 1) and 16 (which saturates) lie in front of,
at and behind the automatic ids.

The manifests of `manifest_parse` are those of one resource with up to two fields
out of the ordinary, of two or three resources with one each, of every combination
of defaults, and of every fault at the top.  Two faults are what it takes to report
the wrong one; duplicates take two resources, and duplicates that are not
neighbours take three.  A numeral for 17, which 16 for 2^32 truncates to 1, stands
beside one for 1 as a version, a type and an id, and two tags have one language.

Lengths 2 and 7 with their NULs are 3 and 8 bytes, so that paddings of nothing and
of something both occur; a file of 17 bytes leaves the data section unaligned and
one of 0 bytes makes two entries share an address.  A damaged field of `erf_reader`
holds 0 (an offset that is none), 2 (a count or size too small), 300 (inside the
image but in the wrong place) or 1048576 (far behind it); names are interchangeable
there and the run uses that symmetry.

In `toolchain` container sizes 432 and 449 end on a 16-byte boundary and one byte
behind one; with blocks of 480 bytes an object is two or three blocks, so that a torn
file may end inside the container or inside the section header table; the long
prefix is cut so that both its symbols become one.  Two runs let a torn or an old
object be replaced, one edit makes the next run differ; the two paths are
interchangeable.  `Link` is the last step of a behaviour: nothing looks at the
sources afterwards.  `Edit` is allowed only where the code still reads a source, for
later it commutes with the rest of the run.

The machines stop when their work is done, so only `lookup` and the
`default_container` runs, where threads may always call again, check for deadlock.

Fairness.  The builder and the parser are sequential code with no blocking call:
weak fairness of their next-state relation says that the processor goes on
(`ContainerBuild` leaves the outside world out of it; in `Lookup` it is the fairness
of `Build`).  In `Lookup` a thread that is inside a call goes on (`WF` of its own
step); nobody has to call.  `ErfReader`, `DefaultContainer`, `Elfrc` and
`LinkedImage` assume no fairness and have no liveness property: the calls of
`DefaultContainer` are straight lines without a lock, and a run of elfrc may be
killed.

What the violations show is listed under `findings`: a call on an absent default
container that returns NULL without the documented error, ids of 2^32 and more
accepted and truncated, a checksum computed over the caller's size instead of the
container's, a manifest whose name or file is not a string accepted or crashing the
compiler, and an exit status of 0 over an object that did not reach the disk.  Three
more disagreements follow from a single assignment each and have no run:

* `elfr.h:42` says that `erf_last_error` is the code of the most recent *failing*
  call, while a successful lookup sets it to `ERF_OK` (`Finish` in `Lookup`);
* `docs/elfrc Compiler Specification.md:433` says that implementations SHOULD report
  the offending resource and location, while the message for two equal explicit ids
  names the id alone (`manifest_yaml.c:395`, `RefuseIds` in `ManifestParse`);
* the message of `manifest_yaml.c:480` says that only version 1 is supported, while a
  version of 2^32 + 1 passes (`TopFault`).

A container cut anywhere behind its header is refused with `ERF_ERR_BAD_OFFSET`;
`ERF_ERR_TRUNCATED` is for memory shorter than a header (`RefusedForReason`).

## Proofs

Every safety invariant and action property that a passing run checks has a theorem,
and so has the refinement of `Directory`.  All proofs are for arbitrary constants under the named
assumptions of the modules, and those are what the code itself takes for granted:

* `HashBuildAssumption`: four times the resource count fits in 32 bits, so that
  `next_pow2` neither wraps nor loops.
* `ManifestParseAssumption`: what a text comes to is a number, and no tag is the
  neutral language.
* `ManifestIdsAssumption`: fewer than 2^32 - 1 resources.
* `ContainerBuildAssumption`: lengths and sizes are numbers, metadata are finite
  sequences of pairs of strings, the smallest table has a bucket.  Offsets are not
  reduced modulo 2^32 or 2^64 there.
* `ErfReaderAssumption`: what a damaged field holds is a number.
* `ElfrcAssumption`: prefixes of at most 249 bytes, beyond which the prefix itself
  is cut, and a name has one length.

No finiteness of `Names`, `Threads`, `Paths`, the documents or the hash range is
assumed.

* **`ManifestParse_proofs`**: `ParseTypeOK`, `FirstErrorReported`, `NothingLeft`,
  `DefaultsApplied`.  What makes them inductive is a statement of how far the parser
  has come.  `ParseInv` says that the heap is the frame of the parse, the
  defaults while they are needed and what `elfrc_manifest_free` would find
  (`HeapExact`); that the error, if there is one, is a fault of the manifest with
  none before it (`ErrorRight`: this is where the fields that are still read after an
  error have to leave it alone); and that without one all fields before `pc` are
  without fault and stored: name and file as written, the others as the number
  modulo 2^32 that the field or the default comes to (`SettledSoFar`).  What has not
  been reached is as `memset` left it (`Untouched`).  When the ids are compared all
  resources are settled, so an error of duplicates has two resources behind it, and
  where there is none there are none (`DistinctAccepted`).
* **`ManifestIds_proofs`**: `IdsTypeOK`, `UniqueFinalIds`, `VerdictRight`,
  `AutoIdsLeast`.  `IdsInv` says that explicit ids are the written ones modulo 2^32,
  that automatic ids given so far are distinct, below `next` and not explicit, and
  that there is no gap below `next`: each number there is the id of a resource.
  Counting those resources shows that `next` is at most the resource count plus
  one, so that it never wraps.  `LeastSoFar` counts once more: up to an automatic id there are as
  many ids that nobody wrote as there are automatic resources up to its own.
* **`HashBuild_proofs`**: `BuildTypeOK`, `EveryEntryIndexed`, `PathsFullAndOlder`,
  `RoomLeft`, `BoundedInsertion`.  They are not inductive by themselves.  `IndInv`
  adds that the table is at least twice as large as the directory (`Spacious`), that
  a bucket in use holds an entry already inserted, under the hash of its name, and
  shares it with no other bucket (`BucketsTrue`), and that while the builder probes,
  everything from the home of the current entry to `slot` is in use (`ProbeFull`):
  that is what makes the path of the new bucket full, and since entries are placed
  in increasing order everything passed is older.  `RoomLeft` and
  `BoundedInsertion` follow by counting buckets against entries.
* **`Lookup_proofs`**: `LookupTypeOK`, `BoundedProbe` and, the main result, that
  `LookupSpec` implements `Directory`.  `LookupInv` says of a probing thread that
  the buckets it has passed are those from the home of its name to `at`, none of
  which matches.  When it hits, `PathsFullAndOlder` makes the entry the *first* of
  that name; when it stops at an unused bucket, `EveryEntryIndexed` and the full
  paths exclude that an entry of that name exists.
* **`ContainerBuild_proofs`**: `DataTrue`, `FailureNamesFile`, `ContainerTypeOK`,
  `LayoutSound`.  `BuilderInv` says that a file which is gone or differs from what
  `ftell` said has changed (`GoneChanged`, `Measured`) and that every entry read so
  far has its cell (`EmbeddedSoFar`); a file that never changed can still fail to
  open or to be read.  `LayoutInv` says that the cells written so
  far lie apart, each inside what is reserved, behind the room kept for header and
  directory (`Front`), and that every offset recorded is a multiple of what its
  section is aligned to.  `FillFront` then fills that room, and everything in the
  finished container is apart because the front was.
* **`ErfReader_proofs`** (on top of `BuilderInv` and `LayoutInv`): `ReaderTypeOK`,
  `OpenFaithful`, `RefusedForReason`, `MetadataFaithful`.  `Contents` says what the
  builder has written: names and data of each entry, the blocks of metadata as a
  chain of addresses, each where the one before ends, and header and directory.  No
  two cells that take room share an address (`OneCell`), so reading memory is
  unambiguous and undoes writing it.  `ReaderInv` says that what an open handle
  holds are such readings, but for the one damaged field, that every bounds check
  the open went through still stands, and that a walk over metadata is at a link
  of the chain.  `HeaderReasons` goes through the checks of `erf_open_memory` in their
  order and gives each error its reason.
* **Termination, short of fairness.**  The loops of this code that no `for` bounds
  are the probes of the hash table, `next_pow2` and the `while` that skips ids
  already taken; how long they run depends on the constants.
  `BuildDescends`, `IdsDescend`, `ParserDescends` and `BuilderDescends` state that
  each step of `HashBuild`, `ManifestIds`, `ManifestParse` and `ContainerBuild` makes
  a triple of numbers, `LeftToDo`, smaller in the lexicographic order of `Descent`,
  and `NoInfiniteDescent` that no sequence of triples becomes smaller for ever.  The
  first number counts stages or resources still to come, the next ones places or
  turns within one.  For the probe it is the number of entries it has not passed
  over: the buckets behind it hold as many different ones (`ProbeFull`).  For the
  skipping of ids it is the distance from `next` to 2^32.  A change of a file by
  somebody else leaves the triple of `ContainerBuild` as it is.  `CallsDescend` says
  the same of each lookup by itself: its own steps bring it nearer to its return, by
  at most as many turns as there are entries and one, and those of other threads do
  not take it back.
* **`DefaultContainer_proofs`**: `DefaultTypeOK`, `OneContainer`, `SoundAnswers`,
  `FirstRefusalExplained`.  The discipline enters as `Alone`: before the first success
  at most one thread is inside a call, so the test and the assignment of `attempted`
  cannot be separated.  The first call to be refused is the one that made the
  attempt, and nothing happens on its thread between the attempt and its return.
  Afterwards the thread's next call on any handle may overwrite the reason, which is
  why the property is one of that step and not an invariant.
* **`Elfrc_proofs`**: `ElfrcTypeOK`, `SuccessWhole`, `RefusalsHarmless`,
  `TornRefused` of `Elfrc`, `OwnContainer` of `LinkedImage`.
  `ElfrcInv` says that every file is the front of one object and nothing else
  (`Fronts`: that is what truncation on opening buys), that before the output is
  opened the path is as the run found it (`Unwritten`), and that objects, jobs and
  sources are ordered by age.  `TornRefused` then follows because the section header
  table lies at the very end: a front that reaches it is everything.  `ImageInv`
  adds that a linked program consists of one or two whole objects and that the
  linker refused those whose symbols clash, from which each pair of boundary
  symbols brackets one container.

Only model-checked are the liveness properties (`BuildTerminates`, `CallsReturn`,
`IdsDecided`, `ScalarsDecided`, `BuildEnds`): fairness and
`ENABLED` are out of the prover's reach.  The part of each that is
safety is proved, as just said: steps cannot be taken for ever.  What is left to TLC
is that a machine not yet at its end has a step to take, and takes it.
The runs of the findings are counterexamples and need no proof.

## What is abstracted or left out

* Strings are model values with a length; a field of a manifest is absent, no
  scalar, a scalar the code refuses or another one; the tables of types, languages,
  compressions and flags and the digits of numerals are the function `Number`.  Of a
  sequence of flags with an unknown one the flags before it are not kept: the resource
  is only freed.  libyaml, formatting and the
  wording of messages are not modelled.  FNV-1a is any function.  CRC-64 is taken to
  tell different byte sequences apart, so `verified` says which bytes were covered,
  not how well.
* A failing `ftell` shows up as a short read in the code and is not separate here.
  Allocation never fails: the code does not check it either.
* `name_offset` is a `uint32_t` in the file and an unbounded integer here; the
  difference needs 4 GiB of directory.  The four bytes of the magic are one number.
* `ErfReader` opens containers elfrc built, with at most one field overwritten.  A
  directory entry read in a wrong place has no metadata, so the walk over damaged
  metadata is not modelled.
* `Elfrc` writes whole blocks and then the rest: a block of which only a part
  reaches the disk is a front like any other.  The object is not on disk until it is
  written: the loss of blocks that the system had accepted is not modelled.
* The linker puts sections in command-line order and pads to their alignment; it
  refuses a program with a symbol defined twice.
* Calling the default API from several threads before the first success is a data
  race that `elfr.h` forbids; `MayCall` is that rule.

## Not modelled

* What elfresdump shows of a file it does not refuse: it opens what is at the start of
  `.resource`, of several linked containers the first.  The listing is `erf_resource_at`
  in a loop, and the file an extraction writes repeats the code of `elf_writer.c` with its ignored
  `fclose`.  Nor is a file that shrinks while elfresdump has it mapped.
* The capacity of `byte_buf` (the doubling of `realloc`) and the arithmetic of
  CRC-64 and FNV-1a, which known-answer tests cover.
* Use of an entry after `erf_close`, and everything in *What is abstracted*.

## Plan

1. *Done*: all modules above, each with its runs; a theorem for every safety
   invariant of a passing run, and the refinement of `Directory`.
   Each sequential machine is proved to come to an end, as far as that is safety.
2. Still worth their while, in this order: that the cells of a container at rest
   are those of the manifest and nothing else; the walk over damaged metadata.
