--------------------------------- MODULE Elfrc ---------------------------------
(***************************************************************************)
(* The elfrc command: main parses, builds and has elfrc_write_elf_object   *)
(* write an ELF object over whatever an earlier run left at the output     *)
(* path.  Sources are edited, disks fill up and runs are killed.           *)
(*                                                                         *)
(* A source stands for a manifest with its resource files; what parser and *)
(* builder make of it is modelled by ManifestParse and ContainerBuild.     *)
(***************************************************************************)
EXTENDS Integers

CONSTANTS
    Paths,      \* output paths, one per source
    Prefixes,   \* symbol prefixes: [name, length]
    Sizes,      \* sizes of containers
    BlockSize,  \* what stdio hands to the file at a time
    MaxEdits,   \* bound on the number of edits
    MaxRuns     \* bound on the number of runs

NoPrefix == [name |-> "", length |-> 0]

(* length is strlen(name). *)
ASSUME ElfrcAssumption ==
    /\ Prefixes \subseteq [name : STRING, length : 1 .. 249]
    /\ \A p, q \in Prefixes \cup {NoPrefix} : p.name = q.name => p = q
    /\ Sizes \subseteq Nat
    /\ BlockSize \in Nat \ {0}
    /\ MaxEdits \in Nat
    /\ MaxRuns \in Nat

VARIABLES
    source,     \* each source: version, size of its container, module, verdict
    disk,       \* the file at each output path
    pc,         \* where main is
    job,        \* what the run has so far: path, prefix, object
    status,     \* how the last run for each path ended
    lost,       \* whether that run's fclose failed to write the rest
    before,     \* what was at the path when that run started
    runs        \* how many runs there have been

elfrcVars == <<source, disk, pc, job, status, lost, before, runs>>

-----------------------------------------------------------------------------
(* The object of a container: the ELF header, .resource, .symtab, .strtab,  *)
(* .shstrtab, and the section header table.                                 *)

EhdrSize == 64
SymtabSize == 3 * 24
ShstrtabSize == 37
SectionHeaders == 5 * 64
NameMax == 255          \* snprintf into char[256]

Align(n, a) == ((n + a - 1) \div a) * a

SuffixLength == [start |-> 15, end |-> 13]   \* "_resource_start", "_resource_end"
Common == 10                                 \* "_resource_"

(* "_elfr" and the suffix, or "_elfr_", the prefix and the suffix. *)
FullLength(p, kind) == (IF p = NoPrefix THEN 5 ELSE 6 + p.length) + SuffixLength[kind]
NameLength(p, kind) == IF FullLength(p, kind) > NameMax THEN NameMax
                       ELSE FullLength(p, kind)

(* The symbol as it is declared with ELFR_DECLARE, and as snprintf leaves   *)
(* it in the object; a name cut within "_resource_" is that of both ends.   *)
Declared(p, kind) == <<p.name, kind, 0>>
Symbol(p, kind) ==
    LET cut == FullLength(p, kind) - NameLength(p, kind) IN
    IF cut >= SuffixLength[kind] - Common THEN <<p.name, "either", NameMax>>
    ELSE <<p.name, kind, cut>>

ResourceOffset == Align(EhdrSize, 16)
SymtabOffset(o) == Align(ResourceOffset + o.size, 8)
StrtabSize(o) == 3 + NameLength(o.prefix, "start") + NameLength(o.prefix, "end")
SectionTable(o) == Align(SymtabOffset(o) + SymtabSize + StrtabSize(o) + ShstrtabSize, 8)
ObjectSize(o) == SectionTable(o) + SectionHeaders

NoObject == [version |-> 0, size |-> 0, prefix |-> NoPrefix]

(* A file begins with so many bytes of an object; what is behind them, if   *)
(* anything, is older.                                                      *)
NoFile == [object |-> NoObject, fresh |-> 0, length |-> -1]
Whole(f) == f.length = ObjectSize(f.object) /\ f.fresh = f.length

-----------------------------------------------------------------------------
Verdicts == {"good", "malformed", "unbuildable"}
NoJob == [path |-> "", prefix |-> NoPrefix, object |-> NoObject]

ElfrcInit ==
    /\ source \in [Paths -> [version : {1}, size : Sizes, verdict : {"good"},
                             module : Prefixes \cup {NoPrefix}]]
    /\ disk = [p \in Paths |-> NoFile]
    /\ pc = "idle"
    /\ job = NoJob
    /\ status = [p \in Paths |-> "none"]
    /\ lost = [p \in Paths |-> FALSE]
    /\ before = [p \in Paths |-> NoFile]
    /\ runs = 0

Exit(how) ==
    /\ status' = [status EXCEPT ![job.path] = how]
    /\ pc' = "idle"
    /\ job' = NoJob

(* The command line: --symbol-prefix may be given, or be given empty. *)
Invoke(p, option) ==
    /\ pc = "idle"
    /\ runs < MaxRuns
    /\ runs' = runs + 1
    /\ job' = [path |-> p, prefix |-> option, object |-> NoObject]
    /\ status' = [status EXCEPT ![p] = "running"]
    /\ lost' = [lost EXCEPT ![p] = FALSE]
    /\ before' = [before EXCEPT ![p] = disk[p]]
    /\ pc' = "arguments"
    /\ UNCHANGED <<source, disk>>

(* A command line main does not take, or one that asks for help. *)
RefuseArguments ==
    /\ pc = "arguments"
    /\ Exit("refused")
    /\ UNCHANGED <<source, disk, lost, before, runs>>

TakeArguments ==
    /\ pc = "arguments"
    /\ pc' = "parse"
    /\ UNCHANGED <<source, disk, job, status, lost, before, runs>>

NotGiven == [name |-> "not given", length |-> 0]

ParseFails ==
    /\ pc = "parse"
    /\ source[job.path].verdict = "malformed"
    /\ Exit("refused")
    /\ UNCHANGED <<source, disk, lost, before, runs>>

(* The prefix is that of the command line, or the manifest's module; not    *)
(* looking at the module is a broken form.                                  *)
SymbolPrefixGiven == job.prefix
SymbolPrefix == IF job.prefix = NotGiven THEN source[job.path].module
                ELSE job.prefix

Parse ==
    /\ pc = "parse"
    /\ source[job.path].verdict # "malformed"
    /\ job' = [job EXCEPT !.prefix = SymbolPrefix]
    /\ pc' = "build"
    /\ UNCHANGED <<source, disk, status, lost, before, runs>>

(* Broken: the output was opened before the container was built. *)
BuildFailsOpened ==
    /\ pc = "build"
    /\ source[job.path].verdict = "unbuildable"
    /\ disk' = [disk EXCEPT ![job.path] = NoFile]
    /\ Exit("refused")
    /\ UNCHANGED <<source, lost, before, runs>>

BuildFails ==
    /\ pc = "build"
    /\ source[job.path].verdict = "unbuildable"
    /\ Exit("refused")
    /\ UNCHANGED <<source, disk, lost, before, runs>>

Build ==
    /\ pc = "build"
    /\ source[job.path].verdict # "unbuildable"
    /\ job' = [job EXCEPT !.object = [version |-> source[job.path].version,
                                      size |-> source[job.path].size,
                                      prefix |-> job.prefix]]
    /\ pc' = "open"
    /\ UNCHANGED <<source, disk, status, lost, before, runs>>

OpenFails ==
    /\ pc = "open"
    /\ Exit("refused")
    /\ UNCHANGED <<source, disk, lost, before, runs>>

(* Broken: as after fopen(output_path, "r+b"). *)
OpenedKeeping(f) == [object |-> job.object, fresh |-> 0, length |-> f.length]

(* fopen(output_path, "wb"): nothing of the old file is left. *)
Opened(f) == [object |-> job.object, fresh |-> 0, length |-> 0]

Open ==
    /\ pc = "open"
    /\ disk' = [disk EXCEPT ![job.path] = Opened(@)]
    /\ pc' = "write"
    /\ UNCHANGED <<source, job, status, lost, before, runs>>

(* The file once n bytes of the object have been written to it. *)
Grown(f, n) ==
    [f EXCEPT !.fresh = n, !.length = IF n > f.length THEN n ELSE f.length]

(* fwrite hands whole blocks to the file. *)
WriteBlock ==
    /\ pc = "write"
    /\ LET f == disk[job.path] IN
         /\ f.fresh + BlockSize <= ObjectSize(job.object)
         /\ disk' = [disk EXCEPT ![job.path] = Grown(f, f.fresh + BlockSize)]
    /\ UNCHANGED <<source, pc, job, status, lost, before, runs>>

(* A block does not fit on the disk: fwrite returns less than was asked. *)
WriteShort ==
    /\ pc = "write"
    /\ disk[job.path].fresh + BlockSize <= ObjectSize(job.object)
    /\ Exit("short")
    /\ UNCHANGED <<source, disk, lost, before, runs>>

(* Less than a block is left: it stays in the buffer for fclose. *)
WriteDone ==
    /\ pc = "write"
    /\ disk[job.path].fresh + BlockSize > ObjectSize(job.object)
    /\ pc' = "close"
    /\ UNCHANGED <<source, disk, job, status, lost, before, runs>>

Close ==
    /\ pc = "close"
    /\ disk' = [disk EXCEPT ![job.path] = Grown(@, ObjectSize(job.object))]
    /\ Exit("ok")
    /\ UNCHANGED <<source, lost, before, runs>>

(* The rest does not fit on the disk, and nobody looks at what fclose says. *)
CloseLoses ==
    /\ pc = "close"
    /\ disk[job.path].fresh < ObjectSize(job.object)
    /\ lost' = [lost EXCEPT ![job.path] = TRUE]
    /\ Exit("ok")
    /\ UNCHANGED <<source, disk, before, runs>>

Killed ==
    /\ pc # "idle"
    /\ Exit("killed")
    /\ UNCHANGED <<source, disk, lost, before, runs>>

(* Somebody edits a manifest or a resource file; once the container is      *)
(* built an edit may as well come after the run.                            *)
Edit(p) ==
    /\ pc \in {"idle", "parse", "build"}
    /\ source[p].version <= MaxEdits
    /\ \E s \in Sizes, v \in Verdicts :
          source' = [source EXCEPT ![p].version = @ + 1, ![p].size = s,
                                   ![p].verdict = v]
    /\ UNCHANGED <<disk, pc, job, status, lost, before, runs>>

ElfrcStep ==
    \/ RefuseArguments \/ TakeArguments \/ ParseFails \/ Parse
    \/ BuildFails \/ Build \/ OpenFails \/ Open
    \/ WriteBlock \/ WriteShort \/ WriteDone \/ Close \/ CloseLoses

ElfrcNext ==
    \/ \E p \in Paths, option \in Prefixes \cup {NoPrefix, NotGiven} :
          Invoke(p, option)
    \/ ElfrcStep
    \/ Killed
    \/ \E p \in Paths : Edit(p)

ElfrcSpec == ElfrcInit /\ [][ElfrcNext]_elfrcVars

-----------------------------------------------------------------------------
Object == [version : Nat, size : Sizes \cup {0}, prefix : Prefixes \cup {NoPrefix}]
File == [object : Object, fresh : Nat, length : Nat \cup {-1}]
Source == [version : Nat, size : Sizes, verdict : Verdicts,
           module : Prefixes \cup {NoPrefix}]

(* Types; a run that has come to write has an object to write.  *)
ElfrcTypeOK ==
    /\ source \in [Paths -> Source]
    /\ disk \in [Paths -> File]
    /\ before \in [Paths -> File]
    /\ pc \in {"idle", "arguments", "parse", "build", "open", "write", "close"}
    /\ pc # "idle" => job.path \in Paths
    /\ job.prefix \in Prefixes \cup {NoPrefix, NotGiven}
    /\ job.object \in Object
    /\ pc \in {"write", "close"} => disk[job.path].object = job.object
    /\ status \in [Paths -> {"none", "running", "refused", "short", "killed", "ok"}]
    /\ lost \in [Paths -> BOOLEAN]
    /\ runs \in 0 .. MaxRuns

(* After a run that ended well and lost nothing when it closed the file,    *)
(* the object is whole and no older than the one it replaced, whatever      *)
(* earlier runs, killed ones and ones that ran out of disk, had left there. *)
SuccessWhole ==
    \A p \in Paths : status[p] = "ok" /\ ~lost[p] =>
        /\ Whole(disk[p])
        /\ before[p].object.version <= disk[p].object.version

(* A run that is refused, its arguments, its manifest, a resource file or   *)
(* the output path, leaves the object of an earlier run as it was.          *)
RefusalsHarmless ==
    \A p \in Paths : status[p] = "refused" => disk[p] = before[p]

(* elfresdump and the linker look for the section header table, which comes *)
(* last, in what there is of the file.                                      *)
Readable(f) == f.fresh >= EhdrSize /\ SectionTable(f.object) + SectionHeaders <= f.length

(* Whatever is left by a run that was killed, or by a full disk, even one   *)
(* that elfrc did not notice: what is not the whole object of one run is    *)
(* not taken for one by its readers.                                        *)
TornRefused == \A p \in Paths : Readable(disk[p]) => Whole(disk[p])

(* src/elfrc/elf_writer.h:16: "Returns 0 on success, -1 on failure": when   *)
(* elfrc exits with 0 the object has been written.                          *)
SuccessMeansWhole == \A p \in Paths : status[p] = "ok" => Whole(disk[p])

=============================================================================
