------------------------------ MODULE Elfrc_proofs ------------------------------
(***************************************************************************)
(* Proofs about Elfrc and LinkedImage, for all paths, prefixes and sizes,  *)
(* any block size and any number of edits, runs, full disks and kills:     *)
(* what is at an output path is the front of one object, so that a reader  *)
(* that finds the section header table finds the whole object; a run that  *)
(* ended well wrote all of it; a run that was refused touched nothing; and *)
(* a program linked from objects finds each container it can declare.      *)
(***************************************************************************)
EXTENDS LinkedImage, TLAPS

(* What is in a file is the front of its object and nothing else. *)
Front(f) == f.length <= f.fresh /\ f.fresh <= ObjectSize(f.object)

Job == [path : Paths \cup {""}, prefix : Prefixes \cup {NoPrefix, NotGiven},
        object : Object]

Before == {"arguments", "parse", "build", "open"}
Built == {"open", "write", "close"}

Running == pc # "idle" => status[job.path] = "running"
Resolved == pc = "build" => job.prefix \in Prefixes \cup {NoPrefix}
Unwritten == pc \in Before => disk[job.path] = before[job.path]
Fronts == \A p \in Paths : Front(disk[p])

(* Objects and jobs are no newer than their sources, nor older than what    *)
(* they replace.                                                            *)
FilesAge == \A p \in Paths : disk[p].object.version <= source[p].version
BeforeAge == pc # "idle" =>
    before[job.path].object.version <= source[job.path].version
JobAge == pc \in Built =>
    /\ before[job.path].object.version <= job.object.version
    /\ job.object.version <= source[job.path].version

ElfrcInv ==
    /\ ElfrcTypeOK
    /\ job \in Job
    /\ Running /\ Resolved /\ Unwritten /\ Fronts
    /\ FilesAge /\ BeforeAge /\ JobAge
    /\ SuccessWhole /\ RefusalsHarmless

-----------------------------------------------------------------------------
(* Sizes are natural numbers. *)
LEMMA Assumed ==
    /\ \A p \in Prefixes \cup {NoPrefix} : p.length \in Nat
    /\ \A s \in Sizes \cup {0} : s \in Nat
    /\ BlockSize \in Nat \ {0}
    /\ MaxRuns \in Nat
<1>1. \A p \in Prefixes : p.length \in Nat
  <2>1. \A p \in Prefixes : p \in [name : STRING, length : 1 .. 249]
    BY ElfrcAssumption DEF ElfrcAssumption
  <2> QED
    BY <2>1
<1>2. NoPrefix.length \in Nat
  BY DEF NoPrefix
<1> QED
  BY <1>1, <1>2, ElfrcAssumption DEF ElfrcAssumption

LEMMA AlignNat == ASSUME NEW n \in Nat, NEW a \in Nat \ {0} PROVE Align(n, a) \in Nat
<1>1. (n + a - 1) \in Nat
  OBVIOUS
<1>2. (n + a - 1) \div a \in Nat
  BY <1>1
<1> QED
  BY <1>2 DEF Align

LEMMA NameNat ==
    ASSUME NEW p \in Prefixes \cup {NoPrefix}, NEW k \in {"start", "end"}
    PROVE  NameLength(p, k) \in Nat
<1>1. p.length \in Nat
  BY Assumed
<1>2. SuffixLength[k] \in Nat
  BY DEF SuffixLength
<1> QED
  BY <1>1, <1>2 DEF NameLength, FullLength, NameMax

LEMMA SizeNat == ASSUME NEW o \in Object PROVE ObjectSize(o) \in Nat
<1>1. o.size \in Nat /\ o.prefix \in Prefixes \cup {NoPrefix}
  BY Assumed DEF Object
<1>2. ResourceOffset \in Nat
  BY AlignNat DEF ResourceOffset, EhdrSize
<1>3. SymtabOffset(o) \in Nat
  BY <1>1, <1>2, AlignNat DEF SymtabOffset
<1>4. StrtabSize(o) \in Nat
  BY <1>1, NameNat DEF StrtabSize
<1>5. SectionTable(o) \in Nat
  <2>1. SymtabOffset(o) + SymtabSize + StrtabSize(o) + ShstrtabSize \in Nat
    BY <1>3, <1>4 DEF SymtabSize, ShstrtabSize
  <2> QED
    BY <2>1, AlignNat DEF SectionTable
<1> QED
  BY <1>5 DEF ObjectSize, SectionHeaders

LEMMA FileParts ==
    ASSUME NEW f \in File
    PROVE  /\ f.object \in Object /\ f.fresh \in Nat /\ f.length \in Int
           /\ f.object.version \in Nat /\ ObjectSize(f.object) \in Nat
<1>1. f.object \in Object /\ f.fresh \in Nat /\ f.length \in Int
  BY DEF File
<1> QED
  BY <1>1, SizeNat DEF Object

LEMMA NothingThere ==
    /\ NoObject \in Object
    /\ NoFile \in File
    /\ NoFile.object.version = 0
    /\ Front(NoFile)
<1>1. NoObject \in Object
  BY DEF NoObject, Object, NoPrefix
<1>2. NoFile \in File
  BY <1>1 DEF NoFile, File
<1>3. ObjectSize(NoObject) \in Nat
  BY <1>1, SizeNat
<1> QED
  BY <1>1, <1>2, <1>3 DEF NoFile, NoObject, Front

(* More of the object is written to the front of it. *)
LEMMA GrownFront ==
    ASSUME NEW f \in File, Front(f), NEW n \in Nat,
           f.fresh <= n, n <= ObjectSize(f.object)
    PROVE  /\ Grown(f, n) \in File
           /\ Front(Grown(f, n))
           /\ Grown(f, n).object = f.object
           /\ n = ObjectSize(f.object) => Whole(Grown(f, n))
<1> DEFINE g == Grown(f, n)
<1>1. /\ f.object \in Object /\ f.fresh \in Nat
      /\ f.length \in Int /\ ObjectSize(f.object) \in Nat
  BY FileParts
<1>2. (IF n > f.length THEN n ELSE f.length) = n
  BY <1>1 DEF Front
<1>3. g = [f EXCEPT !.fresh = n, !.length = n]
  BY <1>2 DEF Grown
<1>4. g.object = f.object /\ g.fresh = n /\ g.length = n
  BY <1>3 DEF File
<1>5. g \in File
  BY <1>1, <1>3 DEF File
<1> HIDE DEF g
<1>6. Front(g) /\ (n = ObjectSize(f.object) => Whole(g))
  BY <1>1, <1>4 DEF Front, Whole
<1> QED
  BY <1>4, <1>5, <1>6 DEF g

-----------------------------------------------------------------------------
LEMMA InitElfrc == ElfrcInit => ElfrcInv
<1> SUFFICES ASSUME ElfrcInit PROVE ElfrcInv
  OBVIOUS
<1> USE DEF ElfrcInit
<1>1. source \in [Paths -> Source]
  BY DEF Source, Verdicts
<1>2. /\ disk \in [Paths -> File] /\ before \in [Paths -> File]
  BY NothingThere
<1>3. job \in Job /\ job.object \in Object
      /\ job.prefix \in Prefixes \cup {NoPrefix, NotGiven}
  BY NothingThere DEF Job, NoJob
<1>4. ElfrcTypeOK
  BY <1>1, <1>2, <1>3, Assumed DEF ElfrcTypeOK
<1>5. Fronts
  BY NothingThere DEF Fronts
<1>6. FilesAge
  <2> SUFFICES ASSUME NEW p \in Paths
               PROVE  disk[p].object.version <= source[p].version
    BY DEF FilesAge
  <2>1. source[p].version \in Nat /\ disk[p] = NoFile
    BY <1>1 DEF Source
  <2> QED
    BY <2>1, NothingThere
<1>7. /\ Running /\ Resolved /\ Unwritten /\ BeforeAge /\ JobAge
      /\ SuccessWhole /\ RefusalsHarmless
  BY DEF Running, Resolved, Unwritten, Before, BeforeAge, JobAge, Built,
         SuccessWhole, RefusalsHarmless
<1> QED
  BY <1>3, <1>4, <1>5, <1>6, <1>7 DEF ElfrcInv

(* A run ends without success: it may have been refused only before the     *)
(* output was opened.                                                       *)
LEMMA ExitStep ==
    ASSUME ElfrcInv, pc # "idle", NEW how \in {"refused", "short", "killed"},
           Exit(how), how = "refused" => pc \in Before,
           UNCHANGED <<source, disk, lost, before, runs>>
    PROVE  ElfrcInv'
<1> USE DEF ElfrcInv, Exit
<1>1. job.path \in Paths
  BY DEF ElfrcTypeOK
<1>2. job' \in Job /\ job'.object \in Object
      /\ job'.prefix \in Prefixes \cup {NoPrefix, NotGiven}
  BY NothingThere DEF Job, NoJob
<1>3. status' \in [Paths -> {"none", "running", "refused", "short", "killed", "ok"}]
  BY DEF ElfrcTypeOK
<1>4. ElfrcTypeOK'
  BY <1>2, <1>3 DEF ElfrcTypeOK
<1>5. \A p \in Paths : status'[p] = IF p = job.path THEN how ELSE status[p]
  BY DEF ElfrcTypeOK
<1>6. SuccessWhole'
  BY <1>5 DEF SuccessWhole, Whole
<1>7. RefusalsHarmless'
  BY <1>5 DEF RefusalsHarmless, Unwritten
<1>8. Fronts' /\ FilesAge'
  BY DEF Fronts, FilesAge, Front
<1>9. Running' /\ Resolved' /\ Unwritten' /\ BeforeAge' /\ JobAge'
  BY DEF Running, Resolved, Unwritten, Before, BeforeAge, JobAge, Built
<1> QED
  BY <1>2, <1>4, <1>6, <1>7, <1>8, <1>9

LEMMA InvokeStep ==
    ASSUME ElfrcInv, NEW p \in Paths, NEW option \in Prefixes \cup {NoPrefix, NotGiven},
           Invoke(p, option)
    PROVE  ElfrcInv'
<1> USE DEF ElfrcInv, Invoke
<1>1. job' \in Job /\ job'.object \in Object /\ job'.path = p
      /\ job'.prefix \in Prefixes \cup {NoPrefix, NotGiven}
  BY NothingThere DEF Job
<1>2. /\ status' \in [Paths -> {"none", "running", "refused", "short", "killed", "ok"}]
      /\ lost' \in [Paths -> BOOLEAN]
  BY DEF ElfrcTypeOK
<1>3. before' \in [Paths -> File]
  BY DEF ElfrcTypeOK
<1>4. runs' \in 0 .. MaxRuns
  BY Assumed DEF ElfrcTypeOK
<1>5. ElfrcTypeOK'
  BY <1>1, <1>2, <1>3, <1>4 DEF ElfrcTypeOK
<1>6. /\ status'[p] = "running"
      /\ before'[p] = disk[p]
      /\ \A q \in Paths \ {p} : /\ status'[q] = status[q]
                               /\ before'[q] = before[q]
                               /\ lost'[q] = lost[q]
  BY DEF ElfrcTypeOK
<1>7. SuccessWhole'
  BY <1>6 DEF SuccessWhole, Whole
<1>8. RefusalsHarmless'
  BY <1>6 DEF RefusalsHarmless
<1>9. Fronts' /\ FilesAge'
  BY DEF Fronts, FilesAge, Front
<1>10. Running' /\ Resolved' /\ Unwritten' /\ BeforeAge' /\ JobAge'
  BY <1>1, <1>6 DEF Running, Resolved, Unwritten, BeforeAge, FilesAge, JobAge, Built
<1> QED
  BY <1>1, <1>5, <1>7, <1>8, <1>9, <1>10

(* main goes on to its next step, with what it has got so far.  *)
LEMMA NextStep ==
    ASSUME ElfrcInv, pc # "idle", pc' # "idle",
           pc' \in {"parse", "build", "open", "close"},
           UNCHANGED <<source, disk, status, lost, before, runs>>,
           job' \in Job, job'.path = job.path, Resolved', JobAge',
           pc' \in Before => pc \in Before,
           pc' = "close" => pc = "write" /\ job' = job
    PROVE  ElfrcInv'
<1> USE DEF ElfrcInv
<1>1. job'.object \in Object /\ job'.prefix \in Prefixes \cup {NoPrefix, NotGiven}
  BY DEF Job
<1>2. ElfrcTypeOK'
  BY <1>1 DEF ElfrcTypeOK
<1>3. SuccessWhole' /\ RefusalsHarmless' /\ Fronts' /\ FilesAge'
  BY DEF SuccessWhole, Whole, RefusalsHarmless, Fronts, FilesAge, Front
<1>4. Running' /\ Unwritten' /\ BeforeAge'
  BY DEF Running, Unwritten, BeforeAge
<1> QED
  BY <1>2, <1>3, <1>4

LEMMA TakeArgumentsStep == ElfrcInv /\ TakeArguments => ElfrcInv'
<1> SUFFICES ASSUME ElfrcInv, TakeArguments PROVE ElfrcInv'
  OBVIOUS
<1>1. Resolved' /\ JobAge'
  BY DEF TakeArguments, Resolved, JobAge, Built
<1> QED
  BY <1>1, NextStep DEF TakeArguments, ElfrcInv, Before

LEMMA ParseStep == ElfrcInv /\ Parse => ElfrcInv'
<1> SUFFICES ASSUME ElfrcInv, Parse PROVE ElfrcInv'
  OBVIOUS
<1>1. job.path \in Paths /\ job \in Job
  BY DEF ElfrcInv, ElfrcTypeOK, Parse
<1>2. source[job.path].module \in Prefixes \cup {NoPrefix}
  BY <1>1 DEF ElfrcInv, ElfrcTypeOK, Source
<1>3. SymbolPrefix \in Prefixes \cup {NoPrefix}
  BY <1>1, <1>2 DEF SymbolPrefix, Job
<1>4. /\ job' = [job EXCEPT !.prefix = SymbolPrefix]
      /\ job' \in Job /\ job'.path = job.path /\ job'.prefix = SymbolPrefix
  BY <1>1, <1>3 DEF Parse, Job
<1>5. Resolved' /\ JobAge'
  BY <1>3, <1>4 DEF Parse, Resolved, JobAge, Built
<1> QED
  BY <1>4, <1>5, NextStep DEF Parse, Before

LEMMA BuildStep == ElfrcInv /\ Build => ElfrcInv'
<1> SUFFICES ASSUME ElfrcInv, Build PROVE ElfrcInv'
  OBVIOUS
<1>1. job.path \in Paths /\ job \in Job /\ source[job.path] \in Source
  BY DEF ElfrcInv, ElfrcTypeOK, Build
<1> DEFINE o == [version |-> source[job.path].version,
                 size |-> source[job.path].size, prefix |-> job.prefix]
<1>2. o \in Object
  BY <1>1 DEF ElfrcInv, Resolved, Build, Source, Object
<1>3. job' \in Job /\ job'.path = job.path /\ job'.object = o
  BY <1>1, <1>2 DEF Build, Job
<1>4. o.version = source[job.path].version /\ source[job.path].version \in Nat
  BY <1>1 DEF Source
<1>5. before[job.path].object.version <= source[job.path].version
  BY DEF ElfrcInv, BeforeAge, Build
<1> HIDE DEF o
<1>6. Resolved' /\ JobAge'
  BY <1>3, <1>4, <1>5 DEF Build, Resolved, JobAge
<1> QED
  BY <1>3, <1>6, NextStep DEF Build, Before

LEMMA WriteDoneStep == ElfrcInv /\ WriteDone => ElfrcInv'
<1> SUFFICES ASSUME ElfrcInv, WriteDone PROVE ElfrcInv'
  OBVIOUS
<1>1. Resolved' /\ JobAge'
  BY DEF WriteDone, Resolved, JobAge, Built, ElfrcInv
<1> QED
  BY <1>1, NextStep DEF WriteDone, ElfrcInv, Before

(* The file at the path of the run changes: it stays the front of the       *)
(* object of the run.                                                       *)
LEMMA FileStep ==
    ASSUME ElfrcInv, pc # "idle", NEW f \in File,
           disk' = [disk EXCEPT ![job.path] = f],
           Front(f), f.object = job.object, pc \in Built,
           UNCHANGED <<source, before>>
    PROVE  /\ disk' \in [Paths -> File] /\ job.path \in Paths
           /\ disk'[job.path] = f
           /\ \A q \in Paths \ {job.path} : disk'[q] = disk[q]
           /\ Fronts' /\ FilesAge'
<1> USE DEF ElfrcInv
<1>1. /\ disk' \in [Paths -> File] /\ job.path \in Paths
      /\ disk'[job.path] = f
      /\ \A q \in Paths \ {job.path} : disk'[q] = disk[q]
  BY DEF ElfrcTypeOK
<1>2. Fronts'
  BY <1>1 DEF Fronts, Front
<1>3. FilesAge'
  BY <1>1 DEF FilesAge, JobAge
<1> QED
  BY <1>1, <1>2, <1>3

LEMMA OpenStep == ElfrcInv /\ Open => ElfrcInv'
<1> SUFFICES ASSUME ElfrcInv, Open PROVE ElfrcInv'
  OBVIOUS
<1> USE DEF ElfrcInv
<1> DEFINE f == [object |-> job.object, fresh |-> 0, length |-> 0]
<1>1. job.object \in Object /\ ObjectSize(job.object) \in Nat
  BY SizeNat DEF ElfrcTypeOK
<1>2. f \in File /\ f.object = job.object /\ Front(f)
  BY <1>1 DEF File, Front
<1>3. disk' = [disk EXCEPT ![job.path] = f]
  BY DEF Open, Opened
<1> HIDE DEF f
<1>4. /\ disk' \in [Paths -> File] /\ job.path \in Paths /\ disk'[job.path] = f
      /\ \A q \in Paths \ {job.path} : disk'[q] = disk[q]
      /\ Fronts' /\ FilesAge'
  BY <1>2, <1>3, FileStep DEF Open, Built
<1>5. ElfrcTypeOK'
  BY <1>2, <1>4 DEF ElfrcTypeOK, Open
<1>6. SuccessWhole' /\ RefusalsHarmless'
  BY <1>4 DEF SuccessWhole, Whole, RefusalsHarmless, Running, Open
<1>7. Running' /\ Resolved' /\ Unwritten' /\ BeforeAge' /\ JobAge' /\ job' \in Job
  BY DEF Running, Resolved, Unwritten, Before, BeforeAge, JobAge, Built, Open
<1> QED
  BY <1>4, <1>5, <1>6, <1>7

(* Writing to the file as far as n. *)
LEMMA Writing ==
    ASSUME ElfrcInv, pc \in {"write", "close"}, NEW n \in Nat,
           disk[job.path].fresh <= n, n <= ObjectSize(job.object),
           disk' = [disk EXCEPT ![job.path] = Grown(@, n)],
           UNCHANGED <<source, before>>
    PROVE  /\ disk' \in [Paths -> File] /\ job.path \in Paths
           /\ disk'[job.path].object = job.object
           /\ n = ObjectSize(job.object) => Whole(disk'[job.path])
           /\ \A q \in Paths \ {job.path} : disk'[q] = disk[q]
           /\ Fronts' /\ FilesAge'
<1>1. /\ job.path \in Paths /\ disk[job.path] \in File
      /\ disk[job.path].object = job.object /\ Front(disk[job.path])
  BY DEF ElfrcInv, ElfrcTypeOK, Fronts
<1> DEFINE f == Grown(disk[job.path], n)
<1>2. /\ f \in File /\ Front(f) /\ f.object = job.object
      /\ n = ObjectSize(job.object) => Whole(f)
  BY <1>1, GrownFront
<1>3. disk' = [disk EXCEPT ![job.path] = f]
  OBVIOUS
<1> HIDE DEF f
<1> QED
  BY <1>2, <1>3, FileStep DEF Built

LEMMA WriteBlockStep == ElfrcInv /\ WriteBlock => ElfrcInv'
<1> SUFFICES ASSUME ElfrcInv, WriteBlock PROVE ElfrcInv'
  OBVIOUS
<1> USE DEF ElfrcInv
<1> DEFINE n == disk[job.path].fresh + BlockSize
<1>1. job.path \in Paths /\ disk[job.path] \in File /\ disk[job.path].fresh \in Nat
  BY FileParts DEF ElfrcTypeOK, WriteBlock
<1>2. n \in Nat /\ disk[job.path].fresh <= n /\ n <= ObjectSize(job.object)
  BY <1>1, Assumed DEF WriteBlock
<1>3. disk' = [disk EXCEPT ![job.path] = Grown(@, n)]
  BY DEF WriteBlock
<1> HIDE DEF n
<1>4. /\ disk' \in [Paths -> File]
      /\ disk'[job.path].object = job.object
      /\ \A q \in Paths \ {job.path} : disk'[q] = disk[q]
      /\ Fronts' /\ FilesAge'
  BY <1>2, <1>3, Writing DEF WriteBlock
<1>5. ElfrcTypeOK'
  BY <1>4 DEF ElfrcTypeOK, WriteBlock
<1>6. SuccessWhole' /\ RefusalsHarmless'
  BY <1>4 DEF SuccessWhole, Whole, RefusalsHarmless, Running, WriteBlock
<1>7. Running' /\ Resolved' /\ Unwritten' /\ BeforeAge' /\ JobAge' /\ job' \in Job
  BY DEF Running, Resolved, Unwritten, Before, BeforeAge, JobAge, Built, WriteBlock
<1> QED
  BY <1>4, <1>5, <1>6, <1>7

(* What a run leaves that ends with status "ok". *)
LEMMA OkStep ==
    ASSUME ElfrcInv, pc = "close", Exit("ok"), UNCHANGED <<source, before, runs>>,
           disk' \in [Paths -> File], lost' \in [Paths -> BOOLEAN],
           Fronts', FilesAge',
           \A q \in Paths \ {job.path} : disk'[q] = disk[q] /\ lost'[q] = lost[q],
           disk'[job.path].object = job.object,
           ~lost'[job.path] => Whole(disk'[job.path])
    PROVE  ElfrcInv'
<1> USE DEF ElfrcInv, Exit
<1>1. job' \in Job /\ job'.object \in Object /\ job.path \in Paths
      /\ job'.prefix \in Prefixes \cup {NoPrefix, NotGiven}
  BY NothingThere DEF Job, NoJob, ElfrcTypeOK
<1>2. status' \in [Paths -> {"none", "running", "refused", "short", "killed", "ok"}]
  BY DEF ElfrcTypeOK
<1>3. ElfrcTypeOK'
  BY <1>1, <1>2 DEF ElfrcTypeOK
<1>4. \A p \in Paths : status'[p] = IF p = job.path THEN "ok" ELSE status[p]
  BY DEF ElfrcTypeOK
<1>5. SuccessWhole'
  BY <1>4 DEF SuccessWhole, Whole, JobAge, Built
<1>6. RefusalsHarmless'
  BY <1>4 DEF RefusalsHarmless
<1>7. Running' /\ Resolved' /\ Unwritten' /\ BeforeAge' /\ JobAge'
  BY DEF Running, Resolved, Unwritten, Before, BeforeAge, JobAge, Built
<1> QED
  BY <1>1, <1>3, <1>5, <1>6, <1>7

LEMMA CloseStep == ElfrcInv /\ Close => ElfrcInv'
<1> SUFFICES ASSUME ElfrcInv, Close PROVE ElfrcInv'
  OBVIOUS
<1> DEFINE n == ObjectSize(job.object)
<1>1. /\ job.path \in Paths /\ disk[job.path] \in File /\ Front(disk[job.path])
      /\ disk[job.path].object = job.object
  BY DEF ElfrcInv, ElfrcTypeOK, Fronts, Close
<1>2. n \in Nat /\ disk[job.path].fresh <= n /\ n <= ObjectSize(job.object)
  BY <1>1, FileParts DEF Front
<1>3. disk' = [disk EXCEPT ![job.path] = Grown(@, n)]
  BY DEF Close
<1> HIDE DEF n
<1>4. /\ disk' \in [Paths -> File]
      /\ disk'[job.path].object = job.object
      /\ n = ObjectSize(job.object) => Whole(disk'[job.path])
      /\ \A q \in Paths \ {job.path} : disk'[q] = disk[q]
      /\ Fronts' /\ FilesAge'
  BY <1>2, <1>3, Writing DEF Close
<1>5. lost' \in [Paths -> BOOLEAN] /\ lost' = lost
  BY DEF Close, ElfrcInv, ElfrcTypeOK
<1> QED
  BY <1>4, <1>5, OkStep DEF Close, n

LEMMA CloseLosesStep == ElfrcInv /\ CloseLoses => ElfrcInv'
<1> SUFFICES ASSUME ElfrcInv, CloseLoses PROVE ElfrcInv'
  OBVIOUS
<1>1. job.path \in Paths /\ disk[job.path].object = job.object
  BY DEF ElfrcInv, ElfrcTypeOK, CloseLoses
<1>2. /\ lost' \in [Paths -> BOOLEAN] /\ lost'[job.path]
      /\ \A q \in Paths \ {job.path} : lost'[q] = lost[q]
  BY <1>1 DEF CloseLoses, ElfrcInv, ElfrcTypeOK
<1>3. disk' \in [Paths -> File] /\ disk' = disk /\ Fronts' /\ FilesAge'
  BY DEF CloseLoses, ElfrcInv, ElfrcTypeOK, Fronts, FilesAge, Front
<1> QED
  BY <1>1, <1>2, <1>3, OkStep DEF CloseLoses

LEMMA EditStep ==
    ASSUME ElfrcInv, NEW p \in Paths, Edit(p)
    PROVE  ElfrcInv'
<1> USE DEF ElfrcInv
<1>0. PICK s \in Sizes, v \in Verdicts :
       source' = [source EXCEPT ![p].version = @ + 1, ![p].size = s,
                                ![p].verdict = v]
  BY DEF Edit
<1>1. source[p] \in Source
  BY DEF ElfrcTypeOK
<1> DEFINE new == [source[p] EXCEPT !.version = @ + 1, !.size = s, !.verdict = v]
<1>2. new \in Source /\ new.version = source[p].version + 1
      /\ source[p].version \in Nat
  <2>1. source[p].version \in Nat /\ source[p].version + 1 \in Nat
    BY <1>1 DEF Source
  <2> DEFINE v1 == source[p].version + 1
  <2>2. new = [source[p] EXCEPT !.version = v1, !.size = s, !.verdict = v]
    OBVIOUS
  <2>3. v1 \in Nat
    BY <2>1
  <2> HIDE DEF v1, new
  <2>4. new \in Source /\ new.version = v1
    BY <1>1, <2>2, <2>3 DEF Source
  <2> QED
    BY <2>1, <2>4 DEF v1
<1>3. source' = [source EXCEPT ![p] = new]
  BY <1>0 DEF ElfrcTypeOK
<1> HIDE DEF new
<1>4. /\ source' \in [Paths -> Source]
      /\ \A q \in Paths : /\ source[q].version \in Nat
                           /\ source'[q].version \in Nat
                           /\ source[q].version <= source'[q].version
  <2>1. source' \in [Paths -> Source]
    BY <1>2, <1>3 DEF ElfrcTypeOK
  <2>2. \A q \in Paths : source[q].version \in Nat /\ source'[q].version \in Nat
    BY <2>1 DEF ElfrcTypeOK, Source
  <2>3. \A q \in Paths : source'[q] = IF q = p THEN new ELSE source[q]
    BY <1>3 DEF ElfrcTypeOK
  <2>4. ASSUME NEW q \in Paths
        PROVE  source[q].version <= source'[q].version
    <3>1. CASE q = p
      <4>1. source'[q].version = source[q].version + 1
        BY <1>2, <2>3, <3>1
      <4> QED
        BY <2>2, <4>1
    <3>2. CASE q # p
      <4>1. source'[q].version = source[q].version
        BY <2>3, <3>2
      <4> QED
        BY <2>2, <4>1
    <3> QED
      BY <3>1, <3>2
  <2> QED
    BY <2>1, <2>2, <2>4
<1>5. ElfrcTypeOK'
  BY <1>4 DEF ElfrcTypeOK, Edit
<1>6. SuccessWhole' /\ RefusalsHarmless' /\ Fronts' /\ job' \in Job
  BY DEF SuccessWhole, Whole, RefusalsHarmless, Fronts, Front, Edit
<1>7. FilesAge'
  <2> SUFFICES ASSUME NEW q \in Paths
               PROVE  disk'[q].object.version <= source'[q].version
    BY DEF FilesAge
  <2>1. disk[q].object.version \in Nat /\ disk' = disk
    BY FileParts DEF ElfrcTypeOK, Edit
  <2> QED
    BY <1>4, <2>1 DEF FilesAge
<1>8. BeforeAge'
  <2> SUFFICES ASSUME pc # "idle"
               PROVE  before[job.path].object.version <= source'[job.path].version
    BY DEF BeforeAge, Edit
  <2>1. job.path \in Paths /\ before[job.path].object.version \in Nat
    BY FileParts DEF ElfrcTypeOK
  <2> QED
    BY <1>4, <2>1 DEF BeforeAge
<1>9. Running' /\ Resolved' /\ Unwritten' /\ JobAge'
  BY DEF Running, Resolved, Unwritten, Before, JobAge, Built, Edit
<1> QED
  BY <1>5, <1>6, <1>7, <1>8, <1>9

LEMMA StepElfrc == ElfrcInv /\ [ElfrcNext]_elfrcVars => ElfrcInv'
<1> SUFFICES ASSUME ElfrcInv, [ElfrcNext]_elfrcVars PROVE ElfrcInv'
  OBVIOUS
<1>1. ASSUME NEW p \in Paths, NEW option \in Prefixes \cup {NoPrefix, NotGiven},
             Invoke(p, option)
      PROVE  ElfrcInv'
  BY <1>1, InvokeStep
<1>2. CASE RefuseArguments
  BY <1>2, ExitStep DEF RefuseArguments, Before
<1>3. CASE ParseFails
  BY <1>3, ExitStep DEF ParseFails, Before
<1>4. CASE BuildFails
  BY <1>4, ExitStep DEF BuildFails, Before
<1>5. CASE OpenFails
  BY <1>5, ExitStep DEF OpenFails, Before
<1>6. CASE WriteShort
  BY <1>6, ExitStep DEF WriteShort
<1>7. CASE Killed
  BY <1>7, ExitStep DEF Killed
<1>8. CASE TakeArguments \/ Parse \/ Build \/ WriteDone
  BY <1>8, TakeArgumentsStep, ParseStep, BuildStep, WriteDoneStep
<1>9. CASE Open \/ WriteBlock \/ Close \/ CloseLoses
  BY <1>9, OpenStep, WriteBlockStep, CloseStep, CloseLosesStep
<1>10. ASSUME NEW p \in Paths, Edit(p)
       PROVE  ElfrcInv'
  BY <1>10, EditStep
<1>11. CASE UNCHANGED elfrcVars
  BY <1>11 DEF elfrcVars, ElfrcInv, ElfrcTypeOK, Running, Resolved, Unwritten,
               Before, Fronts, Front, FilesAge, BeforeAge, JobAge, Built,
               SuccessWhole, Whole, RefusalsHarmless
<1> QED
  BY <1>1, <1>2, <1>3, <1>4, <1>5, <1>6, <1>7, <1>8, <1>9, <1>10, <1>11
     DEF ElfrcNext, ElfrcStep

(* The inductive invariant: files are fronts of objects, nothing is touched *)
(* before the output is opened, and versions only grow.                     *)
THEOREM ElfrcInvariant == ElfrcSpec => []ElfrcInv
<1> QED
  BY InitElfrc, StepElfrc, PTL DEF ElfrcSpec

-----------------------------------------------------------------------------
(* The state of elfrc and of the files keeps its types.  *)
THEOREM ElfrcTypes == ElfrcSpec => []ElfrcTypeOK
<1>1. ElfrcInv => ElfrcTypeOK
  BY DEF ElfrcInv
<1> QED
  BY <1>1, ElfrcInvariant, PTL

(* elfrc exits with 0 over a whole object, no older than what it replaced,  *)
(* unless fclose lost the rest of it.                                       *)
THEOREM SuccessfulRunsWhole == ElfrcSpec => []SuccessWhole
<1>1. ElfrcInv => SuccessWhole
  BY DEF ElfrcInv
<1> QED
  BY <1>1, ElfrcInvariant, PTL

(* A run that is refused leaves the object of an earlier run as it was.     *)
THEOREM RefusedRunsHarmless == ElfrcSpec => []RefusalsHarmless
<1>1. ElfrcInv => RefusalsHarmless
  BY DEF ElfrcInv
<1> QED
  BY <1>1, ElfrcInvariant, PTL

(* Whenever elfrc is killed, and wherever the disk fills up: a file in      *)
(* which a reader finds the section header table is a whole object.         *)
THEOREM TornObjectsRefused == ElfrcSpec => []TornRefused
<1>1. ElfrcInv => TornRefused
  <2> SUFFICES ASSUME ElfrcInv, NEW p \in Paths, Readable(disk[p])
               PROVE  Whole(disk[p])
    BY DEF TornRefused
  <2>1. disk[p] \in File /\ Front(disk[p])
    BY DEF ElfrcInv, ElfrcTypeOK, Fronts
  <2>2. /\ disk[p].fresh \in Nat /\ disk[p].length \in Int
        /\ ObjectSize(disk[p].object) \in Nat
    BY <2>1, FileParts
  <2>3. ObjectSize(disk[p].object) <= disk[p].length
    BY DEF Readable, ObjectSize
  <2> QED
    BY <2>1, <2>2, <2>3 DEF Front, Whole
<1> QED
  BY <1>1, ElfrcInvariant, PTL

-----------------------------------------------------------------------------
(* The linked image.  A program is linked from one object or two, and then   *)
(* nothing changes: two objects that can be linked define different symbols. *)
At(o, n) == [object |-> o, at |-> n]

LEMMA PlacedOne == ASSUME NEW o PROVE Placed(<<o>>) = <<At(o, 0)>>
<1> DEFINE F(f) == [k \in 1 .. Len(<<o>>) |->
                      IF k = 1 THEN 0
                      ELSE Align(f[k - 1] + <<o>>[k - 1].size, SectionAlignment)]
           at == CHOOSE f : f = F(f)
           g == [k \in 1 .. 1 |-> 0]
<1>1. g = F(g)
  OBVIOUS
<1>2. at = F(at)
  BY <1>1
<1>3. at[1] = 0
  BY <1>2
<1>4. Placed(<<o>>) = [k \in 1 .. Len(<<o>>) |-> [object |-> <<o>>[k], at |-> at[k]]]
  BY DEF Placed
<1> HIDE DEF at
<1> QED BY <1>3, <1>4 DEF At

LEMMA PlacedTwo ==
    ASSUME NEW o, NEW u
    PROVE  Placed(<<o, u>>) = <<At(o, 0), At(u, Align(0 + o.size, SectionAlignment))>>
<1> DEFINE n == Align(0 + o.size, SectionAlignment)
           F(f) == [k \in 1 .. Len(<<o, u>>) |->
                      IF k = 1 THEN 0
                      ELSE Align(f[k - 1] + <<o, u>>[k - 1].size, SectionAlignment)]
           at == CHOOSE f : f = F(f)
           g == [k \in 1 .. 2 |-> IF k = 1 THEN 0 ELSE n]
<1>1. g = F(g)
  OBVIOUS
<1>2. at = F(at)
  BY <1>1
<1>3. at[1] = 0 /\ at[2] = n
  <2> HIDE DEF at
  <2>1. 1 \in 1 .. Len(<<o, u>>) /\ 2 \in 1 .. Len(<<o, u>>) /\ 2 # 1 /\ 2 - 1 = 1
        /\ <<o, u>>[1] = o
    OBVIOUS
  <2>2. at[1] = 0
    BY <1>2, <2>1
  <2>3. at[2] = Align(at[2 - 1] + <<o, u>>[2 - 1].size, SectionAlignment)
    BY <1>2, <2>1
  <2> QED BY <2>1, <2>2, <2>3
<1>4. Placed(<<o, u>>)
        = [k \in 1 .. Len(<<o, u>>) |-> [object |-> <<o, u>>[k], at |-> at[k]]]
  BY DEF Placed
<1>5. <<At(o, 0), At(u, Align(0 + o.size, SectionAlignment))>> = <<At(o, 0), At(u, n)>>
  OBVIOUS
<1> HIDE DEF at, n
<1>6. Placed(<<o, u>>) = <<At(o, 0), At(u, n)>>
  BY <1>3, <1>4 DEF At
<1> QED BY <1>5, <1>6

Linkable(objects) == NoClash(objects) /\ image = Placed(objects)

ImageInv ==
    \/ image = <<>>
    \/ \E o \in Object : Linkable(<<o>>)
    \/ \E o, u \in Object : Linkable(<<o, u>>)

(* What the linker is given. *)
LEMMA LinkedObjects ==
    ASSUME ElfrcInv, NEW p \in Paths, NEW q \in Paths
    PROVE  /\ disk[p].object \in Object
           /\ [k \in 1 .. Len(<<p>>) |-> disk[<<p>>[k]].object] = <<disk[p].object>>
           /\ [k \in 1 .. Len(<<p, q>>) |-> disk[<<p, q>>[k]].object]
                = <<disk[p].object, disk[q].object>>
<1>1. disk[p].object \in Object
  BY FileParts DEF ElfrcInv, ElfrcTypeOK
<1> QED BY <1>1

LEMMA StepImage ==
    ElfrcInv /\ ImageInv /\ [ImageNext]_imageVars => ImageInv'
<1> SUFFICES ASSUME ElfrcInv, ImageInv, [ImageNext]_imageVars PROVE ImageInv'
  OBVIOUS
<1>1. CASE image' = image
  BY <1>1 DEF ImageInv, Linkable
<1>2. ASSUME NEW p \in Paths, NEW q \in Paths, Link(<<p>>) \/ Link(<<p, q>>)
      PROVE  ImageInv'
  <2> DEFINE o == disk[p].object
             u == disk[q].object
  <2>1. o \in Object /\ u \in Object
    BY LinkedObjects
  <2>2. CASE Link(<<p>>)
    <3>1. NoClash(<<o>>) /\ image' = Placed(<<o>>)
      BY <2>2, LinkedObjects DEF Link
    <3> HIDE DEF o
    <3> QED BY <2>1, <3>1 DEF ImageInv, Linkable
  <2>3. CASE Link(<<p, q>>)
    <3>1. NoClash(<<o, u>>) /\ image' = Placed(<<o, u>>)
      BY <2>3, LinkedObjects DEF Link
    <3> HIDE DEF o, u
    <3> QED BY <2>1, <3>1 DEF ImageInv, Linkable
  <2> QED BY <1>2, <2>2, <2>3
<1> QED BY <1>1, <1>2 DEF ImageNext, Compile, imageVars

LEMMA ImageInvariant == ImageSpec => [](ElfrcInv /\ ImageInv)
<1>1. ImageInit => ElfrcInv /\ ImageInv
  BY InitElfrc DEF ImageInit, ImageInv
<1>2. [ImageNext]_imageVars => [ElfrcNext]_elfrcVars
  BY DEF ImageNext, Compile, Link, imageVars
<1>3. ElfrcInv /\ ImageInv /\ [ImageNext]_imageVars => (ElfrcInv /\ ImageInv)'
  BY <1>2, StepElfrc, StepImage
<1> QED BY <1>1, <1>3, PTL DEF ImageSpec

(* What the image looks like: every section is that of an object, on a       *)
(* 16-byte boundary, behind the ones before it.                              *)
LEMMA AlignUp ==
    ASSUME NEW n \in Nat
    PROVE  /\ Align(n, SectionAlignment) \in Nat
           /\ Align(n, SectionAlignment) % 16 = 0
           /\ n <= Align(n, SectionAlignment)
<1> DEFINE d == (n + 15) \div 16
<1>1. d \in Nat /\ n <= d * 16
  OBVIOUS
<1>2. Align(n, SectionAlignment) = d * 16
  BY DEF Align, SectionAlignment
<1> HIDE DEF d
<1>3. d * 16 \in Nat /\ (d * 16) % 16 = 0
  BY <1>1
<1> QED BY <1>1, <1>2, <1>3

Shape ==
    /\ Len(image) \in {0, 1, 2}
    /\ image # <<>> => Len(image) > 0
    /\ \A k \in 1 .. Len(image) :
          /\ image[k].object \in Object /\ image[k].object.size \in Nat
          /\ image[k].at \in Nat /\ image[k].at % 16 = 0
          /\ k = 1 => image[k].at = 0
          /\ k = 2 => image[1].at + image[1].object.size <= image[k].at
    /\ \A c, d \in Defined(image) :
          Symbol(image[c[1]].object.prefix, c[2])
            = Symbol(image[d[1]].object.prefix, d[2]) => c = d

LEMMA ObjectParts ==
    ASSUME NEW o \in Object
    PROVE  o.size \in Nat /\ o.prefix \in Prefixes \cup {NoPrefix}
BY Assumed DEF Object

LEMMA ImageShape == ASSUME ImageInv PROVE Shape
<1>1. CASE image = <<>>
  BY <1>1 DEF Defined, Shape
<1>2. ASSUME NEW o \in Object, Linkable(<<o>>) PROVE Shape
  <2>1. image = <<At(o, 0)>> /\ NoClash(<<o>>)
    BY <1>2, PlacedOne DEF Linkable
  <2>2. Len(image) = 1 /\ image[1].object = o /\ image[1].at = 0 /\ image # <<>>
    BY <2>1 DEF At
  <2>3. \A k \in 1 .. Len(image) : k = 1
    BY <2>2
  <2>4. Defined(image) = Defined(<<o>>) /\ \A c \in Defined(image) : c[1] = 1
    BY <2>2 DEF Defined
  <2>5. \A c, d \in Defined(image) :
           Symbol(image[c[1]].object.prefix, c[2])
             = Symbol(image[d[1]].object.prefix, d[2]) => c = d
    BY <2>1, <2>2, <2>4 DEF NoClash
  <2> QED BY <2>2, <2>3, <2>5, ObjectParts DEF Shape
<1>3. ASSUME NEW o \in Object, NEW u \in Object, Linkable(<<o, u>>) PROVE Shape
  <2> DEFINE n == Align(0 + o.size, SectionAlignment)
  <2>1. image = <<At(o, 0), At(u, n)>> /\ NoClash(<<o, u>>)
    BY <1>3, PlacedTwo DEF Linkable
  <2>2. n \in Nat /\ n % 16 = 0 /\ o.size <= n
    <3>1. 0 + o.size \in Nat /\ 0 + o.size = o.size
      BY ObjectParts
    <3> QED BY <3>1, AlignUp
  <2> HIDE DEF n
  <2>3. /\ Len(image) = 2 /\ image # <<>>
        /\ image[1].object = o /\ image[1].at = 0
        /\ image[2].object = u /\ image[2].at = n
    BY <2>1 DEF At
  <2>4. \A k \in 1 .. Len(image) : k \in {1, 2}
    BY <2>3
  <2>5. Defined(image) = Defined(<<o, u>>)
        /\ \A c \in Defined(image) : c[1] \in {1, 2}
    BY <2>3 DEF Defined
  <2>6. \A c, d \in Defined(image) :
           Symbol(image[c[1]].object.prefix, c[2])
             = Symbol(image[d[1]].object.prefix, d[2]) => c = d
    <3>1. <<o, u>>[1] = image[1].object /\ <<o, u>>[2] = image[2].object
      BY <2>3
    <3>2. \A c \in Defined(image) : image[c[1]].object = <<o, u>>[c[1]]
      BY <2>5, <3>1
    <3> QED BY <2>1, <2>5, <3>2 DEF NoClash
  <2>7. \A k \in 1 .. Len(image) :
          /\ image[k].object \in Object /\ image[k].object.size \in Nat
          /\ image[k].at \in Nat /\ image[k].at % 16 = 0
          /\ k = 1 => image[k].at = 0
          /\ k = 2 => image[1].at + image[1].object.size <= image[k].at
    BY <2>2, <2>3, <2>4, ObjectParts
  <2> QED BY <2>3, <2>6, <2>7 DEF Shape
<1> QED BY <1>1, <1>2, <1>3 DEF ImageInv

(* A symbol asked for by its declared name was written whole.  *)
LEMMA AskedWhole ==
    ASSUME NEW p \in Prefixes \cup {NoPrefix}, NEW q \in Prefixes \cup {NoPrefix},
           NEW kind \in Kinds, NEW w \in Kinds, Symbol(q, w) = Declared(p, kind)
    PROVE  w = kind /\ q = p
<1>1. kind # "either"
  BY DEF Kinds
<1>2. Symbol(q, w) = <<q.name, w, FullLength(q, w) - NameLength(q, w)>>
  <2>1. Symbol(q, w) # <<q.name, "either", NameMax>>
    BY <1>1 DEF Declared
  <2> QED BY <2>1 DEF Symbol
<1>3. w = kind /\ q.name = p.name
  BY <1>2 DEF Declared
<1> QED BY <1>3, ElfrcAssumption DEF ElfrcAssumption

LEMMA ShapeOwn == ASSUME Shape PROVE OwnContainer
<1> SUFFICES ASSUME NEW k \in 1 .. Len(image)
             PROVE  /\ image[k].at % 16 = 0
                    /\ Addresses(Declared(image[k].object.prefix, "start"))
                         \subseteq {image[k].at}
                    /\ Addresses(Declared(image[k].object.prefix, "end"))
                         \subseteq {image[k].at + image[k].object.size}
                    /\ \A l \in 1 .. k - 1 :
                          image[l].at + image[l].object.size <= image[k].at
  BY DEF OwnContainer
<1>1. k \in {1, 2} /\ image[k].object \in Object /\ image[k].at \in Nat
  BY DEF Shape
<1>2. ASSUME NEW kind \in Kinds, NEW c \in Defined(image),
             Symbol(image[c[1]].object.prefix, c[2])
               = Declared(image[k].object.prefix, kind)
      PROVE  c = <<k, kind>>
  <2>1. c[1] \in 1 .. Len(image) /\ c[2] \in Kinds /\ <<k, kind>> \in Defined(image)
    BY DEF Defined
  <2>2. image[c[1]].object \in Object
    BY <2>1 DEF Shape
  <2>3. c[2] = kind /\ image[c[1]].object.prefix = image[k].object.prefix
    <3>1. /\ image[c[1]].object.prefix \in Prefixes \cup {NoPrefix}
          /\ image[k].object.prefix \in Prefixes \cup {NoPrefix}
      BY <1>1, <2>2, ObjectParts
    <3>2. c[2] \in Kinds
      BY <2>1
    <3> QED BY <1>2, <3>1, <3>2, AskedWhole
  <2>4. <<k, kind>>[1] = k /\ <<k, kind>>[2] = kind
    OBVIOUS
  <2> QED BY <2>1, <2>3, <2>4 DEF Shape
<1>3. ASSUME NEW kind \in Kinds
      PROVE  Addresses(Declared(image[k].object.prefix, kind))
               \subseteq {image[k].at + SymbolValue(image[k].object, kind)}
  <2> SUFFICES ASSUME NEW c \in Defined(image),
                      Symbol(image[c[1]].object.prefix, c[2])
                        = Declared(image[k].object.prefix, kind)
               PROVE  image[c[1]].at + SymbolValue(image[c[1]].object, c[2])
                        = image[k].at + SymbolValue(image[k].object, kind)
    BY DEF Addresses
  <2>1. c[1] = k /\ c[2] = kind
    BY <1>2
  <2> QED BY <2>1
<1>4. Addresses(Declared(image[k].object.prefix, "start")) \subseteq {image[k].at}
  <2>1. image[k].at + SymbolValue(image[k].object, "start") = image[k].at
    BY <1>1 DEF SymbolValue
  <2> QED BY <1>3, <2>1 DEF Kinds
<1>5. Addresses(Declared(image[k].object.prefix, "end"))
        \subseteq {image[k].at + image[k].object.size}
  <2>1. SymbolValue(image[k].object, "end") = image[k].object.size
    BY DEF SymbolValue
  <2> QED BY <1>3, <2>1 DEF Kinds
<1>6. \A l \in 1 .. k - 1 : image[l].at + image[l].object.size <= image[k].at
  <2>1. \A l \in 1 .. k - 1 : k = 2 /\ l = 1
    BY <1>1
  <2> QED BY <2>1 DEF Shape
<1> QED BY <1>4, <1>5, <1>6 DEF Shape

(* A program linked from one object of elfrc or two finds each container it *)
(* can declare where it is, in its own size and aligned, for all prefixes   *)
(* and container sizes.                                                     *)
THEOREM ContainersOwn == ImageSpec => []OwnContainer
<1>1. ElfrcInv /\ ImageInv => OwnContainer
  BY ImageShape, ShapeOwn
<1> QED BY <1>1, ImageInvariant, PTL

=============================================================================
