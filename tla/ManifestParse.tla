----------------------------- MODULE ManifestParse -----------------------------
(***************************************************************************)
(* elfrc_manifest_parse: the fields of a manifest read in the order of the *)
(* code, the first error kept while the rest of a resource is still read,  *)
(* and everything a half-read manifest owns given back.                    *)
(*                                                                         *)
(* What a field holds is "absent", "list" (a YAML node that is no scalar), *)
(* "bad" (a scalar the code refuses) or another text; a name and a file    *)
(* are kept as texts, the other fields as 32-bit numbers.  ManifestIds is  *)
(* what goes on inside the assignment of ids.                              *)
(***************************************************************************)
EXTENDS Integers, Sequences

CONSTANTS
    Texts,       \* what a field of a manifest may hold
    U32,         \* 2^32, or a small stand-in for it
    Number,      \* what strtol, or a table of names, makes of a text
    Documents    \* the manifests elfrc may be given

NULL == "NULL"
Held == Texts \cup {NULL}
Numbered == {"version", "type", "extension", "id", "language", "flags"}

Fields == {"node", "name", "file", "type", "id", "language", "compression",
           "encryption", "flags"}
DefaultFields == {"language", "compression", "encryption"}
Document ==
    [root : {"unreadable", "mapping", "other"}, version : Texts,
     module : Texts, defaults : [DefaultFields -> Texts], listed : BOOLEAN,
     resources : Seq([scalars : [Fields -> Texts], metadata : Seq(Texts)])]

(* The language of no tag is ERF_LANGUAGE_NEUTRAL. *)
ASSUME ManifestParseAssumption ==
    /\ {"neutral", "none"} \subseteq Texts /\ NULL \notin Texts
    /\ U32 \in Nat \ {0, 1}
    /\ Number \in [Numbered -> [Held -> Nat]]
    /\ Number["language"][NULL] = 0 /\ Number["language"]["neutral"] = 0
    /\ Documents \subseteq Document

VARIABLES
    doc,         \* the manifest as it is written
    pc,          \* where the parser is; inside a resource, at which field
    i,           \* the resource at hand
    defaults,    \* defs
    module,      \* m->module
    count,       \* m->resource_count
    resources,   \* m->resources: name and file of each,
    codes,       \* and the fields of each that are numbers
    pairs,       \* metadata_count of each
    heap,        \* the blocks of memory in use
    error        \* what set_error kept: <<resource, field>>

out == <<module, count, resources, codes, pairs>>
parseVars == <<doc, pc, i, defaults, out, heap, error>>

NoError == <<0, "none">>
Listed == 1 .. Len(doc.resources)
TextFields == {"name", "file"}
CodeFields == {"type", "id", "explicit", "language", "compression", "flags"}
Blank == [f \in TextFields |-> NULL]
Zero == [c \in CodeFields |-> 0]

ParseInit ==
    /\ doc \in Documents
    /\ pc = "document"
    /\ i = 0
    /\ defaults = [f \in DefaultFields |-> NULL]
    /\ module = NULL
    /\ count = 0
    /\ resources = [r \in Listed |-> Blank]
    /\ codes = [r \in Listed |-> Zero]
    /\ pairs = [r \in Listed |-> 0]
    /\ heap = {}
    /\ error = NoError

(* scalar_dup: a copy, or NULL.  *)
ScalarDup(v) == IF v = "list" THEN NULL ELSE v

(* The cast of a long to uint32_t. *)
ToU32(n) == n % U32

(* The blocks of a value, and those of the scaffolding of the parser. *)
Copy(v, block) == IF v = NULL THEN {} ELSE {block}
Frame == {<<"document", 0, 0>>, <<"directory", 0, 0>>}
DefaultBlocks == {<<f, 0, 0>> : f \in DefaultFields}

(* Broken: a later error replaces the first. *)
SetErrorLast(e) == error' = e
SetError(e) == error' = IF error = NoError THEN e ELSE error

(* fopen, yaml_parser_initialize or yaml_parser_load fails. *)
CannotLoad ==
    /\ pc = "document"
    /\ doc.root = "unreadable"
    /\ error' = <<0, pc>>
    /\ pc' = "failed"
    /\ UNCHANGED <<doc, i, defaults, out, heap>>

Load ==
    /\ pc = "document"
    /\ doc.root # "unreadable"
    /\ heap' = Frame
    /\ pc' = "root"
    /\ UNCHANGED <<doc, i, defaults, out, error>>

TopFault(f) ==
    CASE f = "document" -> doc.root = "unreadable"
      [] f = "root" -> doc.root # "mapping"
      [] f = "version" -> \/ doc.version \in {"absent", "list", "bad"}
                          \/ ToU32(Number[f][doc.version]) # 1
      [] f = "list" -> ~doc.listed

RefuseTop ==
    /\ pc \in {"root", "version"}
    /\ TopFault(pc)
    /\ SetError(<<0, pc>>)
    /\ pc' = "done"
    /\ UNCHANGED <<doc, i, defaults, out, heap>>

TakeRoot ==
    /\ pc = "root"
    /\ ~TopFault(pc)
    /\ pc' = "version"
    /\ UNCHANGED <<doc, i, defaults, out, heap, error>>

TakeVersion ==
    /\ pc = "version"
    /\ ~TopFault(pc)
    /\ module' = IF doc.module = "absent" THEN NULL ELSE ScalarDup(doc.module)
    /\ heap' = heap \cup Copy(module', <<"module", 0, 0>>)
    /\ pc' = "defaults"
    /\ UNCHANGED <<doc, i, defaults, count, resources, codes, pairs, error>>

BuiltIn == [language |-> "neutral", compression |-> "none", encryption |-> "none"]

(* Broken: what the manifest does not set is not set. *)
DefaultOfUnset(f) == IF doc.defaults[f] = "absent" THEN NULL
                     ELSE ScalarDup(doc.defaults[f])
DefaultOf(f) == IF doc.defaults[f] = "absent" THEN BuiltIn[f]
                ELSE ScalarDup(doc.defaults[f])

TakeDefaults ==
    /\ pc = "defaults"
    /\ defaults' = [f \in DefaultFields |-> DefaultOf(f)]
    /\ heap' = heap \cup UNION {Copy(DefaultOf(f), <<f, 0, 0>>) : f \in DefaultFields}
    /\ pc' = "list"
    /\ UNCHANGED <<doc, i, out, error>>

RefuseList ==
    /\ pc = "list"
    /\ TopFault(pc)
    /\ SetError(<<0, pc>>)
    /\ heap' = heap \ DefaultBlocks
    /\ pc' = "done"
    /\ UNCHANGED <<doc, i, defaults, out>>

TakeList ==
    /\ pc = "list"
    /\ ~TopFault(pc)
    /\ pc' = "turn"
    /\ UNCHANGED <<doc, i, defaults, out, heap, error>>

(* Broken: one turn too many. *)
LoopOverLate == i > Len(doc.resources) \/ error # NoError

(* The loop over the resources: it stops at the end and after an error. *)
LoopOver == i = Len(doc.resources) \/ error # NoError

NextResource ==
    /\ pc = "turn"
    /\ ~LoopOver
    /\ i' = i + 1
    /\ pc' = "node"
    /\ UNCHANGED <<doc, defaults, out, heap, error>>

EndLoop ==
    /\ pc = "turn"
    /\ LoopOver
    /\ heap' = heap \ DefaultBlocks
    /\ pc' = IF error = NoError THEN "validate" ELSE "done"
    /\ UNCHANGED <<doc, i, defaults, out, error>>

-----------------------------------------------------------------------------
(* parse_resource *)

Node == doc.resources[i].scalars
Keys == doc.resources[i].metadata

(* Broken: the defaults are forgotten. *)
ValueOwn(f) == ScalarDup(Node[f])

(* What the code sees in a field: the node's own value, or the default.  *)
Value(f) == IF f \in DefaultFields /\ Node[f] = "absent" THEN defaults[f]
            ELSE ScalarDup(Node[f])

(* What the helpers do not take.  The sequence of names that "flags" may be  *)
(* is "good" when every name is a flag and "bad" otherwise.                 *)
ParseUintRefuses == {"bad", NULL}
TypeFromNameRefuses == {"bad"}
CompressionFromNameRefuses == {"bad"}
ParseFlagsRefuses == {"bad", NULL}

(* What the code refuses to see; and the fields whose NULL it uses.  *)
Refused ==
    [node |-> {"other"}, name |-> {"absent"}, file |-> {"absent", "bad"},
     type |-> TypeFromNameRefuses, id |-> ParseUintRefuses, language |-> {},
     compression |-> CompressionFromNameRefuses, encryption |-> {"bad"},
     flags |-> ParseFlagsRefuses]
UsesNull(f) ==
    \/ f \in {"file", "type", "compression", "encryption"}
    \/ f = "language" /\ Node[f] = "absent"

Crash ==
    /\ pc \in Fields
    /\ UsesNull(pc)
    /\ Value(pc) = NULL
    /\ pc' = "crashed"
    /\ UNCHANGED <<doc, i, defaults, out, heap, error>>

(* The errors after which parse_resource returns. *)
RefuseResource ==
    /\ \/ pc = "node" /\ Value(pc) = "other"
       \/ pc \in {"name", "file"} /\ Value(pc) = "absent"
    /\ SetError(<<i, pc>>)
    /\ pc' = "turn"
    /\ UNCHANGED <<doc, i, defaults, out, heap>>

PushResource ==
    /\ pc = "node"
    /\ Value(pc) # "other"
    /\ count' = count + 1
    /\ heap' = heap \cup {<<"array", 0, 0>>}
    /\ pc' = "name"
    /\ UNCHANGED <<doc, i, defaults, module, resources, codes, pairs, error>>

Store(v) == resources' = [resources EXCEPT ![i] = [@ EXCEPT ![pc] = v]]

TakeName ==
    /\ pc = "name"
    /\ Value(pc) # "absent"
    /\ Store(Value(pc))
    /\ heap' = heap \cup Copy(Value(pc), <<pc, i, 0>>)
    /\ pc' = "file"
    /\ UNCHANGED <<doc, i, defaults, module, count, codes, pairs, error>>

(* The path is kept; stat decides whether the resource is read on. *)
TakeFile ==
    /\ pc = "file"
    /\ Value(pc) \notin {"absent", NULL}
    /\ Store(Value(pc))
    /\ heap' = heap \cup {<<pc, i, 0>>}
    /\ IF Value(pc) = "bad" THEN SetError(<<i, pc>>) /\ pc' = "turn"
       ELSE pc' = "type" /\ UNCHANGED error
    /\ UNCHANGED <<doc, i, defaults, module, count, codes, pairs>>

After == [type |-> "id", id |-> "language", language |-> "compression",
          compression |-> "encryption", encryption |-> "metadata",
          metadata |-> "flags", flags |-> "turn"]

(* The field of the manifest a number comes from, and the number it becomes. *)
(* The only compression taken is ERF_COMPRESSION_NONE, which is 0.          *)
SourceOf(c) == IF c = "explicit" THEN "id" ELSE c
Code(c, v, file) ==
    CASE c = "explicit" -> IF v = "absent" THEN 0 ELSE 1
      [] c = "type" /\ v = "absent" -> ToU32(Number["extension"][file])
      [] c \in {"id", "flags"} /\ v = "absent" -> 0
      [] c = "compression" -> 0
      [] OTHER -> ToU32(Number[c][v])

(* The fields after which the code goes on whatever they hold.  *)
Checked == {"type", "id", "language", "compression", "encryption", "flags"}

TakeField ==
    /\ pc \in Checked
    /\ UsesNull(pc) => Value(pc) # NULL
    /\ Value(pc) \notin Refused[pc]
    /\ codes' = [codes EXCEPT ![i] = [c \in CodeFields |->
                    IF SourceOf(c) = pc
                    THEN Code(c, Value(pc), resources[i]["file"])
                    ELSE codes[i][c]]]
    /\ pc' = After[pc]
    /\ UNCHANGED <<doc, i, defaults, module, count, resources, pairs, heap, error>>

(* A refused id is explicit all the same.  Of a sequence of flags, those    *)
(* before the unknown one stay in a resource that is only freed.            *)
RefuseField ==
    /\ pc \in Checked
    /\ UsesNull(pc) => Value(pc) # NULL
    /\ Value(pc) \in Refused[pc]
    /\ codes' = IF pc = "id" THEN [codes EXCEPT ![i] = [@ EXCEPT !["explicit"] = 1]]
                ELSE codes
    /\ SetError(<<i, pc>>)
    /\ pc' = After[pc]
    /\ UNCHANGED <<doc, i, defaults, module, count, resources, pairs, heap>>

(* parse_metadata: a key or value that is no scalar, or a key seen before.  *)
(* A 'metadata' that is no mapping is refused like a first pair of that     *)
(* kind.                                                                    *)
Unwanted(keys, j) == keys[j] = "list" \/ \E k \in 1 .. j - 1 : keys[k] = keys[j]

TakePair ==
    /\ pc = "metadata"
    /\ pairs[i] < Len(Keys)
    /\ ~Unwanted(Keys, pairs[i] + 1)
    /\ pairs' = [pairs EXCEPT ![i] = pairs[i] + 1]
    /\ heap' = heap \cup {<<"pair", i, pairs[i] + 1>>}
    /\ UNCHANGED <<doc, pc, i, defaults, module, count, resources, codes, error>>

RefusePair ==
    /\ pc = "metadata"
    /\ pairs[i] < Len(Keys)
    /\ Unwanted(Keys, pairs[i] + 1)
    /\ SetError(<<i, pc>>)
    /\ pc' = After[pc]
    /\ UNCHANGED <<doc, i, defaults, out, heap>>

PairsDone ==
    /\ pc = "metadata"
    /\ pairs[i] = Len(Keys)
    /\ pc' = After[pc]
    /\ UNCHANGED <<doc, i, defaults, out, heap, error>>

-----------------------------------------------------------------------------
(* assign_and_validate_ids: equal explicit ids; then, for each pair in      *)
(* turn, equal names in one language.                                       *)
Read == 1 .. count

DuplicateId ==
    \E r, s \in Read : /\ r < s
                       /\ codes[r]["explicit"] = 1 /\ codes[s]["explicit"] = 1
                       /\ codes[r]["id"] = codes[s]["id"]

Named(r) == resources[r]["name"] # NULL
SameResource(r, s) == /\ resources[r]["name"] = resources[s]["name"]
                      /\ codes[r]["language"] = codes[s]["language"]
Compared == {p \in Read \X Read : p[1] < p[2]}
Stops(p) == SameResource(p[1], p[2]) \/ ~Named(p[1]) \/ ~Named(p[2])
Precedes(p, q) == p[1] < q[1] \/ (p[1] = q[1] /\ p[2] < q[2])
StopsFirst(p) == Stops(p) /\ \A q \in Compared : Stops(q) => ~Precedes(q, p)

Validated(e) ==
    /\ pc = "validate"
    /\ error' = e
    /\ pc' = "done"
    /\ UNCHANGED <<doc, i, defaults, out, heap>>

RefuseIds == DuplicateId /\ Validated(<<0, "ids">>)

RefuseDuplicate ==
    /\ ~DuplicateId
    /\ \E p \in Compared :
          /\ StopsFirst(p)
          /\ Named(p[1]) /\ Named(p[2])
          /\ Validated(<<p[2], "duplicate">>)

AcceptIds ==
    /\ ~DuplicateId
    /\ \A p \in Compared : ~Stops(p)
    /\ Validated(NoError)

(* strcmp on a NULL name. *)
CrashOnName ==
    /\ pc = "validate"
    /\ ~DuplicateId
    /\ \E p \in Compared : StopsFirst(p) /\ ~(Named(p[1]) /\ Named(p[2]))
    /\ pc' = "crashed"
    /\ UNCHANGED <<doc, i, defaults, out, heap, error>>

(* Broken: it forgets the metadata. *)
ManifestBlocksFlat ==
    Copy(module, <<"module", 0, 0>>)
    \cup (IF count = 0 THEN {} ELSE {<<"array", 0, 0>>})
    \cup (UNION {Copy(resources[r]["name"], <<"name", r, 0>>) : r \in Read})
    \cup (UNION {Copy(resources[r]["file"], <<"file", r, 0>>) : r \in Read})

(* What elfrc_manifest_free finds its way to. *)
ManifestBlocks ==
    Copy(module, <<"module", 0, 0>>)
    \cup (IF count = 0 THEN {} ELSE {<<"array", 0, 0>>})
    \cup (UNION {Copy(resources[r]["name"], <<"name", r, 0>>) : r \in Read})
    \cup (UNION {Copy(resources[r]["file"], <<"file", r, 0>>) : r \in Read})
    \cup (UNION {{<<"pair", r, j>> : j \in 1 .. pairs[r]} : r \in Read})

Accept ==
    /\ pc = "done"
    /\ error = NoError
    /\ heap' = heap \ Frame
    /\ pc' = "accepted"
    /\ UNCHANGED <<doc, i, defaults, out, error>>

GiveUp ==
    /\ pc = "done"
    /\ error # NoError
    /\ heap' = (heap \ Frame) \ ManifestBlocks
    /\ module' = NULL
    /\ count' = 0
    /\ pc' = "failed"
    /\ UNCHANGED <<doc, i, defaults, resources, codes, pairs, error>>

ParseNext ==
    \/ CannotLoad \/ Load \/ RefuseTop \/ TakeRoot \/ TakeVersion
    \/ TakeDefaults \/ RefuseList \/ TakeList \/ NextResource \/ EndLoop
    \/ Crash \/ RefuseResource \/ PushResource \/ TakeName \/ TakeFile
    \/ TakeField \/ RefuseField \/ TakePair \/ RefusePair \/ PairsDone
    \/ RefuseIds \/ RefuseDuplicate \/ AcceptIds \/ CrashOnName
    \/ Accept \/ GiveUp

ParseSpec == ParseInit /\ [][ParseNext]_parseVars /\ WF_parseVars(ParseNext)

-----------------------------------------------------------------------------
(* A manifest as a reader of the specification sees it: what a field of a   *)
(* resource comes to, and the order in which the fields are read.           *)
TopFields == {"document", "root", "version", "list"}
Given(r, f) ==
    LET v == doc.resources[r].scalars[f] IN
    IF f \notin DefaultFields \/ v # "absent" THEN ScalarDup(v) ELSE DefaultOf(f)

Faulty(r, f) ==
    IF f = "metadata"
    THEN LET keys == doc.resources[r].metadata IN
         \E j \in 1 .. Len(keys) : Unwanted(keys, j)
    ELSE Given(r, f) \in Refused[f]

Order == [node |-> 1, name |-> 2, file |-> 3, type |-> 4, id |-> 5,
          language |-> 6, compression |-> 7, encryption |-> 8,
          metadata |-> 9, flags |-> 10]
ReadFields == Fields \cup {"metadata"}

(* The fields read before field f of resource r hold no fault. *)
CleanBefore(r, f) ==
    /\ \A s \in 1 .. r - 1 : \A g \in ReadFields : ~Faulty(s, g)
    /\ \A g \in ReadFields : Order[g] < Order[f] => ~Faulty(r, g)

(* The number a field means, and what two resources may not share. *)
Coded(r, c) == Code(c, Given(r, SourceOf(c)), Given(r, "file"))
SameId(r, s) == /\ Given(r, "id") # "absent" /\ Given(s, "id") # "absent"
                /\ Coded(r, "id") = Coded(s, "id")
SameName(r, s) == /\ Given(r, "name") = Given(s, "name")
                  /\ Coded(r, "language") = Coded(s, "language")

AllDistinct ==
    \A r, s \in Listed : r < s => ~SameId(r, s) /\ ~SameName(r, s)

(* Types.  *)
ParseTypeOK ==
    /\ doc \in Document
    /\ pc \in TopFields \cup ReadFields \cup
              {"defaults", "turn", "validate", "done", "accepted", "failed",
               "crashed"}
    /\ i \in 0 .. Len(doc.resources)
    /\ pc \in ReadFields => i > 0
    /\ defaults \in [DefaultFields -> Held]
    /\ module \in Held
    /\ count \in 0 .. i
    /\ resources \in [Listed -> [TextFields -> Held]]
    /\ codes \in [Listed -> [CodeFields -> 0 .. U32 - 1]]
    /\ pairs \in [Listed -> Nat]
    /\ \A r \in Listed : pairs[r] <= Len(doc.resources[r].metadata)

(* The error reported is that of the first fault of the manifest in the     *)
(* order its fields are read, although the parser goes on reading after it, *)
(* and duplicates are looked for only among resources without a fault.  An  *)
(* error of duplicate names is that of a resource which repeats the name    *)
(* and the language of an earlier one; one of duplicate ids is met only     *)
(* when two explicit ids come to one number, and names no resource.  What   *)
(* is accepted has neither, different as two tags or numerals may look.     *)
FirstErrorReported ==
    /\ error[2] \in TopFields => TopFault(error[2])
    /\ error[2] \in ReadFields =>
          /\ error[1] \in Listed
          /\ Faulty(error[1], error[2])
          /\ CleanBefore(error[1], error[2])
    /\ error[2] \in {"ids", "duplicate"} \/ pc = "accepted" =>
          \A r \in Listed, f \in ReadFields : ~Faulty(r, f)
    /\ error[2] = "ids" => \E r, s \in Listed : r < s /\ SameId(r, s)
    /\ error[2] = "duplicate" =>
          /\ error[1] \in Listed
          /\ \E r \in Listed : r < error[1] /\ SameName(r, error[1])
    /\ pc = "accepted" => AllDistinct

(* A refused manifest leaves nothing behind, wherever it was refused; an    *)
(* accepted one owns all that was allocated and not freed, so that the one  *)
(* elfrc_manifest_free of its caller frees everything.                      *)
NothingLeft ==
    /\ pc = "failed" => heap = {} /\ count = 0 /\ module = NULL
    /\ pc = "accepted" => heap = ManifestBlocks

(* An accepted manifest has every resource that was written, with the name  *)
(* and the file of each, and every number what its field, or the default,   *)
(* comes to in 32 bits: the type that of the extension of the file when it  *)
(* is absent, the id explicit only when there is one.  A number from 2^32   *)
(* on is not the one written: see ExplicitIdKept of ManifestIds.            *)
DefaultsApplied ==
    pc = "accepted" =>
        /\ count = Len(doc.resources)
        /\ \A r \in Listed :
              /\ \A f \in TextFields : resources[r][f] = Given(r, f)
              /\ \A c \in CodeFields : codes[r][c] = Coded(r, c)
              /\ pairs[r] = Len(doc.resources[r].metadata)

(* A manifest all of whose fields are scalars gets a verdict: no field left *)
(* out, and no error met on the way, makes the parser use a NULL.           *)
AllScalar ==
    /\ \A f \in DefaultFields : doc.defaults[f] # "list"
    /\ \A r \in Listed, f \in Fields : doc.resources[r].scalars[f] # "list"
ScalarsDecided == AllScalar => <>(pc \in {"accepted", "failed"})

(* docs/elfrc Compiler Specification.md:423 lists when "Compilation SHALL   *)
(* fail": "The manifest is malformed.", "Resource names are invalid.": no   *)
(* manifest with a name or a file that is no string would be accepted or    *)
(* end elfrc without an error.                                              *)
MalformedRefused ==
    pc \in {"accepted", "crashed"} =>
        \A r \in Listed, f \in {"name", "file"} :
            doc.resources[r].scalars[f] # "list"

=============================================================================
