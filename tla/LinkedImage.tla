------------------------------ MODULE LinkedImage ------------------------------
(***************************************************************************)
(* What becomes of the objects of elfrc: the linker puts their .resource   *)
(* sections one behind the other, a program finds its containers through   *)
(* the boundary symbols (ELFR_START and ELFR_SIZE).  The linker is         *)
(* external; one image is followed, and nothing changes once it is linked. *)
(***************************************************************************)
EXTENDS Elfrc, Sequences

VARIABLES image   \* the .resource section of the executable: [object, at]

imageVars == <<elfrcVars, image>>

Kinds == {"start", "end"}

ImageInit == ElfrcInit /\ image = <<>>

Compile == image = <<>> /\ ElfrcNext /\ UNCHANGED image

(* st_value of the boundary symbols; the size with its padding is broken.   *)
ValuePadded(o, kind) == IF kind = "start" THEN 0 ELSE Align(o.size, 16)
SymbolValue(o, kind) == IF kind = "start" THEN 0 ELSE o.size

(* sh_addralign of .resource.  *)
SectionAlignment == 16

(* The sections placed in the order of the command line.  *)
Placed(objects) ==
    LET at[k \in 1 .. Len(objects)] ==
            IF k = 1 THEN 0
            ELSE Align(at[k - 1] + objects[k - 1].size, SectionAlignment)
    IN  [k \in 1 .. Len(objects) |-> [object |-> objects[k], at |-> at[k]]]

(* Every global symbol is defined once.  *)
Defined(objects) == {<<k, kind>> : k \in 1 .. Len(objects), kind \in Kinds}
NoClash(objects) ==
    \A d, e \in Defined(objects) :
        Symbol(objects[d[1]].prefix, d[2]) = Symbol(objects[e[1]].prefix, e[2])
            => d = e

Link(paths) ==
    LET objects == [k \in 1 .. Len(paths) |-> disk[paths[k]].object] IN
    /\ pc = "idle"
    /\ image = <<>>
    /\ \A k \in 1 .. Len(paths) : Readable(disk[paths[k]])
    /\ NoClash(objects)
    /\ image' = Placed(objects)
    /\ UNCHANGED elfrcVars

(* Where a symbol is in the image.  *)
Addresses(name) ==
    {image[d[1]].at + SymbolValue(image[d[1]].object, d[2]) :
        d \in {c \in Defined(image) :
                  Symbol(image[c[1]].object.prefix, c[2]) = name}}

ImageNext ==
    \/ Compile
    \/ \E p, q \in Paths : Link(<<p>>) \/ (p # q /\ Link(<<p, q>>))

ImageSpec == ImageInit /\ [][ImageNext]_imageVars

-----------------------------------------------------------------------------
(* A program that was linked finds each container it can declare where that *)
(* container is and nowhere else, in its own size, so that it verifies, and *)
(* aligned as its hash buckets and data are read.                           *)
OwnContainer ==
    \A k \in 1 .. Len(image) :
        LET s == image[k]
            name(kind) == Declared(s.object.prefix, kind)
        IN  /\ s.at % 16 = 0
            /\ Addresses(name("start")) \subseteq {s.at}
            /\ Addresses(name("end")) \subseteq {s.at + s.object.size}
            /\ \A l \in 1 .. k - 1 : image[l].at + image[l].object.size <= s.at

=============================================================================
