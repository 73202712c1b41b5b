------------------------------ MODULE Relocate ------------------------------
(***************************************************************************)
(* __fix_instructions and the __fix_ functions it calls                    *)
(* (source/skyline/inlinehook/And64InlineHook.cpp): the instructions that  *)
(* the jump to a hook overwrites are moved into a trampoline, and those    *)
(* that depend on where they stand are rewritten to mean the same there.   *)
(*                                                                         *)
(* Addresses count words of four bytes.  An instruction is its kind and    *)
(* the signed displacement it encodes: words, and for adrp pages; `low' is *)
(* the byte in the word that adr points to.  Registers, conditions and the *)
(* bits of the encoding are left out; what a moved instruction does is     *)
(* recorded as the address that it reaches and whether its other fields    *)
(* were left intact.                                                       *)
(***************************************************************************)
EXTENDS Integers, Sequences

CONSTANTS
  Codes,        \* the instruction sequences that are moved
  Bases,        \* where they may stand
  Trampolines,  \* outprx_base: where they may be moved to
  RwDistance    \* from an executable trampoline to its writable alias

Branches == {"b", "bl"}
Conditionals == {"cond", "tbz"}
Literals == {"ldrW", "ldrX", "ldrS", "ldrD", "ldrQ", "ldrsw"}
Kinds == Branches \cup Conditionals \cup Literals
           \cup {"plain", "prfm", "adr", "adrp"}

Reach26 == 33554432      \* 2^25 words, the reach of b and bl
Reach19 == 262144        \* 2^18 words, of b.cond, cbz and literal loads
Reach14 == 8192          \* 2^13 words, of tbz and tbnz
Words32 == 1073741824    \* 2^30 words are what 32 bits of bytes address

\* The displacements that the field of the instruction has room for.
Encodes(kind, disp) ==
  CASE kind \in Branches -> disp \in -Reach26 .. Reach26 - 1
    [] kind = "tbz"  -> disp \in -Reach14 .. Reach14 - 1
    [] kind = "adrp" -> 1024 * disp \in -Words32 .. Words32 - 1
    [] OTHER -> disp \in -Reach19 .. Reach19 - 1

Instructions ==
  {i \in [kind : Kinds, disp : Int, low : 0..3] : Encodes(i.kind, i.disp)}

A64_MAX_INSTRUCTIONS == 5
A64_MAX_WORDS == A64_MAX_INSTRUCTIONS * 10     \* of one trampoline

ASSUME CodeAssumption ==
  /\ Codes \subseteq Seq(Instructions)
  /\ \A c \in Codes : Len(c) \in {1, 4, 5}
  /\ Bases \subseteq Int /\ Trampolines \subseteq Int /\ RwDistance \in Int
  /\ \A t \in Trampolines : t % 2 = 0

VARIABLES
  code, base,   \* the instructions and inprx of the first of them
  outprx_base, outprx,   \* the trampoline and its next free word
  moved,        \* what has become of the instructions moved so far
  fmap,         \* <<r, k>>: the moved k waits for the place of r
  returned      \* the jump back is written

vars == <<code, base, outprx_base, outprx, moved, fmap, returned>>

\* Five words are overwritten where the literal would not be aligned to
\* eight bytes, four where it is, and one when B reaches the replacement.
Init ==
  /\ code \in Codes
  /\ base \in {b \in Bases : Len(code) = 1
                              \/ Len(code) = IF b % 2 = 0 THEN 4 ELSE 5}
  /\ outprx_base \in Trampolines
  /\ outprx = outprx_base
  /\ moved = <<>>
  /\ fmap = {}
  /\ returned = FALSE

-----------------------------------------------------------------------------
(* What the functions compute from the instruction they are at.            *)

Current == Len(moved) + 1
Kind == code[Current].kind

Abs(x) == IF x < 0 THEN -x ELSE x
Page(a) == a - (a % 1024)
Address(k) == base + k - 1

\* The displacement the code reads.  Only b and bl are sign-extended: a
\* negative one is taken for an unsigned field of 19 or 14 bits, or of 32
\* bits of bytes.
ReadDisplacement(ins) ==
  CASE ins.kind \in Branches -> ins.disp
    [] ins.kind = "cond" -> ins.disp % (2 * Reach19)
    [] ins.kind = "tbz"  -> ins.disp % (2 * Reach14)
    [] ins.kind = "adrp" -> (ins.disp * 1024) % Words32
    [] OTHER -> IF ins.disp < 0 THEN ins.disp + Words32 ELSE ins.disp

AbsoluteAddr ==
  (IF Kind = "adrp" THEN Page(Address(Current)) ELSE Address(Current))
    + ReadDisplacement(code[Current])

\* Mutant: the end belongs to the range.
IsInFixingRangeEnd(a) == base <= a /\ a <= base + Len(code)

IsInFixingRange(a) == base <= a /\ a < base + Len(code)

RefIndex(a) == a - base + 1

\* new_pc_offset, with the last value of *outprx.
NewPcOffset(pad) == AbsoluteAddr - (outprx + pad)

\* Words of data behind a literal load that is copied.
Words(kind) == IF kind \in {"ldrW", "ldrS"} THEN 1
               ELSE IF kind = "ldrQ" THEN 4 ELSE 2

\* Mutant: bytes are taken for words.
AlignPadBytes(w) == (-(outprx + 2)) % (4 * w)

\* The NOPs until the data two words on is aligned to w words.
AlignPad(w) == (-(outprx + 2)) % w

OutOfReach ==
  LET off == NewPcOffset(0)
  IN CASE Kind \in Branches -> Abs(off) >= Reach26 - 1
       [] Kind = "cond" -> Abs(off) >= Reach19 - 1
       [] Kind = "tbz"  -> Abs(off) >= Reach14 - 1
       [] Kind \in Literals -> Abs(off) + Words(Kind) - 1 >= Reach19 - 1
       [] OTHER -> IF Abs(off) > Reach19 THEN TRUE
                   ELSE Abs(4 * off + code[Current].low) >= 4 * Reach19 - 1

Dat(r) == IF r = Current THEN outprx ELSE moved[r].dat

-----------------------------------------------------------------------------
(* The instruction becomes `len' words behind `pad' NOPs; dat is what      *)
(* dat[current_idx] holds at the end, and process_fix_map gives it to the  *)
(* moved instructions that have waited for it.                             *)

Become(pad, dat, reaches, intact) ==
  moved' = Append(
    [k \in 1..Len(moved) |->
       IF <<Current, k>> \in fmap
       THEN [moved[k] EXCEPT !.reaches = dat] ELSE moved[k]],
    [first |-> outprx, body |-> outprx + pad, dat |-> dat,
     reaches |-> reaches, intact |-> intact])

Await(refs) == fmap' = {f \in fmap : f[1] # Current} \cup refs

Occupy(len) ==
  /\ outprx' = outprx + len
  /\ UNCHANGED <<code, base, outprx_base, returned>>

More == ~returned /\ Len(moved) < Len(code)

\* Rewritten to one word; a place in the range that has not been moved yet
\* is waited for, and meanwhile the offset is 0.
RewriteInReach(intact) ==
  LET a == AbsoluteAddr
      r == RefIndex(a)
      later == IsInFixingRange(a) /\ r > Current
  IN /\ Become(0, outprx,
               IF later THEN outprx
               ELSE IF IsInFixingRange(a) THEN Dat(r) ELSE a, intact)
     /\ Await(IF later THEN {<<r, Current>>} ELSE {})
     /\ Occupy(1)

\* Rewritten to `len' words with the full address of 64 bits.
RewriteFar(pad, len, dat) ==
  /\ ~IsInFixingRange(AbsoluteAddr)
  /\ Become(pad, dat, AbsoluteAddr, TRUE)
  /\ Await({})
  /\ Occupy(pad + len)

NearOrInRange == IsInFixingRange(AbsoluteAddr) \/ ~OutOfReach

-----------------------------------------------------------------------------

\* __fix_branch_imm
FixBranchNear == More /\ Kind \in Branches /\ NearOrInRange
                 /\ RewriteInReach(TRUE)

FixBranchFar ==
  /\ More /\ OutOfReach
  /\ \/ Kind = "b"  /\ LET pad == outprx % 2
                       IN RewriteFar(pad, 4, outprx + pad)
     \/ Kind = "bl" /\ LET pad == (outprx + 1) % 2
                       IN RewriteFar(pad, 5, outprx + pad)

\* __fix_cond_comp_test_branch; dat stays before the NOP.
FixConditionalNear == More /\ Kind \in Conditionals /\ NearOrInRange
                      /\ RewriteInReach(TRUE)

FixConditionalFar == More /\ Kind \in Conditionals /\ OutOfReach
                     /\ RewriteFar(outprx % 2, 6, outprx)

\* __fix_loadlit drops a prefetch.
SkipPrefetch ==
  /\ More /\ Kind = "prfm"
  /\ Become(0, outprx, outprx, TRUE)
  /\ Await({})
  /\ Occupy(0)

\* The data is copied behind the load, also when it is in the range.
CopyLiteral ==
  /\ More /\ Kind \in Literals
  /\ IsInFixingRange(AbsoluteAddr) \/ OutOfReach
  /\ LET pad == AlignPad(Words(Kind))
     IN /\ Become(pad, outprx + pad, AbsoluteAddr, TRUE)
        /\ Await({})
        /\ Occupy(pad + 2 + Words(Kind))

\* The load keeps its data.  The bits of a negative offset that ~mask lets
\* through change the size of the load, where they are not set already.
RewriteLiteral ==
  /\ More /\ Kind \in Literals
  /\ ~IsInFixingRange(AbsoluteAddr) /\ ~OutOfReach
  /\ LET pad == NewPcOffset(0) % Words(Kind)
     IN /\ Become(pad, outprx + pad, AbsoluteAddr,
                  NewPcOffset(pad) >= 0 \/ Kind \in {"ldrX", "ldrsw"})
        /\ Await({})
        /\ Occupy(pad + 1)

\* __fix_pcreladdr, adr: the low bits of an offset to another place end up
\* in the register field.
FixAdrNear ==
  /\ More /\ Kind = "adr" /\ NearOrInRange
  /\ RewriteInReach(IsInFixingRange(AbsoluteAddr) \/ code[Current].low = 0)

FixAdrFar == More /\ Kind = "adr" /\ OutOfReach
             /\ LET pad == outprx % 2 IN RewriteFar(pad, 4, outprx + pad)

\* adrp: dat is given outprw, and outprx only where there is a NOP.
FixAdrp ==
  /\ More /\ Kind = "adrp"
  /\ LET pad == outprx % 2
     IN RewriteFar(pad, 4, IF pad = 1 THEN outprx + 1
                           ELSE outprx + RwDistance)

\* adrp of a page that begins in the range is copied as it is.
CopyAdrp ==
  /\ More /\ Kind = "adrp" /\ IsInFixingRange(AbsoluteAddr)
  /\ Become(0, outprx + RwDistance,
            Page(outprx) + 1024 * code[Current].disp, TRUE)
  /\ Await({})
  /\ Occupy(1)

\* __fix_instructions copies what does not depend on its place.
CopyPlain ==
  /\ More /\ Kind = "plain"
  /\ Become(0, outprx, outprx, TRUE)
  /\ Await({})
  /\ Occupy(1)

\* The jump behind the instructions that were moved.
JumpBack ==
  /\ ~returned /\ Len(moved) = Len(code)
  /\ outprx' = IF Abs(base + Len(code) - outprx) >= Reach26 - 1
               THEN outprx + (outprx % 2) + 4 ELSE outprx + 1
  /\ returned' = TRUE
  /\ UNCHANGED <<code, base, outprx_base, moved, fmap>>

Next ==
  \/ FixBranchNear \/ FixBranchFar
  \/ FixConditionalNear \/ FixConditionalFar
  \/ SkipPrefetch \/ CopyLiteral \/ RewriteLiteral
  \/ FixAdrNear \/ FixAdrFar \/ FixAdrp \/ CopyAdrp
  \/ CopyPlain \/ JumpBack

Spec == Init /\ [][Next]_vars

-----------------------------------------------------------------------------
(* Properties                                                              *)

\* The type of every variable; what is waited for is still to come
\* (process_fix_map, lines 60 to 68).
TypeOK ==
  /\ code \in Seq(Instructions) /\ Len(code) <= A64_MAX_INSTRUCTIONS
  /\ base \in Bases /\ outprx_base \in Trampolines
  /\ outprx \in Int
  /\ moved \in Seq([first : Int, body : Int, dat : Int, reaches : Int,
                    intact : BOOLEAN])
  /\ Len(moved) <= Len(code)
  /\ fmap \subseteq (1..Len(code)) \X (1..Len(moved))
  /\ \A f \in fmap : f[1] > Len(moved)
  /\ returned \in BOOLEAN

\* What an instruction refers to where it stood.
Target(k) ==
  IF code[k].kind = "adrp" THEN Page(Address(k)) + 1024 * code[k].disp
                           ELSE Address(k) + code[k].disp

InCode(a) == a \in base .. base + Len(code) - 1

\* It depends on where it stands; it refers to another one that is moved.
Depends(k) == code[k].kind \notin {"plain", "prfm"}
Refers(k) == code[k].kind \notin Literals \cup {"adrp"} /\ InCode(Target(k))

\* A place among the moved instructions becomes the place they were moved
\* to; a load still loads the same data, and adrp the same page.
Right(k) ==
  /\ moved[k].intact
  /\ IF Refers(k)
     THEN LET m == moved[RefIndex(Target(k))]
          IN moved[k].reaches \in m.first .. m.body
     ELSE moved[k].reaches = Target(k)

\* The ways in which the code is known to go wrong.
ReadUnsigned(k) == code[k].disp < 0 /\ code[k].kind \notin Branches
LoadsLessFar(k) ==        \* a rewritten load with its data before it
  /\ code[k].kind \in Literals \ {"ldrX", "ldrsw"}
  /\ Target(k) < moved[k].body
UnevenAdr(k) == code[k].kind = "adr" /\ code[k].low # 0
AdrpWithin(k) == code[k].kind = "adrp" /\ InCode(Target(k))
LeadsToAdrp(k) == Refers(k) /\ code[RefIndex(Target(k))].kind = "adrp"
Known(k) == \/ ReadUnsigned(k) \/ LoadsLessFar(k) \/ UnevenAdr(k)
            \/ AdrpWithin(k) \/ LeadsToAdrp(k)

\* Once all is moved, an instruction that no longer does what it did is one
\* of those that the code is known to get wrong: an offset read without its
\* sign, a negative one to the data of a load, an adr to a byte inside a
\* word, an adrp of the page that begins there, a jump to an adrp.  The
\* forms for near and for far, the order in which references are resolved
\* and the NOPs mislead no other (__fix_instructions, lines 450 to 461).
MisledOnlyByKnown ==
  Len(moved) = Len(code) =>
    \A k \in 1..Len(code) : Depends(k) /\ ~Right(k) => Known(k)

\* What is written stays within the trampoline of A64_MAX_INSTRUCTIONS * 10
\* words (lines 505 and 520), whatever needs to be aligned.
FitsTrampoline == outprx - outprx_base \in 0 .. A64_MAX_WORDS

\* An adr or adrp to a whole word and to a page that does not begin within
\* the code loads the address that it loaded: "Load a PC-relative address
\* into a register" (line 334).
LoadsItsAddress ==
  \A k \in 1..Len(moved) :
    (code[k].kind \in {"adr", "adrp"} /\ code[k].low = 0
       /\ ~InCode(Target(k))) => Right(k)
=============================================================================
