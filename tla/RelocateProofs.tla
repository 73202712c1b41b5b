--------------------------- MODULE RelocateProofs ---------------------------
(* Relocation fits the trampoline, for all code, all places and all        *)
(* displacements: one instruction becomes at most nine words, NOPs         *)
(* included, and the jump back at most five.  And what moved instructions  *)
(* mean is kept, but for the mistakes that Relocate names.                 *)
EXTENDS Relocate, TLAPS

Record == [first : Int, body : Int, dat : Int, reaches : Int,
           intact : BOOLEAN]

\* Nine words at most for each instruction, and five for the jump back.
Nine ==
  /\ outprx >= outprx_base
  /\ ~returned => outprx <= outprx_base + 9 * Len(moved)
  /\ returned => outprx <= outprx_base + 9 * Len(moved) + 5

\* The inductive invariant.
IInv == TypeOK /\ Nine

\* An instruction that the code gets right does what it did, or waits for
\* the one that it refers to.
Settled(k) ==
  LET r == RefIndex(Target(k))
  IN /\ moved[k].intact
     /\ IF Refers(k)
        THEN IF r <= Len(moved)
             THEN moved[k].reaches \in moved[r].first .. moved[r].body
             ELSE <<r, k>> \in fmap
        ELSE moved[k].reaches = Target(k)

\* What dat says of an instruction is a place of it, but for an adrp.
DatIsPlace ==
  \A k \in 1..Len(moved) :
    code[k].kind # "adrp" => moved[k].dat \in moved[k].first .. moved[k].body

\* What waits does so for the instruction that it refers to.
WaitsForTarget ==
  \A f \in fmap :
    ~Known(f[2]) => Refers(f[2]) /\ f[1] = RefIndex(Target(f[2]))

AllSettled ==
  \A k \in 1..Len(moved) : Depends(k) /\ ~Known(k) => Settled(k)

\* The inductive invariant of what the moved instructions mean.
MInv == IInv /\ DatIsPlace /\ WaitsForTarget /\ AllSettled

-----------------------------------------------------------------------------

\* What the code reads and computes is an address.
LEMMA AddrInt ==
  ASSUME TypeOK, More
  PROVE  /\ code[Current] \in Instructions
         /\ Current \in 1..Len(code)
         /\ AbsoluteAddr \in Int
<1>1. Current \in 1..Len(code) /\ code[Current] \in Instructions
  BY DEF TypeOK, More, Current
<1>2. code[Current].disp \in Int
  BY <1>1 DEF Instructions
<1>3. ReadDisplacement(code[Current]) \in Int
  BY <1>2 DEF ReadDisplacement, Reach19, Reach14, Words32
<1>4. Address(Current) \in Int /\ Page(Address(Current)) \in Int
  BY <1>1, CodeAssumption DEF TypeOK, Address, Page
<1>5. QED
  BY <1>1, <1>3, <1>4 DEF AbsoluteAddr

\* Alignment takes fewer NOPs than the words it aligns to.
LEMMA PadBound ==
  ASSUME NEW o \in Int, NEW w \in {1, 2, 4}
  PROVE  (-(o + 2)) % w \in 0 .. w - 1 /\ o % w \in 0 .. w - 1
  OBVIOUS

\* One more instruction is moved, and what is known of the others stays.
LEMMA BecomeType ==
  ASSUME TypeOK, NEW pad \in Int, NEW dat \in Int, NEW reaches \in Int,
         NEW intact \in BOOLEAN, Become(pad, dat, reaches, intact)
  PROVE  moved' \in Seq(Record) /\ Len(moved') = Len(moved) + 1
<1> DEFINE old == [k \in 1..Len(moved) |->
                     IF <<Current, k>> \in fmap
                     THEN [moved[k] EXCEPT !.reaches = dat] ELSE moved[k]]
           new == [first |-> outprx, body |-> outprx + pad, dat |-> dat,
                   reaches |-> reaches, intact |-> intact]
<1>1. new \in Record
  BY DEF TypeOK, Record
<1>2. moved \in Seq(Record) /\ Len(moved) \in Nat
  BY DEF TypeOK, Record
<1>3. ASSUME NEW k \in 1..Len(moved) PROVE old[k] \in Record
  <2>1. moved[k] \in Record
    BY <1>2
  <2>2. [moved[k] EXCEPT !.reaches = dat] \in Record
    BY <2>1 DEF Record
  <2>3. QED
    BY <2>1, <2>2
<1>4. old \in Seq(Record) /\ Len(old) = Len(moved)
  BY <1>2, <1>3
<1>5. moved' = Append(old, new)
  BY DEF Become
<1> HIDE DEF old, new
<1>6. QED
  BY <1>1, <1>4, <1>5

\* Everything that moves an instruction keeps the invariant: what it
\* occupies is at most nine words, and it waits for later ones only.
Later(refs) ==
  \A f \in refs : f[2] = Current /\ f[1] \in Current + 1 .. Len(code)
                  /\ f = <<f[1], f[2]>>

LEMMA LaterNone == Later({})
  BY DEF Later

LEMMA MovesKeepsInvariant ==
  ASSUME IInv, More, NEW len \in 0..9, NEW refs,
         moved' \in Seq(Record) /\ Len(moved') = Len(moved) + 1,
         Later(refs), Await(refs), Occupy(len)
  PROVE  IInv'
<1>1. moved' \in Seq(Record) /\ Len(moved') = Len(moved) + 1
  OBVIOUS
<1>2. UNCHANGED <<code, base, outprx_base, returned>> /\ outprx' = outprx + len
  BY DEF Occupy
<1>3. Len(moved) \in Nat /\ Len(code) \in Nat /\ Len(moved) < Len(code)
  BY DEF IInv, TypeOK, More
<1>4. fmap' \subseteq (1..Len(code)) \X (1..Len(moved'))
  <2> SUFFICES ASSUME NEW f \in fmap'
               PROVE  f \in (1..Len(code)) \X (1..Len(moved'))
    OBVIOUS
  <2>1. CASE f \in fmap
    <3>1. f \in (1..Len(code)) \X (1..Len(moved))
      BY <2>1 DEF IInv, TypeOK
    <3>2. QED
      BY <3>1, <1>1, <1>3
  <2>2. CASE f \in refs
    BY <2>2, <1>1, <1>3 DEF Current, Later
  <2>3. QED
    BY <2>1, <2>2 DEF Await
<1>5. \A f \in fmap' : f[1] > Len(moved')
  <2> SUFFICES ASSUME NEW f \in fmap' PROVE f[1] > Len(moved')
    OBVIOUS
  <2>1. CASE f \in fmap /\ f[1] # Current
    <3>1. f[1] > Len(moved) /\ f[1] \in Int
      BY <2>1 DEF IInv, TypeOK
    <3>2. QED
      BY <3>1, <2>1, <1>1, <1>3 DEF Current
  <2>2. CASE f \in refs
    BY <2>2, <1>1, <1>3 DEF Current, Later
  <2>3. QED
    BY <2>1, <2>2 DEF Await
<1>6. TypeOK'
  <2>1. outprx' \in Int /\ Len(moved') <= Len(code')
    BY <1>1, <1>2, <1>3 DEF IInv, TypeOK
  <2>2. code' \in Seq(Instructions) /\ Len(code') <= A64_MAX_INSTRUCTIONS
        /\ base' \in Bases /\ outprx_base' \in Trampolines
        /\ returned' \in BOOLEAN
    BY <1>2 DEF IInv, TypeOK
  <2>3. fmap' \subseteq (1..Len(code')) \X (1..Len(moved'))
    BY <1>2, <1>4
  <2>4. QED
    BY <1>1, <1>5, <2>1, <2>2, <2>3 DEF TypeOK, Record
<1>7. Nine'
  <2>1. ~returned /\ ~returned'
    BY <1>2 DEF More
  <2>2. outprx \in Int /\ outprx_base \in Int /\ outprx_base' = outprx_base
    BY <1>2, CodeAssumption DEF IInv, TypeOK
  <2>3. outprx >= outprx_base /\ outprx <= outprx_base + 9 * Len(moved)
    BY <2>1 DEF IInv, Nine
  <2>4. 9 * Len(moved') = 9 * Len(moved) + 9
    BY <1>1, <1>3
  <2>5. outprx' = outprx + len /\ Len(moved') \in Nat /\ len <= 9 /\ len >= 0
    BY <1>1, <1>2, <1>3
  <2>6. outprx' >= outprx_base' /\ outprx' <= outprx_base' + 9 * Len(moved')
    BY <1>3, <2>2, <2>3, <2>4, <2>5
  <2>7. QED
    BY <2>1, <2>6 DEF Nine
<1>8. QED
  BY <1>6, <1>7 DEF IInv

-----------------------------------------------------------------------------

\* The two forms that several kinds share.
LEMMA NearKeepsInvariant ==
  ASSUME IInv, More, NEW intact \in BOOLEAN, RewriteInReach(intact)
  PROVE  IInv'
<1> DEFINE a == AbsoluteAddr
           r == RefIndex(a)
           later == IsInFixingRange(a) /\ r > Current
           reaches == IF later THEN outprx
                      ELSE IF IsInFixingRange(a) THEN Dat(r) ELSE a
           refs == IF later THEN {<<r, Current>>} ELSE {}
<1>1. /\ a \in Int /\ Current \in 1..Len(code)
      /\ outprx \in Int /\ base \in Int /\ Len(code) \in Nat
  BY AddrInt, CodeAssumption DEF IInv, TypeOK
<1>2. IsInFixingRange(a) => r \in 1..Len(code)
  BY <1>1 DEF IsInFixingRange, RefIndex
<1>3. ASSUME IsInFixingRange(a), ~later PROVE Dat(r) \in Int
  <2>1. r \in 1..Current
    BY <1>1, <1>2, <1>3
  <2>2. CASE r = Current
    BY <2>2, <1>1 DEF Dat
  <2>3. CASE r # Current
    <3>1. r \in 1..Len(moved) /\ moved \in Seq(Record)
      BY <2>1, <2>3, <1>1 DEF IInv, TypeOK, Record, Current
    <3>2. moved[r] \in Record
      BY <3>1
    <3>3. QED
      BY <3>2, <2>3 DEF Dat, Record
  <2>4. QED
    BY <2>2, <2>3
<1>4. reaches \in Int
  BY <1>1, <1>3
<1>5. Later(refs)
  BY <1>1, <1>2 DEF Later
<1>6. Become(0, outprx, reaches, intact) /\ Await(refs) /\ Occupy(1)
  BY DEF RewriteInReach
<1> HIDE DEF a, r, later, reaches, refs
<1>7. 0 \in Int /\ 1 \in 0..9 /\ TypeOK
  BY DEF IInv
<1>8. moved' \in Seq(Record) /\ Len(moved') = Len(moved) + 1
  BY <1>1, <1>4, <1>6, <1>7, BecomeType, Zenon
<1>9. QED
  BY <1>5, <1>6, <1>7, <1>8, MovesKeepsInvariant, Zenon

LEMMA AloneKeepsInvariant ==
  ASSUME IInv, More, NEW pad \in Int, NEW len \in 0..9, NEW dat \in Int,
         NEW reaches \in Int, NEW intact \in BOOLEAN,
         Become(pad, dat, reaches, intact), Await({}), Occupy(len)
  PROVE  IInv'
<1>1. TypeOK
  BY DEF IInv
<1>2. moved' \in Seq(Record) /\ Len(moved') = Len(moved) + 1
  BY <1>1, BecomeType, Zenon
<1>3. QED
  BY <1>2, LaterNone, MovesKeepsInvariant, Zenon

LEMMA FarKeepsInvariant ==
  ASSUME IInv, More, NEW pad \in 0..1, NEW len \in 4..6, NEW dat \in Int,
         RewriteFar(pad, len, dat)
  PROVE  IInv'
<1>1. AbsoluteAddr \in Int /\ pad \in Int /\ pad + len \in 0..9
  BY AddrInt DEF IInv
<1>2. Become(pad, dat, AbsoluteAddr, TRUE) /\ Await({}) /\ Occupy(pad + len)
  BY DEF RewriteFar
<1>3. TRUE \in BOOLEAN
  OBVIOUS
<1>4. QED
  BY <1>1, <1>2, <1>3, AloneKeepsInvariant, Zenon

-----------------------------------------------------------------------------

LEMMA InitIInv == Init => IInv
<1> SUFFICES ASSUME Init PROVE IInv
  OBVIOUS
<1>1. code \in Seq(Instructions) /\ Len(code) \in {1, 4, 5}
      /\ outprx_base \in Int
  BY CodeAssumption DEF Init
<1>2. moved = <<>> /\ Len(moved) = 0
  BY DEF Init
<1>3. TypeOK
  <2>1. moved \in Seq([first : Int, body : Int, dat : Int, reaches : Int,
                        intact : BOOLEAN])
    BY <1>2
  <2>2. fmap = {} /\ Len(moved) <= Len(code)
    BY <1>1, <1>2 DEF Init
  <2>3. Len(code) <= A64_MAX_INSTRUCTIONS
    <3>1. \A n \in {1, 4, 5} : n <= 5
      OBVIOUS
    <3>2. QED
      BY <1>1, <3>1 DEF A64_MAX_INSTRUCTIONS
  <2>4. QED
    BY <1>1, <2>1, <2>2, <2>3 DEF Init, TypeOK
<1>4. Nine
  BY <1>1, <1>2 DEF Init, Nine
<1>5. QED
  BY <1>3, <1>4 DEF IInv

\* One step per action.
LEMMA NextIInv == IInv /\ [Next]_vars => IInv'
<1> SUFFICES ASSUME IInv, [Next]_vars PROVE IInv'
  OBVIOUS
<1>0. outprx \in Int
  BY DEF IInv, TypeOK
<1> DEFINE even == outprx % 2
<1>a. even \in 0..1 /\ (outprx + 1) % 2 \in 0..1
  BY <1>0
<1>b. 0 \in Int /\ 0 \in 0..9 /\ 1 \in 0..9 /\ TRUE \in BOOLEAN
  OBVIOUS
<1>1. CASE FixBranchNear
  BY <1>1, NearKeepsInvariant DEF FixBranchNear
<1>2. CASE FixBranchFar
  <2>1. CASE RewriteFar(even, 4, outprx + even)
    BY <1>0, <1>2, <1>a, <2>1, FarKeepsInvariant DEF FixBranchFar
  <2>2. CASE RewriteFar((outprx + 1) % 2, 5, outprx + ((outprx + 1) % 2))
    BY <1>0, <1>2, <1>a, <2>2, FarKeepsInvariant DEF FixBranchFar
  <2>3. QED
    BY <1>2, <2>1, <2>2 DEF FixBranchFar
<1>3. CASE FixConditionalNear
  BY <1>3, NearKeepsInvariant DEF FixConditionalNear
<1>4. CASE FixConditionalFar
  BY <1>0, <1>4, <1>a, FarKeepsInvariant DEF FixConditionalFar
<1>5. CASE SkipPrefetch
  BY <1>0, <1>5, <1>b, AloneKeepsInvariant, Zenon DEF SkipPrefetch
<1>6. CASE CopyLiteral
  <2> DEFINE w == Words(Kind)
             pad == AlignPad(w)
  <2>1. w \in {1, 2, 4}
    BY DEF Words
  <2>2. pad \in 0 .. w - 1
    BY <1>0, <2>1, PadBound DEF AlignPad
  <2>3. AbsoluteAddr \in Int
    BY <1>6, AddrInt DEF IInv, CopyLiteral
  <2>4. /\ More /\ Become(pad, outprx + pad, AbsoluteAddr, TRUE)
        /\ Await({}) /\ Occupy(pad + 2 + w)
    BY <1>6 DEF CopyLiteral
  <2> HIDE DEF w, pad
  <2>5. pad \in Int /\ pad + 2 + w \in 0..9 /\ outprx + pad \in Int
    BY <1>0, <2>1, <2>2
  <2>6. QED
    BY <1>b, <2>3, <2>4, <2>5, AloneKeepsInvariant, Zenon
<1>7. CASE RewriteLiteral
  <2> DEFINE w == Words(Kind)
             pad == NewPcOffset(0) % w
             intact == NewPcOffset(pad) >= 0 \/ Kind \in {"ldrX", "ldrsw"}
  <2>1. w \in {1, 2, 4}
    BY DEF Words
  <2>2. AbsoluteAddr \in Int
    BY <1>7, AddrInt DEF IInv, RewriteLiteral
  <2>3. NewPcOffset(0) \in Int
    BY <1>0, <2>2 DEF NewPcOffset
  <2>4. pad \in 0 .. w - 1
    BY <2>1, <2>3, PadBound
  <2>5. /\ More /\ Become(pad, outprx + pad, AbsoluteAddr, intact)
        /\ Await({}) /\ Occupy(pad + 1)
    BY <1>7 DEF RewriteLiteral
  <2>6. intact \in BOOLEAN
    OBVIOUS
  <2> HIDE DEF w, pad, intact
  <2>7. pad \in Int /\ pad + 1 \in 0..9 /\ outprx + pad \in Int
    BY <1>0, <2>1, <2>4
  <2>8. QED
    BY <2>2, <2>5, <2>6, <2>7, AloneKeepsInvariant, Zenon
<1>8. CASE FixAdrNear
  BY <1>8, NearKeepsInvariant DEF FixAdrNear
<1>9. CASE FixAdrFar
  BY <1>0, <1>9, <1>a, FarKeepsInvariant DEF FixAdrFar
<1>10. CASE FixAdrp
  <2>1. (IF even = 1 THEN outprx + 1 ELSE outprx + RwDistance) \in Int
    BY <1>0, CodeAssumption
  <2>2. QED
    BY <1>10, <1>a, <2>1, FarKeepsInvariant DEF FixAdrp
<1>11. CASE CopyAdrp
  <2>1. code[Current].disp \in Int
    BY <1>11, AddrInt DEF IInv, CopyAdrp, Instructions
  <2>2. outprx + RwDistance \in Int
        /\ Page(outprx) + 1024 * code[Current].disp \in Int
    BY <1>0, <2>1, CodeAssumption DEF Page
  <2>3. /\ More /\ Await({}) /\ Occupy(1)
        /\ Become(0, outprx + RwDistance,
                  Page(outprx) + 1024 * code[Current].disp, TRUE)
    BY <1>11 DEF CopyAdrp
  <2>4. QED
    BY <1>b, <2>2, <2>3, AloneKeepsInvariant, Zenon
<1>12. CASE CopyPlain
  BY <1>0, <1>12, <1>b, AloneKeepsInvariant, Zenon DEF CopyPlain
<1>13. CASE JumpBack
  <2>1. /\ UNCHANGED <<code, base, outprx_base, moved, fmap>>
        /\ ~returned /\ returned' = TRUE
    BY <1>13 DEF JumpBack
  <2>2. outprx' \in outprx + 1 .. outprx + 5
    <3>1. outprx' = outprx + even + 4 \/ outprx' = outprx + 1
      BY <1>13 DEF JumpBack
    <3>2. QED
      BY <1>0, <1>a, <3>1
  <2>3. TypeOK'
    BY <1>0, <2>1, <2>2 DEF IInv, TypeOK
  <2>4. outprx_base \in Int /\ Len(moved) \in Nat
    BY CodeAssumption DEF IInv, TypeOK
  <2>5. Nine'
    BY <1>0, <2>1, <2>2, <2>4 DEF IInv, Nine
  <2>6. QED
    BY <2>3, <2>5 DEF IInv
<1>14. CASE UNCHANGED vars
  BY <1>14 DEF vars, IInv, TypeOK, Nine
<1>15. QED
  BY <1>1, <1>2, <1>3, <1>4, <1>5, <1>6, <1>7, <1>8, <1>9, <1>10, <1>11,
     <1>12, <1>13, <1>14 DEF Next

\* The types hold for all code: what waits is still to come
\* (process_fix_map).
THEOREM TypeCorrect == Spec => []TypeOK
<1>1. IInv => TypeOK
  BY DEF IInv
<1>2. QED
  BY <1>1, InitIInv, NextIInv, PTL DEF Spec

\* No code, wherever it stands and wherever it is moved, outgrows the
\* trampoline of fifty words (__fix_instructions, A64_MAX_INSTRUCTIONS).
THEOREM Fits == Spec => []FitsTrampoline
<1>1. IInv => FitsTrampoline
  <2> SUFFICES ASSUME IInv PROVE FitsTrampoline
    OBVIOUS
  <2>1. /\ outprx \in Int /\ outprx_base \in Int
        /\ Len(moved) \in Nat /\ Len(moved) <= 5
    BY CodeAssumption DEF IInv, TypeOK, A64_MAX_INSTRUCTIONS
  <2>2. outprx >= outprx_base /\ outprx <= outprx_base + 9 * Len(moved) + 5
    BY <2>1 DEF IInv, Nine
  <2>3. QED
    BY <2>1, <2>2
       DEF FitsTrampoline, A64_MAX_WORDS, A64_MAX_INSTRUCTIONS
<1>2. QED
  BY <1>1, InitIInv, NextIInv, PTL DEF Spec

-----------------------------------------------------------------------------

\* Known, of an instruction that ends up at b.
KnownAt(k, b) ==
  \/ ReadUnsigned(k)
  \/ code[k].kind \in Literals \ {"ldrX", "ldrsw"} /\ Target(k) < b
  \/ UnevenAdr(k) \/ AdrpWithin(k) \/ LeadsToAdrp(k)

LEMMA KnownIsAt == \A k : Known(k) <=> KnownAt(k, moved[k].body)
  BY DEF Known, KnownAt, LoadsLessFar

\* A number that fits is its own remainder.
LEMMA ModIsSame == ASSUME NEW n \in Nat, NEW x \in 0 .. n - 1 PROVE x % n = x
  BY SMT

LEMMA SizesNat == Reach19 \in Nat /\ Reach14 \in Nat /\ Words32 \in Nat
  BY SMT DEF Reach19, Reach14, Words32

\* A displacement that is not read without its sign leads to the target.
LEMMA ReadsTarget ==
  ASSUME TypeOK, More, ~ReadUnsigned(Current)
  PROVE  AbsoluteAddr = Target(Current)
<1> DEFINE ins == code[Current]
<1>1. ins \in Instructions
  BY AddrInt
<1>2. /\ ins.disp \in Int /\ ins.kind \in Kinds
      /\ Encodes(ins.kind, ins.disp)
      /\ ins.kind \in Branches \/ ins.disp >= 0
  BY <1>1 DEF ReadUnsigned, Instructions
<1>3. Address(Current) \in Int /\ Page(Address(Current)) \in Int
  BY AddrInt, CodeAssumption DEF TypeOK, Address, Page
<1>4. ReadDisplacement(ins)
        = IF ins.kind = "adrp" THEN 1024 * ins.disp ELSE ins.disp
  <2>1. CASE ins.kind \in Branches
    BY <1>2, <2>1, SMT DEF ReadDisplacement, Branches
  <2>2. CASE ins.kind = "cond"
    <3>1. ins.disp \in -Reach19 .. Reach19 - 1
      BY <1>2, <2>2, SMT DEF Encodes, Branches
    <3>2. ReadDisplacement(ins) = ins.disp % (2 * Reach19)
      BY <2>2, SMT DEF ReadDisplacement, Branches
    <3>3. ins.disp >= 0
      BY <1>2, <2>2 DEF Branches
    <3>4. 2 * Reach19 \in Nat /\ ins.disp \in 0 .. (2 * Reach19) - 1
      BY <1>2, <3>1, <3>3, SizesNat
    <3>5. QED
      BY <2>2, <3>2, <3>4, ModIsSame
  <2>3. CASE ins.kind = "tbz"
    <3>1. ins.disp \in -Reach14 .. Reach14 - 1
      BY <1>2, <2>3, SMT DEF Encodes, Branches
    <3>2. ReadDisplacement(ins) = ins.disp % (2 * Reach14)
      BY <2>3, SMT DEF ReadDisplacement, Branches
    <3>3. ins.disp >= 0
      BY <1>2, <2>3 DEF Branches
    <3>4. 2 * Reach14 \in Nat /\ ins.disp \in 0 .. (2 * Reach14) - 1
      BY <1>2, <3>1, <3>3, SizesNat
    <3>5. QED
      BY <2>3, <3>2, <3>4, ModIsSame
  <2>4. CASE ins.kind = "adrp"
    <3>1. 1024 * ins.disp \in 0 .. Words32 - 1
      BY <1>2, <2>4, SMT DEF Encodes, Branches
    <3>2. ReadDisplacement(ins) = (ins.disp * 1024) % Words32
      BY <2>4 DEF ReadDisplacement, Branches
    <3>3. QED
      <4>1. ins.disp * 1024 = 1024 * ins.disp
        BY <1>2
      <4>2. QED
        BY <2>4, <3>1, <3>2, <4>1, SizesNat, ModIsSame
  <2>5. CASE ins.kind \notin Branches \cup {"cond", "tbz", "adrp"}
    BY <1>2, <2>5, SMT DEF ReadDisplacement
  <2>6. QED
    BY <2>1, <2>2, <2>3, <2>4, <2>5
<1>5. Kind = ins.kind
  BY DEF Kind
<1> HIDE DEF ins
<1>6. QED
  BY <1>3, <1>4, <1>5 DEF AbsoluteAddr, Target, ins

\* What is known of the instructions after one more has been moved.
LEMMA BecomeFields ==
  ASSUME TypeOK, NEW pad \in Int, NEW dat \in Int, NEW reaches \in Int,
         NEW intact \in BOOLEAN, Become(pad, dat, reaches, intact)
  PROVE  /\ Len(moved') = Len(moved) + 1
         /\ moved'[Current] =
              [first |-> outprx, body |-> outprx + pad, dat |-> dat,
               reaches |-> reaches, intact |-> intact]
         /\ \A k \in 1..Len(moved) :
              /\ moved'[k].first = moved[k].first
              /\ moved'[k].body = moved[k].body
              /\ moved'[k].dat = moved[k].dat
              /\ moved'[k].intact = moved[k].intact
              /\ moved'[k].reaches = IF <<Current, k>> \in fmap
                                     THEN dat ELSE moved[k].reaches
<1> DEFINE old == [k \in 1..Len(moved) |->
                     IF <<Current, k>> \in fmap
                     THEN [moved[k] EXCEPT !.reaches = dat] ELSE moved[k]]
           new == [first |-> outprx, body |-> outprx + pad, dat |-> dat,
                   reaches |-> reaches, intact |-> intact]
<1>1. moved \in Seq(Record) /\ Len(moved) \in Nat
  BY DEF TypeOK, Record
<1>2. ASSUME NEW k \in 1..Len(moved)
      PROVE  /\ old[k] \in Record
             /\ old[k].first = moved[k].first /\ old[k].body = moved[k].body
             /\ old[k].dat = moved[k].dat /\ old[k].intact = moved[k].intact
             /\ old[k].reaches = IF <<Current, k>> \in fmap
                                 THEN dat ELSE moved[k].reaches
  <2>1. moved[k] \in Record
    BY <1>1
  <2>2. /\ [moved[k] EXCEPT !.reaches = dat] \in Record
        /\ [moved[k] EXCEPT !.reaches = dat].first = moved[k].first
        /\ [moved[k] EXCEPT !.reaches = dat].body = moved[k].body
        /\ [moved[k] EXCEPT !.reaches = dat].dat = moved[k].dat
        /\ [moved[k] EXCEPT !.reaches = dat].intact = moved[k].intact
        /\ [moved[k] EXCEPT !.reaches = dat].reaches = dat
    BY <2>1 DEF Record
  <2>3. CASE <<Current, k>> \in fmap
    <3>1. old[k] = [moved[k] EXCEPT !.reaches = dat]
      BY <2>3
    <3>2. QED
      BY <2>2, <2>3, <3>1
  <2>4. CASE <<Current, k>> \notin fmap
    <3>1. old[k] = moved[k]
      BY <2>4
    <3>2. QED
      BY <2>1, <2>4, <3>1
  <2>5. QED
    BY <2>3, <2>4
<1>3. old \in Seq(Record) /\ Len(old) = Len(moved)
  BY <1>1, <1>2
<1>4. new \in Record
  BY DEF TypeOK, Record
<1>5. moved' = Append(old, new)
  BY DEF Become
<1>6. Current = Len(moved) + 1
  BY DEF Current
<1> HIDE DEF old
<1>7. /\ Len(moved') = Len(moved) + 1 /\ moved'[Current] = new
      /\ \A k \in 1..Len(moved) : moved'[k] = old[k]
  BY <1>1, <1>3, <1>4, <1>5, <1>6
<1>8. QED
  BY <1>2, <1>7

\* A step that moves an instruction keeps the meaning of all, if the new
\* one is right or waits, as soon as it is not known to go wrong.
Lands(pad, reaches, intact, refs) ==
  LET r == RefIndex(Target(Current))
  IN /\ intact
     /\ IF Refers(Current)
        THEN \/ r < Current /\ reaches \in moved[r].first .. moved[r].body
             \/ r = Current /\ reaches \in outprx .. outprx + pad
             \/ r > Current /\ <<r, Current>> \in refs
        ELSE reaches = Target(Current)

LEMMA MovesKeepsMeaning ==
  ASSUME MInv, More, IInv', UNCHANGED <<code, base>>,
         NEW pad \in Nat, NEW dat \in Int, NEW reaches \in Int,
         NEW intact \in BOOLEAN, NEW refs,
         Become(pad, dat, reaches, intact), Await(refs),
         Kind # "adrp" => dat \in outprx .. outprx + pad,
         \A f \in refs :
           /\ f[2] = Current
           /\ KnownAt(Current, outprx + pad)
                \/ (Refers(Current) /\ f[1] = RefIndex(Target(Current))),
         Depends(Current) /\ ~KnownAt(Current, outprx + pad)
           => Lands(pad, reaches, intact, refs)
  PROVE  MInv'
<1> DEFINE new == [first |-> outprx, body |-> outprx + pad, dat |-> dat,
                   reaches |-> reaches, intact |-> intact]
<1>1. /\ TypeOK /\ TypeOK' /\ pad \in Int /\ outprx \in Int
      /\ Len(moved) \in Nat /\ Current = Len(moved) + 1
  BY DEF MInv, IInv, TypeOK, Current
<1>2. /\ Len(moved') = Current
      /\ moved'[Current] = new
      /\ \A k \in 1..Len(moved) :
           /\ moved'[k].first = moved[k].first
           /\ moved'[k].body = moved[k].body
           /\ moved'[k].dat = moved[k].dat
           /\ moved'[k].intact = moved[k].intact
           /\ moved'[k].reaches = IF <<Current, k>> \in fmap
                                  THEN dat ELSE moved[k].reaches
  BY <1>1, BecomeFields
<1>3. code' = code /\ base' = base
  OBVIOUS
<1>4. /\ new.first = outprx /\ new.body = outprx + pad /\ new.dat = dat
      /\ new.reaches = reaches /\ new.intact = intact
  OBVIOUS
<1> HIDE DEF new
<1>5. \A k : /\ Target(k)' = Target(k) /\ (Refers(k) <=> Refers(k)')
             /\ RefIndex(Target(k))' = RefIndex(Target(k))
             /\ (Depends(k) <=> Depends(k)')
  BY <1>3 DEF Target, Refers, InCode, RefIndex, Depends, Page, Address
<1>6. \A k \in 1..Len(moved) : Known(k)' <=> Known(k)
  BY <1>2, <1>3, <1>5 DEF Known, ReadUnsigned, LoadsLessFar, UnevenAdr,
     AdrpWithin, LeadsToAdrp, InCode
<1>7. \A k : k = Current => (Known(k)' <=> KnownAt(k, outprx + pad))
  BY <1>2, <1>3, <1>4, <1>5 DEF Known, KnownAt, ReadUnsigned, LoadsLessFar,
     UnevenAdr, AdrpWithin, LeadsToAdrp, InCode
<1>8. \A k \in 1..Len(moved) : k \in 1..Len(moved') /\ k # Current
  BY <1>1, <1>2
<1>9. \A k \in 1..Len(moved') : k \in 1..Len(moved) \/ k = Current
  BY <1>1, <1>2
<1>10. DatIsPlace'
  <2> SUFFICES ASSUME NEW k \in 1..Len(moved'), code[k].kind # "adrp"
               PROVE  moved'[k].dat \in moved'[k].first .. moved'[k].body
    BY <1>3 DEF DatIsPlace
  <2>1. CASE k = Current
    BY <1>2, <1>4, <2>1 DEF Kind
  <2>2. CASE k \in 1..Len(moved)
    BY <1>2, <2>2 DEF MInv, DatIsPlace
  <2>3. QED
    BY <1>9, <2>1, <2>2
<1>11. WaitsForTarget'
  <2> SUFFICES ASSUME NEW f \in fmap', ~Known(f[2])'
               PROVE  Refers(f[2])' /\ f[1] = RefIndex(Target(f[2]))'
    BY DEF WaitsForTarget
  <2>1. CASE f \in fmap
    <3>1. f[2] \in 1..Len(moved)
      BY <1>1, <2>1 DEF TypeOK
    <3>2. ~Known(f[2])
      BY <1>6, <3>1
    <3>3. QED
      BY <1>5, <2>1, <3>2 DEF MInv, WaitsForTarget
  <2>2. CASE f \in refs
    <3>1. f[2] = Current
      BY <2>2
    <3>2. ~KnownAt(Current, outprx + pad)
      BY <1>7, <3>1
    <3>3. QED
      BY <1>5, <2>2, <3>1, <3>2
  <2>3. QED
    BY <2>1, <2>2 DEF Await
<1>12. AllSettled'
  <2> SUFFICES ASSUME NEW k \in 1..Len(moved'), Depends(k), ~Known(k)'
               PROVE  Settled(k)'
    BY <1>5 DEF AllSettled
  <2> DEFINE r == RefIndex(Target(k))
  <2>1. r' = r /\ (Refers(k) <=> Refers(k)') /\ Target(k)' = Target(k)
    BY <1>5
  <2>2. Refers(k) => r \in 1..Len(code)
    <3> SUFFICES ASSUME Refers(k) PROVE r \in 1..Len(code)
      OBVIOUS
    <3>1. Target(k) \in base .. base + Len(code) - 1
      BY DEF Refers, InCode
    <3>2. base \in Int /\ Len(code) \in Nat
      BY <1>1, CodeAssumption DEF TypeOK
    <3>3. QED
      BY <3>1, <3>2 DEF RefIndex
  <2>a. Refers(k) /\ ~Known(k)' => code[r].kind # "adrp"
    BY <1>3, <2>1 DEF Known, LeadsToAdrp
  <2> HIDE DEF r
  <2>3. SUFFICES
          /\ moved'[k].intact
          /\ IF Refers(k)
             THEN IF r <= Len(moved')
                  THEN moved'[k].reaches \in moved'[r].first .. moved'[r].body
                  ELSE <<r, k>> \in fmap'
             ELSE moved'[k].reaches = Target(k)
    BY <2>1 DEF Settled, r
  <2>4. CASE k = Current
    <3>1. Lands(pad, reaches, intact, refs)
      BY <1>7, <2>4
    <3>2. moved'[k].intact = intact /\ moved'[k].reaches = reaches
      BY <1>2, <1>4, <2>4
    <3>3. CASE ~Refers(k)
      BY <2>4, <3>1, <3>2, <3>3 DEF Lands
    <3>4. CASE Refers(k)
      <4>1. \/ r < Current /\ reaches \in moved[r].first .. moved[r].body
            \/ r = Current /\ reaches \in outprx .. outprx + pad
            \/ r > Current /\ <<r, Current>> \in refs
        BY <2>4, <3>1, <3>4 DEF Lands, r
      <4>2. CASE r < Current /\ reaches \in moved[r].first .. moved[r].body
        <5>1. r \in 1..Len(moved) /\ r <= Len(moved')
          BY <1>1, <1>2, <2>2, <3>4, <4>2
        <5>2. QED
          BY <1>2, <2>4, <3>1, <3>2, <3>4, <4>2, <5>1 DEF Lands
      <4>3. CASE r = Current /\ reaches \in outprx .. outprx + pad
        <5>1. r <= Len(moved')
          BY <1>1, <1>2, <4>3
        <5>2. moved'[r].first = outprx /\ moved'[r].body = outprx + pad
          BY <1>2, <1>4, <4>3
        <5>3. intact
          BY <3>1 DEF Lands
        <5>4. QED
          BY <3>2, <3>4, <4>3, <5>1, <5>2, <5>3
      <4>4. CASE r > Current /\ <<r, Current>> \in refs
        <5>1. ~(r <= Len(moved'))
          BY <1>1, <1>2, <2>2, <3>4, <4>4
        <5>2. QED
          BY <2>4, <3>1, <3>2, <3>4, <4>4, <5>1 DEF Lands, Await
      <4>5. QED
        BY <4>1, <4>2, <4>3, <4>4
    <3>5. QED
      BY <3>3, <3>4
  <2>5. CASE k \in 1..Len(moved)
    <3>1. Settled(k)
      BY <1>6, <2>5 DEF MInv, AllSettled
    <3>2. moved'[k].intact
      BY <1>2, <2>5, <3>1 DEF Settled
    <3>3. CASE <<Current, k>> \in fmap
      <4>1. ~Known(k) /\ <<Current, k>>[2] = k /\ <<Current, k>>[1] = Current
        BY <1>6, <2>5
      <4>2. Refers(k) /\ r = Current
        BY <3>3, <4>1 DEF MInv, WaitsForTarget, r
      <4>3. Kind # "adrp"
        BY <2>a, <4>2 DEF Kind
      <4>4. moved'[k].reaches = dat
        BY <1>2, <2>5, <3>3
      <4>5. QED
        BY <1>1, <1>2, <1>4, <3>2, <4>2, <4>3, <4>4
    <3>4. CASE <<Current, k>> \notin fmap
      <4>1. moved'[k].reaches = moved[k].reaches
        BY <1>2, <2>5, <3>4
      <4>2. CASE ~Refers(k)
        BY <3>1, <3>2, <4>1, <4>2 DEF Settled
      <4>3. CASE Refers(k) /\ r <= Len(moved)
        <5>1. r \in 1..Len(moved) /\ r <= Len(moved')
          BY <1>1, <1>2, <2>2, <4>3
        <5>2. QED
          BY <1>2, <3>1, <3>2, <4>1, <4>3, <5>1 DEF Settled, r
      <4>4. CASE Refers(k) /\ ~(r <= Len(moved))
        <5>1. <<r, k>> \in fmap
          BY <3>1, <4>4 DEF Settled, r
        <5>2. r # Current /\ <<r, k>>[1] = r
          BY <3>4, <5>1
        <5>3. ~(r <= Len(moved'))
          BY <1>1, <1>2, <2>2, <4>4, <5>2
        <5>4. <<r, k>> \in fmap'
          BY <5>1, <5>2 DEF Await
        <5>5. QED
          BY <3>2, <4>4, <5>3, <5>4
      <4>5. QED
        BY <4>2, <4>3, <4>4
    <3>5. QED
      BY <3>3, <3>4
  <2>6. QED
    BY <1>9, <2>4, <2>5
<1>13. QED
  BY <1>10, <1>11, <1>12 DEF MInv

\* The three ways in which one more instruction is moved.
LEMMA RangeIsCode ==
  ASSUME TypeOK, NEW a \in Int
  PROVE  IsInFixingRange(a) <=> InCode(a)
<1>1. base \in Int /\ Len(code) \in Nat
  BY CodeAssumption DEF TypeOK
<1>2. QED
  BY <1>1 DEF IsInFixingRange, InCode

LEMMA AloneKeepsMeaning ==
  ASSUME MInv, More, IInv', NEW pad \in Nat, NEW len, NEW dat \in Int,
         NEW reaches \in Int, NEW intact \in BOOLEAN,
         Become(pad, dat, reaches, intact), Await({}), Occupy(len),
         Kind # "adrp" => dat \in outprx .. outprx + pad,
         Depends(Current) /\ ~KnownAt(Current, outprx + pad)
           => intact /\ ~Refers(Current) /\ reaches = Target(Current)
  PROVE  MInv'
<1>1. UNCHANGED <<code, base>>
  BY DEF Occupy
<1>2. \A f \in {} :
        /\ f[2] = Current
        /\ KnownAt(Current, outprx + pad)
             \/ (Refers(Current) /\ f[1] = RefIndex(Target(Current)))
  OBVIOUS
<1>3. Depends(Current) /\ ~KnownAt(Current, outprx + pad)
        => Lands(pad, reaches, intact, {})
  BY DEF Lands
<1>4. QED
  BY <1>1, <1>2, <1>3, MovesKeepsMeaning, Zenon

LEMMA FarKeepsMeaning ==
  ASSUME MInv, More, IInv', NEW pad \in 0..1, NEW len, NEW dat \in Int,
         RewriteFar(pad, len, dat), Kind \notin Literals,
         Kind # "adrp" => dat \in outprx .. outprx + pad
  PROVE  MInv'
<1>1. TypeOK /\ pad \in Nat /\ AbsoluteAddr \in Int /\ TRUE \in BOOLEAN
  BY AddrInt DEF MInv, IInv
<1>2. /\ Become(pad, dat, AbsoluteAddr, TRUE)
      /\ Await({}) /\ Occupy(pad + len) /\ ~IsInFixingRange(AbsoluteAddr)
  BY DEF RewriteFar
<1>3. ASSUME ~KnownAt(Current, outprx + pad)
      PROVE  ~Refers(Current) /\ AbsoluteAddr = Target(Current)
  <2>1. AbsoluteAddr = Target(Current)
    BY <1>1, <1>3, ReadsTarget DEF KnownAt
  <2>2. ~InCode(Target(Current))
    BY <1>1, <1>2, <2>1, RangeIsCode
  <2>3. QED
    BY <2>1, <2>2 DEF Refers
<1>4. QED
  BY <1>1, <1>2, <1>3, AloneKeepsMeaning, Zenon

LEMMA NearKeepsMeaning ==
  ASSUME MInv, More, IInv', NEW intact \in BOOLEAN, RewriteInReach(intact),
         Kind \in Branches \cup Conditionals \cup {"adr"},
         ~KnownAt(Current, outprx) => intact
  PROVE  MInv'
<1> DEFINE a == AbsoluteAddr
           r == RefIndex(a)
           later == IsInFixingRange(a) /\ r > Current
           reaches == IF later THEN outprx
                      ELSE IF IsInFixingRange(a) THEN Dat(r) ELSE a
           refs == IF later THEN {<<r, Current>>} ELSE {}
<1>1. /\ TypeOK /\ a \in Int /\ Current \in 1..Len(code)
      /\ outprx \in Int /\ base \in Int /\ Len(code) \in Nat
      /\ Len(moved) \in Nat /\ Current = Len(moved) + 1
  BY AddrInt, CodeAssumption DEF MInv, IInv, TypeOK, Current
<1>2. IsInFixingRange(a) => r \in 1..Len(code)
  BY <1>1 DEF IsInFixingRange, RefIndex
<1>3. Become(0, outprx, reaches, intact) /\ Await(refs)
      /\ UNCHANGED <<code, base>>
  BY DEF RewriteInReach, Occupy
<1>4. moved \in Seq(Record)
  BY <1>1 DEF TypeOK, Record
<1>5. ASSUME IsInFixingRange(a), ~later, r # Current
      PROVE  r \in 1..Len(moved) /\ Dat(r) = moved[r].dat /\ Dat(r) \in Int
  <2>1. r \in 1..Len(moved)
    BY <1>1, <1>2, <1>5
  <2>2. moved[r] \in Record
    BY <1>4, <2>1
  <2>3. QED
    BY <1>5, <2>1, <2>2 DEF Dat, Record
<1>6. IsInFixingRange(a) /\ r = Current => Dat(r) = outprx
  BY DEF Dat
<1>7. reaches \in Int
  BY <1>1, <1>5, <1>6
<1>8. ~KnownAt(Current, outprx)
        => /\ a = Target(Current)
           /\ Refers(Current) <=> IsInFixingRange(a)
  <2> SUFFICES ASSUME ~KnownAt(Current, outprx)
               PROVE  /\ a = Target(Current)
                      /\ Refers(Current) <=> IsInFixingRange(a)
    OBVIOUS
  <2>1. a = Target(Current)
    BY <1>1, ReadsTarget DEF KnownAt
  <2>2. InCode(Target(Current)) <=> IsInFixingRange(a)
    BY <1>1, <2>1, RangeIsCode
  <2>3. code[Current].kind \notin Literals \cup {"adrp"}
    BY DEF Kind, Branches, Conditionals, Literals
  <2>4. QED
    BY <2>1, <2>2, <2>3 DEF Refers
<1>9. \A f \in refs :
        /\ f[2] = Current
        /\ KnownAt(Current, outprx + 0)
             \/ (Refers(Current) /\ f[1] = RefIndex(Target(Current)))
  <2> SUFFICES ASSUME NEW f \in refs
               PROVE  /\ f[2] = Current
                      /\ KnownAt(Current, outprx + 0)
                           \/ (Refers(Current)
                                /\ f[1] = RefIndex(Target(Current)))
    OBVIOUS
  <2>1. later /\ f[2] = Current /\ f[1] = r
    OBVIOUS
  <2>2. outprx + 0 = outprx
    BY <1>1
  <2>3. QED
    BY <1>8, <2>1, <2>2
<1>10. ASSUME ~KnownAt(Current, outprx + 0)
       PROVE  Lands(0, reaches, intact, refs)
  <2>1. ~KnownAt(Current, outprx) /\ outprx + 0 = outprx
    BY <1>1, <1>10
  <2>2. intact /\ a = Target(Current) /\ r = RefIndex(Target(Current))
        /\ (Refers(Current) <=> IsInFixingRange(a))
    BY <1>8, <2>1
  <2>3. CASE ~IsInFixingRange(a)
    BY <2>2, <2>3 DEF Lands
  <2>4. CASE later
    <3>1. <<r, Current>> \in refs /\ r > Current
      BY <2>4
    <3>2. QED
      BY <2>2, <2>4, <3>1 DEF Lands
  <2>5. CASE IsInFixingRange(a) /\ r = Current
    <3>1. reaches \in outprx .. outprx + 0
      BY <1>1, <1>6, <2>5
    <3>2. QED
      BY <2>2, <2>5, <3>1 DEF Lands
  <2>6. CASE IsInFixingRange(a) /\ ~later /\ r # Current
    <3>1. /\ r \in 1..Len(moved) /\ r < Current
          /\ reaches = moved[r].dat
      BY <1>1, <1>5, <2>6
    <3>2. code[r].kind # "adrp"
      BY <2>1, <2>2, <2>6 DEF KnownAt, LeadsToAdrp
    <3>3. reaches \in moved[r].first .. moved[r].body
      BY <3>1, <3>2 DEF MInv, DatIsPlace
    <3>4. QED
      BY <2>2, <2>6, <3>1, <3>3 DEF Lands
  <2>7. QED
    BY <2>3, <2>4, <2>5, <2>6
<1>11. Kind # "adrp" => outprx \in outprx .. outprx + 0
  BY <1>1
<1>12. 0 \in Nat
  OBVIOUS
<1> HIDE DEF a, r, later, reaches, refs
<1>13. QED
  BY <1>1, <1>3, <1>7, <1>9, <1>10, <1>11, <1>12, MovesKeepsMeaning, Zenon

-----------------------------------------------------------------------------

\* One step per action.
LEMMA NextMInv == MInv /\ [Next]_vars => MInv'
<1> SUFFICES ASSUME MInv, [Next]_vars PROVE MInv'
  OBVIOUS
<1> DEFINE even == outprx % 2
<1>0. IInv' /\ TypeOK /\ outprx \in Int /\ RwDistance \in Int
      /\ even \in 0..1 /\ (outprx + 1) % 2 \in 0..1
  <2>1. IInv /\ IInv'
    BY NextIInv DEF MInv
  <2>2. TypeOK /\ outprx \in Int /\ RwDistance \in Int
    BY <2>1, CodeAssumption DEF IInv, TypeOK
  <2>3. QED
    BY <2>1, <2>2
<1>a. \A p \in Nat : outprx \in outprx .. outprx + p
                    /\ outprx + p \in outprx .. outprx + p
                    /\ outprx + p \in Int
  BY <1>0
<1>b. 0 \in Nat /\ even \in Nat /\ (outprx + 1) % 2 \in Nat
      /\ TRUE \in BOOLEAN
  BY <1>0
<1> HIDE DEF even
<1>1. CASE FixBranchNear
  BY <1>0, <1>1, NearKeepsMeaning, Zenon DEF FixBranchNear
<1>2. CASE FixBranchFar
  <2>1. CASE Kind = "b" /\ RewriteFar(even, 4, outprx + even)
    <3>1. Kind \notin Literals /\ More
      BY <1>2, <2>1 DEF Literals, FixBranchFar
    <3>2. QED
      BY <1>0, <1>a, <1>b, <2>1, <3>1, FarKeepsMeaning, Zenon
  <2>2. CASE Kind = "bl"
             /\ RewriteFar((outprx + 1) % 2, 5, outprx + ((outprx + 1) % 2))
    <3>1. Kind \notin Literals /\ More
      BY <1>2, <2>2 DEF Literals, FixBranchFar
    <3>2. QED
      BY <1>0, <1>a, <1>b, <2>2, <3>1, FarKeepsMeaning, Zenon
  <2>3. QED
    BY <1>2, <2>1, <2>2 DEF FixBranchFar, even
<1>3. CASE FixConditionalNear
  BY <1>0, <1>3, NearKeepsMeaning, Zenon DEF FixConditionalNear
<1>4. CASE FixConditionalFar
  <2>1. Kind \notin Literals /\ More /\ RewriteFar(even, 6, outprx)
    BY <1>4 DEF FixConditionalFar, Conditionals, Literals, even
  <2>2. QED
    BY <1>0, <1>a, <1>b, <2>1, FarKeepsMeaning, Zenon
<1>5. CASE SkipPrefetch
  <2>1. /\ More /\ Become(0, outprx, outprx, TRUE)
        /\ Await({}) /\ Occupy(0) /\ ~Depends(Current)
    BY <1>5 DEF SkipPrefetch, Depends, Kind
  <2>2. QED
    BY <1>0, <1>a, <1>b, <2>1, AloneKeepsMeaning, Zenon
<1>6. CASE CopyLiteral
  <2> DEFINE w == Words(Kind)
             pad == AlignPad(w)
  <2>1. w \in {1, 2, 4}
    BY DEF Words
  <2>2. pad \in 0 .. w - 1
    BY <1>0, <2>1, PadBound DEF AlignPad
  <2>3. pad \in Nat
    BY <2>1, <2>2
  <2>4. /\ More /\ Kind \in Literals
        /\ Become(pad, outprx + pad, AbsoluteAddr, TRUE)
        /\ Await({}) /\ Occupy(pad + 2 + w)
    BY <1>6 DEF CopyLiteral
  <2> HIDE DEF w, pad
  <2>5. AbsoluteAddr \in Int
    BY <1>0, <2>4, AddrInt
  <2>6. ~Refers(Current)
    BY <2>4 DEF Refers, Kind
  <2>7. ~KnownAt(Current, outprx + pad) => AbsoluteAddr = Target(Current)
    BY <1>0, <2>4, ReadsTarget DEF KnownAt
  <2>8. QED
    BY <1>0, <1>a, <1>b, <2>3, <2>4, <2>5, <2>6, <2>7, AloneKeepsMeaning,
       Zenon
<1>7. CASE RewriteLiteral
  <2> DEFINE w == Words(Kind)
             pad == NewPcOffset(0) % w
             intact == NewPcOffset(pad) >= 0 \/ Kind \in {"ldrX", "ldrsw"}
  <2>1. w \in {1, 2, 4} /\ More /\ Kind \in Literals
    BY <1>7 DEF Words, RewriteLiteral
  <2>2. AbsoluteAddr \in Int
    BY <1>0, <2>1, AddrInt
  <2>3. NewPcOffset(0) \in Int
    BY <1>0, <2>2 DEF NewPcOffset
  <2>4. pad \in 0 .. w - 1
    BY <2>1, <2>3, PadBound
  <2>5. /\ Become(pad, outprx + pad, AbsoluteAddr, intact)
        /\ Await({}) /\ Occupy(pad + 1)
    BY <1>7 DEF RewriteLiteral
  <2>6. intact \in BOOLEAN
    OBVIOUS
  <2>7. pad \in Nat
    BY <2>1, <2>4
  <2>8. ~Refers(Current)
    BY <2>1 DEF Refers, Kind
  <2> HIDE DEF w, pad
  <2>9. ~KnownAt(Current, outprx + pad)
          => intact /\ AbsoluteAddr = Target(Current)
    <3> SUFFICES ASSUME ~KnownAt(Current, outprx + pad)
                 PROVE  intact /\ AbsoluteAddr = Target(Current)
      OBVIOUS
    <3>1. AbsoluteAddr = Target(Current)
      BY <1>0, <2>1, ReadsTarget DEF KnownAt
    <3>2. CASE Kind \in {"ldrX", "ldrsw"}
      BY <3>1, <3>2
    <3>3. CASE Kind \notin {"ldrX", "ldrsw"}
      <4>1. ~(Target(Current) < outprx + pad)
        BY <2>1, <3>3 DEF KnownAt, Kind
      <4>2. NewPcOffset(pad) >= 0
        BY <1>0, <2>2, <2>7, <3>1, <4>1 DEF NewPcOffset
      <4>3. QED
        BY <3>1, <4>2
    <3>4. QED
      BY <3>2, <3>3
  <2> HIDE DEF intact
  <2>10. QED
    BY <1>0, <1>a, <2>1, <2>2, <2>5, <2>6, <2>7, <2>8, <2>9,
       AloneKeepsMeaning, Zenon
<1>8. CASE FixAdrNear
  <2> DEFINE intact == IsInFixingRange(AbsoluteAddr) \/ code[Current].low = 0
  <2>1. More /\ Kind = "adr" /\ RewriteInReach(intact)
    BY <1>8 DEF FixAdrNear
  <2>2. ~KnownAt(Current, outprx) => intact
    BY <2>1 DEF KnownAt, UnevenAdr, Kind
  <2>3. intact \in BOOLEAN
    OBVIOUS
  <2> HIDE DEF intact
  <2>4. QED
    BY <1>0, <2>1, <2>2, <2>3, NearKeepsMeaning, Zenon
<1>9. CASE FixAdrFar
  <2>1. Kind \notin Literals /\ More /\ RewriteFar(even, 4, outprx + even)
    BY <1>9 DEF FixAdrFar, Literals, even
  <2>2. QED
    BY <1>0, <1>a, <1>b, <2>1, FarKeepsMeaning, Zenon
<1>10. CASE FixAdrp
  <2> DEFINE dat == IF even = 1 THEN outprx + 1 ELSE outprx + RwDistance
  <2>1. /\ Kind \notin Literals /\ Kind = "adrp" /\ More
        /\ RewriteFar(even, 4, dat)
    BY <1>10 DEF FixAdrp, Literals, even
  <2>2. dat \in Int
    BY <1>0
  <2> HIDE DEF dat
  <2>3. QED
    BY <1>0, <2>1, <2>2, FarKeepsMeaning, Zenon DEF even
<1>11. CASE CopyAdrp
  <2> DEFINE dat == outprx + RwDistance
             to == Page(outprx) + 1024 * code[Current].disp
  <2>1. /\ More /\ Kind = "adrp" /\ Await({}) /\ Occupy(1)
        /\ Become(0, dat, to, TRUE) /\ IsInFixingRange(AbsoluteAddr)
    BY <1>11 DEF CopyAdrp
  <2>2. code[Current].disp \in Int /\ AbsoluteAddr \in Int
    BY <1>0, <2>1, AddrInt DEF Instructions
  <2>3. dat \in Int /\ to \in Int
    BY <1>0, <2>2 DEF Page
  <2> HIDE DEF dat, to
  <2>4. KnownAt(Current, outprx + 0)
    <3> SUFFICES ASSUME ~KnownAt(Current, outprx + 0) PROVE FALSE
      OBVIOUS
    <3>1. AbsoluteAddr = Target(Current)
      BY <1>0, <2>1, ReadsTarget DEF KnownAt
    <3>2. InCode(Target(Current))
      BY <1>0, <2>1, <2>2, <3>1, RangeIsCode
    <3>3. QED
      BY <2>1, <3>2 DEF KnownAt, AdrpWithin, Kind
  <2>5. QED
    BY <1>0, <1>b, <2>1, <2>3, <2>4, AloneKeepsMeaning, Zenon
<1>12. CASE CopyPlain
  <2>1. /\ More /\ Become(0, outprx, outprx, TRUE)
        /\ Await({}) /\ Occupy(1) /\ ~Depends(Current)
    BY <1>12 DEF CopyPlain, Depends, Kind
  <2>2. QED
    BY <1>0, <1>a, <1>b, <2>1, AloneKeepsMeaning, Zenon
<1>13. CASE UNCHANGED <<code, base, moved, fmap>>
  <2>1. \A k : /\ Target(k)' = Target(k) /\ (Refers(k) <=> Refers(k)')
               /\ RefIndex(Target(k))' = RefIndex(Target(k))
               /\ (Depends(k) <=> Depends(k)')
    BY <1>13 DEF Target, Refers, InCode, RefIndex, Depends, Page, Address
  <2>2. \A k : Known(k)' <=> Known(k)
    BY <1>13, <2>1 DEF Known, ReadUnsigned, LoadsLessFar, UnevenAdr,
       AdrpWithin, LeadsToAdrp, InCode
  <2>3. DatIsPlace' /\ WaitsForTarget'
    BY <1>13, <2>1, <2>2 DEF MInv, DatIsPlace, WaitsForTarget
  <2>4. AllSettled'
    BY <1>13, <2>1, <2>2 DEF MInv, AllSettled, Settled
  <2>5. QED
    BY <1>0, <2>3, <2>4 DEF MInv
<1>14. CASE JumpBack
  BY <1>13, <1>14 DEF JumpBack
<1>15. CASE UNCHANGED vars
  BY <1>13, <1>15 DEF vars
<1>16. QED
  BY <1>1, <1>2, <1>3, <1>4, <1>5, <1>6, <1>7, <1>8, <1>9, <1>10, <1>11,
     <1>12, <1>14, <1>15 DEF Next

\* For all code and all places: only an instruction that the code is known
\* to get wrong no longer does what it did.  The form for near or for far,
\* the references that wait in fmap and the NOPs mislead none
\* (__fix_instructions, process_fix_map).
THEOREM OnlyKnownMislead == Spec => []MisledOnlyByKnown
<1>1. Init => MInv
  <2> SUFFICES ASSUME Init PROVE MInv
    OBVIOUS
  <2>1. IInv /\ Len(moved) = 0 /\ fmap = {}
    BY InitIInv DEF Init
  <2>2. QED
    BY <2>1 DEF MInv, DatIsPlace, WaitsForTarget, AllSettled
<1>2. MInv => MisledOnlyByKnown
  <2> SUFFICES ASSUME MInv, Len(moved) = Len(code),
                      NEW k \in 1..Len(code), Depends(k), ~Known(k)
               PROVE  Right(k)
    BY DEF MisledOnlyByKnown
  <2>1. Settled(k)
    BY DEF MInv, AllSettled
  <2>2. Refers(k) => RefIndex(Target(k)) <= Len(moved)
    <3> SUFFICES ASSUME Refers(k)
                 PROVE  RefIndex(Target(k)) <= Len(moved)
      OBVIOUS
    <3>1. Target(k) \in base .. base + Len(code) - 1
      BY DEF Refers, InCode
    <3>2. base \in Int /\ Len(code) \in Nat
      BY CodeAssumption DEF MInv, IInv, TypeOK
    <3>3. QED
      BY <3>1, <3>2 DEF RefIndex
  <2>3. QED
    BY <2>1, <2>2 DEF Settled, Right
<1>3. QED
  BY <1>1, <1>2, NextMInv, PTL DEF Spec
=============================================================================
