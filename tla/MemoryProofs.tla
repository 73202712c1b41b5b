---------------------------- MODULE MemoryProofs ----------------------------
(***************************************************************************)
(* The memory underneath the hook engine, for every choice of the          *)
(* constants: the buffers of jit.c, the searches for free addresses and    *)
(* the patches of code.                                                    *)
(***************************************************************************)
EXTENDS MCMemory, TLAPS

-----------------------------------------------------------------------------
(* The buffers.                                                            *)

\* What the kernel has mapped for a buffer, by its type and what became of it.
Agree(j, m, p, r) ==
  /\ j.src =>
       /\ j.type \in {"JitMemory", "CodeMemory"}
       /\ p \in {"created", "writable", "executable", "half closed"}
  /\ ~j.src => p \in {"none", "refused", "closed"}
  /\ j.src /\ j.type = "JitMemory" =>
       /\ m.open /\ m.lent /\ m.slave /\ m.code = "unmapped"
       /\ p = "half closed" => ~m.owner
       /\ p # "half closed" => m.owner
  /\ j.src /\ j.type = "CodeMemory" =>
       /\ ~m.open /\ ~m.lent /\ ~m.owner /\ ~m.slave
       /\ j.isExecutable => m.code = "executable" /\ p # "writable"
       /\ ~j.isExecutable => p # "executable"
       /\ ~j.isExecutable /\ "permission" \notin r => m.code = "unmapped"
       /\ p # "half closed"
  /\ ~j.src /\ r = {} => ~m.lent /\ ~m.slave /\ m.code = "unmapped"

Sound(b) == Agree(jit[b], memory[b], promise[b], refusal[b])

JitInv == TypeOK /\ \A b \in Buffers : Sound(b)

LEMMA JitInitInv == Init => JitInv
<1> SUFFICES ASSUME Init PROVE JitInv
  OBVIOUS
<1>1. jit \in [Buffers -> Objects]
  BY DEF Init, Objects, Untouched, Types
<1>2. memory \in [Buffers -> Mappings]
  BY DEF Init, Mappings, Unmapped
<1>3. \A b \in Buffers : Sound(b)
  BY DEF Init, Sound, Agree, Untouched, Unmapped
<1> QED BY <1>1, <1>2, <1>3 DEF Init, JitInv, TypeOK

\* A step of one buffer leaves the others alone.
LEMMA JitOthers ==
  ASSUME JitInv, NEW b \in Buffers,
         jit' \in [Buffers -> Objects], memory' \in [Buffers -> Mappings],
         promise' \in [Buffers -> {"none", "refused", "created", "writable", "executable",
                                   "half closed", "closed"}],
         refusal' \in [Buffers -> SUBSET {"permission", "rollback"}],
         kernel' = kernel,
         \A c \in Buffers \ {b} : /\ jit'[c] = jit[c] /\ memory'[c] = memory[c]
                                  /\ promise'[c] = promise[c] /\ refusal'[c] = refusal[c],
         Sound(b)'
  PROVE  JitInv'
<1>1. \A c \in Buffers \ {b} : Sound(c)'
  BY DEF JitInv, Sound
<1>2. \A c \in Buffers : Sound(c)'
  BY <1>1
<1> QED BY <1>2 DEF JitInv, TypeOK

LEMMA JitStepInv == JitInv /\ [Next]_vars => JitInv'
<1> SUFFICES ASSUME JitInv, [Next]_vars PROVE JitInv'
  OBVIOUS
<1>0. CASE UNCHANGED vars
  BY <1>0 DEF vars, JitInv, TypeOK, Sound
<1>1. ASSUME NEW b \in Buffers, CreateUnavailable(b) PROVE JitInv'
  <2> USE DEF CreateUnavailable, Fresh
  <2>1. jit \in [Buffers -> Objects] /\ memory \in [Buffers -> Mappings]
    BY DEF JitInv, TypeOK
  <2>2. jit' \in [Buffers -> Objects]
    BY <1>1, <2>1 DEF Objects, Types
  <2>3. memory' \in [Buffers -> Mappings]
    BY <1>1, <2>1 DEF Mappings, Unmapped
  <2>4. Sound(b)'
    BY <1>1, <2>1 DEF JitInv, TypeOK, Sound, Agree, Objects, Mappings, Unmapped
  <2> QED BY <1>1, <2>1, <2>2, <2>3, <2>4, JitOthers DEF JitInv, TypeOK
<1>2. ASSUME NEW b \in Buffers, CreateCodeMemory(b) PROVE JitInv'
  <2> USE DEF CreateCodeMemory, Fresh, Created, JitTypeFor
  <2>1. jit \in [Buffers -> Objects] /\ memory \in [Buffers -> Mappings]
    BY DEF JitInv, TypeOK
  <2>2. jit' \in [Buffers -> Objects]
    BY <1>2, <2>1 DEF Objects, Types
  <2>3. memory' \in [Buffers -> Mappings]
    BY <1>2, <2>1 DEF Mappings, Unmapped
  <2>4. Sound(b)'
    <3>1. jit'[b] = [type |-> "CodeMemory", src |-> TRUE, isExecutable |-> FALSE]
      BY <1>2, <2>1
    <3>2. memory'[b] = Unmapped /\ promise'[b] = "created"
      BY <1>2, <2>1 DEF JitInv, TypeOK
    <3> QED BY <3>1, <3>2 DEF Sound, Agree, Unmapped
  <2> QED BY <1>2, <2>1, <2>2, <2>3, <2>4, JitOthers DEF JitInv, TypeOK
<1>3. ASSUME NEW b \in Buffers, CreateJitMemory(b) PROVE JitInv'
  <2> USE DEF CreateJitMemory, Fresh, Created, JitTypeFor
  <2>1. jit \in [Buffers -> Objects] /\ memory \in [Buffers -> Mappings]
    BY DEF JitInv, TypeOK
  <2>2. jit' \in [Buffers -> Objects]
    BY <1>3, <2>1 DEF Objects, Types
  <2>3. memory' \in [Buffers -> Mappings]
    BY <1>3, <2>1 DEF Mappings, Unmapped
  <2>4. Sound(b)'
    BY <1>3, <2>1 DEF JitInv, TypeOK, Sound, Agree, Objects, Mappings, Unmapped
  <2> QED BY <1>3, <2>1, <2>2, <2>3, <2>4, JitOthers DEF JitInv, TypeOK
<1>4. ASSUME NEW b \in Buffers, CreateRefused(b) PROVE JitInv'
  <2> USE DEF CreateRefused, Fresh, RolledBack, Closed
  <2>1. jit \in [Buffers -> Objects] /\ memory \in [Buffers -> Mappings]
    BY DEF JitInv, TypeOK
  <2>2. jit' \in [Buffers -> Objects]
    BY <1>4, <2>1 DEF Objects, Types
  <2>3. memory' \in [Buffers -> Mappings]
    BY <1>4, <2>1 DEF Mappings, Unmapped
  <2>4. Sound(b)'
    BY <1>4, <2>1 DEF JitInv, TypeOK, Sound, Agree, Objects, Mappings, Unmapped
  <2> QED BY <1>4, <2>1, <2>2, <2>3, <2>4, JitOthers DEF JitInv, TypeOK
<1>5. ASSUME NEW b \in Buffers, CreateSlaveRefused(b) PROVE JitInv'
  <2> USE DEF CreateSlaveRefused, Fresh, RolledBack, Closed
  <2>1. jit \in [Buffers -> Objects] /\ memory \in [Buffers -> Mappings]
    BY DEF JitInv, TypeOK
  <2>2. jit' \in [Buffers -> Objects]
    BY <1>5, <2>1 DEF Objects, Types
  <2>3. memory' \in [Buffers -> Mappings]
    <3>1. PICK stillOwner \in BOOLEAN :
            memory' = [memory EXCEPT ![b] = Closed([Unmapped EXCEPT !.owner = stillOwner])]
      BY <1>5
    <3>2. Closed([Unmapped EXCEPT !.owner = stillOwner]) \in Mappings
      BY DEF Mappings, Unmapped
    <3> QED BY <2>1, <3>1, <3>2
  <2>4. Sound(b)'
    <3>1. PICK stillOwner \in BOOLEAN :
            /\ RolledBack(b, stillOwner)
            /\ refusal' = [refusal EXCEPT ![b] = IF stillOwner THEN refusal[b] \cup {"rollback"} ELSE refusal[b]]
      BY <1>5
    <3>2. /\ ~jit'[b].src /\ promise'[b] = "refused"
            /\ memory'[b] = Closed([Unmapped EXCEPT !.owner = stillOwner])
            /\ refusal'[b] = IF stillOwner THEN refusal[b] \cup {"rollback"} ELSE refusal[b]
      BY <3>1, <2>1 DEF JitInv, TypeOK
    <3>3. stillOwner => refusal'[b] # {}
      BY <3>2
    <3>4. ~stillOwner => /\ ~memory'[b].lent /\ ~memory'[b].slave
                         /\ memory'[b].code = "unmapped"
      BY <3>2 DEF Unmapped
    <3> QED BY <3>2, <3>3, <3>4 DEF Sound, Agree
  <2>5. PICK stillOwner \in BOOLEAN :
          refusal' = [refusal EXCEPT ![b] = IF stillOwner THEN refusal[b] \cup {"rollback"} ELSE refusal[b]]
    BY <1>5
  <2>6. refusal' \in [Buffers -> SUBSET {"permission", "rollback"}]
    BY <2>5 DEF JitInv, TypeOK
  <2>7. \A c \in Buffers \ {b} : refusal'[c] = refusal[c]
    BY <2>5 DEF JitInv, TypeOK
  <2>8. \A c \in Buffers \ {b} : /\ jit'[c] = jit[c] /\ memory'[c] = memory[c]
                                 /\ promise'[c] = promise[c]
    BY <1>5, <2>1 DEF JitInv, TypeOK
  <2>9. promise' \in [Buffers -> {"none", "refused", "created", "writable", "executable",
                               "half closed", "closed"}]
    BY <1>5 DEF JitInv, TypeOK
  <2>10. kernel' = kernel
    BY <1>5
  <2> QED BY <1>5, <2>1, <2>2, <2>3, <2>4, <2>6, <2>7, <2>8, <2>9, <2>10, JitOthers DEF JitInv, TypeOK
<1>6. ASSUME NEW b \in Buffers, ToWritable(b) PROVE JitInv'
  <2> USE DEF ToWritable, Live
  <2>1. jit \in [Buffers -> Objects] /\ memory \in [Buffers -> Mappings]
    BY DEF JitInv, TypeOK
  <2>2. jit' \in [Buffers -> Objects]
    BY <1>6, <2>1 DEF Objects, Types
  <2>3. memory' \in [Buffers -> Mappings]
    BY <1>6, <2>1 DEF Mappings, Unmapped
  <2>4. Sound(b)'
    <3>0. jit'[b].src /\ jit'[b].type = jit[b].type /\ ~jit'[b].isExecutable
      BY <1>6, <2>1 DEF Objects
    <3>1. promise'[b] = "writable" /\ refusal'[b] = refusal[b]
      BY <1>6 DEF JitInv, TypeOK
    <3>2. /\ memory'[b].open = memory[b].open /\ memory'[b].lent = memory[b].lent
          /\ memory'[b].owner = memory[b].owner /\ memory'[b].slave = memory[b].slave
          /\ memory'[b].code = IF jit[b].type = "CodeMemory" /\ jit[b].isExecutable
                                THEN "unmapped" ELSE memory[b].code
      BY <1>6, <2>1 DEF Mappings
    <3>3. Agree(jit[b], memory[b], promise[b], refusal[b]) /\ jit[b].src /\ promise[b] # "half closed"
      BY <1>6 DEF JitInv, Sound
    <3> QED BY <3>0, <3>1, <3>2, <3>3 DEF Sound, Agree
  <2> QED BY <1>6, <2>1, <2>2, <2>3, <2>4, JitOthers DEF JitInv, TypeOK
<1>7. ASSUME NEW b \in Buffers, ToWritableRefused(b) PROVE JitInv'
  BY <1>0, <1>7 DEF ToWritableRefused
<1>8. ASSUME NEW b \in Buffers, ToExecutable(b) PROVE JitInv'
  <2> USE DEF ToExecutable, Live
  <2>1. jit \in [Buffers -> Objects] /\ memory \in [Buffers -> Mappings]
    BY DEF JitInv, TypeOK
  <2>2. jit' \in [Buffers -> Objects]
    BY <1>8, <2>1 DEF Objects, Types
  <2>3. memory' \in [Buffers -> Mappings]
    BY <1>8, <2>1 DEF Mappings, Unmapped
  <2>4. Sound(b)'
    <3>1. /\ jit'[b].src /\ jit'[b].type = jit[b].type /\ jit'[b].isExecutable
          /\ promise'[b] = "executable" /\ refusal'[b] = refusal[b]
      BY <1>8, <2>1 DEF JitInv, TypeOK, Objects
    <3>2. /\ memory'[b].open = memory[b].open /\ memory'[b].lent = memory[b].lent
          /\ memory'[b].owner = memory[b].owner /\ memory'[b].slave = memory[b].slave
          /\ memory'[b].code = IF jit[b].type = "CodeMemory" /\ ~jit[b].isExecutable
                                THEN "executable" ELSE memory[b].code
      BY <1>8, <2>1 DEF Mappings
    <3>3. Agree(jit[b], memory[b], promise[b], refusal[b]) /\ jit[b].src /\ promise[b] # "half closed"
      BY <1>8 DEF JitInv, Sound
    <3> QED BY <3>1, <3>2, <3>3 DEF Sound, Agree
  <2> QED BY <1>8, <2>1, <2>2, <2>3, <2>4, JitOthers DEF JitInv, TypeOK
<1>9. ASSUME NEW b \in Buffers, ToExecutableRefused(b) PROVE JitInv'
  BY <1>0, <1>9 DEF ToExecutableRefused
<1>10. ASSUME NEW b \in Buffers, ToExecutablePermissionRefused(b) PROVE JitInv'
  <2> USE DEF ToExecutablePermissionRefused, Live
  <2>1. jit \in [Buffers -> Objects] /\ memory \in [Buffers -> Mappings]
    BY DEF JitInv, TypeOK
  <2>2. jit' \in [Buffers -> Objects]
    BY <1>10, <2>1 DEF Objects, Types
  <2>3. memory' \in [Buffers -> Mappings]
    BY <1>10, <2>1 DEF Mappings, Unmapped
  <2>4. Sound(b)'
    <3>1. /\ jit'[b] = jit[b] /\ promise'[b] = "created"
          /\ "permission" \in refusal'[b]
      BY <1>10, <2>1 DEF JitInv, TypeOK
    <3>2. /\ memory'[b].open = memory[b].open /\ memory'[b].lent = memory[b].lent
          /\ memory'[b].owner = memory[b].owner /\ memory'[b].slave = memory[b].slave
      BY <1>10, <2>1 DEF Mappings
    <3>3. /\ Agree(jit[b], memory[b], promise[b], refusal[b])
          /\ jit[b].src /\ jit[b].type = "CodeMemory" /\ ~jit[b].isExecutable
      BY <1>10 DEF JitInv, Sound
    <3> QED BY <3>1, <3>2, <3>3 DEF Sound, Agree
  <2> QED BY <1>10, <2>1, <2>2, <2>3, <2>4, JitOthers DEF JitInv, TypeOK
<1>11. ASSUME NEW b \in Buffers, CloseCodeMemory(b) PROVE JitInv'
  <2> USE DEF CloseCodeMemory, Live, Free
  <2>1. jit \in [Buffers -> Objects] /\ memory \in [Buffers -> Mappings]
    BY DEF JitInv, TypeOK
  <2>2. jit' \in [Buffers -> Objects]
    BY <1>11, <2>1 DEF Objects, Types
  <2>3. memory' \in [Buffers -> Mappings]
    BY <1>11, <2>1 DEF Mappings, Unmapped
  <2>4. Sound(b)'
    <3>1. /\ ~jit'[b].src /\ promise'[b] = "closed" /\ refusal'[b] = refusal[b]
      BY <1>11, <2>1 DEF JitInv, TypeOK, Objects
    <3>2. /\ memory'[b].lent = memory[b].lent /\ memory'[b].slave = memory[b].slave
          /\ memory'[b].code = IF jit[b].isExecutable THEN "unmapped" ELSE memory[b].code
      BY <1>11, <2>1 DEF Mappings
    <3>3. /\ Agree(jit[b], memory[b], promise[b], refusal[b])
          /\ jit[b].src /\ jit[b].type = "CodeMemory"
      BY <1>11 DEF JitInv, Sound
    <3> QED BY <3>1, <3>2, <3>3 DEF Sound, Agree
  <2> QED BY <1>11, <2>1, <2>2, <2>3, <2>4, JitOthers DEF JitInv, TypeOK
<1>12. ASSUME NEW b \in Buffers, CloseJitMemory(b) PROVE JitInv'
  <2> USE DEF CloseJitMemory, CanUnmapOwner, CanUnmapSlave, Closed
  <2>1. jit \in [Buffers -> Objects] /\ memory \in [Buffers -> Mappings]
    BY DEF JitInv, TypeOK
  <2>2. jit' \in [Buffers -> Objects]
    BY <1>12, <2>1 DEF Objects, Types
  <2>3. memory' \in [Buffers -> Mappings]
    BY <1>12, <2>1 DEF Mappings, Unmapped
  <2>4. Sound(b)'
    <3>1. /\ ~jit'[b].src /\ promise'[b] = "closed"
      BY <1>12, <2>1 DEF JitInv, TypeOK, Objects
    <3>2. /\ memory'[b].lent = FALSE /\ memory'[b].slave = FALSE
          /\ memory'[b].code = memory[b].code
      BY <1>12, <2>1 DEF Mappings
    <3>3. /\ Agree(jit[b], memory[b], promise[b], refusal[b])
          /\ jit[b].src /\ jit[b].type = "JitMemory"
      BY <1>12 DEF JitInv, Sound
    <3> QED BY <3>1, <3>2, <3>3 DEF Sound, Agree
  <2> QED BY <1>12, <2>1, <2>2, <2>3, <2>4, JitOthers DEF JitInv, TypeOK
<1>13. ASSUME NEW b \in Buffers, CloseSlaveRefused(b) PROVE JitInv'
  <2> USE DEF CloseSlaveRefused, CanUnmapOwner
  <2>1. jit \in [Buffers -> Objects] /\ memory \in [Buffers -> Mappings]
    BY DEF JitInv, TypeOK
  <2>2. jit' \in [Buffers -> Objects]
    BY <1>13, <2>1 DEF Objects, Types
  <2>3. memory' \in [Buffers -> Mappings]
    BY <1>13, <2>1 DEF Mappings, Unmapped
  <2>4. Sound(b)'
    BY <1>13, <2>1 DEF JitInv, TypeOK, Sound, Agree, Objects, Mappings, Unmapped
  <2> QED BY <1>13, <2>1, <2>2, <2>3, <2>4, JitOthers DEF JitInv, TypeOK
<1>14. ASSUME NEW b \in Buffers, CloseRefused(b) PROVE JitInv'
  BY <1>0, <1>14 DEF CloseRefused
<1>15. ASSUME NEW b \in Buffers, CloseAgain(b) PROVE JitInv'
  BY <1>0, <1>15 DEF CloseAgain
<1> QED BY <1>0, <1>1, <1>2, <1>3, <1>4, <1>5, <1>6, <1>7, <1>8, <1>9, <1>10, <1>11, <1>12, <1>13, <1>14, <1>15 DEF Next

LEMMA JitInvariance == Spec => []JitInv
BY JitInitInv, JitStepInv, PTL DEF Spec

\* Every variable of the buffers keeps its type.
THEOREM JitTypes == Spec => []TypeOK
<1>1. JitInv => TypeOK
  BY DEF JitInv
<1> QED BY <1>1, JitInvariance, PTL

\* For any number of buffers, in any order of calls and refusals: a transition
\* that succeeds has done what it says, but for the one case that a permission
\* was refused.
THEOREM SuccessIsKept == Spec => []SuccessHolds
<1>1. JitInv => SuccessHolds
  BY DEF JitInv, TypeOK, Sound, Agree, SuccessHolds, WritableUnlessPermissionRefused,
         ExecutableMeansExecutable, CanWrite, CanRun
<1> QED BY <1>1, JitInvariance, PTL

\* Memory given back to the heap is whole, for any number of buffers.
THEOREM HeapIsWhole == Spec => []HeapComesBackWhole
<1>1. JitInv => HeapComesBackWhole
  BY DEF JitInv, Sound, Agree, HeapComesBackWhole
<1> QED BY <1>1, JitInvariance, PTL

\* A jitClose that failed half way can never be completed.
THEOREM HalfClosedStays == Spec => HalfClosedForGood
<1>1. JitInv /\ JitInv' /\ [Next]_vars =>
        [\A b \in Buffers :
           promise[b] = "half closed" =>
             promise'[b] = "half closed" /\ jit'[b].src /\ memory'[b].lent]_vars
  <2> SUFFICES ASSUME JitInv, JitInv', Next, NEW c \in Buffers, promise[c] = "half closed"
               PROVE  promise'[c] = "half closed" /\ jit'[c].src /\ memory'[c].lent
    OBVIOUS
  <2>1. promise'[c] = "half closed"
    <3>1. Sound(c) /\ jit[c].src /\ jit[c].type = "JitMemory" /\ ~memory[c].owner
      BY DEF JitInv, Sound, Agree
    <3> USE <3>1 DEF JitInv, TypeOK
    <3>2. ASSUME NEW b \in Buffers, CreateUnavailable(b) PROVE promise'[c] = "half closed"
      BY <3>2 DEF CreateUnavailable, Fresh
    <3>3. ASSUME NEW b \in Buffers, CreateCodeMemory(b) PROVE promise'[c] = "half closed"
      BY <3>3 DEF CreateCodeMemory, Fresh, Created
    <3>4. ASSUME NEW b \in Buffers, CreateJitMemory(b) PROVE promise'[c] = "half closed"
      BY <3>4 DEF CreateJitMemory, Fresh, Created
    <3>5. ASSUME NEW b \in Buffers, CreateRefused(b) PROVE promise'[c] = "half closed"
      BY <3>5 DEF CreateRefused, Fresh, RolledBack
    <3>6. ASSUME NEW b \in Buffers, CreateSlaveRefused(b) PROVE promise'[c] = "half closed"
      BY <3>6 DEF CreateSlaveRefused, Fresh, RolledBack
    <3>7. ASSUME NEW b \in Buffers, ToWritable(b) PROVE promise'[c] = "half closed"
      BY <3>7 DEF ToWritable, Live
    <3>8. ASSUME NEW b \in Buffers, ToWritableRefused(b) PROVE promise'[c] = "half closed"
      BY <3>8 DEF ToWritableRefused, vars
    <3>9. ASSUME NEW b \in Buffers, ToExecutable(b) PROVE promise'[c] = "half closed"
      BY <3>9 DEF ToExecutable, Live
    <3>10. ASSUME NEW b \in Buffers, ToExecutableRefused(b) PROVE promise'[c] = "half closed"
      BY <3>10 DEF ToExecutableRefused, vars
    <3>11. ASSUME NEW b \in Buffers, ToExecutablePermissionRefused(b) PROVE promise'[c] = "half closed"
      BY <3>11 DEF ToExecutablePermissionRefused, Live
    <3>12. ASSUME NEW b \in Buffers, CloseCodeMemory(b) PROVE promise'[c] = "half closed"
      BY <3>12 DEF CloseCodeMemory, Live
    <3>13. ASSUME NEW b \in Buffers, CloseJitMemory(b) PROVE promise'[c] = "half closed"
      BY <3>13 DEF CloseJitMemory, CanUnmapOwner
    <3>14. ASSUME NEW b \in Buffers, CloseSlaveRefused(b) PROVE promise'[c] = "half closed"
      BY <3>14 DEF CloseSlaveRefused, CanUnmapOwner
    <3>15. ASSUME NEW b \in Buffers, CloseRefused(b) PROVE promise'[c] = "half closed"
      BY <3>15 DEF CloseRefused, vars
    <3>16. ASSUME NEW b \in Buffers, CloseAgain(b) PROVE promise'[c] = "half closed"
      BY <3>16 DEF CloseAgain, vars
    <3> QED BY <3>2, <3>3, <3>4, <3>5, <3>6, <3>7, <3>8, <3>9, <3>10, <3>11, <3>12, <3>13, <3>14, <3>15, <3>16 DEF Next
  <2> QED BY <2>1 DEF JitInv, Sound, Agree
<1> QED BY <1>1, JitInvariance, PTL DEF Spec, HalfClosedForGood

-----------------------------------------------------------------------------
(* Addresses: types.                                                       *)

LEMMA PagesType == \A f \in Finders : Pages(f) \in Nat \ {0}
BY SpaceAssumption DEF Finders, Pages, Patcher, Engine

LEMMA RegionType == \A i \in DOMAIN Regions : Regions[i].start \in Nat /\ Regions[i].end \in Nat
<1> DEFINE Region == [start : Nat, end : Nat]
<1>1. Regions \in Seq(Region)
  BY SpaceAssumption
<1> HIDE DEF Region
<1>2. \A i \in DOMAIN Regions : Regions[i] \in Region
  BY <1>1
<1> QED BY <1>2 DEF Region

LEMMA FindersApart ==
  /\ "game" \notin Finders /\ "free" \notin Finders
  /\ \A r \in Reservers : r # Patcher /\ r # Engine /\ r \in Finders /\ Pages(r) = Wanted[r]
  /\ Patcher \in Finders /\ Engine \in Finders
BY SpaceAssumption DEF Finders, Patcher, Engine, Pages

\* Every variable of the searches keeps its type.
THEOREM SpaceTypes == SpaceSpec => []SpaceTypeOK
<1> USE DEF SpaceTypeOK
<1>1. SpaceInit => SpaceTypeOK
  <2>1. SpaceInit => taken \in [Space -> Finders \cup {"game", "free"}]
    BY DEF SpaceInit
  <2>2. SpaceInit => finder \in [Finders -> {"idle", "searching", "found", "mapped", "refused", "failed"}]
    BY DEF SpaceInit
  <2>3. SpaceInit => addr \in [Finders -> Int] /\ robbed \subseteq Finders
    BY DEF SpaceInit
  <2>4. SpaceInit => g_VirtMemMutex \in Reservers \cup {"free"}
    BY DEF SpaceInit
  <2>5. SpaceInit => g_CurrentAddr \in Nat
    BY DEF SpaceInit
  <2>6. SpaceInit => wrapped \in BOOLEAN
    BY Zenon DEF SpaceInit
  <2> QED BY <2>1, <2>2, <2>3, <2>4, <2>5, <2>6
<1>2. SpaceTypeOK /\ [SpaceNext]_spaceVars => SpaceTypeOK'
  <2> SUFFICES ASSUME SpaceTypeOK, [SpaceNext]_spaceVars PROVE SpaceTypeOK'
    OBVIOUS
  <2>0. CASE UNCHANGED spaceVars
    BY <2>0 DEF spaceVars
  <2>1. ASSUME NEW r \in Reservers, Reserve(r) PROVE SpaceTypeOK'
    BY <2>1, PagesType, RegionType, FindersApart, SpaceAssumption DEF Reserve
  <2>2. ASSUME NEW r \in Reservers, ReservePassBlock(r) PROVE SpaceTypeOK'
    BY <2>2, PagesType, RegionType, FindersApart, SpaceAssumption DEF ReservePassBlock, BlockEnd, NextPage, Space
  <2>3. ASSUME NEW r \in Reservers, ReservePassRegion(r) PROVE SpaceTypeOK'
    BY <2>3, PagesType, RegionType, FindersApart, SpaceAssumption DEF ReservePassRegion, NextPage, ReservedAt
  <2>4. ASSUME NEW r \in Reservers, ReserveFind(r) PROVE SpaceTypeOK'
    BY <2>4, PagesType, RegionType, FindersApart, SpaceAssumption DEF ReserveFind, NextPage, Fits, Space
  <2>5. CASE Locate
    BY <2>5, PagesType, RegionType, FindersApart, SpaceAssumption DEF Locate
  <2>6. CASE LocatePass
    <3>1. PICK a \in Int : addr' = [addr EXCEPT ![Patcher] = a]
      <4>1. CASE \E i \in Overlaps(addr[Patcher], 1) : addr' = [addr EXCEPT ![Patcher] = Regions[i].end]
        <5>1. PICK i \in DOMAIN Regions : addr' = [addr EXCEPT ![Patcher] = Regions[i].end]
          BY <4>1 DEF Overlaps, Avoided
        <5>2. Regions[i].end \in Int
          BY RegionType
        <5> QED BY <5>1, <5>2
      <4>2. CASE \E e \in BlockEnd(addr[Patcher]) : addr' = [addr EXCEPT ![Patcher] = e]
        <5>1. PICK e \in (addr[Patcher] + 1)..Size : addr' = [addr EXCEPT ![Patcher] = e]
          BY <4>2 DEF BlockEnd
        <5>2. e \in Int
          BY <5>1, FindersApart, SpaceAssumption
        <5> QED BY <5>1, <5>2
      <4> QED BY <2>6, <4>1, <4>2 DEF LocatePass
    <3> QED BY <2>6, <3>1 DEF LocatePass
  <2>7. CASE LocateFind
    BY <2>7, PagesType, RegionType, FindersApart, SpaceAssumption DEF LocateFind
  <2>8. CASE LocateFails
    BY <2>8, PagesType, RegionType, FindersApart, SpaceAssumption DEF LocateFails
  <2>9. CASE EngineLook
    <3>1. Text - PoolPages \in Int
      BY SpaceAssumption DEF Space
    <3> QED BY <2>9, <3>1 DEF EngineLook
  <2>10. CASE EngineFind
    BY <2>10, PagesType, RegionType, FindersApart, SpaceAssumption DEF EngineFind, Pools, BlockEnd
  <2>11. CASE EnginePass
    BY <2>11, PagesType, RegionType, FindersApart, SpaceAssumption DEF EnginePass
  <2>12. ASSUME NEW f \in Finders, Map(f) PROVE SpaceTypeOK'
    BY <2>12, PagesType, RegionType, FindersApart, SpaceAssumption DEF Map, Rob
  <2>13. ASSUME NEW f \in Finders, MapRefused(f) PROVE SpaceTypeOK'
    BY <2>13, PagesType, RegionType, FindersApart, SpaceAssumption DEF MapRefused
  <2>14. ASSUME NEW f \in Finders, Unmap(f) PROVE SpaceTypeOK'
    BY <2>14, PagesType, RegionType, FindersApart, SpaceAssumption DEF Unmap, Patcher
  <2>15. ASSUME NEW p \in Space, GameMap(p) PROVE SpaceTypeOK'
    BY <2>15, PagesType, RegionType, FindersApart, SpaceAssumption DEF GameMap, Rob
  <2>16. ASSUME NEW p \in Space, GameUnmap(p) PROVE SpaceTypeOK'
    BY <2>16, PagesType, RegionType, FindersApart, SpaceAssumption DEF GameUnmap
  <2> QED BY <2>0, <2>1, <2>2, <2>3, <2>4, <2>5, <2>6, <2>7, <2>8, <2>9, <2>10, <2>11, <2>12, <2>13, <2>14, <2>15, <2>16 DEF SpaceNext, Search, EngineSearch
<1> QED BY <1>1, <1>2, PTL DEF SpaceSpec

-----------------------------------------------------------------------------
(* Addresses: what is found stays free unless somebody takes it.           *)

RobbedInv ==
  /\ \A f \in Finders : HasFound(f) => addr[f] >= 0 /\ addr[f] + Pages(f) <= Size
  /\ \A f \in Finders : finder[f] = "found" /\ f \notin robbed => \A p \in Found(f) : IsFree(p)
  /\ RefusedOnlyWhenRobbed

\* A finder that searches on.
LEMMA PassesOn ==
  ASSUME SpaceTypeOK, RobbedInv, NEW f \in Finders, NEW a \in Int, finder[f] = "searching",
         addr' = [addr EXCEPT ![f] = a], UNCHANGED <<taken, finder, robbed>>
  PROVE  RobbedInv'
<1>1. \A g \in Finders : HasFound(g)' => HasFound(g) /\ addr'[g] = addr[g]
  BY DEF SpaceTypeOK, HasFound
<1> QED BY <1>1 DEF RobbedInv, RefusedOnlyWhenRobbed, HasFound, Found, Run, IsFree

\* A finder that has found pages that fit.
LEMMA FindsFree ==
  ASSUME SpaceTypeOK, RobbedInv, NEW f \in Finders, NEW a \in Nat, Fits(a, Pages(f)),
         addr' = [addr EXCEPT ![f] = a], finder' = [finder EXCEPT ![f] = "found"],
         taken' = taken, (robbed' = robbed) \/ (robbed' = robbed \ {f})
  PROVE  RobbedInv'
<1>1. addr'[f] = a /\ finder'[f] = "found"
  BY DEF SpaceTypeOK
<1>2. \A g \in Finders \ {f} : /\ addr'[g] = addr[g] /\ finder'[g] = finder[g]
                               /\ g \in robbed' <=> g \in robbed
  BY DEF SpaceTypeOK
<1>3. \A p \in Found(f)' : IsFree(p)'
  BY <1>1 DEF Found, Run, Fits, IsFree
<1>4. addr'[f] >= 0 /\ addr'[f] + Pages(f) <= Size
  BY <1>1 DEF Fits
<1>5. \A g \in Finders \ {f} :
        /\ HasFound(g)' => addr'[g] >= 0 /\ addr'[g] + Pages(g) <= Size
        /\ finder'[g] = "found" /\ g \notin robbed' => \A p \in Found(g)' : IsFree(p)'
        /\ finder'[g] = "refused" => g \in robbed'
  BY <1>2 DEF RobbedInv, RefusedOnlyWhenRobbed, HasFound, Found, Run, IsFree
<1> QED BY <1>1, <1>3, <1>4, <1>5 DEF RobbedInv, RefusedOnlyWhenRobbed, HasFound

LEMMA RobbedInvariance == SpaceSpec => []RobbedInv
<1>1. SpaceInit => RobbedInv
  BY DEF SpaceInit, RobbedInv, HasFound, RefusedOnlyWhenRobbed
<1>2. SpaceTypeOK /\ RobbedInv /\ [SpaceNext]_spaceVars => RobbedInv'
  <2> SUFFICES ASSUME SpaceTypeOK, RobbedInv, [SpaceNext]_spaceVars PROVE RobbedInv'
    OBVIOUS
  <2> USE DEF SpaceTypeOK, RobbedInv, RefusedOnlyWhenRobbed, HasFound, Found, Run, IsFree
  <2>0. CASE UNCHANGED spaceVars
    BY <2>0 DEF spaceVars
  <2>1. ASSUME NEW r \in Reservers, Reserve(r) PROVE RobbedInv'
    BY <2>1, PagesType, FindersApart, SpaceAssumption DEF Reserve
  <2>2. ASSUME NEW r \in Reservers, ReservePassBlock(r) PROVE RobbedInv'
    <3>1. PICK e \in BlockEnd(NextPage(r)) : addr' = [addr EXCEPT ![r] = e]
      BY <2>2 DEF ReservePassBlock
    <3>2. NextPage(r) \in Int
      BY SpaceAssumption, FindersApart DEF NextPage, Space
    <3>3. e \in Int
      BY <3>1, <3>2, SpaceAssumption DEF BlockEnd
    <3>4. finder[r] = "searching" /\ r \in Finders /\ UNCHANGED <<taken, finder, robbed>>
      BY <2>2, FindersApart DEF ReservePassBlock
    <3> HIDE DEF SpaceTypeOK, RobbedInv
    <3> QED BY <3>1, <3>3, <3>4, PassesOn
  <2>3. ASSUME NEW r \in Reservers, ReservePassRegion(r) PROVE RobbedInv'
    BY <2>3, PagesType, FindersApart, SpaceAssumption DEF ReservePassRegion, NextPage, ReservedAt
  <2>4. ASSUME NEW r \in Reservers, ReserveFind(r) PROVE RobbedInv'
    BY <2>4, PagesType, FindersApart, SpaceAssumption DEF ReserveFind, NextPage, Fits, Space
  <2>5. CASE Locate
    BY <2>5, PagesType, FindersApart, SpaceAssumption DEF Locate
  <2>6. CASE LocatePass
    BY <2>6, PagesType, FindersApart, SpaceAssumption DEF LocatePass, Overlaps, Avoided, BlockEnd, Space
  <2>7. CASE LocateFind
    <3>1. addr[Patcher] \in Nat /\ Pages(Patcher) = 1
      BY <2>7, SpaceAssumption DEF LocateFind, Space, Pages
    <3>2. addr' = [addr EXCEPT ![Patcher] = addr[Patcher]]
      BY <2>7 DEF LocateFind
    <3>3. /\ Patcher \in Finders /\ Fits(addr[Patcher], Pages(Patcher))
          /\ finder' = [finder EXCEPT ![Patcher] = "found"]
          /\ taken' = taken /\ robbed' = robbed \ {Patcher}
      BY <2>7, <3>1, FindersApart DEF LocateFind
    <3> HIDE DEF SpaceTypeOK, RobbedInv
    <3> QED BY <3>1, <3>2, <3>3, FindsFree
  <2>8. CASE LocateFails
    BY <2>8, PagesType, FindersApart, SpaceAssumption DEF LocateFails
  <2>9. CASE EngineLook
    BY <2>9, PagesType, FindersApart, SpaceAssumption DEF EngineLook
  <2>10. CASE EngineFind
    <3>1. Pages(Engine) = PoolPages /\ PoolPages \in Nat /\ Size \in Nat
      BY SpaceAssumption DEF Pages, Engine, Patcher, Space
    <3>2. PICK e \in Pools : addr' = [addr EXCEPT ![Engine] = e - PoolPages]
      BY <2>10 DEF EngineFind
    <3>3. e \in Int /\ e >= PoolPages /\ Fits(e - PoolPages, PoolPages)
      BY <2>10, <3>1, SpaceAssumption DEF Pools, BlockEnd, EngineFind, Space
    <3>4. e - PoolPages \in Nat
      BY <3>1, <3>3
    <3> HIDE DEF SpaceTypeOK, RobbedInv
    <3> QED BY <2>10, <3>1, <3>2, <3>3, <3>4, FindersApart, FindsFree DEF EngineFind
  <2>11. CASE EnginePass
    BY <2>11, PagesType, FindersApart, SpaceAssumption DEF EnginePass
  <2>12. ASSUME NEW f \in Finders, Map(f) PROVE RobbedInv'
    <3>1. /\ finder[f] = "found" /\ addr' = addr /\ finder' = [finder EXCEPT ![f] = "mapped"]
          /\ \A p \in Space \ Found(f) : taken'[p] = taken[p]
          /\ robbed' = (robbed \ {f}) \cup
                {g \in Finders \ {f} : finder[g] = "found" /\ Found(g) \cap Found(f) # {}}
      BY <2>12 DEF Map, Rob
    <3>2. finder'[f] = "mapped" /\ \A g \in Finders \ {f} : finder'[g] = finder[g]
      BY <3>1
    <3>3. ASSUME NEW g \in Finders \ {f}, finder[g] = "found", g \notin robbed'
          PROVE  \A p \in Found(g) : taken'[p] = "free"
      <4>1. Found(g) \cap Found(f) = {} /\ \A p \in Found(g) : taken[p] = "free"
        BY <3>1, <3>3
      <4>2. Found(g) \subseteq Space
        BY <3>3, PagesType, SpaceAssumption DEF Space
      <4> QED BY <3>1, <4>1, <4>2
    <3>4. \A g \in Finders : finder'[g] = "refused" => g \in robbed'
      BY <3>1, <3>2
    <3>5. \A g \in Finders : HasFound(g)' => addr'[g] >= 0 /\ addr'[g] + Pages(g) <= Size
      BY <3>1, <3>2
    <3> QED BY <3>1, <3>2, <3>3, <3>4, <3>5
  <2>13. ASSUME NEW f \in Finders, MapRefused(f) PROVE RobbedInv'
    BY <2>13, PagesType, FindersApart, SpaceAssumption DEF MapRefused
  <2>14. ASSUME NEW f \in Finders, Unmap(f) PROVE RobbedInv'
    <3>1. /\ finder[f] = "mapped" /\ addr' = addr /\ robbed' = robbed
          /\ \A p \in Space : taken'[p] = IF p \in Found(f) THEN "free" ELSE taken[p]
          /\ finder' = [finder EXCEPT ![f] = IF f = Patcher THEN "idle" ELSE "found"]
      BY <2>14 DEF Unmap
    <3>2. /\ finder'[f] \in {"idle", "found"}
          /\ \A g \in Finders \ {f} : finder'[g] = finder[g]
      BY <3>1
    <3>3. ASSUME NEW g \in Finders, HasFound(g)
          PROVE  Found(g) \subseteq Space
      BY <3>3, PagesType, SpaceAssumption DEF Space
    <3>4. ASSUME NEW g \in Finders, finder'[g] = "found", g \notin robbed'
          PROVE  \A p \in Found(g) : taken'[p] = "free"
      <4>1. CASE g = f
        BY <3>1, <3>3, <4>1
      <4>2. CASE g # f
        BY <3>1, <3>2, <3>3, <3>4, <4>2
      <4> QED BY <4>1, <4>2
    <3>5. \A g \in Finders : finder'[g] = "refused" => g \in robbed'
      BY <3>1, <3>2
    <3>6. \A g \in Finders : HasFound(g)' => addr'[g] >= 0 /\ addr'[g] + Pages(g) <= Size
      BY <3>1, <3>2
    <3> QED BY <3>1, <3>4, <3>5, <3>6
  <2>15. ASSUME NEW p \in Space, GameMap(p) PROVE RobbedInv'
    BY <2>15, PagesType, FindersApart, SpaceAssumption DEF GameMap, Rob
  <2>16. ASSUME NEW p \in Space, GameUnmap(p) PROVE RobbedInv'
    BY <2>16, PagesType, FindersApart, SpaceAssumption DEF GameUnmap
  <2> QED BY <2>0, <2>1, <2>2, <2>3, <2>4, <2>5, <2>6, <2>7, <2>8, <2>9, <2>10, <2>11, <2>12, <2>13, <2>14, <2>15, <2>16 DEF SpaceNext, Search, EngineSearch
<1> QED BY <1>1, <1>2, SpaceTypes, PTL DEF SpaceSpec

\* However the threads and the game interleave, and wherever the regions are:
\* only a mapping of somebody else makes the kernel refuse what was found.
THEOREM RefusedMeansRobbed == SpaceSpec => []RefusedOnlyWhenRobbed
<1>1. RobbedInv => RefusedOnlyWhenRobbed
  BY DEF RobbedInv
<1> QED BY <1>1, RobbedInvariance, PTL

-----------------------------------------------------------------------------
(* Addresses: reservations.  Only its own search moves one.                *)

Stays ==
  /\ \A r \in Reservers :
       /\ addr'[r] = addr[r]
       /\ HasFound(r)' => HasFound(r)
       /\ finder'[r] = "searching" => finder[r] = "searching"
  /\ UNCHANGED <<g_VirtMemMutex, g_CurrentAddr, wrapped>>

LEMMA OthersKeep ==
  ASSUME SpaceTypeOK, [SpaceNext]_spaceVars, ~ \E r \in Reservers : Reserve(r) \/ Search(r)
  PROVE  Stays
<1> USE FindersApart DEF Stays, SpaceTypeOK, HasFound
<1>0. CASE UNCHANGED spaceVars
  BY <1>0 DEF spaceVars
<1>1. CASE Locate
  BY <1>1 DEF Locate
<1>2. CASE LocatePass
  <2>1. PICK a : addr' = [addr EXCEPT ![Patcher] = a]
    BY <1>2 DEF LocatePass
  <2> QED BY <1>2, <2>1 DEF LocatePass
<1>3. CASE LocateFind
  BY <1>3 DEF LocateFind
<1>4. CASE LocateFails
  BY <1>4 DEF LocateFails
<1>5. CASE EngineLook
  BY <1>5 DEF EngineLook
<1>6. CASE EngineFind
  BY <1>6 DEF EngineFind
<1>7. CASE EnginePass
  BY <1>7 DEF EnginePass
<1>8. ASSUME NEW f \in Finders, Map(f) PROVE Stays
  BY <1>8 DEF Map
<1>9. ASSUME NEW f \in Finders, MapRefused(f) PROVE Stays
  BY <1>9 DEF MapRefused
<1>10. ASSUME NEW f \in Finders, Unmap(f) PROVE Stays
  BY <1>10 DEF Unmap
<1>11. ASSUME NEW p \in Space, GameMap(p) \/ GameUnmap(p) PROVE Stays
  BY <1>11 DEF GameMap, GameUnmap
<1> QED
  BY <1>0, <1>1, <1>2, <1>3, <1>4, <1>5, <1>6, <1>7, <1>8, <1>9, <1>10, <1>11
  DEF SpaceNext, EngineSearch

OutsideInv == \A r \in Reservers : HasFound(r) => ReservedAt(addr[r], Wanted[r]) = {}

LEMMA OutsideInvariance == SpaceSpec => []OutsideInv
<1>1. SpaceInit => OutsideInv
  BY FindersApart DEF SpaceInit, OutsideInv, HasFound
<1>2. SpaceTypeOK /\ OutsideInv /\ [SpaceNext]_spaceVars => OutsideInv'
  <2> SUFFICES ASSUME SpaceTypeOK, OutsideInv, [SpaceNext]_spaceVars PROVE OutsideInv'
    OBVIOUS
  <2> USE FindersApart
  <2>1. ASSUME NEW r \in Reservers, Reserve(r) PROVE OutsideInv'
    BY <2>1 DEF Reserve, OutsideInv, HasFound, SpaceTypeOK
  <2>2. ASSUME NEW r \in Reservers, ReservePassBlock(r) \/ ReservePassRegion(r) PROVE OutsideInv'
    <3>1. PICK a : addr' = [addr EXCEPT ![r] = a]
      BY <2>2 DEF ReservePassBlock, ReservePassRegion
    <3>2. finder' = finder /\ finder[r] = "searching"
      BY <2>2 DEF ReservePassBlock, ReservePassRegion
    <3> QED BY <3>1, <3>2 DEF OutsideInv, HasFound, SpaceTypeOK
  <2>3. ASSUME NEW r \in Reservers, ReserveFind(r) PROVE OutsideInv'
    <3>1. ReservedAt(NextPage(r), Wanted[r]) = {}
      BY <2>3 DEF ReserveFind
    <3>2. addr' = [addr EXCEPT ![r] = NextPage(r)] /\ finder' = [finder EXCEPT ![r] = "found"]
      BY <2>3 DEF ReserveFind
    <3> QED BY <3>1, <3>2 DEF OutsideInv, HasFound, SpaceTypeOK
  <2>4. CASE ~ \E r \in Reservers : Reserve(r) \/ Search(r)
    BY <2>4, OthersKeep DEF OutsideInv, Stays
  <2> QED BY <2>1, <2>2, <2>3, <2>4 DEF Search
<1> QED BY <1>1, <1>2, SpaceTypes, PTL DEF SpaceSpec

\* A range whose two ends are outside of a region that is not smaller.
LEMMA EndsOutside ==
  ASSUME NEW a \in Int, NEW n \in Nat \ {0}, NEW s \in Nat, NEW e \in Nat, e - s >= n,
         ~(s <= a /\ a < e), ~(s <= a + n - 1 /\ a + n - 1 < e)
  PROVE  (a..(a + n - 1)) \cap (s..(s + (e - s) - 1)) = {}
OBVIOUS

\* A reservation does not touch a reserved region of its size or larger,
\* wherever the regions are and in whatever order the blocks come.
THEOREM ReservationsAreOutside == SpaceSpec => []ReservationsOutside
<1>1. SpaceTypeOK /\ OutsideInv => ReservationsOutside
  <2> SUFFICES ASSUME SpaceTypeOK, OutsideInv, NEW r \in Reservers, NEW i \in DOMAIN Regions,
                      HasFound(r), Regions[i].end - Regions[i].start >= Wanted[r]
               PROVE  Found(r) \cap Run(Regions[i].start, Regions[i].end - Regions[i].start) = {}
    BY DEF ReservationsOutside
  <2>1. addr[r] \in Int /\ Wanted[r] \in Nat \ {0}
    BY FindersApart, SpaceAssumption DEF SpaceTypeOK
  <2>2. i \notin ReservedAt(addr[r], Wanted[r])
    BY DEF OutsideInv
  <2>3. /\ ~(Regions[i].start <= addr[r] /\ addr[r] < Regions[i].end)
        /\ ~(Regions[i].start <= addr[r] + Wanted[r] - 1 /\ addr[r] + Wanted[r] - 1 < Regions[i].end)
    BY <2>2 DEF ReservedAt, InRegion
  <2>4. (addr[r]..(addr[r] + Wanted[r] - 1)) \cap
          (Regions[i].start..(Regions[i].start + (Regions[i].end - Regions[i].start) - 1)) = {}
    BY <2>1, <2>3, RegionType, EndsOutside
  <2> QED BY <2>4, FindersApart DEF Found, Run
<1> QED BY <1>1, OutsideInvariance, SpaceTypes, PTL

-----------------------------------------------------------------------------
(* Addresses: the order of the reservations.                               *)

Below(r) == addr[r] + Wanted[r] <= g_CurrentAddr
ApartInv ==
  ~wrapped =>
    /\ \A r \in Reservers : HasFound(r) => Below(r)
    /\ \A r \in Reservers :
         finder[r] = "searching" => g_VirtMemMutex = r /\ addr[r] >= g_CurrentAddr
    /\ \A r, s \in Reservers : r # s /\ HasFound(r) /\ HasFound(s) => Found(r) \cap Found(s) = {}

\* The page a search looks at next is behind the reservations so far.
LEMMA NextIsBehind ==
  ASSUME SpaceTypeOK, ApartInv, NEW r \in Reservers, finder[r] = "searching",
         ~(wrapped \/ NextPage(r) = 0)
  PROVE  ~wrapped /\ NextPage(r) \in Nat /\ NextPage(r) > g_CurrentAddr
<1>1. ~wrapped /\ NextPage(r) # 0
  OBVIOUS
<1>2. addr[r] >= g_CurrentAddr
  BY <1>1 DEF ApartInv
<1>3. NextPage(r) = addr[r] + 1
  BY <1>1 DEF NextPage
<1>4. addr[r] \in Int /\ g_CurrentAddr \in Nat
  BY FindersApart DEF SpaceTypeOK
<1> QED BY <1>1, <1>2, <1>3, <1>4

\* A search that goes on behind the page it has looked at.
LEMMA GoesOn ==
  ASSUME SpaceTypeOK, ApartInv, NEW r \in Reservers, finder[r] = "searching",
         wrapped' = (wrapped \/ NextPage(r) = 0), NEW e \in Int, e >= NextPage(r),
         addr' = [addr EXCEPT ![r] = e],
         UNCHANGED <<g_VirtMemMutex, g_CurrentAddr, finder>>
  PROVE  ApartInv'
<1> SUFFICES ASSUME ~wrapped' PROVE ApartInv'
  BY DEF ApartInv
<1>1. ~wrapped /\ NextPage(r) \in Nat /\ NextPage(r) > g_CurrentAddr
  BY NextIsBehind
<1>2. addr'[r] = e /\ \A s \in Reservers \ {r} : addr'[s] = addr[s]
  BY FindersApart DEF SpaceTypeOK
<1>3. e >= g_CurrentAddr
  BY <1>1 DEF SpaceTypeOK
<1>4. \A s \in Reservers : HasFound(s)' => s # r /\ HasFound(s) /\ addr'[s] = addr[s]
  BY <1>2 DEF HasFound
<1> QED BY <1>1, <1>2, <1>3, <1>4 DEF ApartInv, Below, Found, Run

LEMMA ApartInvariance == SpaceSpec => []ApartInv
<1>1. SpaceInit => ApartInv
  BY FindersApart DEF SpaceInit, ApartInv, HasFound
<1>2. SpaceTypeOK /\ ApartInv /\ [SpaceNext]_spaceVars => ApartInv'
  <2> SUFFICES ASSUME SpaceTypeOK, ApartInv, [SpaceNext]_spaceVars PROVE ApartInv'
    OBVIOUS
  <2> USE FindersApart
  <2>1. ASSUME NEW r \in Reservers, Reserve(r) PROVE ApartInv'
    <3>1. /\ addr'[r] = g_CurrentAddr /\ finder'[r] = "searching" /\ g_VirtMemMutex' = r
          /\ \A s \in Reservers \ {r} : addr'[s] = addr[s] /\ finder'[s] = finder[s]
          /\ g_CurrentAddr' = g_CurrentAddr /\ wrapped' = wrapped
      BY <2>1 DEF Reserve, SpaceTypeOK
    <3>2. ~wrapped => \A s \in Reservers : finder[s] # "searching"
      BY <2>1 DEF Reserve, ApartInv
    <3>3. \A s \in Reservers : HasFound(s)' => s # r /\ HasFound(s)
      BY <3>1 DEF HasFound
    <3> QED BY <3>1, <3>2, <3>3 DEF ApartInv, Below, Found, Run, SpaceTypeOK
  <2>2. ASSUME NEW r \in Reservers, ReservePassBlock(r) PROVE ApartInv'
    <3>1. PICK e \in BlockEnd(NextPage(r)) : addr' = [addr EXCEPT ![r] = e]
      BY <2>2 DEF ReservePassBlock
    <3>2. NextPage(r) \in Int
      BY SpaceAssumption DEF NextPage, SpaceTypeOK
    <3>3. e \in Int /\ e >= NextPage(r)
      BY <3>1, <3>2, SpaceAssumption DEF BlockEnd
    <3>4. /\ finder[r] = "searching" /\ wrapped' = (wrapped \/ NextPage(r) = 0)
          /\ UNCHANGED <<g_VirtMemMutex, g_CurrentAddr, finder>>
      BY <2>2, Zenon DEF ReservePassBlock
    <3> QED BY <3>1, <3>3, <3>4, GoesOn
  <2>3. ASSUME NEW r \in Reservers, ReservePassRegion(r) PROVE ApartInv'
    <3>1. PICK i \in ReservedAt(NextPage(r), Wanted[r]) : addr' = [addr EXCEPT ![r] = Regions[i].end]
      BY <2>3 DEF ReservePassRegion
    <3>2. NextPage(r) \in Int /\ Wanted[r] \in Nat \ {0}
      BY SpaceAssumption DEF NextPage, SpaceTypeOK
    <3>3. /\ i \in DOMAIN Regions
          /\ NextPage(r) < Regions[i].end \/ NextPage(r) + Wanted[r] - 1 < Regions[i].end
      BY <3>1 DEF ReservedAt, InRegion
    <3>4. Regions[i].end \in Int /\ Regions[i].end >= NextPage(r)
      BY <3>2, <3>3, RegionType
    <3>5. /\ finder[r] = "searching" /\ wrapped' = (wrapped \/ NextPage(r) = 0)
          /\ UNCHANGED <<g_VirtMemMutex, g_CurrentAddr, finder>>
      BY <2>3, Zenon DEF ReservePassRegion
    <3> QED BY <3>1, <3>4, <3>5, GoesOn
  <2>4. ASSUME NEW r \in Reservers, ReserveFind(r) PROVE ApartInv'
    <3> SUFFICES ASSUME ~wrapped' PROVE ApartInv'
      BY DEF ApartInv
    <3>1. finder[r] = "searching" /\ wrapped' = (wrapped \/ NextPage(r) = 0)
      BY <2>4, Zenon DEF ReserveFind
    <3>2. ~wrapped /\ NextPage(r) \in Nat /\ NextPage(r) > g_CurrentAddr
      BY <3>1, NextIsBehind
    <3>3. /\ addr' = [addr EXCEPT ![r] = NextPage(r)] /\ finder' = [finder EXCEPT ![r] = "found"]
          /\ g_CurrentAddr' = NextPage(r) + Wanted[r] /\ g_VirtMemMutex' = "free"
      BY <2>4 DEF ReserveFind
    <3>4. /\ addr'[r] = NextPage(r) /\ finder'[r] = "found"
          /\ \A s \in Reservers \ {r} :
               /\ addr'[s] = addr[s] /\ finder'[s] = finder[s] /\ HasFound(s)' = HasFound(s)
      BY <3>3 DEF SpaceTypeOK, HasFound
    <3>5. \A s \in Reservers : Wanted[s] \in Nat \ {0} /\ addr[s] \in Int
      BY SpaceAssumption DEF SpaceTypeOK
    <3>6. \A s \in Reservers \ {r} : finder'[s] # "searching"
      BY <3>1, <3>2, <3>4 DEF ApartInv
    <3>7. \A s \in Reservers \ {r} : HasFound(s)' => addr'[s] + Wanted[s] <= g_CurrentAddr
      BY <3>2, <3>4 DEF ApartInv, Below
    <3>8. g_CurrentAddr \in Nat
      BY DEF SpaceTypeOK
    <3>9. \A s \in Reservers : HasFound(s)' => Below(s)'
      BY <3>2, <3>3, <3>4, <3>5, <3>7, <3>8 DEF Below
    <3>10. \A s \in Reservers \ {r} : HasFound(s)' => Found(r)' \cap Found(s)' = {}
      BY <3>2, <3>4, <3>5, <3>7, <3>8 DEF Found, Run
    <3>11. \A s, t \in Reservers \ {r} :
             s # t /\ HasFound(s)' /\ HasFound(t)' => Found(s)' \cap Found(t)' = {}
      BY <3>2, <3>4 DEF ApartInv, Found
    <3> QED BY <3>4, <3>6, <3>9, <3>10, <3>11 DEF ApartInv
  <2>5. CASE ~ \E r \in Reservers : Reserve(r) \/ Search(r)
    <3>1. Stays
      BY <2>5, OthersKeep
    <3> QED BY <3>1 DEF ApartInv, Stays, Below, Found
  <2> QED BY <2>1, <2>2, <2>3, <2>4, <2>5 DEF Search
<1> QED BY <1>1, <1>2, SpaceTypes, PTL DEF SpaceSpec

\* Two buffers never get the same pages before a search has wrapped, though
\* nothing but g_CurrentAddr remembers what was given out.
THEOREM ReservationsAreApart == SpaceSpec => []ReservationsApart
<1>1. ApartInv => ReservationsApart
  BY DEF ApartInv, ReservationsApart
<1> QED BY <1>1, ApartInvariance, PTL

-----------------------------------------------------------------------------
(* Patches: what a hook leaves in the caches.                              *)

Both(lines) == unflushed \subseteq lines /\ stale \subseteq lines
HookInv ==
  /\ patch \in Hooks \cup Patches
  /\ patch.kind = "hook" =>
       /\ patch \in Hooks
       /\ step \in {"start", "claimed", "flushed", "unclaimed"} => Both({})
       /\ step = "written" => Both(Lines(patch.at, patch.size))

LEMMA LinesGrow ==
  ASSUME NEW at \in Nat, NEW m \in Nat, NEW n \in Nat, m <= n
  PROVE  Lines(at, m) \subseteq Lines(at, n)
<1>1. at..(at + m - 1) \subseteq at..(at + n - 1)
  OBVIOUS
<1> QED BY <1>1, Zenon DEF Lines

LEMMA HooksAreFlushed ==
  ASSUME NEW p \in Hooks
  PROVE  Lines(p.at, Written(p)) \subseteq Lines(p.at, p.size)
<1>1. p.at \in Entries /\ p.size \in {4, 20}
  BY DEF Hooks
<1>2. \A at \in Entries : at \in Nat
  BY PatchAssumption
<1>3. Written(p) = p.size \/ (p.size = 20 /\ Written(p) = 16)
  BY Zenon DEF Written
<1> QED BY <1>1, <1>2, <1>3, LinesGrow

\* The four words of an aligned patch and the five of any other are all in the
\* lines that A64HookFunctionV flushes: a hook that is finished is in force.
THEOREM HooksAreInForce == PatchSpec => []HooksReachTheCode
<1>1. PatchInit => HookInv
  BY PatchAssumption DEF PatchInit, HookInv, Both, Hooks
<1>2. HookInv /\ [PatchNext]_patchVars => HookInv'
  <2> SUFFICES ASSUME HookInv, [PatchNext]_patchVars PROVE HookInv'
    OBVIOUS
  <2>0. CASE UNCHANGED patchVars
    BY <2>0 DEF patchVars, HookInv, Both
  <2>1. CASE Claim
    BY <2>1 DEF Claim, HookInv, Both
  <2>2. CASE Write
    <3>1. /\ patch' = patch /\ step' \in {"written", "fault"}
          /\ unflushed' = Lines(patch.at, Written(patch))
      BY <2>2 DEF Write
    <3>2. patch.kind = "hook" => stale' \subseteq Lines(patch.at, Written(patch))
      BY <2>2 DEF Write
    <3>3. patch.kind = "hook" => Both(Lines(patch.at, patch.size))'
      BY <3>1, <3>2, HooksAreFlushed DEF Both, HookInv
    <3> QED BY <3>1, <3>3 DEF HookInv, Both
  <2>3. CASE WriteBack
    <3>1. patch' = patch /\ step' = step /\ unflushed' \subseteq unflushed /\ stale' = stale
      BY <2>3 DEF WriteBack
    <3> QED BY <3>1 DEF HookInv, Both
  <2>4. CASE FlushHook
    <3>1. /\ patch' = patch /\ step = "written" /\ step' = "flushed" /\ patch.kind = "hook"
          /\ unflushed' = unflushed \ Lines(patch.at, patch.size)
          /\ stale' = stale \ Lines(patch.at, patch.size)
      BY <2>4 DEF FlushHook, Flushed
    <3>2. unflushed' = {} /\ stale' = {}
      BY <3>1 DEF HookInv, Both
    <3> QED BY <3>1, <3>2 DEF HookInv, Both
  <2>5. CASE Unclaim
    <3>1. /\ patch' = patch /\ step' = "unclaimed" /\ (patch.kind = "hook" => step = "flushed")
          /\ unflushed' \subseteq unflushed /\ stale' \subseteq stale
      BY <2>5 DEF Unclaim, Flushed
    <3> QED BY <3>1 DEF HookInv, Both
  <2> QED BY <2>0, <2>1, <2>2, <2>3, <2>4, <2>5 DEF PatchNext
<1>3. HookInv => HooksReachTheCode
  BY DEF HookInv, HooksReachTheCode, Both
<1> QED BY <1>1, <1>2, <1>3, PTL DEF PatchSpec

\* The pages that are mapped for a patch have room for one page at least.
LEMMA AlignUpIsAPage ==
  ASSUME NEW n \in Nat \ {0}
  PROVE  AlignUp(n) >= Page
<1> DEFINE q == (n + Page - 1) \div Page
<1>1. Page \in Nat \ {0}
  BY PatchAssumption
<1>2. n + Page - 1 \in Nat /\ n + Page - 1 >= Page
  BY <1>1
<1>3. q \in Nat /\ q >= 1
  <2> DEFINE m == n + Page - 1
  <2>1. m \in Nat /\ m >= Page
    BY <1>2
  <2> HIDE DEF m
  <2>2. m \div Page \in Int /\ m < ((m \div Page) + 1) * Page
    BY <1>1, <2>1
  <2>3. ASSUME m \div Page <= 0
        PROVE  FALSE
    <3>1. ((m \div Page) + 1) * Page <= Page
      BY <1>1, <2>2, <2>3
    <3>2. QED
      BY <1>1, <2>1, <2>2, <3>1
  <2>4. QED
    BY <2>2, <2>3 DEF m
<1> HIDE DEF q
<1>4. q * Page >= Page
  BY <1>1, <1>3
<1>5. QED
  BY <1>4 DEF AlignUp, q

\* A hook claims five words and may be written at the last multiple of 16 of a
\* page, because the far patch of a function that is aligned has only four.
LEMMA HooksFit ==
  ASSUME FunctionsAreAligned, NEW p \in Hooks
  PROVE  p.at + 8 <= Page /\ p.at + Written(p) <= Page /\ p.size \in Nat \ {0}
<1> DEFINE at == p.at
<1>1. at \in Entries /\ p.size \in {4, 20} /\ p.kind = "hook"
  BY DEF Hooks
<1>2. Page \in Nat \ {0} /\ at \in 0..(Page - 1)
  BY <1>1, PatchAssumption
<1>3. Page % 16 = 0 /\ at % 16 = 0
  BY <1>1 DEF FunctionsAreAligned
<1> HIDE DEF at
<1>4. at + 16 <= Page
  BY <1>2, <1>3, SMTT(30)
<1>5. (at + 8) % 8 = 0
  BY <1>2, <1>3, SMTT(30)
<1>6. Written(p) \in {4, 16}
  BY <1>1, <1>5 DEF Written, at
<1>7. QED
  BY <1>1, <1>2, <1>4, <1>6 DEF at

\* Neither claim nor the stores leave the mapped pages: what is asked is Inside
\* of a patch that is under way.
THEOREM PatchesAreMapped ==
  FunctionsAreAligned /\ PatchesEndInTheirPage /\ PatchSpec => []PatchesStayMapped
<1> SUFFICES ASSUME FunctionsAreAligned, PatchesEndInTheirPage
             PROVE  PatchSpec => []PatchesStayMapped
  OBVIOUS
<1> DEFINE FitsPage(p) == p.at + 8 <= Page /\ p.at + Written(p) <= Page /\ p.size \in Nat \ {0}
           FitInv == step # "fault" /\ patch \in Hooks \cup Patches
<1>1. ASSUME FitInv
      PROVE  Inside(8) /\ Inside(Written(patch))
  <2>1. FitsPage(patch)
    <3>1. CASE patch \in Hooks
      BY <1>1, <3>1, HooksFit
    <3>2. CASE patch \in Patches
      <4>1. patch.kind # "hook" /\ patch.size \in Nat \ {0}
        BY <3>2, PatchAssumption
      <4>2. Written(patch) = patch.size
        BY <4>1 DEF Written
      <4>3. QED
        BY <1>1, <3>2, <4>1, <4>2 DEF PatchesEndInTheirPage
    <3>3. QED
      BY <1>1, <3>1, <3>2
  <2>2. AlignUp(patch.size) >= Page /\ AlignUp(patch.size) \in Int /\ Page \in Nat
    <3>1. Page \in Nat \ {0} /\ patch.size \in Nat \ {0}
      BY <2>1, PatchAssumption
    <3>2. QED
      BY <3>1, AlignUpIsAPage DEF AlignUp
  <2>3. patch.at \in Nat /\ Written(patch) \in Nat
    <3>1. patch.at \in Nat
      <4>1. patch.at \in 0..(Page - 1)
        <5>1. CASE patch \in Hooks
          BY <5>1, PatchAssumption DEF Hooks
        <5>2. CASE patch \in Patches
          BY <5>2, PatchAssumption
        <5>3. QED
          BY <1>1, <5>1, <5>2
      <4>2. QED
        BY <4>1
    <3>2. patch.size \in Nat
      BY <2>1
    <3>3. QED
      BY <3>1, <3>2 DEF Written
  <2>4. QED
    BY <2>1, <2>2, <2>3 DEF Inside
<1>2. PatchInit => FitInv
  BY DEF PatchInit
<1>3. FitInv /\ [PatchNext]_patchVars => FitInv'
  <2> SUFFICES ASSUME FitInv, [PatchNext]_patchVars
               PROVE  FitInv'
    OBVIOUS
  <2>1. Inside(8) /\ Inside(Written(patch))
    BY <1>1
  <2>2. patch' = patch
    BY DEF patchVars, PatchNext, Claim, Write, WriteBack, FlushHook, Unclaim
  <2>3. step' # "fault"
    BY <2>1 DEF patchVars, PatchNext, Claim, Write, WriteBack, FlushHook, Unclaim
  <2>4. QED
    BY <2>2, <2>3
<1>4. FitInv => PatchesStayMapped
  BY DEF PatchesStayMapped
<1>5. QED
  BY <1>2, <1>3, <1>4, PTL DEF PatchSpec

-----------------------------------------------------------------------------
(* The buffers, the searches and the patches side by side.                 *)

\* None of the three takes a step that another could not take alone.
LEMMA MemoryParts ==
  MemorySpec => Spec /\ SpaceSpec /\ PatchSpec
<1>1. MemoryInit => Init /\ SpaceInit /\ PatchInit
  BY DEF MemoryInit
<1>2. [MemoryNext]_memoryVars
        => [Next]_vars /\ [SpaceNext]_spaceVars /\ [PatchNext]_patchVars
  BY DEF MemoryNext, memoryVars, notSpace
<1>3. QED
  BY <1>1, <1>2, PTL DEF MemorySpec, Spec, SpaceSpec, PatchSpec

\* What the memory underneath the engine promises, all of it at once and for the
\* patches of the program, whose offsets TLC has looked at (ProgramAssumption).
THEOREM MemoryIsRight ==
  MemorySpec => /\ [](SuccessHolds /\ HeapComesBackWhole)
                /\ [](RefusedOnlyWhenRobbed /\ ReservationsApart /\ ReservationsOutside)
                /\ [](PatchesStayMapped /\ HooksReachTheCode)
<1>1. PatchSpec => []PatchesStayMapped
  BY ProgramAssumption, PatchesAreMapped
<1>2. QED
  BY <1>1, MemoryParts, SuccessIsKept, HeapIsWhole, RefusedMeansRobbed,
     ReservationsAreApart, ReservationsAreOutside, HooksAreInForce, PTL
=============================================================================
