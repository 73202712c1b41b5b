---------------------------- MODULE SystemProofs ----------------------------
(***************************************************************************)
(* What is asked of the system: the double test of g_VersionCached is      *)
(* sound, and the answers of detectJitKernelPatch hold, for any number of  *)
(* threads; what is counted of a request is what is written, for any       *)
(* number of buffers.                                                      *)
(***************************************************************************)
EXTENDS MCSystem, TLAPS, FiniteSetTheorems

(* detectKernelVersion.                                                    *)

\* Of g_Version after the versions below n have been tried.
Reached(n) == IF n <= kernel THEN n ELSE kernel

CachedIsWhole == g_VersionCached => g_Version = kernel

\* What a place in the code tells about the shared variables.
VersionPlacesTell == \A t \in Threads :
  /\ versionAt[t] \in {"read", "unlock"} => g_VersionCached
  /\ versionAt[t] \in {"probe", "publish"} => ~g_VersionCached
  /\ versionAt[t] = "publish" => g_Version = kernel
  /\ versionAt[t] = "probe" /\ probe # 1 => g_Version = Reached(probe - 1)

VersionIInv == VersionTypeOK /\ CachedIsWhole /\ VersionPlacesTell /\ AnswersAreWhole

LEMMA VersionInitIInv == VersionInit => VersionIInv
<1> SUFFICES ASSUME VersionInit PROVE VersionIInv
  OBVIOUS
<1>1. \A t \in Threads : versionOwner # {t} /\ versionAt[t] = "idle" /\ version[t] = 0
  BY DEF VersionInit
<1>2. \A t \in Threads : versionAt[t] \notin VersionHolding
  BY <1>1 DEF VersionHolding
<1>3. versionAt \in [Threads -> VersionPlaces] /\ version \in [Threads -> 0..6]
  BY DEF VersionInit, VersionPlaces
<1>4. kernel \in Versions /\ probe \in Versions /\ g_Version \in 0..6
  BY DEF VersionInit, Versions
<1>5. g_VersionCached = FALSE /\ versionOwner \subseteq Threads
  BY DEF VersionInit
<1>6. VersionTypeOK
  BY <1>1, <1>2, <1>3, <1>4, <1>5 DEF VersionTypeOK
<1> QED BY <1>1, <1>5, <1>6 DEF VersionIInv, CachedIsWhole, VersionPlacesTell, AnswersAreWhole

LEMMA VersionNextType == VersionTypeOK /\ [VersionNext]_versionVars => VersionTypeOK'
<1> SUFFICES ASSUME VersionTypeOK, [VersionNext]_versionVars PROVE VersionTypeOK'
  OBVIOUS
<1>1. ASSUME NEW t \in Threads, CallVersion(t) PROVE VersionTypeOK'
  BY <1>1 DEF CallVersion, VersionTypeOK, VersionGoto, VersionPlaces, VersionHolding
<1>2. ASSUME NEW t \in Threads, LockVersion(t) PROVE VersionTypeOK'
  BY <1>2 DEF LockVersion, VersionTypeOK, VersionGoto, VersionPlaces, VersionHolding
<1>3. ASSUME NEW t \in Threads, TestVersionAgain(t) PROVE VersionTypeOK'
  <2>1. /\ versionAt[t] = "test again"
        /\ versionAt' = [versionAt EXCEPT ![t] = "unlock"] \/ versionAt' = [versionAt EXCEPT ![t] = "probe"]
    BY <1>3 DEF TestVersionAgain, VersionGoto
  <2>2. versionAt' \in [Threads -> VersionPlaces] /\ \A u \in Threads : versionOwner = {u} <=> versionAt'[u] \in VersionHolding
    BY <2>1 DEF VersionTypeOK, VersionPlaces, VersionHolding
  <2>3. probe' = probe \/ probe' = 1
    BY <1>3 DEF TestVersionAgain
  <2>4. probe' \in Versions
    BY <2>3 DEF VersionTypeOK, Versions
  <2> QED BY <1>3, <2>2, <2>4 DEF TestVersionAgain, VersionTypeOK
<1>4. ASSUME NEW t \in Threads, ProbeVersion(t) PROVE VersionTypeOK'
  <2>1. probe \in 1..6 /\ g_Version \in 0..6
    BY DEF VersionTypeOK, Versions
  <2>2. g_Version' = probe \/ g_Version' = g_Version
    BY <1>4 DEF ProbeVersion
  <2>3. g_Version' \in 0..6
    BY <2>1, <2>2
  <2>4. \/ probe = 6 /\ probe' = probe /\ versionAt' = [versionAt EXCEPT ![t] = "publish"]
        \/ probe # 6 /\ probe' = probe + 1 /\ versionAt' = versionAt
    BY <1>4 DEF ProbeVersion, VersionGoto
  <2>5. probe' \in Versions
    BY <2>1, <2>4 DEF Versions
  <2>6. versionAt[t] = "probe"
    BY <1>4 DEF ProbeVersion
  <2>7. versionAt' \in [Threads -> VersionPlaces] /\ \A u \in Threads : versionOwner = {u} <=> versionAt'[u] \in VersionHolding
    BY <2>4, <2>6 DEF VersionTypeOK, VersionPlaces, VersionHolding
  <2> QED BY <1>4, <2>3, <2>5, <2>7 DEF ProbeVersion, VersionTypeOK
<1>5. ASSUME NEW t \in Threads, PublishVersion(t) PROVE VersionTypeOK'
  BY <1>5 DEF PublishVersion, VersionTypeOK, VersionGoto, VersionPlaces, VersionHolding
<1>6. ASSUME NEW t \in Threads, UnlockVersion(t) PROVE VersionTypeOK'
  BY <1>6 DEF UnlockVersion, VersionTypeOK, VersionGoto, VersionPlaces, VersionHolding
<1>7. ASSUME NEW t \in Threads, ReturnVersion(t) PROVE VersionTypeOK'
  BY <1>7 DEF ReturnVersion, VersionTypeOK, VersionGoto, VersionPlaces, VersionHolding
<1>8. CASE UNCHANGED versionVars
  BY <1>8 DEF versionVars, VersionTypeOK
<1> QED BY <1>1, <1>2, <1>3, <1>4, <1>5, <1>6, <1>7, <1>8 DEF VersionNext, VersionStep

LEMMA VersionNextIInv == VersionIInv /\ [VersionNext]_versionVars => VersionIInv'
<1> SUFFICES ASSUME VersionIInv, [VersionNext]_versionVars PROVE VersionIInv'
  OBVIOUS
<1> VersionTypeOK'
  BY VersionNextType DEF VersionIInv
<1> USE DEF VersionIInv, CachedIsWhole, VersionPlacesTell, AnswersAreWhole, VersionGoto
<1>1. ASSUME NEW t \in Threads, CallVersion(t) PROVE VersionIInv'
  BY <1>1 DEF CallVersion, VersionTypeOK, Reached, VersionHolding
<1>2. ASSUME NEW t \in Threads, LockVersion(t) PROVE VersionIInv'
  BY <1>2 DEF LockVersion, VersionTypeOK, Reached
<1>3. ASSUME NEW t \in Threads, TestVersionAgain(t) PROVE VersionIInv'
  BY <1>3 DEF TestVersionAgain, VersionTypeOK, Reached, VersionHolding
<1>4. ASSUME NEW t \in Threads, ProbeVersion(t) PROVE VersionIInv'
  <2>1. versionAt[t] = "probe" /\ versionOwner = {t}
    BY <1>4 DEF ProbeVersion, VersionTypeOK, VersionHolding
  <2>2. \A u \in Threads : u # t => versionAt[u] \notin VersionHolding
    BY <2>1 DEF VersionTypeOK
  <2>3. /\ ~g_VersionCached /\ ~g_VersionCached'
        /\ kernel' = kernel /\ version' = version
    BY <1>4, <2>1 DEF ProbeVersion
  <2>4. g_Version' = Reached(probe)
    BY <1>4, <2>1 DEF ProbeVersion, VersionTypeOK, Reached, Versions
  <2>5. CASE probe = 6
    <3>1. versionAt' = [versionAt EXCEPT ![t] = "publish"] /\ g_Version' = kernel
      BY <1>4, <2>4, <2>5 DEF ProbeVersion, Reached, VersionTypeOK, Versions
    <3>2. VersionPlacesTell'
      BY <2>1, <2>2, <2>3, <3>1 DEF VersionTypeOK, VersionHolding
    <3> QED BY <2>3, <3>2
  <2>6. CASE probe # 6
    <3>1. versionAt' = versionAt /\ probe' = probe + 1
      BY <1>4, <2>6 DEF ProbeVersion
    <3>2. probe' - 1 = probe
      BY <3>1 DEF VersionTypeOK, Versions
    <3>3. g_Version' = Reached(probe - 1)'
      BY <2>3, <2>4, <3>2 DEF Reached
    <3>4. VersionPlacesTell'
      BY <2>1, <2>2, <2>3, <3>1, <3>3 DEF VersionTypeOK, VersionHolding
    <3> QED BY <2>3, <3>4
  <2> QED BY <2>5, <2>6
<1>5. ASSUME NEW t \in Threads, PublishVersion(t) PROVE VersionIInv'
  BY <1>5 DEF PublishVersion, VersionTypeOK, Reached, VersionHolding
<1>6. ASSUME NEW t \in Threads, UnlockVersion(t) PROVE VersionIInv'
  BY <1>6 DEF UnlockVersion, VersionTypeOK, Reached
<1>7. ASSUME NEW t \in Threads, ReturnVersion(t) PROVE VersionIInv'
  BY <1>7 DEF ReturnVersion, VersionTypeOK, Reached
<1>8. CASE UNCHANGED versionVars
  BY <1>8 DEF versionVars, Reached, VersionTypeOK
<1> QED BY <1>1, <1>2, <1>3, <1>4, <1>5, <1>6, <1>7, <1>8 DEF VersionNext, VersionStep

\* The strengthened invariant: the types, the mutex and what every place in the
\* code tells about the flag and the version.
THEOREM VersionInvariance == VersionSpec => []VersionIInv
BY VersionInitIInv, VersionNextIInv, PTL DEF VersionSpec

\* However many threads ask for the version of the kernel for the first time at
\* once, detectKernelVersion answers each of them with the complete version.
THEOREM WholeAnswers == VersionSpec => []AnswersAreWhole
<1>1. VersionIInv => AnswersAreWhole
  BY DEF VersionIInv
<1> QED BY <1>1, VersionInvariance, PTL

-----------------------------------------------------------------------------
(* detectJitKernelPatch and detectIgnoreJitKernelPatch.                    *)

\* The two flags and what is known of the kernel.
FlagsAgree ==
  /\ g_JitKernelPatchDetected => patched
  /\ g_JitKernelPatchCached /\ ~ignored => g_JitKernelPatchDetected = patched
  /\ ignored => ~g_JitKernelPatchDetected

\* What a place in the code tells about the flags.
PlacesTell == \A t \in Threads :
  /\ at[t] \in {"probe", "publish"} => ~g_JitKernelPatchCached /\ ~ignored
  /\ at[t] = "publish" => g_JitKernelPatchDetected = patched
  /\ at[t] \in {"read", "unlock"} => g_JitKernelPatchCached \/ failed[t]
  /\ at[t] = "ignore publish" => ignored

\* Without the mutex what is to be ignored is already kept.
IgnoredIsKept ==
  ignored => g_JitKernelPatchCached \/ \E t \in Threads : at[t] = "ignore publish"

\* What has been answered still holds.
AnswersHold ==
  /\ \A t \in Threads :
       at[t] = "done" /\ answer[t] => g_JitKernelPatchDetected \/ ignored
  /\ \A t \in Threads : sure[t] => g_JitKernelPatchDetected \/ ignored

Facts == FlagsAgree /\ PlacesTell /\ IgnoredIsKept /\ AnswersHold
IInv == TypeOK /\ Facts /\ OwnFailureOnly /\ FoundForGood

LEMMA InitIInv == Init => IInv
<1> SUFFICES ASSUME Init PROVE IInv
  OBVIOUS
<1>1. \A t \in Threads :
        owner # t /\ at[t] = "idle" /\ ~answer[t] /\ ~sure[t] /\ ~failed[t]
  BY ThreadAssumption DEF Init
<1>2. \A t \in Threads : at[t] \notin Holding
  BY <1>1 DEF Holding
<1>3. TypeOK
  BY <1>1, <1>2 DEF Init, TypeOK, Places
<1> QED BY <1>1, <1>3
        DEF Init, IInv, Facts, FlagsAgree, PlacesTell, IgnoredIsKept, AnswersHold,
            OwnFailureOnly, FoundForGood

LEMMA NextType == TypeOK /\ [Next]_vars => TypeOK'
<1> SUFFICES ASSUME TypeOK, [Next]_vars PROVE TypeOK'
  OBVIOUS
<1>1. ASSUME NEW t \in Threads, Call(t) PROVE TypeOK'
  BY <1>1, ThreadAssumption DEF Call, TypeOK, Goto, Places, Holding
<1>2. ASSUME NEW t \in Threads, Lock(t) PROVE TypeOK'
  BY <1>2, ThreadAssumption DEF Lock, TypeOK, Goto, Places, Holding
<1>3. ASSUME NEW t \in Threads, TestAgain(t) PROVE TypeOK'
  BY <1>3, ThreadAssumption DEF TestAgain, TypeOK, Goto, Places, Holding
<1>4. ASSUME NEW t \in Threads, ProbeFails(t) PROVE TypeOK'
  BY <1>4, ThreadAssumption DEF ProbeFails, TypeOK, Goto, Places, Holding
<1>5. ASSUME NEW t \in Threads, Probe(t) PROVE TypeOK'
  BY <1>5, ThreadAssumption DEF Probe, TypeOK, Goto, Places, Holding
<1>6. ASSUME NEW t \in Threads, Publish(t) PROVE TypeOK'
  BY <1>6, ThreadAssumption DEF Publish, TypeOK, Goto, Places, Holding
<1>7. ASSUME NEW t \in Threads, Unlock(t) PROVE TypeOK'
  BY <1>7, ThreadAssumption DEF Unlock, TypeOK, Goto, Places, Holding
<1>8. ASSUME NEW t \in Threads, Return(t) PROVE TypeOK'
  BY <1>8, ThreadAssumption DEF Return, TypeOK, Goto, Places, Holding
<1>9. ASSUME NEW t \in Threads, IgnoreCall(t) PROVE TypeOK'
  BY <1>9, ThreadAssumption DEF IgnoreCall, TypeOK, Goto, Places, Holding
<1>10. ASSUME NEW t \in Threads, IgnoreLock(t) PROVE TypeOK'
  BY <1>10, ThreadAssumption DEF IgnoreLock, TypeOK, Goto, Places, Holding
<1>11. ASSUME NEW t \in Threads, Ignore(t) PROVE TypeOK'
  BY <1>11, ThreadAssumption DEF Ignore, TypeOK, Goto, Places, Holding
<1>12. ASSUME NEW t \in Threads, IgnorePublish(t) PROVE TypeOK'
  BY <1>12, ThreadAssumption DEF IgnorePublish, TypeOK, Goto, Places, Holding
<1>13. ASSUME NEW t \in Threads, IgnoreUnlock(t) PROVE TypeOK'
  BY <1>13, ThreadAssumption DEF IgnoreUnlock, TypeOK, Goto, Places, Holding
<1>14. CASE UNCHANGED vars
  BY <1>14 DEF vars, TypeOK
<1> QED BY <1>1, <1>2, <1>3, <1>4, <1>5, <1>6, <1>7, <1>8, <1>9, <1>10, <1>11,
           <1>12, <1>13, <1>14 DEF Next, Step

\* Two threads are never both between a lock and its unlock.
LEMMA OneHolder ==
  TypeOK => \A t, u \in Threads : at[t] \in Holding /\ at[u] \in Holding => t = u
BY DEF TypeOK

LEMMA NextIInv == IInv /\ [Next]_vars => IInv'
<1> SUFFICES ASSUME IInv, [Next]_vars PROVE IInv'
  OBVIOUS
<1>a. TypeOK'
  BY NextType DEF IInv
<1>b. \A t, u \in Threads : at[t] \in Holding /\ at[u] \in Holding => t = u
  BY OneHolder DEF IInv
<1> USE <1>a
    DEF IInv, Facts, FlagsAgree, PlacesTell, IgnoredIsKept, AnswersHold,
        OwnFailureOnly, FoundForGood, Goto
<1>1. ASSUME NEW t \in Threads, Call(t) PROVE IInv'
  BY <1>1 DEF Call, TypeOK, Holding
<1>2. ASSUME NEW t \in Threads, Lock(t) PROVE IInv'
  BY <1>2 DEF Lock, TypeOK
<1>3. ASSUME NEW t \in Threads, TestAgain(t) PROVE IInv'
  BY <1>3, <1>b DEF TestAgain, TypeOK, Holding
<1>4. ASSUME NEW t \in Threads, ProbeFails(t) PROVE IInv'
  BY <1>4, <1>b DEF ProbeFails, TypeOK, Holding
<1>5. ASSUME NEW t \in Threads, Probe(t) PROVE IInv'
  BY <1>5, <1>b DEF Probe, TypeOK, Holding
<1>6. ASSUME NEW t \in Threads, Publish(t) PROVE IInv'
  <2>1. FlagsAgree'
    BY <1>6 DEF Publish
  <2>2. at[t] = "publish" /\ \A u \in Threads : u # t => at[u] \notin Holding
    BY <1>6, <1>b DEF Publish, Holding
  <2>3. PlacesTell'
    BY <1>6, <2>2 DEF Publish, TypeOK, Holding
  <2>4. (IgnoredIsKept /\ AnswersHold /\ OwnFailureOnly /\ FoundForGood)'
    BY <1>6 DEF Publish, TypeOK
  <2> QED BY <2>1, <2>3, <2>4
<1>7. ASSUME NEW t \in Threads, Unlock(t) PROVE IInv'
  BY <1>7, <1>b DEF Unlock, TypeOK, Holding
<1>8. ASSUME NEW t \in Threads, Return(t) PROVE IInv'
  BY <1>8 DEF Return, TypeOK
<1>9. ASSUME NEW t \in Threads, IgnoreCall(t) PROVE IInv'
  BY <1>9 DEF IgnoreCall, TypeOK
<1>10. ASSUME NEW t \in Threads, IgnoreLock(t) PROVE IInv'
  BY <1>10 DEF IgnoreLock, TypeOK
<1>11. ASSUME NEW t \in Threads, Ignore(t) PROVE IInv'
  BY <1>11, <1>b DEF Ignore, TypeOK, Holding
<1>12. ASSUME NEW t \in Threads, IgnorePublish(t) PROVE IInv'
  BY <1>12, <1>b DEF IgnorePublish, TypeOK, Holding
<1>13. ASSUME NEW t \in Threads, IgnoreUnlock(t) PROVE IInv'
  BY <1>13, <1>b DEF IgnoreUnlock, TypeOK, Holding
<1>14. CASE UNCHANGED vars
  BY <1>14 DEF vars, TypeOK
<1> QED BY <1>1, <1>2, <1>3, <1>4, <1>5, <1>6, <1>7, <1>8, <1>9, <1>10, <1>11,
           <1>12, <1>13, <1>14 DEF Next, Step

\* The strengthened invariant: the types, the mutex, and what the places in the
\* code and the answers given so far tell about the two flags.
THEOREM Invariance == Spec => []IInv
BY InitIInv, NextIInv, PTL DEF Spec

\* Whatever the other threads do, a patched kernel is denied only to a call
\* whose own probe failed or after the patch is to be ignored.
THEOREM DeniedByOwnFailure == Spec => []OwnFailureOnly
<1>1. IInv => OwnFailureOnly
  BY DEF IInv
<1> QED BY <1>1, Invariance, PTL

\* Once a call has found the patch, every call begun later finds it until the
\* patch is to be ignored.
THEOREM FoundStaysFound == Spec => []FoundForGood
<1>1. IInv => FoundForGood
  BY DEF IInv
<1> QED BY <1>1, Invariance, PTL

\* No thread in the middle of its probe undoes detectIgnoreJitKernelPatch.
THEOREM IgnoredStaysIgnored == Spec => IgnoredForGood
<1>1. IInv /\ IInv' /\ [Next]_vars => [ignored => ~g_JitKernelPatchDetected']_vars
  <2> SUFFICES ASSUME IInv, IInv', [Next]_vars, ignored
               PROVE  ~g_JitKernelPatchDetected'
    OBVIOUS
  <2>1. ignored'
    BY DEF Next, Step, vars, Call, Lock, TestAgain, ProbeFails, Probe, Publish, Unlock,
           Return, IgnoreCall, IgnoreLock, Ignore, IgnorePublish, IgnoreUnlock
  <2> QED BY <2>1 DEF IInv, Facts, FlagsAgree
<1> QED BY <1>1, Invariance, PTL DEF Spec, IgnoredForGood

-----------------------------------------------------------------------------
(* The request of a service.                                               *)

Positions == {"copy", "statics", "send", "recv", "exch", "words", "list",
              "objects", "table"}
Requests == [at : [Positions -> Int], left : 0 .. Word - 1, passed : Nat,
             overdrawn : BOOLEAN]
Buffer == [attr : Attrs, size : Nat]

\* Whether a buffer enters a part, and what it adds there.
Enters(a, p) ==
  \/ p = "statics" /\ "in" \in a.dir /\ a.via # "alias"
  \/ p = "send" /\ "in" \in a.dir
                /\ (a.via = "auto" \/ (a.via = "alias" /\ "out" \notin a.dir))
  \/ p = "recv" /\ "out" \in a.dir
                /\ (a.via = "auto" \/ (a.via = "alias" /\ "in" \notin a.dir))
  \/ p = "exch" /\ a.via = "alias" /\ "in" \in a.dir /\ "out" \in a.dir
  \/ p = "list" /\ "out" \in a.dir /\ a.via # "alias"
  \/ p = "table" /\ "out" \in a.dir /\ a.via \in {"auto", "pointer"}

Unit(p) == IF p \in DOMAIN Width THEN Width[p] ELSE 2

\* The remainder is in range, and changes nothing that is in range.
LEMMA ModRange == ASSUME NEW n \in Nat \ {0}, NEW x \in Int
                  PROVE  /\ x % n \in 0 .. n - 1
                         /\ x \in 0 .. n - 1 => x % n = x
  BY SMT

\* A step of a pointer.
LEMMA PutFields ==
  ASSUME NEW r \in Requests, NEW p \in DOMAIN Width
  PROVE  /\ Put(r, p) \in Requests
         /\ Put(r, p).at = [r.at EXCEPT ![p] = @ + Width[p]]
         /\ Put(r, p).left = r.left /\ Put(r, p).passed = r.passed
         /\ Put(r, p).overdrawn = r.overdrawn
<1>1. p \in Positions /\ Width[p] \in Int
  BY DEF Width, Positions
<1>2. r.at \in [Positions -> Int]
  BY DEF Requests
<1>3. Put(r, p) = [r EXCEPT !.at = [r.at EXCEPT ![p] = @ + Width[p]]]
  BY DEF Put
<1>4. [r.at EXCEPT ![p] = @ + Width[p]] \in [Positions -> Int]
  BY <1>1, <1>2
<1>5. QED
  BY <1>3, <1>4 DEF Requests

LEMMA WidthOf ==
  /\ Width["copy"] = 4 /\ Width["statics"] = 8 /\ Width["send"] = 12
  /\ Width["recv"] = 12 /\ Width["exch"] = 12 /\ Width["words"] = 4
  /\ Width["list"] = 8
  /\ DOMAIN Width = {"copy", "statics", "send", "recv", "exch", "words", "list"}
  BY DEF Width

\* server_pointer_size does not wrap around as long as it is enough.
LEMMA TakeFields ==
  ASSUME NEW r \in Requests, NEW size \in Nat
  PROVE  /\ Take(r, size) \in Requests
         /\ Take(r, size).at = r.at
         /\ Take(r, size).overdrawn = r.overdrawn
         /\ size <= r.left => /\ Take(r, size).left = r.left - size
                              /\ Take(r, size).passed = r.passed + size
<1>1. /\ r.left \in 0 .. Word - 1 /\ r.passed \in Nat
      /\ Word \in Nat \ {0}
  BY MessageAssumption DEF Requests
<1>2. /\ (r.left - size) % Word \in 0 .. Word - 1
      /\ size <= r.left => (r.left - size) % Word = r.left - size
  <2>1. r.left - size \in Int
    BY <1>1
  <2>2. size <= r.left => r.left - size \in 0 .. Word - 1
    BY <1>1
  <2>3. QED
    BY <1>1, <2>1, <2>2, ModRange
<1> DEFINE left == (r.left - size) % Word
           passed == r.passed + size
<1>3. Take(r, size) = [r EXCEPT !.left = left, !.passed = passed]
  BY DEF Take
<1>4. passed \in Nat /\ left \in 0 .. Word - 1
  BY <1>1, <1>2
<1>5. size <= r.left => left = r.left - size
  BY <1>2
<1>6. passed = r.passed + size
  OBVIOUS
<1> HIDE DEF left, passed
<1>7. /\ Take(r, size) \in Requests /\ Take(r, size).at = r.at
      /\ Take(r, size).overdrawn = r.overdrawn
      /\ Take(r, size).left = left /\ Take(r, size).passed = passed
  BY <1>3, <1>4 DEF Requests
<1>8. QED
  BY <1>5, <1>6, <1>7

LEMMA InPointerFields ==
  ASSUME NEW r \in Requests, NEW size \in Nat
  PROVE  /\ InPointer(r, size) \in Requests
         /\ InPointer(r, size).at = [r.at EXCEPT !["statics"] = @ + 8]
         /\ InPointer(r, size).overdrawn = r.overdrawn
         /\ size <= r.left => /\ InPointer(r, size).left = r.left - size
                              /\ InPointer(r, size).passed = r.passed + size
<1> DEFINE q == Take(r, size)
<1>1. /\ q \in Requests /\ q.at = r.at /\ q.overdrawn = r.overdrawn
      /\ size <= r.left => q.left = r.left - size /\ q.passed = r.passed + size
  BY TakeFields
<1>2. InPointer(r, size) = Put(q, "statics")
  BY DEF InPointer
<1> HIDE DEF q
<1>3. "statics" \in DOMAIN Width /\ Width["statics"] = 8
  BY WidthOf
<1>4. QED
  BY <1>1, <1>2, <1>3, PutFields

LEMMA OutFixedFields ==
  ASSUME NEW r \in Requests, NEW size \in Nat
  PROVE  /\ OutFixedPointer(r, size) \in Requests
         /\ OutFixedPointer(r, size).at = [r.at EXCEPT !["list"] = @ + 8]
         /\ OutFixedPointer(r, size).overdrawn = r.overdrawn
         /\ size <= r.left => /\ OutFixedPointer(r, size).left = r.left - size
                              /\ OutFixedPointer(r, size).passed = r.passed + size
<1> DEFINE q == Take(r, size)
<1>1. /\ q \in Requests /\ q.at = r.at /\ q.overdrawn = r.overdrawn
      /\ size <= r.left => q.left = r.left - size /\ q.passed = r.passed + size
  BY TakeFields
<1>2. OutFixedPointer(r, size) = Put(q, "list")
  BY DEF OutFixedPointer
<1> HIDE DEF q
<1>3. "list" \in DOMAIN Width /\ Width["list"] = 8
  BY WidthOf
<1>4. QED
  BY <1>1, <1>2, <1>3, PutFields

LEMMA OutPointerFields ==
  ASSUME NEW r \in Requests, NEW size \in Nat
  PROVE  /\ OutPointer(r, size) \in Requests
         /\ OutPointer(r, size).at
              = [r.at EXCEPT !["list"] = @ + 8, !["table"] = @ + 2]
         /\ OutPointer(r, size).overdrawn = r.overdrawn
         /\ size <= r.left => /\ OutPointer(r, size).left = r.left - size
                              /\ OutPointer(r, size).passed = r.passed + size
<1> DEFINE q == OutFixedPointer(r, size)
           then == [q.at EXCEPT !["table"] = @ + 2]
<1>1. /\ q \in Requests /\ q.overdrawn = r.overdrawn
      /\ q.at = [r.at EXCEPT !["list"] = @ + 8]
      /\ size <= r.left => q.left = r.left - size /\ q.passed = r.passed + size
  BY OutFixedFields
<1>2. OutPointer(r, size) = [q EXCEPT !.at = then]
  BY DEF OutPointer
<1>3. then \in [Positions -> Int]
  BY <1>1 DEF Requests, Positions
<1>4. then = [r.at EXCEPT !["list"] = @ + 8, !["table"] = @ + 2]
  BY <1>1
<1> HIDE DEF q, then
<1>5. QED
  BY <1>1, <1>2, <1>3, <1>4 DEF Requests

\* The directions of a buffer.
LEMMA Directions ==
  ASSUME NEW a \in Attrs
  PROVE  /\ a.via \in {"auto", "pointer", "fixed", "alias"}
         /\ \/ "in" \in a.dir /\ "out" \notin a.dir /\ a.dir = {"in"}
               /\ Cardinality(a.dir) = 1
            \/ "in" \notin a.dir /\ "out" \in a.dir /\ a.dir = {"out"}
               /\ Cardinality(a.dir) = 1
            \/ "in" \in a.dir /\ "out" \in a.dir /\ a.dir = {"in", "out"}
               /\ Cardinality(a.dir) = 2
         /\ a = [dir |-> {"in", "out"}, via |-> "alias"]
              <=> a.via = "alias" /\ "in" \in a.dir /\ "out" \in a.dir
<1>1. /\ a = [dir |-> a.dir, via |-> a.via]
      /\ a.via \in {"auto", "pointer", "fixed", "alias"}
      /\ a.dir \in {{"in"}, {"out"}, {"in", "out"}}
  BY DEF Attrs
<1>2. \A x : Cardinality({x}) = 1 /\ IsFiniteSet({x})
  BY FS_Singleton
<1>3. Cardinality({"in", "out"}) = 2
  <2>1. {"in", "out"} = {"in"} \cup {"out"} /\ "out" \notin {"in"}
    OBVIOUS
  <2>2. Cardinality({"in"} \cup {"out"}) = Cardinality({"in"}) + 1
    BY <1>2, <2>1, FS_AddElement
  <2>3. QED
    BY <1>2, <2>1, <2>2
<1>4. "in" \notin {"out"} /\ "out" \notin {"in"}
  OBVIOUS
<1>5. CASE a.dir = {"in"}
  <2>1. "in" \in a.dir /\ "out" \notin a.dir
    BY <1>4, <1>5
  <2>2. Cardinality(a.dir) = 1
    BY <1>2, <1>5
  <2>3. a # [dir |-> {"in", "out"}, via |-> "alias"]
    <3>1. [dir |-> {"in", "out"}, via |-> "alias"].dir = {"in", "out"}
      OBVIOUS
    <3>2. QED
      BY <2>1, <3>1
  <2>4. QED
    BY <1>1, <1>5, <2>1, <2>2, <2>3
<1>6. CASE a.dir = {"out"}
  <2>1. "out" \in a.dir /\ "in" \notin a.dir
    BY <1>4, <1>6
  <2>2. Cardinality(a.dir) = 1
    BY <1>2, <1>6
  <2>3. a # [dir |-> {"in", "out"}, via |-> "alias"]
    <3>1. [dir |-> {"in", "out"}, via |-> "alias"].dir = {"in", "out"}
      OBVIOUS
    <3>2. QED
      BY <2>1, <3>1
  <2>4. QED
    BY <1>1, <1>6, <2>1, <2>2, <2>3
<1>7. CASE a.dir = {"in", "out"}
  BY <1>1, <1>3, <1>7
<1>8. QED
  BY <1>1, <1>5, <1>6, <1>7

\* An automatic buffer takes no more than is left.
LEMMA AutoSize ==
  ASSUME NEW r \in Requests, NEW size \in Nat
  PROVE  ByPointer(r, size) \in Nat /\ ByPointer(r, size) <= r.left
  BY DEF ByPointer, Requests

\* Of a buffer passed in one direction: what it adds, and what it takes from
\* the pointer buffer of the server.
LEMMA InFills ==
  ASSUME NEW r \in Requests, NEW b \in Buffer
  PROVE  /\ In(r, b) \in Requests
         /\ In(r, b).overdrawn = r.overdrawn
         /\ \A p \in Positions :
              In(r, b).at[p] = r.at[p] +
                (IF p = "statics" /\ b.attr.via # "alias" THEN 8
                 ELSE IF p = "send" /\ b.attr.via \in {"auto", "alias"} THEN 12
                 ELSE 0)
         /\ b.attr.via \in {"pointer", "fixed"} /\ b.size <= r.left
              => In(r, b).left = r.left - b.size
         /\ (b.attr.via \in {"pointer", "fixed"} => b.size <= r.left)
              => In(r, b).left + In(r, b).passed = r.left + r.passed
<1>1. /\ b.size \in Nat /\ b.attr \in Attrs
      /\ r.at \in [Positions -> Int] /\ r.left \in Int /\ r.passed \in Int
  BY DEF Buffer, Requests
<1>2. b.attr.via \in {"auto", "pointer", "fixed", "alias"}
  BY <1>1, Directions
<1>3. "statics" \in Positions /\ "send" \in Positions
      /\ "send" \in DOMAIN Width /\ Width["send"] = 12
  BY WidthOf DEF Positions
<1>4. CASE b.attr.via = "auto"
  <2> DEFINE size == ByPointer(r, b.size)
             q == InPointer(r, size)
  <2>1. size \in Nat /\ size <= r.left
    BY <1>1, AutoSize
  <2>2. /\ q \in Requests /\ q.at = [r.at EXCEPT !["statics"] = @ + 8]
        /\ q.overdrawn = r.overdrawn
        /\ q.left = r.left - size /\ q.passed = r.passed + size
    BY <2>1, InPointerFields
  <2>3. In(r, b) = Put(q, "send")
    BY <1>4 DEF In
  <2> HIDE DEF q, size
  <2>4. /\ In(r, b) \in Requests /\ In(r, b).overdrawn = r.overdrawn
        /\ In(r, b).at = [q.at EXCEPT !["send"] = @ + 12]
        /\ In(r, b).left = q.left /\ In(r, b).passed = q.passed
    BY <1>3, <2>2, <2>3, PutFields
  <2>5. q.left + q.passed = r.left + r.passed
    BY <1>1, <2>1, <2>2
  <2>6. QED
    BY <1>1, <1>3, <1>4, <2>2, <2>4, <2>5
<1>5. CASE b.attr.via = "alias"
  <2>1. In(r, b) = Put(r, "send")
    BY <1>5 DEF In
  <2>2. /\ In(r, b) \in Requests /\ In(r, b).overdrawn = r.overdrawn
        /\ In(r, b).at = [r.at EXCEPT !["send"] = @ + 12]
        /\ In(r, b).left = r.left /\ In(r, b).passed = r.passed
    BY <1>3, <2>1, PutFields
  <2>3. QED
    BY <1>1, <1>3, <1>5, <2>2
<1>6. CASE b.attr.via \in {"pointer", "fixed"}
  <2>1. In(r, b) = InPointer(r, b.size)
    BY <1>6 DEF In
  <2>2. /\ In(r, b) \in Requests /\ In(r, b).overdrawn = r.overdrawn
        /\ In(r, b).at = [r.at EXCEPT !["statics"] = @ + 8]
        /\ b.size <= r.left => /\ In(r, b).left = r.left - b.size
                               /\ In(r, b).passed = r.passed + b.size
    BY <1>1, <2>1, InPointerFields
  <2>3. QED
    BY <1>1, <1>3, <1>6, <2>2
<1>7. QED
  BY <1>2, <1>4, <1>5, <1>6

LEMMA OutFills ==
  ASSUME NEW r \in Requests, NEW b \in Buffer
  PROVE  /\ Out(r, b) \in Requests
         /\ Out(r, b).overdrawn = r.overdrawn
         /\ \A p \in Positions :
              Out(r, b).at[p] = r.at[p] +
                (IF p = "list" /\ b.attr.via # "alias" THEN 8
                 ELSE IF p = "recv" /\ b.attr.via \in {"auto", "alias"} THEN 12
                 ELSE IF p = "table" /\ b.attr.via \in {"auto", "pointer"} THEN 2
                 ELSE 0)
         /\ (b.attr.via \in {"pointer", "fixed"} => b.size <= r.left)
              => Out(r, b).left + Out(r, b).passed = r.left + r.passed
<1>1. /\ b.size \in Nat /\ b.attr \in Attrs
      /\ r.at \in [Positions -> Int] /\ r.left \in Int /\ r.passed \in Int
  BY DEF Buffer, Requests
<1>2. b.attr.via \in {"auto", "pointer", "fixed", "alias"}
  BY <1>1, Directions
<1>3. "list" \in Positions /\ "recv" \in Positions /\ "table" \in Positions
      /\ "recv" \in DOMAIN Width /\ Width["recv"] = 12
  BY WidthOf DEF Positions
<1>4. CASE b.attr.via = "auto"
  <2> DEFINE size == ByPointer(r, b.size)
             q == OutPointer(r, size)
  <2>1. size \in Nat /\ size <= r.left
    BY <1>1, AutoSize
  <2>2. /\ q \in Requests /\ q.overdrawn = r.overdrawn
        /\ q.at = [r.at EXCEPT !["list"] = @ + 8, !["table"] = @ + 2]
        /\ q.left = r.left - size /\ q.passed = r.passed + size
    BY <2>1, OutPointerFields
  <2>3. Out(r, b) = Put(q, "recv")
    BY <1>4 DEF Out
  <2> HIDE DEF q, size
  <2>4. /\ Out(r, b) \in Requests /\ Out(r, b).overdrawn = r.overdrawn
        /\ Out(r, b).at = [q.at EXCEPT !["recv"] = @ + 12]
        /\ Out(r, b).left = q.left /\ Out(r, b).passed = q.passed
    <3>1. /\ Put(q, "recv") \in Requests /\ Put(q, "recv").overdrawn = q.overdrawn
          /\ Put(q, "recv").at = [q.at EXCEPT !["recv"] = @ + Width["recv"]]
          /\ Put(q, "recv").left = q.left /\ Put(q, "recv").passed = q.passed
      BY <1>3, <2>2, PutFields
    <3>2. QED
      BY <1>3, <2>2, <2>3, <3>1
  <2>5. q.left + q.passed = r.left + r.passed
    BY <1>1, <2>1, <2>2
  <2>6. QED
    BY <1>1, <1>3, <1>4, <2>2, <2>4, <2>5
<1>5. CASE b.attr.via = "alias"
  <2>1. Out(r, b) = Put(r, "recv")
    BY <1>5 DEF Out
  <2>2. /\ Out(r, b) \in Requests /\ Out(r, b).overdrawn = r.overdrawn
        /\ Out(r, b).at = [r.at EXCEPT !["recv"] = @ + 12]
        /\ Out(r, b).left = r.left /\ Out(r, b).passed = r.passed
    BY <1>3, <2>1, PutFields
  <2>3. QED
    BY <1>1, <1>3, <1>5, <2>2
<1>6. CASE b.attr.via = "pointer"
  <2>1. Out(r, b) = OutPointer(r, b.size)
    BY <1>6 DEF Out
  <2>2. /\ Out(r, b) \in Requests /\ Out(r, b).overdrawn = r.overdrawn
        /\ Out(r, b).at = [r.at EXCEPT !["list"] = @ + 8, !["table"] = @ + 2]
        /\ b.size <= r.left => /\ Out(r, b).left = r.left - b.size
                               /\ Out(r, b).passed = r.passed + b.size
    BY <1>1, <2>1, OutPointerFields
  <2>3. QED
    BY <1>1, <1>3, <1>6, <2>2
<1>7. CASE b.attr.via = "fixed"
  <2>1. Out(r, b) = OutFixedPointer(r, b.size)
    BY <1>7 DEF Out
  <2>2. /\ Out(r, b) \in Requests /\ Out(r, b).overdrawn = r.overdrawn
        /\ Out(r, b).at = [r.at EXCEPT !["list"] = @ + 8]
        /\ b.size <= r.left => /\ Out(r, b).left = r.left - b.size
                               /\ Out(r, b).passed = r.passed + b.size
    BY <1>1, <2>1, OutFixedFields
  <2>3. QED
    BY <1>1, <1>3, <1>7, <2>2
<1>8. QED
  BY <1>2, <1>4, <1>5, <1>6, <1>7

\* A buffer adds to the parts that it enters, and to no other.
LEMMA ProcessedFills ==
  ASSUME NEW r \in Requests, NEW b \in Buffer
  PROVE  /\ Processed(r, b) \in Requests
         /\ \A p \in Positions :
              Processed(r, b).at[p]
                = r.at[p] + (IF Enters(b.attr, p) THEN Unit(p) ELSE 0)
         /\ Processed(r, b).overdrawn <=> (r.overdrawn \/ Overdraws(r, b))
         /\ ~Overdraws(r, b) => Processed(r, b).left + Processed(r, b).passed
                                 = r.left + r.passed
<1> DEFINE a == b.attr
           over == r.overdrawn \/ Overdraws(r, b)
           now == [r EXCEPT !.overdrawn = over]
           in == IF "in" \in a.dir THEN In(now, b) ELSE now
           inOut == [dir |-> {"in", "out"}, via |-> "alias"]
           s == Processed(r, b)
<1>1. /\ now \in Requests /\ now.at = r.at /\ now.left = r.left
      /\ now.passed = r.passed /\ now.overdrawn = over
  BY DEF Requests, Overdraws
<1>2. /\ b.size \in Nat /\ a \in Attrs /\ r.left \in Int /\ r.passed \in Int
      /\ r.at \in [Positions -> Int]
  BY DEF Buffer, Requests
<1>3. /\ a.via \in {"auto", "pointer", "fixed", "alias"}
      /\ \/ "in" \in a.dir /\ "out" \notin a.dir /\ Cardinality(a.dir) = 1
         \/ "in" \notin a.dir /\ "out" \in a.dir /\ Cardinality(a.dir) = 1
         \/ "in" \in a.dir /\ "out" \in a.dir /\ Cardinality(a.dir) = 2
      /\ a = inOut <=> a.via = "alias" /\ "in" \in a.dir /\ "out" \in a.dir
  BY <1>2, Directions
<1>4. s = IF a = inOut THEN Put(now, "exch")
          ELSE IF "out" \in a.dir THEN Out(in, b) ELSE in
  BY DEF Processed
<1>5. ~Overdraws(r, b) /\ a.via \in {"pointer", "fixed"}
        => Cardinality(a.dir) * b.size <= r.left
  BY <1>2, <1>3 DEF Overdraws
<1>6. /\ Unit("statics") = 8 /\ Unit("send") = 12 /\ Unit("recv") = 12
      /\ Unit("exch") = 12 /\ Unit("list") = 8 /\ Unit("table") = 2
  BY WidthOf DEF Unit
<1> HIDE DEF now, over, inOut, s
<1>7. /\ In(now, b) \in Requests /\ In(now, b).overdrawn = over
      /\ \A p \in Positions :
           In(now, b).at[p] = r.at[p] +
             (IF p = "statics" /\ a.via # "alias" THEN 8
              ELSE IF p = "send" /\ a.via \in {"auto", "alias"} THEN 12
              ELSE 0)
      /\ a.via \in {"pointer", "fixed"} /\ b.size <= r.left
           => In(now, b).left = r.left - b.size
      /\ (a.via \in {"pointer", "fixed"} => b.size <= r.left)
           => In(now, b).left + In(now, b).passed = r.left + r.passed
  BY <1>1, InFills
<1>8. ASSUME NEW q \in Requests
      PROVE  /\ Out(q, b) \in Requests /\ Out(q, b).overdrawn = q.overdrawn
             /\ \A p \in Positions :
                  Out(q, b).at[p] = q.at[p] +
                    (IF p = "list" /\ a.via # "alias" THEN 8
                     ELSE IF p = "recv" /\ a.via \in {"auto", "alias"} THEN 12
                     ELSE IF p = "table" /\ a.via \in {"auto", "pointer"} THEN 2
                     ELSE 0)
             /\ (a.via \in {"pointer", "fixed"} => b.size <= q.left)
                  => Out(q, b).left + Out(q, b).passed = q.left + q.passed
  BY OutFills
<1>9. CASE a = inOut
  <2>1. s = Put(now, "exch")
    BY <1>4, <1>9
  <2>2. "exch" \in DOMAIN Width /\ Width["exch"] = 12 /\ "exch" \in Positions
    BY WidthOf DEF Positions
  <2>3. /\ s \in Requests /\ s.at = [r.at EXCEPT !["exch"] = @ + 12]
        /\ s.left = r.left /\ s.passed = r.passed /\ s.overdrawn = over
    BY <1>1, <2>1, <2>2, PutFields
  <2>4. \A p : Enters(a, p) <=> p = "exch"
    BY <1>3, <1>9 DEF Enters
  <2>5. \A p \in Positions :
          s.at[p] = r.at[p] + (IF Enters(a, p) THEN Unit(p) ELSE 0)
    BY <1>2, <1>6, <2>2, <2>3, <2>4
  <2>6. s.left + s.passed = r.left + r.passed
    BY <2>3
  <2>7. QED
    BY <2>3, <2>5, <2>6 DEF s, over
<1>10. CASE a # inOut /\ "in" \in a.dir /\ "out" \notin a.dir
  <2>1. s = In(now, b)
    BY <1>4, <1>10
  <2>2. \A p : /\ Enters(a, p) <=> \/ p = "statics" /\ a.via # "alias"
                                   \/ p = "send" /\ a.via \in {"auto", "alias"}
    BY <1>3, <1>10 DEF Enters
  <2>3. \A p \in Positions :
          s.at[p] = r.at[p] + (IF Enters(a, p) THEN Unit(p) ELSE 0)
    BY <1>2, <1>6, <1>7, <2>1, <2>2
  <2>4. a.via \in {"pointer", "fixed"} /\ ~Overdraws(r, b) => b.size <= r.left
    BY <1>2, <1>3, <1>5, <1>10
  <2>5. QED
    BY <1>7, <2>1, <2>3, <2>4 DEF s, over
<1>11. CASE "in" \notin a.dir /\ "out" \in a.dir
  <2>1. s = Out(now, b)
    BY <1>3, <1>4, <1>11
  <2>2. \A p : /\ Enters(a, p) <=> \/ p = "list" /\ a.via # "alias"
                                   \/ p = "recv" /\ a.via \in {"auto", "alias"}
                                   \/ p = "table"
                                        /\ a.via \in {"auto", "pointer"}
    BY <1>3, <1>11 DEF Enters
  <2>3. \A p \in Positions :
          s.at[p] = r.at[p] + (IF Enters(a, p) THEN Unit(p) ELSE 0)
    BY <1>1, <1>2, <1>6, <1>8, <2>1, <2>2
  <2>4. a.via \in {"pointer", "fixed"} /\ ~Overdraws(r, b) => b.size <= r.left
    BY <1>2, <1>3, <1>5, <1>11
  <2>5. QED
    BY <1>1, <1>8, <2>1, <2>3, <2>4 DEF s, over
<1>12. CASE a # inOut /\ "in" \in a.dir /\ "out" \in a.dir
  <2> DEFINE q == In(now, b)
  <2>1. s = Out(q, b)
    BY <1>4, <1>12
  <2>2. a.via # "alias"
    BY <1>3, <1>12
  <2>3. \A p : /\ Enters(a, p) <=>
                 \/ p \in {"statics", "list"}
                 \/ p \in {"send", "recv"} /\ a.via = "auto"
                 \/ p = "table" /\ a.via \in {"auto", "pointer"}
    BY <1>3, <1>12, <2>2 DEF Enters
  <2>4. \A p \in Positions :
          q.at[p] = r.at[p] + (IF p = "statics" THEN 8
                               ELSE IF p = "send" /\ a.via = "auto" THEN 12
                               ELSE 0)
    BY <1>7, <2>2
  <2>5. \A p \in Positions :
          s.at[p] = q.at[p] + (IF p = "list" THEN 8
                               ELSE IF p = "recv" /\ a.via = "auto" THEN 12
                               ELSE IF p = "table"
                                         /\ a.via \in {"auto", "pointer"} THEN 2
                               ELSE 0)
    BY <1>7, <1>8, <2>1, <2>2
  <2>6. \A p \in Positions :
          s.at[p] = r.at[p] + (IF Enters(a, p) THEN Unit(p) ELSE 0)
    BY <1>2, <1>6, <2>2, <2>3, <2>4, <2>5
  <2>7. ASSUME ~Overdraws(r, b), a.via \in {"pointer", "fixed"}
        PROVE  b.size <= r.left /\ b.size <= q.left
    <3>1. 2 * b.size <= r.left
      BY <1>3, <1>5, <1>12, <2>7
    <3>2. b.size <= r.left
      BY <1>2, <3>1
    <3>3. q.left = r.left - b.size
      BY <1>7, <2>7, <3>2
    <3>4. QED
      BY <1>2, <3>1, <3>2, <3>3
  <2>8. ~Overdraws(r, b) => s.left + s.passed = r.left + r.passed
    <3> SUFFICES ASSUME ~Overdraws(r, b)
                 PROVE  s.left + s.passed = r.left + r.passed
      OBVIOUS
    <3>1. q.left + q.passed = r.left + r.passed
      BY <1>7, <2>7
    <3>2. s.left + s.passed = q.left + q.passed
      BY <1>7, <1>8, <2>1, <2>7
    <3>3. QED
      BY <3>1, <3>2
  <2>9. s \in Requests /\ s.overdrawn = over
    BY <1>7, <1>8, <2>1
  <2>10. QED
    BY <2>6, <2>8, <2>9 DEF s, over
<1>13. QED
  BY <1>3, <1>9, <1>10, <1>11, <1>12

\* Where the pointer of a part stands when no buffer has been processed.
Begin(p) ==
  IF p = "copy" THEN Starts["copy"] + 4 * dispatch.handles
  ELSE IF p = "objects" THEN ObjectsStart(Starts["words"])
                               + (IF dispatch.domain THEN 4 * dispatch.objects ELSE 0)
  ELSE IF p = "table" THEN Starts["words"] + TableOffset
  ELSE Starts[p]

\* How many of the first n - 1 buffers enter a part.
Gone(p, n) ==
  Cardinality({i \in DOMAIN dispatch.buffers :
                 i < n /\ Enters(dispatch.buffers[i].attr, p)})

\* The parameters of a call, the request before it is laid out and after.
MessageTypeOK ==
  /\ dispatch.buffers \in Seq(Buffer)
  /\ dispatch.data \in Nat /\ dispatch.handles \in Nat /\ dispatch.objects \in Nat
  /\ dispatch.domain \in BOOLEAN /\ dispatch.pid \in BOOLEAN
  /\ dispatch.pointerSize \in 0 .. Word - 1
  /\ next \in 0 .. Len(dispatch.buffers) + 1
  /\ next = 0 => req = [at |-> <<>>, left |-> dispatch.pointerSize, passed |-> 0,
                         overdrawn |-> FALSE]
  /\ next # 0 => req \in Requests

\* What is taken from the pointer buffer of the server is passed by pointer,
\* until a buffer takes more than there is.
Balanced ==
  /\ req.left \in Nat /\ req.passed \in Nat
  /\ ~req.overdrawn => req.left + req.passed = dispatch.pointerSize

\* Every pointer is as far behind its beginning as the buffers processed so
\* far have moved it.
CountedSoFar ==
  next # 0 => \A p \in Positions : req.at[p] = Begin(p) + Unit(p) * Gone(p, next)

MessageInv == MessageTypeOK /\ Balanced /\ CountedSoFar

\* A dispatch has finitely many buffers.
LEMMA SlotsFinite ==
  ASSUME dispatch.buffers \in Seq(Buffer), NEW S \in SUBSET DOMAIN dispatch.buffers
  PROVE  IsFiniteSet(S) /\ Cardinality(S) \in Nat
<1>1. DOMAIN dispatch.buffers = 1 .. Len(dispatch.buffers)
      /\ Len(dispatch.buffers) \in Nat
  OBVIOUS
<1>2. IsFiniteSet(DOMAIN dispatch.buffers)
  BY <1>1, FS_Interval
<1>3. QED
  BY <1>2, FS_Subset, FS_CardinalityType

LEMMA NumberIsNat ==
  ASSUME dispatch.buffers \in Seq(Buffer), NEW attrs
  PROVE  Number(attrs) \in Nat
<1>1. {i \in DOMAIN dispatch.buffers : dispatch.buffers[i].attr \in attrs}
        \in SUBSET DOMAIN dispatch.buffers
  OBVIOUS
<1>2. QED
  BY <1>1, SlotsFinite DEF Number

\* Buffers of two kinds that have nothing in common are counted once each.
LEMMA NumberSum ==
  ASSUME dispatch.buffers \in Seq(Buffer), NEW A, NEW B, A \cap B = {}
  PROVE  Number(A) + Number(B) = Number(A \cup B)
<1> DEFINE Of(S) == {i \in DOMAIN dispatch.buffers : dispatch.buffers[i].attr \in S}
<1>1. \A S : Of(S) \in SUBSET DOMAIN dispatch.buffers
  OBVIOUS
<1>2. /\ Of(A) \cup Of(B) = Of(A \cup B)
      /\ Of(A) \cap Of(B) = {}
  OBVIOUS
<1>3. \A S : Number(S) = Cardinality(Of(S))
  BY DEF Number
<1> HIDE DEF Of
<1>4. /\ IsFiniteSet(Of(A)) /\ IsFiniteSet(Of(B))
      /\ Cardinality(Of(A)) \in Nat /\ Cardinality(Of(B)) \in Nat
  BY <1>1, SlotsFinite
<1>5. Cardinality(Of(A) \cup Of(B))
        = Cardinality(Of(A)) + Cardinality(Of(B)) - Cardinality(Of(A) \cap Of(B))
  BY <1>4, FS_Union
<1>6. Cardinality(Of(A) \cap Of(B)) = 0
  BY <1>2, FS_EmptySet
<1>7. /\ Number(A) = Cardinality(Of(A)) /\ Number(B) = Cardinality(Of(B))
      /\ Number(A \cup B) = Cardinality(Of(A) \cup Of(B))
  BY <1>2, <1>3, Zenon
<1>8. QED
  BY <1>4, <1>5, <1>6, <1>7

\* The attributes of the buffers that enter a part.
Entering(p) == {a \in Attrs : Enters(a, p)}

\* When all buffers are processed, all that enter a part have gone.
LEMMA GoneAtTheEnd ==
  ASSUME dispatch.buffers \in Seq(Buffer), NEW p
  PROVE  Gone(p, Len(dispatch.buffers) + 1) = Number(Entering(p))
<1>1. \A i \in DOMAIN dispatch.buffers :
        i < Len(dispatch.buffers) + 1 /\ dispatch.buffers[i].attr \in Attrs
  <2> SUFFICES ASSUME NEW i \in DOMAIN dispatch.buffers
               PROVE  /\ i < Len(dispatch.buffers) + 1
                      /\ dispatch.buffers[i].attr \in Attrs
    OBVIOUS
  <2>1. i \in 1 .. Len(dispatch.buffers) /\ Len(dispatch.buffers) \in Nat
        /\ dispatch.buffers[i] \in Buffer
    OBVIOUS
  <2>2. QED
    BY <2>1 DEF Buffer
<1>2. {i \in DOMAIN dispatch.buffers : i < Len(dispatch.buffers) + 1
                                       /\ Enters(dispatch.buffers[i].attr, p)}
        = {i \in DOMAIN dispatch.buffers : dispatch.buffers[i].attr \in Entering(p)}
  BY <1>1 DEF Entering
<1>3. QED
  BY <1>2 DEF Gone, Number

\* One buffer more.
LEMMA GoneStep ==
  ASSUME dispatch.buffers \in Seq(Buffer), NEW p,
         NEW n \in DOMAIN dispatch.buffers
  PROVE  /\ Gone(p, n) \in Nat
         /\ Gone(p, n + 1) = Gone(p, n)
              + (IF Enters(dispatch.buffers[n].attr, p) THEN 1 ELSE 0)
<1> DEFINE Before(m) == {i \in DOMAIN dispatch.buffers :
                           i < m /\ Enters(dispatch.buffers[i].attr, p)}
<1>1. DOMAIN dispatch.buffers \subseteq Nat /\ n \in Nat
  OBVIOUS
<1>2. Before(n) \in SUBSET DOMAIN dispatch.buffers
  OBVIOUS
<1>3. IsFiniteSet(Before(n)) /\ Cardinality(Before(n)) \in Nat
  BY <1>2, SlotsFinite
<1>4. Before(n + 1) = IF Enters(dispatch.buffers[n].attr, p)
                      THEN Before(n) \cup {n} ELSE Before(n)
  <2>1. \A i \in DOMAIN dispatch.buffers : i < n + 1 <=> i < n \/ i = n
    BY <1>1
  <2>2. QED
    BY <2>1
<1>5. n \notin Before(n)
  BY <1>1
<1>6. Gone(p, n) = Cardinality(Before(n)) /\ Gone(p, n + 1) = Cardinality(Before(n + 1))
  BY DEF Gone
<1> HIDE DEF Before
<1>7. Cardinality(Before(n) \cup {n}) = Cardinality(Before(n)) + 1
  BY <1>3, <1>5, FS_AddElement
<1>8. QED
  BY <1>3, <1>4, <1>6, <1>7

LEMMA GoneAtTheStart ==
  ASSUME dispatch.buffers \in Seq(Buffer), NEW p
  PROVE  Gone(p, 1) = 0
<1>1. {i \in DOMAIN dispatch.buffers : i < 1 /\ Enters(dispatch.buffers[i].attr, p)} = {}
  OBVIOUS
<1>2. QED
  BY <1>1, FS_EmptySet DEF Gone

\* A set of attributes and the buffers that have them.
LEMMA EnteringParts ==
  /\ Entering("statics") = [dir : Inward, via : {"auto"}]
                             \cup [dir : Inward, via : {"pointer", "fixed"}]
  /\ Entering("send") = [dir : Inward, via : {"auto"}]
                          \cup [dir : {{"in"}}, via : {"alias"}]
  /\ Entering("recv") = [dir : Outward, via : {"auto"}]
                          \cup [dir : {{"out"}}, via : {"alias"}]
  /\ Entering("exch") = [dir : {{"in", "out"}}, via : {"alias"}]
  /\ Entering("table") = [dir : Outward, via : {"auto"}]
                           \cup [dir : Outward, via : {"pointer"}]
  /\ Entering("list") = ([dir : Outward, via : {"auto"}]
                           \cup [dir : Outward, via : {"pointer"}])
                          \cup [dir : Outward, via : {"fixed"}]
  /\ \A p \in {"copy", "words", "objects"} : Entering(p) = {}
<1> DEFINE Dirs == {{"in"}, {"out"}, {"in", "out"}}
           Vias == {"auto", "pointer", "fixed", "alias"}
<1>1. /\ \A d \in Dirs : d \in Inward <=> "in" \in d
      /\ \A d \in Dirs : d \in Outward <=> "out" \in d
      /\ Inward \subseteq Dirs /\ Outward \subseteq Dirs
      /\ \A d \in Dirs : "in" \in d /\ "out" \notin d <=> d = {"in"}
      /\ \A d \in Dirs : "out" \in d /\ "in" \notin d <=> d = {"out"}
      /\ \A d \in Dirs : "in" \in d /\ "out" \in d <=> d = {"in", "out"}
  BY DEF Inward, Outward
<1>2. ASSUME NEW D \in SUBSET Dirs, NEW V \in SUBSET Vias
      PROVE  [dir : D, via : V] = {a \in Attrs : a.dir \in D /\ a.via \in V}
  BY DEF Attrs
<1>3. \A a \in Attrs : a.dir \in Dirs /\ a.via \in Vias
  BY DEF Attrs
<1>4. /\ [dir : Inward, via : {"auto"}]
           = {a \in Attrs : "in" \in a.dir /\ a.via \in {"auto"}}
      /\ [dir : Inward, via : {"pointer", "fixed"}]
           = {a \in Attrs : "in" \in a.dir /\ a.via \in {"pointer", "fixed"}}
      /\ [dir : Outward, via : {"auto"}]
           = {a \in Attrs : "out" \in a.dir /\ a.via \in {"auto"}}
      /\ [dir : Outward, via : {"pointer"}]
           = {a \in Attrs : "out" \in a.dir /\ a.via \in {"pointer"}}
      /\ [dir : Outward, via : {"fixed"}]
           = {a \in Attrs : "out" \in a.dir /\ a.via \in {"fixed"}}
  <2>1. /\ {"auto"} \in SUBSET Vias /\ {"pointer", "fixed"} \in SUBSET Vias
        /\ {"pointer"} \in SUBSET Vias /\ {"fixed"} \in SUBSET Vias
    OBVIOUS
  <2>2. \A a \in Attrs : /\ a.dir \in Inward <=> "in" \in a.dir
                         /\ a.dir \in Outward <=> "out" \in a.dir
    BY <1>1, <1>3
  <2> HIDE DEF Dirs, Vias
  <2>3. \A V \in SUBSET Vias :
          /\ [dir : Inward, via : V] = {a \in Attrs : "in" \in a.dir /\ a.via \in V}
          /\ [dir : Outward, via : V] = {a \in Attrs : "out" \in a.dir /\ a.via \in V}
    <3> SUFFICES ASSUME NEW V \in SUBSET Vias
                 PROVE  /\ [dir : Inward, via : V]
                              = {a \in Attrs : "in" \in a.dir /\ a.via \in V}
                        /\ [dir : Outward, via : V]
                              = {a \in Attrs : "out" \in a.dir /\ a.via \in V}
      OBVIOUS
    <3>1. Inward \in SUBSET Dirs /\ Outward \in SUBSET Dirs
      BY <1>1
    <3>2. /\ [dir : Inward, via : V] = {a \in Attrs : a.dir \in Inward /\ a.via \in V}
          /\ [dir : Outward, via : V] = {a \in Attrs : a.dir \in Outward /\ a.via \in V}
      BY <1>2, <3>1, Zenon
    <3>3. QED
      BY <2>2, <3>2
  <2>4. QED
    BY <2>1, <2>3
<1>5. /\ [dir : {{"in"}}, via : {"alias"}]
           = {a \in Attrs : ("in" \in a.dir /\ "out" \notin a.dir) /\ a.via = "alias"}
      /\ [dir : {{"out"}}, via : {"alias"}]
           = {a \in Attrs : ("out" \in a.dir /\ "in" \notin a.dir) /\ a.via = "alias"}
      /\ [dir : {{"in", "out"}}, via : {"alias"}]
           = {a \in Attrs : ("in" \in a.dir /\ "out" \in a.dir) /\ a.via = "alias"}
  <2>1. \A a \in Attrs : /\ a.dir = {"in"} <=> "in" \in a.dir /\ "out" \notin a.dir
                         /\ a.dir = {"out"} <=> "out" \in a.dir /\ "in" \notin a.dir
                         /\ a.dir = {"in", "out"} <=> "in" \in a.dir /\ "out" \in a.dir
    BY <1>1, <1>3
  <2>2. ASSUME NEW d \in Dirs
        PROVE  [dir : {d}, via : {"alias"}] = {a \in Attrs : a.dir = d /\ a.via = "alias"}
    BY DEF Attrs
  <2>3. {"in"} \in Dirs /\ {"out"} \in Dirs /\ {"in", "out"} \in Dirs
    OBVIOUS
  <2> HIDE DEF Dirs, Vias
  <2>4. /\ [dir : {{"in"}}, via : {"alias"}]
             = {a \in Attrs : a.dir = {"in"} /\ a.via = "alias"}
        /\ [dir : {{"out"}}, via : {"alias"}]
             = {a \in Attrs : a.dir = {"out"} /\ a.via = "alias"}
        /\ [dir : {{"in", "out"}}, via : {"alias"}]
             = {a \in Attrs : a.dir = {"in", "out"} /\ a.via = "alias"}
    BY <2>2, <2>3, Zenon
  <2>5. QED
    BY <2>1, <2>4
<1>6. \A a \in Attrs : a.via # "alias" <=> a.via \in {"auto", "pointer", "fixed"}
  BY <1>3
<1>7. \A p : Entering(p) \subseteq Attrs
  BY DEF Entering
<1>8. QED
  BY <1>4, <1>5, <1>6 DEF Entering, Enters


\* What the parts count, in terms of what enters them.
LEMMA CountsEntering ==
  ASSUME dispatch.buffers \in Seq(Buffer)
  PROVE  LET gone(p) == Gone(p, Len(dispatch.buffers) + 1) IN
         /\ Count("statics") = gone("statics") /\ Count("send") = gone("send")
         /\ Count("recv") = gone("recv") /\ Count("exch") = gone("exch")
         /\ Count("list") = gone("list") /\ TableLength = gone("table")
         /\ gone("copy") = 0 /\ gone("words") = 0 /\ gone("objects") = 0
         /\ \A p \in Positions : gone(p) \in Nat
<1> DEFINE gone(p) == Gone(p, Len(dispatch.buffers) + 1)
<1>1. \A p : gone(p) = Number(Entering(p))
  BY GoneAtTheEnd
<1>3. /\ Number([dir : Inward, via : {"auto"}])
           + Number([dir : Inward, via : {"pointer", "fixed"}]) = gone("statics")
      /\ Number([dir : Inward, via : {"auto"}])
           + Number([dir : {{"in"}}, via : {"alias"}]) = gone("send")
      /\ Number([dir : Outward, via : {"auto"}])
           + Number([dir : {{"out"}}, via : {"alias"}]) = gone("recv")
      /\ Number([dir : Outward, via : {"auto"}])
           + Number([dir : Outward, via : {"pointer"}]) = gone("table")
  <2>1. /\ gone("statics") = Number([dir : Inward, via : {"auto"}]
                                     \cup [dir : Inward, via : {"pointer", "fixed"}])
        /\ gone("send") = Number([dir : Inward, via : {"auto"}]
                                  \cup [dir : {{"in"}}, via : {"alias"}])
        /\ gone("recv") = Number([dir : Outward, via : {"auto"}]
                                  \cup [dir : {{"out"}}, via : {"alias"}])
        /\ gone("table") = Number([dir : Outward, via : {"auto"}]
                                   \cup [dir : Outward, via : {"pointer"}])
    BY <1>1, EnteringParts
  <2>2. /\ [dir : Inward, via : {"auto"}] \cap [dir : Inward, via : {"pointer", "fixed"}] = {}
        /\ [dir : Inward, via : {"auto"}] \cap [dir : {{"in"}}, via : {"alias"}] = {}
        /\ [dir : Outward, via : {"auto"}] \cap [dir : {{"out"}}, via : {"alias"}] = {}
        /\ [dir : Outward, via : {"auto"}] \cap [dir : Outward, via : {"pointer"}] = {}
    OBVIOUS
  <2> HIDE DEF gone
  <2>3. gone("statics") = Number([dir : Inward, via : {"auto"}])
                            + Number([dir : Inward, via : {"pointer", "fixed"}])
    BY <2>1, <2>2, NumberSum, Zenon
  <2>4. gone("send") = Number([dir : Inward, via : {"auto"}])
                         + Number([dir : {{"in"}}, via : {"alias"}])
    BY <2>1, <2>2, NumberSum, Zenon
  <2>5. gone("recv") = Number([dir : Outward, via : {"auto"}])
                         + Number([dir : {{"out"}}, via : {"alias"}])
    BY <2>1, <2>2, NumberSum, Zenon
  <2>6. gone("table") = Number([dir : Outward, via : {"auto"}])
                          + Number([dir : Outward, via : {"pointer"}])
    BY <2>1, <2>2, NumberSum, Zenon
  <2>7. QED
    BY <2>3, <2>4, <2>5, <2>6
<1>4. gone("table") + Number([dir : Outward, via : {"fixed"}]) = gone("list")
  <2>2. ([dir : Outward, via : {"auto"}] \cup [dir : Outward, via : {"pointer"}])
          \cap [dir : Outward, via : {"fixed"}] = {}
    OBVIOUS
  <2>3. /\ gone("table") = Number([dir : Outward, via : {"auto"}]
                                   \cup [dir : Outward, via : {"pointer"}])
        /\ gone("list") = Number(([dir : Outward, via : {"auto"}]
                                    \cup [dir : Outward, via : {"pointer"}])
                                  \cup [dir : Outward, via : {"fixed"}])
    BY <1>1, EnteringParts
  <2> HIDE DEF gone
  <2>4. QED
    BY <2>2, <2>3, NumberSum, Zenon
<1>5. gone("exch") = Number([dir : {{"in", "out"}}, via : {"alias"}])
  BY <1>1, EnteringParts
<1>6. \A p \in {"copy", "words", "objects"} : gone(p) = 0
  <2>1. Number({}) = 0
    <3>1. {i \in DOMAIN dispatch.buffers : dispatch.buffers[i].attr \in {}} = {}
      OBVIOUS
    <3>2. QED
      BY <3>1, FS_EmptySet DEF Number
  <2> HIDE DEF gone
  <2>2. QED
    BY <1>1, <2>1, EnteringParts
<1>7. \A p : gone(p) \in Nat
  BY <1>1, NumberIsNat
<1> HIDE DEF gone
<1>8. /\ InAuto + InPointers = gone("statics") /\ InAuto + Alias({"in"}) = gone("send")
      /\ OutAuto + Alias({"out"}) = gone("recv") /\ OutAuto + OutPointers = gone("table")
      /\ gone("table") + OutFixed = gone("list") /\ Alias({"in", "out"}) = gone("exch")
  BY <1>3, <1>4, <1>5 DEF InAuto, InPointers, OutAuto, OutPointers, OutFixed, Alias
<1>9. TableLength = gone("table")
  BY <1>8 DEF TableLength
<1>10. /\ Count("statics") = gone("statics") /\ Count("send") = gone("send")
       /\ Count("recv") = gone("recv") /\ Count("exch") = gone("exch")
       /\ Count("list") = gone("list")
  BY <1>8, <1>9 DEF Count
<1>11. QED
  BY <1>6, <1>7, <1>9, <1>10 DEF gone

\* Where the parts are.
LEMMA StartsAreInt ==
  ASSUME dispatch.buffers \in Seq(Buffer), dispatch.data \in Nat,
         dispatch.handles \in Nat, dispatch.objects \in Nat
  PROVE  /\ DOMAIN Starts = {"copy", "statics", "send", "recv", "exch", "words", "list"}
         /\ \A p \in DOMAIN Starts : Starts[p] \in Int
         /\ TableOffset \in Nat /\ TableLength \in Nat
         /\ Starts["list"] = Starts["words"] + 4 * Count("words")
<1>1. TableOffset \in Nat
  <2> DEFINE objects == IF dispatch.domain THEN 16 + 4 * dispatch.objects ELSE 0
             size == 16 + objects + 16 + dispatch.data
  <2>1. size \in Nat
    OBVIOUS
  <2>2. TableOffset = 2 * ((size + 1) \div 2)
    BY DEF TableOffset
  <2> HIDE DEF size
  <2>3. QED
    BY <2>1, <2>2
<1>2. /\ TableLength \in Nat
      /\ Count("statics") \in Nat /\ Count("send") \in Nat /\ Count("recv") \in Nat
      /\ Count("exch") \in Nat
  BY CountsEntering DEF Positions
<1>3. Count("copy") \in Nat
  BY DEF Count
<1>4. Count("words") \in Nat
  <2>1. Count("words") = (TableOffset + 2 * TableLength + 3) \div 4
    BY DEF Count
  <2>2. QED
    BY <1>1, <1>2, <2>1
<1>5. Header \in Nat
  BY DEF Header
<1> DEFINE size(p) == Count(p) * Width[p]
           statics == Header + size("copy")
           send    == statics + size("statics")
           recv    == send + size("send")
           exch    == recv + size("recv")
           words   == exch + size("exch")
           list    == words + size("words")
<1>6. Starts = [copy |-> Header, statics |-> statics, send |-> send, recv |-> recv,
                exch |-> exch, words |-> words, list |-> list]
  BY DEF Starts
<1>7. \A p \in DOMAIN Width : Count(p) \in Nat => size(p) \in Nat
  <2>1. \A p \in DOMAIN Width : Width[p] \in Nat
    BY DEF Width
  <2>2. \A m, n \in Nat : m * n \in Nat
    OBVIOUS
  <2>3. QED
    BY <2>1, <2>2, Zenon
<1>8. /\ size("copy") \in Nat /\ size("statics") \in Nat /\ size("send") \in Nat
      /\ size("recv") \in Nat /\ size("exch") \in Nat
      /\ size("words") \in Nat
  <2>1. {"copy", "statics", "send", "recv", "exch", "words"} \subseteq DOMAIN Width
    BY WidthOf
  <2> HIDE DEF size
  <2>2. QED
    BY <1>2, <1>3, <1>4, <1>7, <2>1
<1>9. size("words") = 4 * Count("words")
  <2>1. size("words") = Count("words") * 4
    BY WidthOf, Zenon
  <2> HIDE DEF size
  <2>2. QED
    BY <1>4, <2>1
<1> HIDE DEF size
<1>10. /\ statics \in Int /\ send \in Int /\ recv \in Int /\ exch \in Int
       /\ words \in Int /\ list \in Int
       /\ list = words + 4 * Count("words")
  <2>1. statics \in Int
    BY <1>5, <1>8
  <2> HIDE DEF statics
  <2>2. send \in Int
    BY <1>8, <2>1
  <2> HIDE DEF send
  <2>3. recv \in Int
    BY <1>8, <2>2
  <2> HIDE DEF recv
  <2>4. exch \in Int
    BY <1>8, <2>3
  <2> HIDE DEF exch
  <2>5. words \in Int
    BY <1>8, <2>4
  <2> HIDE DEF words
  <2>6. QED
    BY <1>8, <1>9, <2>1, <2>2, <2>3, <2>4, <2>5
<1> HIDE DEF statics, send, recv, exch, words, list
<1>11. Header \in Int
  BY <1>5
<1>12. DOMAIN Starts = {"copy", "statics", "send", "recv", "exch", "words", "list"}
  BY <1>6
<1>13. /\ Starts["copy"] \in Int /\ Starts["statics"] \in Int /\ Starts["send"] \in Int
       /\ Starts["recv"] \in Int /\ Starts["exch"] \in Int
       /\ Starts["words"] = words /\ Starts["list"] = list
  BY <1>6, <1>10, <1>11
<1>14. \A p \in DOMAIN Starts : Starts[p] \in Int
  <2> SUFFICES ASSUME NEW p \in DOMAIN Starts
               PROVE  Starts[p] \in Int
    OBVIOUS
  <2>1. QED
    BY <1>10, <1>12, <1>13
<1>15. QED
  BY <1>1, <1>2, <1>10, <1>12, <1>13, <1>14, Zenon

LEMMA UnitIsNat == ASSUME NEW p PROVE Unit(p) \in Nat
  BY WidthOf DEF Unit

LEMMA Distributes == ASSUME NEW u \in Nat, NEW g \in Nat
                     PROVE  u * (g + 1) = u * g + u /\ u * g \in Int
  BY SMT

LEMMA BeginIsInt ==
  ASSUME dispatch.buffers \in Seq(Buffer), dispatch.data \in Nat,
         dispatch.handles \in Nat, dispatch.objects \in Nat, NEW p \in Positions
  PROVE  Begin(p) \in Int
<1>1. /\ DOMAIN Starts = {"copy", "statics", "send", "recv", "exch", "words", "list"}
      /\ \A q \in DOMAIN Starts : Starts[q] \in Int
      /\ TableOffset \in Nat
  BY StartsAreInt
<1>2. ObjectsStart(Starts["words"]) \in Int
  <2>1. \A w \in Int : ObjectsStart(w) \in Int
    BY DEF ObjectsStart, AlignedDataStart
  <2>2. QED
    BY <1>1, <2>1
<1>3. CASE p = "copy"
  BY <1>1, <1>3 DEF Begin
<1>4. CASE p = "objects"
  <2>1. (IF dispatch.domain THEN 4 * dispatch.objects ELSE 0) \in Int
    OBVIOUS
  <2>2. Begin(p) = ObjectsStart(Starts["words"])
                     + (IF dispatch.domain THEN 4 * dispatch.objects ELSE 0)
    BY <1>4 DEF Begin
  <2>3. QED
    BY <1>2, <2>1, <2>2
<1>5. CASE p = "table"
  BY <1>1, <1>5 DEF Begin
<1>6. CASE p \notin {"copy", "objects", "table"}
  BY <1>1, <1>6 DEF Begin, Positions
<1>7. QED
  BY <1>3, <1>4, <1>5, <1>6

\* Nothing that is counted depends on what has been written.
LEMMA CountsStay ==
  ASSUME dispatch' = dispatch, NEW p
  PROVE  /\ Begin(p)' = Begin(p)
         /\ \A n : Gone(p, n)' = Gone(p, n)
<1>1. \A attrs : Number(attrs)' = Number(attrs)
  BY DEF Number
<1>2. /\ TableOffset' = TableOffset /\ Header' = Header
      /\ \A w : ObjectsStart(w)' = ObjectsStart(w)
  BY DEF TableOffset, Header, ObjectsStart
<1>3. \A q : Count(q)' = Count(q)
  BY <1>1, <1>2 DEF Count, TableLength, InAuto, OutAuto, InPointers, OutPointers,
     OutFixed, Alias
<1>4. Starts' = Starts
  BY <1>2, <1>3 DEF Starts
<1>5. QED
  BY <1>2, <1>4 DEF Begin, Gone

\* Laying out and every buffer keep the pointers where the buffers processed so
\* far have moved them, and the account of server_pointer_size.
THEOREM MessageInvariance == MessageSpec => []MessageInv
<1>1. MessageInit => MessageInv
  <2> SUFFICES ASSUME MessageInit
               PROVE  MessageInv
    OBVIOUS
  <2>1. dispatch \in Dispatches
    BY DEF MessageInit
  <2>2. dispatch.buffers \in Seq(Buffer)
    <3>1. PICK m \in 0 .. MaxBuffers :
            dispatch.buffers \in [1 .. m -> [attr : Attrs, size : Sizes]]
      BY <2>1 DEF Dispatches, SeqOf
    <3>2. [attr : Attrs, size : Sizes] \subseteq Buffer
      BY MessageAssumption DEF Buffer
    <3>3. m \in Nat
      BY MessageAssumption
    <3>4. dispatch.buffers \in [1 .. m -> Buffer]
      BY <3>1, <3>2
    <3>5. QED
      BY <3>3, <3>4
  <2>3. /\ dispatch.data \in Nat /\ dispatch.handles \in Nat
        /\ dispatch.objects \in Nat /\ dispatch.domain \in BOOLEAN
        /\ dispatch.pid \in BOOLEAN /\ dispatch.pointerSize \in 0 .. Word - 1
    <3>1. /\ dispatch.data \in DataSizes /\ dispatch.handles \in 0 .. MaxHandles
          /\ dispatch.objects \in 0 .. MaxHandles /\ dispatch.domain \in BOOLEAN
          /\ dispatch.pid \in BOOLEAN /\ dispatch.pointerSize \in PointerSizes
      BY <2>1 DEF Dispatches
    <3>2. /\ DataSizes \subseteq Nat /\ MaxHandles \in Nat
          /\ PointerSizes \subseteq 0 .. Word - 1
      BY MessageAssumption
    <3>3. dispatch.handles \in Nat /\ dispatch.objects \in Nat
      BY <3>1, <3>2
    <3>4. QED
      BY <3>1, <3>2, <3>3, Zenon
  <2>4. next = 0 /\ req = [at |-> <<>>, left |-> dispatch.pointerSize, passed |-> 0,
                           overdrawn |-> FALSE]
    BY DEF MessageInit
  <2>5. next \in 0 .. Len(dispatch.buffers) + 1
    BY <2>2, <2>4
  <2>6. MessageTypeOK
    BY <2>2, <2>3, <2>4, <2>5 DEF MessageTypeOK
  <2>7. Word \in Int
    BY MessageAssumption
  <2>8. QED
    BY <2>3, <2>4, <2>6, <2>7 DEF MessageInv, Balanced, CountedSoFar
<1>2. MessageInv /\ [MessageNext]_messageVars => MessageInv'
  <2> SUFFICES ASSUME MessageInv, [MessageNext]_messageVars
               PROVE  MessageInv'
    OBVIOUS
  <2>1. /\ dispatch.buffers \in Seq(Buffer) /\ dispatch.data \in Nat
        /\ dispatch.handles \in Nat /\ dispatch.objects \in Nat
        /\ dispatch.pointerSize \in 0 .. Word - 1
        /\ next \in 0 .. Len(dispatch.buffers) + 1
        /\ Len(dispatch.buffers) \in Nat /\ Word \in Nat \ {0}
    BY MessageAssumption DEF MessageInv, MessageTypeOK
  <2>2. CASE MakeRequest
    <3> DEFINE placed == [Layout EXCEPT
                        !["objects"] = @ + IF dispatch.domain THEN 4 * dispatch.objects ELSE 0,
                        !["copy"] = @ + 4 * dispatch.handles]
    <3>1. /\ next = 0 /\ next' = 1 /\ dispatch' = dispatch
          /\ req' = [req EXCEPT !.at = placed]
      BY <2>2 DEF MakeRequest
    <3>2. req = [at |-> <<>>, left |-> dispatch.pointerSize, passed |-> 0,
                 overdrawn |-> FALSE]
      BY <3>1 DEF MessageInv, MessageTypeOK
    <3> HIDE DEF placed
    <3>3. req' = [at |-> placed, left |-> dispatch.pointerSize, passed |-> 0,
                  overdrawn |-> FALSE]
      BY <3>1, <3>2
    <3>4. /\ DOMAIN Starts = {"copy", "statics", "send", "recv", "exch", "words", "list"}
          /\ \A p \in DOMAIN Starts : Starts[p] \in Int
          /\ TableOffset \in Nat
      BY <2>1, StartsAreInt
    <3>5. \A w \in Int : ObjectsStart(w) \in Int
      BY <2>1 DEF ObjectsStart, AlignedDataStart
    <3>6. /\ DOMAIN Layout = Positions
          /\ Layout["objects"] = ObjectsStart(Starts["words"])
          /\ Layout["table"] = Starts["words"] + TableOffset
          /\ \A p \in DOMAIN Starts : Layout[p] = Starts[p]
      BY <3>4 DEF Layout, Positions
    <3>7. /\ placed \in [Positions -> Int]
          /\ \A p \in Positions : placed[p] = Begin(p)
      <4> DEFINE behind == IF dispatch.domain THEN 4 * dispatch.objects ELSE 0
      <4>1. /\ DOMAIN placed = Positions
            /\ placed["objects"] = Layout["objects"] + behind
            /\ placed["copy"] = Layout["copy"] + 4 * dispatch.handles
            /\ \A p \in Positions \ {"objects", "copy"} : placed[p] = Layout[p]
            /\ placed = [p \in Positions |-> placed[p]]
        BY <3>6 DEF placed, Positions
      <4> HIDE DEF placed
      <4>2. behind \in Int /\ 4 * dispatch.handles \in Int
        BY <2>1
      <4>3. \A p \in Positions : placed[p] = Begin(p)
        <5>1. placed["copy"] = Begin("copy")
          BY <3>4, <3>6, <4>1 DEF Begin
        <5>2. placed["objects"] = Begin("objects")
          BY <3>6, <4>1 DEF Begin
        <5>3. placed["table"] = Begin("table")
          BY <3>6, <4>1 DEF Begin, Positions
        <5>4. /\ placed["statics"] = Begin("statics") /\ placed["send"] = Begin("send")
              /\ placed["recv"] = Begin("recv") /\ placed["exch"] = Begin("exch")
              /\ placed["words"] = Begin("words") /\ placed["list"] = Begin("list")
          BY <3>4, <3>6, <4>1 DEF Begin, Positions
        <5>5. QED
          BY <5>1, <5>2, <5>3, <5>4 DEF Positions
      <4> HIDE DEF behind
      <4>4. \A p \in Positions : Layout[p] \in Int
        BY <3>4, <3>5, <3>6 DEF Positions
      <4>5. \A p \in Positions : placed[p] \in Int
        <5> SUFFICES ASSUME NEW p \in Positions
                     PROVE  placed[p] \in Int
          OBVIOUS
        <5>1. CASE p = "objects"
          BY <4>1, <4>2, <4>4, <5>1
        <5>2. CASE p = "copy"
          BY <2>1, <4>1, <4>2, <4>4, <5>2
        <5>3. CASE p \notin {"objects", "copy"}
          BY <4>1, <4>4, <5>3
        <5>4. QED
          BY <5>1, <5>2, <5>3
      <4>6. QED
        BY <4>1, <4>3, <4>5
    <3>8. MessageTypeOK'
      <4>1. req' \in Requests
        BY <2>1, <3>3, <3>7 DEF Requests
      <4>2. QED
        BY <2>1, <3>1, <4>1 DEF MessageInv, MessageTypeOK
    <3>9. Balanced'
      BY <2>1, <3>1, <3>3 DEF Balanced
    <3>10. CountedSoFar'
      <4> SUFFICES ASSUME NEW p \in Positions
                   PROVE  req'.at[p] = Begin(p)' + Unit(p) * Gone(p, next)'
        BY DEF CountedSoFar
      <4>1. Begin(p)' = Begin(p) /\ \A n : Gone(p, n)' = Gone(p, n)
        BY <3>1, CountsStay
      <4>2. Gone(p, next)' = 0
        BY <3>1, <2>1, GoneAtTheStart DEF Gone
      <4>3. Unit(p) \in Int /\ Begin(p) \in Int
        BY <3>7, UnitIsNat
      <4>4. req'.at[p] = Begin(p)
        BY <3>3, <3>7
      <4>5. QED
        BY <4>1, <4>2, <4>3, <4>4
    <3>11. QED
      BY <3>8, <3>9, <3>10 DEF MessageInv
  <2>3. CASE ProcessBuffer
    <3> DEFINE b == dispatch.buffers[next]
    <3>1. /\ next \in DOMAIN dispatch.buffers /\ next' = next + 1
          /\ req' = Processed(req, b) /\ dispatch' = dispatch
      BY <2>3 DEF ProcessBuffer
    <3>2. b \in Buffer /\ req \in Requests /\ next \in 1 .. Len(dispatch.buffers)
      BY <2>1, <3>1 DEF MessageInv, MessageTypeOK
    <3> HIDE DEF b
    <3>3. /\ req' \in Requests
          /\ \A p \in Positions :
               req'.at[p] = req.at[p] + (IF Enters(b.attr, p) THEN Unit(p) ELSE 0)
          /\ req'.overdrawn <=> (req.overdrawn \/ Overdraws(req, b))
          /\ ~Overdraws(req, b) => req'.left + req'.passed = req.left + req.passed
      BY <3>1, <3>2, ProcessedFills
    <3>4. MessageTypeOK'
      BY <2>1, <3>1, <3>2, <3>3 DEF MessageInv, MessageTypeOK
    <3>5. Balanced'
      BY <2>1, <3>1, <3>3 DEF MessageInv, Balanced, Requests
    <3>6. CountedSoFar'
      <4> SUFFICES ASSUME NEW p \in Positions
                   PROVE  req'.at[p] = Begin(p)' + Unit(p) * Gone(p, next)'
        BY DEF CountedSoFar
      <4>1. req.at[p] = Begin(p) + Unit(p) * Gone(p, next)
        BY <3>2 DEF MessageInv, CountedSoFar
      <4>2. Begin(p)' = Begin(p) /\ Begin(p) \in Int
        BY <2>1, <3>1, CountsStay, BeginIsInt
      <4>3. Gone(p, next)' = Gone(p, next + 1)
        BY <3>1 DEF Gone
      <4>4. /\ Gone(p, next) \in Nat
            /\ Gone(p, next + 1) = Gone(p, next) + (IF Enters(b.attr, p) THEN 1 ELSE 0)
        BY <2>1, <3>1, GoneStep DEF b
      <4>5. Unit(p) \in Nat
        BY UnitIsNat
      <4>6. Unit(p) * (Gone(p, next) + 1) = Unit(p) * Gone(p, next) + Unit(p)
            /\ Unit(p) * Gone(p, next) \in Int
        BY <4>4, <4>5, Distributes
      <4>7. req'.at[p] = req.at[p] + (IF Enters(b.attr, p) THEN Unit(p) ELSE 0)
        BY <3>3
      <4> HIDE DEF b
      <4>8. CASE Enters(b.attr, p)
        BY <4>1, <4>2, <4>3, <4>4, <4>5, <4>6, <4>7, <4>8
      <4>9. CASE ~Enters(b.attr, p)
        <5>1. Gone(p, next + 1) = Gone(p, next)
          BY <4>4, <4>9
        <5>2. req'.at[p] = Begin(p) + Unit(p) * Gone(p, next)
          BY <4>1, <4>2, <4>6, <4>7, <4>9
        <5>3. QED
          BY <4>2, <4>3, <5>1, <5>2
      <4>10. QED
        BY <4>8, <4>9
    <3>7. QED
      BY <3>4, <3>5, <3>6 DEF MessageInv
  <2>4. CASE UNCHANGED messageVars
    <3>1. dispatch' = dispatch /\ req' = req /\ next' = next
      BY <2>4 DEF messageVars
    <3>2. \A p : Begin(p)' = Begin(p) /\ \A n : Gone(p, n)' = Gone(p, n)
      BY <3>1, CountsStay
    <3>3. \A p : Gone(p, next)' = Gone(p, next)
      BY <3>1 DEF Gone
    <3>4. MessageTypeOK' /\ Balanced'
      BY <3>1 DEF MessageInv, MessageTypeOK, Balanced
    <3>5. CountedSoFar'
      BY <3>1, <3>2, <3>3 DEF MessageInv, CountedSoFar
    <3>6. QED
      BY <3>4, <3>5 DEF MessageInv
  <2>5. QED
    BY <2>2, <2>3, <2>4 DEF MessageNext
<1>3. QED
  BY <1>1, <1>2, PTL DEF MessageSpec

\* For any number of buffers of any kinds, what cmifMakeRequest counts is what
\* _serviceRequestProcessBuffer writes, and what shares the data words stays
\* apart and inside.
THEOREM CountedAndFilledAlike == MessageSpec => []FilledAsCounted
<1>1. MessageInv => FilledAsCounted
  <2> SUFFICES ASSUME MessageInv, Filled
               PROVE  /\ \A p \in DOMAIN Starts \ {"words"} :
                           req.at[p] = Starts[p] + Count(p) * Width[p]
                      /\ ObjectsStart(Starts["words"]) <= req.at["objects"]
                      /\ req.at["objects"] <= Starts["words"] + TableOffset
                      /\ req.at["table"] = Starts["words"] + TableOffset + 2 * TableLength
                      /\ req.at["table"] <= Starts["list"]
    BY DEF FilledAsCounted
  <2> DEFINE gone(p) == Gone(p, Len(dispatch.buffers) + 1)
             w == Starts["words"]
  <2>1. /\ dispatch.buffers \in Seq(Buffer) /\ dispatch.data \in Nat
        /\ dispatch.handles \in Nat /\ dispatch.objects \in Nat
        /\ next = Len(dispatch.buffers) + 1 /\ next # 0
    BY DEF MessageInv, MessageTypeOK, Filled
  <2>2. \A p \in Positions : req.at[p] = Begin(p) + Unit(p) * gone(p)
    BY <2>1 DEF MessageInv, CountedSoFar
  <2>3. /\ Count("statics") = gone("statics") /\ Count("send") = gone("send")
        /\ Count("recv") = gone("recv") /\ Count("exch") = gone("exch")
        /\ Count("list") = gone("list") /\ TableLength = gone("table")
        /\ gone("copy") = 0 /\ gone("objects") = 0
        /\ \A p \in Positions : gone(p) \in Nat
    BY <2>1, CountsEntering
  <2> HIDE DEF gone
  <2>4. /\ DOMAIN Starts = {"copy", "statics", "send", "recv", "exch", "words", "list"}
        /\ \A p \in DOMAIN Starts : Starts[p] \in Int
        /\ TableOffset \in Nat /\ TableLength \in Nat
        /\ Starts["list"] = Starts["words"] + 4 * Count("words")
    BY <2>1, StartsAreInt
  <2>5. /\ Unit("copy") = 4 /\ Unit("statics") = 8 /\ Unit("send") = 12
        /\ Unit("recv") = 12 /\ Unit("exch") = 12 /\ Unit("list") = 8
        /\ Unit("objects") = 2 /\ Unit("table") = 2
    BY WidthOf DEF Unit
  <2>6. ASSUME NEW p \in DOMAIN Starts \ {"words"}
        PROVE  req.at[p] = Starts[p] + Count(p) * Width[p]
    <3>1. CASE p = "copy"
      <4>1. req.at[p] = Starts["copy"] + 4 * dispatch.handles + 4 * 0
        BY <2>2, <2>3, <2>5, <3>1 DEF Begin, Positions
      <4>2. Count(p) = dispatch.handles /\ Width[p] = 4
        BY <3>1, WidthOf DEF Count
      <4>3. QED
        BY <2>1, <2>4, <3>1, <4>1, <4>2
    <3>2. CASE p \in {"statics", "send", "recv", "exch", "list"}
      <4>1. Begin(p) = Starts[p] /\ Count(p) = gone(p) /\ gone(p) \in Nat
            /\ p \in Positions
        BY <2>3, <3>2 DEF Begin, Positions
      <4>2. Unit(p) = Width[p] /\ Unit(p) \in Nat
        BY <3>2, WidthOf, UnitIsNat DEF Unit
      <4>3. req.at[p] = Starts[p] + Width[p] * Count(p)
        BY <2>2, <4>1, <4>2
      <4>4. \A m, n \in Nat : m * n = n * m
        OBVIOUS
      <4>5. Width[p] * Count(p) = Count(p) * Width[p]
        BY <4>1, <4>2, <4>4, Zenon
      <4>6. QED
        BY <4>3, <4>5
    <3>3. QED
      BY <2>4, <3>1, <3>2
  <2>7. req.at["objects"] = ObjectsStart(w) + (IF dispatch.domain THEN 4 * dispatch.objects ELSE 0)
    <3>1. req.at["objects"] = Begin("objects") + 2 * 0
      BY <2>2, <2>3, <2>5 DEF Positions
    <3>2. Begin("objects") = ObjectsStart(w) + (IF dispatch.domain THEN 4 * dispatch.objects ELSE 0)
      BY DEF Begin
    <3>3. Begin("objects") \in Int
      BY <2>1, BeginIsInt DEF Positions
    <3>4. QED
      BY <3>1, <3>2, <3>3
  <2>8. w \in Int
    BY <2>4
  <2>9. req.at["table"] = w + TableOffset + 2 * TableLength
    <3>1. req.at["table"] = Begin("table") + 2 * TableLength
      BY <2>2, <2>3, <2>5 DEF Positions
    <3>2. Begin("table") = w + TableOffset
      BY DEF Begin
    <3>3. QED
      BY <3>1, <3>2
  <2> HIDE DEF w
  <2>10. /\ ObjectsStart(w) <= req.at["objects"]
         /\ req.at["objects"] <= w + TableOffset
    <3>1. ObjectsStart(w) \in Int
      BY <2>1, <2>8 DEF ObjectsStart, AlignedDataStart
    <3>2. AlignedDataStart(w) <= w + 15 /\ AlignedDataStart(w) \in Int
      BY <2>8 DEF AlignedDataStart
    <3>3. 16 + (IF dispatch.domain THEN 16 + 4 * dispatch.objects ELSE 0) + 16
            + dispatch.data <= TableOffset
      <4> DEFINE objects == IF dispatch.domain THEN 16 + 4 * dispatch.objects ELSE 0
                 size == 16 + objects + 16 + dispatch.data
      <4>1. size \in Nat
        BY <2>1
      <4>2. TableOffset = 2 * ((size + 1) \div 2)
        BY DEF TableOffset
      <4> HIDE DEF size
      <4>3. size <= 2 * ((size + 1) \div 2)
        BY <4>1
      <4>4. QED
        BY <4>2, <4>3 DEF size
    <3>4. ObjectsStart(w) = AlignedDataStart(w) + (IF dispatch.domain THEN 16 ELSE 0)
                              + 16 + dispatch.data
      BY DEF ObjectsStart
    <3>5. dispatch.data \in Nat /\ 4 * dispatch.objects \in Nat
          /\ TableOffset \in Int
      BY <2>1, <2>4
    <3>8. CASE dispatch.domain
      <4>1. /\ req.at["objects"] = AlignedDataStart(w) + 16 + 16 + dispatch.data
                                     + 4 * dispatch.objects
            /\ ObjectsStart(w) <= req.at["objects"]
        BY <2>7, <3>1, <3>4, <3>5, <3>8
      <4>2. 16 + (16 + 4 * dispatch.objects) + 16 + dispatch.data <= TableOffset
        BY <3>3, <3>8
      <4>3. QED
        BY <2>8, <3>2, <3>5, <4>1, <4>2
    <3>9. CASE ~dispatch.domain
      <4>1. /\ req.at["objects"] = AlignedDataStart(w) + 0 + 16 + dispatch.data + 0
            /\ ObjectsStart(w) <= req.at["objects"]
        BY <2>7, <3>1, <3>4, <3>5, <3>9
      <4>2. 16 + 0 + 16 + dispatch.data <= TableOffset
        BY <3>3, <3>9
      <4>3. QED
        BY <2>8, <3>2, <3>5, <4>1, <4>2
    <3>10. QED
      BY <3>8, <3>9
  <2>11. req.at["table"] <= Starts["list"]
    <3>1. Count("words") = (TableOffset + 2 * TableLength + 3) \div 4
      BY DEF Count
    <3>2. Starts["list"] = w + 4 * Count("words")
      BY <2>4 DEF w
    <3>3. QED
      BY <2>4, <2>8, <2>9, <3>1, <3>2
  <2>12. QED
    BY <2>6, <2>9, <2>10, <2>11 DEF w
<1>2. QED
  BY <1>1, MessageInvariance, PTL

\* What is passed by pointer fits the server, until a buffer that has to be a
\* pointer asks for more than is left.
THEOREM PassedFits == MessageSpec => []PointersFitUnlessOverdrawn
<1>1. MessageInv => PointersFitUnlessOverdrawn
  BY MessageAssumption
  DEF MessageInv, MessageTypeOK, Balanced, PointersFitUnlessOverdrawn
<1>2. QED
  BY <1>1, MessageInvariance, PTL

-----------------------------------------------------------------------------
(* Both questions of detect.c and the request, side by side.               *)

\* Whatever is asked, in whatever order, each of the three goes on as it does
\* alone: the system keeps what has been proved of its parts.
THEOREM PartsAreKept == SystemSpec => VersionSpec /\ Spec /\ MessageSpec
<1>1. SystemInit => VersionInit /\ Init /\ MessageInit
  BY DEF SystemInit
<1>2. [SystemNext]_systemVars
        => [VersionNext]_versionVars /\ [Next]_vars /\ [MessageNext]_messageVars
  <2> SUFFICES ASSUME [SystemNext]_systemVars
               PROVE  [VersionNext]_versionVars /\ [Next]_vars /\ [MessageNext]_messageVars
    OBVIOUS
  <2>1. CASE BuildMessage
    BY <2>1 DEF BuildMessage, detectVars
  <2>2. ASSUME NEW t \in Threads, AskVersion(t)
        PROVE  [VersionNext]_versionVars /\ [Next]_vars /\ [MessageNext]_messageVars
    BY <2>2 DEF AskVersion, VersionNext
  <2>3. ASSUME NEW t \in Threads, AskPatch(t)
        PROVE  [VersionNext]_versionVars /\ [Next]_vars /\ [MessageNext]_messageVars
    BY <2>3 DEF AskPatch, Next
  <2>4. CASE UNCHANGED systemVars
    BY <2>4 DEF systemVars, detectVars
  <2>5. QED
    BY <2>1, <2>2, <2>3, <2>4 DEF SystemNext
<1>3. QED
  BY <1>1, <1>2, PTL DEF SystemSpec, VersionSpec, Spec, MessageSpec

\* All that a thread is told and all that a request says is right at once.
THEOREM SystemIsRight ==
  SystemSpec => [](AnswersAreWhole /\ OwnFailureOnly /\ FoundForGood
                     /\ FilledAsCounted /\ PointersFitUnlessOverdrawn)
BY PartsAreKept, WholeAnswers, DeniedByOwnFailure, FoundStaysFound,
   CountedAndFilledAlike, PassedFits, PTL
=============================================================================
