-------------------------- MODULE FileLoaderProofs --------------------------
(***************************************************************************)
(* A thread that nobody overlaps finds in the shared buffer what it wrote  *)
(* there: that is the inductive strengthening of OnlyOverlapMisleads.  It  *)
(* says, for each place in the hook, how much of the path has been copied, *)
(* and, after the first attempt has failed, that the rewritten path does   *)
(* not exist.                                                              *)
(***************************************************************************)
EXTENDS FileLoader, TLAPS

InHook == {"copyHead", "copyTail", "openBuffer"}

\* Every call under way is one the game makes, and a call in the rewriting part
\* of the hook has a buffer.
CallInv(t) ==
  /\ pc[t] # "game" => path[t] \in Calls
  /\ pc[t] \in InHook => BufferFor(language, path[t]) \in Buffers
  /\ pc[t] = "openPath" => BufferFor(language, path[t]) # "pathBypassBuffer"
  /\ pc[t] # "return" => result[t] = NoThing

\* What the undisturbed thread t has in its buffer.
HeadCopied(t) ==
  LET b == BufferFor(language, path[t]) IN
  /\ buffer[b].dir = TextAfter(path[t]).dir
  /\ buffer[b].name.head = TextAfter(path[t]).name.head

TailCopied(t) ==
  buffer[BufferFor(language, path[t])].name.tail = TextAfter(path[t]).name.tail

CopyInv(t) ==
  ~overlapped[t] =>
    /\ pc[t] \in {"copyTail", "openBuffer"} => HeadCopied(t)
    /\ pc[t] = "openBuffer" => TailCopied(t)
    /\ pc[t] = "openPath" =>
         \/ BufferFor(language, path[t]) = "none"
         \/ ~Exists(Candidate(language, path[t]))
    /\ pc[t] = "return" => result[t] = Resolve(language, path[t])

IInv == TypeOK /\ \A t \in Threads : CallInv(t) /\ CopyInv(t)

-----------------------------------------------------------------------------
(* Operators.                                                              *)

LEMMA BufferForType ==
  ASSUME NEW lang, NEW p
  PROVE  BufferFor(lang, p) \in Buffers \cup {"none"}
BY DEF BufferFor, Buffers

LEMMA TextAfterType ==
  ASSUME NEW p \in Paths
  PROVE  /\ TextAfter(p) \in Texts
         /\ TextAfter(p).dir = p.dir
<1>1. CASE p.root = "rom" /\ p.dir = "data_patch"
  BY <1>1 DEF TextAfter, Texts, Paths, Names
<1>2. CASE ~(p.root = "rom" /\ p.dir = "data_patch")
  BY <1>2 DEF TextAfter, Texts, Paths, Names
<1> QED BY <1>1, <1>2

\* Two texts with the same directory, head and tail are the same.
LEMMA TextsEqual ==
  ASSUME NEW s \in Texts, NEW u \in Texts,
         s.dir = u.dir, s.name.head = u.name.head, s.name.tail = u.name.tail
  PROVE  s = u
BY DEF Texts

\* The path an undisturbed thread opens is its candidate.
LEMMA SpelledIsCandidate ==
  ASSUME TypeOK, NEW t \in Threads, CallInv(t), CopyInv(t),
         pc[t] = "openBuffer", ~overlapped[t]
  PROVE  Spelled(BufferFor(language, path[t]), buffer[BufferFor(language, path[t])])
           = Candidate(language, path[t])
<1> DEFINE b == BufferFor(language, path[t])
<1>1. path[t] \in Paths
  BY CallsAssumption DEF CallInv
<1>2. b \in Buffers
  BY DEF CallInv, InHook
<1>3. buffer[b] \in Texts /\ TextAfter(path[t]) \in Texts
  BY <1>1, <1>2, TextAfterType DEF TypeOK
<1>4. HeadCopied(t) /\ TailCopied(t)
  BY DEF CopyInv
<1>5. buffer[b] = TextAfter(path[t])
  BY <1>3, <1>4, TextsEqual DEF HeadCopied, TailCopied
<1> QED BY <1>5 DEF Candidate

-----------------------------------------------------------------------------
LEMMA InitIInv == Init => IInv
<1> SUFFICES ASSUME Init PROVE IInv
  OBVIOUS
<1>1. NoText \in Texts
  BY DEF NoText, Texts, Dirs
<1>2. TypeOK
  BY <1>1 DEF Init, TypeOK
<1>3. \A t \in Threads : CallInv(t) /\ CopyInv(t)
  BY DEF Init, CallInv, CopyInv, InHook
<1> QED BY <1>2, <1>3 DEF IInv

LEMMA StutterIInv == IInv /\ UNCHANGED vars => IInv'
<1> SUFFICES ASSUME IInv, UNCHANGED vars PROVE IInv'
  OBVIOUS
<1>1. TypeOK'
  BY DEF IInv, TypeOK, vars, Exists
<1>2. \A t \in Threads : CallInv(t)' /\ CopyInv(t)'
  BY DEF IInv, CallInv, CopyInv, HeadCopied, TailCopied, Exists, Resolve, vars
<1> QED BY <1>1, <1>2 DEF IInv

\* An action that changes neither a buffer nor a mark disturbs only its thread.
LEMMA OthersKeep ==
  ASSUME IInv, NEW t \in Threads, NEW u \in Threads, u # t,
         pc'[u] = pc[u], path'[u] = path[u], result'[u] = result[u],
         overlapped'[u] = overlapped[u],
         UNCHANGED <<language, existing, buffer>>
  PROVE  CallInv(u)' /\ CopyInv(u)'
<1>1. CallInv(u) /\ CopyInv(u)
  BY DEF IInv
<1>2. CallInv(u)'
  BY <1>1 DEF CallInv
<1>3. CopyInv(u)'
  BY <1>1 DEF CopyInv, HeadCopied, TailCopied, Exists, Resolve
<1> QED BY <1>2, <1>3

LEMMA OpenFileIInv ==
  ASSUME IInv, NEW t \in Threads, NEW p \in Calls, OpenFile(t, p)
  PROVE  IInv'
<1> USE DEF OpenFile
<1>1. TypeOK'
  BY DEF IInv, TypeOK
<1>2. pc'[t] \in {"openPath", "copyHead"} /\ path'[t] = p
  BY DEF IInv, TypeOK
<1>3. CallInv(t)'
  <2>1. p \in Calls /\ pc'[t] # "game"
    BY <1>2
  <2>2. pc'[t] = "openPath" <=> BufferFor(language, p) = "none"
    BY DEF IInv, TypeOK
  <2>3. result'[t] = NoThing
    BY DEF IInv, CallInv
  <2> QED BY <1>2, <2>1, <2>2, <2>3, BufferForType DEF CallInv, InHook
<1>4. CopyInv(t)'
  <2>1. pc'[t] = "openPath" => BufferFor(language, p) = "none"
    BY DEF IInv, TypeOK
  <2> QED BY <1>2, <2>1 DEF CopyInv
<1>5. ASSUME NEW u \in Threads, u # t PROVE CallInv(u)' /\ CopyInv(u)'
  BY <1>5, OthersKeep DEF IInv, TypeOK
<1> QED BY <1>1, <1>3, <1>4, <1>5 DEF IInv

LEMMA OpenPathIInv ==
  ASSUME IInv, NEW t \in Threads, OpenPath(t)
  PROVE  IInv'
<1> USE DEF OpenPath
<1>1. TypeOK'
  <2>1. result'[t] \in existing \cup {NoThing}
    BY DEF Exists, IInv, TypeOK
  <2> QED BY <2>1 DEF IInv, TypeOK
<1>2. pc'[t] = "return" /\ pc[t] = "openPath" /\ CallInv(t) /\ CopyInv(t)
  BY DEF IInv, TypeOK
<1>3. CallInv(t)'
  BY <1>2 DEF CallInv, InHook
<1>4. CopyInv(t)'
  <2>1. ~overlapped[t] =>
          (IF Exists(path[t]) THEN path[t] ELSE NoThing) = Resolve(language, path[t])
    BY <1>2 DEF CopyInv, CallInv, Resolve
  <2>2. Resolve(language, path[t])' = Resolve(language, path[t])
    BY DEF Resolve, Exists
  <2> QED BY <1>2, <2>1, <2>2 DEF CopyInv, IInv, TypeOK
<1>5. ASSUME NEW u \in Threads, u # t PROVE CallInv(u)' /\ CopyInv(u)'
  BY <1>5, OthersKeep DEF IInv, TypeOK
<1> QED BY <1>1, <1>3, <1>4, <1>5 DEF IInv

LEMMA OpenBufferIInv ==
  ASSUME IInv, NEW t \in Threads, OpenBuffer(t)
  PROVE  IInv'
<1> USE DEF OpenBuffer
<1> DEFINE b == BufferFor(language, path[t])
           candidate == Spelled(b, buffer[b])
<1>1. TypeOK'
  <2>1. CASE Exists(candidate)
    BY <2>1 DEF IInv, TypeOK, Exists
  <2>2. CASE ~Exists(candidate)
    BY <2>2 DEF IInv, TypeOK
  <2> QED BY <2>1, <2>2
<1>2. /\ pc[t] = "openBuffer" /\ CallInv(t) /\ CopyInv(t) /\ TypeOK
      /\ b \in Buffers
  BY DEF IInv, CallInv, InHook
<1>3. ~overlapped[t] => candidate = Candidate(language, path[t])
  BY <1>2, SpelledIsCandidate
<1>4. CallInv(t)'
  <2>1. /\ pc'[t] \in {"return", "openPath"}
        /\ pc'[t] = "openPath" => b # "pathBypassBuffer"
    BY <1>2 DEF TypeOK
  <2>2. pc'[t] = "openPath" => result'[t] = NoThing
    <3>1. CASE Exists(candidate)
      BY <1>2, <3>1 DEF TypeOK
    <3>2. CASE ~Exists(candidate)
      BY <1>2, <3>2 DEF TypeOK, CallInv
    <3> QED BY <3>1, <3>2
  <2> QED BY <1>2, <2>1, <2>2 DEF CallInv, InHook
<1>5. CopyInv(t)'
  <2> SUFFICES ASSUME ~overlapped[t] PROVE CopyInv(t)'
    BY DEF CopyInv
  <2> HIDE DEF candidate
  <2>0. Candidate(language, path[t])' = Candidate(language, path[t])
    BY DEF Candidate
  <2>1. CASE Exists(candidate)
    <3>1. pc'[t] = "return" /\ result'[t] = Candidate(language, path[t])
      BY <1>2, <1>3, <2>1 DEF TypeOK, candidate
    <3>2. Resolve(language, path[t])' = Candidate(language, path[t])
      BY <1>2, <1>3, <2>1 DEF Resolve, Exists, Buffers
    <3> QED BY <3>1, <3>2 DEF CopyInv
  <2>2. CASE ~Exists(candidate)
    <3>1. ~Exists(Candidate(language, path[t])) /\ ~Exists(Candidate(language, path[t]))'
      BY <1>3, <2>2 DEF Exists
    <3>2. CASE b = "pathBypassBuffer"
      <4>1. pc'[t] = "return" /\ result'[t] = NoThing
        BY <1>2, <2>2, <3>2 DEF TypeOK, candidate, CallInv
      <4>2. Resolve(language, path[t])' = NoThing
        BY <3>1, <3>2 DEF Resolve, Exists
      <4> QED BY <4>1, <4>2 DEF CopyInv
    <3>3. CASE b # "pathBypassBuffer"
      <4>1. pc'[t] = "openPath"
        BY <1>2, <2>2, <3>3 DEF TypeOK, candidate
      <4> QED BY <3>1, <4>1 DEF CopyInv
    <3> QED BY <3>2, <3>3
  <2> QED BY <2>1, <2>2
<1>6. ASSUME NEW u \in Threads, u # t PROVE CallInv(u)' /\ CopyInv(u)'
  <2>1. CASE Exists(candidate)
    BY <1>6, <2>1, OthersKeep DEF IInv, TypeOK
  <2>2. CASE ~Exists(candidate)
    BY <1>6, <2>2, OthersKeep DEF IInv, TypeOK
  <2> QED BY <2>1, <2>2
<1> QED BY <1>1, <1>4, <1>5, <1>6 DEF IInv

LEMMA ReturnIInv ==
  ASSUME IInv, NEW t \in Threads, Return(t)
  PROVE  IInv'
<1> USE DEF Return
<1>1. TypeOK'
  BY DEF IInv, TypeOK
<1>2. pc'[t] = "game" /\ result'[t] = NoThing
  BY DEF IInv, TypeOK
<1>3. CallInv(t)' /\ CopyInv(t)'
  BY <1>2 DEF CallInv, CopyInv, InHook
<1>4. ASSUME NEW u \in Threads, u # t PROVE CallInv(u)' /\ CopyInv(u)'
  BY <1>4, OthersKeep DEF IInv, TypeOK
<1> QED BY <1>1, <1>3, <1>4 DEF IInv

\* A thread that writes a buffer leaves the others what they need, or marks
\* them as overlapped.
LEMMA WritersMark ==
  ASSUME IInv, NEW t \in Threads, NEW u \in Threads, u # t,
         MarkOverlapped(t, BufferFor(language, path[t])),
         buffer' = [buffer EXCEPT ![BufferFor(language, path[t])] =
                      buffer'[BufferFor(language, path[t])]],
         pc'[u] = pc[u],
         UNCHANGED <<language, existing, path, result>>
  PROVE  CallInv(u)' /\ CopyInv(u)'
<1> DEFINE b == BufferFor(language, path[t])
           c == BufferFor(language, path[u])
<1>1. CallInv(u) /\ CopyInv(u)
  BY DEF IInv
<1>2. CallInv(u)'
  BY <1>1 DEF CallInv
<1>3. CopyInv(u)'
  <2> SUFFICES ASSUME ~overlapped'[u] PROVE CopyInv(u)'
    BY DEF CopyInv
  <2>1. ~overlapped[u] /\ ~(pc[u] \in {"copyTail", "openBuffer"} /\ c = b)
    BY DEF MarkOverlapped, Depending
  <2>2. pc[u] \in {"copyTail", "openBuffer"} => c \in Buffers /\ buffer'[c] = buffer[c]
    BY <1>1, <2>1 DEF CallInv, InHook, IInv, TypeOK
  <2>3. pc'[u] \in {"copyTail", "openBuffer"} => HeadCopied(u)'
    BY <1>1, <2>1, <2>2 DEF CopyInv, HeadCopied
  <2>4. pc'[u] = "openBuffer" => TailCopied(u)'
    BY <1>1, <2>1, <2>2 DEF CopyInv, TailCopied
  <2>5. pc'[u] = "return" => result'[u] = Resolve(language, path[u])'
    BY <1>1, <2>1 DEF CopyInv, Resolve, Exists
  <2>6. pc'[u] = "openPath" => \/ BufferFor(language, path[u])' = "none"
                               \/ ~Exists(Candidate(language, path[u]))'
    BY <1>1, <2>1 DEF CopyInv, Exists
  <2> QED BY <2>3, <2>4, <2>5, <2>6 DEF CopyInv
<1> QED BY <1>2, <1>3

LEMMA CopyHeadIInv ==
  ASSUME IInv, NEW t \in Threads, CopyHead(t)
  PROVE  IInv'
<1> DEFINE b == BufferFor(language, path[t])
           text == TextAfter(path[t])
<1>1. /\ pc[t] = "copyHead" /\ CallInv(t) /\ TypeOK /\ b \in Buffers
      /\ path[t] \in Paths
  BY CallsAssumption DEF CopyHead, IInv, CallInv, InHook
<1>2. text \in Texts /\ buffer[b] \in Texts
  BY <1>1, TextAfterType DEF TypeOK
<1>3. /\ buffer'[b] = [buffer[b] EXCEPT !.dir = text.dir, !.name.head = text.name.head]
      /\ buffer' = [buffer EXCEPT ![b] = buffer'[b]]
  BY <1>1, <1>2 DEF CopyHead, TypeOK
<1>4. /\ buffer'[b] \in Texts
      /\ buffer'[b].dir = text.dir /\ buffer'[b].name.head = text.name.head
  <2>1. /\ buffer[b].name \in [head : Halves \cup {Cut}, tail : Halves \cup {Cut}]
        /\ text.name.head \in Halves \cup {Cut} /\ text.dir \in Dirs
    BY <1>2 DEF Texts
  <2>2. [buffer[b].name EXCEPT !.head = text.name.head]
          \in [head : Halves \cup {Cut}, tail : Halves \cup {Cut}]
    BY <2>1
  <2>3. buffer'[b] = [dir |-> text.dir,
                      name |-> [buffer[b].name EXCEPT !.head = text.name.head]]
    BY <1>2, <1>3 DEF Texts
  <2> QED BY <2>1, <2>2, <2>3 DEF Texts
<1>5. pc'[t] = "copyTail"
  BY <1>1 DEF CopyHead, TypeOK
<1>6. TypeOK'
  <2>1. buffer' \in [Buffers -> Texts]
    BY <1>1, <1>3, <1>4 DEF TypeOK
  <2>2. overlapped' \in [Threads -> BOOLEAN]
    BY DEF CopyHead, MarkOverlapped
  <2> QED BY <1>1, <2>1, <2>2 DEF CopyHead, TypeOK
<1>7. CallInv(t)'
  BY <1>1, <1>5 DEF CopyHead, CallInv, InHook
<1>8. CopyInv(t)'
  <2>1. HeadCopied(t)'
    BY <1>4 DEF CopyHead, HeadCopied
  <2> QED BY <1>5, <2>1 DEF CopyInv
<1>9. ASSUME NEW u \in Threads, u # t PROVE CallInv(u)' /\ CopyInv(u)'
  BY <1>3, <1>9, WritersMark DEF CopyHead, IInv, TypeOK
<1> QED BY <1>6, <1>7, <1>8, <1>9 DEF IInv

LEMMA CopyTailIInv ==
  ASSUME IInv, NEW t \in Threads, CopyTail(t)
  PROVE  IInv'
<1> DEFINE b == BufferFor(language, path[t])
           text == TextAfter(path[t])
<1>1. /\ pc[t] = "copyTail" /\ CallInv(t) /\ CopyInv(t) /\ TypeOK /\ b \in Buffers
      /\ path[t] \in Paths
  BY CallsAssumption DEF CopyTail, IInv, CallInv, InHook
<1>2. text \in Texts /\ buffer[b] \in Texts
  BY <1>1, TextAfterType DEF TypeOK
<1>3. /\ buffer'[b] = [buffer[b] EXCEPT !.name.tail = text.name.tail]
      /\ buffer' = [buffer EXCEPT ![b] = buffer'[b]]
  BY <1>1, <1>2 DEF CopyTail, TypeOK
<1>4. /\ buffer'[b] \in Texts
      /\ buffer'[b].name.tail = text.name.tail
      /\ buffer'[b].dir = buffer[b].dir /\ buffer'[b].name.head = buffer[b].name.head
  BY <1>2, <1>3 DEF Texts
<1>5. pc'[t] = "openBuffer"
  BY <1>1 DEF CopyTail, TypeOK
<1>6. TypeOK'
  <2>1. buffer' \in [Buffers -> Texts]
    BY <1>1, <1>3, <1>4 DEF TypeOK
  <2>2. overlapped' \in [Threads -> BOOLEAN]
    BY DEF CopyTail, MarkOverlapped
  <2> QED BY <1>1, <2>1, <2>2 DEF CopyTail, TypeOK
<1>7. CallInv(t)'
  BY <1>1, <1>5 DEF CopyTail, CallInv, InHook
<1>8. CopyInv(t)'
  <2> SUFFICES ASSUME ~overlapped'[t] PROVE CopyInv(t)'
    BY DEF CopyInv
  <2>1. HeadCopied(t)
    BY <1>1 DEF CopyTail, MarkOverlapped, CopyInv
  <2>2. HeadCopied(t)' /\ TailCopied(t)'
    BY <1>4, <2>1 DEF CopyTail, HeadCopied, TailCopied
  <2> QED BY <1>5, <2>2 DEF CopyInv
<1>9. ASSUME NEW u \in Threads, u # t PROVE CallInv(u)' /\ CopyInv(u)'
  BY <1>3, <1>9, WritersMark DEF CopyTail, IInv, TypeOK
<1> QED BY <1>6, <1>7, <1>8, <1>9 DEF IInv

-----------------------------------------------------------------------------
(* The theorems.                                                           *)

LEMMA NextIInv == IInv /\ [Next]_vars => IInv'
<1> SUFFICES ASSUME IInv, [Next]_vars PROVE IInv'
  OBVIOUS
<1>1. CASE UNCHANGED vars
  BY <1>1, StutterIInv
<1>2. ASSUME NEW t \in Threads, NEW p \in Calls, OpenFile(t, p) PROVE IInv'
  BY <1>2, OpenFileIInv
<1>3. ASSUME NEW t \in Threads, CopyHead(t) PROVE IInv'
  BY <1>3, CopyHeadIInv
<1>4. ASSUME NEW t \in Threads, CopyTail(t) PROVE IInv'
  BY <1>4, CopyTailIInv
<1>5. ASSUME NEW t \in Threads, OpenBuffer(t) PROVE IInv'
  BY <1>5, OpenBufferIInv
<1>6. ASSUME NEW t \in Threads, OpenPath(t) PROVE IInv'
  BY <1>6, OpenPathIInv
<1>7. ASSUME NEW t \in Threads, Return(t) PROVE IInv'
  BY <1>7, ReturnIInv
<1> QED BY <1>1, <1>2, <1>3, <1>4, <1>5, <1>6, <1>7 DEF Next

\* The strengthened invariant holds in every reachable state.
THEOREM Invariance == Spec => []IInv
BY InitIInv, NextIInv, PTL DEF Spec

\* The state of the file hook keeps its types, with any number of threads, of
\* files and of names; in particular what is opened is a file that exists.
THEOREM TypeCorrect == Spec => []TypeOK
<1>1. IInv => TypeOK
  BY DEF IInv
<1> QED BY <1>1, Invariance, PTL

\* Only a call that another thread overlapped between strcpy and the end of
\* nn__fs__OpenFile_original can open another file than the rewriting stands
\* for, however many threads share the buffers.
THEOREM OverlapAlone == Spec => []OnlyOverlapMisleads
<1>1. IInv => OnlyOverlapMisleads
  BY DEF IInv, CopyInv, OnlyOverlapMisleads
<1> QED BY <1>1, Invariance, PTL

LEMMA PathsAreNotNoThing == NoThing \notin Paths
<1>1. SUFFICES ASSUME NoThing \in Paths PROVE FALSE
  OBVIOUS
<1>2. DOMAIN NoThing = {"root", "dir", "name"}
  BY <1>1 DEF Paths
<1>3. DOMAIN NoThing = {"opened"}
  BY DEF NoThing
<1> QED BY <1>2, <1>3

\* A file the game asks for by a path that exists is found by every call,
\* overlapped or not.
THEOREM NoFileHidden == Spec => []RacesHideNoFile
<1>1. Init => RacesHideNoFile
  BY DEF Init, RacesHideNoFile
<1>2. IInv /\ RacesHideNoFile /\ [Next]_vars => RacesHideNoFile'
  <2> SUFFICES ASSUME IInv, RacesHideNoFile, [Next]_vars PROVE RacesHideNoFile'
    OBVIOUS
  <2> USE DEF RacesHideNoFile
  <2>1. CASE UNCHANGED vars
    BY <2>1 DEF vars, Exists
  <2>2. ASSUME NEW t \in Threads, NEW p \in Calls, OpenFile(t, p)
        PROVE  RacesHideNoFile'
    BY <2>2 DEF OpenFile, Exists, IInv, TypeOK
  <2>3. ASSUME NEW t \in Threads, CopyHead(t) PROVE RacesHideNoFile'
    BY <2>3 DEF CopyHead, Exists, IInv, TypeOK
  <2>4. ASSUME NEW t \in Threads, CopyTail(t) PROVE RacesHideNoFile'
    BY <2>4 DEF CopyTail, Exists, IInv, TypeOK
  <2>5. ASSUME NEW t \in Threads, OpenBuffer(t) PROVE RacesHideNoFile'
    <3> DEFINE b == BufferFor(language, path[t])
               candidate == Spelled(b, buffer[b])
    <3> USE <2>5 DEF OpenBuffer
    <3>1. CASE Exists(candidate)
      <4>1. candidate # NoThing
        BY <3>1, PathsAreNotNoThing, CartridgesAssumption DEF Exists, IInv, TypeOK
      <4>2. result' = [result EXCEPT ![t] = candidate]
            /\ pc' = [pc EXCEPT ![t] = "return"]
        BY <3>1
      <4> HIDE DEF candidate
      <4> QED BY <4>1, <4>2 DEF Exists, IInv, TypeOK
    <3>2. CASE ~Exists(candidate)
      <4>1. b = "pathBypassBuffer" => ~Exists(path[t])
        BY DEF BufferFor, Exists
      <4>2. result' = result /\ pc' = [pc EXCEPT ![t] =
              IF b = "pathBypassBuffer" THEN "return" ELSE "openPath"]
        BY <3>2
      <4> HIDE DEF b, candidate
      <4> QED BY <4>1, <4>2 DEF Exists, IInv, TypeOK
    <3> QED BY <3>1, <3>2
  <2>6. ASSUME NEW t \in Threads, OpenPath(t) PROVE RacesHideNoFile'
    <3>1. Exists(path[t]) => path[t] # NoThing
      BY PathsAreNotNoThing, CartridgesAssumption DEF Exists, IInv, TypeOK
    <3> QED BY <2>6, <3>1 DEF OpenPath, Exists, IInv, TypeOK
  <2>7. ASSUME NEW t \in Threads, Return(t) PROVE RacesHideNoFile'
    BY <2>7 DEF Return, Exists, IInv, TypeOK
  <2> QED BY <2>1, <2>2, <2>3, <2>4, <2>5, <2>6, <2>7 DEF Next
<1> QED BY <1>1, <1>2, Invariance, PTL DEF Spec
=============================================================================
