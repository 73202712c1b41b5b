----------------------------- MODULE FileLoader -----------------------------
(***************************************************************************)
(* nn__fs__OpenFile_hook (ED7FileLoader.cpp): every file the game opens    *)
(* goes through it, from whatever thread.  The hook rewrites the path to   *)
(* the data directory of the language and falls back to the path the game  *)
(* asked for.  The rewritten path is put together in a static buffer that  *)
(* all threads share, without a lock.                                      *)
(*                                                                         *)
(* A path is a root, a directory and a name.  "data_xx" stands for the     *)
(* directories of the other languages (rom:/data_ch/, rom:/data_kr/),      *)
(* "data_patch" for a directory whose suffix is not two letters, and       *)
(* "elsewhere" for a path that begins with neither rom:/data/ nor          *)
(* rom:/data_.  A name has a head and a tail: strcpy does not write it in  *)
(* one piece, so that two threads can leave a mixture behind.              *)
(***************************************************************************)
CONSTANTS
  Threads,    \* threads of the game that open files
  Halves,     \* the halves file names are made of
  Cut,        \* a half no file name has: an empty or a mutilated one
  Calls,      \* the paths the game opens
  Cartridges  \* the sets of files that can be on the cartridge

Languages == {"English", "Japanese", "TraditionalChinese", "Korean"}
Dirs == {"data", "data_en", "data_xx", "data_patch", "elsewhere"}
Names == [head : Halves, tail : Halves]
Paths == [root : {"rom", "pom"}, dir : Dirs, name : Names]

ASSUME CutAssumption == Cut \notin Halves
ASSUME CallsAssumption == Calls \subseteq Paths
ASSUME CartridgesAssumption == \A files \in Cartridges : files \subseteq Paths

Buffers == {"pathBufferEnglish", "pathBufferJapanese", "pathBypassBuffer"}

NoThing == [opened |-> "nothing"]

VARIABLES
  language,   \* ED7HookCurrentLanguage, which picks the instance of the hook
  existing,   \* the files on the cartridge
  buffer,     \* the text of the static buffers after the prefix
  pc,         \* where each thread is in the hook
  path,       \* the argument of the call
  result,     \* the file the call opened, NoThing when it failed
  overlapped  \* another thread wrote the thread's buffer before it was used

vars == <<language, existing, buffer, pc, path, result, overlapped>>

-----------------------------------------------------------------------------
(* The rewriting of a path.                                                *)

\* The buffer the hook of a language builds the first candidate in: the
\* bypass buffer for pom:/, the English one for rom:/data/ and rom:/data_,
\* the Japanese one for rom:/data_ only, no buffer in the other languages.
BufferFor(lang, p) ==
  IF p.root = "pom" THEN "pathBypassBuffer"
  ELSE IF lang = "English" /\ p.dir \in {"data", "data_en", "data_xx", "data_patch"}
       THEN "pathBufferEnglish"
  ELSE IF lang = "Japanese" /\ p.dir \in {"data_en", "data_xx", "data_patch"}
       THEN "pathBufferJapanese"
  ELSE "none"

\* The path a buffer spells: its prefix is never overwritten, except that the
\* directory is copied along with the name after pom:/.
Spelled(b, text) ==
  [root |-> "rom",
   dir  |-> CASE b = "pathBufferEnglish"  -> "data_en"
              [] b = "pathBufferJapanese" -> "data"
              [] OTHER                    -> text.dir,
   name |-> text.name]

\* What is written after the prefix.  From rom:/data_ the hook copies what
\* follows thirteen characters, so that a directory with a longer suffix than
\* "_en" leaves a piece of itself in the name; pom:/ keeps everything.
TextAfter(p) ==
  [dir  |-> p.dir,
   name |-> IF p.root = "rom" /\ p.dir = "data_patch"
            THEN [p.name EXCEPT !.head = Cut] ELSE p.name]

Texts == [dir : Dirs, name : [head : Halves \cup {Cut}, tail : Halves \cup {Cut}]]

NoText == [dir |-> "elsewhere", name |-> [head |-> Cut, tail |-> Cut]]

NoPath == [root |-> "rom", dir |-> "elsewhere", name |-> NoText.name]

Exists(p) == p.root = "rom" /\ p \in existing

\* The rewritten path.
Candidate(lang, p) == Spelled(BufferFor(lang, p), TextAfter(p))

\* What a call has to open: the rewritten path if there is such a file, else,
\* unless the path was pom:/, the path itself.
Resolve(lang, p) ==
  IF BufferFor(lang, p) # "none" /\ Exists(Candidate(lang, p))
  THEN Candidate(lang, p)
  ELSE IF BufferFor(lang, p) # "pathBypassBuffer" /\ Exists(p) THEN p ELSE NoThing

-----------------------------------------------------------------------------
Init ==
  /\ language \in Languages
  /\ existing \in Cartridges
  /\ buffer = [b \in Buffers |-> NoText]
  /\ pc = [t \in Threads |-> "game"]
  /\ path = [t \in Threads |-> NoPath]
  /\ result = [t \in Threads |-> NoThing]
  /\ overlapped = [t \in Threads |-> FALSE]

\* The game calls nn::fs::OpenFile.
OpenFile(t, p) ==
  /\ pc[t] = "game"
  /\ path' = [path EXCEPT ![t] = p]
  /\ pc' = [pc EXCEPT ![t] =
              IF BufferFor(language, p) = "none" THEN "openPath" ELSE "copyHead"]
  /\ UNCHANGED <<language, existing, buffer, result, overlapped>>

\* The threads that wrote the buffer b and have not opened it yet.
Depending(b) ==
  {u \in Threads : /\ pc[u] \in {"copyTail", "openBuffer"}
                   /\ BufferFor(language, path[u]) = b}

MarkOverlapped(t, b) ==
  overlapped' = [u \in Threads |-> overlapped[u] \/ u \in Depending(b) \ {t}]

\* Mutant: the file name is copied from the wrong place, so that the head of
\* whatever was there before stays.
CopyHeadSkipped(t) ==
  LET b == BufferFor(language, path[t]) IN
  /\ pc[t] = "copyHead"
  /\ MarkOverlapped(t, b)
  /\ pc' = [pc EXCEPT ![t] = "copyTail"]
  /\ UNCHANGED <<language, existing, buffer, path, result>>

\* strcpy into the buffer, its first bytes and the rest.
CopyHead(t) ==
  LET b == BufferFor(language, path[t]) IN
  /\ pc[t] = "copyHead"
  /\ buffer' = [buffer EXCEPT ![b].dir = TextAfter(path[t]).dir,
                              ![b].name.head = TextAfter(path[t]).name.head]
  /\ MarkOverlapped(t, b)
  /\ pc' = [pc EXCEPT ![t] = "copyTail"]
  /\ UNCHANGED <<language, existing, path, result>>

CopyTail(t) ==
  LET b == BufferFor(language, path[t]) IN
  /\ pc[t] = "copyTail"
  /\ buffer' = [buffer EXCEPT ![b].name.tail = TextAfter(path[t]).name.tail]
  /\ MarkOverlapped(t, b)
  /\ pc' = [pc EXCEPT ![t] = "openBuffer"]
  /\ UNCHANGED <<language, existing, path, result>>

\* Mutant: no fallback, the error of the first attempt is returned.
OpenBufferNoFallback(t) ==
  LET b == BufferFor(language, path[t])
      candidate == Spelled(b, buffer[b])
  IN  /\ pc[t] = "openBuffer"
      /\ result' = [result EXCEPT ![t] =
                      IF Exists(candidate) THEN candidate ELSE NoThing]
      /\ pc' = [pc EXCEPT ![t] = "return"]
      /\ UNCHANGED <<language, existing, buffer, path, overlapped>>

\* nn__fs__OpenFile_original on the buffer.  A failure ends a bypass and makes
\* the other cases fall through to the path of the game.
OpenBuffer(t) ==
  LET b == BufferFor(language, path[t])
      candidate == Spelled(b, buffer[b])
  IN  /\ pc[t] = "openBuffer"
      /\ IF Exists(candidate)
         THEN /\ result' = [result EXCEPT ![t] = candidate]
              /\ pc' = [pc EXCEPT ![t] = "return"]
         ELSE /\ pc' = [pc EXCEPT ![t] =
                          IF b = "pathBypassBuffer" THEN "return" ELSE "openPath"]
              /\ UNCHANGED result
      /\ UNCHANGED <<language, existing, buffer, path, overlapped>>

\* nn__fs__OpenFile_original on the path of the game.
OpenPath(t) ==
  /\ pc[t] = "openPath"
  /\ result' = [result EXCEPT ![t] = IF Exists(path[t]) THEN path[t] ELSE NoThing]
  /\ pc' = [pc EXCEPT ![t] = "return"]
  /\ UNCHANGED <<language, existing, buffer, path, overlapped>>

\* The locals of the call end with it.
Return(t) ==
  /\ pc[t] = "return"
  /\ pc' = [pc EXCEPT ![t] = "game"]
  /\ path' = [path EXCEPT ![t] = NoPath]
  /\ result' = [result EXCEPT ![t] = NoThing]
  /\ overlapped' = [overlapped EXCEPT ![t] = FALSE]
  /\ UNCHANGED <<language, existing, buffer>>

Next ==
  \E t \in Threads :
    \/ \E p \in Calls : OpenFile(t, p)
    \/ CopyHead(t) \/ CopyTail(t) \/ OpenBuffer(t) \/ OpenPath(t) \/ Return(t)

Spec == Init /\ [][Next]_vars

-----------------------------------------------------------------------------
TypeOK ==
  /\ language \in Languages
  /\ existing \in Cartridges
  /\ buffer \in [Buffers -> Texts]
  /\ pc \in [Threads -> {"game", "copyHead", "copyTail", "openBuffer", "openPath", "return"}]
  /\ path \in [Threads -> Calls \cup {NoPath}]
  /\ overlapped \in [Threads -> BOOLEAN]
  /\ result \in [Threads -> existing \cup {NoThing}]

\* A call that no other thread disturbed opened what the rewriting stands for:
\* the asset of the language when there is one, the game's own path otherwise.
\* Only a second thread inside the window between strcpy and the end of
\* nn__fs__OpenFile_original can make nn__fs__OpenFile_hook open another file.
OnlyOverlapMisleads ==
  \A t \in Threads :
    pc[t] = "return" /\ ~overlapped[t] => result[t] = Resolve(language, path[t])

\* However the shared buffers are mixed up, a file the game asks for by a path
\* that exists is never reported missing: the fall-through at the end of
\* nn__fs__OpenFile_hook uses the argument, not a buffer.
RacesHideNoFile ==
  \A t \in Threads :
    pc[t] = "return" /\ Exists(path[t]) => result[t] # NoThing
=============================================================================
