--------------------------- MODULE StartupProofs ----------------------------
(***************************************************************************)
(* What holds of every start of the process, for every set of languages.   *)
(*                                                                         *)
(* LateInit_hook runs some sixty steps, which depend on the build and on   *)
(* the language.  They are not counted one by one: a part of an installer  *)
(* is a sequence of steps of one kind, and what is said of two parts is    *)
(* said of the one after the other.                                        *)
(***************************************************************************)
EXTENDS Startup, Integers, TLAPS

Kinds == {"hook", "claim", "memcpy", "copy"}

\* The pointers that are set, for a build that is known.
Table(b) == Assigned(b) \cup {"nn::fs::OpenFile"}

\* Everything a step can be about.
Names == Table("Zero 1.0.1") \cup Table("Azure")
StepSet == [kind : Kinds, pointer : Names]

-----------------------------------------------------------------------------
(* What the installers are made of.                                        *)

\* Every pointer a step is about is set.
Uses(s, P) == \A i \in DOMAIN s : s[i].pointer \in P

\* Only these functions are hooked.
HooksAmong(s, H) == \A i \in DOMAIN s : s[i].kind = "hook" => s[i].pointer \in H

\* What a hook calls or writes to is known, if C is copied and P is set.
Finds(hook, C, P) == Dereferenced(hook) \subseteq P /\ CalledThrough(hook) \subseteq C

\* A step that ends the process, for its function is NULL.
Fatal(step, P) == step.kind = "hook" /\ step.pointer \notin P

\* Every hook finds its pointers, or a step before it ends the process.
Sound(s, C, P) ==
  \A i \in DOMAIN s : s[i].kind = "hook" =>
    \/ Finds(s[i].pointer, C \cup {p \in P : \E j \in 1 .. i - 1 : s[j] = Step("copy", p)}, P)
    \/ \E j \in 1 .. i : Fatal(s[j], P)

Ends(s, P) == \E i \in DOMAIN s : Fatal(s[i], P)

\* The function of a hook that asks for its caller is not hooked again.
Apart(s, b) ==
  \A i, j \in DOMAIN s :
    /\ i < j /\ s[i].kind = "hook" /\ s[j].kind = "hook" /\ s[i].pointer \in AsksForCaller
    => Address(b, s[i].pointer) # Address(b, s[j].pointer)

ApartFrom(A, B, b) ==
  \A h \in A, k \in B : h \in AsksForCaller => Address(b, h) # Address(b, k)

\* Where the steps of two sequences are in their concatenation.
LEMMA Concat ==
  ASSUME NEW S, NEW s \in Seq(S), NEW t \in Seq(S)
  PROVE  /\ s \o t \in Seq(S) /\ Len(s \o t) = Len(s) + Len(t)
         /\ DOMAIN s = 1 .. Len(s) /\ DOMAIN t = 1 .. Len(t)
         /\ DOMAIN (s \o t) = 1 .. Len(s) + Len(t)
         /\ Len(s) \in Nat /\ Len(t) \in Nat
         /\ \A i \in 1 .. Len(s) : (s \o t)[i] = s[i]
         /\ \A i \in 1 .. Len(t) : (s \o t)[Len(s) + i] = t[i]
  OBVIOUS

\* A place of a concatenation is a place of its first or of its second part.
LEMMA Places ==
  ASSUME NEW S, NEW s \in Seq(S), NEW t \in Seq(S), NEW i \in DOMAIN (s \o t)
  PROVE  \/ i \in DOMAIN s /\ (s \o t)[i] = s[i]
         \/ \E j \in DOMAIN t : i = Len(s) + j /\ (s \o t)[i] = t[j]
<1>1. /\ i \in 1 .. Len(s) + Len(t) /\ Len(s) \in Nat /\ Len(t) \in Nat
      /\ DOMAIN s = 1 .. Len(s) /\ DOMAIN t = 1 .. Len(t)
      /\ \A k \in 1 .. Len(s) : (s \o t)[k] = s[k]
      /\ \A k \in 1 .. Len(t) : (s \o t)[Len(s) + k] = t[k]
  BY Concat
<1>2. CASE i <= Len(s)
  BY <1>1, <1>2
<1>3. CASE i > Len(s)
  <2>1. i - Len(s) \in 1 .. Len(t) /\ i = Len(s) + (i - Len(s))
    BY <1>1, <1>3
  <2>2. QED
    BY <1>1, <2>1
<1>4. QED
  BY <1>1, <1>2, <1>3

\* Steps makes one step of its kind of every name.
LEMMA StepsAre ==
  ASSUME NEW kind \in Kinds, NEW names \in Seq(Names)
  PROVE  /\ Steps(kind, names) \in Seq(StepSet)
         /\ Len(Steps(kind, names)) = Len(names)
         /\ DOMAIN Steps(kind, names) = DOMAIN names
         /\ \A i \in DOMAIN names : /\ Steps(kind, names)[i] = Step(kind, names[i])
                                    /\ Steps(kind, names)[i].kind = kind
                                    /\ Steps(kind, names)[i].pointer = names[i]
<1>1. DOMAIN names = 1 .. Len(names) /\ Len(names) \in Nat
  OBVIOUS
<1>2. \A i \in DOMAIN names : Step(kind, names[i]) \in StepSet
  BY DEF Step, StepSet
<1>3. Steps(kind, names) = [i \in 1 .. Len(names) |-> Step(kind, names[i])]
  BY <1>1 DEF Steps
<1>4. Steps(kind, names) \in Seq(StepSet) /\ Len(Steps(kind, names)) = Len(names)
  BY <1>1, <1>2, <1>3
<1>5. QED
  BY <1>1, <1>3, <1>4 DEF Step

\* Nothing is asked of no steps.
LEMMA NoSteps ==
  ASSUME NEW C, NEW P, NEW H, NEW b
  PROVE  /\ Uses(<< >>, P) /\ HooksAmong(<< >>, H) /\ Sound(<< >>, C, P) /\ Apart(<< >>, b)
  BY DEF Uses, HooksAmong, Sound, Apart

\* Two parts that use only pointers that are set do so together.
LEMMA ConcatUses ==
  ASSUME NEW s \in Seq(StepSet), NEW t \in Seq(StepSet), NEW P, Uses(s, P), Uses(t, P)
  PROVE  Uses(s \o t, P)
<1> SUFFICES ASSUME NEW i \in DOMAIN (s \o t)
             PROVE  (s \o t)[i].pointer \in P
  BY DEF Uses
<1>1. QED
  BY Places DEF Uses

\* Two parts hook what the one or the other hooks.
LEMMA ConcatHooksAmong ==
  ASSUME NEW s \in Seq(StepSet), NEW t \in Seq(StepSet), NEW H, NEW K,
         HooksAmong(s, H), HooksAmong(t, K)
  PROVE  HooksAmong(s \o t, H \cup K)
<1> SUFFICES ASSUME NEW i \in DOMAIN (s \o t), (s \o t)[i].kind = "hook"
             PROVE  (s \o t)[i].pointer \in H \cup K
  BY DEF HooksAmong
<1>1. QED
  BY Places DEF HooksAmong

\* Two parts do not hook what a hook that asks for its caller is about, if
\* neither does alone nor the second does to the first.
LEMMA ConcatApart ==
  ASSUME NEW s \in Seq(StepSet), NEW t \in Seq(StepSet), NEW H, NEW K, NEW b,
         HooksAmong(s, H), HooksAmong(t, K), Apart(s, b), Apart(t, b), ApartFrom(H, K, b)
  PROVE  Apart(s \o t, b)
<1> DEFINE u == s \o t
<1> SUFFICES ASSUME NEW i \in DOMAIN u, NEW j \in DOMAIN u, i < j,
                    u[i].kind = "hook", u[j].kind = "hook", u[i].pointer \in AsksForCaller
             PROVE  Address(b, u[i].pointer) # Address(b, u[j].pointer)
  BY DEF Apart
<1>1. Len(s) \in Nat /\ DOMAIN s = 1 .. Len(s) /\ DOMAIN t = 1 .. Len(t) /\ Len(t) \in Nat
  BY Concat
<1>2. /\ \/ i \in DOMAIN s /\ u[i] = s[i]
         \/ \E k \in DOMAIN t : i = Len(s) + k /\ u[i] = t[k]
      /\ \/ j \in DOMAIN s /\ u[j] = s[j]
         \/ \E k \in DOMAIN t : j = Len(s) + k /\ u[j] = t[k]
  BY Places
<1> HIDE DEF u
<1>3. CASE i \in DOMAIN s /\ u[i] = s[i] /\ j \in DOMAIN s /\ u[j] = s[j]
  BY <1>3 DEF Apart
<1>4. ASSUME i \in DOMAIN s, u[i] = s[i], NEW k \in DOMAIN t, u[j] = t[k]
      PROVE  Address(b, u[i].pointer) # Address(b, u[j].pointer)
  BY <1>4 DEF HooksAmong, ApartFrom
<1>5. ASSUME NEW k \in DOMAIN t, i = Len(s) + k, u[i] = t[k],
             NEW l \in DOMAIN t, j = Len(s) + l, u[j] = t[l]
      PROVE  Address(b, u[i].pointer) # Address(b, u[j].pointer)
  <2>1. k < l
    BY <1>1, <1>5
  <2>2. QED
    BY <1>5, <2>1 DEF Apart
<1>6. ASSUME NEW k \in DOMAIN t, i = Len(s) + k, j \in DOMAIN s
      PROVE  FALSE
  BY <1>1, <1>6
<1>7. QED
  BY <1>2, <1>3, <1>4, <1>5, <1>6

\* A part that ends the process ends it for the whole.
LEMMA ConcatEnds ==
  ASSUME NEW s \in Seq(StepSet), NEW t \in Seq(StepSet), NEW P, Ends(s, P) \/ Ends(t, P)
  PROVE  Ends(s \o t, P)
<1>1. /\ \A i \in DOMAIN s : i \in DOMAIN (s \o t) /\ (s \o t)[i] = s[i]
      /\ \A i \in DOMAIN t : Len(s) + i \in DOMAIN (s \o t) /\ (s \o t)[Len(s) + i] = t[i]
  BY Concat
<1>2. QED
  BY <1>1 DEF Ends

\* More that is copied does no harm.
LEMMA SoundGrows ==
  ASSUME NEW s, NEW C, NEW D, NEW P, C \subseteq D, Sound(s, C, P)
  PROVE  Sound(s, D, P)
<1> SUFFICES ASSUME NEW i \in DOMAIN s, s[i].kind = "hook",
                    ~ \E j \in 1 .. i : Fatal(s[j], P)
             PROVE  Finds(s[i].pointer,
                          D \cup {p \in P : \E j \in 1 .. i - 1 : s[j] = Step("copy", p)}, P)
  BY DEF Sound
<1>1. Finds(s[i].pointer, C \cup {p \in P : \E j \in 1 .. i - 1 : s[j] = Step("copy", p)}, P)
  BY DEF Sound
<1>2. QED
  BY <1>1 DEF Finds

\* The second part may count on what the first has copied, and need not be
\* sound if the first ends the process.
LEMMA ConcatSound ==
  ASSUME NEW s \in Seq(StepSet), NEW t \in Seq(StepSet), NEW C, NEW D, NEW P,
         Sound(s, C, P), Sound(t, D, P) \/ Ends(s, P),
         D \subseteq C \cup {p \in P : \E j \in DOMAIN s : s[j] = Step("copy", p)}
  PROVE  Sound(s \o t, C, P)
<1> DEFINE u == s \o t
           Before(v, i) == {p \in P : \E j \in 1 .. i - 1 : v[j] = Step("copy", p)}
<1> SUFFICES ASSUME NEW i \in DOMAIN u, u[i].kind = "hook"
             PROVE  \/ Finds(u[i].pointer, C \cup Before(u, i), P)
                    \/ \E j \in 1 .. i : Fatal(u[j], P)
  BY DEF Sound
<1>1. /\ Len(s) \in Nat /\ Len(t) \in Nat
      /\ DOMAIN s = 1 .. Len(s) /\ DOMAIN t = 1 .. Len(t)
      /\ \A k \in 1 .. Len(s) : u[k] = s[k]
      /\ \A k \in 1 .. Len(t) : u[Len(s) + k] = t[k]
  BY Concat
<1>2. \/ i \in DOMAIN s /\ u[i] = s[i]
      \/ \E k \in DOMAIN t : i = Len(s) + k /\ u[i] = t[k]
  BY Places
<1> HIDE DEF u
<1>3. CASE i \in DOMAIN s /\ u[i] = s[i]
  <2>1. \A j \in 1 .. i : u[j] = s[j]
    BY <1>1, <1>3
  <2>2. Before(u, i) = Before(s, i)
    <3>1. \A j \in 1 .. i - 1 : u[j] = s[j]
      BY <1>1, <1>3, <2>1
    <3>2. QED
      BY <3>1
  <2>3. \/ Finds(s[i].pointer, C \cup Before(s, i), P)
        \/ \E j \in 1 .. i : Fatal(s[j], P)
    BY <1>3 DEF Sound
  <2> HIDE DEF Before
  <2>4. QED
    BY <1>3, <2>1, <2>2, <2>3
<1>4. ASSUME NEW k \in DOMAIN t, i = Len(s) + k, u[i] = t[k], Sound(t, D, P)
      PROVE  \/ Finds(u[i].pointer, C \cup Before(u, i), P)
             \/ \E j \in 1 .. i : Fatal(u[j], P)
  <2>1. \/ Finds(t[k].pointer, D \cup Before(t, k), P)
        \/ \E j \in 1 .. k : Fatal(t[j], P)
    BY <1>4 DEF Sound
  <2>2. ASSUME NEW j \in 1 .. k
        PROVE  u[Len(s) + j] = t[j] /\ Len(s) + j \in 1 .. i
               /\ (j # k => Len(s) + j \in 1 .. i - 1)
    BY <1>1, <1>4
  <2>3. ASSUME NEW j \in DOMAIN s
        PROVE  u[j] = s[j] /\ j \in 1 .. i - 1
    BY <1>1, <1>4
  <2>4. Before(t, k) \subseteq Before(u, i)
    <3>1. \A j \in 1 .. k - 1 : j \in 1 .. k /\ j # k
      BY <1>1
    <3>2. QED
      BY <2>2, <3>1
  <2>5. D \subseteq C \cup Before(u, i)
    BY <2>3
  <2> HIDE DEF Before
  <2>6. CASE Finds(t[k].pointer, D \cup Before(t, k), P)
    BY <1>4, <2>4, <2>5, <2>6 DEF Finds
  <2>7. CASE \E j \in 1 .. k : Fatal(t[j], P)
    BY <2>2, <2>7
  <2>8. QED
    BY <2>1, <2>6, <2>7
<1>5. ASSUME NEW k \in DOMAIN t, i = Len(s) + k, Ends(s, P)
      PROVE  \E j \in 1 .. i : Fatal(u[j], P)
  <2>1. PICK j \in DOMAIN s : Fatal(s[j], P)
    BY <1>5 DEF Ends
  <2>2. j \in 1 .. i /\ u[j] = s[j]
    BY <1>1, <1>5
  <2>3. QED
    BY <2>1, <2>2
<1>6. QED
  BY <1>2, <1>3, <1>4, <1>5

-----------------------------------------------------------------------------
(* Steps of one kind.                                                      *)

\* Steps about pointers that are set use such pointers only.
LEMMA StepsUse ==
  ASSUME NEW kind \in Kinds, NEW P, NEW names \in Seq(Names),
         \A i \in DOMAIN names : names[i] \in P
  PROVE  Uses(Steps(kind, names), P)
BY StepsAre DEF Uses

\* A list of hooks hooks the names of the list.
LEMMA StepsHook ==
  ASSUME NEW H, NEW names \in Seq(Names), \A i \in DOMAIN names : names[i] \in H
  PROVE  HooksAmong(Steps("hook", names), H)
<1>1. "hook" \in Kinds
  BY DEF Kinds
<1>2. QED
  BY <1>1, StepsAre DEF HooksAmong

\* Of steps that hook nothing there is nothing to say.
LEMMA StepsDoNotHook ==
  ASSUME NEW kind \in Kinds \ {"hook"}, NEW names \in Seq(Names), NEW C, NEW P, NEW b
  PROVE  /\ HooksAmong(Steps(kind, names), {}) /\ Sound(Steps(kind, names), C, P)
         /\ Apart(Steps(kind, names), b)
<1>1. \A i \in DOMAIN Steps(kind, names) : Steps(kind, names)[i].kind # "hook"
  BY StepsAre
<1>2. QED
  BY <1>1 DEF HooksAmong, Sound, Apart

\* A list of hooks is sound if each finds its pointers or ends the process.
LEMMA StepsFind ==
  ASSUME NEW names \in Seq(Names), NEW C, NEW P,
         \A i \in DOMAIN names : Finds(names[i], C, P) \/ names[i] \notin P
  PROVE  Sound(Steps("hook", names), C, P)
<1>1. "hook" \in Kinds
  BY DEF Kinds
<1> DEFINE s == Steps("hook", names)
<1>2. \A i \in DOMAIN s : Finds(s[i].pointer, C, P) \/ Fatal(s[i], P)
  BY <1>1, StepsAre DEF Fatal
<1>3. \A i \in DOMAIN s : i \in 1 .. i
  BY <1>1, StepsAre
<1> HIDE DEF s
<1>4. Sound(s, C, P)
  BY <1>2, <1>3 DEF Sound, Finds
<1>5. QED
  BY <1>4 DEF s

\* A list of hooks of different functions keeps its callers apart.
LEMMA StepsApart ==
  ASSUME NEW names \in Seq(Names), NEW b,
         \A i, j \in DOMAIN names : i < j /\ names[i] \in AsksForCaller
           => Address(b, names[i]) # Address(b, names[j])
  PROVE  Apart(Steps("hook", names), b)
<1>1. "hook" \in Kinds
  BY DEF Kinds
<1>2. QED
  BY <1>1, StepsAre DEF Apart

\* Hooks that call and write to nothing but their originals.
Demanding == {"SetGameLanguage", "CFontMgr2__SetFixMode", "nvnLoadCProcs",
              "CMessageWindow__PrintText", "CTexMgr__LoadITP", "CTexMgr__Load2"}

\* A hook that calls nothing but its original finds all it needs.
LEMMA Undemanding ==
  ASSUME NEW hook, hook \notin Demanding, NEW C, NEW P
  PROVE  Finds(hook, C, P)
<1>1. Dereferenced(hook) = {}
  BY DEF Dereferenced, Demanding
<1>2. CalledThrough(hook) = {}
  BY DEF CalledThrough, Demanding
<1>3. QED
  BY <1>1, <1>2 DEF Finds

\* What the others need.
LEMMA Demands ==
  /\ Dereferenced("SetGameLanguage") = {"iCurrentLanguage1", "iCurrentLanguage2"}
  /\ CalledThrough("SetGameLanguage") = {}
  /\ Dereferenced("CFontMgr2__SetFixMode") = {"TranslationArray", "SaveOpcodePtrFixInfo"}
  /\ CalledThrough("CFontMgr2__SetFixMode") = {"CFontMgr2__GetSizeSJIS"}
  /\ Dereferenced("nvnLoadCProcs") = {"pfnc_nvnSamplerBuilderSetMaxAnisotropy",
                                      "pfnc_nvnQueuePresentTexture"}
  /\ CalledThrough("nvnLoadCProcs") = {}
  /\ Dereferenced("CMessageWindow__PrintText") = {}
  /\ CalledThrough("CMessageWindow__PrintText") = {"GetItemName"}
  /\ Dereferenced("CTexMgr__LoadITP") = {} /\ Dereferenced("CTexMgr__Load2") = {}
  /\ CalledThrough("CTexMgr__LoadITP") = SafeFile /\ CalledThrough("CTexMgr__Load2") = SafeFile
BY DEF Dereferenced, CalledThrough

-----------------------------------------------------------------------------
(* The pointers of a build.                                                *)

\* What ED7PointersInitialize assigns in every case of its switch.
LEMMA TableOfKnown ==
  ASSUME NEW b \in Builds \ {"unknown"}
  PROVE  InAllBuilds \subseteq Table(b)
BY DEF Builds, Table, Assigned, InSupported

\* The window of Zero is not a function of Azure.
LEMMA TableOfZero ==
  ASSUME NEW b \in Builds \ {"unknown"}, b # "Azure"
  PROVE  "CED6Window__SetText" \in Table(b)
BY DEF Builds, Table, Assigned, InSupported

\* What the two supported builds have besides.
LEMMA TableOfSupported ==
  ASSUME NEW b \in Supported
  PROVE  InSupported \subseteq Table(b) /\ b \in Builds \ {"unknown"}
BY DEF Supported, Builds, Table, Assigned, InSupported

\* What Azure alone has.
LEMMA TableOfAzure ==
  Orbment \cup Books \cup {"SetStoryText", "DrawFontReport", "NotebookSpaceCheckJump2"}
    \subseteq Table("Azure")
BY DEF Table, Assigned

\* Every name an installer uses is one of Names.
LEMMA NamesKnown ==
  /\ InSupported \cup Orbment \cup Books \subseteq Names
  /\ {"CED6Window__SetText", "SetStoryText", "DrawFontReport", "NotebookSpaceCheckJump2",
      "nn::fs::OpenFile"} \subseteq Names
BY DEF Names, Table, Assigned

\* The first release of Zero has no LoadITP.
LEMMA TableOfFirst ==
  "CTexMgr__LoadITP" \notin Table("Zero 1.0.0")
BY DEF Table, Assigned, InAllBuilds, MapLoading, Languages3, BookText, SafeFileOld

-----------------------------------------------------------------------------
(* The installers, one by one.                                             *)

\* The functions each of them hooks.
ExeHooks == {"CED6Window__SetText", "AdditionalStrings1", "AdditionalStrings2",
             "AdditionalStrings3", "AdditionalStrings4", "SetGameLanguage",
             "GetConsoleDesiredLanguage1", "GetConsoleDesiredLanguage2"}
ImgHooks == {"CTexBase__LoadITP_chunk_IDAT", "CTexMgr__LoadITP", "CTexMgr__Load2"}
StoryHooks == {"SetStoryText", "DrawFontReport", "CFontMgr__DrawFontClip"}
FontHooks == {"CFontMgr2__SetFixMode", "BookDrawText", "BookIsKana", "BookGetFontWidth",
              "CMessageWindow__AnonymousText", "SaveListFontRender", "NotebookDrawText",
              "SupportRequestDrawFont", "NotebookElementBarDraw",
              "NotebookDrawNumberRightAligned"}
MiscHooks == {"nvnLoadCProcs", "LoadBattle", "LoadBattle2", "LoadBattle3", "LoadMap",
              "RenderTexture"}

\* What is said of the steps of an installer: which functions it hooks, so that
\* no other hook asks who called it; what it needs of the table; and that its
\* hooks find their pointers if C has been copied before.
Shape(s, H, b) ==
  /\ s \in Seq(StepSet)
  /\ HooksAmong(s, H) /\ Apart(s, b)
  /\ b \in Supported => Uses(s, Table(b))

Installs(s, H, C, b) == Shape(s, H, b) /\ Sound(s, C, Table(b))

\* One installer after another: the second counts on what the first copied, or
\* never runs.
LEMMA OneAfterAnother ==
  ASSUME NEW b, NEW H, NEW K, NEW C, NEW D, NEW s, NEW t,
         Installs(s, H, C, b), Shape(t, K, b), ApartFrom(H, K, b),
         Sound(t, D, Table(b)) \/ Ends(s, Table(b)),
         D \subseteq C \cup {p \in Table(b) : \E j \in DOMAIN s : s[j] = Step("copy", p)}
  PROVE  Installs(s \o t, H \cup K, C, b)
<1>1. s \o t \in Seq(StepSet)
  BY Concat DEF Installs, Shape
<1>2. HooksAmong(s \o t, H \cup K)
  BY ConcatHooksAmong DEF Installs, Shape
<1>3. Apart(s \o t, b)
  BY ConcatApart DEF Installs, Shape
<1>4. Sound(s \o t, C, Table(b))
  BY ConcatSound DEF Installs, Shape
<1>5. b \in Supported => Uses(s \o t, Table(b))
  BY ConcatUses DEF Installs, Shape
<1>6. QED
  BY <1>1, <1>2, <1>3, <1>4, <1>5 DEF Installs, Shape

\* Two installers that count on the same copies.
LEMMA Together ==
  ASSUME NEW b, NEW H, NEW K, NEW C, NEW s, NEW t,
         Installs(s, H, C, b), Installs(t, K, C, b), ApartFrom(H, K, b)
  PROVE  Installs(s \o t, H \cup K, C, b)
<1>1. C \subseteq C \cup {p \in Table(b) : \E j \in DOMAIN s : s[j] = Step("copy", p)}
  OBVIOUS
<1>2. Shape(t, K, b) /\ Sound(t, C, Table(b))
  BY DEF Installs
<1>3. QED
  BY <1>1, <1>2, OneAfterAnother, Zenon

\* An installer that runs on a condition.
LEMMA PerhapsInstalls ==
  ASSUME NEW b, NEW H, NEW C, NEW s, NEW c, c => Installs(s, H, C, b)
  PROVE  Installs(If(c, s), H, C, b)
<1>1. CASE c
  BY <1>1 DEF If
<1>2. CASE ~c
  BY <1>2, NoSteps DEF If, Installs, Shape
<1>3. QED
  BY <1>1, <1>2

\* A list of hooks as an installer.
LEMMA HooksInstall ==
  ASSUME NEW b, NEW H, NEW C, NEW names \in Seq(Names),
         \A i \in DOMAIN names : names[i] \in H,
         \A i \in DOMAIN names : Finds(names[i], C, Table(b)) \/ names[i] \notin Table(b),
         b \in Supported => \A i \in DOMAIN names : names[i] \in Table(b),
         \A i, j \in DOMAIN names : i < j /\ names[i] \in AsksForCaller
           => Address(b, names[i]) # Address(b, names[j])
  PROVE  Installs(Steps("hook", names), H, C, b)
<1>1. "hook" \in Kinds
  BY DEF Kinds
<1>2. QED
  BY <1>1, StepsAre, StepsUse, StepsHook, StepsFind, StepsApart DEF Installs, Shape

\* A list of other steps as an installer.
LEMMA OthersInstall ==
  ASSUME NEW b, NEW C, NEW kind \in Kinds \ {"hook"}, NEW names \in Seq(Names),
         b \in Supported => \A i \in DOMAIN names : names[i] \in Table(b)
  PROVE  Installs(Steps(kind, names), {}, C, b)
BY StepsAre, StepsUse, StepsDoNotHook DEF Installs, Shape

\* ED7ExeTextInitialize.
LEMMA ExeTextInstalls ==
  ASSUME NEW b \in Builds \ {"unknown"}, NEW lang
  PROVE  Installs(ExeText(b # "Azure", lang), ExeHooks, {}, b)
<1> DEFINE one == <<"CED6Window__SetText">>
           four == <<"AdditionalStrings1", "AdditionalStrings2",
                     "AdditionalStrings3", "AdditionalStrings4">>
           three == <<"SetGameLanguage", "GetConsoleDesiredLanguage1",
                      "GetConsoleDesiredLanguage2">>
<1>1. /\ one \in Seq(Names) /\ four \in Seq(Names) /\ three \in Seq(Names)
  BY NamesKnown DEF InSupported, InAllBuilds, Languages3
<1>2. /\ \A i \in DOMAIN one : one[i] \in {"CED6Window__SetText"}
      /\ \A i \in DOMAIN four : four[i] \in {"AdditionalStrings1", "AdditionalStrings2",
                                             "AdditionalStrings3", "AdditionalStrings4"}
      /\ \A i \in DOMAIN three : three[i] \in {"SetGameLanguage",
                           "GetConsoleDesiredLanguage1", "GetConsoleDesiredLanguage2"}
      /\ b # "Azure" => \A i \in DOMAIN one : one[i] \in Table(b)
      /\ \A i \in DOMAIN four : four[i] \in Table(b)
      /\ \A i \in DOMAIN three : three[i] \in Table(b)
  BY TableOfKnown, TableOfZero DEF InAllBuilds, Languages3
<1>3. \A h \in {"CED6Window__SetText", "AdditionalStrings1", "AdditionalStrings2",
                "AdditionalStrings3", "AdditionalStrings4", "GetConsoleDesiredLanguage1",
                "GetConsoleDesiredLanguage2"} : Finds(h, {}, Table(b))
  BY Undemanding DEF Demanding
<1>4. Finds("SetGameLanguage", {}, Table(b))
  <2>1. {"iCurrentLanguage1", "iCurrentLanguage2"} \subseteq Table(b)
    BY TableOfKnown DEF InAllBuilds
  <2>2. QED
    BY <2>1, Demands DEF Finds
<1>5. \A i, j \in DOMAIN four : i < j => four[i] # four[j]
  OBVIOUS
<1>6. \A h \in {"AdditionalStrings1", "AdditionalStrings2", "AdditionalStrings3",
                "AdditionalStrings4"} : Address(b, h) = h
  BY DEF Address
<1>7. \A h \in {"CED6Window__SetText", "SetGameLanguage", "GetConsoleDesiredLanguage1",
                "GetConsoleDesiredLanguage2"} : h \notin AsksForCaller
  BY DEF AsksForCaller
<1>8. \A h \in {"SetGameLanguage", "GetConsoleDesiredLanguage1",
                "GetConsoleDesiredLanguage2"} : Finds(h, {}, Table(b))
  BY <1>3, <1>4
<1> DEFINE One == {"CED6Window__SetText"}
           Four == {"AdditionalStrings1", "AdditionalStrings2",
                    "AdditionalStrings3", "AdditionalStrings4"}
           Three == {"SetGameLanguage", "GetConsoleDesiredLanguage1",
                     "GetConsoleDesiredLanguage2"}
<1>9. /\ ApartFrom(One, Four, b) /\ ApartFrom(One \cup Four, Three, b)
      /\ (One \cup Four) \cup Three = ExeHooks
  BY DEF ApartFrom, AsksForCaller, Address, ExeHooks
<1> HIDE DEF one, four, three
<1>10. b # "Azure" => Installs(Steps("hook", one), One, {}, b)
  BY <1>1, <1>2, <1>3, <1>7, HooksInstall
<1>11. Installs(Steps("hook", four), Four, {}, b)
  <2>1. \A i \in DOMAIN four : Finds(four[i], {}, Table(b)) /\ four[i] \in Four
    BY <1>2, <1>3 DEF Four
  <2>2. \A i, j \in DOMAIN four : i < j => Address(b, four[i]) # Address(b, four[j])
    BY <1>2, <1>5, <1>6
  <2> HIDE DEF Four
  <2>3. QED
    BY <1>1, <1>2, <2>1, <2>2, HooksInstall
<1>12. Installs(Steps("hook", three), Three, {}, b)
  BY <1>1, <1>2, <1>7, <1>8, HooksInstall
<1> DEFINE both == lang \in {"English", "Japanese"}
           s == If(b # "Azure", Steps("hook", one))
           t == If(lang = "English", s \o Steps("hook", four))
           u == If(both, Steps("hook", three))
<1> HIDE DEF One, Four, Three, both
<1>13. Installs(s, One, {}, b)
  BY <1>10, PerhapsInstalls
<1> HIDE DEF s
<1>14. Installs(s \o Steps("hook", four), One \cup Four, {}, b)
  BY <1>9, <1>11, <1>13, Together, Zenon
<1>15. Installs(t, One \cup Four, {}, b)
  BY <1>14, PerhapsInstalls
<1>16. Installs(u, Three, {}, b)
  BY <1>12, PerhapsInstalls
<1> HIDE DEF t, u
<1>17. Installs(t \o u, (One \cup Four) \cup Three, {}, b)
  BY <1>9, <1>15, <1>16, Together, Zenon
<1>18. ExeText(b # "Azure", lang) = t \o u
  BY DEF ExeText, one, four, three, s, t, u, both
<1>19. QED
  BY <1>9, <1>17, <1>18

\* ED7FileLoaderInitialize.
LEMMA FileLoaderInstalls ==
  ASSUME NEW b \in Builds
  PROVE  Installs(FileLoaderSteps, {"nn::fs::OpenFile"}, {}, b)
<1> DEFINE one == <<"nn::fs::OpenFile">>
           two == <<"CSafeFileBase__open_FileNameCheck">>
<1>1. one \in Seq(Names) /\ two \in Seq(Names) /\ "memcpy" \in Kinds \ {"hook"}
  BY NamesKnown DEF InSupported, Kinds
<1>2. /\ \A i \in DOMAIN one : one[i] = "nn::fs::OpenFile"
      /\ \A i \in DOMAIN two : two[i] = "CSafeFileBase__open_FileNameCheck"
  OBVIOUS
<1>3. b \in Supported => {"nn::fs::OpenFile", "CSafeFileBase__open_FileNameCheck"} \subseteq Table(b)
  BY TableOfSupported DEF InSupported, Table
<1>4. Finds("nn::fs::OpenFile", {}, Table(b))
  BY Undemanding DEF Demanding
<1>5. "nn::fs::OpenFile" \notin AsksForCaller
  BY DEF AsksForCaller
<1> HIDE DEF one, two
<1>6. Installs(Steps("hook", one), {"nn::fs::OpenFile"}, {}, b)
  BY <1>1, <1>2, <1>3, <1>4, <1>5, HooksInstall
<1>7. Installs(Steps("memcpy", two), {}, {}, b)
  BY <1>1, <1>2, <1>3, OthersInstall
<1>8. ApartFrom({"nn::fs::OpenFile"}, {}, b)
  BY DEF ApartFrom
<1>9. Installs(Steps("hook", one) \o Steps("memcpy", two), {"nn::fs::OpenFile"} \cup {}, {}, b)
  BY <1>6, <1>7, <1>8, Together, Zenon
<1>10. QED
  BY <1>9 DEF FileLoaderSteps, one, two

\* The images: the functions of the game are known before the hooks go in; the
\* first release of Zero lacks the second one and goes no further.
LEMMA ImgLoaderInstalls ==
  ASSUME NEW b \in Builds \ {"unknown"}, NEW lang
  PROVE  /\ Installs(ImgLoader(lang), ImgHooks, {}, b)
         /\ b \notin Supported => Ends(ImgLoader(lang), Table(b))
<1> DEFINE found == <<"CSafeFile__CSafeFile", "CSafeFile__fclose",
                      "CSafeFileBase__destructor", "CSafeFile__GetSize", "CSafeFile__fseek",
                      "CSafeFile__ftel", "CSafeFile__fread", "CSafeFile__fopen",
                      "CSafeFile__LoadCCMem", "CSafeFile__CheckOnMem", "CPU__NewBack">>
           two == <<"CTexBase__LoadITP_chunk_IDAT", "CTexMgr__LoadITP">>
           last == <<"CTexMgr__Load2">>
           D == SafeFile \cap Table(b)
           Two == {"CTexBase__LoadITP_chunk_IDAT", "CTexMgr__LoadITP"}
           Tex == {"CTexMgr__Load2"}
<1>1. /\ found \in Seq(Names) /\ two \in Seq(Names) /\ last \in Seq(Names)
      /\ "copy" \in Kinds \ {"hook"} /\ "hook" \in Kinds
  BY NamesKnown DEF InSupported, InAllBuilds, SafeFile, SafeFileOld, Kinds
<1>2. /\ \A i \in DOMAIN found : found[i] \in SafeFile
      /\ \A p \in SafeFile : \E i \in DOMAIN found : found[i] = p
  BY DEF SafeFile, SafeFileOld
<1>3. /\ \A i \in DOMAIN two : two[i] \in Two
      /\ \A i \in DOMAIN last : last[i] \in Tex
      /\ 2 \in DOMAIN two /\ two[2] = "CTexMgr__LoadITP"
  OBVIOUS
<1>4. b \in Supported => /\ SafeFile \subseteq Table(b) /\ Two \subseteq Table(b)
                         /\ Tex \subseteq Table(b)
  BY TableOfSupported DEF InSupported, InAllBuilds
<1>5. b \notin Supported => "CTexMgr__LoadITP" \notin Table(b)
  BY TableOfFirst DEF Supported, Builds
<1>6. /\ Finds("CTexBase__LoadITP_chunk_IDAT", D, Table(b))
      /\ b \in Supported => Finds("CTexMgr__LoadITP", D, Table(b))
      /\ b \in Supported => Finds("CTexMgr__Load2", D, Table(b))
  <2>1. Finds("CTexBase__LoadITP_chunk_IDAT", D, Table(b))
    BY Undemanding DEF Demanding
  <2>2. b \in Supported => SafeFile \subseteq D
    BY <1>4
  <2>3. QED
    BY <2>1, <2>2, Demands DEF Finds
<1>7. /\ \A i \in DOMAIN two : two[i] \notin AsksForCaller
      /\ \A i \in DOMAIN last : last[i] \notin AsksForCaller
      /\ ApartFrom({}, Two, b) /\ ApartFrom({} \cup Two, Tex, b)
  BY <1>3 DEF AsksForCaller, ApartFrom
<1>8. ({} \cup Two) \cup Tex = ImgHooks
  BY DEF ImgHooks
<1> HIDE DEF found, two, last
<1>9. Installs(Steps("copy", found), {}, {}, b)
  BY <1>1, <1>2, <1>4, OthersInstall
<1>10. Installs(Steps("hook", two), Two, D, b)
  <2>1. \A i \in DOMAIN two : Finds(two[i], D, Table(b)) \/ two[i] \notin Table(b)
    BY <1>3, <1>5, <1>6
  <2> HIDE DEF D
  <2>2. QED
    BY <1>1, <1>3, <1>4, <1>7, <2>1, HooksInstall
<1>11. Ends(Steps("hook", two), Table(b)) \/ b \in Supported
  <2>1. /\ 2 \in DOMAIN Steps("hook", two) /\ Steps("hook", two)[2].kind = "hook"
        /\ Steps("hook", two)[2].pointer = "CTexMgr__LoadITP"
    BY <1>1, <1>3, StepsAre
  <2>2. QED
    BY <1>5, <2>1 DEF Ends, Fatal
<1>12. /\ Shape(Steps("hook", last), Tex, b)
       /\ b \in Supported => Sound(Steps("hook", last), D, Table(b))
  <2>1. Shape(Steps("hook", last), Tex, b)
    BY <1>1, <1>3, <1>4, <1>7, StepsAre, StepsUse, StepsHook, StepsApart DEF Shape
  <2>2. ASSUME b \in Supported
        PROVE  \A i \in DOMAIN last : Finds(last[i], D, Table(b))
    BY <1>3, <1>6, <2>2
  <2> HIDE DEF D
  <2>3. QED
    BY <1>1, <2>1, <2>2, StepsFind
<1> DEFINE t == If(lang = "English", Steps("hook", last))
<1>13. Shape(t, Tex, b) /\ (b \in Supported => Sound(t, D, Table(b)))
  BY <1>12, NoSteps DEF If, Shape
<1> HIDE DEF t
<1> DEFINE c == Steps("copy", found)
           h == Steps("hook", two)
<1>14. \A p \in D : \E j \in DOMAIN c : c[j] = Step("copy", p)
  BY <1>1, <1>2, StepsAre
<1>15. c \in Seq(StepSet) /\ h \in Seq(StepSet) /\ t \in Seq(StepSet)
  BY <1>9, <1>10, <1>13 DEF Installs, Shape
<1>16. D \subseteq Table(b)
  OBVIOUS
<1> HIDE DEF c, h, D, Two, Tex
<1>17. Installs(c \o h, {} \cup Two, {}, b)
  <2>1. D \subseteq {} \cup {p \in Table(b) : \E j \in DOMAIN c : c[j] = Step("copy", p)}
    BY <1>14, <1>16
  <2>2. Shape(h, Two, b) /\ Sound(h, D, Table(b)) /\ Installs(c, {}, {}, b)
    BY <1>9, <1>10 DEF Installs, c, h
  <2>3. QED
    BY <1>7, <2>1, <2>2, OneAfterAnother, Zenon
<1>18. b \notin Supported => Ends(c \o h, Table(b))
  BY <1>11, <1>15, ConcatEnds DEF h
<1>19. Installs((c \o h) \o t, ({} \cup Two) \cup Tex, {}, b)
  <2>1. D \subseteq {} \cup {p \in Table(b) : \E j \in DOMAIN (c \o h) :
                                            (c \o h)[j] = Step("copy", p)}
    <3>1. \A j \in DOMAIN c : j \in DOMAIN (c \o h) /\ (c \o h)[j] = c[j]
      BY <1>15, Concat
    <3>2. QED
      BY <1>14, <1>16, <3>1
  <2>2. Sound(t, D, Table(b)) \/ Ends(c \o h, Table(b))
    BY <1>13, <1>18
  <2>3. QED
    BY <1>7, <1>13, <1>17, <2>1, <2>2, OneAfterAnother, Zenon
<1>20. ImgLoader(lang) = (c \o h) \o t
  BY DEF ImgLoader, found, two, last, c, h, t
<1>21. c \o h \in Seq(StepSet)
  BY <1>15, Concat
<1>22. b \notin Supported => Ends((c \o h) \o t, Table(b))
  BY <1>15, <1>18, <1>21, ConcatEnds
<1>23. QED
  BY <1>8, <1>19, <1>20, <1>22

\* The same of an installer the first release of Zero never gets to: that its
\* hooks find their pointers is said of a supported build only.
Furnishes(s, H, C, b) == Shape(s, H, b) /\ (b \in Supported => Sound(s, C, Table(b)))

\* What holds of an installer of any build holds of one of a supported build.
LEMMA InstallsFurnishes ==
  ASSUME NEW b, NEW H, NEW C, NEW s, Installs(s, H, C, b)
  PROVE  Furnishes(s, H, C, b)
BY DEF Installs, Furnishes

\* One part after another, as OneAfterAnother.
LEMMA FurnishBoth ==
  ASSUME NEW b, NEW H, NEW K, NEW C, NEW D, NEW s, NEW t,
         Furnishes(s, H, C, b), Furnishes(t, K, D, b), ApartFrom(H, K, b),
         D \subseteq C \cup {p \in Table(b) : \E j \in DOMAIN s : s[j] = Step("copy", p)}
  PROVE  Furnishes(s \o t, H \cup K, C, b)
<1>1. s \o t \in Seq(StepSet)
  BY Concat DEF Furnishes, Shape
<1>2. HooksAmong(s \o t, H \cup K)
  BY ConcatHooksAmong DEF Furnishes, Shape
<1>3. Apart(s \o t, b)
  BY ConcatApart DEF Furnishes, Shape
<1>4. b \in Supported => Sound(s \o t, C, Table(b))
  BY ConcatSound DEF Furnishes, Shape
<1>5. b \in Supported => Uses(s \o t, Table(b))
  BY ConcatUses DEF Furnishes, Shape
<1>6. QED
  BY <1>1, <1>2, <1>3, <1>4, <1>5 DEF Furnishes, Shape

\* Two parts, as Together.
LEMMA FurnishTogether ==
  ASSUME NEW b, NEW H, NEW K, NEW C, NEW s, NEW t,
         Furnishes(s, H, C, b), Furnishes(t, K, C, b), ApartFrom(H, K, b)
  PROVE  Furnishes(s \o t, H \cup K, C, b)
<1>1. C \subseteq C \cup {p \in Table(b) : \E j \in DOMAIN s : s[j] = Step("copy", p)}
  OBVIOUS
<1>2. QED
  BY <1>1, FurnishBoth, Zenon

\* A part on a condition.
LEMMA FurnishPerhaps ==
  ASSUME NEW b, NEW H, NEW C, NEW s, NEW c, c => Furnishes(s, H, C, b)
  PROVE  Furnishes(If(c, s), H, C, b)
<1>1. CASE c
  BY <1>1 DEF If
<1>2. CASE ~c
  BY <1>2, NoSteps DEF If, Furnishes, Shape
<1>3. QED
  BY <1>1, <1>2

\* A list of hooks, of which a supported build has all they need.
LEMMA HooksFurnish ==
  ASSUME NEW b, NEW H, NEW C, NEW names \in Seq(Names),
         \A i \in DOMAIN names : names[i] \in H,
         b \in Supported => \A i \in DOMAIN names :
           Finds(names[i], C, Table(b)) /\ names[i] \in Table(b),
         \A i, j \in DOMAIN names : i < j /\ names[i] \in AsksForCaller
           => Address(b, names[i]) # Address(b, names[j])
  PROVE  Furnishes(Steps("hook", names), H, C, b)
<1>1. "hook" \in Kinds
  BY DEF Kinds
<1>2. QED
  BY <1>1, StepsAre, StepsUse, StepsHook, StepsFind, StepsApart DEF Furnishes, Shape

\* The fonts, of a build that has all they need; for the first release of Zero
\* only which functions are hooked matters.
LEMMA VWFontFixInstalls ==
  ASSUME NEW b \in Builds \ {"unknown"}, NEW lang
  PROVE  Furnishes(VWFontFix(b # "Azure", lang),
                   {"CMessageWindow__PrintText"} \cup StoryHooks \cup FontHooks, {}, b)
<1> DEFINE found == <<"GetItemName", "CFontMgr2__GetSizeSJIS">>
           Found == {"GetItemName", "CFontMgr2__GetSizeSJIS"}
           says == <<"CMessageWindow__PrintText">>
           Says == {"CMessageWindow__PrintText"}
           story == <<"SetStoryText", "DrawFontReport", "CFontMgr__DrawFontClip">>
           fonts == <<"CFontMgr2__SetFixMode", "BookDrawText", "BookIsKana",
                      "BookGetFontWidth", "CMessageWindow__AnonymousText",
                      "SaveListFontRender", "NotebookDrawText",
                      "SupportRequestDrawFont", "NotebookElementBarDraw",
                      "NotebookDrawNumberRightAligned">>
           jump == <<"NotebookSpaceCheckJump">>
           space == <<"FontRendererSpaceCheck", "BattleTutorialSBreakBlockedOffsetX",
                      "BattleTutorialSBreakBlockedOffsetY">>
           jump2 == <<"NotebookSpaceCheckJump2">>
           books == <<"OrbmentChangeViewTextXOffset1", "OrbmentChangeViewTextXOffset2",
                      "OrbmentChangeViewTextXOffset3", "OrbmentChangeViewTextXOffset4",
                      "RecipeBookRecipesOwnedNumberOffsetX",
                      "FishingBookSpeciesCaughtNumberOffsetX">>
           menus == <<"ExtraMode_RightColumnOffsetX", "ShopPriceWindow_NotForSaleOffsetX",
                      "DetectiveNotebookRequestStatus">>
           zero == b # "Azure"
<1>1. /\ found \in Seq(Names) /\ says \in Seq(Names) /\ story \in Seq(Names)
      /\ fonts \in Seq(Names)
  BY NamesKnown DEF InSupported, InAllBuilds, BookText, Notebook
<1>2. /\ jump \in Seq(Names) /\ space \in Seq(Names) /\ jump2 \in Seq(Names)
      /\ books \in Seq(Names) /\ menus \in Seq(Names)
  BY NamesKnown DEF InSupported, InAllBuilds, Tutorial, Menus, Orbment, Books
<1>3. /\ "copy" \in Kinds \ {"hook"} /\ "claim" \in Kinds \ {"hook"}
      /\ "memcpy" \in Kinds \ {"hook"} /\ "hook" \in Kinds
  BY DEF Kinds
<1>4. /\ \A i \in DOMAIN found : found[i] \in Found
      /\ \A p \in Found : \E i \in DOMAIN found : found[i] = p
      /\ \A i \in DOMAIN says : says[i] \in Says
  OBVIOUS
<1>5. /\ \A i \in DOMAIN story : story[i] \in StoryHooks
      /\ \A i, j \in DOMAIN story : i < j => story[i] # story[j]
  BY DEF StoryHooks
<1>6. \A i \in DOMAIN fonts : fonts[i] \in FontHooks
  BY DEF FontHooks
<1>7. \A i, j \in DOMAIN fonts : i < j => fonts[i] # fonts[j]
  OBVIOUS
<1>8. /\ Found \subseteq Table(b)
      /\ b \in Supported =>
           /\ Says \subseteq Table(b) /\ FontHooks \subseteq Table(b)
           /\ \A i \in DOMAIN jump : jump[i] \in Table(b)
           /\ \A i \in DOMAIN space : space[i] \in Table(b)
           /\ \A i \in DOMAIN menus : menus[i] \in Table(b)
  BY TableOfKnown, TableOfSupported
  DEF InSupported, InAllBuilds, BookText, Notebook, Tutorial, Menus, FontHooks
<1>9. ~zero =>
         /\ StoryHooks \subseteq Table(b)
         /\ \A i \in DOMAIN jump2 : jump2[i] \in Table(b)
         /\ \A i \in DOMAIN books : books[i] \in Table(b)
  <2> SUFFICES ASSUME b = "Azure"
               PROVE  /\ StoryHooks \subseteq Table(b)
                      /\ \A i \in DOMAIN jump2 : jump2[i] \in Table(b)
                      /\ \A i \in DOMAIN books : books[i] \in Table(b)
    OBVIOUS
  <2>1. b \in Supported
    BY DEF Supported
  <2>2. "CFontMgr__DrawFontClip" \in Table(b)
    BY <2>1, TableOfSupported DEF InSupported
  <2>3. Orbment \cup Books \cup {"SetStoryText", "DrawFontReport", "NotebookSpaceCheckJump2"}
          \subseteq Table(b)
    BY TableOfAzure
  <2>4. QED
    BY <2>2, <2>3 DEF StoryHooks, Orbment, Books
<1>10. /\ \A i \in DOMAIN says : Finds(says[i], Found, Table(b))
       /\ \A i \in DOMAIN story : Finds(story[i], Found, Table(b))
       /\ b \in Supported => \A i \in DOMAIN fonts : Finds(fonts[i], Found, Table(b))
  <2>1. \A h \in StoryHooks : Finds(h, Found, Table(b))
    BY Undemanding DEF Demanding, StoryHooks
  <2>2. \A h \in FontHooks \ {"CFontMgr2__SetFixMode"} : Finds(h, Found, Table(b))
    BY Undemanding DEF Demanding, FontHooks
  <2>3. Finds("CMessageWindow__PrintText", Found, Table(b))
    BY Demands DEF Finds
  <2>4. b \in Supported => Finds("CFontMgr2__SetFixMode", Found, Table(b))
    <3>1. b \in Supported => {"TranslationArray", "SaveOpcodePtrFixInfo"} \subseteq Table(b)
      BY TableOfSupported DEF InSupported, InAllBuilds
    <3>2. QED
      BY <3>1, Demands DEF Finds
  <2> HIDE DEF Found, says, story, fonts
  <2>5. \A i \in DOMAIN says : says[i] = "CMessageWindow__PrintText"
    BY <1>4
  <2>6. QED
    BY <1>5, <1>6, <2>1, <2>2, <2>3, <2>4, <2>5
<1>11. /\ \A i, j \in DOMAIN says : i < j /\ says[i] \in AsksForCaller
             => Address(b, says[i]) # Address(b, says[j])
       /\ \A i, j \in DOMAIN story : i < j /\ story[i] \in AsksForCaller
             => Address(b, story[i]) # Address(b, story[j])
       /\ \A i, j \in DOMAIN fonts : i < j /\ fonts[i] \in AsksForCaller
             => Address(b, fonts[i]) # Address(b, fonts[j])
  <2>1. \A h \in FontHooks : Address(b, h) = h
    BY DEF Address, FontHooks
  <2>2. \A h, k \in StoryHooks : h # k => Address(b, h) # Address(b, k)
    BY DEF Address, StoryHooks
  <2>3. "CMessageWindow__PrintText" \notin AsksForCaller
    BY DEF AsksForCaller
  <2> HIDE DEF says, story, fonts
  <2>4. QED
    BY <1>4, <1>5, <1>6, <1>7, <2>1, <2>2, <2>3
<1>12. /\ ApartFrom(Says, StoryHooks, b) /\ ApartFrom(Says \cup StoryHooks, FontHooks, b)
       /\ \A H : ApartFrom(H, {}, b) /\ ApartFrom({}, H, b)
  <2>1. ApartFrom(Says, StoryHooks, b) /\ \A H : ApartFrom(H, {}, b) /\ ApartFrom({}, H, b)
    BY DEF ApartFrom, AsksForCaller
  <2>2. \A h \in FontHooks : Address(b, h) = h /\ h \notin Says \cup StoryHooks
                             /\ h # "AdditionalStrings3"
    BY DEF Address, FontHooks, StoryHooks
  <2>3. \A h \in Says \cup StoryHooks : Address(b, h) \in {h, "AdditionalStrings3"}
    BY DEF Address
  <2>4. ApartFrom(Says \cup StoryHooks, FontHooks, b)
    BY <2>2, <2>3 DEF ApartFrom
  <2>5. QED
    BY <2>1, <2>4
<1>13. ~zero => b \in Supported
  BY DEF Supported
<1> HIDE DEF found, says, story, fonts, jump, space, jump2, books, menus, Found, Says, zero
<1> DEFINE c == Steps("copy", found)
           s1 == Steps("hook", says)
           s2 == If(~zero, Steps("hook", story))
           s3 == Steps("hook", fonts)
           s4 == Steps("claim", jump)
           s5 == Steps("memcpy", space)
           s6 == If(~zero, Steps("claim", jump2) \o Steps("memcpy", books))
           s7 == Steps("memcpy", menus)
<1>14. Furnishes(c, {}, {}, b) /\ \A p \in Found : \E j \in DOMAIN c : c[j] = Step("copy", p)
  <2>1. Furnishes(c, {}, {}, b)
    BY <1>1, <1>3, <1>4, <1>8, OthersInstall, InstallsFurnishes
  <2>2. \A p \in Found : \E j \in DOMAIN c : c[j] = Step("copy", p)
    BY <1>1, <1>3, <1>4, StepsAre
  <2>3. QED
    BY <2>1, <2>2
<1>15. Furnishes(s1, Says, Found, b)
  BY <1>1, <1>4, <1>8, <1>10, <1>11, HooksFurnish
<1>16. Furnishes(s2, StoryHooks, Found, b)
  <2>1. ~zero => Furnishes(Steps("hook", story), StoryHooks, Found, b)
    BY <1>1, <1>5, <1>9, <1>10, <1>11, HooksFurnish
  <2>2. QED
    BY <2>1, FurnishPerhaps
<1>17. Furnishes(s3, FontHooks, Found, b)
  BY <1>1, <1>6, <1>8, <1>10, <1>11, HooksFurnish
<1>18. /\ Furnishes(s4, {}, Found, b) /\ Furnishes(s5, {}, Found, b)
       /\ Furnishes(s7, {}, Found, b)
  BY <1>2, <1>3, <1>8, OthersInstall, InstallsFurnishes
<1>19. Furnishes(s6, {}, Found, b)
  <2>1. ~zero => /\ Furnishes(Steps("claim", jump2), {}, Found, b)
                 /\ Furnishes(Steps("memcpy", books), {}, Found, b)
    BY <1>2, <1>3, <1>9, OthersInstall, InstallsFurnishes
  <2>2. ~zero => Furnishes(Steps("claim", jump2) \o Steps("memcpy", books), {} \cup {}, Found, b)
    BY <1>12, <2>1, FurnishTogether, Zenon
  <2>3. {} \cup {} = {}
    OBVIOUS
  <2>4. QED
    BY <2>2, <2>3, FurnishPerhaps
<1> HIDE DEF c, s1, s2, s3, s4, s5, s6, s7
<1> DEFINE All == Says \cup StoryHooks \cup FontHooks
           t == s1 \o s2 \o s3 \o s4 \o s5 \o s6 \o s7
<1>20. Furnishes(s1 \o s2 \o s3, All, Found, b)
  <2>1. Furnishes(s1 \o s2, Says \cup StoryHooks, Found, b)
    BY <1>12, <1>15, <1>16, FurnishTogether, Zenon
  <2>2. QED
    BY <1>12, <1>17, <2>1, FurnishTogether, Zenon
<1> HIDE DEF All
<1>21. Furnishes(t, All, Found, b)
  <2>1. All \cup {} = All
    OBVIOUS
  <2>2. \A u, v : Furnishes(u, All, Found, b) /\ Furnishes(v, {}, Found, b)
                  => Furnishes(u \o v, All, Found, b)
    <3> SUFFICES ASSUME NEW u, NEW v, Furnishes(u, All, Found, b), Furnishes(v, {}, Found, b)
                 PROVE  Furnishes(u \o v, All, Found, b)
      OBVIOUS
    <3>1. Furnishes(u \o v, All \cup {}, Found, b)
      BY <1>12, FurnishTogether, Zenon
    <3>2. QED
      BY <2>1, <3>1
  <2>3. Furnishes(s1 \o s2 \o s3 \o s4 \o s5, All, Found, b)
    BY <1>18, <1>20, <2>2, Zenon
  <2>4. QED
    BY <1>18, <1>19, <2>2, <2>3, Zenon
<1>22. Furnishes(If(lang = "English", t), All, Found, b)
  BY <1>21, FurnishPerhaps
<1> HIDE DEF t
<1>23. Furnishes(c \o If(lang = "English", t), {} \cup All, {}, b)
  <2>1. Found \subseteq {} \cup {p \in Table(b) : \E j \in DOMAIN c : c[j] = Step("copy", p)}
    BY <1>8, <1>14
  <2>2. QED
    BY <1>12, <1>14, <1>22, <2>1, FurnishBoth, Zenon
<1>24. VWFontFix(b # "Azure", lang) = c \o If(lang = "English", t)
  BY DEF VWFontFix, c, s1, s2, s3, s4, s5, s6, s7, t, zero, found, says, story, fonts, jump,
         space, jump2, books, menus
<1>25. {} \cup All = {"CMessageWindow__PrintText"} \cup StoryHooks \cup FontHooks
  BY DEF All, Says
<1>26. QED
  BY <1>23, <1>24, <1>25

\* ED7MiscPatchesInitialize.
LEMMA MiscPatchesInstall ==
  ASSUME NEW b \in Builds \ {"unknown"}
  PROVE  Installs(MiscPatches, MiscHooks, {}, b)
<1> DEFINE six == <<"nvnLoadCProcs", "LoadBattle", "LoadBattle2", "LoadBattle3",
                    "LoadMap", "RenderTexture">>
<1>1. six \in Seq(Names)
  BY NamesKnown DEF InSupported, InAllBuilds, MapLoading
<1>2. \A i \in DOMAIN six : six[i] \in MiscHooks
  BY DEF MiscHooks
<1>3. MiscHooks \subseteq Table(b)
        /\ {"pfnc_nvnSamplerBuilderSetMaxAnisotropy", "pfnc_nvnQueuePresentTexture"}
             \subseteq Table(b)
  BY TableOfKnown DEF InAllBuilds, MapLoading, MiscHooks
<1>4. \A h \in MiscHooks : Finds(h, {}, Table(b)) /\ h \notin AsksForCaller
  <2>1. \A h \in MiscHooks \ {"nvnLoadCProcs"} : Finds(h, {}, Table(b))
    BY Undemanding DEF Demanding, MiscHooks
  <2>2. Finds("nvnLoadCProcs", {}, Table(b))
    BY <1>3, Demands DEF Finds
  <2>3. \A h \in MiscHooks : h \notin AsksForCaller
    BY DEF MiscHooks, AsksForCaller
  <2>4. QED
    BY <2>1, <2>2, <2>3
<1> HIDE DEF six
<1>5. Installs(Steps("hook", six), MiscHooks, {}, b)
  BY <1>1, <1>2, <1>3, <1>4, HooksInstall
<1>6. QED
  BY <1>5 DEF MiscPatches, six

\* The functions LateInit_hook hooks.
AllHooks == (((ExeHooks \cup {"nn::fs::OpenFile"}) \cup ImgHooks)
             \cup ({"CMessageWindow__PrintText"} \cup StoryHooks \cup FontHooks)) \cup MiscHooks

\* All installers, in the order of LateInit_hook: the first release of Zero does
\* not get as far as the fonts.
LEMMA InstallersInstall ==
  ASSUME NEW b \in Builds \ {"unknown"}, NEW lang
  PROVE  Installs(Installers(b, lang), AllHooks, {}, b)
<1> DEFINE zero == b # "Azure"
           exe == ExeText(zero, lang)
           img == ImgLoader(lang)
           font == VWFontFix(zero, lang)
           File == {"nn::fs::OpenFile"}
           Font == {"CMessageWindow__PrintText"} \cup StoryHooks \cup FontHooks
           H1 == ExeHooks \cup File
           H2 == H1 \cup ImgHooks
           H3 == H2 \cup Font
<1>1. \A h \in AllHooks \ {"DrawFontReport"} : Address(b, h) = h
  BY DEF Address
<1>2. Address(b, "DrawFontReport") \in {"DrawFontReport", "AdditionalStrings3"}
  BY DEF Address
<1>3. /\ ExeHooks \cap AsksForCaller = {"AdditionalStrings2"}
      /\ File \cap AsksForCaller = {} /\ ImgHooks \cap AsksForCaller = {}
  BY DEF ExeHooks, ImgHooks, AsksForCaller
<1>4. "AdditionalStrings2" \notin File \cup ImgHooks \cup Font \cup MiscHooks
      /\ "AdditionalStrings2" # "DrawFontReport" /\ "AdditionalStrings2" # "AdditionalStrings3"
  BY DEF ImgHooks, StoryHooks, FontHooks, MiscHooks
<1>5. /\ MiscHooks \cap AsksForCaller = {} /\ MiscHooks \cap Font = {}
      /\ "DrawFontReport" \notin MiscHooks /\ "AdditionalStrings3" \notin MiscHooks
      /\ "AdditionalStrings2" \notin MiscHooks
  BY DEF MiscHooks, StoryHooks, FontHooks, AsksForCaller
<1>6. AllHooks = H3 \cup MiscHooks
  BY DEF AllHooks
<1> HIDE DEF exe, img, font, File, Font
<1>7. ApartFrom(ExeHooks, File, b) /\ ApartFrom(H1, ImgHooks, b)
  <2>1. "DrawFontReport" \notin File \cup ImgHooks
    BY DEF File, ImgHooks
  <2>2. \A k \in File \cup ImgHooks : k \in AllHooks /\ k # "AdditionalStrings2"
    BY <1>4, <1>6
  <2>3. "AdditionalStrings2" \in AllHooks
    BY DEF AllHooks, ExeHooks
  <2>4. Address(b, "AdditionalStrings2") = "AdditionalStrings2"
    BY <1>1, <1>4, <2>3
  <2>5. \A k \in File \cup ImgHooks : Address(b, k) # "AdditionalStrings2"
    BY <1>1, <2>1, <2>2
  <2>6. QED
    BY <1>3, <2>4, <2>5 DEF ApartFrom
<1>8. ApartFrom(H2, Font, b)
  <2>1. "AdditionalStrings2" \in AllHooks
    BY DEF AllHooks, ExeHooks
  <2>2. Address(b, "AdditionalStrings2") = "AdditionalStrings2"
    BY <1>1, <1>4, <2>1
  <2>3. \A k \in Font : Address(b, k) # "AdditionalStrings2"
    BY <1>1, <1>2, <1>4, <1>6
  <2>4. QED
    BY <1>3, <2>2, <2>3 DEF ApartFrom
<1>9. ApartFrom(H3, MiscHooks, b)
  <2>1. \A k \in MiscHooks : Address(b, k) = k
    BY <1>1, <1>5, <1>6
  <2>2. \A h \in H3 : Address(b, h) \in {h, "AdditionalStrings3"}
    BY <1>1, <1>2, <1>6
  <2>3. \A h \in H3 : h \in AsksForCaller => h \notin MiscHooks
    BY <1>5
  <2> HIDE DEF H3
  <2>4. QED
    BY <1>5, <2>1, <2>2, <2>3 DEF ApartFrom
<1> HIDE DEF H1, H2, H3
<1>10. Installs(exe \o FileLoaderSteps, H1, {}, b)
  <2>1. Installs(exe, ExeHooks, {}, b) /\ Installs(FileLoaderSteps, File, {}, b)
    BY ExeTextInstalls, FileLoaderInstalls DEF exe, File
  <2>2. QED
    BY <1>7, <2>1, Together, Zenon DEF H1
<1>11. /\ Installs((exe \o FileLoaderSteps) \o img, H2, {}, b)
       /\ b \notin Supported => Ends((exe \o FileLoaderSteps) \o img, Table(b))
  <2>1. Installs(img, ImgHooks, {}, b) /\ (b \notin Supported => Ends(img, Table(b)))
    BY ImgLoaderInstalls DEF img
  <2>2. Installs((exe \o FileLoaderSteps) \o img, H2, {}, b)
    BY <1>7, <1>10, <2>1, Together, Zenon DEF H2
  <2>3. exe \o FileLoaderSteps \in Seq(StepSet) /\ img \in Seq(StepSet)
    BY <1>10, <2>1 DEF Installs, Shape
  <2>4. QED
    BY <2>1, <2>2, <2>3, ConcatEnds
<1> DEFINE s == (exe \o FileLoaderSteps) \o img
<1>12. Furnishes(font, Font, {}, b)
  BY VWFontFixInstalls DEF font, Font
<1>13. MiscPatches \in Seq(StepSet) /\ Installs(MiscPatches, MiscHooks, {}, b)
  BY MiscPatchesInstall DEF Installs, Shape
<1> HIDE DEF s
<1>14. Installs(s \o font, H3, {}, b)
  <2>1. Shape(font, Font, b) /\ (Sound(font, {}, Table(b)) \/ Ends(s, Table(b)))
    BY <1>11, <1>12 DEF Furnishes, s
  <2>2. Installs(s, H2, {}, b)
    BY <1>11 DEF s
  <2>3. {} \subseteq {} \cup {p \in Table(b) : \E j \in DOMAIN s : s[j] = Step("copy", p)}
    OBVIOUS
  <2>4. ApartFrom(H2, Font, b)
    BY <1>8
  <2> DEFINE N == {}
  <2>5. N \subseteq N \cup {p \in Table(b) : \E j \in DOMAIN s : s[j] = Step("copy", p)}
    BY <2>3
  <2>6. Installs(s, H2, N, b) /\ (Sound(font, N, Table(b)) \/ Ends(s, Table(b)))
    BY <2>1, <2>2
  <2> HIDE DEF N
  <2>7. Installs(s \o font, H2 \cup Font, N, b)
    BY <2>1, <2>4, <2>5, <2>6, OneAfterAnother, Zenon
  <2>8. QED
    BY <2>7 DEF H3, N
<1>15. Installs((s \o font) \o MiscPatches, H3 \cup MiscHooks, {}, b)
  BY <1>9, <1>13, <1>14, Together, Zenon
<1>16. Installers(b, lang) = (s \o font) \o MiscPatches
  BY DEF Installers, s, exe, img, font
<1>17. QED
  BY <1>6, <1>15, <1>16 DEF H3

-----------------------------------------------------------------------------
(* The invariant.                                                          *)

BootKinds == {"setup", "detect", "hook"}
BootNames == Foundations \cup {"build", "LateInit"}
BootSet == [kind : BootKinds, pointer : BootNames]

\* What the first k steps of start-up have set up.
SetUpBy(k) == {f \in Foundations : \E i \in 1 .. k : Boot[i] = Step("setup", f)}

\* Start-up has done its first k steps.
Booted(k) ==
  /\ Len(todo) = 6 - k
  /\ \A i \in 1 .. 6 - k : todo[i] = Boot[i + k]
  /\ ready = SetUpBy(k)
  /\ k < 5 => pointers = {}
  /\ k >= 5 => build # "unknown" /\ pointers = Table(build)
  /\ k < 6 => hooks = <<>>
  /\ k = 6 => hooks = <<"LateInit">> /\ handle = "own"

Booting == todo \in Seq(BootSet) /\ copied = {} /\ \E k \in 0 .. 6 : Booted(k)

\* The game has started.
Started ==
  /\ build # "unknown" /\ pointers = Table(build)
  /\ ready = Foundations /\ handle = "own"
  /\ \A h \in ToSet(hooks) : Finds(h, copied, pointers)

Installing ==
  /\ todo \in Seq(StepSet)
  /\ Sound(todo, copied, pointers) /\ Apart(todo, build)
  /\ build \in Supported => Uses(todo, pointers)
  /\ \A i \in DOMAIN hooks, j \in DOMAIN todo :
       todo[j].kind = "hook" /\ hooks[i] \in AsksForCaller =>
         Address(build, hooks[i]) # Address(build, todo[j].pointer)

Safe ==
  /\ TypeOK /\ hooks \in Seq(Names)
  /\ EngineComesFirst /\ SupportedIsComplete /\ HooksFindTheirPointers /\ CallersAreTheGame

StartupInv ==
  /\ Safe
  /\ phase = "boot" => Booting
  /\ phase \in {"installing", "patched"} => Started
  /\ phase = "installing" => Installing

-----------------------------------------------------------------------------
(* One step less.                                                          *)

\* The head and the tail of a sequence.
LEMMA Rest ==
  ASSUME NEW S, NEW s \in Seq(S), s # <<>>
  PROVE  /\ Head(s) \in S /\ Head(s) = s[1] /\ 1 \in DOMAIN s
         /\ Tail(s) \in Seq(S) /\ Len(Tail(s)) = Len(s) - 1 /\ Len(s) \in Nat \ {0}
         /\ DOMAIN s = 1 .. Len(s) /\ DOMAIN Tail(s) = 1 .. Len(s) - 1
         /\ \A i \in 1 .. Len(s) - 1 : i + 1 \in DOMAIN s /\ Tail(s)[i] = s[i + 1]
  OBVIOUS

\* A step that does not end the process hooks a function whose hook finds its
\* pointers, and leaves steps of which all is said again.
LEMMA RestIsSound ==
  ASSUME NEW s \in Seq(StepSet), s # <<>>, NEW C, NEW P, Sound(s, C, P), ~Fatal(Head(s), P)
  PROVE  /\ Head(s).kind = "hook" => Finds(Head(s).pointer, C, P)
         /\ Sound(Tail(s), C \cup {p \in P : Head(s) = Step("copy", p)}, P)
<1> DEFINE t == Tail(s)
           Before(v, i) == {p \in P : \E j \in 1 .. i - 1 : v[j] = Step("copy", p)}
           D == C \cup {p \in P : Head(s) = Step("copy", p)}
<1>1. /\ Head(s) = s[1] /\ 1 \in DOMAIN s /\ Len(s) \in Nat
      /\ DOMAIN s = 1 .. Len(s) /\ DOMAIN t = 1 .. Len(s) - 1
      /\ \A i \in 1 .. Len(s) - 1 : i + 1 \in DOMAIN s /\ t[i] = s[i + 1]
  BY Rest
<1>2. \A i \in DOMAIN s : s[i].kind = "hook" =>
        \/ Finds(s[i].pointer, C \cup Before(s, i), P)
        \/ \E j \in 1 .. i : Fatal(s[j], P)
  BY DEF Sound
<1>3. Head(s).kind = "hook" => Finds(Head(s).pointer, C, P)
  <2>1. Before(s, 1) = {} /\ \A j \in 1 .. 1 : j = 1
    OBVIOUS
  <2>2. C \cup {} = C
    OBVIOUS
  <2> HIDE DEF Before
  <2>3. QED
    BY <1>1, <1>2, <2>1, <2>2
<1> HIDE DEF t
<1>4. ASSUME NEW i \in DOMAIN t, t[i].kind = "hook"
      PROVE  \/ Finds(t[i].pointer, D \cup Before(t, i), P)
             \/ \E j \in 1 .. i : Fatal(t[j], P)
  <2>1. i \in 1 .. Len(s) - 1 /\ i + 1 \in DOMAIN s /\ t[i] = s[i + 1]
    BY <1>1
  <2>2. \A j \in 1 .. i + 1 : j # 1 => j - 1 \in 1 .. i /\ j - 1 \in DOMAIN t /\ t[j - 1] = s[j]
    <3> SUFFICES ASSUME NEW j \in 1 .. i + 1, j # 1
                 PROVE  j - 1 \in 1 .. i /\ j - 1 \in DOMAIN t /\ t[j - 1] = s[j]
      OBVIOUS
    <3>1. j - 1 \in 1 .. i /\ j - 1 \in 1 .. Len(s) - 1 /\ (j - 1) + 1 = j
      BY <1>1, <2>1
    <3>2. QED
      BY <1>1, <3>1
  <2>3. C \cup Before(s, i + 1) \subseteq D \cup Before(t, i)
    <3> SUFFICES ASSUME NEW p \in P, NEW j \in 1 .. (i + 1) - 1, s[j] = Step("copy", p)
                 PROVE  p \in D \cup Before(t, i)
      OBVIOUS
    <3>1. CASE j = 1
      BY <1>1, <3>1
    <3>2. CASE j # 1
      <4>1. j - 1 \in 1 .. i - 1
        BY <2>1, <3>2
      <4>2. t[j - 1] = s[j]
        BY <2>1, <2>2, <3>2
      <4>3. QED
        BY <4>1, <4>2
    <3>3. QED
      BY <3>1, <3>2
  <2> HIDE DEF Before, D
  <2>4. CASE Finds(s[i + 1].pointer, C \cup Before(s, i + 1), P)
    BY <2>1, <2>3, <2>4 DEF Finds
  <2>5. ASSUME NEW j \in 1 .. i + 1, Fatal(s[j], P)
        PROVE  \E l \in 1 .. i : Fatal(t[l], P)
    <3>1. j # 1
      BY <1>1, <2>5
    <3>2. QED
      BY <2>2, <2>5, <3>1
  <2>6. QED
    BY <1>2, <1>4, <2>1, <2>4, <2>5
<1>5. Sound(t, D, P)
  BY <1>4 DEF Sound
<1>6. QED
  BY <1>3, <1>5 DEF t

\* The steps that are left after the first keep apart, and from the first.
LEMMA RestIsApart ==
  ASSUME NEW s \in Seq(StepSet), s # <<>>, NEW b, NEW P, Apart(s, b)
  PROVE  /\ Apart(Tail(s), b)
         /\ Head(s).kind = "hook" /\ Head(s).pointer \in AsksForCaller =>
              \A j \in DOMAIN Tail(s) : Tail(s)[j].kind = "hook" =>
                Address(b, Head(s).pointer) # Address(b, Tail(s)[j].pointer)
         /\ Uses(s, P) => Head(s).pointer \in P /\ Uses(Tail(s), P)
<1> DEFINE t == Tail(s)
<1>1. /\ Head(s) = s[1] /\ 1 \in DOMAIN s /\ Len(s) \in Nat
      /\ DOMAIN s = 1 .. Len(s) /\ DOMAIN t = 1 .. Len(s) - 1
      /\ \A i \in 1 .. Len(s) - 1 : i + 1 \in DOMAIN s /\ t[i] = s[i + 1]
  BY Rest
<1> HIDE DEF t
<1>2. ASSUME NEW i \in DOMAIN t, NEW j \in DOMAIN t, i < j
      PROVE  i + 1 < j + 1
  BY <1>1, <1>2
<1>3. Apart(t, b)
  BY <1>1, <1>2 DEF Apart
<1>4. \A j \in DOMAIN t : 1 < j + 1
  BY <1>1
<1>5. Head(s).kind = "hook" /\ Head(s).pointer \in AsksForCaller =>
        \A j \in DOMAIN t : t[j].kind = "hook" =>
          Address(b, Head(s).pointer) # Address(b, t[j].pointer)
  BY <1>1, <1>4 DEF Apart
<1>6. Uses(s, P) => Head(s).pointer \in P /\ Uses(t, P)
  BY <1>1 DEF Uses
<1>7. QED
  BY <1>3, <1>5, <1>6 DEF t

-----------------------------------------------------------------------------
(* The start-up.                                                           *)

\* StepsAre, for the steps of the start-up.
LEMMA BootSteps ==
  ASSUME NEW kind \in BootKinds, NEW names \in Seq(BootNames)
  PROVE  /\ Steps(kind, names) \in Seq(BootSet)
         /\ Len(Steps(kind, names)) = Len(names)
         /\ \A i \in 1 .. Len(names) : Steps(kind, names)[i] = Step(kind, names[i])
<1>1. DOMAIN names = 1 .. Len(names) /\ Len(names) \in Nat
  OBVIOUS
<1>2. \A i \in 1 .. Len(names) : Step(kind, names[i]) \in BootSet
  BY DEF Step, BootSet
<1>3. Steps(kind, names) = [i \in 1 .. Len(names) |-> Step(kind, names[i])]
  BY <1>1 DEF Steps
<1>4. Steps(kind, names) \in Seq(BootSet) /\ Len(Steps(kind, names)) = Len(names)
  BY <1>1, <1>2, <1>3
<1>5. QED
  BY <1>3, <1>4

\* The six steps of the start-up.
LEMMA BootIs ==
  /\ Boot \in Seq(BootSet) /\ Len(Boot) = 6
  /\ Boot[1] = Step("setup", "virtmem") /\ Boot[2] = Step("setup", "handle")
  /\ Boot[3] = Step("setup", "trampolines") /\ Boot[4] = Step("setup", "logger")
  /\ Boot[5] = Step("detect", "build") /\ Boot[6] = Step("hook", "LateInit")
<1> DEFINE four == <<"virtmem", "handle", "trampolines", "logger">>
           five == <<"build">>
           six == <<"LateInit">>
           s == Steps("setup", four)
           t == Steps("detect", five)
           u == Steps("hook", six)
<1>1. /\ four \in Seq(BootNames) /\ Len(four) = 4
      /\ four[1] = "virtmem" /\ four[2] = "handle"
      /\ four[3] = "trampolines" /\ four[4] = "logger"
  BY DEF Foundations, BootNames
<1>2. /\ five \in Seq(BootNames)
      /\ five[1] = "build" /\ Len(five) = 1
      /\ six \in Seq(BootNames)
      /\ six[1] = "LateInit" /\ Len(six) = 1
  BY DEF BootNames
<1>3. ASSUME NEW kind \in BootKinds, NEW l \in Seq(BootNames)
      PROVE  /\ Steps(kind, l) \in Seq(BootSet) /\ Len(Steps(kind, l)) = Len(l)
             /\ \A i \in 1 .. Len(l) : Steps(kind, l)[i] = Step(kind, l[i])
  BY BootSteps
<1>4. "setup" \in BootKinds /\ "detect" \in BootKinds /\ "hook" \in BootKinds
  BY DEF BootKinds
<1> HIDE DEF four, five, six
<1>5. /\ s \in Seq(BootSet) /\ Len(s) = 4
      /\ s[1] = Step("setup", "virtmem") /\ s[2] = Step("setup", "handle")
      /\ s[3] = Step("setup", "trampolines") /\ s[4] = Step("setup", "logger")
  <2>1. /\ s \in Seq(BootSet) /\ Len(s) = Len(four)
        /\ \A i \in 1 .. Len(four) : s[i] = Step("setup", four[i])
    BY <1>1, <1>3, <1>4
  <2> HIDE DEF s
  <2>2. /\ Len(four) = 4 /\ four[1] = "virtmem" /\ four[2] = "handle"
        /\ four[3] = "trampolines" /\ four[4] = "logger"
    BY <1>1
  <2>3. 1 \in 1 .. 4 /\ 2 \in 1 .. 4 /\ 3 \in 1 .. 4 /\ 4 \in 1 .. 4
    OBVIOUS
  <2>4. Len(s) = 4 /\ \A i \in 1 .. 4 : s[i] = Step("setup", four[i])
    BY <2>1, <2>2
  <2>5. /\ s[1] = Step("setup", four[1]) /\ s[2] = Step("setup", four[2])
        /\ s[3] = Step("setup", four[3]) /\ s[4] = Step("setup", four[4])
    BY <2>3, <2>4
  <2>6. QED
    BY <2>1, <2>2, <2>4, <2>5
<1>6. /\ t \in Seq(BootSet) /\ Len(t) = 1 /\ t[1] = Step("detect", "build")
      /\ u \in Seq(BootSet) /\ Len(u) = 1 /\ u[1] = Step("hook", "LateInit")
  <2>1. /\ t \in Seq(BootSet) /\ Len(t) = Len(five)
        /\ \A i \in 1 .. Len(five) : t[i] = Step("detect", five[i])
        /\ u \in Seq(BootSet) /\ Len(u) = Len(six)
        /\ \A i \in 1 .. Len(six) : u[i] = Step("hook", six[i])
    BY <1>2, <1>3, <1>4
  <2> HIDE DEF t, u
  <2>2. QED
    BY <1>2, <2>1
<1>7. Boot = (s \o t) \o u
  BY DEF Boot, four, five, six
<1> HIDE DEF s, t, u
<1> DEFINE v == s \o t
           w == v \o u
<1>8. v \in Seq(BootSet) /\ Len(v) = 5 /\ v[5] = t[1] /\ \A i \in 1 .. 4 : v[i] = s[i]
  <2>1. /\ v \in Seq(BootSet) /\ Len(v) = Len(s) + Len(t)
        /\ \A i \in 1 .. Len(s) : v[i] = s[i]
        /\ \A i \in 1 .. Len(t) : v[Len(s) + i] = t[i]
    <3>1. s \in Seq(BootSet) /\ t \in Seq(BootSet)
      BY <1>5, <1>6
    <3>2. QED
      BY <3>1, Concat
  <2> HIDE DEF v
  <2>2. Len(s) = 4 /\ Len(t) = 1
    BY <1>5, <1>6
  <2>3. Len(v) = 5 /\ 1 \in 1 .. Len(t) /\ Len(s) + 1 = 5
    <3>1. Len(v) = Len(s) + Len(t)
      BY <2>1
    <3>2. QED
      BY <2>2, <3>1
  <2>4. QED
    BY <2>1, <2>2, <2>3
<1> HIDE DEF v
<1>9. w \in Seq(BootSet) /\ Len(w) = 6 /\ w[6] = u[1] /\ \A i \in 1 .. 5 : w[i] = v[i]
  <2>1. /\ w \in Seq(BootSet) /\ Len(w) = Len(v) + Len(u)
        /\ \A i \in 1 .. Len(v) : w[i] = v[i]
        /\ \A i \in 1 .. Len(u) : w[Len(v) + i] = u[i]
    <3>1. u \in Seq(BootSet) /\ v \in Seq(BootSet)
      BY <1>6, <1>8
    <3>2. QED
      BY <3>1, Concat
  <2> HIDE DEF w
  <2>2. Len(w) = 6 /\ 1 \in 1 .. Len(u) /\ Len(v) + 1 = 6
    BY <1>6, <1>8, <2>1
  <2>3. QED
    BY <1>8, <2>1, <2>2
<1>10. Boot = w
  BY <1>7 DEF v
<1> HIDE DEF w
<1>11. w[1] = s[1] /\ w[2] = s[2] /\ w[3] = s[3] /\ w[4] = s[4] /\ w[5] = t[1]
  <2>1. w[5] = v[5] /\ \A i \in 1 .. 4 : w[i] = v[i] /\ v[i] = s[i]
    BY <1>8, <1>9
  <2>2. QED
    BY <1>8, <2>1
<1>12. QED
  BY <1>5, <1>6, <1>9, <1>10, <1>11

\* What they have set up.
LEMMA SetUpByIs ==
  /\ SetUpBy(0) = {} /\ SetUpBy(2) = {"virtmem", "handle"}
  /\ \A k \in 4 .. 6 : SetUpBy(k) = Foundations
  /\ \A k \in 0 .. 5 : SetUpBy(k + 1) =
       SetUpBy(k) \cup {f \in Foundations : Boot[k + 1] = Step("setup", f)}
<1>1. \A f, g : /\ Step("setup", f) = Step("setup", g) => f = g
                /\ Step("setup", f) # Step("detect", g) /\ Step("setup", f) # Step("hook", g)
  BY DEF Step
<1>2. SetUpBy(0) = {}
  BY DEF SetUpBy
<1>3. SetUpBy(2) = {"virtmem", "handle"}
  <2>1. \A i : i \in 1 .. 2 <=> i = 1 \/ i = 2
    OBVIOUS
  <2>2. \A f \in Foundations : f \in SetUpBy(2)
          <=> Boot[1] = Step("setup", f) \/ Boot[2] = Step("setup", f)
    BY <2>1 DEF SetUpBy
  <2>3. \A f \in Foundations : f \in SetUpBy(2) <=> f = "virtmem" \/ f = "handle"
    BY <1>1, <2>2, BootIs
  <2>4. SetUpBy(2) \subseteq Foundations /\ {"virtmem", "handle"} \subseteq Foundations
    BY DEF SetUpBy, Foundations
  <2>5. QED
    BY <2>3, <2>4
<1>4. ASSUME NEW k \in 4 .. 6
      PROVE  SetUpBy(k) = Foundations
  <2>1. 1 \in 1 .. k /\ 2 \in 1 .. k /\ 3 \in 1 .. k /\ 4 \in 1 .. k
    OBVIOUS
  <2>2. QED
    BY <2>1, BootIs DEF SetUpBy, Foundations
<1>5. ASSUME NEW k \in 0 .. 5
      PROVE  SetUpBy(k + 1) = SetUpBy(k) \cup {f \in Foundations : Boot[k + 1] = Step("setup", f)}
  <2>1. \A i : i \in 1 .. k + 1 <=> i \in 1 .. k \/ i = k + 1
    OBVIOUS
  <2>2. QED
    BY <2>1 DEF SetUpBy
<1>6. QED
  BY <1>2, <1>3, <1>4, <1>5

\* The step that comes next is the one the number of those done says.
LEMMA BootGoesOn ==
  ASSUME Booting, todo # <<>>
  PROVE  /\ Tail(todo) \in Seq(BootSet)
         /\ \E k \in 0 .. 5 :
              /\ Booted(k) /\ Head(todo) = Boot[k + 1]
              /\ Len(Tail(todo)) = 6 - (k + 1)
              /\ \A i \in 1 .. 6 - (k + 1) : Tail(todo)[i] = Boot[i + (k + 1)]
<1>1. todo \in Seq(BootSet)
  BY DEF Booting
<1> DEFINE rest == Tail(todo)
           first == Head(todo)
<1>2. /\ first = todo[1] /\ rest \in Seq(BootSet) /\ Len(rest) = Len(todo) - 1
      /\ Len(todo) \in Nat \ {0}
      /\ \A i \in 1 .. Len(todo) - 1 : rest[i] = todo[i + 1]
  BY <1>1, Rest
<1> HIDE DEF rest, first
<1>3. PICK k \in 0 .. 6 : Booted(k)
  BY DEF Booting
<1>4. Len(todo) = 6 - k /\ \A i \in 1 .. 6 - k : todo[i] = Boot[i + k]
  BY <1>3 DEF Booted
<1>5. k \in 0 .. 5 /\ 1 \in 1 .. 6 - k /\ 1 + k = k + 1
  BY <1>2, <1>4
<1>6. first = Boot[k + 1]
  BY <1>2, <1>4, <1>5
<1>7. Len(rest) = 6 - (k + 1)
  BY <1>2, <1>4
<1>8. ASSUME NEW i \in 1 .. 6 - (k + 1)
      PROVE  rest[i] = Boot[i + (k + 1)]
  <2>1. i \in 1 .. Len(todo) - 1 /\ i + 1 \in 1 .. 6 - k /\ (i + 1) + k = i + (k + 1)
    BY <1>4, <1>5
  <2>2. QED
    BY <1>2, <1>4, <2>1
<1>9. QED
  BY <1>2, <1>3, <1>5, <1>6, <1>7, <1>8 DEF rest, first

\* The fields of a step.
LEMMA StepFields ==
  ASSUME NEW kind, NEW p
  PROVE  Step(kind, p).kind = kind /\ Step(kind, p).pointer = p
BY DEF Step

\* The step after the first k.
LEMMA BootStepIs ==
  ASSUME NEW k \in 0 .. 5
  PROVE  \/ k = 0 /\ Boot[k + 1] = Step("setup", "virtmem")
         \/ k = 1 /\ Boot[k + 1] = Step("setup", "handle")
         \/ k = 2 /\ Boot[k + 1] = Step("setup", "trampolines")
         \/ k = 3 /\ Boot[k + 1] = Step("setup", "logger")
         \/ k = 4 /\ Boot[k + 1] = Step("detect", "build")
         \/ k = 5 /\ Boot[k + 1] = Step("hook", "LateInit")
<1>1. k = 0 \/ k = 1 \/ k = 2 \/ k = 3 \/ k = 4 \/ k = 5
  OBVIOUS
<1>2. 0 + 1 = 1 /\ 1 + 1 = 2 /\ 2 + 1 = 3 /\ 3 + 1 = 4 /\ 4 + 1 = 5 /\ 5 + 1 = 6
  OBVIOUS
<1>3. QED
  BY <1>1, <1>2, BootIs

\* The kinds of the steps tell where the process is.
LEMMA WhereItIs ==
  ASSUME StartupInv, Running
  PROVE  /\ phase = "boot" => Booting /\ Head(todo).kind \in BootKinds
         /\ phase = "installing" => Started /\ Installing /\ Head(todo) \in StepSet
         /\ phase = "boot" \/ phase = "installing"
<1>1. todo # <<>> /\ (phase = "boot" \/ phase = "installing")
  BY DEF Running
<1>2. CASE phase = "boot"
  <2>1. Booting /\ todo \in Seq(BootSet)
    BY <1>2 DEF StartupInv, Booting
  <2>2. Head(todo) \in BootSet
    BY <1>1, <2>1, Rest
  <2>3. QED
    BY <1>2, <2>1, <2>2 DEF BootSet
<1>3. CASE phase = "installing"
  <2>1. Started /\ Installing /\ todo \in Seq(StepSet)
    BY <1>3 DEF StartupInv, Installing
  <2>2. Head(todo) \in StepSet
    BY <1>1, <2>1, Rest
  <2>3. QED
    BY <1>3, <2>1, <2>2
<1>4. QED
  BY <1>1, <1>2, <1>3

\* One more step of the start-up is done.
LEMMA BootStepDone ==
  ASSUME NEW k \in 0 .. 5, Booted(k), Booting, todo # <<>>, Done, copied' = copied,
         Len(Tail(todo)) = 6 - (k + 1),
         \A i \in 1 .. 6 - (k + 1) : Tail(todo)[i] = Boot[i + (k + 1)],
         ready' = ready \cup {f \in Foundations : Boot[k + 1] = Step("setup", f)},
         k < 4 => pointers' = {},
         k >= 4 => build' # "unknown" /\ pointers' = Table(build'),
         k < 5 => hooks' = <<>>,
         k = 5 => hooks' = <<"LateInit">> /\ handle' = "own"
  PROVE  Booting'
<1>1. Tail(todo) \in Seq(BootSet)
  BY BootGoesOn
<1>2. k + 1 \in 0 .. 6
  OBVIOUS
<1>3. todo' = Tail(todo)
  BY DEF Done
<1>4. ready' = SetUpBy(k + 1)
  BY SetUpByIs DEF Booted
<1>5. /\ k + 1 < 5 => pointers' = {}
      /\ k + 1 >= 5 => build' # "unknown" /\ pointers' = Table(build')
      /\ k + 1 < 6 => hooks' = <<>>
      /\ k + 1 = 6 => hooks' = <<"LateInit">> /\ handle' = "own"
  OBVIOUS
<1>6. Booted(k + 1)'
  BY <1>3, <1>4, <1>5 DEF Booted, SetUpBy, Boot, Steps, Step
<1>7. copied' = {}
  BY DEF Booting
<1>8. QED
  BY <1>1, <1>2, <1>3, <1>6, <1>7 DEF Booting

\* LanguageFor knows four languages.
LEMMA LanguageIs ==
  \A code : LanguageFor(code) \in {"English", "Japanese", "TraditionalChinese", "Korean"}
BY DEF LanguageFor

\* The request for the handle, granted or not.
LEMMA AskForHandleKeeps ==
  ASSUME StartupInv, AskForHandle
  PROVE  StartupInv'
<1>1. Running /\ Head(todo).kind = "setup" /\ Head(todo).pointer = "handle" /\ todo # <<>>
  BY DEF AskForHandle, Current, Pointer, Running
<1>2. phase = "boot" /\ Booting
  BY <1>1, WhereItIs DEF StepSet, Kinds
<1>3. PICK k \in 0 .. 5 :
        /\ Booted(k) /\ Head(todo) = Boot[k + 1] /\ Len(Tail(todo)) = 6 - (k + 1)
        /\ \A i \in 1 .. 6 - (k + 1) : Tail(todo)[i] = Boot[i + (k + 1)]
  BY <1>1, <1>2, BootGoesOn
<1>4. k = 1 /\ Boot[k + 1] = Step("setup", "handle")
  BY <1>1, <1>3, BootStepIs, StepFields
<1>5. /\ Done /\ ready' = ready \cup {"handle"} /\ handle' \in {"own", "unset"}
      /\ UNCHANGED <<build, locale, language, pointers, copied, hooks, skipped, faults, phase>>
  BY DEF AskForHandle
<1>6. {f \in Foundations : Boot[k + 1] = Step("setup", f)} = {"handle"}
  BY <1>4, StepFields DEF Foundations
<1>7. pointers = {} /\ hooks = <<>>
  BY <1>3, <1>4 DEF Booted
<1>8. Booting'
  <2>1. ~(k >= 4) /\ k # 5
    BY <1>4
  <2>2. ready' = ready \cup {f \in Foundations : Boot[k + 1] = Step("setup", f)}
    BY <1>5, <1>6
  <2>3. pointers' = {} /\ hooks' = <<>> /\ copied' = copied
    BY <1>5, <1>7
  <2>4. QED
    BY <1>1, <1>2, <1>3, <1>5, <2>1, <2>2, <2>3, BootStepDone
<1>9. Safe'
  BY <1>2, <1>5, <1>7 DEF StartupInv, Safe, TypeOK, Foundations, EngineComesFirst,
     SupportedIsComplete, HooksFindTheirPointers, CallersAreTheGame
<1>10. QED
  BY <1>2, <1>5, <1>8, <1>9 DEF StartupInv

\* The rest of skyline_init and skyline_main: without its handle the process may
\* end here.
LEMMA SetUpKeeps ==
  ASSUME StartupInv, SetUp
  PROVE  StartupInv'
<1>1. Running /\ Head(todo).kind = "setup" /\ Pointer = Head(todo).pointer /\ todo # <<>>
      /\ Pointer # "handle"
  BY DEF SetUp, Current, Pointer, Running
<1>2. phase = "boot" /\ Booting
  BY <1>1, WhereItIs DEF StepSet, Kinds
<1>3. PICK k \in 0 .. 5 :
        /\ Booted(k) /\ Head(todo) = Boot[k + 1] /\ Len(Tail(todo)) = 6 - (k + 1)
        /\ \A i \in 1 .. 6 - (k + 1) : Tail(todo)[i] = Boot[i + (k + 1)]
  BY <1>1, <1>2, BootGoesOn
<1>4. /\ k \in {0, 2, 3} /\ Boot[k + 1] = Step("setup", Pointer) /\ Pointer \in Foundations
      /\ Pointer = "trampolines" => k = 2
  BY <1>1, <1>3, BootStepIs, StepFields DEF Foundations
<1>5. Done /\ UNCHANGED <<build, locale, language, handle, pointers, copied, hooks, skipped, faults>>
  BY DEF SetUp
<1>6. {f \in Foundations : Boot[k + 1] = Step("setup", f)} = {Pointer}
  BY <1>4, StepFields
<1>7. pointers = {} /\ hooks = <<>>
  BY <1>3, <1>4 DEF Booted
<1>8. Needed(Pointer) \subseteq ready
  <2>1. CASE Pointer = "trampolines"
    BY <1>3, <1>4, <2>1, SetUpByIs DEF Needed, Booted
  <2>2. CASE Pointer # "trampolines"
    BY <2>2 DEF Needed
  <2>3. QED
    BY <2>1, <2>2
<1>9. CASE ready' = ready \cup {Pointer} /\ UNCHANGED phase
  <2>1. Booting'
    <3>1. ~(k >= 4) /\ k # 5
      BY <1>4
    <3>2. ready' = ready \cup {f \in Foundations : Boot[k + 1] = Step("setup", f)}
      BY <1>6, <1>9
    <3>3. pointers' = {} /\ hooks' = <<>> /\ copied' = copied
      BY <1>5, <1>7
    <3>4. QED
      BY <1>1, <1>2, <1>3, <1>5, <3>1, <3>2, <3>3, BootStepDone
  <2>2. Safe'
    BY <1>2, <1>4, <1>5, <1>7, <1>9 DEF StartupInv, Safe, TypeOK, EngineComesFirst,
       SupportedIsComplete, HooksFindTheirPointers, CallersAreTheGame
  <2>3. QED
    BY <1>2, <1>9, <2>1, <2>2 DEF StartupInv
<1>10. CASE handle = "unset" /\ Crash /\ UNCHANGED ready
  <2>1. phase' = "aborted"
    BY <1>10 DEF Crash
  <2>2. Safe'
    BY <1>2, <1>5, <1>7, <1>10, <2>1 DEF StartupInv, Safe, TypeOK, EngineComesFirst,
       SupportedIsComplete, HooksFindTheirPointers, CallersAreTheGame
  <2>3. QED
    BY <2>1, <2>2 DEF StartupInv
<1>11. QED
  BY <1>8, <1>9, <1>10 DEF SetUp

\* ed7hook_main, which ends for a build it does not know.
LEMMA DetectKeeps ==
  ASSUME StartupInv, Detect
  PROVE  StartupInv'
<1>1. Running /\ Head(todo).kind = "detect" /\ todo # <<>>
  BY DEF Detect, Current, Running
<1>2. phase = "boot" /\ Booting
  BY <1>1, WhereItIs DEF StepSet, Kinds
<1>3. PICK k \in 0 .. 5 :
        /\ Booted(k) /\ Head(todo) = Boot[k + 1] /\ Len(Tail(todo)) = 6 - (k + 1)
        /\ \A i \in 1 .. 6 - (k + 1) : Tail(todo)[i] = Boot[i + (k + 1)]
  BY <1>1, <1>2, BootGoesOn
<1>4. k = 4 /\ Boot[k + 1] = Step("detect", "build")
  BY <1>1, <1>3, BootStepIs, StepFields
<1>5. /\ Done /\ language' = LanguageFor(locale)
      /\ UNCHANGED <<build, locale, ready, handle, copied, hooks, skipped, faults>>
  BY DEF Detect
<1>6. {f \in Foundations : Boot[k + 1] = Step("setup", f)} = {}
  BY <1>4, StepFields
<1>7. pointers = {} /\ hooks = <<>> /\ copied = {}
  BY <1>2, <1>3, <1>4 DEF Booted, Booting
<1>8. language' \in {"English", "Japanese", "TraditionalChinese", "Korean"}
  BY <1>5, LanguageIs
<1>9. CASE build # "unknown" /\ pointers' = Table(build) /\ UNCHANGED phase
  <2>1. Booting'
    <3>1. ~(k < 4) /\ k < 5 /\ k # 5
      BY <1>4
    <3>2. ready' = ready \cup {f \in Foundations : Boot[k + 1] = Step("setup", f)}
      BY <1>5, <1>6
    <3>3. hooks' = <<>> /\ build' # "unknown" /\ pointers' = Table(build')
      BY <1>5, <1>7, <1>9
    <3>4. copied' = copied
      BY <1>5
    <3>5. QED
      BY <1>1, <1>2, <1>3, <1>5, <3>1, <3>2, <3>3, <3>4, BootStepDone
  <2>2. ToSet(hooks) = {}
    BY <1>7 DEF ToSet
  <2>3. Safe'
    BY <1>2, <1>5, <1>7, <1>8, <1>9, <2>2 DEF StartupInv, Safe, TypeOK, EngineComesFirst,
       SupportedIsComplete, HooksFindTheirPointers, CallersAreTheGame
  <2>4. QED
    BY <1>2, <1>9, <2>1, <2>3 DEF StartupInv
<1>10. CASE build = "unknown" /\ Crash /\ UNCHANGED pointers
  <2>1. phase' = "aborted" /\ build' \notin Supported
    BY <1>5, <1>10 DEF Crash, Supported
  <2>2. Safe'
    BY <1>2, <1>5, <1>7, <1>8, <1>10, <2>1 DEF StartupInv, Safe, TypeOK, EngineComesFirst,
       SupportedIsComplete, HooksFindTheirPointers, CallersAreTheGame
  <2>3. QED
    BY <2>1, <2>2 DEF StartupInv
<1>11. QED
  BY <1>9, <1>10 DEF Detect, Table

-----------------------------------------------------------------------------
(* The installation.                                                       *)

\* A sequence and one element more.
LEMMA Appended ==
  ASSUME NEW S, NEW s \in Seq(S), NEW e \in S
  PROVE  /\ Append(s, e) \in Seq(S) /\ Append(s, e) # <<>>
         /\ ToSet(Append(s, e)) = ToSet(s) \cup {e}
         /\ Len(s) \in Nat /\ DOMAIN s = 1 .. Len(s)
         /\ DOMAIN Append(s, e) = 1 .. Len(s) + 1
         /\ \A i \in 1 .. Len(s) : Append(s, e)[i] = s[i]
         /\ Append(s, e)[Len(s) + 1] = e
<1> DEFINE t == Append(s, e)
<1>1. /\ t \in Seq(S) /\ Len(s) \in Nat /\ DOMAIN s = 1 .. Len(s)
      /\ DOMAIN t = 1 .. Len(s) + 1 /\ \A i \in 1 .. Len(s) : t[i] = s[i]
      /\ t[Len(s) + 1] = e
  OBVIOUS
<1>2. Len(s) + 1 \in DOMAIN t /\ \A i \in DOMAIN t : i \in 1 .. Len(s) \/ i = Len(s) + 1
  BY <1>1
<1>3. \A i \in 1 .. Len(s) : i \in DOMAIN t
  BY <1>1
<1>4. t # <<>>
  <2>1. Len(t) = Len(s) + 1 /\ Len(s) + 1 # 0
    OBVIOUS
  <2>2. Len(<<>>) = 0
    OBVIOUS
  <2> HIDE DEF t
  <2>3. QED
    BY <2>1, <2>2
<1> HIDE DEF t
<1>5. ToSet(t) = ToSet(s) \cup {e}
  BY <1>1, <1>2, <1>3 DEF ToSet
<1>6. QED
  BY <1>1, <1>4, <1>5 DEF t

\* A step of an installer that does not end the process.
LEMMA InstallerGoesOn ==
  ASSUME hooks \in Seq(Names), Started, Installing, todo # <<>>, CallersAreTheGame,
         ~Fatal(Head(todo), pointers), Done, UNCHANGED <<build, pointers, ready, handle>>,
         copied' = copied \cup {p \in pointers : Head(todo) = Step("copy", p)},
         hooks' = IF Head(todo).kind = "hook" THEN Append(hooks, Head(todo).pointer) ELSE hooks
  PROVE  Started' /\ Installing' /\ CallersAreTheGame'
<1> DEFINE rest == Tail(todo)
           first == Head(todo)
           b == build
           P == pointers
<1>1. /\ todo \in Seq(StepSet) /\ Sound(todo, copied, P) /\ Apart(todo, b)
      /\ b \in Supported => Uses(todo, P)
      /\ \A i \in DOMAIN hooks, j \in DOMAIN todo :
           todo[j].kind = "hook" /\ hooks[i] \in AsksForCaller =>
             Address(b, hooks[i]) # Address(b, todo[j].pointer)
  BY DEF Installing
<1>2. /\ first \in StepSet /\ rest \in Seq(StepSet) /\ first = todo[1] /\ 1 \in DOMAIN todo
      /\ DOMAIN rest = 1 .. Len(todo) - 1
      /\ \A i \in 1 .. Len(todo) - 1 : i + 1 \in DOMAIN todo /\ rest[i] = todo[i + 1]
  BY <1>1, Rest
<1>3. /\ first.kind = "hook" => Finds(first.pointer, copied, P)
      /\ Sound(rest, copied', P)
  BY <1>1, RestIsSound
<1>4. /\ Apart(rest, b) /\ (b \in Supported => Uses(rest, P))
      /\ first.kind = "hook" /\ first.pointer \in AsksForCaller =>
           \A j \in DOMAIN rest : rest[j].kind = "hook" =>
             Address(b, first.pointer) # Address(b, rest[j].pointer)
  BY <1>1, RestIsApart
<1>5. first.pointer \in Names
  BY <1>2 DEF StepSet
<1>6. todo' = rest /\ build' = b /\ pointers' = P
  BY DEF Done
<1>7. copied \subseteq copied'
  OBVIOUS
<1>8. /\ first.kind = "hook" => hooks' = Append(hooks, first.pointer)
      /\ first.kind # "hook" => hooks' = hooks
  OBVIOUS
<1> HIDE DEF rest, first, b, P
<1>9. \A j \in DOMAIN rest : \A i \in DOMAIN hooks :
        rest[j].kind = "hook" /\ hooks[i] \in AsksForCaller =>
          Address(b, hooks[i]) # Address(b, rest[j].pointer)
  <2>1. \A j \in DOMAIN rest : \E l \in DOMAIN todo : rest[j] = todo[l]
    BY <1>2
  <2>2. QED
    BY <1>1, <2>1
<1>10. \A h \in ToSet(hooks') : Finds(h, copied', P)
  <2>1. \A h \in ToSet(hooks) : Finds(h, copied', P)
    BY <1>7 DEF Started, Finds, P
  <2>2. first.kind = "hook" => Finds(first.pointer, copied', P)
    BY <1>3, <1>7 DEF Finds
  <2>3. first.kind = "hook" => ToSet(hooks') = ToSet(hooks) \cup {first.pointer}
    BY <1>5, <1>8, Appended
  <2>4. QED
    BY <1>8, <2>1, <2>2, <2>3
<1>11. \A i \in DOMAIN hooks', j \in DOMAIN rest :
         rest[j].kind = "hook" /\ hooks'[i] \in AsksForCaller =>
           Address(b, hooks'[i]) # Address(b, rest[j].pointer)
  <2>1. CASE first.kind = "hook"
    <3>1. \A i \in DOMAIN hooks' : (i \in DOMAIN hooks /\ hooks'[i] = hooks[i])
                                   \/ hooks'[i] = first.pointer
      <4>1. /\ DOMAIN hooks' = 1 .. Len(hooks) + 1 /\ DOMAIN hooks = 1 .. Len(hooks)
            /\ Len(hooks) \in Nat /\ \A i \in 1 .. Len(hooks) : hooks'[i] = hooks[i]
            /\ hooks'[Len(hooks) + 1] = first.pointer
        BY <1>5, <1>8, <2>1, Appended
      <4>2. QED
        BY <4>1
    <3>2. QED
      BY <1>4, <1>9, <2>1, <3>1
  <2>2. CASE first.kind # "hook"
    BY <1>8, <1>9, <2>2
  <2>3. QED
    BY <2>1, <2>2
<1>12. CallersAreTheGame'
  <2>1. CASE first.kind = "hook"
    <3>1. /\ DOMAIN hooks' = 1 .. Len(hooks) + 1 /\ DOMAIN hooks = 1 .. Len(hooks)
          /\ Len(hooks) \in Nat /\ \A i \in 1 .. Len(hooks) : hooks'[i] = hooks[i]
          /\ hooks'[Len(hooks) + 1] = first.pointer
      BY <1>5, <1>8, <2>1, Appended
    <3> SUFFICES ASSUME NEW i \in DOMAIN hooks', NEW j \in DOMAIN hooks', i < j,
                        Address(b, hooks'[i]) = Address(b, hooks'[j])
                 PROVE  hooks'[i] \notin AsksForCaller
      BY <1>6 DEF CallersAreTheGame
    <3>2. i \in DOMAIN hooks /\ hooks'[i] = hooks[i]
      BY <3>1
    <3>3. CASE j \in DOMAIN hooks
      <4>1. hooks'[j] = hooks[j]
        BY <3>1, <3>3
      <4>2. QED
        BY <3>2, <3>3, <4>1 DEF CallersAreTheGame, b
    <3>4. CASE j = Len(hooks) + 1
      BY <1>1, <1>2, <2>1, <3>1, <3>2, <3>4
    <3>5. QED
      BY <3>1, <3>3, <3>4
  <2>2. CASE first.kind # "hook"
    BY <1>6, <1>8, <2>2 DEF CallersAreTheGame, b
  <2>3. QED
    BY <2>1, <2>2
<1>13. Started'
  BY <1>6, <1>10 DEF Started, b, P
<1>14. Installing'
  <2>1. todo' \in Seq(StepSet) /\ Sound(todo', copied', pointers') /\ Apart(todo', build')
    BY <1>2, <1>3, <1>4, <1>6
  <2>2. build' \in Supported => Uses(todo', pointers')
    BY <1>4, <1>6
  <2>3. \A i \in DOMAIN hooks', j \in DOMAIN todo' :
         todo'[j].kind = "hook" /\ hooks'[i] \in AsksForCaller =>
           Address(build', hooks'[i]) # Address(build', todo'[j].pointer)
    BY <1>6, <1>11
  <2>4. QED
    BY <2>1, <2>2, <2>3 DEF Installing, Sound, Apart, Uses, Finds, Fatal
<1>15. QED
  BY <1>12, <1>13, <1>14

\* What Safe says, after a step of an installer.
LEMMA SafeGoesOn ==
  ASSUME StartupInv, phase = "installing", Started, Installing, todo # <<>>,
         ~Fatal(Head(todo), pointers), Done,
         UNCHANGED <<build, locale, language, pointers, ready, handle, faults, phase>>,
         copied' = copied \cup {p \in pointers : Head(todo) = Step("copy", p)},
         hooks' = IF Head(todo).kind = "hook" THEN Append(hooks, Head(todo).pointer) ELSE hooks,
         build \in Supported => skipped' = skipped
  PROVE  StartupInv'
<1>1. hooks \in Seq(Names) /\ CallersAreTheGame
  BY DEF StartupInv, Safe
<1>2. Started' /\ Installing' /\ CallersAreTheGame'
  BY <1>1, InstallerGoesOn
<1>3. Head(todo).pointer \in Names
  <2>1. Head(todo) \in StepSet
    BY Rest DEF Installing
  <2>2. QED
    BY <2>1 DEF StepSet
<1>4. hooks' \in Seq(Names) /\ ToSet(hooks') \subseteq pointers
  <2>1. CASE Head(todo).kind = "hook"
    <3>1. Head(todo).pointer \in pointers
      BY <2>1 DEF Fatal
    <3>2. hooks' = Append(hooks, Head(todo).pointer)
      BY <2>1
    <3>3. hooks' \in Seq(Names) /\ ToSet(hooks') = ToSet(hooks) \cup {Head(todo).pointer}
      BY <1>1, <1>3, <3>2, Appended
    <3>4. QED
      BY <3>1, <3>3 DEF StartupInv, Safe, TypeOK
  <2>2. CASE Head(todo).kind # "hook"
    BY <1>1, <2>2 DEF StartupInv, Safe, TypeOK
  <2>3. QED
    BY <2>1, <2>2
<1>5. copied' \subseteq pointers
  BY DEF StartupInv, Safe, TypeOK
<1>6. TypeOK'
  BY <1>4, <1>5 DEF StartupInv, Safe, TypeOK
<1>7. EngineComesFirst'
  BY DEF EngineComesFirst, Started
<1>8. SupportedIsComplete'
  BY DEF StartupInv, Safe, SupportedIsComplete
<1>9. HooksFindTheirPointers'
  BY DEF StartupInv, Safe, HooksFindTheirPointers
<1>10. Safe'
  BY <1>2, <1>4, <1>6, <1>7, <1>8, <1>9 DEF Safe
<1>11. QED
  BY <1>2, <1>10 DEF StartupInv

\* A step that ends the process.
LEMMA CrashKeeps ==
  ASSUME StartupInv, Crash, build \in Supported => handle = "unset" /\ skipped' = {},
         UNCHANGED <<build, locale, language, pointers, ready, handle, copied, hooks, faults>>
  PROVE  StartupInv'
<1>1. phase' = "aborted"
  BY DEF Crash
<1>2. TypeOK'
  BY <1>1 DEF StartupInv, Safe, TypeOK
<1>3. EngineComesFirst' /\ SupportedIsComplete'
  BY <1>1 DEF StartupInv, Safe, EngineComesFirst, SupportedIsComplete
<1>4. HooksFindTheirPointers' /\ CallersAreTheGame'
  BY DEF StartupInv, Safe, HooksFindTheirPointers, CallersAreTheGame
<1>5. Safe'
  BY <1>2, <1>3, <1>4 DEF StartupInv, Safe
<1>6. QED
  BY <1>1, <1>5 DEF StartupInv

\* No step of an installer is about a pointer a supported build lacks.
LEMMA NoneIsMissing ==
  ASSUME Installing, todo # <<>>, build \in Supported
  PROVE  Head(todo).pointer \in pointers
BY Rest DEF Installing, Uses

\* A step that is not a copy copies nothing.
LEMMA NoCopy ==
  ASSUME Head(todo).kind # "copy"
  PROVE  copied \cup {p \in pointers : Head(todo) = Step("copy", p)} = copied
BY StepFields

\* MAKE_HOOK, of LateInit and by the installers.
LEMMA HookKeeps ==
  ASSUME StartupInv, Hook
  PROVE  StartupInv'
<1>1. /\ Running /\ Head(todo).kind = "hook" /\ Pointer = Head(todo).pointer /\ todo # <<>>
  BY DEF Hook, Current, Pointer, Running
<1>2. /\ Done
      /\ UNCHANGED <<build, locale, language, ready, handle, pointers, copied, skipped, faults>>
      /\ Claimable => hooks' = Append(hooks, Pointer) /\ UNCHANGED phase
      /\ ~Claimable => Crash /\ UNCHANGED hooks
  BY DEF Hook
<1>3. CASE phase = "boot"
  <2>1. Booting
    BY <1>1, <1>3, WhereItIs
  <2>2. PICK k \in 0 .. 5 :
          /\ Booted(k) /\ Head(todo) = Boot[k + 1] /\ Len(Tail(todo)) = 6 - (k + 1)
          /\ \A i \in 1 .. 6 - (k + 1) : Tail(todo)[i] = Boot[i + (k + 1)]
    BY <1>1, <2>1, BootGoesOn
  <2>3. k = 5 /\ Boot[k + 1] = Step("hook", "LateInit") /\ Pointer = "LateInit"
    BY <1>1, <2>2, BootStepIs, StepFields
  <2>4. build # "unknown" /\ pointers = Table(build) /\ hooks = <<>> /\ copied = {}
        /\ ready = SetUpBy(5)
    BY <2>1, <2>2, <2>3 DEF Booted, Booting
  <2>5. ready = Foundations
    BY <2>4, SetUpByIs
  <2>6. Pointer \in pointers
    <3>1. build \in Builds \ {"unknown"}
      BY <2>4 DEF StartupInv, Safe, TypeOK
    <3>2. "LateInit" \in InAllBuilds
      BY DEF InAllBuilds
    <3>3. QED
      BY <2>3, <2>4, <3>1, <3>2, TableOfKnown
  <2>7. CASE Claimable
    <3>1. handle = "own" /\ hooks' = <<"LateInit">> /\ UNCHANGED phase
      BY <1>2, <2>3, <2>4, <2>7 DEF Claimable
    <3>2. Booting'
      <4>1. {f \in Foundations : Boot[k + 1] = Step("setup", f)} = {}
        BY <2>3, StepFields
      <4>2. ready' = ready \cup {f \in Foundations : Boot[k + 1] = Step("setup", f)}
        BY <1>2, <4>1
      <4>3. ~(k < 4) /\ ~(k < 5)
        BY <2>3
      <4>4. build' # "unknown" /\ pointers' = Table(build') /\ handle' = "own" /\ copied' = copied
        BY <1>2, <2>4, <3>1
      <4>5. QED
        BY <1>1, <1>2, <2>1, <2>2, <3>1, <4>2, <4>3, <4>4, BootStepDone
    <3>3. "LateInit" \in Names
      BY NamesKnown DEF InSupported, InAllBuilds
    <3>4. hooks' \in Seq(Names) /\ ToSet(hooks') \subseteq pointers'
      <4>1. hooks' \in Seq(Names)
        BY <3>1, <3>3
      <4>2. ToSet(hooks') = {"LateInit"}
        BY <3>1 DEF ToSet
      <4>3. QED
        BY <1>2, <2>3, <2>6, <4>1, <4>2
    <3>5. CallersAreTheGame'
      <4>1. \A i \in DOMAIN hooks' : hooks'[i] = "LateInit"
        BY <3>1
      <4>2. "LateInit" \notin AsksForCaller
        BY DEF AsksForCaller
      <4>3. QED
        BY <4>1, <4>2 DEF CallersAreTheGame
    <3>6. TypeOK'
      BY <1>2, <3>1, <3>4 DEF StartupInv, Safe, TypeOK
    <3>7. EngineComesFirst' /\ SupportedIsComplete' /\ HooksFindTheirPointers'
      BY <1>2, <1>3, <2>5, <3>1 DEF StartupInv, Safe, EngineComesFirst, SupportedIsComplete,
         HooksFindTheirPointers
    <3>8. Safe'
      BY <3>4, <3>5, <3>6, <3>7 DEF Safe
    <3>9. QED
      BY <1>3, <3>1, <3>2, <3>8 DEF StartupInv
  <2>8. CASE ~Claimable
    <3>1. handle = "unset"
      BY <2>6, <2>8 DEF StartupInv, Safe, TypeOK, Claimable
    <3>2. build \in Supported => skipped' = {}
      BY <1>2 DEF StartupInv, Safe, SupportedIsComplete
    <3>3. QED
      BY <1>2, <2>8, <3>1, <3>2, CrashKeeps
  <2>9. QED
    BY <2>7, <2>8
<1>4. CASE phase = "installing"
  <2>1. Started /\ Installing /\ handle = "own"
    BY <1>1, <1>4, WhereItIs DEF Started
  <2>2. CASE Claimable
    <3>1. ~Fatal(Head(todo), pointers)
      BY <1>1, <2>2 DEF Claimable, Fatal
    <3>2. copied' = copied \cup {p \in pointers : Head(todo) = Step("copy", p)}
      BY <1>1, <1>2, NoCopy
    <3>3. QED
      BY <1>1, <1>2, <1>4, <2>1, <2>2, <3>1, <3>2, SafeGoesOn
  <2>3. CASE ~Claimable
    <3>1. build \notin Supported
      BY <1>1, <2>1, <2>3, NoneIsMissing DEF Claimable
    <3>2. QED
      BY <1>2, <2>3, <3>1, CrashKeeps
  <2>4. QED
    BY <2>2, <2>3
<1>5. QED
  BY <1>1, <1>3, <1>4 DEF Running

\* The pages that are claimed.
LEMMA ClaimKeeps ==
  ASSUME StartupInv, Claim
  PROVE  StartupInv'
<1>1. Running /\ Head(todo).kind = "claim" /\ Pointer = Head(todo).pointer /\ todo # <<>>
  BY DEF Claim, Current, Pointer, Running
<1>2. /\ Done
      /\ UNCHANGED <<build, locale, language, ready, handle, pointers, copied, hooks, skipped,
                     faults>>
      /\ Claimable => UNCHANGED phase
      /\ ~Claimable => Crash
  BY DEF Claim
<1>3. phase = "installing" /\ Started /\ Installing /\ handle = "own"
  BY <1>1, WhereItIs DEF BootKinds, Started
<1>4. CASE Claimable
  <2>1. ~Fatal(Head(todo), pointers)
    BY <1>1 DEF Fatal
  <2>2. copied' = copied \cup {p \in pointers : Head(todo) = Step("copy", p)}
    BY <1>1, <1>2, NoCopy
  <2>3. QED
    BY <1>1, <1>2, <1>3, <1>4, <2>1, <2>2, SafeGoesOn
<1>5. CASE ~Claimable
  <2>1. build \notin Supported
    BY <1>1, <1>3, <1>5, NoneIsMissing DEF Claimable
  <2>2. QED
    BY <1>2, <1>5, <2>1, CrashKeeps
<1>6. QED
  BY <1>4, <1>5

\* sky_memcpy, of a pointer that is set or not.
LEMMA MemcpyKeeps ==
  ASSUME StartupInv, Memcpy
  PROVE  StartupInv'
<1>1. Running /\ Head(todo).kind = "memcpy" /\ Pointer = Head(todo).pointer /\ todo # <<>>
  BY DEF Memcpy, Current, Pointer, Running
<1>2. /\ Done
      /\ UNCHANGED <<build, locale, language, ready, handle, pointers, copied, hooks, faults>>
      /\ skipped' = IF Pointer \in pointers THEN skipped ELSE skipped \cup {Pointer}
      /\ IF Pointer \in pointers /\ ~Claimable THEN Crash ELSE UNCHANGED phase
  BY DEF Memcpy
<1>3. phase = "installing" /\ Started /\ Installing /\ handle = "own"
  BY <1>1, WhereItIs DEF BootKinds, Started
<1>4. UNCHANGED phase
  BY <1>2, <1>3 DEF Claimable
<1>5. ~Fatal(Head(todo), pointers)
  BY <1>1 DEF Fatal
<1>6. copied' = copied \cup {p \in pointers : Head(todo) = Step("copy", p)}
  BY <1>1, <1>2, NoCopy
<1>7. build \in Supported => skipped' = skipped
  BY <1>1, <1>2, <1>3, NoneIsMissing
<1>8. QED
  BY <1>1, <1>2, <1>3, <1>4, <1>5, <1>6, <1>7, SafeGoesOn

\* The functions that are looked up.
LEMMA CopyKeeps ==
  ASSUME StartupInv, Copy
  PROVE  StartupInv'
<1>1. Running /\ Head(todo).kind = "copy" /\ Pointer = Head(todo).pointer /\ todo # <<>>
  BY DEF Copy, Current, Pointer, Running
<1>2. /\ Done
      /\ UNCHANGED <<build, locale, language, ready, handle, pointers, hooks, skipped, faults,
                     phase>>
      /\ copied' = copied \cup ({Pointer} \cap pointers)
  BY DEF Copy
<1>3. phase = "installing" /\ Started /\ Installing /\ Head(todo) \in StepSet
  BY <1>1, WhereItIs DEF BootKinds
<1>4. ~Fatal(Head(todo), pointers)
  BY <1>1 DEF Fatal
<1>5. Head(todo) = Step("copy", Pointer)
  BY <1>1, <1>3 DEF StepSet, Step
<1>6. {p \in pointers : Head(todo) = Step("copy", p)} = {Pointer} \cap pointers
  BY <1>5, StepFields
<1>7. QED
  BY <1>1, <1>2, <1>3, <1>4, <1>6, SafeGoesOn

\* LateInit is hooked last, and all is said of the installers.
LEMMA LateInitKeeps ==
  ASSUME StartupInv, LateInit
  PROVE  StartupInv'
<1>1. /\ phase = "boot" /\ todo = <<>> /\ phase' = "installing"
      /\ todo' = Installers(build, language)
      /\ UNCHANGED <<build, locale, language, ready, handle, pointers, copied, hooks, skipped,
                     faults>>
  BY DEF LateInit
<1>2. Booting
  BY <1>1 DEF StartupInv
<1>3. PICK k \in 0 .. 6 : Booted(k)
  BY <1>2 DEF Booting
<1>4. k = 6
  <2>1. Len(todo) = 0 /\ Len(todo) = 6 - k
    BY <1>1, <1>3 DEF Booted
  <2>2. QED
    BY <2>1
<1>5. /\ build # "unknown" /\ pointers = Table(build) /\ hooks = <<"LateInit">>
      /\ handle = "own" /\ ready = SetUpBy(6) /\ copied = {}
  BY <1>2, <1>3, <1>4 DEF Booted, Booting
<1>6. ready = Foundations
  BY <1>5, SetUpByIs
<1>7. Safe'
  <2>1. TypeOK'
    BY <1>1 DEF StartupInv, Safe, TypeOK
  <2>2. EngineComesFirst' /\ SupportedIsComplete'
    BY <1>1, <1>5, <1>6 DEF StartupInv, Safe, EngineComesFirst, SupportedIsComplete
  <2>3. HooksFindTheirPointers' /\ CallersAreTheGame'
    BY <1>1 DEF StartupInv, Safe, HooksFindTheirPointers, CallersAreTheGame
  <2>4. QED
    BY <1>1, <2>1, <2>2, <2>3 DEF StartupInv, Safe
<1>8. Started'
  <2>1. \A h \in ToSet(hooks) : h = "LateInit"
    BY <1>5 DEF ToSet
  <2>2. Finds("LateInit", {}, pointers)
    BY Undemanding DEF Demanding
  <2>3. \A h \in ToSet(hooks') : Finds(h, copied', pointers')
    BY <1>1, <1>5, <2>1, <2>2
  <2>4. QED
    BY <1>1, <1>5, <1>6, <2>3 DEF Started
<1>9. Installing'
  <2>1. build \in Builds \ {"unknown"}
    BY <1>5 DEF StartupInv, Safe, TypeOK
  <2>2. Installs(Installers(build, language), AllHooks, {}, build)
    BY <2>1, InstallersInstall
  <2>3. /\ todo' \in Seq(StepSet) /\ Apart(todo', build)
        /\ Sound(todo', copied, pointers)
        /\ build \in Supported => Uses(todo', pointers)
    BY <1>1, <1>5, <2>2 DEF Installs, Shape
  <2>4. "LateInit" \notin AsksForCaller /\ \A i \in DOMAIN hooks : hooks[i] = "LateInit"
    BY <1>5 DEF AsksForCaller
  <2>5. QED
    BY <1>1, <2>3, <2>4 DEF Installing, Sound, Apart, Uses, Finds, Fatal
<1>10. QED
  BY <1>1, <1>7, <1>8, <1>9 DEF StartupInv

\* The end of LateInit_hook.
LEMMA FinishKeeps ==
  ASSUME StartupInv, Finish
  PROVE  StartupInv'
<1>1. /\ phase = "installing" /\ phase' = "patched"
      /\ UNCHANGED <<build, locale, language, ready, handle, pointers, copied, todo, hooks,
                     skipped, faults>>
  BY DEF Finish
<1>2. Started'
  BY <1>1 DEF StartupInv, Started
<1>3. Safe'
  BY <1>1 DEF StartupInv, Safe, TypeOK, EngineComesFirst, SupportedIsComplete,
     HooksFindTheirPointers, CallersAreTheGame
<1>4. QED
  BY <1>1, <1>2, <1>3 DEF StartupInv

\* The game in one of the hooks.
LEMMA CallHookKeeps ==
  ASSUME StartupInv, NEW hook \in ToSet(hooks), CallHook(hook)
  PROVE  StartupInv'
<1>1. /\ phase \in {"installing", "patched"}
      /\ UNCHANGED <<build, locale, language, ready, handle, pointers, copied, todo, hooks,
                     skipped, phase>>
      /\ faults' = IF Dereferenced(hook) \subseteq pointers /\ CalledThrough(hook) \subseteq copied
                   THEN faults ELSE faults \cup {hook}
  BY DEF CallHook
<1>2. Started /\ Finds(hook, copied, pointers)
  BY <1>1 DEF StartupInv, Started
<1>3. faults' = faults
  BY <1>1, <1>2 DEF Finds
<1>4. UNCHANGED vars
  BY <1>1, <1>3 DEF vars
<1>5. QED
  BY <1>4 DEF vars, StartupInv, Safe, Booting, Booted, SetUpBy, Started, Installing, TypeOK,
     EngineComesFirst, SupportedIsComplete, HooksFindTheirPointers, CallersAreTheGame, Sound, Apart, Uses, Finds, Fatal

-----------------------------------------------------------------------------
(* The theorems.                                                           *)

\* The invariant holds when the process starts.
LEMMA StartupInvFirst ==
  ASSUME Init
  PROVE  StartupInv
<1>1. /\ build \in Builds /\ locale \in Locales /\ language = "English" /\ handle = "unset"
      /\ ready = {} /\ pointers = {} /\ copied = {} /\ skipped = {} /\ faults = {}
      /\ todo = Boot /\ hooks = <<>> /\ phase = "boot"
  BY DEF Init
<1>2. Booted(0)
  <2>1. Len(todo) = 6 /\ 6 - 0 = 6 /\ \A i \in 1 .. 6 : i + 0 = i
    BY <1>1, BootIs
  <2>2. \A i \in 1 .. 6 - 0 : todo[i] = Boot[i + 0]
    BY <1>1, <2>1
  <2>3. ready = SetUpBy(0)
    BY <1>1, SetUpByIs
  <2>4. 0 < 5 /\ 0 < 6 /\ ~(0 >= 5) /\ 0 # 6
    OBVIOUS
  <2>5. QED
    BY <1>1, <2>1, <2>2, <2>3, <2>4 DEF Booted
<1>3. Booting
  BY <1>1, <1>2, BootIs DEF Booting
<1>4. Safe
  <2>1. ToSet(hooks) = {}
    BY <1>1 DEF ToSet
  <2>2. hooks \in Seq(Names)
    BY <1>1
  <2>3. QED
    BY <1>1, <2>1, <2>2 DEF Safe, TypeOK, EngineComesFirst, SupportedIsComplete,
       HooksFindTheirPointers, CallersAreTheGame
<1>5. QED
  BY <1>1, <1>3, <1>4 DEF StartupInv

\* Every step keeps it.
LEMMA StartupInvKept ==
  ASSUME StartupInv, [Next]_vars
  PROVE  StartupInv'
<1>1. CASE UNCHANGED vars
  BY <1>1 DEF vars, StartupInv, Safe, Booting, Booted, SetUpBy, Started, Installing, TypeOK,
     EngineComesFirst, SupportedIsComplete, HooksFindTheirPointers, CallersAreTheGame, Sound,
     Apart, Uses, Finds, Fatal
<1>2. CASE AskForHandle
  BY <1>2, AskForHandleKeeps
<1>3. CASE SetUp
  BY <1>3, SetUpKeeps
<1>4. CASE Detect
  BY <1>4, DetectKeeps
<1>5. CASE Hook
  BY <1>5, HookKeeps
<1>6. CASE Claim
  BY <1>6, ClaimKeeps
<1>7. CASE Memcpy
  BY <1>7, MemcpyKeeps
<1>8. CASE Copy
  BY <1>8, CopyKeeps
<1>9. CASE LateInit
  BY <1>9, LateInitKeeps
<1>10. CASE Finish
  BY <1>10, FinishKeeps
<1>11. CASE \E hook \in ToSet(hooks) : CallHook(hook)
  BY <1>11, CallHookKeeps
<1>12. QED
  BY <1>1, <1>2, <1>3, <1>4, <1>5, <1>6, <1>7, <1>8, <1>9, <1>10, <1>11 DEF Next

\* The invariant: start-up does its six steps in their order; from the moment the
\* game calls LateInit the process has its handle and the table of a build that
\* is known; and of the steps that are left of LateInit_hook every hook will find
\* its pointers, or the process ends first.
THEOREM StartupInvariance == Spec => []StartupInv
<1>1. Init => StartupInv
  BY StartupInvFirst
<1>2. StartupInv /\ [Next]_vars => StartupInv'
  BY StartupInvKept
<1>3. QED
  BY <1>1, <1>2, PTL DEF Spec

\* Every variable keeps to its values, a hook is of a pointer that is set, and
\* what is copied was set.
THEOREM StartupTypes == Spec => []TypeOK
<1>1. StartupInv => TypeOK
  BY DEF StartupInv, Safe
<1>2. QED
  BY <1>1, StartupInvariance, PTL

\* No function is hooked before the hook engine exists and the process has its
\* handle, and the game never runs without one, although skyline_main does not
\* look at the result of the request.
THEOREM EngineFirst == Spec => []EngineComesFirst
<1>1. StartupInv => EngineComesFirst
  BY DEF StartupInv, Safe
<1>2. QED
  BY <1>1, StartupInvariance, PTL

\* A supported build lacks no pointer any installer is about, in any language:
\* no patch is left out, and the process ends only for want of its handle.
THEOREM SupportedLacksNothing == Spec => []SupportedIsComplete
<1>1. StartupInv => SupportedIsComplete
  BY DEF StartupInv, Safe
<1>2. QED
  BY <1>1, StartupInvariance, PTL

\* A hook the game runs into while the others are still being installed finds
\* everything it calls or writes to: the copies come before the hooks, and the
\* build that lacks some of it ends at LoadITP.
THEOREM HooksAreFurnished == Spec => []HooksFindTheirPointers
<1>1. StartupInv => HooksFindTheirPointers
  BY DEF StartupInv, Safe
<1>2. QED
  BY <1>1, StartupInvariance, PTL

\* No function whose hook asks for its caller is hooked a second time, although
\* two pointers of Azure are the same function.
THEOREM CallersAreKept == Spec => []CallersAreTheGame
<1>1. StartupInv => CallersAreTheGame
  BY DEF StartupInv, Safe
<1>2. QED
  BY <1>1, StartupInvariance, PTL
=============================================================================
