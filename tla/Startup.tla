------------------------------ MODULE Startup -------------------------------
(***************************************************************************)
(* How the patch gets into the game: skyline_init prepares the hook        *)
(* engine, ed7hook_main recognises the language of the console and the     *)
(* build of the game and hooks LateInit, and when the game calls LateInit  *)
(* the installers of ED7Main.cpp run one after the other, while other      *)
(* threads of the game already run through the hooks that are in place.    *)
(*                                                                         *)
(* A pointer of ED7Pointers is known by its name.  Those of a build that   *)
(* the switch does not assign are NULL: hooking one or claiming its page   *)
(* faults, sky_memcpy to one returns an error nobody looks at.             *)
(***************************************************************************)
EXTENDS Sequences, SequencesExt

CONSTANT Locales  \* the language codes nn::settings can return

Builds == {"Zero 1.0.0", "Zero 1.0.1", "Azure", "unknown"}
Supported == {"Zero 1.0.1", "Azure"}

VARIABLES
  build,     \* which case of ED7PointersInitialize the start-up address is
  locale,    \* what nn::settings::GetLanguageCode returns
  language,  \* ED7HookCurrentLanguage
  ready,     \* what skyline_init and skyline_main have set up
  handle,    \* what envGetOwnProcessHandle returns: "own" or a value never set
  pointers,  \* the pointers that are not NULL
  copied,    \* the pointers copied to static function pointers of a module
  todo,      \* the steps of start-up or of LateInit_hook that are left
  hooks,     \* the hooks in the order of their installation
  skipped,   \* the patches sky_memcpy refused
  faults,    \* the hooks that ran into a pointer not set
  phase      \* where the process is

vars == <<build, locale, language, ready, handle, pointers, copied, todo, hooks, skipped,
          faults, phase>>

-----------------------------------------------------------------------------
(* The table of pointers.                                                  *)

MapLoading == {"LoadBattle", "LoadBattle2", "LoadBattle3", "LoadMap"}
Languages3 == {"SetGameLanguage", "GetConsoleDesiredLanguage1",
               "GetConsoleDesiredLanguage2"}
BookText == {"BookDrawText", "BookIsKana", "BookGetFontWidth"}
SafeFileOld == {"CSafeFile__CSafeFile", "CSafeFileBase__destructor",
                "CSafeFile__fopen", "CSafeFile__fclose"}
SafeFile == SafeFileOld \cup
            {"CSafeFile__fread", "CSafeFile__fseek", "CSafeFile__ftel",
             "CSafeFile__CheckOnMem", "CSafeFile__GetSize", "CSafeFile__LoadCCMem",
             "CPU__NewBack"}
Tutorial == {"BattleTutorialSBreakBlockedOffsetX", "BattleTutorialSBreakBlockedOffsetY"}
Menus == {"ExtraMode_RightColumnOffsetX", "ShopPriceWindow_NotForSaleOffsetX",
          "DetectiveNotebookRequestStatus"}
Notebook == {"NotebookDrawText", "NotebookElementBarDraw",
             "NotebookDrawNumberRightAligned", "SupportRequestDrawFont"}
Orbment == {"OrbmentChangeViewTextXOffset1", "OrbmentChangeViewTextXOffset2",
            "OrbmentChangeViewTextXOffset3", "OrbmentChangeViewTextXOffset4"}
Books == {"RecipeBookRecipesOwnedNumberOffsetX", "FishingBookSpeciesCaughtNumberOffsetX"}

\* Assigned in the three builds.
InAllBuilds ==
  MapLoading \cup Languages3 \cup BookText \cup SafeFileOld \cup
  {"CSafeFile__fseek"} \cup
  {"LateInit", "CTexMgr__Load2", "CTexBase__LoadITP_chunk_IDAT", "TranslationArray",
   "CMessageWindow__PrintText", "CMessageWindow__AnonymousText", "GetItemName",
   "FontRendererSpaceCheck", "CFontMgr2__GetSizeSJIS", "CFontMgr2__SetFixMode",
   "NotebookSpaceCheckJump", "AdditionalStrings1", "AdditionalStrings2",
   "AdditionalStrings3", "AdditionalStrings4", "iCurrentLanguage1",
   "iCurrentLanguage2", "SaveListFontRender", "RenderTexture", "nvnLoadCProcs",
   "pfnc_nvnSamplerBuilderSetMaxAnisotropy", "pfnc_nvnQueuePresentTexture"}

\* Assigned in the two supported builds.
InSupported ==
  InAllBuilds \cup SafeFile \cup Tutorial \cup Menus \cup Notebook \cup
  {"CTexMgr__LoadITP", "CSafeFileBase__open_FileNameCheck", "SaveOpcodePtrFixInfo",
   "CFontMgr__DrawFontClip"}

Assigned(b) ==
  CASE b = "Zero 1.0.0" -> InAllBuilds \cup {"CED6Window__SetText"}
    [] b = "Zero 1.0.1" -> InSupported \cup {"CED6Window__SetText"}
    [] b = "Azure"      -> InSupported \cup Orbment \cup Books \cup
                           {"SetStoryText", "DrawFontReport", "NotebookSpaceCheckJump2"}

\* The function a pointer points to.  Two pointers of Azure are the same.
Address(b, p) ==
  IF b = "Azure" /\ p = "DrawFontReport" THEN "AdditionalStrings3" ELSE p

LanguageFor(code) ==
  CASE code = "ja"                                       -> "Japanese"
    [] code \in {"zh-CN", "zh-TW", "zh-Hans", "zh-Hant"} -> "TraditionalChinese"
    [] code = "ko"                                       -> "Korean"
    [] OTHER                                             -> "English"

-----------------------------------------------------------------------------
(* The installers, as the sequence of their steps.  nn::fs::OpenFile is a  *)
(* symbol of the SDK, which no build lacks.                                *)

Step(kind, p) == [kind |-> kind, pointer |-> p]
Steps(kind, names) == [i \in DOMAIN names |-> Step(kind, names[i])]
If(condition, steps) == IF condition THEN steps ELSE <<>>

\* ED7ExeTextInitialize: a switch that falls through from English to Japanese.
ExeText(zero, lang) ==
  If(lang = "English",
     If(zero, Steps("hook", <<"CED6Window__SetText">>))
     \o Steps("hook", <<"AdditionalStrings1", "AdditionalStrings2",
                        "AdditionalStrings3", "AdditionalStrings4">>))
  \o If(lang \in {"English", "Japanese"},
        Steps("hook", <<"SetGameLanguage", "GetConsoleDesiredLanguage1",
                        "GetConsoleDesiredLanguage2">>))

FileLoaderSteps ==
  Steps("hook", <<"nn::fs::OpenFile">>)
  \o Steps("memcpy", <<"CSafeFileBase__open_FileNameCheck">>)

ImgLoader(lang) ==
  Steps("copy", <<"CSafeFile__CSafeFile", "CSafeFile__fclose",
                  "CSafeFileBase__destructor", "CSafeFile__GetSize", "CSafeFile__fseek",
                  "CSafeFile__ftel", "CSafeFile__fread", "CSafeFile__fopen",
                  "CSafeFile__LoadCCMem", "CSafeFile__CheckOnMem", "CPU__NewBack">>)
  \o Steps("hook", <<"CTexBase__LoadITP_chunk_IDAT", "CTexMgr__LoadITP">>)
  \o If(lang = "English", Steps("hook", <<"CTexMgr__Load2">>))

\* Mutant: the game functions are looked up after the hooks that use them.
VWFontFixLateCopies(zero, lang) ==
  If(lang = "English",
     Steps("hook", <<"CMessageWindow__PrintText", "CFontMgr2__SetFixMode">>))
  \o Steps("copy", <<"GetItemName", "CFontMgr2__GetSizeSJIS">>)

VWFontFix(zero, lang) ==
  Steps("copy", <<"GetItemName", "CFontMgr2__GetSizeSJIS">>)
  \o If(lang = "English",
       Steps("hook", <<"CMessageWindow__PrintText">>)
       \o If(~zero, Steps("hook", <<"SetStoryText", "DrawFontReport",
                                    "CFontMgr__DrawFontClip">>))
       \o Steps("hook", <<"CFontMgr2__SetFixMode", "BookDrawText", "BookIsKana",
                          "BookGetFontWidth", "CMessageWindow__AnonymousText",
                          "SaveListFontRender", "NotebookDrawText",
                          "SupportRequestDrawFont", "NotebookElementBarDraw",
                          "NotebookDrawNumberRightAligned">>)
       \o Steps("claim", <<"NotebookSpaceCheckJump">>)
       \o Steps("memcpy", <<"FontRendererSpaceCheck",
                            "BattleTutorialSBreakBlockedOffsetX",
                            "BattleTutorialSBreakBlockedOffsetY">>)
       \o If(~zero,
             Steps("claim", <<"NotebookSpaceCheckJump2">>)
             \o Steps("memcpy", <<"OrbmentChangeViewTextXOffset1",
                                  "OrbmentChangeViewTextXOffset2",
                                  "OrbmentChangeViewTextXOffset3",
                                  "OrbmentChangeViewTextXOffset4",
                                  "RecipeBookRecipesOwnedNumberOffsetX",
                                  "FishingBookSpeciesCaughtNumberOffsetX">>))
       \o Steps("memcpy", <<"ExtraMode_RightColumnOffsetX",
                            "ShopPriceWindow_NotForSaleOffsetX",
                            "DetectiveNotebookRequestStatus">>))

MiscPatches ==
  Steps("hook", <<"nvnLoadCProcs", "LoadBattle", "LoadBattle2", "LoadBattle3",
                  "LoadMap", "RenderTexture">>)

\* Mutant: the fonts are patched before the texts.
InstallersSwapped(b, lang) ==
  LET zero == b # "Azure" IN
  FileLoaderSteps \o ImgLoader(lang) \o VWFontFix(zero, lang) \o ExeText(zero, lang)
  \o MiscPatches

\* Mutant: IsZero is not asked for.
InstallersForZero(b, lang) ==
  ExeText(TRUE, lang) \o FileLoaderSteps \o ImgLoader(lang) \o VWFontFix(TRUE, lang)
  \o MiscPatches

\* LateInit_hook after the original.
Installers(b, lang) ==
  LET zero == b # "Azure" IN
  ExeText(zero, lang) \o FileLoaderSteps \o ImgLoader(lang) \o VWFontFix(zero, lang)
  \o MiscPatches

\* skyline_init and skyline_main up to ed7hook_main.  A64HookInit creates its
\* buffers in the address space virtmemSetup found, with the handle of the
\* process, and A64HookFunction writes to the logger.
Foundations == {"virtmem", "handle", "trampolines", "logger"}

Needed(what) == IF what = "trampolines" THEN {"virtmem", "handle"} ELSE {}

Boot ==
  Steps("setup", <<"virtmem", "handle", "trampolines", "logger">>)
  \o Steps("detect", <<"build">>) \o Steps("hook", <<"LateInit">>)

-----------------------------------------------------------------------------
Init ==
  /\ build \in Builds
  /\ locale \in Locales
  /\ language = "English" /\ handle = "unset"
  /\ ready = {} /\ pointers = {} /\ copied = {} /\ skipped = {} /\ faults = {}
  /\ todo = Boot
  /\ hooks = <<>>
  /\ phase = "boot"

Running == phase \in {"boot", "installing"} /\ todo # <<>>
Current(kind) == Running /\ Head(todo).kind = kind
Done == todo' = Tail(todo)
Pointer == Head(todo).pointer

Crash == phase' = "aborted"

\* getOwnProcessHandle asks pm:dmnt.  Whether the service, the session or the
\* request fails, it returns 0, and skyline_main goes on with a handle that was
\* never set.
AskForHandle ==
  /\ Current("setup") /\ Pointer = "handle"
  /\ Done
  /\ ready' = ready \cup {"handle"}
  /\ handle' \in {"own", "unset"}
  /\ UNCHANGED <<build, locale, language, pointers, copied, hooks, skipped, faults, phase>>

\* Without a handle A64HookInit may or may not get its buffers: it depends on
\* the kernel whether jitCreate uses the handle.
SetUp ==
  /\ Current("setup") /\ Pointer # "handle"
  /\ Done
  /\ \/ /\ Needed(Pointer) \subseteq ready
        /\ ready' = ready \cup {Pointer}
        /\ UNCHANGED phase
     \/ /\ ~(Needed(Pointer) \subseteq ready) \/ (Pointer = "trampolines" /\ handle = "unset")
        /\ Crash
        /\ UNCHANGED ready
  /\ UNCHANGED <<build, locale, language, handle, pointers, copied, hooks, skipped, faults>>

\* ed7hook_main up to MAKE_HOOK(LateInit).  For a build it does not know
\* ED7PointersInitialize stores to an address that is not mapped before it could
\* return false.
Detect ==
  /\ Current("detect")
  /\ Done
  /\ language' = LanguageFor(locale)
  /\ IF build = "unknown"
     THEN Crash /\ UNCHANGED pointers
     ELSE pointers' = Assigned(build) \cup {"nn::fs::OpenFile"} /\ UNCHANGED phase
  /\ UNCHANGED <<build, locale, ready, handle, copied, hooks, skipped, faults>>

\* Mutant: a pointer that is NULL is taken for a function.
HookUnchecked ==
  /\ Current("hook")
  /\ Done
  /\ hooks' = Append(hooks, Pointer)
  /\ UNCHANGED <<build, locale, language, ready, handle, pointers, copied, skipped, faults, phase>>

\* ControlledPages::claim maps the page of the pointer with the handle.
Claimable == Pointer \in pointers /\ handle = "own"

\* Mutant: a hook goes in without the handle.
HookByPointer ==
  /\ Current("hook")
  /\ Done
  /\ IF Pointer \in pointers
     THEN hooks' = Append(hooks, Pointer) /\ UNCHANGED phase
     ELSE Crash /\ UNCHANGED hooks
  /\ UNCHANGED <<build, locale, language, ready, handle, pointers, copied, skipped, faults>>

\* MAKE_HOOK.
Hook ==
  /\ Current("hook")
  /\ Done
  /\ IF Claimable
     THEN hooks' = Append(hooks, Pointer) /\ UNCHANGED phase
     ELSE Crash /\ UNCHANGED hooks
  /\ UNCHANGED <<build, locale, language, ready, handle, pointers, copied, skipped, faults>>

\* ControlledPages::claim of the page of a pointer.
Claim ==
  /\ Current("claim")
  /\ Done
  /\ IF Claimable THEN UNCHANGED phase ELSE Crash
  /\ UNCHANGED <<build, locale, language, ready, handle, pointers, copied, hooks, skipped, faults>>

\* sky_memcpy, which looks for NULL before it claims the page.
Memcpy ==
  /\ Current("memcpy")
  /\ Done
  /\ skipped' = IF Pointer \in pointers THEN skipped ELSE skipped \cup {Pointer}
  /\ IF Pointer \in pointers /\ ~Claimable THEN Crash ELSE UNCHANGED phase
  /\ UNCHANGED <<build, locale, language, ready, handle, pointers, copied, hooks, faults>>

Copy ==
  /\ Current("copy")
  /\ Done
  /\ copied' = copied \cup ({Pointer} \cap pointers)
  /\ UNCHANGED <<build, locale, language, ready, handle, pointers, hooks, skipped, faults, phase>>

\* The game starts, and later calls LateInit, once.
LateInit ==
  /\ phase = "boot" /\ todo = <<>>
  /\ phase' = "installing"
  /\ todo' = Installers(build, language)
  /\ UNCHANGED <<build, locale, language, ready, handle, pointers, copied, hooks, skipped, faults>>

Finish ==
  /\ phase = "installing" /\ todo = <<>>
  /\ phase' = "patched"
  /\ UNCHANGED <<build, locale, language, ready, handle, pointers, copied, todo, hooks, skipped,
                 faults>>

\* What a hook calls or writes to besides its original.
Dereferenced(hook) ==
  CASE hook = "SetGameLanguage" -> {"iCurrentLanguage1", "iCurrentLanguage2"}
    [] hook = "CFontMgr2__SetFixMode" -> {"TranslationArray", "SaveOpcodePtrFixInfo"}
    [] hook = "nvnLoadCProcs" -> {"pfnc_nvnSamplerBuilderSetMaxAnisotropy",
                                  "pfnc_nvnQueuePresentTexture"}
    [] OTHER -> {}

CalledThrough(hook) ==
  CASE hook = "CFontMgr2__SetFixMode" -> {"CFontMgr2__GetSizeSJIS"}
    [] hook = "CMessageWindow__PrintText" -> {"GetItemName"}
    [] hook \in {"CTexMgr__LoadITP", "CTexMgr__Load2"} -> SafeFile
    [] OTHER -> {}

\* The game runs into a hook, from any thread and between any two steps.
CallHook(hook) ==
  /\ phase \in {"installing", "patched"}
  /\ Contains(hooks, hook)
  /\ faults' = IF Dereferenced(hook) \subseteq pointers /\ CalledThrough(hook) \subseteq copied
               THEN faults ELSE faults \cup {hook}
  /\ UNCHANGED <<build, locale, language, ready, handle, pointers, copied, todo, hooks, skipped,
                 phase>>

Next ==
  \/ AskForHandle \/ SetUp \/ Detect \/ Hook \/ Claim \/ Memcpy \/ Copy \/ LateInit \/ Finish
  \/ \E hook \in ToSet(hooks) : CallHook(hook)

Spec == Init /\ [][Next]_vars

\* The thread that starts the process goes on, and the game calls LateInit.
FairSpec ==
  Spec /\ WF_vars(AskForHandle \/ SetUp \/ Detect \/ Hook \/ Claim \/ Memcpy \/ Copy \/ LateInit \/ Finish)

-----------------------------------------------------------------------------
TypeOK ==
  /\ build \in Builds /\ locale \in Locales
  /\ language \in {"English", "Japanese", "TraditionalChinese", "Korean"}
  /\ ready \subseteq Foundations /\ handle \in {"own", "unset"}
  /\ copied \subseteq pointers
  /\ ToSet(hooks) \subseteq pointers
  /\ phase \in {"boot", "installing", "patched", "aborted"}

\* In a supported build no installer meets a NULL pointer, in any language: no
\* patch is silently left out, and the process is aborted only for want of its
\* handle.  The steps depend on IsZero and on the language, the table on the
\* start-up address.
SupportedIsComplete ==
  build \in Supported => skipped = {} /\ (phase = "aborted" => handle = "unset")

\* A hook never runs before everything it calls or writes to is known, although
\* the game runs while ED7Main.cpp still installs the others.
HooksFindTheirPointers == faults = {}

\* The hooks that ask __builtin_return_address(0) who called them.
AsksForCaller ==
  {"AdditionalStrings2", "SetStoryText", "DrawFontReport", "SaveListFontRender",
   "NotebookDrawText", "SupportRequestDrawFont", "NotebookElementBarDraw",
   "NotebookDrawNumberRightAligned"}

\* A hook that compares its return address with places in the game is never
\* called from another hook of the same function, which would be its caller.
CallersAreTheGame ==
  \A i, j \in DOMAIN hooks :
    i < j /\ Address(build, hooks[i]) = Address(build, hooks[j]) =>
      hooks[i] \notin AsksForCaller

\* No function is hooked before the hook engine and its logger exist, nor in a
\* process that never got its handle, although nobody looks at the result of the
\* request: such a process is aborted before the game runs.
EngineComesFirst ==
  /\ hooks # <<>> => ready = Foundations /\ handle = "own"
  /\ phase \in {"installing", "patched"} => handle = "own"

\* A build ED7PointersInitialize does not know is left alone.
UnknownIsLeftAlone == build = "unknown" => phase # "aborted" /\ hooks = <<>>

\* Every start of a supported build that gets its handle ends with all installers
\* done.
SupportedGetsPatched == build \in Supported /\ handle = "own" ~> phase = "patched"
=============================================================================
