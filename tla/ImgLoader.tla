----------------------------- MODULE ImgLoader -----------------------------
(***************************************************************************)
(* The replacement of textures (ED7ImgLoader.cpp).  A texture comes to     *)
(* CTexMgr::LoadITP as a file of its own, or to CTexMgr::Load2 out of an   *)
(* IT3 container.  A PNG or WebP picture is read into the one              *)
(* StaticFileBuffer, the game decodes a donor ITP of the same size, and    *)
(* the hook on the decoder puts the picture over it.  The game may load    *)
(* textures on several threads; the buffer, its type and the IT3 flag are  *)
(* shared by them all.                                                     *)
(***************************************************************************)
CONSTANTS
  Loaders,
  Types,     \* the known types of pictures
  NoThread

ASSUME LoaderAssumption == NoThread \notin Loaders

Unknown == "unknown"
ASSUME TypesAssumption == Unknown \notin Types

\* What there is to load.  For "itp" type is that of the file itself, for "it3"
\* that of the file with the replacement, if it exists.  readable: its width and
\* height can be read and it decodes; donor: there is a donor of this size.
Jobs ==
  {j \in [via : {"itp", "it3"}, exists : BOOLEAN, type : Types \cup {Unknown},
          readable : BOOLEAN, donor : BOOLEAN] :
     /\ j.via = "itp" => j.exists
     /\ ~j.exists => j.type = Unknown
     /\ j.type = Unknown => ~j.readable /\ ~j.donor}

VARIABLES
  AlreadyHookingIT3, StaticTextureType,
  StaticFileBuffer,  \* who filled it last, and with what
  at, job,
  eTexType,    \* the type in a local variable of the hook that runs
  donor,       \* the donor the hook has found, if any
  moved,       \* the position in the file is not that of the caller
  shown,       \* the picture in the texture the thread has loaded last
  loadOverlapped  \* another thread was loading during the load

imgVars == <<AlreadyHookingIT3, StaticTextureType, StaticFileBuffer, at, job,
             eTexType, donor, moved, shown, loadOverlapped>>

Pictures == {"own", "donor", "nothing", "other"}
\* Where a hook has set StaticTextureType and is still to reset it, and the same
\* for AlreadyHookingIT3.
FlagPlaces == {"it3 decode", "it3 replace", "it3 reset", "it3 flag"}
SetPlaces == {"it3 donor", "it3 decode", "it3 replace", "it3 reset",
              "donor decode", "donor replace", "donor reset"}
Places == SetPlaces \cup FlagPlaces \cup {"idle", "done", "it3 read", "it3 header", "it3 flag", "itp",
                          "itp read", "itp size", "itp set", "own decode", "own replace"}

\* An ITP file of the game.
SomeJob == [via |-> "itp", exists |-> TRUE, type |-> Unknown,
            readable |-> FALSE, donor |-> FALSE]

ImgInit ==
  /\ AlreadyHookingIT3 = FALSE /\ StaticTextureType = Unknown
  /\ StaticFileBuffer = [by |-> NoThread, file |-> SomeJob]
  /\ at = [t \in Loaders |-> "idle"]
  /\ job = [t \in Loaders |-> SomeJob]
  /\ eTexType = [t \in Loaders |-> Unknown]
  /\ donor = [t \in Loaders |-> FALSE]
  /\ moved = [t \in Loaders |-> FALSE]
  /\ shown = [t \in Loaders |-> "own"]
  /\ loadOverlapped = [t \in Loaders |-> FALSE]

Goto(t, place) == at' = [at EXCEPT ![t] = place]
Statics == <<AlreadyHookingIT3, StaticTextureType>>
Job == <<job, loadOverlapped>>

-----------------------------------------------------------------------------
Active == {t \in Loaders : at[t] \notin {"idle", "done"}}

\* The game calls CTexMgr::LoadITP or CTexMgr::Load2.
Call(t, j) ==
  /\ at[t] = "idle"
  /\ job' = [job EXCEPT ![t] = j]
  /\ loadOverlapped' = [u \in Loaders |->
       IF u = t THEN Active # {} ELSE u \in Active \/ loadOverlapped[u]]
  /\ Goto(t, IF j.via = "it3" /\ j.exists THEN "it3 read" ELSE "itp")
  /\ UNCHANGED <<Statics, StaticFileBuffer, eTexType, donor, moved, shown>>

\* The hook is left with its local variables; what is in the buffer is not what
\* the next load of the thread is about.
Returned(t) ==
  /\ at[t] = "done"
  /\ Goto(t, "idle")
  /\ job' = [job EXCEPT ![t] = SomeJob]
  /\ StaticFileBuffer' =
       IF StaticFileBuffer.by = t THEN [StaticFileBuffer EXCEPT !.by = NoThread]
       ELSE StaticFileBuffer
  /\ eTexType' = [eTexType EXCEPT ![t] = Unknown]
  /\ donor' = [donor EXCEPT ![t] = FALSE]
  /\ moved' = [moved EXCEPT ![t] = FALSE]
  /\ shown' = [shown EXCEPT ![t] = "own"]
  /\ loadOverlapped' = [loadOverlapped EXCEPT ![t] = FALSE]
  /\ UNCHANGED Statics

\* InitCustomTextureFromFileName reads the whole file before it looks at it.
It3Read(t) ==
  /\ at[t] = "it3 read"
  /\ StaticFileBuffer' = [by |-> t, file |-> job[t]]
  /\ Goto(t, "it3 header")
  /\ UNCHANGED <<Statics, Job, eTexType, donor, moved, shown>>

\* An unknown header leaves the texture to the game.  The result of
\* GetCustomTextureDimensions is not looked at: without it the name of the donor
\* is made from numbers that were never set.
It3Header(t) ==
  /\ at[t] = "it3 header"
  /\ IF StaticFileBuffer.file.type = Unknown
     THEN Goto(t, "itp") /\ UNCHANGED <<StaticTextureType, donor>>
     ELSE /\ StaticTextureType' = StaticFileBuffer.file.type
          /\ \E found \in BOOLEAN :
               /\ StaticFileBuffer.file.readable => found = StaticFileBuffer.file.donor
               /\ donor' = [donor EXCEPT ![t] = found]
          /\ Goto(t, "it3 donor")
  /\ UNCHANGED <<AlreadyHookingIT3, StaticFileBuffer, Job, eTexType, moved, shown>>

\* Load2 calls the original with the donor, which calls the hook on LoadITP.  That
\* one finds the flag or the header of an ITP, and either way decodes the donor.
It3Donor(t) ==
  /\ at[t] = "it3 donor"
  /\ AlreadyHookingIT3' = TRUE
  /\ IF donor[t]
     THEN Goto(t, "it3 decode") /\ UNCHANGED shown
     ELSE Goto(t, "it3 reset") /\ shown' = [shown EXCEPT ![t] = "nothing"]
  /\ UNCHANGED <<StaticTextureType, StaticFileBuffer, Job, eTexType, donor, moved>>

\* Mutant: Load2 leaves the reset to the hook on the decoder.
It3ResetForgotten(t) ==
  /\ at[t] = "it3 reset"
  /\ Goto(t, "it3 flag")
  /\ UNCHANGED <<StaticTextureType, AlreadyHookingIT3, StaticFileBuffer, Job, eTexType,
                 donor, moved, shown>>

It3Reset(t) ==
  /\ at[t] = "it3 reset"
  /\ StaticTextureType' = Unknown
  /\ Goto(t, "it3 flag")
  /\ UNCHANGED <<AlreadyHookingIT3, StaticFileBuffer, Job, eTexType, donor, moved, shown>>

It3Flag(t) ==
  /\ at[t] = "it3 flag"
  /\ AlreadyHookingIT3' = FALSE
  /\ Goto(t, "done")
  /\ UNCHANGED <<StaticTextureType, StaticFileBuffer, Job, eTexType, donor, moved, shown>>

-----------------------------------------------------------------------------
\* The file LoadITP works on: an ITP out of a container or the job's own file.
Header(t) == IF job[t].via = "it3" THEN Unknown ELSE job[t].type

\* What the game makes of that file: it knows ITP files only, and only from
\* where they begin.
GoesOn(t) ==
  IF Header(t) = Unknown /\ ~moved[t]
  THEN Goto(t, "own decode") /\ UNCHANGED shown
  ELSE Goto(t, "done") /\ shown' = [shown EXCEPT ![t] = "nothing"]

\* CTexMgr__LoadITP_hook up to the test of the header, after which the position
\* in the file is put back on both ways.
LoadITP(t) ==
  /\ at[t] = "itp"
  /\ eTexType' = [eTexType EXCEPT ![t] = Header(t)]
  /\ IF AlreadyHookingIT3 \/ Header(t) = Unknown
     THEN GoesOn(t)
     ELSE Goto(t, "itp read") /\ UNCHANGED shown
  /\ UNCHANGED <<Statics, StaticFileBuffer, Job, donor, moved>>

\* CSafeFile__fread into the buffer.
ItpRead(t) ==
  /\ at[t] = "itp read"
  /\ StaticFileBuffer' = [by |-> t, file |-> job[t]]
  /\ moved' = [moved EXCEPT ![t] = TRUE]
  /\ Goto(t, "itp size")
  /\ UNCHANGED <<Statics, Job, eTexType, donor, shown>>

\* GetCustomTextureDimensions looks into the buffer, with the type of the header.
CanDecode(t) == StaticFileBuffer.file.type = eTexType[t] /\ StaticFileBuffer.file.readable

ItpSize(t) ==
  /\ at[t] = "itp size"
  /\ IF CanDecode(t)
     THEN /\ donor' = [donor EXCEPT ![t] = StaticFileBuffer.file.donor]
          /\ Goto(t, "itp set")
          /\ UNCHANGED <<shown, moved>>
     ELSE /\ moved' = [moved EXCEPT ![t] = FALSE]
          /\ Goto(t, "done")
          /\ shown' = [shown EXCEPT ![t] = "nothing"]
          /\ UNCHANGED donor
  /\ UNCHANGED <<Statics, StaticFileBuffer, Job, eTexType>>

\* Mutant: the type is not set before the donor is decoded.
ItpSetForgotten(t) ==
  /\ at[t] = "itp set"
  /\ IF donor[t]
     THEN Goto(t, "donor decode") /\ UNCHANGED shown
     ELSE Goto(t, "donor reset") /\ shown' = [shown EXCEPT ![t] = "nothing"]
  /\ UNCHANGED <<AlreadyHookingIT3, StaticTextureType, StaticFileBuffer, Job, eTexType,
                 donor, moved>>

ItpSet(t) ==
  /\ at[t] = "itp set"
  /\ StaticTextureType' = eTexType[t]
  /\ IF donor[t]
     THEN Goto(t, "donor decode") /\ UNCHANGED shown
     ELSE Goto(t, "donor reset") /\ shown' = [shown EXCEPT ![t] = "nothing"]
  /\ UNCHANGED <<AlreadyHookingIT3, StaticFileBuffer, Job, eTexType, donor, moved>>

ItpReset(t) ==
  /\ at[t] = "donor reset"
  /\ StaticTextureType' = Unknown
  /\ Goto(t, "done")
  /\ UNCHANGED <<AlreadyHookingIT3, StaticFileBuffer, Job, eTexType, donor, moved, shown>>

-----------------------------------------------------------------------------
\* CTexBase__LoadITP_chunk_IDAT_hook: from where it is called, where it replaces
\* and where it returns to, and what the game has decoded itself.
Decodes == {
  [call |-> "it3 decode", replace |-> "it3 replace", back |-> "it3 reset", plain |-> "donor"],
  [call |-> "donor decode", replace |-> "donor replace", back |-> "donor reset", plain |-> "donor"],
  [call |-> "own decode", replace |-> "own replace", back |-> "done", plain |-> "own"]}

Decode(t) == \E d \in Decodes :
  /\ at[t] = d.call
  /\ eTexType' = [eTexType EXCEPT ![t] = StaticTextureType]
  /\ shown' = [shown EXCEPT ![t] = d.plain]
  /\ Goto(t, IF StaticTextureType # Unknown THEN d.replace ELSE d.back)
  /\ UNCHANGED <<Statics, StaticFileBuffer, Job, donor, moved>>

\* A picture that does not decode leaves what the game has decoded.
Replace(t) == \E d \in Decodes :
  /\ at[t] = d.replace
  /\ shown' = [shown EXCEPT ![t] =
       IF ~CanDecode(t) THEN @ ELSE IF StaticFileBuffer.by = t THEN "own" ELSE "other"]
  /\ StaticTextureType' = Unknown
  /\ Goto(t, d.back)
  /\ UNCHANGED <<AlreadyHookingIT3, StaticFileBuffer, Job, eTexType, donor, moved>>

ImgNext == \E t \in Loaders :
  \/ (\E j \in Jobs : Call(t, j)) \/ Returned(t)
  \/ It3Read(t) \/ It3Header(t) \/ It3Donor(t) \/ It3Reset(t) \/ It3Flag(t)
  \/ LoadITP(t) \/ ItpRead(t) \/ ItpSize(t) \/ ItpSet(t) \/ ItpReset(t)
  \/ Decode(t) \/ Replace(t)

ImgSpec == ImgInit /\ [][ImgNext]_imgVars

-----------------------------------------------------------------------------
\* The types, and that a picture is put over the decoded one with a known type
\* only, whatever another thread has made of StaticTextureType since.
ImgTypeOK ==
  /\ AlreadyHookingIT3 \in BOOLEAN
  /\ StaticTextureType \in Types \cup {Unknown}
  /\ StaticFileBuffer \in [by : Loaders \cup {NoThread}, file : Jobs]
  /\ at \in [Loaders -> Places]
  /\ job \in [Loaders -> Jobs]
  /\ eTexType \in [Loaders -> Types \cup {Unknown}]
  /\ donor \in [Loaders -> BOOLEAN] /\ moved \in [Loaders -> BOOLEAN]
  /\ shown \in [Loaders -> Pictures]
  /\ loadOverlapped \in [Loaders -> BOOLEAN]
  /\ \A t \in Loaders :
       at[t] \in {"it3 replace", "donor replace", "own replace"} => eTexType[t] \in Types

\* What a load is to put into the texture.
Wanted(j) ==
  CASE j.type = Unknown                                 -> {"own"}
    [] j.type # Unknown /\ j.readable /\ j.donor        -> {"own"}
    [] j.type # Unknown /\ ~j.readable /\ j.via = "it3" -> {"nothing", "donor"}
    [] OTHER                                            -> {"nothing"}

\* A load that no other overlaps puts its own picture into the texture whenever
\* there is one and a donor for it, and never one of another load: no load,
\* however it fails, leaves anything in the static variables that misleads the
\* next.
OnlyOverlapExchanges == \A t \in Loaders :
  at[t] = "done" /\ ~loadOverlapped[t] => shown[t] \in Wanted(job[t])

\* Also when loads overlap nothing of it remains: when all have returned, the
\* next texture is not taken for a picture and the hook on LoadITP is active.
NothingRemains ==
  Active = {} =>
    StaticTextureType = Unknown /\ ~AlreadyHookingIT3
=============================================================================
