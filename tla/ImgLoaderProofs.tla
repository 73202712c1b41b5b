-------------------------- MODULE ImgLoaderProofs --------------------------
(***************************************************************************)
(* No static variable of the texture loader outlives the loads, and a load *)
(* that no other overlaps shows what it is to show, for any number of      *)
(* threads and types of pictures; and, with what is proved of the files,   *)
(* what the hooks on both promise together.                                *)
(***************************************************************************)
EXTENDS MCAssets, FileLoaderProofs

\* Who has set a static variable is still to reset it.  Nobody relies on having
\* the variable alone: a thread that sets it over the value of another resets
\* both, and the other resets it once more.
SetByPlaces ==
  /\ StaticTextureType # Unknown => \E t \in Loaders : at[t] \in SetPlaces
  /\ AlreadyHookingIT3 # FALSE => \E t \in Loaders : at[t] \in FlagPlaces

SetInv == at \in [Loaders -> Places] /\ SetByPlaces

LEMMA InitSetInv == ImgInit => SetInv
BY DEF ImgInit, SetInv, SetByPlaces, Places

\* A step that changes neither variable, and takes its thread from one of the
\* places where they are to be reset to another, keeps the invariant.
LEMMA MoveOn ==
  ASSUME SetInv, NEW t \in Loaders, NEW place \in Places, Goto(t, place),
         UNCHANGED Statics,
         at[t] \in SetPlaces => place \in SetPlaces,
         at[t] \in FlagPlaces => place \in FlagPlaces
  PROVE  SetInv'
BY DEF SetInv, SetByPlaces, Goto, Statics

\* The three ways the decoder is reached, read off the records.
LEMMA DecodeWays ==
  ASSUME NEW d \in Decodes
  PROVE  \/ /\ d.call = "it3 decode" /\ d.replace = "it3 replace"
            /\ d.back = "it3 reset" /\ d.plain = "donor"
         \/ /\ d.call = "donor decode" /\ d.replace = "donor replace"
            /\ d.back = "donor reset" /\ d.plain = "donor"
         \/ /\ d.call = "own decode" /\ d.replace = "own replace"
            /\ d.back = "done" /\ d.plain = "own"
<1> DEFINE
  it3 == [call |-> "it3 decode", replace |-> "it3 replace",
          back |-> "it3 reset", plain |-> "donor"]
  png == [call |-> "donor decode", replace |-> "donor replace",
          back |-> "donor reset", plain |-> "donor"]
  itp == [call |-> "own decode", replace |-> "own replace",
          back |-> "done", plain |-> "own"]
<1>1. d = it3 \/ d = png \/ d = itp
  BY Zenon DEF Decodes
<1>2. /\ it3.call = "it3 decode" /\ it3.replace = "it3 replace"
      /\ it3.back = "it3 reset" /\ it3.plain = "donor"
  OBVIOUS
<1>3. /\ png.call = "donor decode" /\ png.replace = "donor replace"
      /\ png.back = "donor reset" /\ png.plain = "donor"
  OBVIOUS
<1>4. /\ itp.call = "own decode" /\ itp.replace = "own replace"
      /\ itp.back = "done" /\ itp.plain = "own"
  OBVIOUS
<1> HIDE DEF it3, png, itp
<1> QED BY <1>1, <1>2, <1>3, <1>4

LEMMA NextSetInv == SetInv /\ [ImgNext]_imgVars => SetInv'
<1> SUFFICES ASSUME SetInv, [ImgNext]_imgVars PROVE SetInv'
  OBVIOUS
<1>1. ASSUME NEW t \in Loaders, NEW j \in Jobs, Call(t, j) PROVE SetInv'
  <2>1. at[t] = "idle" /\ UNCHANGED Statics
    BY <1>1 DEF Call
  <2>2. Goto(t, "it3 read") \/ Goto(t, "itp")
    BY <1>1 DEF Call
  <2> QED BY <2>1, <2>2, MoveOn DEF Places, SetPlaces, FlagPlaces
<1>2. ASSUME NEW t \in Loaders, Returned(t) PROVE SetInv'
  BY <1>2, MoveOn DEF Returned, Places, SetPlaces, FlagPlaces
<1>3. ASSUME NEW t \in Loaders, It3Read(t) PROVE SetInv'
  BY <1>3, MoveOn DEF It3Read, Places, SetPlaces, FlagPlaces
<1>4. ASSUME NEW t \in Loaders, It3Header(t) PROVE SetInv'
  <2>1. CASE StaticFileBuffer.file.type = Unknown
    BY <1>4, <2>1, MoveOn DEF It3Header, Statics, Places, SetPlaces, FlagPlaces
  <2>2. CASE StaticFileBuffer.file.type # Unknown
    BY <1>4, <2>2
       DEF It3Header, Goto, SetInv, SetByPlaces, Places, SetPlaces, FlagPlaces
  <2> QED BY <2>1, <2>2
<1>5. ASSUME NEW t \in Loaders, It3Donor(t) PROVE SetInv'
  BY <1>5 DEF It3Donor, Goto, SetInv, SetByPlaces, Places, SetPlaces, FlagPlaces
<1>6. ASSUME NEW t \in Loaders, It3Reset(t) PROVE SetInv'
  BY <1>6 DEF It3Reset, Goto, SetInv, SetByPlaces, Places, SetPlaces, FlagPlaces
<1>7. ASSUME NEW t \in Loaders, It3Flag(t) PROVE SetInv'
  BY <1>7 DEF It3Flag, Goto, SetInv, SetByPlaces, Places, SetPlaces, FlagPlaces
<1>8. ASSUME NEW t \in Loaders, LoadITP(t) PROVE SetInv'
  <2>1. at[t] = "itp" /\ UNCHANGED Statics
    BY <1>8 DEF LoadITP
  <2>2. Goto(t, "own decode") \/ Goto(t, "done") \/ Goto(t, "itp read")
    BY <1>8 DEF LoadITP, GoesOn
  <2> QED BY <2>1, <2>2, MoveOn DEF Places, SetPlaces, FlagPlaces
<1>9. ASSUME NEW t \in Loaders, ItpRead(t) PROVE SetInv'
  BY <1>9, MoveOn DEF ItpRead, Places, SetPlaces, FlagPlaces
<1>10. ASSUME NEW t \in Loaders, ItpSize(t) PROVE SetInv'
  <2>1. at[t] = "itp size" /\ UNCHANGED Statics
    BY <1>10 DEF ItpSize
  <2>2. Goto(t, "itp set") \/ Goto(t, "done")
    BY <1>10 DEF ItpSize
  <2> QED BY <2>1, <2>2, MoveOn DEF Places, SetPlaces, FlagPlaces
<1>11. ASSUME NEW t \in Loaders, ItpSet(t) PROVE SetInv'
  BY <1>11 DEF ItpSet, Goto, SetInv, SetByPlaces, Places, SetPlaces, FlagPlaces
<1>12. ASSUME NEW t \in Loaders, ItpReset(t) PROVE SetInv'
  BY <1>12 DEF ItpReset, Goto, SetInv, SetByPlaces, Places, SetPlaces, FlagPlaces
<1>13. ASSUME NEW t \in Loaders, Decode(t) PROVE SetInv'
  <2>1. PICK d \in Decodes : /\ at[t] = d.call
                             /\ Goto(t, IF StaticTextureType # Unknown
                                        THEN d.replace ELSE d.back)
                             /\ UNCHANGED Statics
    BY <1>13 DEF Decode
  <2>a. Goto(t, d.replace) \/ Goto(t, d.back)
    BY <2>1
  <2>2. CASE at[t] = "own decode"
    <3>1. Goto(t, "own replace") \/ Goto(t, "done")
      BY <2>1, <2>a, <2>2, DecodeWays
    <3> QED BY <2>1, <2>2, <3>1, MoveOn DEF Places, SetPlaces, FlagPlaces
  <2>3. CASE at[t] = "it3 decode"
    <3>1. Goto(t, "it3 replace") \/ Goto(t, "it3 reset")
      BY <2>1, <2>a, <2>3, DecodeWays
    <3> QED BY <2>1, <2>3, <3>1, MoveOn DEF Places, SetPlaces, FlagPlaces
  <2>4. CASE at[t] = "donor decode"
    <3>1. Goto(t, "donor replace") \/ Goto(t, "donor reset")
      BY <2>1, <2>a, <2>4, DecodeWays
    <3> QED BY <2>1, <2>4, <3>1, MoveOn DEF Places, SetPlaces, FlagPlaces
  <2> QED BY <2>1, <2>2, <2>3, <2>4, DecodeWays
<1>14. ASSUME NEW t \in Loaders, Replace(t) PROVE SetInv'
  <2>1. StaticTextureType' = Unknown /\ AlreadyHookingIT3' = AlreadyHookingIT3
    BY <1>14 DEF Replace
  <2>b. PICK d \in Decodes : at[t] = d.replace /\ Goto(t, d.back)
    BY <1>14 DEF Replace
  <2>2. \/ at[t] = "own replace" /\ Goto(t, "done")
        \/ at[t] = "it3 replace" /\ Goto(t, "it3 reset")
        \/ at[t] = "donor replace" /\ Goto(t, "donor reset")
    BY <2>b, DecodeWays
  <2> QED BY <2>1, <2>2
          DEF Goto, SetInv, SetByPlaces, Places, SetPlaces, FlagPlaces
<1>15. CASE UNCHANGED imgVars
  BY <1>15 DEF imgVars, SetInv, SetByPlaces
<1> QED BY <1>1, <1>2, <1>3, <1>4, <1>5, <1>6, <1>7, <1>8, <1>9, <1>10, <1>11,
           <1>12, <1>13, <1>14, <1>15 DEF ImgNext

\* Every thread that has set a static variable is on its way to the reset.
THEOREM SetInvariance == ImgSpec => []SetInv
BY InitSetInv, NextSetInv, PTL DEF ImgSpec

\* When all loads have returned, neither StaticTextureType nor AlreadyHookingIT3
\* is left set, however the loads have overlapped and whichever of them failed.
THEOREM NothingLeft == ImgSpec => []NothingRemains
<1>1. SetInv => NothingRemains
  BY DEF SetInv, SetByPlaces, NothingRemains, Active, SetPlaces, FlagPlaces
<1> QED BY <1>1, SetInvariance, PTL

-----------------------------------------------------------------------------
(* Types.                                                                  *)

LEMMA JobFields ==
  ASSUME NEW j \in Jobs
  PROVE  /\ j.via \in {"itp", "it3"} /\ j.type \in Types \cup {Unknown}
         /\ j.exists \in BOOLEAN /\ j.readable \in BOOLEAN /\ j.donor \in BOOLEAN
         /\ j.via = "itp" => j.exists
         /\ ~j.exists => j.type = Unknown
         /\ j.type = Unknown => ~j.readable /\ ~j.donor
BY DEF Jobs

LEMMA SomeJobIsOne == SomeJob \in Jobs
BY DEF SomeJob, Jobs

LEMMA InitTypes == ImgInit => ImgTypeOK
<1> SUFFICES ASSUME ImgInit PROVE ImgTypeOK
  OBVIOUS
<1>1. StaticFileBuffer \in [by : Loaders \cup {NoThread}, file : Jobs]
  BY SomeJobIsOne DEF ImgInit
<1>2. job \in [Loaders -> Jobs]
  BY SomeJobIsOne DEF ImgInit
<1>3. at \in [Loaders -> Places] /\ \A t \in Loaders : at[t] = "idle"
  BY DEF ImgInit, Places
<1> QED BY <1>1, <1>2, <1>3 DEF ImgInit, ImgTypeOK, Pictures

\* The places a picture is put over the decoded one at.
Replacing == {"it3 replace", "donor replace", "own replace"}

\* A step to another place keeps the types if what it stores has them.
LEMMA TypesMoveOn ==
  ASSUME ImgTypeOK, NEW t \in Loaders, NEW place \in Places, Goto(t, place),
         place \notin Replacing,
         AlreadyHookingIT3' \in BOOLEAN, StaticTextureType' \in Types \cup {Unknown},
         StaticFileBuffer' \in [by : Loaders \cup {NoThread}, file : Jobs],
         job' \in [Loaders -> Jobs], loadOverlapped' \in [Loaders -> BOOLEAN],
         \A u \in Loaders \ {t} : eTexType'[u] = eTexType[u],
         eTexType' \in [Loaders -> Types \cup {Unknown}],
         donor' \in [Loaders -> BOOLEAN], moved' \in [Loaders -> BOOLEAN],
         shown' \in [Loaders -> Pictures]
  PROVE  ImgTypeOK'
<1>1. at' \in [Loaders -> Places]
  BY DEF ImgTypeOK, Goto
<1>2. ASSUME NEW u \in Loaders, at'[u] \in Replacing PROVE eTexType'[u] \in Types
  <2>1. u # t
    BY <1>2 DEF Goto, ImgTypeOK
  <2>2. at[u] = at'[u] /\ eTexType'[u] = eTexType[u]
    BY <2>1 DEF Goto, ImgTypeOK
  <2> QED BY <1>2, <2>2 DEF ImgTypeOK, Replacing
<1> QED BY <1>1, <1>2 DEF ImgTypeOK, Replacing

LEMMA NextTypes == ImgTypeOK /\ [ImgNext]_imgVars => ImgTypeOK'
<1> SUFFICES ASSUME ImgTypeOK, [ImgNext]_imgVars PROVE ImgTypeOK'
  OBVIOUS
<1> DEFINE Contents == [by : Loaders \cup {NoThread}, file : Jobs]
           Kinds == Types \cup {Unknown}
<1>0. /\ AlreadyHookingIT3 \in BOOLEAN /\ StaticTextureType \in Kinds
      /\ StaticFileBuffer \in Contents
      /\ at \in [Loaders -> Places] /\ job \in [Loaders -> Jobs]
      /\ eTexType \in [Loaders -> Kinds]
      /\ donor \in [Loaders -> BOOLEAN] /\ moved \in [Loaders -> BOOLEAN]
      /\ shown \in [Loaders -> Pictures] /\ loadOverlapped \in [Loaders -> BOOLEAN]
  BY DEF ImgTypeOK
<1>f. StaticFileBuffer.file \in Jobs
  BY <1>0
<1>k. StaticFileBuffer.file.type \in Kinds /\ StaticFileBuffer.file.donor \in BOOLEAN
  BY <1>f, JobFields
<1>p. {"own", "donor", "nothing", "other"} \subseteq Pictures
  BY DEF Pictures
<1>r. \A t \in Loaders : [by |-> t, file |-> job[t]] \in Contents
  BY <1>0
<1>1. ASSUME NEW t \in Loaders, NEW j \in Jobs, Call(t, j) PROVE ImgTypeOK'
  <2>1. Goto(t, "it3 read") \/ Goto(t, "itp")
    BY <1>1 DEF Call
  <2>2. job' \in [Loaders -> Jobs] /\ loadOverlapped' \in [Loaders -> BOOLEAN]
    BY <1>0, <1>1 DEF Call
  <2> QED BY <1>0, <1>1, <2>1, <2>2, TypesMoveOn DEF Call, Statics, Places, Replacing
<1>2. ASSUME NEW t \in Loaders, Returned(t) PROVE ImgTypeOK'
  <2>1. StaticFileBuffer' \in Contents
    BY <1>0, <1>2 DEF Returned
  <2>2. /\ job' \in [Loaders -> Jobs] /\ loadOverlapped' \in [Loaders -> BOOLEAN]
        /\ eTexType' \in [Loaders -> Kinds] /\ shown' \in [Loaders -> Pictures]
        /\ donor' \in [Loaders -> BOOLEAN] /\ moved' \in [Loaders -> BOOLEAN]
        /\ \A u \in Loaders \ {t} : eTexType'[u] = eTexType[u]
    BY <1>0, <1>2, <1>p, SomeJobIsOne DEF Returned
  <2> QED BY <1>0, <1>2, <2>1, <2>2, TypesMoveOn DEF Returned, Statics, Places, Replacing
<1>3. ASSUME NEW t \in Loaders, It3Read(t) PROVE ImgTypeOK'
  BY <1>0, <1>3, <1>r, TypesMoveOn DEF It3Read, Statics, Job, Places, Replacing
<1>4. ASSUME NEW t \in Loaders, It3Header(t) PROVE ImgTypeOK'
  <2>1. Goto(t, "itp") \/ Goto(t, "it3 donor")
    BY <1>4 DEF It3Header
  <2>2. StaticTextureType' \in Kinds /\ donor' \in [Loaders -> BOOLEAN]
    BY <1>0, <1>k, <1>4 DEF It3Header
  <2> QED BY <1>0, <1>4, <2>1, <2>2, TypesMoveOn
          DEF It3Header, Job, Places, SetPlaces, Replacing
<1>5. ASSUME NEW t \in Loaders, It3Donor(t) PROVE ImgTypeOK'
  <2>1. Goto(t, "it3 decode") \/ Goto(t, "it3 reset")
    BY <1>5 DEF It3Donor
  <2>2. shown' \in [Loaders -> Pictures]
    BY <1>0, <1>p, <1>5 DEF It3Donor
  <2> QED BY <1>0, <1>5, <2>1, <2>2, TypesMoveOn
          DEF It3Donor, Job, Places, SetPlaces, Replacing
<1>6. ASSUME NEW t \in Loaders, It3Reset(t) PROVE ImgTypeOK'
  BY <1>0, <1>6, TypesMoveOn DEF It3Reset, Job, Places, FlagPlaces, Replacing
<1>7. ASSUME NEW t \in Loaders, It3Flag(t) PROVE ImgTypeOK'
  BY <1>0, <1>7, TypesMoveOn DEF It3Flag, Job, Places, Replacing
<1>8. ASSUME NEW t \in Loaders, LoadITP(t) PROVE ImgTypeOK'
  <2>1. Goto(t, "own decode") \/ Goto(t, "done") \/ Goto(t, "itp read")
    BY <1>8 DEF LoadITP, GoesOn
  <2>2. Header(t) \in Kinds
    BY <1>0, JobFields DEF Header
  <2>3. shown' \in [Loaders -> Pictures]
    BY <1>0, <1>p, <1>8 DEF LoadITP, GoesOn
  <2>4. /\ eTexType' \in [Loaders -> Kinds]
        /\ \A u \in Loaders \ {t} : eTexType'[u] = eTexType[u]
    BY <1>0, <1>8, <2>2 DEF LoadITP
  <2> QED BY <1>0, <1>8, <2>1, <2>3, <2>4, TypesMoveOn
          DEF LoadITP, Statics, Job, Places, Replacing
<1>9. ASSUME NEW t \in Loaders, ItpRead(t) PROVE ImgTypeOK'
  BY <1>0, <1>9, <1>r, TypesMoveOn DEF ItpRead, Statics, Job, Places, Replacing
<1>10. ASSUME NEW t \in Loaders, ItpSize(t) PROVE ImgTypeOK'
  <2>1. Goto(t, "itp set") \/ Goto(t, "done")
    BY <1>10 DEF ItpSize
  <2>2. /\ shown' \in [Loaders -> Pictures] /\ donor' \in [Loaders -> BOOLEAN]
        /\ moved' \in [Loaders -> BOOLEAN]
    BY <1>0, <1>k, <1>p, <1>10 DEF ItpSize
  <2> QED BY <1>0, <1>10, <2>1, <2>2, TypesMoveOn
          DEF ItpSize, Statics, Job, Places, Replacing
<1>11. ASSUME NEW t \in Loaders, ItpSet(t) PROVE ImgTypeOK'
  <2>1. Goto(t, "donor decode") \/ Goto(t, "donor reset")
    BY <1>11 DEF ItpSet
  <2>2. shown' \in [Loaders -> Pictures] /\ StaticTextureType' \in Kinds
    BY <1>0, <1>p, <1>11 DEF ItpSet
  <2> QED BY <1>0, <1>11, <2>1, <2>2, TypesMoveOn
          DEF ItpSet, Job, Places, SetPlaces, Replacing
<1>12. ASSUME NEW t \in Loaders, ItpReset(t) PROVE ImgTypeOK'
  BY <1>0, <1>12, TypesMoveOn DEF ItpReset, Job, Places, Replacing
<1>13. ASSUME NEW t \in Loaders, Decode(t) PROVE ImgTypeOK'
  <2>1. PICK d \in Decodes :
          /\ at[t] = d.call
          /\ eTexType' = [eTexType EXCEPT ![t] = StaticTextureType]
          /\ shown' = [shown EXCEPT ![t] = d.plain]
          /\ Goto(t, IF StaticTextureType # Unknown THEN d.replace ELSE d.back)
          /\ UNCHANGED <<Statics, StaticFileBuffer, Job, donor, moved>>
    BY <1>13 DEF Decode
  <2>2. d.plain \in Pictures
    BY DecodeWays DEF Pictures
  <2>3. /\ eTexType' \in [Loaders -> Kinds] /\ shown' \in [Loaders -> Pictures]
        /\ \A u \in Loaders \ {t} : eTexType'[u] = eTexType[u]
        /\ eTexType'[t] = StaticTextureType
    BY <1>0, <2>1, <2>2
  <2>4. CASE StaticTextureType = Unknown
    <3>1. d.back \in Places /\ d.back \notin Replacing
      BY DecodeWays DEF Places, SetPlaces, Replacing
    <3> QED BY <1>0, <2>1, <2>3, <2>4, <3>1, TypesMoveOn DEF Statics, Job
  <2>5. CASE StaticTextureType # Unknown
    <3>1. d.replace \in Places
      BY DecodeWays DEF Places, SetPlaces
    <3>2. at' = [at EXCEPT ![t] = d.replace]
      BY <2>1, <2>5 DEF Goto
    <3>3. at' \in [Loaders -> Places]
      BY <1>0, <3>1, <3>2
    <3>4. ASSUME NEW u \in Loaders, at'[u] \in Replacing PROVE eTexType'[u] \in Types
      <4>1. CASE u = t
        BY <1>0, <2>3, <2>5, <4>1
      <4>2. CASE u # t
        BY <1>0, <2>3, <3>2, <3>4, <4>2 DEF ImgTypeOK, Replacing
      <4> QED BY <4>1, <4>2
    <3> QED BY <1>0, <2>1, <2>3, <3>3, <3>4 DEF ImgTypeOK, Statics, Job, Replacing
  <2> QED BY <2>4, <2>5
<1>14. ASSUME NEW t \in Loaders, Replace(t) PROVE ImgTypeOK'
  <2>1. PICK d \in Decodes : at[t] = d.replace /\ Goto(t, d.back)
    BY <1>14 DEF Replace
  <2>2. d.back \in Places /\ d.back \notin Replacing
    BY DecodeWays DEF Places, SetPlaces, Replacing
  <2>3. shown' \in [Loaders -> Pictures] /\ StaticTextureType' = Unknown
    BY <1>0, <1>p, <1>14 DEF Replace
  <2>4. UNCHANGED <<AlreadyHookingIT3, StaticFileBuffer, Job, eTexType, donor, moved>>
    BY <1>14 DEF Replace
  <2> QED BY <1>0, <2>1, <2>2, <2>3, <2>4, TypesMoveOn DEF Job
<1>15. CASE UNCHANGED imgVars
  BY <1>15 DEF imgVars, ImgTypeOK
<1> QED BY <1>1, <1>2, <1>3, <1>4, <1>5, <1>6, <1>7, <1>8, <1>9, <1>10, <1>11,
           <1>12, <1>13, <1>14, <1>15 DEF ImgNext

\* The variables of the texture loader keep their types, and a picture is put over
\* the decoded one with a known type only.
THEOREM ImgTypes == ImgSpec => []ImgTypeOK
BY InitTypes, NextTypes, PTL DEF ImgSpec

-----------------------------------------------------------------------------
(* A load that no other overlaps.                                          *)

Busy(t) == at[t] \notin {"idle", "done"}

\* The places in the way of a container and of a picture of its own, in order.
InIt3 == {"it3 donor", "it3 decode", "it3 replace", "it3 reset", "it3 flag"}
InItp == {"itp read", "itp size", "itp set", "donor decode", "donor replace", "donor reset"}
Resets == {"it3 reset", "donor reset"}

\* Where the buffer holds what the load has read.
Filled == {"it3 header", "it3 donor", "it3 decode", "it3 replace",
           "itp size", "itp set", "donor decode", "donor replace"}

\* The static variables belong to the load, and tell where it is.
StaticsTell(t) ==
  /\ AlreadyHookingIT3 <=> at[t] \in FlagPlaces
  /\ at[t] \notin Resets =>
       StaticTextureType = IF at[t] \in SetPlaces THEN job[t].type ELSE Unknown
  /\ at[t] \in Filled => StaticFileBuffer = [by |-> t, file |-> job[t]]

\* Which jobs get to a place, and what the local variables are there.
PlaceTells(t) ==
  /\ at[t] \in {"it3 read", "it3 header", "itp"} => ~moved[t]
  /\ at[t] \in {"it3 read", "it3 header"} => job[t].via = "it3" /\ job[t].exists
  /\ at[t] = "itp" /\ job[t].via = "it3" => job[t].type = Unknown
  /\ at[t] \in InIt3 => /\ job[t].via = "it3" /\ job[t].exists /\ job[t].type # Unknown
                        /\ job[t].readable => donor[t] = job[t].donor
  /\ at[t] \in {"it3 decode", "it3 replace"} => donor[t]
  /\ at[t] \in InItp => job[t].via = "itp" /\ job[t].type # Unknown
  /\ at[t] \in {"itp read", "itp size", "itp set", "it3 replace", "donor replace"} =>
       eTexType[t] = job[t].type
  /\ at[t] = "itp set" => job[t].readable /\ donor[t] = job[t].donor
  /\ at[t] \in {"donor decode", "donor replace"} => job[t].readable /\ job[t].donor
  /\ at[t] = "own decode" => job[t].type = Unknown
  /\ at[t] # "own replace"
  /\ at[t] = "it3 replace" => shown[t] = "donor"
  /\ at[t] \in Resets \cup {"it3 flag"} => shown[t] \in Wanted(job[t])

\* Another load that begins marks both.
AloneInv == \A t, u \in Loaders :
  Busy(t) /\ ~loadOverlapped[t] /\ Busy(u) => u = t
SoloInv == \A t \in Loaders :
  Busy(t) /\ ~loadOverlapped[t] => StaticsTell(t) /\ PlaceTells(t)
IdleInv == \A t \in Loaders : at[t] = "idle" => ~moved[t]

LoadInv == AloneInv /\ SoloInv /\ IdleInv /\ OnlyOverlapExchanges

LEMMA InitLoadInv == ImgInit => LoadInv
BY DEF ImgInit, LoadInv, AloneInv, SoloInv, IdleInv, OnlyOverlapExchanges, Busy

\* A step of a load in progress keeps the invariant if it does when no other is in
\* progress: every other load in progress has been marked.
LEMMA LoadMovesOn ==
  ASSUME ImgTypeOK, LoadInv, NEW t \in Loaders, NEW place \in Places, Goto(t, place),
         Busy(t), place # "idle", UNCHANGED Job,
         \A u \in Loaders \ {t} : shown'[u] = shown[u] /\ moved'[u] = moved[u],
         ~loadOverlapped[t] /\ StaticsTell(t) /\ PlaceTells(t) =>
           IF place = "done" THEN shown'[t] \in Wanted(job[t])
           ELSE StaticsTell(t)' /\ PlaceTells(t)'
  PROVE  LoadInv'
<1>1. /\ at'[t] = place
      /\ \A u \in Loaders \ {t} : at'[u] = at[u]
      /\ job' = job /\ loadOverlapped' = loadOverlapped
  BY DEF ImgTypeOK, Goto, Job
<1>2. \A u \in Loaders : Busy(u)' => Busy(u)
  BY <1>1 DEF Busy
<1>3. AloneInv'
  BY <1>1, <1>2 DEF LoadInv, AloneInv
<1>4. ASSUME NEW u \in Loaders, Busy(u)', ~loadOverlapped'[u]
      PROVE  StaticsTell(u)' /\ PlaceTells(u)'
  <2>1. u = t
    BY <1>1, <1>2, <1>4 DEF LoadInv, AloneInv
  <2> QED BY <1>1, <1>4, <2>1 DEF LoadInv, SoloInv, Busy
<1>5. IdleInv'
  BY <1>1 DEF LoadInv, IdleInv
<1>6. ASSUME NEW u \in Loaders, at'[u] = "done", ~loadOverlapped'[u]
      PROVE  shown'[u] \in Wanted(job'[u])
  <2>1. CASE u = t
    BY <1>1, <1>6, <2>1 DEF LoadInv, SoloInv
  <2>2. CASE u # t
    BY <1>1, <1>6, <2>2 DEF LoadInv, OnlyOverlapExchanges
  <2> QED BY <2>1, <2>2
<1>7. SoloInv' /\ OnlyOverlapExchanges'
  BY <1>4, <1>6 DEF SoloInv, OnlyOverlapExchanges
<1> QED BY <1>3, <1>5, <1>7 DEF LoadInv

\* A load that begins while none is in progress finds the static variables unset.
LEMMA CallKeepsLoads ==
  ASSUME ImgTypeOK, SetInv, LoadInv, NEW t \in Loaders, NEW j \in Jobs, Call(t, j)
  PROVE  LoadInv'
<1> DEFINE first == IF j.via = "it3" /\ j.exists THEN "it3 read" ELSE "itp"
<1>1. /\ at[t] = "idle" /\ at'[t] = first /\ job'[t] = j
      /\ \A u \in Loaders \ {t} : at'[u] = at[u] /\ job'[u] = job[u]
      /\ loadOverlapped' = [u \in Loaders |->
           IF u = t THEN Active # {} ELSE u \in Active \/ loadOverlapped[u]]
      /\ UNCHANGED <<Statics, StaticFileBuffer, eTexType, donor, moved, shown>>
  BY DEF Call, Goto, ImgTypeOK
<1>2. /\ \A u \in Loaders \ {t} : Busy(u)' <=> Busy(u)
      /\ \A u \in Loaders : u \in Active <=> Busy(u)
      /\ ~Busy(t)
  BY <1>1 DEF Busy, Active
<1>3. ASSUME NEW u \in Loaders, Busy(u)', ~loadOverlapped'[u]
      PROVE  u = t /\ Active = {}
  BY <1>1, <1>2, <1>3
<1>4. AloneInv'
  <2> SUFFICES ASSUME NEW u \in Loaders, NEW v \in Loaders,
                      Busy(u)', ~loadOverlapped'[u], Busy(v)'
               PROVE  v = u
    BY DEF AloneInv
  <2>1. u = t /\ Active = {}
    BY <1>3
  <2> QED BY <1>2, <2>1
<1>5. ASSUME Active = {} PROVE StaticsTell(t)' /\ PlaceTells(t)'
  <2>1. StaticTextureType = Unknown /\ AlreadyHookingIT3 = FALSE
    BY <1>5, <1>2 DEF SetInv, SetByPlaces, Busy, SetPlaces, FlagPlaces
  <2>2. ~moved[t]
    BY <1>1 DEF LoadInv, IdleInv
  <2>3. first = "itp" /\ j.via = "it3" => j.type = Unknown
    BY JobFields
  <2>4. StaticsTell(t)'
    BY <1>1, <2>1 DEF StaticsTell, Statics, Resets, Filled, SetPlaces, FlagPlaces
  <2>5. PlaceTells(t)'
    BY <1>1, <2>2, <2>3 DEF PlaceTells, InIt3, InItp, Resets
  <2> QED BY <2>4, <2>5
<1>6. SoloInv'
  BY <1>3, <1>5 DEF SoloInv
<1>7. IdleInv' /\ OnlyOverlapExchanges'
  BY <1>1 DEF LoadInv, IdleInv, OnlyOverlapExchanges
<1> QED BY <1>4, <1>6, <1>7 DEF LoadInv

\* A return touches no load in progress.
LEMMA ReturnKeepsLoads ==
  ASSUME ImgTypeOK, LoadInv, NEW t \in Loaders, Returned(t)
  PROVE  LoadInv'
<1>1. /\ at[t] = "done" /\ at'[t] = "idle" /\ moved'[t] = FALSE
      /\ \A u \in Loaders \ {t} :
           /\ at'[u] = at[u] /\ job'[u] = job[u] /\ eTexType'[u] = eTexType[u]
           /\ donor'[u] = donor[u] /\ moved'[u] = moved[u] /\ shown'[u] = shown[u]
           /\ loadOverlapped'[u] = loadOverlapped[u]
      /\ UNCHANGED <<AlreadyHookingIT3, StaticTextureType>>
      /\ StaticFileBuffer.by # t => UNCHANGED StaticFileBuffer
  BY DEF Returned, Goto, Statics, ImgTypeOK
<1>2. \A u \in Loaders : Busy(u)' <=> u # t /\ Busy(u)
  BY <1>1 DEF Busy
<1>3. AloneInv' /\ IdleInv' /\ OnlyOverlapExchanges'
  BY <1>1, <1>2 DEF LoadInv, AloneInv, IdleInv, OnlyOverlapExchanges
<1>4. ASSUME NEW u \in Loaders, Busy(u)', ~loadOverlapped'[u]
      PROVE  StaticsTell(u)' /\ PlaceTells(u)'
  <2>1. u # t /\ StaticsTell(u) /\ PlaceTells(u)
    BY <1>1, <1>2, <1>4 DEF LoadInv, SoloInv
  <2>2. at[u] \in Filled => UNCHANGED StaticFileBuffer
    BY <1>1, <2>1 DEF StaticsTell
  <2>3. StaticsTell(u)'
    BY <1>1, <2>1, <2>2 DEF StaticsTell
  <2>4. PlaceTells(u)'
    BY <1>1, <2>1 DEF PlaceTells
  <2> QED BY <2>3, <2>4
<1> QED BY <1>3, <1>4 DEF LoadInv, SoloInv

LEMMA FilledByItself ==
  ASSUME NEW t \in Loaders, StaticsTell(t), at[t] \in Filled
  PROVE  StaticFileBuffer.by = t /\ StaticFileBuffer.file = job[t]
<1>1. StaticFileBuffer = [by |-> t, file |-> job[t]]
  BY DEF StaticsTell
<1> QED BY <1>1

\* The steps of a container, on the way to what the texture is to show.
LEMMA It3KeepsLoads ==
  ASSUME ImgTypeOK, LoadInv, NEW t \in Loaders,
         It3Read(t) \/ It3Header(t) \/ It3Donor(t) \/ It3Reset(t) \/ It3Flag(t)
  PROVE  LoadInv'
<1> USE DEF Busy, Job, Statics
<1>0. job[t] \in Jobs /\ \A place \in Places : Goto(t, place) => at'[t] = place
  BY DEF ImgTypeOK, Goto
<1>p. \A place \in {"it3 header", "it3 donor", "it3 decode", "it3 reset", "it3 flag",
                    "itp", "done"} : place \in Places
  BY DEF Places, SetPlaces, FlagPlaces
<1>1. CASE It3Read(t)
  <2>1. at[t] = "it3 read" /\ Goto(t, "it3 header") /\ at'[t] = "it3 header"
    BY <1>0, <1>1, <1>p DEF It3Read
  <2>2. ASSUME StaticsTell(t), PlaceTells(t) PROVE StaticsTell(t)' /\ PlaceTells(t)'
    BY <1>1, <2>1, <2>2
       DEF It3Read, StaticsTell, PlaceTells, InIt3, InItp, Resets, SetPlaces, FlagPlaces
  <2> QED BY <1>1, <1>p, <2>1, <2>2, LoadMovesOn DEF It3Read
<1>2. CASE It3Header(t)
  <2>1. at[t] = "it3 header" /\ UNCHANGED <<job, moved, shown, loadOverlapped>>
    BY <1>2 DEF It3Header
  <2>2. CASE StaticFileBuffer.file.type = Unknown
    <3>1. Goto(t, "itp") /\ at'[t] = "itp"
      BY <1>0, <1>2, <1>p, <2>2 DEF It3Header
    <3>2. ASSUME StaticsTell(t), PlaceTells(t) PROVE StaticsTell(t)' /\ PlaceTells(t)'
      <4>1. job[t].type = Unknown
        BY <2>1, <2>2, <3>2, FilledByItself DEF Filled
      <4> QED BY <1>2, <2>1, <2>2, <3>1, <3>2, <4>1
              DEF It3Header, StaticsTell, PlaceTells, InIt3, InItp, Resets, Filled,
                  SetPlaces, FlagPlaces
    <3> QED BY <1>2, <1>p, <2>1, <3>1, <3>2, LoadMovesOn
  <2>3. CASE StaticFileBuffer.file.type # Unknown
    <3>1. Goto(t, "it3 donor") /\ at'[t] = "it3 donor"
      BY <1>0, <1>2, <1>p, <2>3 DEF It3Header
    <3>2. ASSUME StaticsTell(t), PlaceTells(t) PROVE StaticsTell(t)' /\ PlaceTells(t)'
      <4>1. StaticFileBuffer.by = t /\ StaticFileBuffer.file = job[t]
        BY <2>1, <3>2, FilledByItself DEF Filled
      <4>2. job[t].readable => donor'[t] = job[t].donor
        BY <1>2, <2>3, <4>1 DEF It3Header, ImgTypeOK
      <4>3. /\ StaticTextureType' = job[t].type
            /\ UNCHANGED <<AlreadyHookingIT3, StaticFileBuffer>>
        BY <1>2, <2>3, <4>1 DEF It3Header
      <4> QED BY <2>1, <2>3, <3>1, <3>2, <4>1, <4>2, <4>3
              DEF StaticsTell, PlaceTells, InIt3, InItp, Resets, Filled,
                  SetPlaces, FlagPlaces
    <3> QED BY <1>2, <1>p, <2>1, <3>1, <3>2, LoadMovesOn
  <2> QED BY <2>2, <2>3
<1>3. CASE It3Donor(t)
  <2>1. /\ at[t] = "it3 donor" /\ AlreadyHookingIT3' = TRUE
        /\ UNCHANGED <<StaticTextureType, StaticFileBuffer, job, loadOverlapped,
                       eTexType, donor, moved>>
        /\ \A u \in Loaders \ {t} : shown'[u] = shown[u]
    BY <1>3 DEF It3Donor, ImgTypeOK
  <2>2. CASE donor[t]
    <3>1. Goto(t, "it3 decode") /\ at'[t] = "it3 decode"
      BY <1>0, <1>3, <1>p, <2>2 DEF It3Donor
    <3>2. ASSUME StaticsTell(t), PlaceTells(t) PROVE StaticsTell(t)' /\ PlaceTells(t)'
      BY <2>1, <2>2, <3>1, <3>2
         DEF StaticsTell, PlaceTells, InIt3, InItp, Resets, Filled, SetPlaces, FlagPlaces
    <3> QED BY <1>p, <2>1, <3>1, <3>2, LoadMovesOn
  <2>3. CASE ~donor[t]
    <3>1. Goto(t, "it3 reset") /\ at'[t] = "it3 reset" /\ shown'[t] = "nothing"
      BY <1>0, <1>3, <1>p, <2>3 DEF It3Donor, ImgTypeOK
    <3>2. ASSUME StaticsTell(t), PlaceTells(t) PROVE StaticsTell(t)' /\ PlaceTells(t)'
      <4>1. "nothing" \in Wanted(job[t])
        BY <1>0, <2>1, <2>3, <3>2 DEF PlaceTells, InIt3, Wanted
      <4> QED BY <2>1, <3>1, <3>2, <4>1
         DEF StaticsTell, PlaceTells, InIt3, InItp, Resets, Filled, SetPlaces, FlagPlaces
    <3> QED BY <1>p, <2>1, <3>1, <3>2, LoadMovesOn
  <2> QED BY <2>2, <2>3
<1>4. CASE It3Reset(t)
  <2>1. at[t] = "it3 reset" /\ Goto(t, "it3 flag") /\ at'[t] = "it3 flag"
    BY <1>0, <1>4, <1>p DEF It3Reset
  <2>2. ASSUME StaticsTell(t), PlaceTells(t) PROVE StaticsTell(t)' /\ PlaceTells(t)'
    BY <1>4, <2>1, <2>2
       DEF It3Reset, StaticsTell, PlaceTells, InIt3, InItp, Resets, Filled,
           SetPlaces, FlagPlaces
  <2> QED BY <1>4, <1>p, <2>1, <2>2, LoadMovesOn DEF It3Reset
<1>5. CASE It3Flag(t)
  <2>1. at[t] = "it3 flag" /\ Goto(t, "done")
    BY <1>5 DEF It3Flag
  <2>2. ASSUME PlaceTells(t) PROVE shown'[t] \in Wanted(job[t])
    BY <1>5, <2>1, <2>2 DEF It3Flag, PlaceTells
  <2> QED BY <1>5, <1>p, <2>1, <2>2, LoadMovesOn DEF It3Flag
<1> QED BY <1>1, <1>2, <1>3, <1>4, <1>5

\* The steps of LoadITP with a file of its own.
LEMMA ItpKeepsLoads ==
  ASSUME ImgTypeOK, LoadInv, NEW t \in Loaders,
         LoadITP(t) \/ ItpRead(t) \/ ItpSize(t) \/ ItpSet(t) \/ ItpReset(t)
  PROVE  LoadInv'
<1> USE DEF Busy, Job, Statics
<1>0. job[t] \in Jobs /\ \A place \in Places : Goto(t, place) => at'[t] = place
  BY DEF ImgTypeOK, Goto
<1>p. \A place \in {"own decode", "itp read", "itp size", "itp set", "donor decode",
                    "donor reset", "done"} : place \in Places
  BY DEF Places, SetPlaces
<1>1. CASE LoadITP(t)
  <2>1. /\ at[t] = "itp"
        /\ UNCHANGED <<Statics, StaticFileBuffer, job, loadOverlapped, donor, moved>>
        /\ \A u \in Loaders \ {t} : shown'[u] = shown[u]
        /\ eTexType'[t] = Header(t)
    BY <1>1 DEF LoadITP, GoesOn, ImgTypeOK
  <2>2. ASSUME StaticsTell(t), PlaceTells(t)
        PROVE  /\ ~AlreadyHookingIT3 /\ ~moved[t]
               /\ job[t].via = "it3" => job[t].type = Unknown
               /\ Header(t) = job[t].type
    BY <2>1, <2>2 DEF StaticsTell, PlaceTells, FlagPlaces, Header
  <2>3. CASE Goto(t, "own decode") /\ Header(t) = Unknown
    <3>1. at'[t] = "own decode"
      BY <1>0, <1>p, <2>3
    <3>2. ASSUME StaticsTell(t), PlaceTells(t) PROVE StaticsTell(t)' /\ PlaceTells(t)'
      BY <2>1, <2>2, <2>3, <3>1, <3>2
         DEF StaticsTell, PlaceTells, InIt3, InItp, Resets, Filled, SetPlaces, FlagPlaces
    <3> QED BY <1>p, <2>1, <2>3, <3>1, <3>2, LoadMovesOn
  <2>4. CASE Goto(t, "itp read") /\ ~AlreadyHookingIT3 /\ Header(t) # Unknown
    <3>1. at'[t] = "itp read"
      BY <1>0, <1>p, <2>4
    <3>2. ASSUME StaticsTell(t), PlaceTells(t) PROVE StaticsTell(t)' /\ PlaceTells(t)'
      <4>1. job[t].via = "itp"
        BY <1>0, <2>2, <2>4, <3>2, JobFields
      <4> QED BY <2>1, <2>2, <2>4, <3>1, <3>2, <4>1
         DEF StaticsTell, PlaceTells, InIt3, InItp, Resets, Filled, SetPlaces, FlagPlaces
    <3> QED BY <1>p, <2>1, <2>4, <3>1, <3>2, LoadMovesOn
  <2>5. CASE Goto(t, "done") /\ (AlreadyHookingIT3 \/ Header(t) = Unknown)
                             /\ ~(Header(t) = Unknown /\ ~moved[t])
    <3>1. ~(StaticsTell(t) /\ PlaceTells(t))
      BY <2>2, <2>5
    <3> QED BY <1>p, <2>1, <2>5, <3>1, LoadMovesOn
  <2> QED BY <1>1, <2>3, <2>4, <2>5 DEF LoadITP, GoesOn
<1>2. CASE ItpRead(t)
  <2>1. /\ at[t] = "itp read" /\ Goto(t, "itp size") /\ at'[t] = "itp size"
        /\ StaticFileBuffer' = [by |-> t, file |-> job[t]]
        /\ UNCHANGED <<Statics, Job, donor, eTexType, shown>>
        /\ \A u \in Loaders \ {t} : moved'[u] = moved[u]
    BY <1>0, <1>2, <1>p DEF ItpRead, ImgTypeOK
  <2>2. ASSUME StaticsTell(t), PlaceTells(t)
        PROVE  StaticsTell(t)' /\ PlaceTells(t)'
    BY <2>1, <2>2
       DEF StaticsTell, PlaceTells, InIt3, InItp, Resets, SetPlaces, FlagPlaces
  <2> QED BY <1>p, <2>1, <2>2, LoadMovesOn
<1>3. CASE ItpSize(t)
  <2>1. /\ at[t] = "itp size"
        /\ UNCHANGED <<Statics, StaticFileBuffer, Job, eTexType>>
        /\ \A u \in Loaders \ {t} : shown'[u] = shown[u] /\ moved'[u] = moved[u]
    BY <1>3 DEF ItpSize, ImgTypeOK
  <2>2. ASSUME StaticsTell(t), PlaceTells(t)
        PROVE  /\ StaticFileBuffer.file = job[t]
               /\ job[t].via = "itp" /\ job[t].type # Unknown
               /\ CanDecode(t) <=> job[t].readable
    <3>1. StaticFileBuffer.file = job[t]
      BY <2>1, <2>2, FilledByItself DEF Filled
    <3>2. eTexType[t] = job[t].type /\ job[t].via = "itp" /\ job[t].type # Unknown
      BY <2>1, <2>2 DEF PlaceTells, InItp
    <3> QED BY <3>1, <3>2 DEF CanDecode
  <2>3. CASE CanDecode(t)
    <3>1. /\ Goto(t, "itp set") /\ at'[t] = "itp set" /\ UNCHANGED <<shown, moved>>
          /\ donor'[t] = StaticFileBuffer.file.donor
      BY <1>0, <1>3, <1>p, <2>3 DEF ItpSize, ImgTypeOK
    <3>2. ASSUME StaticsTell(t), PlaceTells(t) PROVE StaticsTell(t)' /\ PlaceTells(t)'
      BY <2>1, <2>2, <2>3, <3>1, <3>2
         DEF StaticsTell, PlaceTells, InIt3, InItp, Resets, Filled, SetPlaces, FlagPlaces
    <3> QED BY <1>p, <2>1, <3>1, <3>2, LoadMovesOn
  <2>4. CASE ~CanDecode(t)
    <3>1. Goto(t, "done") /\ shown'[t] = "nothing"
      BY <1>3, <2>4 DEF ItpSize, ImgTypeOK
    <3>2. ASSUME StaticsTell(t), PlaceTells(t) PROVE shown'[t] \in Wanted(job[t])
      BY <2>2, <2>4, <3>1, <3>2 DEF Wanted
    <3> QED BY <1>p, <2>1, <3>1, <3>2, LoadMovesOn
  <2> QED BY <2>3, <2>4
<1>4. CASE ItpSet(t)
  <2>1. /\ at[t] = "itp set" /\ StaticTextureType' = eTexType[t]
        /\ UNCHANGED <<AlreadyHookingIT3, StaticFileBuffer, Job, eTexType, donor, moved>>
        /\ \A u \in Loaders \ {t} : shown'[u] = shown[u]
    BY <1>4 DEF ItpSet, ImgTypeOK
  <2>2. CASE donor[t]
    <3>1. Goto(t, "donor decode") /\ at'[t] = "donor decode"
      BY <1>0, <1>4, <1>p, <2>2 DEF ItpSet
    <3>2. ASSUME StaticsTell(t), PlaceTells(t) PROVE StaticsTell(t)' /\ PlaceTells(t)'
      BY <2>1, <2>2, <3>1, <3>2
         DEF StaticsTell, PlaceTells, InIt3, InItp, Resets, Filled, SetPlaces, FlagPlaces
    <3> QED BY <1>p, <2>1, <3>1, <3>2, LoadMovesOn
  <2>3. CASE ~donor[t]
    <3>1. Goto(t, "donor reset") /\ at'[t] = "donor reset" /\ shown'[t] = "nothing"
      BY <1>0, <1>4, <1>p, <2>3 DEF ItpSet, ImgTypeOK
    <3>2. ASSUME StaticsTell(t), PlaceTells(t) PROVE StaticsTell(t)' /\ PlaceTells(t)'
      <4>1. "nothing" \in Wanted(job[t])
        BY <1>0, <2>1, <2>3, <3>2 DEF PlaceTells, InItp, Wanted
      <4> QED BY <2>1, <3>1, <3>2, <4>1
         DEF StaticsTell, PlaceTells, InIt3, InItp, Resets, Filled, SetPlaces, FlagPlaces
    <3> QED BY <1>p, <2>1, <3>1, <3>2, LoadMovesOn
  <2> QED BY <2>2, <2>3
<1>5. CASE ItpReset(t)
  <2>1. at[t] = "donor reset" /\ Goto(t, "done")
    BY <1>5 DEF ItpReset
  <2>2. ASSUME PlaceTells(t) PROVE shown'[t] \in Wanted(job[t])
    BY <1>5, <2>1, <2>2 DEF ItpReset, PlaceTells, Resets
  <2> QED BY <1>5, <1>p, <2>1, <2>2, LoadMovesOn DEF ItpReset
<1> QED BY <1>1, <1>2, <1>3, <1>4, <1>5

\* The hook on the decoder: an ITP of the game shows itself, a donor what is put
\* over it.
LEMMA DecoderKeepsLoads ==
  ASSUME ImgTypeOK, LoadInv, NEW t \in Loaders, Decode(t) \/ Replace(t)
  PROVE  LoadInv'
<1> USE DEF Busy, Job, Statics
<1>0. job[t] \in Jobs /\ \A place \in Places : Goto(t, place) => at'[t] = place
  BY DEF ImgTypeOK, Goto
<1>1. CASE Decode(t)
  <2>1. PICK d \in Decodes :
          /\ at[t] = d.call
          /\ eTexType' = [eTexType EXCEPT ![t] = StaticTextureType]
          /\ shown' = [shown EXCEPT ![t] = d.plain]
          /\ Goto(t, IF StaticTextureType # Unknown THEN d.replace ELSE d.back)
          /\ UNCHANGED <<Statics, StaticFileBuffer, Job, donor, moved>>
    BY <1>1 DEF Decode
  <2>2. /\ eTexType'[t] = StaticTextureType /\ shown'[t] = d.plain
        /\ \A u \in Loaders \ {t} : shown'[u] = shown[u]
    BY <2>1 DEF ImgTypeOK
  <2>3. d.replace \in Places /\ d.back \in Places
    BY DecodeWays DEF Places, SetPlaces
  <2>4. d.call \notin {"idle", "done"} /\ d.replace # "idle" /\ d.back # "idle" /\ d.replace # "done"
    BY DecodeWays
  <2>5. CASE StaticTextureType # Unknown
    <3>1. Goto(t, d.replace) /\ at'[t] = d.replace
      BY <1>0, <2>1, <2>3, <2>5
    <3>2. ASSUME StaticsTell(t), PlaceTells(t) PROVE StaticsTell(t)' /\ PlaceTells(t)'
      <4>1. at[t] # "own decode"
        BY <2>5, <3>2 DEF StaticsTell, Resets, SetPlaces
      <4>2. \/ at[t] = "it3 decode" /\ at'[t] = "it3 replace" /\ d.plain = "donor"
            \/ at[t] = "donor decode" /\ at'[t] = "donor replace"
        BY <2>1, <3>1, <4>1, DecodeWays
      <4>3. StaticTextureType = job[t].type
        BY <3>2, <4>2 DEF StaticsTell, Resets, SetPlaces
      <4>4. StaticsTell(t)'
        BY <2>1, <3>2, <4>2, <4>3
           DEF StaticsTell, Resets, Filled, SetPlaces, FlagPlaces
      <4>5. PlaceTells(t)'
        BY <2>1, <2>2, <3>2, <4>2, <4>3 DEF PlaceTells, InIt3, InItp, Resets
      <4> QED BY <4>4, <4>5
    <3> QED BY <2>1, <2>2, <2>3, <2>4, <3>1, <3>2, LoadMovesOn
  <2>6. CASE StaticTextureType = Unknown
    <3>1. Goto(t, d.back)
      BY <2>1, <2>6
    <3>2. ASSUME StaticsTell(t), PlaceTells(t)
          PROVE  d.back = "done" /\ shown'[t] \in Wanted(job[t])
      <4>1. at[t] \notin {"it3 decode", "donor decode"}
        BY <2>6, <3>2 DEF StaticsTell, PlaceTells, Resets, SetPlaces, InIt3, InItp
      <4>2. at[t] = "own decode" /\ d.back = "done" /\ d.plain = "own"
        BY <2>1, <4>1, DecodeWays
      <4>3. job[t].type = Unknown
        BY <3>2, <4>2 DEF PlaceTells
      <4>4. "own" \in Wanted(job[t])
        BY <4>3 DEF Wanted
      <4> QED BY <2>2, <4>2, <4>4
    <3> QED BY <2>1, <2>2, <2>3, <2>4, <3>1, <3>2, LoadMovesOn
  <2> QED BY <2>5, <2>6
<1>2. CASE Replace(t)
  <2>1. PICK d \in Decodes :
          /\ at[t] = d.replace
          /\ shown' = [shown EXCEPT ![t] =
               IF ~CanDecode(t) THEN @ ELSE IF StaticFileBuffer.by = t THEN "own" ELSE "other"]
          /\ StaticTextureType' = Unknown
          /\ Goto(t, d.back)
          /\ UNCHANGED <<AlreadyHookingIT3, StaticFileBuffer, Job, eTexType, donor, moved>>
    BY <1>2 DEF Replace
  <2>2. /\ shown'[t] = IF ~CanDecode(t) THEN shown[t]
                       ELSE IF StaticFileBuffer.by = t THEN "own" ELSE "other"
        /\ \A u \in Loaders \ {t} : shown'[u] = shown[u]
    BY <2>1 DEF ImgTypeOK
  <2>3. d.back \in Places /\ d.back # "idle" /\ d.replace \notin {"idle", "done"}
    BY DecodeWays DEF Places, SetPlaces
  <2>4. at'[t] = d.back
    BY <1>0, <2>1, <2>3
  <2>5. ASSUME StaticsTell(t), PlaceTells(t)
        PROVE  /\ d.back # "done"
               /\ StaticsTell(t)' /\ PlaceTells(t)'
    <3>1. \/ at[t] = "it3 replace" /\ at'[t] = "it3 reset" /\ d.back = "it3 reset"
          \/ at[t] = "donor replace" /\ at'[t] = "donor reset" /\ d.back = "donor reset"
      BY <2>1, <2>4, <2>5, DecodeWays DEF PlaceTells
    <3>2. StaticFileBuffer.by = t /\ StaticFileBuffer.file = job[t]
      BY <2>5, <3>1, FilledByItself DEF Filled
    <3>3. eTexType[t] = job[t].type
      BY <2>5, <3>1 DEF PlaceTells
    <3>4. CanDecode(t) <=> job[t].readable
      BY <3>2, <3>3 DEF CanDecode
    <3>5. shown'[t] = IF job[t].readable THEN "own" ELSE shown[t]
      BY <2>2, <3>2, <3>4
    <3>6. shown'[t] \in Wanted(job[t])
      <4>1. CASE at[t] = "it3 replace"
        <5>1. /\ job[t].via = "it3" /\ job[t].exists /\ job[t].type # Unknown
              /\ job[t].readable => job[t].donor
              /\ shown[t] = "donor"
          BY <1>0, <2>5, <4>1, JobFields DEF PlaceTells, InIt3, ImgTypeOK
        <5> QED BY <3>5, <5>1 DEF Wanted
      <4>2. CASE at[t] = "donor replace"
        <5>1. /\ job[t].via = "itp" /\ job[t].type # Unknown
              /\ job[t].readable /\ job[t].donor
          BY <2>5, <4>2 DEF PlaceTells, InItp
        <5> QED BY <3>5, <5>1 DEF Wanted
      <4> QED BY <3>1, <4>1, <4>2
    <3>7. StaticsTell(t)'
      BY <2>1, <2>5, <3>1 DEF StaticsTell, Resets, Filled, SetPlaces, FlagPlaces
    <3>8. PlaceTells(t)'
      BY <2>1, <2>5, <3>1, <3>6 DEF PlaceTells, InIt3, InItp, Resets
    <3> QED BY <3>1, <3>7, <3>8
  <2> QED BY <2>1, <2>2, <2>3, <2>5, LoadMovesOn
<1> QED BY <1>1, <1>2

LEMMA NextLoadInv == ImgTypeOK /\ SetInv /\ LoadInv /\ [ImgNext]_imgVars => LoadInv'
<1> SUFFICES ASSUME ImgTypeOK, SetInv, LoadInv, [ImgNext]_imgVars PROVE LoadInv'
  OBVIOUS
<1>1. CASE UNCHANGED imgVars
  <2>1. \A t \in Loaders : /\ StaticsTell(t)' <=> StaticsTell(t)
                           /\ PlaceTells(t)' <=> PlaceTells(t)
                           /\ Busy(t)' <=> Busy(t)
    BY <1>1 DEF imgVars, StaticsTell, PlaceTells, Busy
  <2> QED BY <1>1, <2>1
          DEF imgVars, LoadInv, AloneInv, SoloInv, IdleInv, OnlyOverlapExchanges
<1>2. CASE ImgNext
  BY <1>2, CallKeepsLoads, ReturnKeepsLoads, It3KeepsLoads, ItpKeepsLoads,
     DecoderKeepsLoads DEF ImgNext
<1> QED BY <1>1, <1>2

\* A load that no other overlaps shows its own picture if there is one that can be
\* decoded and a donor for it, and never that of another load; what failed loads and
\* loads that overlapped each other have left behind does not disturb it.
THEOREM ExchangesAreOverlaps == ImgSpec => []OnlyOverlapExchanges
<1>1. LoadInv => OnlyOverlapExchanges
  BY DEF LoadInv
<1>2. ImgSpec => []LoadInv
  BY InitLoadInv, NextLoadInv, ImgTypes, SetInvariance, PTL DEF ImgSpec
<1> QED BY <1>1, <1>2, PTL

-----------------------------------------------------------------------------
(* Files and textures side by side.                                        *)

\* Neither takes a step that it could not take alone.
LEMMA AssetParts ==
  AssetsSpec => Spec /\ ImgSpec
<1>1. AssetsInit => Init /\ ImgInit
  BY DEF AssetsInit
<1>2. [AssetsNext]_assetVars => [Next]_vars /\ [ImgNext]_imgVars
  BY DEF AssetsNext, assetVars
<1>3. QED
  BY <1>1, <1>2, PTL DEF AssetsSpec, Spec, ImgSpec

\* Whatever is loaded, and whoever overlaps whom: what the hooks on files and on
\* textures promise holds at once.
THEOREM AssetsAreRight ==
  AssetsSpec => /\ [](OnlyOverlapMisleads /\ RacesHideNoFile)
                /\ [](OnlyOverlapExchanges /\ NothingRemains)
BY AssetParts, OverlapAlone, NoFileHidden, ExchangesAreOverlaps, NothingLeft, PTL
=============================================================================
