------------------------------ MODULE MCAssets ------------------------------
(***************************************************************************)
(* The hooks on what the game loads: files and textures.  They share no    *)
(* state: a behaviour is one of either, and the other stays as it begins.  *)
(***************************************************************************)
EXTENDS FileLoader, ImgLoader

VARIABLE part  \* "files" or "textures"

assetVars == <<vars, imgVars, part>>

-----------------------------------------------------------------------------
(* Two file names that share neither half and the two mixtures of them.    *)

CONSTANTS half1, half2

File(dir, h, l) == [root |-> "rom", dir |-> dir, name |-> [head |-> h, tail |-> l]]

\* No files but the Japanese ones, an English copy of one, English copies of
\* both names and of a mixture, and everything.
MCCartridges ==
  LET japanese == {File("data", half1, half1), File("data", half2, half2)} IN
  { japanese,
    japanese \cup {File("data_en", half1, half1), File("data_patch", half1, half1)},
    japanese \cup {File("data_en", half1, half1), File("data_en", half2, half2), File("data_en", half1, half2)},
    {File(dir, h, l) : dir \in Dirs, h \in Halves, l \in Halves} }

\* The same two names under every directory, and a bypass.
MCCalls ==
  {File("data", half1, half1), File("data", half2, half2), File("data_xx", half1, half1), File("data_xx", half2, half2),
   File("data_patch", half1, half1), File("elsewhere", half2, half2),
   [root |-> "pom", dir |-> "data_patch", name |-> [head |-> half1, tail |-> half1]],
   [root |-> "pom", dir |-> "data", name |-> [head |-> half2, tail |-> half2]]}

-----------------------------------------------------------------------------
AssetsInit ==
  /\ Init /\ ImgInit
  /\ part \in {"files", "textures"}
  /\ part # "files" => language = "English" /\ existing = CHOOSE c \in Cartridges : TRUE

AssetsNext ==
  \/ part = "files" /\ Next /\ UNCHANGED <<imgVars, part>>
  \/ part = "textures" /\ ImgNext /\ UNCHANGED <<vars, part>>

AssetsSpec == AssetsInit /\ [][AssetsNext]_assetVars
=============================================================================
