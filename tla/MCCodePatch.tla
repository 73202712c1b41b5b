---------------------------- MODULE MCCodePatch ----------------------------
(***************************************************************************)
(* The patches ed7hook makes in the builds it supports, by their offsets   *)
(* in the pages of the game (ED7Pointers.cpp).                             *)
(***************************************************************************)
EXTENDS CodePatch

\* The functions that the installers hook.
MCEntries == {
   \h40, \h70, \hC0, \hF0, \h140, \h150, \h190, \h1C0, \h260, \h2A0,
   \h2E0, \h370, \h380, \h3E0, \h3F0, \h400, \h440, \h450, \h480, \h4C0,
   \h4F0, \h580, \h5D0, \h600, \h630, \h6C0, \h6F0, \h710, \h810, \h820,
   \h850, \h860, \h870, \h920, \h960, \h990, \h9C0, \h9E0, \h9F0, \hA00,
   \hAC0, \hAD0, \hB00, \hB60, \hBE0, \hC10, \hC40, \hC50, \hCB0, \hD10,
   \hD30, \hD40, \hD60, \hD80, \hDB0, \hDC0, \hDF0, \hE80, \hEA0, \hEC0,
   \hEE0, \hEF0, \hFA0, \hFE0, \hFF0}

Of(kind, size, offsets) == [at : offsets, size : {size}, kind : {kind}]

\* One instruction, two and one byte of one, and the tables of kana and of the
\* offsets of save files.
MCPatches ==
  Of("code", 4, {
   \h38, \h318, \h410, \h5B8, \h778, \h7A0, \h910, \h940, \h9BC, \h9C8,
   \h9D8, \h9E4, \h9E8, \hC04, \hCC0, \hCF4, \hD34, \hD94, \hDD8, \hE3C}) \cup
  Of("code", 2, {\h134, \h154, \hE60}) \cup Of("code", 1, {\hDF5}) \cup
  Of("data", 8, {\h568, \h570, \h588}) \cup Of("data", 336, {\h814, \h4A0})

ASSUME ProgramAssumption == FunctionsAreAligned /\ PatchesEndInTheirPage
=============================================================================
