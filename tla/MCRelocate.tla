----------------------------- MODULE MCRelocate -----------------------------
(* Every pair of instructions that depend on their place among plain ones, *)
(* at two of the five or four places that a hook overwrites; as many of    *)
(* the same kind; and each alone.                                          *)
EXTENDS Relocate

CONSTANTS MCKinds, MCDisplacements, MCLows

\* To the one before, the next, over one, and far enough for tbz to be out
\* of reach once it is moved; the same without those that stay in the code.
MCEverywhere == {-1, 1, 2, 8000}
MCElsewhere == {-2, 2, 8000}

MCInstructions ==
  {i \in [kind : MCKinds, disp : MCDisplacements, low : MCLows] :
     i.kind = "adr" \/ i.low = 0}

Plain == [kind |-> "plain", disp |-> 0, low |-> 0]

Pairs(a, b) ==
  {<<a, b, Plain, Plain>>, <<a, Plain, b, Plain>>,
   <<Plain, a, b, Plain>>, <<Plain, a, Plain, b>>,
   <<a, b, Plain, Plain, Plain>>, <<Plain, a, b, Plain, Plain>>,
   <<Plain, Plain, a, Plain, b>>}

MCCodes ==
  UNION {{<<a>>, <<a, a, a, a>>, <<a, a, a, a, a>>} : a \in MCInstructions}
    \cup UNION {Pairs(p[1], p[2]) : p \in MCInstructions \X MCInstructions}

\* At 2^20 and behind it a page begins.
MCBases == {2^20 - 2, 2^20 - 1}

\* Close before and behind, in reach of b alone, and out of reach.
MCTrampolines == {2^20 - 4098, 2^20 + 4096, 2^24, 2^28 + 2}
=============================================================================
