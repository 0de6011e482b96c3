-------------------------------- MODULE MCCursor --------------------------------
(* Texts of up to four sequences of every width, with whole and separately *)
(* encoded pairs and lone surrogates, and every short string of bytes at   *)
(* the borders of the table of well-formed sequences.                      *)
EXTENDS Cursor

CONSTANTS
  Longest,      \* sequences in a text that is well formed
  LongestRaw,   \* bytes in a text that may not be
  Border        \* those bytes

Sequences == {<<97>>, <<195, 169>>, <<237, 160, 189>>, <<237, 176, 128>>, <<240, 144, 128, 128>>}
Strings == UNION {[1..n -> Sequences] : n \in 0..Longest}
Joined == {FlattenSeq(s) : s \in Strings}
Raw == UNION {[1..n -> Border] : n \in 0..LongestRaw}
Both == Joined \cup Raw
================================================================================
