-------------------------------- MODULE Wtf8Text --------------------------------
(***************************************************************************)
(* What bytes mean as text: the table of well-formed sequences of UTF-8,   *)
(* with surrogates let in, the UTF-16 units of each sequence, and the      *)
(* offset of every position.  It says nothing of any decoder.              *)
(***************************************************************************)
EXTENDS Integers, Sequences

Within(x, low, high) == low <= x /\ x <= high
Trailing(x) == Within(x, 128, 191)

Sequence(s) ==
  \/ Len(s) = 1 /\ s[1] < 128
  \/ Len(s) = 2 /\ Within(s[1], 194, 223) /\ Trailing(s[2])
  \/ /\ Len(s) = 3 /\ Trailing(s[3])
     /\ \/ s[1] = 224 /\ Within(s[2], 160, 191)
        \/ Within(s[1], 225, 239) /\ Trailing(s[2])
  \/ /\ Len(s) = 4 /\ Trailing(s[3]) /\ Trailing(s[4])
     /\ \/ s[1] = 240 /\ Within(s[2], 144, 191)
        \/ Within(s[1], 241, 243) /\ Trailing(s[2])
        \/ s[1] = 244 /\ Within(s[2], 128, 143)

Meaning(s) ==
  CASE Len(s) = 1 -> <<s[1]>>
    [] Len(s) = 2 -> <<64 * (s[1] - 192) + (s[2] - 128)>>
    [] Len(s) = 3 -> <<4096 * (s[1] - 224) + 64 * (s[2] - 128) + (s[3] - 128)>>
    [] OTHER -> LET above == 262144 * (s[1] - 240) + 4096 * (s[2] - 144) + 64 * (s[3] - 128) + (s[4] - 128)
                IN <<55296 + (above \div 1024), 56320 + (above % 1024)>>

(* The sequences that may begin at an offset: no two do.                   *)
Widths(bytes, o) == {w \in 1..4 : o + w <= Len(bytes) /\ Sequence(SubSeq(bytes, o + 1, o + w))}

(* The units from each offset on and the marks before them, and where the  *)
(* bytes stop being sequences.                                             *)
TextFrom(bytes) ==
  LET from[o \in 0..Len(bytes)] ==
        IF o = Len(bytes) THEN [units |-> <<>>, places |-> <<<<o, FALSE>>>>, error |-> -1]
        ELSE IF Widths(bytes, o) = {} THEN [units |-> <<>>, places |-> <<>>, error |-> o]
        ELSE LET w == CHOOSE w \in Widths(bytes, o) : TRUE
                 rest == from[o + w]
             IN [units |-> Meaning(SubSeq(bytes, o + 1, o + w)) \o rest.units,
                 places |-> (IF w = 4 THEN <<<<o, FALSE>>, <<o, TRUE>>>> ELSE <<<<o, FALSE>>>>) \o rest.places,
                 error |-> rest.error]
  IN from
Text(bytes) == TextFrom(bytes)[0]
================================================================================
