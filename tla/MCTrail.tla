------------------------------- MODULE MCTrail -------------------------------
(* One capture slot and one repeat slot, each with two values to tell      *)
(* apart, and buffers that are full after none, one or two entries.        *)
EXTENDS Trail, TLC

CONSTANTS cap, rep, v1, v2, p1, p2

MCSlots == {cap, rep}
MCCaptures == {cap}
MCValues == {v1, v2}
MCPoints == {p1, p2}
MCCapacities == 0 .. 2

(* Values are only compared, points only copied.                           *)
Interchangeable == Permutations(MCValues) \cup Permutations(MCPoints)
==============================================================================
