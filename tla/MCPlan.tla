-------------------------------- MODULE MCPlan --------------------------------
(***************************************************************************)
(* The sizes of small and middling programs, and of caches that filled.    *)
(***************************************************************************)
EXTENDS Plan

Counts(n, captures, predicates) ==
  [n |-> n, repeats |-> n \div 8, predicates |-> predicates, edges |-> n, captures |-> captures]

SomePrograms ==
  {Counts(3, 1, 1), Counts(10, 2, 4), Counts(40, 1, 20), Counts(40, 20, 30), Counts(80, 5, 61),
   Counts(320, 3, 160), Counts(900, 40, 400)}

SomeCaps == {3117, 3500, 4300, 6000, 10000, 36493, 100000}
==============================================================================
