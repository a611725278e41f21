--------------------------- MODULE MCRunBenchmarks ---------------------------
(* Three instances for checking RunBenchmarks: two of one family with a *)
(* complexity and one of a family without.                              *)
EXTENDS RunBenchmarks

ThreeRepeats == <<2, 3, 2>>
ThreeFamilies == <<0, 0, 1>>
=============================================================================
