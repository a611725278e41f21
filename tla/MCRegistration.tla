---------------------------- MODULE MCRegistration ----------------------------
(* Calls for checking Registration: integers of 5 bits, and at least one of  *)
(* each kind that a check refuses.                                           *)
EXTENDS Registration

TestRangeBounds ==
    {<<-16, 15>>, <<-16, -3>>, <<-3, -1>>, <<-3, 0>>, <<-1, 1>>, <<0, 1>>, <<0, 9>>,
     <<2, 15>>, <<9, 9>>, <<1, 0>>}
TestDenseRanges == {<<-1, 4, 3>>, <<14, 15, 1>>, <<1, 2, 0>>}
TestArgLists == {<<>>, <<8>>, <<1, 8>>}
TestArgProducts == {<<>>, <<<<>>, <<1>>>>, <<<<1, 11>>, <<1, 11, 5>>>>}
TestRangeLists == {<<<<1, 3>>, <<0, 1>>>>, <<<<0, 1>>, <<3, 1>>>>}
TestNameLists == {<<>>, <<(<<"n">>)>>, <<(<<"n">>), <<>>>>}
TestThreadRanges == {<<1, 6, 2>>, <<0, 2, 1>>}
TestFilters ==
    {[negative |-> FALSE, re |-> {<<>>}], [negative |-> TRUE, re |-> {<<"8">>, <<"DISABLED_", "BM", "/">>}]}
TestPaths == {<<"main.cpp::">>}
TestFunctions == {<<"BM">>, <<"DISABLED_", "BM">>}
=============================================================================
