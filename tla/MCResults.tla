------------------------------ MODULE MCResults ------------------------------
(* The names, the rounds and the runs of a benchmark share no state: each is  *)
(* explored while the others rest where they begin.                           *)
EXTENDS Statistics

Init == UriInit /\ RoundsInit /\ RunsInit

NoRuns ==
    /\ reports = <<>> /\ given = <<>> /\ ~asked.use_manual_time
    /\ asked.flags = {} /\ asked.complexity = "oAuto"

Next ==
    \/ RoundsInit /\ NoRuns /\ UriNext /\ UNCHANGED <<roundVars, runVars>>
    \/ UriInit /\ NoRuns /\ RoundsNext /\ UNCHANGED <<uriVars, runVars>>
    \/ UriInit /\ RoundsInit /\ RunsNext /\ UNCHANGED <<uriVars, roundVars>>

Spec == Init /\ [][Next]_<<uriVars, roundVars, runVars>>

(* Names after those of the examples and of core/test/codspeed.cpp. *)
TestPaths == {<<"main.cpp", ":", ":">>, <<"main.cpp", ":", ":", "test", ":", ":">>}
TestFunctions == {<<"BM">>, <<"BM2">>}
TestBracketed ==
    {<<>>, <<"int">>, <<"std", ":", ":", "string">>, <<"std", ":", "string">>,
     <<"std", ":", ":", "string", ", ", "std", ":", ":", "string">>,
     <<":", ":", "Type">>, <<"vector<std", ":", ":", "string>">>}
TestCustoms ==
    {<<"BM">>, <<"BM", "[", "int", "]">>, <<"BM", "[", "std", ":", ":", "string", "]">>,
     <<"file", ":", ":", "BM">>, <<"file", ":", ":", "BM", "[", "int">>}
TestRenames == {<<>>, <<"new">>}
TestArgs == {<<>>, <<"8">>, <<"n", ":", "8/64">>, <<"n", ":", ":", "8/64">>}

TestFlags ==
    {{}, {"kIsRate"}, {"kIsRate", "kInvert"}, {"kAvgThreads"}, {"kAvgIterations"},
     {"kIsIterationInvariant", "kIsRate"}}
TestTimings == {<<0, 1>>, <<1, 2>>, <<2, 4>>, <<3, 8>>, <<4, 16>>}
=============================================================================
