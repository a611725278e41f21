---------------------------- MODULE MCPerfCounters ----------------------------
(* Requests for checking PerfCounters: a repeated, an empty and an unknown   *)
(* name, and one name more than the maximum of three.                        *)
EXTENDS PerfCounters

TestRequests ==
    [measurement |-> {<<>>, <<"cycles", "instructions", "cycles">>,
                      <<"cycles", "cycles", "cycles", "cycles">>},
     other |-> {<<"", "cycles", "bogus", "cycles", "cycles", "cycles">>}]
=============================================================================
