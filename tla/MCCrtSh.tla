------------------------------ MODULE MCCrtSh -------------------------------
\* Four records: the newest is refused, useless or raises, or all is well.
EXTENDS CrtShSupplement

CONSTANTS r1, r2, r3, r4

MCRecords == {r1, r2, r3, r4}
MCNewest == <<r1, r2, r3, r4>>

Server(first, second) ==
    r1 :> first @@ r2 :> second @@ r3 :> <<>> @@ r4 :> <<"usable">>

MCScenarios ==
    {[server |-> Server(first, <<"unusable", "usable">>), refused |-> {}, mode |-> "postgres"] :
        first \in {<<"usable">>, <<"unusable">>, <<"raising">>}}
    \cup {[server |-> Server(<<"raising", "usable">>, <<>>), refused |-> {}, mode |-> "http"],
          [server |-> Server(<<"usable">>, <<"unusable", "usable">>), refused |-> {r1}, mode |-> "http"]}
=============================================================================
