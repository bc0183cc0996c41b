------------------------------ MODULE MCShell ------------------------------
EXTENDS Shell

NoLongNames == [n \in Name |-> n]
MCUidOf == [n \in Name |-> IF n = "root" THEN 0 ELSE IF n = "ann" THEN 1 ELSE 2]

MCTyped == {<<"mkdir", "a">>, <<"rmdir", "a">>, <<"cd", "a">>, <<"cd", "/">>,
            <<"cd", "~">>, <<"useradd", "ann", "x">>, <<"useradd", "bob", "x">>,
            <<"login", "root", "root">>, <<"login", "ann", "x">>, <<"su", "bob", "x">>,
            <<"rmdir*", "">>, <<"rmdir*", "a">>, <<"rmdir*", "/">>, <<"passwd", "x", "y">>, <<"logout">>, <<"format">>}
=============================================================================
