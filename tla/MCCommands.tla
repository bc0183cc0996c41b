----------------------------- MODULE MCCommands -----------------------------
EXTENDS Commands

MCPath == {<<"a">>, <<"b">>, <<"a", "b">>}
MCArgs == {<<p>> : p \in MCPath} \cup {<<<<"a">>, <<"b">>>>}
=============================================================================
