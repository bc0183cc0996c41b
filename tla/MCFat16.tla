------------------------------ MODULE MCFat16 ------------------------------
(* Fat16 on a few clusters and two names, for TLC. *)
EXTENDS Fat16, TLC

\* No name plays a part of its own.
Symmetry == Permutations(Name)

A == CHOOSE n \in Name : TRUE
Whole == [n \in Name |-> n]
Truncated == [n \in Name |-> A]

Abs(parts) == [abs |-> TRUE, parts |-> parts]
Rel(parts) == [abs |-> FALSE, parts |-> parts]

\* Names in the current directory, and what is above it.
MCPaths == {Rel(<<n>>) : n \in Name \cup {".."}}

MCFlags == {{}, {"TRUNC"}, {"APPEND"}}
Parts == {1, 2}

=============================================================================
