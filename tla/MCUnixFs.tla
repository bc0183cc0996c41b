------------------------------ MODULE MCUnixFs ------------------------------
(* UnixFs on four inodes and two names, for TLC. *)
EXTENDS UnixFs

MCName == {"etc", "home"}

Abs(parts) == [abs |-> TRUE, parts |-> parts]
Rel(parts) == [abs |-> FALSE, parts |-> parts]

\* Names in the current directory and in the root, and the directory above.
MCPaths ==
  {Rel(<<n>>) : n \in MCName} \cup {Abs(<<n>>) : n \in MCName} \cup {Rel(<<"..">>)}

NoTargets == {}
MCTargets == {Abs(<<"etc">>)}

ReadOnly == {{"READ"}}
MCFlags == {{"READ"}, {"WRITE", "TRUNC"}}

\* Bound for careless callers: a history is followed until it leaves an inode in
\* use on the stack, since UnixFs has no put of an inode that is free already.
Followed ==
  /\ \A s \in NameSlots : NamedBy(s) \in InUse
  /\ \A i \in OpenInodes : i \in InUse
  /\ cwd_ino \in Dirs
=============================================================================
