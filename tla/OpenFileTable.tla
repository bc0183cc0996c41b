--------------------------- MODULE OpenFileTable ---------------------------
(***************************************************************************)
(* The open file table shared by both engines: class OpenFileTable in      *)
(* src/core/open_file_table.cpp.  A descriptor of a user indexes the       *)
(* user's table, whose slot is an index of the system table, or -1.        *)
(***************************************************************************)
EXTENDS Integers, FiniteSets

CONSTANTS
  MAX_OPEN_FILE,  \* descriptors of a user
  SYS_OPEN_FILE,  \* entries of the system table
  MAX_USER,       \* users
  Inode,          \* inode numbers a caller opens
  Flag,           \* open modes a caller asks for
  Offset          \* positions a caller sets

Fd == 0 .. MAX_OPEN_FILE - 1
SysIndex == 0 .. SYS_OPEN_FILE - 1
User == 0 .. MAX_USER - 1

ASSUME OpenFileTableAssumption ==
  /\ MAX_OPEN_FILE \in Nat \ {0} /\ SYS_OPEN_FILE \in Nat \ {0}
  /\ MAX_USER \in Nat \ {0}
  /\ 0 \in Inode /\ 0 \in Flag /\ 0 \in Offset

VARIABLES
  sys_table,   \* the entries: flags, reference count, inode, offset
  user_table,  \* ofile[fd] of each user
  ret          \* the result of the last alloc_fd or free_fd

vars == <<sys_table, user_table, ret>>

Entry == [f_flag : Flag, f_count : 0 .. 1, f_inode_no : Inode, f_offset : Offset]
Cleared == [f_flag |-> 0, f_count |-> 0, f_inode_no |-> 0, f_offset |-> 0]

Init ==
  /\ sys_table = [i \in SysIndex |-> Cleared]
  /\ user_table = [u \in User |-> [fd \in Fd |-> -1]]
  /\ ret = -1
-----------------------------------------------------------------------------
Lowest(S) == CHOOSE i \in S : \A j \in S : i <= j

FreeFds(u) == {fd \in Fd : user_table[u][fd] = -1}
\* Mistake: an entry counts as free by its inode.
FreeEntries_zero == {i \in SysIndex : sys_table[i].f_inode_no = 0}

FreeEntries == {i \in SysIndex : sys_table[i].f_count = 0}
ValidUserFd(u, fd) == user_table[u][fd] \in SysIndex

\* alloc_fd: the lowest free descriptor, on the lowest free entry.
AllocFd(u, inode, flags) ==
  /\ FreeFds(u) # {} /\ FreeEntries # {}
  /\ LET fd == Lowest(FreeFds(u))
         i  == Lowest(FreeEntries)
     IN  /\ sys_table' = [sys_table EXCEPT ![i] =
                            [f_flag |-> flags, f_count |-> 1,
                             f_inode_no |-> inode, f_offset |-> 0]]
         /\ user_table' = [user_table EXCEPT ![u][fd] = i]
         /\ ret' = fd

AllocRefused(u) ==
  /\ FreeFds(u) = {} \/ FreeEntries = {}
  /\ ret' = -1
  /\ UNCHANGED <<sys_table, user_table>>

\* An entry loses a reference; the last one clears it.
Unreference(i) ==
  IF sys_table[i].f_count = 1 THEN Cleared
  ELSE [sys_table[i] EXCEPT !.f_count = @ - 1]

\* Mistake: the entry keeps its reference.
FreeFd_leak(u, fd) ==
  /\ ValidUserFd(u, fd)
  /\ user_table' = [user_table EXCEPT ![u][fd] = -1]
  /\ ret' = 0
  /\ UNCHANGED sys_table

FreeFd(u, fd) ==
  /\ ValidUserFd(u, fd)
  /\ user_table' = [user_table EXCEPT ![u][fd] = -1]
  /\ sys_table' = [sys_table EXCEPT ![user_table[u][fd]]
                     = Unreference(user_table[u][fd])]
  /\ ret' = 0

FreeBadFd(u, fd) ==
  /\ ~ValidUserFd(u, fd)
  /\ ret' = -1
  /\ UNCHANGED <<sys_table, user_table>>

\* Mistake: every descriptor of the file moves.
SetOffset_file(u, fd, offset) ==
  /\ ValidUserFd(u, fd)
  /\ sys_table' = [i \in SysIndex |->
                     IF sys_table[i].f_inode_no = sys_table[user_table[u][fd]].f_inode_no
                     THEN [sys_table[i] EXCEPT !.f_offset = offset] ELSE sys_table[i]]
  /\ UNCHANGED <<user_table, ret>>

\* What read, write and append do with the descriptor's position.
SetOffset(u, fd, offset) ==
  /\ ValidUserFd(u, fd)
  /\ sys_table' = [sys_table EXCEPT ![user_table[u][fd]].f_offset = offset]
  /\ UNCHANGED <<user_table, ret>>

\* close_all frees the user's open descriptors one after the other; each has
\* an entry of its own (NoSharedEntry), so every entry loses one reference.
CloseAll(u) ==
  /\ sys_table' = [i \in SysIndex |->
                     IF \E fd \in Fd : user_table[u][fd] = i
                     THEN Unreference(i) ELSE sys_table[i]]
  /\ user_table' = [user_table EXCEPT ![u] = [fd \in Fd |-> -1]]
  /\ UNCHANGED ret

Next ==
  \E u \in User :
    \/ AllocRefused(u)
    \/ CloseAll(u)
    \/ \E inode \in Inode, flags \in Flag : AllocFd(u, inode, flags)
    \/ \E fd \in Fd : FreeFd(u, fd)
    \/ \E fd \in Fd : FreeBadFd(u, fd)
    \/ \E fd \in Fd, offset \in Offset : SetOffset(u, fd, offset)

Spec == Init /\ [][Next]_vars
-----------------------------------------------------------------------------
TypeOK ==
  /\ sys_table \in [SysIndex -> Entry]
  /\ user_table \in [User -> [Fd -> SysIndex \cup {-1}]]
  /\ ret \in Fd \cup {-1}

\* A descriptor has its system entry to itself, so no seek, read or close on
\* one descriptor moves or closes another: "each open makes a fresh entry".
NoSharedEntry ==
  \A u, v \in User : \A fd, gd \in Fd :
    /\ ValidUserFd(u, fd)
    /\ user_table[u][fd] = user_table[v][gd]
    => <<u, fd>> = <<v, gd>>

\* f_count is the number of descriptors on the entry, so an entry is neither
\* leaked by a close nor cleared under a descriptor that is still open.
CountIsReferences ==
  \A i \in SysIndex :
    sys_table[i].f_count = 1 <=> \E u \in User, fd \in Fd : user_table[u][fd] = i

\* The open descriptors, and what their entries say of them.
OpenRefs == {r \in User \X Fd : ValidUserFd(r[1], r[2])}
FileOf(r) ==
  LET e == sys_table[user_table[r[1]][r[2]]]
  IN  [f_inode_no |-> e.f_inode_no, f_flag |-> e.f_flag, f_offset |-> e.f_offset]

Fds == INSTANCE FdTable WITH files <- [r \in OpenRefs |-> FileOf(r)]

\* The two tables are a map from descriptors to open files, refused only when
\* full.
ImplementsFds == Fds!Spec
=============================================================================
