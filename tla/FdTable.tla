------------------------------ MODULE FdTable ------------------------------
(***************************************************************************)
(* What the open file table promises its users                             *)
(* (include/core/open_file_table.h): every user has descriptors of its     *)
(* own; each open descriptor names one inode and has flags and an offset   *)
(* that only calls with that descriptor change; an open is refused only    *)
(* when the user's descriptors or the system's entries are all taken.      *)
(***************************************************************************)
EXTENDS Integers, FiniteSets

CONSTANTS User, Fd,        \* users, and descriptors of each
          SYS_OPEN_FILE,   \* most files open at once, all users together
          Inode, Flag, Offset

VARIABLES files,  \* what each open <<user, descriptor>> stands for
          ret     \* the result of the last alloc_fd or free_fd

fdVars == <<files, ret>>

Init == files = << >> /\ ret = -1

OpenFds(u) == {fd \in Fd : <<u, fd>> \in DOMAIN files}

NewFile(inode, flags) == [f_inode_no |-> inode, f_flag |-> flags, f_offset |-> 0]

Open(u, inode, flags, fd) ==
  /\ <<u, fd>> \notin DOMAIN files
  /\ Cardinality(DOMAIN files) < SYS_OPEN_FILE
  /\ files' = [r \in DOMAIN files \cup {<<u, fd>>} |->
                 IF r = <<u, fd>> THEN NewFile(inode, flags) ELSE files[r]]
  /\ ret' = fd

OpenRefused(u) ==
  /\ OpenFds(u) = Fd \/ Cardinality(DOMAIN files) = SYS_OPEN_FILE
  /\ ret' = -1
  /\ UNCHANGED files

Close(u, fd) ==
  /\ <<u, fd>> \in DOMAIN files
  /\ files' = [r \in DOMAIN files \ {<<u, fd>>} |-> files[r]]
  /\ ret' = 0

CloseBad(u, fd) ==
  /\ <<u, fd>> \notin DOMAIN files
  /\ ret' = -1
  /\ UNCHANGED files

Seek(u, fd, offset) ==
  /\ <<u, fd>> \in DOMAIN files
  /\ files' = [files EXCEPT ![<<u, fd>>].f_offset = offset]
  /\ UNCHANGED ret

CloseAll(u) ==
  /\ files' = [r \in {s \in DOMAIN files : s[1] # u} |-> files[r]]
  /\ UNCHANGED ret

Next ==
  \E u \in User :
    \/ OpenRefused(u) \/ CloseAll(u)
    \/ \E fd \in Fd : Close(u, fd) \/ CloseBad(u, fd)
    \/ \E fd \in Fd, inode \in Inode, flags \in Flag : Open(u, inode, flags, fd)
    \/ \E fd \in Fd, offset \in Offset : Seek(u, fd, offset)

Spec == Init /\ [][Next]_fdVars
=============================================================================
