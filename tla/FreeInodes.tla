----------------------------- MODULE FreeInodes -----------------------------
(***************************************************************************)
(* The free inodes of the UNIX engine: SuperBlock::ialloc and ifree in     *)
(* src/fs/unix/super_block.cpp.  A stack of NICINOD numbers caches free    *)
(* inodes; the numbers that do not fit are only remembered by s_rinode,    *)
(* the start of a rescan of the inode area that the code does not make.    *)
(***************************************************************************)
EXTENDS Integers, Sequences, FiniteSets

CONSTANTS
  NICINOD,         \* capacity of the stack
  INODE_TOTAL,     \* inodes on the disk
  reserved_inodes  \* inodes [0, reserved_inodes) are never handed out

Inode == reserved_inodes .. INODE_TOTAL - 1

ASSUME FreeInodesAssumption ==
  /\ NICINOD \in Nat \ {0}
  /\ reserved_inodes \in Nat
  /\ INODE_TOTAL \in Nat /\ INODE_TOTAL > reserved_inodes

VARIABLES
  s_inode,        \* the stack, its top last
  s_rinode,       \* where a rescan would start
  s_inode_total,  \* the number of free inodes
  held            \* the inodes in use

vars == <<s_inode, s_rinode, s_inode_total, held>>

StackCount ==
  IF INODE_TOTAL - reserved_inodes < NICINOD
  THEN INODE_TOTAL - reserved_inodes ELSE NICINOD

\* format pushes from high to low, so that the lowest number comes out first.
Init ==
  /\ s_inode = [i \in 1 .. StackCount |-> reserved_inodes + StackCount - i]
  /\ s_rinode = reserved_inodes + StackCount
  /\ s_inode_total = INODE_TOTAL - reserved_inodes
  /\ held = {}

Ialloc ==
  /\ s_inode # << >>
  /\ s_inode' = SubSeq(s_inode, 1, Len(s_inode) - 1)
  /\ s_inode_total' = s_inode_total - 1
  /\ held' = held \cup {s_inode[Len(s_inode)]}
  /\ UNCHANGED s_rinode

\* Mistake: the last place of the stack is not used.
Ifree_short(ino) ==
  /\ ino \in held
  /\ held' = held \ {ino}
  /\ s_inode_total' = s_inode_total + 1
  /\ IF Len(s_inode) < NICINOD - 1
     THEN s_inode' = Append(s_inode, ino) /\ UNCHANGED s_rinode
     ELSE s_rinode' = ino /\ UNCHANGED s_inode

Ifree(ino) ==
  /\ ino \in held
  /\ held' = held \ {ino}
  /\ s_inode_total' = s_inode_total + 1
  /\ IF Len(s_inode) < NICINOD
     THEN s_inode' = Append(s_inode, ino) /\ UNCHANGED s_rinode
     ELSE /\ s_rinode' = IF ino < s_rinode THEN ino ELSE s_rinode
          /\ UNCHANGED s_inode

Next == Ialloc \/ \E ino \in held : Ifree(ino)

Spec == Init /\ [][Next]_vars
-----------------------------------------------------------------------------
Stacked == {s_inode[i] : i \in 1 .. Len(s_inode)}

TypeOK ==
  /\ s_inode \in Seq(Inode) /\ Len(s_inode) <= NICINOD
  /\ s_rinode \in reserved_inodes .. INODE_TOTAL
  /\ s_inode_total \in 0 .. INODE_TOTAL - reserved_inodes
  /\ held \subseteq Inode

\* No inode number is on the stack twice or while a file has it, so two files
\* never get one inode.
StackIsFree ==
  /\ \A i, j \in 1 .. Len(s_inode) : s_inode[i] = s_inode[j] => i = j
  /\ Stacked \cap held = {}

\* The numbers format stacked stay in circulation, on the stack or in use, and
\* no other joins them: no inode is lost, since ifree never meets a full stack,
\* and the numbers behind the stack are never handed out.
NoneLost == Stacked \cup held = reserved_inodes .. reserved_inodes + StackCount - 1

\* The counter of free inodes is exact.
CountExact == s_inode_total + Cardinality(held) = INODE_TOTAL - reserved_inodes
=============================================================================
