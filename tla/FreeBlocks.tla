----------------------------- MODULE FreeBlocks -----------------------------
(***************************************************************************)
(* The free list of data blocks of the UNIX engine: class SuperBlock in    *)
(* src/fs/unix/super_block.cpp, balloc and bfree.  Free blocks are kept in *)
(* groups.  The group in memory is the stack s_free; its entry 1 (entry[0] *)
(* in the code) links to the block on disk that stores the next group,     *)
(* that block being itself free.                                           *)
(*                                                                         *)
(* A block on disk is represented by the words that balloc would copy out  *)
(* of it if it were a group: its first word is the count, so the block is  *)
(* the sequence of the `count' words that follow.  s_nfree is Len(s_free). *)
(***************************************************************************)
EXTENDS Integers, Sequences, FiniteSets

CONSTANTS
  NICFREE,         \* capacity of the stack, and the size of a group
  DATA_BLK_NUM,    \* blocks of the data area
  reserved_blocks, \* blocks [0, reserved_blocks) never enter the list
  INVALID_BLK,     \* balloc's refusal
  Payloads,        \* what holders leave in their blocks, read as groups
  AsksWhenFull     \* does a caller ask for a block when none is free?

END_OF_CHAIN == 0
AllBlocks == 0 .. DATA_BLK_NUM - 1
Block == reserved_blocks .. DATA_BLK_NUM - 1

ASSUME FreeBlocksAssumption ==
  /\ NICFREE \in Nat /\ NICFREE >= 2
  /\ reserved_blocks \in Nat \ {0}
  /\ DATA_BLK_NUM \in Nat /\ DATA_BLK_NUM > reserved_blocks
  /\ INVALID_BLK \in Nat \ AllBlocks
  /\ Payloads \subseteq Seq(Nat)
  /\ AsksWhenFull \in BOOLEAN

VARIABLES
  s_free,        \* the group in memory, s_free[1] being the link
  s_free_total,  \* the exact number of free blocks
  disk,          \* the data area
  held,          \* the blocks the callers hold
  ret            \* the result of the last balloc

vars == <<s_free, s_free_total, disk, held, ret>>
-----------------------------------------------------------------------------
(***************************************************************************)
(* format: whole groups of NICFREE blocks from the low numbers up (one     *)
(* storage block and NICFREE - 1 entries each), the rest in memory.        *)
(***************************************************************************)
total_free == DATA_BLK_NUM - reserved_blocks
Groups == total_free \div NICFREE
StorageBlock(k) == reserved_blocks + (k - 1) * NICFREE
\* Mistake: the groups are not linked.
PrevLink_cut(k) == END_OF_CHAIN

PrevLink(k) == IF k = 1 THEN END_OF_CHAIN ELSE StorageBlock(k - 1)

FormatGroup(k) ==
  [i \in 1 .. NICFREE |-> IF i = 1 THEN PrevLink(k) ELSE StorageBlock(k) + i - 1]

Init ==
  /\ disk = [b \in AllBlocks |->
               IF \E k \in 1 .. Groups : b = StorageBlock(k)
               THEN FormatGroup(CHOOSE k \in 1 .. Groups : b = StorageBlock(k))
               ELSE << >>]
  /\ s_free = [i \in 1 .. (total_free % NICFREE) + 1 |->
                 IF i = 1 THEN PrevLink(Groups + 1)
                 ELSE StorageBlock(Groups + 1) + i - 2]
  /\ s_free_total = total_free
  /\ held = {}
  /\ ret = INVALID_BLK
-----------------------------------------------------------------------------
(* balloc *)

\* The list is spent: an empty stack, or a stack that is only the last link.
Spent == s_free = << >> \/ s_free = <<END_OF_CHAIN>>

\* The call refuses, and drops the last link (s_nfree = 0).
BallocRefuse ==
  /\ AsksWhenFull
  /\ Spent
  /\ s_free' = << >>
  /\ ret' = INVALID_BLK
  /\ UNCHANGED <<s_free_total, disk, held>>

\* Mistake: a storage block is granted and not counted.
BallocLoad_uncounted ==
  /\ Len(s_free) = 1 /\ s_free[1] # END_OF_CHAIN
  /\ s_free' = disk[s_free[1]]
  /\ ret' = s_free[1]
  /\ held' = held \cup {s_free[1]}
  /\ UNCHANGED <<s_free_total, disk>>

\* Only the link is left: load the next group and grant its storage block.
BallocLoad ==
  /\ Len(s_free) = 1 /\ s_free[1] # END_OF_CHAIN
  /\ s_free' = disk[s_free[1]]
  /\ ret' = s_free[1]
  /\ held' = held \cup {s_free[1]}
  /\ s_free_total' = s_free_total - 1
  /\ UNCHANGED disk

\* Mistake: the block stays on the stack.
BallocPop_kept ==
  /\ Len(s_free) > 1
  /\ ret' = s_free[Len(s_free)]
  /\ held' = held \cup {s_free[Len(s_free)]}
  /\ s_free_total' = s_free_total - 1
  /\ UNCHANGED <<s_free, disk>>

BallocPop ==
  /\ Len(s_free) > 1
  /\ ret' = s_free[Len(s_free)]
  /\ s_free' = SubSeq(s_free, 1, Len(s_free) - 1)
  /\ held' = held \cup {s_free[Len(s_free)]}
  /\ s_free_total' = s_free_total - 1
  /\ UNCHANGED disk

(* bfree, called by the holder of b *)

\* The stack is full: store it in b, which becomes the head of the chain.
BfreeStore(b) ==
  /\ b \in held
  /\ Len(s_free) = NICFREE
  /\ disk' = [disk EXCEPT ![b] = s_free]
  /\ s_free' = <<b>>
  /\ held' = held \ {b}
  /\ s_free_total' = s_free_total + 1
  /\ UNCHANGED ret

BfreePush(b) ==
  /\ b \in held
  /\ Len(s_free) # NICFREE
  /\ s_free' = Append(s_free, b)
  /\ held' = held \ {b}
  /\ s_free_total' = s_free_total + 1
  /\ UNCHANGED <<disk, ret>>

(* The holder of b writes it: file data, directory entries or pointers. *)
HolderWrite(b, p) ==
  /\ b \in held
  /\ disk' = [disk EXCEPT ![b] = p]
  /\ UNCHANGED <<s_free, s_free_total, held, ret>>

Next ==
  \/ BallocRefuse
  \/ BallocLoad
  \/ BallocPop
  \/ \E b \in held : BfreeStore(b) \/ BfreePush(b)
  \/ \E b \in held, p \in Payloads : HolderWrite(b, p)

Spec == Init /\ [][Next]_vars
-----------------------------------------------------------------------------
(***************************************************************************)
(* collect_free_blocks: the memory group, then the groups on disk, at most *)
(* DATA_BLK_NUM of them, up to the first whose count is 0 or too large.    *)
(***************************************************************************)
CollectFreeBlocks ==
  LET walk[guard \in 0 .. DATA_BLK_NUM] ==
        IF guard = 0
        THEN IF s_free = << >> THEN [link |-> END_OF_CHAIN, out |-> << >>]
             ELSE [link |-> s_free[1], out |-> Tail(s_free)]
        ELSE LET at == walk[guard - 1]
             IN  IF at.link = END_OF_CHAIN THEN at
                 ELSE IF disk[at.link] = << >> \/ Len(disk[at.link]) > NICFREE
                 THEN [link |-> END_OF_CHAIN, out |-> Append(at.out, at.link)]
                 ELSE [link |-> disk[at.link][1],
                       out |-> at.out \o <<at.link>> \o Tail(disk[at.link])]
  IN  walk[DATA_BLK_NUM].out
-----------------------------------------------------------------------------
TypeOK ==
  /\ s_free \in Seq(Nat) /\ Len(s_free) <= NICFREE
  /\ s_free_total \in 0 .. total_free
  /\ disk \in [AllBlocks -> Seq(Nat)]
  /\ held \subseteq Block
  /\ ret \in Block \cup {INVALID_BLK}

\* The walk of the F3 map finds every block that nobody holds, once, and as
\* many as free_block_count() says: super_block.h, "on a consistent disk the
\* number of results equals free_block_count()".
WalkFindsFreeBlocks ==
  LET found == CollectFreeBlocks
  IN  /\ Len(found) = s_free_total
      /\ {found[i] : i \in DOMAIN found} = Block \ held

\* balloc hands out a block nobody holds.
GrantsFreeBlock ==
  [][s_free_total' = s_free_total - 1 => ret' \in Block \ held]_vars

\* balloc has nothing left to give only when every block is held, so a write
\* stops short only on a disk that is full.
RefusesOnlyWhenFull == Spent => held = Block

\* The counter the shell's df prints is exact.
CountExact == s_free_total + Cardinality(held) = total_free

Pool == INSTANCE BlockPool WITH data <- [b \in held |-> disk[b]]

\* The linked groups implement a pool of blocks: what a holder wrote stays
\* until the block is freed, whatever the list does with the free ones.
ImplementsPool == Pool!Spec
=============================================================================
