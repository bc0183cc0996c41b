------------------------- MODULE Durability_proofs -------------------------
(***************************************************************************)
(* Proofs about Durability, for disks of any size: through writes, saves   *)
(* that are cut short, crashes, restarts, remounts and formats no inode    *)
(* and no block is lost or has two owners, in memory or in an image that   *)
(* is loaded later.                                                        *)
(*                                                                         *)
(* The invariant says of each super block that is or may be loaded (the    *)
(* one in memory, the one of the disk when it is up to date, the one of    *)
(* the image) that it agrees with the inodes it goes with.                 *)
(***************************************************************************)
EXTENDS Durability, FiniteSetTheorems, SequenceTheorems, TLAPS

-----------------------------------------------------------------------------
(* The stack of free inodes alone, as FreeInodes has it. *)

\* The room ifree finds: what is out of the stack is in use.
Room == Len(s_inode) + Cardinality(held) = StackCount

IInv ==
  /\ s_inode \in Seq(Inode) /\ s_inode_total \in Int
  /\ s_rinode = reserved_inodes + StackCount
  /\ held \subseteq Inode
  /\ StackIsFree /\ NoneLost /\ CountExact /\ Room

LEMMA Counts ==
  /\ StackCount \in Nat /\ StackCount <= NICINOD
  /\ StackCount <= INODE_TOTAL - reserved_inodes
BY FreeInodesAssumption DEF StackCount

LEMMA HeldFinite ==
  ASSUME held \subseteq Inode
  PROVE  /\ IsFiniteSet(held) /\ Cardinality(held) \in Nat
         /\ Cardinality(held) <= INODE_TOTAL - reserved_inodes
<1>1. IsFiniteSet(Inode) /\ Cardinality(Inode) = INODE_TOTAL - reserved_inodes
  BY FS_Interval, FreeInodesAssumption DEF Inode
<1> QED BY <1>1, FS_Subset, FS_CardinalityType

LEMMA InitIInv == Init => IInv
<1> SUFFICES ASSUME Init PROVE IInv
  OBVIOUS
<1>1. StackCount \in Nat /\ StackCount <= INODE_TOTAL - reserved_inodes
      /\ reserved_inodes \in Nat /\ INODE_TOTAL \in Nat
  BY Counts, FreeInodesAssumption
<1>2. s_inode = [i \in 1 .. StackCount |-> reserved_inodes + StackCount - i]
  BY DEF Init
<1>3. s_inode \in [1 .. StackCount -> Inode]
  BY <1>1, <1>2 DEF Inode
<1>4. s_inode \in Seq(Inode) /\ Len(s_inode) = StackCount
  BY <1>1, <1>3
<1>5. Stacked = reserved_inodes .. reserved_inodes + StackCount - 1
  <2>1. \A i \in 1 .. StackCount :
          s_inode[i] \in reserved_inodes .. reserved_inodes + StackCount - 1
    BY <1>1, <1>2
  <2>2. ASSUME NEW n \in reserved_inodes .. reserved_inodes + StackCount - 1
        PROVE  \E i \in 1 .. StackCount : s_inode[i] = n
    <3>1. reserved_inodes + StackCount - n \in 1 .. StackCount
      BY <1>1
    <3> QED BY <1>1, <1>2, <3>1
  <2> QED BY <1>4, <2>1, <2>2 DEF Stacked
<1>6. \A i, j \in 1 .. Len(s_inode) : s_inode[i] = s_inode[j] => i = j
  BY <1>1, <1>2, <1>4
<1>7. held = {} /\ Cardinality(held) = 0
  BY FS_EmptySet DEF Init
<1> QED
  BY <1>1, <1>4, <1>5, <1>6, <1>7
     DEF Init, IInv, StackIsFree, NoneLost, CountExact, Room

LEMMA Popped ==
  ASSUME NEW S, NEW s \in Seq(S), s # << >>
  PROVE  /\ SubSeq(s, 1, Len(s) - 1) \in Seq(S)
         /\ Len(SubSeq(s, 1, Len(s) - 1)) = Len(s) - 1
         /\ \A i \in 1 .. Len(s) - 1 : SubSeq(s, 1, Len(s) - 1)[i] = s[i]
<1>1. Len(s) \in Nat /\ Len(s) >= 1
  OBVIOUS
<1>2. \A i \in 1 .. Len(s) - 1 : s[i] \in S
  BY <1>1
<1> DEFINE m == Len(s) - 1
           t == SubSeq(s, 1, m)
<1>3. /\ t \in Seq(S)
      /\ Len(t) = IF 1 <= m THEN m - 1 + 1 ELSE 0
      /\ \A i \in 1 .. m - 1 + 1 : t[i] = s[1 + i - 1]
  <2>1. m \in Int /\ 1 \in Int
    BY <1>1
  <2> HIDE DEF m
  <2>2. \A i \in 1 .. m : s[i] \in S
    BY <1>2 DEF m
  <2> QED BY <2>1, <2>2, SubSeqProperties
<1> HIDE DEF t
<1>4. m \in Nat
  BY <1>1
<1> HIDE DEF m
<1>5. (m - 1) + 1 = m
  BY <1>4
<1>6. Len(t) = m
  BY <1>3, <1>4, <1>5
<1>7. \A i \in 1 .. m : t[i] = s[i]
  <2> SUFFICES ASSUME NEW i \in 1 .. m PROVE t[i] = s[i]
    OBVIOUS
  <2>1. i \in 1 .. m - 1 + 1 /\ (1 + i) - 1 = i
    BY <1>4
  <2> QED BY <1>3, <2>1
<1> QED BY <1>3, <1>6, <1>7 DEF t, m

LEMMA IallocKeeps == IInv /\ Ialloc => IInv'
<1> SUFFICES ASSUME IInv, Ialloc PROVE IInv'
  OBVIOUS
<1> DEFINE n == Len(s_inode)
           x == s_inode[n]
<1>1. /\ s_inode \in Seq(Inode) /\ n \in Nat /\ n >= 1 /\ x \in Inode
      /\ s_inode' \in Seq(Inode) /\ Len(s_inode') = n - 1
      /\ \A i \in 1 .. n - 1 : s_inode'[i] = s_inode[i]
  <2>1. s_inode \in Seq(Inode) /\ s_inode # << >>
    BY DEF IInv, Ialloc
  <2>2. n \in Nat /\ n >= 1 /\ x \in Inode
    BY <2>1
  <2>3. s_inode' = SubSeq(s_inode, 1, n - 1)
    BY DEF Ialloc
  <2> QED BY <2>1, <2>2, <2>3, Popped
<1>2. x \in Stacked /\ x \notin held
  BY <1>1 DEF IInv, StackIsFree, Stacked
<1>3. /\ held' = held \cup {x} /\ s_inode_total' = s_inode_total - 1
      /\ s_rinode' = s_rinode
  BY DEF Ialloc
<1>4. Stacked' = Stacked \ {x}
  <2>1. \A i \in 1 .. n : i # n => s_inode[i] # x
    BY <1>1 DEF IInv, StackIsFree
  <2>2. ASSUME NEW y \in Stacked \ {x}
        PROVE  y \in Stacked'
    <3>1. PICK i \in 1 .. n : y = s_inode[i]
      BY DEF Stacked
    <3>2. i \in 1 .. n - 1
      BY <1>1, <3>1
    <3> QED BY <1>1, <3>1, <3>2 DEF Stacked
  <2>3. ASSUME NEW i \in 1 .. n - 1
        PROVE  s_inode'[i] \in Stacked \ {x}
    <3>1. i \in 1 .. n /\ i # n
      BY <1>1
    <3> QED BY <1>1, <2>1, <3>1 DEF Stacked
  <2> QED BY <1>1, <2>2, <2>3 DEF Stacked
<1> HIDE DEF n, x
<1>5. StackIsFree'
  <2>1. ASSUME NEW i \in 1 .. n - 1, NEW j \in 1 .. n - 1, s_inode'[i] = s_inode'[j]
        PROVE  i = j
    <3>1. i \in 1 .. n /\ j \in 1 .. n
      BY <1>1
    <3> QED BY <1>1, <2>1, <3>1 DEF IInv, StackIsFree, n
  <2> QED BY <1>1, <1>3, <1>4, <2>1 DEF StackIsFree, IInv
<1>6. NoneLost'
  BY <1>2, <1>3, <1>4 DEF IInv, NoneLost
<1>7. Cardinality(held') = Cardinality(held) + 1 /\ Cardinality(held) \in Nat
  BY <1>2, <1>3, HeldFinite, FS_AddElement DEF IInv
<1>8. CountExact' /\ Room'
  <2>1. s_inode_total' + Cardinality(held') = s_inode_total + Cardinality(held)
    BY <1>3, <1>7 DEF IInv
  <2>2. Len(s_inode') + Cardinality(held') = Len(s_inode) + Cardinality(held)
    BY <1>1, <1>7 DEF n
  <2> QED BY <2>1, <2>2 DEF IInv, CountExact, Room
<1> QED BY <1>1, <1>3, <1>5, <1>6, <1>8 DEF IInv

LEMMA IfreeKeeps ==
  ASSUME IInv, NEW ino \in held, Ifree(ino)
  PROVE  IInv'
<1> DEFINE n == Len(s_inode)
<1>1. ino \in Inode /\ ino \notin Stacked /\ s_inode \in Seq(Inode) /\ n \in Nat
  BY DEF IInv, StackIsFree
<1>2. Cardinality(held') = Cardinality(held) - 1 /\ Cardinality(held) \in Nat \ {0}
  <2>1. Cardinality(held \ {ino}) = Cardinality(held) - 1
    BY HeldFinite, FS_RemoveElement DEF IInv
  <2>2. Cardinality(held \ {ino}) \in Nat
    <3>1. held \ {ino} \subseteq held
      OBVIOUS
    <3> QED BY <3>1, HeldFinite, FS_Subset, FS_CardinalityType DEF IInv
  <2>3. Cardinality(held) \in Nat
    BY HeldFinite DEF IInv
  <2> QED BY <2>1, <2>2, <2>3 DEF Ifree
<1>3. n < NICINOD
  BY <1>1, <1>2, Counts, FreeInodesAssumption DEF IInv, Room
<1>4. /\ s_inode' = Append(s_inode, ino) /\ s_rinode' = s_rinode
      /\ held' = held \ {ino} /\ s_inode_total' = s_inode_total + 1
  BY <1>3 DEF Ifree
<1>5. /\ s_inode' \in Seq(Inode) /\ Len(s_inode') = n + 1
      /\ \A i \in 1 .. n : s_inode'[i] = s_inode[i]
      /\ s_inode'[n + 1] = ino
  BY <1>1, <1>4
<1>6. \A i \in 1 .. n + 1 : i = n + 1 \/ i \in 1 .. n
  BY <1>1
<1>7. Stacked' = Stacked \cup {ino}
  <2>1. \A i \in 1 .. n + 1 : s_inode'[i] \in Stacked \cup {ino}
    BY <1>5, <1>6 DEF Stacked
  <2>2. \A i \in 1 .. n : i \in 1 .. n + 1 /\ s_inode'[i] = s_inode[i]
    BY <1>1, <1>5
  <2>3. n + 1 \in 1 .. n + 1
    BY <1>1
  <2> QED BY <1>5, <2>1, <2>2, <2>3 DEF Stacked
<1>8. \A i \in 1 .. n : s_inode[i] # ino
  BY <1>1 DEF Stacked
<1> HIDE DEF n
<1>9. StackIsFree'
  <2>1. ASSUME NEW i \in 1 .. n + 1, NEW j \in 1 .. n + 1, s_inode'[i] = s_inode'[j]
        PROVE  i = j
    BY <1>5, <1>6, <1>8, <2>1 DEF IInv, StackIsFree, n
  <2> QED BY <1>4, <1>5, <1>7, <2>1 DEF StackIsFree, IInv
<1>10. NoneLost'
  BY <1>4, <1>7 DEF IInv, NoneLost
<1>11. CountExact' /\ Room'
  <2>1. s_inode_total' + Cardinality(held') = s_inode_total + Cardinality(held)
    BY <1>2, <1>4 DEF IInv
  <2>2. Len(s_inode') + Cardinality(held') = Len(s_inode) + Cardinality(held)
    BY <1>1, <1>2, <1>5 DEF n
  <2> QED BY <2>1, <2>2 DEF IInv, CountExact, Room
<1> QED BY <1>4, <1>5, <1>9, <1>10, <1>11 DEF IInv

LEMMA InodeInvariant == Spec => []IInv
<1>1. IInv /\ [Next]_vars => IInv'
  <2>1. IInv /\ UNCHANGED vars => IInv'
    BY DEF vars, IInv, StackIsFree, NoneLost, CountExact, Room, Stacked
  <2> QED BY <2>1, IallocKeeps, IfreeKeeps DEF Next
<1> QED BY <1>1, InitIInv, PTL DEF Spec

LEMMA IInvTypes == IInv => TypeOK
<1> SUFFICES ASSUME IInv PROVE TypeOK
  OBVIOUS
<1>1. /\ Cardinality(held) \in Nat /\ Cardinality(held) <= INODE_TOTAL - reserved_inodes
      /\ Len(s_inode) \in Nat
  BY HeldFinite DEF IInv
<1>2. Len(s_inode) <= NICINOD
  BY <1>1, Counts, FreeInodesAssumption DEF IInv, Room
<1>3. s_inode_total \in 0 .. INODE_TOTAL - reserved_inodes
  BY <1>1, FreeInodesAssumption DEF IInv, CountExact
<1>4. s_rinode \in reserved_inodes .. INODE_TOTAL
  BY Counts, FreeInodesAssumption DEF IInv
<1> QED BY <1>2, <1>3, <1>4 DEF IInv, TypeOK

\* The stack stays within s_inode[NICINOD] and the counters in range.
THEOREM InodeTypes == Spec => []TypeOK
BY IInvTypes, InodeInvariant, PTL

\* No inode number is ever given to two files.
THEOREM InodeUnique == Spec => []StackIsFree
<1>1. IInv => StackIsFree
  BY DEF IInv
<1> QED BY <1>1, InodeInvariant, PTL

\* No number in circulation is lost, and ifree never meets a full stack.
THEOREM InodeNoneLost == Spec => []NoneLost
<1>1. IInv => NoneLost
  BY DEF IInv
<1> QED BY <1>1, InodeInvariant, PTL

\* The free-inode counter and the inodes in use always make up the disk's.
THEOREM InodeCount == Spec => []CountExact
<1>1. IInv => CountExact
  BY DEF IInv
<1> QED BY <1>1, InodeInvariant, PTL

-----------------------------------------------------------------------------
(* What survives a crash. *)

\* IInv of FreeInodes, of any super block and inodes in use.
GoodInodes(stack, rinode, total, h) ==
  /\ stack \in Seq(Inode) /\ total \in Int
  /\ rinode = reserved_inodes + StackCount
  /\ h \subseteq Inode
  /\ \A i, j \in 1 .. Len(stack) : stack[i] = stack[j] => i = j
  /\ {stack[i] : i \in 1 .. Len(stack)} \cap h = {}
  /\ {stack[i] : i \in 1 .. Len(stack)} \cup h
       = reserved_inodes .. reserved_inodes + StackCount - 1
  /\ total + Cardinality(h) = INODE_TOTAL - reserved_inodes
  /\ Len(stack) + Cardinality(h) = StackCount

\* BlocksExact, of any free blocks, inodes in use and blocks of inodes.
GoodBlocks(free, h, c) ==
  /\ c \in [Inode -> SUBSET Block]
  /\ free = {b \in Block : \A n \in Inode : b \notin c[n]}
  /\ \A m, n \in Inode : \A b \in Block : b \in c[m] /\ b \in c[n] => m = n
  /\ \A n \in Inode \ h : c[n] = {}

Good(super, h, c) ==
  /\ GoodInodes(super.inode, super.rinode, super.total, h)
  /\ GoodBlocks(super.free, h, c)

GoodMemory ==
  /\ GoodInodes(s_inode, s_rinode, s_inode_total, held)
  /\ GoodBlocks(s_free, held, content)

DInv ==
  /\ GoodMemory
  /\ (phase # "up" \/ ~mounted) => Good(dev_super, held, content)
  /\ \A disk \in host : Good(disk.super, disk.held, disk.content)
  /\ phase \in {"saving", "exiting"} => host = {}

LEMMA GoodIsIInv == IInv <=> GoodInodes(s_inode, s_rinode, s_inode_total, held)
BY DEF IInv, GoodInodes, StackIsFree, NoneLost, CountExact, Room, Stacked

LEMMA GoodIsIInvNext ==
  IInv' <=> GoodInodes(s_inode', s_rinode', s_inode_total', held')
BY DEF IInv, GoodInodes, StackIsFree, NoneLost, CountExact, Room, Stacked

LEMMA SuperIsMemory ==
  /\ GoodMemory => Good(Super, held, content)
  /\ GoodMemory' => Good(Super', held', content')
BY DEF GoodMemory, Good, Super

\* A volume that was just formatted.
LEMMA FreshIsGood ==
  (load(Fresh) /\ held' = {} /\ content' = [ino \in Inode |-> {}]) => GoodMemory'
<1> SUFFICES ASSUME load(Fresh), held' = {}, content' = [ino \in Inode |-> {}]
             PROVE  GoodMemory'
  OBVIOUS
<1>1. Init' => IInv'
  BY InitIInv, PTL
<1>2. Init'
  BY DEF Init, load, Fresh
<1>3. GoodBlocks(s_free', held', content')
  BY DEF GoodBlocks, load, Fresh
<1> QED BY <1>1, <1>2, <1>3, GoodIsIInvNext DEF GoodMemory

\* The blocks of an inode are given back.
LEMMA GivenBack ==
  ASSUME GoodMemory, NEW ino \in held,
         s_free' = s_free \cup content[ino],
         content' = [content EXCEPT ![ino] = {}],
         held' = held \/ held' = held \ {ino}
  PROVE  GoodBlocks(s_free', held', content')
<1>1. ino \in Inode /\ GoodBlocks(s_free, held, content)
  BY DEF GoodMemory, GoodInodes
<1>2. content' \in [Inode -> SUBSET Block]
  BY <1>1 DEF GoodBlocks
<1>3. \A n \in Inode : content'[n] = IF n = ino THEN {} ELSE content[n]
  BY <1>1 DEF GoodBlocks
<1>4. content[ino] \subseteq Block
  BY <1>1 DEF GoodBlocks
<1>5. s_free' = {b \in Block : \A n \in Inode : b \notin content'[n]}
  BY <1>1, <1>3, <1>4 DEF GoodBlocks
<1>6. \A n \in Inode \ held' : content'[n] = {}
  BY <1>1, <1>3 DEF GoodBlocks
<1>7. \A m, n \in Inode : \A b \in Block : b \in content'[m] /\ b \in content'[n] => m = n
  BY <1>1, <1>3 DEF GoodBlocks
<1> QED BY <1>2, <1>5, <1>6, <1>7 DEF GoodBlocks

\* What is in memory stays good, whatever the engine does.
LEMMA MemoryKept == DInv /\ [DNext]_dvars => GoodMemory'
<1> SUFFICES ASSUME DInv, [DNext]_dvars PROVE GoodMemory'
  OBVIOUS
<1>0. GoodMemory /\ IInv
  BY GoodIsIInv DEF DInv, GoodMemory
<1>1. CASE UNCHANGED <<memVars, devVars>>
  BY <1>0, <1>1 DEF memVars, devVars, GoodMemory
<1>2. ASSUME NEW mine \in {{}} \cup {{b} : b \in s_free}, fs_create(mine)
      PROVE  GoodMemory'
  <2> DEFINE new == s_inode[Len(s_inode)]
  <2>1. /\ IInv' /\ held' = held \cup {new}
        /\ s_free' = s_free \ mine /\ content' = [content EXCEPT ![new] = mine]
    BY <1>0, <1>2, IallocKeeps DEF fs_create, Ialloc
  <2>2. GoodBlocks(s_free, held, content)
    BY <1>0 DEF GoodMemory
  <2>3. new \in Inode /\ new \notin held
    <3>1. s_inode \in Seq(Inode) /\ s_inode # << >> /\ Stacked \cap held = {}
      BY <1>0, <1>2 DEF IInv, StackIsFree, fs_create, Ialloc
    <3>2. Len(s_inode) \in 1 .. Len(s_inode)
      BY <3>1
    <3> QED BY <3>1, <3>2 DEF Stacked
  <2> HIDE DEF new
  <2>4. /\ mine \subseteq s_free /\ mine \subseteq Block
        /\ \A n \in Inode : mine \cap content[n] = {}
    BY <2>2 DEF GoodBlocks
  <2>5. content[new] = {}
    BY <2>2, <2>3 DEF GoodBlocks
  <2>6. /\ content' \in [Inode -> SUBSET Block]
        /\ \A n \in Inode : content'[n] = IF n = new THEN mine ELSE content[n]
    BY <2>1, <2>2, <2>3, <2>4 DEF GoodBlocks
  <2>7. s_free' = {b \in Block : \A n \in Inode : b \notin content'[n]}
    BY <2>1, <2>2, <2>3, <2>4, <2>5, <2>6 DEF GoodBlocks
  <2>8. \A m, n \in Inode : \A b \in Block : b \in content'[m] /\ b \in content'[n] => m = n
    BY <2>2, <2>4, <2>6 DEF GoodBlocks
  <2>9. \A n \in Inode \ held' : content'[n] = {}
    BY <2>1, <2>2, <2>6 DEF GoodBlocks
  <2>10. GoodBlocks(s_free', held', content')
    BY <2>6, <2>7, <2>8, <2>9 DEF GoodBlocks
  <2> QED BY <2>1, <2>10, GoodIsIInvNext DEF GoodMemory
<1>3. ASSUME NEW ino \in held, fs_delete(ino)
      PROVE  GoodMemory'
  <2>1. IInv' /\ held' = held \ {ino}
    BY <1>0, <1>3, IfreeKeeps DEF fs_delete, Ifree
  <2>2. GoodBlocks(s_free', held', content')
    BY <1>0, <1>3, <2>1, GivenBack DEF fs_delete
  <2> QED BY <2>1, <2>2, GoodIsIInvNext DEF GoodMemory
<1>4. ASSUME NEW ino \in held, fs_open_trunc(ino)
      PROVE  GoodMemory'
  <2>1. GoodBlocks(s_free', held', content')
    BY <1>0, <1>4, GivenBack DEF fs_open_trunc
  <2> QED BY <1>0, <1>4, <2>1 DEF GoodMemory, fs_open_trunc
<1>5. ASSUME NEW ino \in held, NEW b \in s_free, fs_write(ino, b)
      PROVE  GoodMemory'
  <2>1. ino \in Inode /\ GoodBlocks(s_free, held, content)
    BY <1>0 DEF GoodMemory, GoodInodes
  <2>2. /\ b \in Block /\ s_free' = s_free \ {b} /\ UNCHANGED held
        /\ content' = [content EXCEPT ![ino] = @ \cup {b}]
    BY <1>5, <2>1 DEF fs_write, GoodBlocks
  <2>3. /\ content' \in [Inode -> SUBSET Block]
        /\ \A n \in Inode : content'[n] = IF n = ino THEN content[n] \cup {b} ELSE content[n]
    BY <2>1, <2>2 DEF GoodBlocks
  <2>4. s_free' = {x \in Block : \A n \in Inode : x \notin content'[n]}
    BY <2>1, <2>2, <2>3 DEF GoodBlocks
  <2>5. \A m, n \in Inode : \A x \in Block : x \in content'[m] /\ x \in content'[n] => m = n
    BY <2>1, <2>2, <2>3 DEF GoodBlocks
  <2>6. \A n \in Inode \ held' : content'[n] = {}
    BY <2>1, <2>2, <2>3 DEF GoodBlocks
  <2> QED BY <1>0, <1>5, <2>3, <2>4, <2>5, <2>6
       DEF GoodMemory, GoodBlocks, fs_write
<1>6. CASE fs_format
  BY <1>6, FreshIsGood DEF fs_format
<1>7. CASE switch_back
  <2>1. Good(dev_super, held, content)
    BY <1>7 DEF DInv, switch_back
  <2> QED BY <1>7, <2>1 DEF switch_back, fs_mount, load, Good, GoodMemory, devVars
<1>8. CASE restart
  <2>1. PICK image \in host : /\ held' = image.held /\ content' = image.content
                              /\ load(image.super)
    BY <1>8 DEF restart, fs_mount
  <2>2. Good(image.super, image.held, image.content)
    BY <2>1 DEF DInv
  <2> QED BY <2>1, <2>2 DEF load, Good, GoodMemory
<1> QED
  BY <1>1, <1>2, <1>3, <1>4, <1>5, <1>6, <1>7, <1>8
     DEF DNext, dvars, fs_close, save_to_file, switch_away, exit, restart_format

\* And so does what may be loaded later.
LEMMA DInvKept == DInv /\ [DNext]_dvars => DInv'
<1> SUFFICES ASSUME DInv, [DNext]_dvars PROVE DInv'
  OBVIOUS
<1>0. GoodMemory /\ GoodMemory' /\ Good(Super, held, content) /\ Good(Super', held', content')
  BY MemoryKept, SuperIsMemory DEF DInv
<1>1. CASE UNCHANGED dvars
  BY <1>0, <1>1 DEF dvars, memVars, devVars, DInv
<1>2. CASE sync
  BY <1>0, <1>2 DEF sync, DInv
<1>3. CASE save_to_file
  <2>1. Good(dev_super, held, content)
    BY <1>3 DEF save_to_file, DInv
  <2>2. \A disk \in host' : Good(disk.super, disk.held, disk.content)
    BY <1>3, <2>1 DEF save_to_file, Disk
  <2> QED BY <1>0, <1>3, <2>1, <2>2 DEF save_to_file, DInv, devVars
<1>4. CASE UNCHANGED <<host, phase>> /\ phase = "up" /\ mounted'
  BY <1>0, <1>4 DEF DInv
<1>5. CASE switch_away
  BY <1>0, <1>5 DEF switch_away, fs_unmount, Calling, DInv, devVars
<1>6. CASE exit
  BY <1>0, <1>6 DEF exit, fs_unmount, DInv, devVars
<1>7. CASE restart
  BY <1>0, <1>7 DEF restart, fs_mount, DInv
<1> QED
  BY <1>1, <1>2, <1>3, <1>4, <1>5, <1>6, <1>7
     DEF DNext, fs_create, fs_delete, fs_close, fs_write, fs_open_trunc, fs_format,
         restart_format, switch_back, fs_mount, Calling

LEMMA DInitDInv == DInit => DInv
<1> SUFFICES ASSUME DInit PROVE DInv
  OBVIOUS
<1>1. GoodInodes(s_inode, s_rinode, s_inode_total, held)
  BY InitIInv, GoodIsIInv DEF DInit
<1>2. GoodBlocks(s_free, held, content)
  BY DEF DInit, GoodBlocks
<1>3. Good(dev_super, held, content)
  BY <1>1, <1>2, SuperIsMemory DEF DInit, GoodMemory
<1> QED BY <1>1, <1>2, <1>3 DEF DInit, DInv, GoodMemory

LEMMA DurableInvariant == DSpec => []DInv
BY DInitDInv, DInvKept, PTL DEF DSpec

LEMMA DInvIInv == DInv => IInv
BY GoodIsIInv DEF DInv, GoodMemory

\* The stack and the counters stay in range over all mounts and crashes.
THEOREM DurableTypes == DSpec => []TypeOK
BY DurableInvariant, DInvIInv, IInvTypes, PTL

\* No inode number is given to two files, also after a restart from an image
\* or a return to an engine that was left.
THEOREM DurableUnique == DSpec => []StackIsFree
<1>1. IInv => StackIsFree
  BY DEF IInv
<1> QED BY <1>1, DurableInvariant, DInvIInv, PTL

\* Nor is one lost.
THEOREM DurableNoneLost == DSpec => []NoneLost
<1>1. IInv => NoneLost
  BY DEF IInv
<1> QED BY <1>1, DurableInvariant, DInvIInv, PTL

\* The counter of free inodes is exact after every mount.
THEOREM DurableCount == DSpec => []CountExact
<1>1. IInv => CountExact
  BY DEF IInv
<1> QED BY <1>1, DurableInvariant, DInvIInv, PTL

LEMMA GoodFree ==
  ASSUME NEW free, NEW h, NEW c, GoodBlocks(free, h, c)
  PROVE  free = Block \ UNION {c[n] : n \in Inode}
BY DEF GoodBlocks

\* Each block is free or in one file, whatever was brought back and when.
THEOREM DurableBlocks == DSpec => []BlocksExact
<1>1. DInv => BlocksExact
  <2> SUFFICES ASSUME DInv PROVE BlocksExact
    OBVIOUS
  <2>1. GoodBlocks(s_free, held, content)
    BY DEF DInv, GoodMemory
  <2>2. s_free = Block \ UNION {content[ino] : ino \in Inode}
    BY <2>1, GoodFree
  <2>3. \A m, n \in Inode : m # n => content[m] \cap content[n] = {}
    BY <2>1 DEF GoodBlocks
  <2> QED BY <2>1, <2>2, <2>3 DEF BlocksExact, GoodBlocks
<1> QED BY <1>1, DurableInvariant, PTL

\* Every super block that is loaded agrees with the inodes it is loaded for.
THEOREM DurableImages == DSpec => []ImageAgrees
<1>1. DInv => ImageAgrees
  <2> SUFFICES ASSUME DInv, NEW disk \in host \cup (IF mounted THEN {} ELSE {Disk})
               PROVE  /\ {disk.super.inode[i] : i \in 1 .. Len(disk.super.inode)}
                           = (reserved_inodes .. reserved_inodes + StackCount - 1) \ disk.held
                      /\ disk.super.total + Cardinality(disk.held)
                           = INODE_TOTAL - reserved_inodes
                      /\ disk.super.free = Block \ UNION {disk.content[ino] : ino \in Inode}
    BY DEF ImageAgrees
  <2>1. Good(disk.super, disk.held, disk.content)
    BY DEF DInv, Disk
  <2>2. disk.super.free = Block \ UNION {disk.content[ino] : ino \in Inode}
    BY <2>1, GoodFree DEF Good
  <2>3. {disk.super.inode[i] : i \in 1 .. Len(disk.super.inode)}
          = (reserved_inodes .. reserved_inodes + StackCount - 1) \ disk.held
    BY <2>1 DEF Good, GoodInodes
  <2> QED BY <2>1, <2>2, <2>3 DEF Good, GoodInodes
<1> QED BY <1>1, DurableInvariant, PTL
=============================================================================
