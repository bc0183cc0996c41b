-------------------------- MODULE FreeBlocks_proofs --------------------------
(***************************************************************************)
(* Proofs about FreeBlocks, for every size of the data area and of a       *)
(* group, and for every payload: as long as no caller asks for a block     *)
(* when none is free, the linked groups are a pool of blocks.              *)
(***************************************************************************)
EXTENDS FreeBlocks, Stepwise, FiniteSetTheorems, SequenceTheorems, TLAPS

-----------------------------------------------------------------------------
(* The inductive invariant: a chain of storage blocks leads from the stack *)
(* through full groups to END_OF_CHAIN, and the blocks it leads to are     *)
(* the free ones, each of them once.                                       *)

Storage(chain) == {chain[k] : k \in 1 .. Len(chain)}
Entries(g) == {g[i] : i \in 2 .. Len(g)}
Nth(chain, k) == IF k <= Len(chain) THEN chain[k] ELSE END_OF_CHAIN

GroupOK(g) ==
  /\ g \in Seq(Nat)
  /\ Entries(g) \subseteq Block
  /\ \A i, j \in 2 .. Len(g) : g[i] = g[j] => i = j

Chained(chain) ==
  /\ chain \in Seq(Block)
  /\ \A j, k \in 1 .. Len(chain) : chain[j] = chain[k] => j = k
  /\ s_free[1] = Nth(chain, 1)
  /\ \A k \in 1 .. Len(chain) : disk[chain[k]][1] = Nth(chain, k + 1)

GroupsOK(S) ==
  /\ GroupOK(s_free) /\ Len(s_free) \in 1 .. NICFREE
  /\ \A s \in S : GroupOK(disk[s]) /\ Len(disk[s]) = NICFREE

Apart(S) ==
  /\ Entries(s_free) \cap S = {}
  /\ \A s \in S : Entries(disk[s]) \cap S = {}
  /\ \A s \in S : Entries(disk[s]) \cap Entries(s_free) = {}
  /\ \A s, t \in S : s # t => Entries(disk[s]) \cap Entries(disk[t]) = {}

Listed(S) == S \cup Entries(s_free) \cup UNION {Entries(disk[s]) : s \in S}

ListOK(chain) ==
  /\ Chained(chain)
  /\ GroupsOK(Storage(chain))
  /\ Apart(Storage(chain))
  /\ Listed(Storage(chain)) = Block \ held

IInv ==
  /\ disk \in [AllBlocks -> Seq(Nat)]
  /\ held \subseteq Block
  /\ ret \in Block \cup {INVALID_BLK}
  /\ s_free_total \in Int
  /\ CountExact
  /\ \E chain \in Seq(Block) : ListOK(chain)

-----------------------------------------------------------------------------
(* Sequences as chains. *)

\* The storage blocks left when the head of the chain has been granted.
LEMMA StorageTail ==
  ASSUME NEW chain \in Seq(Block), Len(chain) >= 1,
         \A j, k \in 1 .. Len(chain) : chain[j] = chain[k] => j = k
  PROVE  /\ Tail(chain) \in Seq(Block)
         /\ Len(Tail(chain)) = Len(chain) - 1
         /\ \A k \in 1 .. Len(Tail(chain)) : Tail(chain)[k] = chain[k + 1]
         /\ Storage(Tail(chain)) = Storage(chain) \ {chain[1]}
<1>1. /\ Tail(chain) \in Seq(Block)
      /\ Len(Tail(chain)) = Len(chain) - 1
      /\ \A k \in 1 .. Len(Tail(chain)) : Tail(chain)[k] = chain[k + 1]
  OBVIOUS
<1>2. Storage(Tail(chain)) \subseteq Storage(chain) \ {chain[1]}
  BY <1>1 DEF Storage
<1>3. ASSUME NEW k \in 1 .. Len(chain), chain[k] # chain[1]
      PROVE  chain[k] \in Storage(Tail(chain))
  <2>1. k - 1 \in 1 .. Len(Tail(chain)) /\ Tail(chain)[k - 1] = chain[k]
    BY <1>1, <1>3
  <2> QED BY <2>1 DEF Storage
<1> QED BY <1>1, <1>2, <1>3 DEF Storage

\* The storage blocks when b becomes the head of the chain.
LEMMA StorageCons ==
  ASSUME NEW chain \in Seq(Block), NEW b \in Block
  PROVE  /\ <<b>> \o chain \in Seq(Block)
         /\ Len(<<b>> \o chain) = Len(chain) + 1
         /\ (<<b>> \o chain)[1] = b
         /\ \A k \in 1 .. Len(chain) : (<<b>> \o chain)[k + 1] = chain[k]
         /\ Storage(<<b>> \o chain) = Storage(chain) \cup {b}
<1>1. /\ <<b>> \o chain \in Seq(Block)
      /\ Len(<<b>> \o chain) = Len(chain) + 1
      /\ (<<b>> \o chain)[1] = b
      /\ \A k \in 1 .. Len(chain) : (<<b>> \o chain)[k + 1] = chain[k]
  OBVIOUS
<1>2. ASSUME NEW k \in 1 .. Len(chain)
      PROVE  chain[k] \in Storage(<<b>> \o chain)
  <2>1. k + 1 \in 1 .. Len(<<b>> \o chain)
    BY <1>1
  <2> QED BY <1>1, <2>1 DEF Storage
<1>3. ASSUME NEW k \in 1 .. Len(<<b>> \o chain), k # 1
      PROVE  (<<b>> \o chain)[k] \in Storage(chain)
  <2>1. k - 1 \in 1 .. Len(chain) /\ (<<b>> \o chain)[k] = chain[k - 1]
    BY <1>1, <1>3
  <2> QED BY <2>1 DEF Storage
<1>4. b \in Storage(<<b>> \o chain)
  BY <1>1 DEF Storage
<1> QED BY <1>1, <1>2, <1>3, <1>4 DEF Storage

\* The head of a chain that is not at its end is a storage block.
LEMMA HeadIsStored ==
  ASSUME NEW chain \in Seq(Block), Nth(chain, 1) # END_OF_CHAIN
  PROVE  Len(chain) >= 1 /\ Nth(chain, 1) = chain[1] /\ chain[1] \in Storage(chain)
BY DEF Nth, Storage

-----------------------------------------------------------------------------
(* Groups: what popping and pushing does to the entries. *)

\* Popping the top of a group removes that entry and no other.
LEMMA GroupPop ==
  ASSUME NEW g, GroupOK(g), Len(g) >= 2,
         NEW f \in Seq(Nat), Len(f) = Len(g) - 1,
         \A i \in 1 .. Len(g) - 1 : f[i] = g[i]
  PROVE  /\ GroupOK(f) /\ f[1] = g[1]
         /\ g[Len(g)] \in Entries(g)
         /\ Entries(f) = Entries(g) \ {g[Len(g)]}
<1>1. g \in Seq(Nat) /\ Len(g) \in Nat /\ Len(g) >= 2
  BY DEF GroupOK
<1>2. Len(f) \in Nat /\ Len(f) = Len(g) - 1 /\ \A i \in 1 .. Len(g) - 1 : f[i] = g[i]
  OBVIOUS
<1>3. g[Len(g)] \in Entries(g)
  BY <1>1 DEF Entries
<1>4. ASSUME NEW x \in Entries(f)
      PROVE  x \in Entries(g) \ {g[Len(g)]}
  <2>1. PICK i \in 2 .. Len(f) : x = f[i]
    BY DEF Entries
  <2>2. i \in 2 .. Len(g) - 1
    BY <1>2, <2>1
  <2>3. i \in 2 .. Len(g) /\ i # Len(g) /\ x = g[i]
    <3>1. i \in 1 .. Len(g) - 1 /\ i \in 2 .. Len(g) /\ i # Len(g)
      BY <1>1, <2>2
    <3> QED BY <1>2, <2>1, <3>1
  <2>4. g[i] # g[Len(g)]
    <3>1. Len(g) \in 2 .. Len(g)
      BY <1>1
    <3>2. \A k, m \in 2 .. Len(g) : g[k] = g[m] => k = m
      BY DEF GroupOK
    <3> QED BY <2>3, <3>1, <3>2
  <2> QED BY <2>3, <2>4 DEF Entries
<1>5. ASSUME NEW x \in Entries(g), x # g[Len(g)]
      PROVE  x \in Entries(f)
  <2>1. PICK i \in 2 .. Len(g) : x = g[i]
    BY DEF Entries
  <2>2. i \in 2 .. Len(f) /\ x = f[i]
    <3>1. i # Len(g)
      BY <1>5, <2>1
    <3>2. i \in 1 .. Len(g) - 1 /\ i \in 2 .. Len(f)
      BY <1>1, <1>2, <2>1, <3>1
    <3> QED BY <1>2, <2>1, <3>2
  <2> QED BY <2>2 DEF Entries
<1>6. \A i, j \in 2 .. Len(f) : f[i] = f[j] => i = j
  <2>1. ASSUME NEW i \in 2 .. Len(f)
        PROVE  i \in 2 .. Len(g) /\ f[i] = g[i]
    <3>1. i \in 1 .. Len(g) - 1 /\ i \in 2 .. Len(g)
      BY <1>1, <1>2
    <3> QED BY <1>2, <3>1
  <2> QED BY <2>1 DEF GroupOK
<1>7. f[1] = g[1]
  BY <1>1, <1>2
<1> QED BY <1>2, <1>3, <1>4, <1>5, <1>6, <1>7 DEF GroupOK

\* Pushing a block that is not yet in the group adds that entry and no other.
LEMMA GroupPush ==
  ASSUME NEW g, GroupOK(g), Len(g) >= 1,
         NEW b \in Block, b \notin Entries(g),
         NEW f \in Seq(Nat), Len(f) = Len(g) + 1, f[Len(g) + 1] = b,
         \A i \in 1 .. Len(g) : f[i] = g[i]
  PROVE  /\ GroupOK(f) /\ f[1] = g[1]
         /\ Entries(f) = Entries(g) \cup {b}
<1>1. g \in Seq(Nat) /\ Len(g) \in Nat
  BY DEF GroupOK
<1>3. /\ Len(f) \in Nat /\ Len(f) = Len(g) + 1
      /\ \A i \in 1 .. Len(g) : f[i] = g[i]
      /\ f[Len(g) + 1] = b
  OBVIOUS
<1>4. ASSUME NEW x \in Entries(f)
      PROVE  x \in Entries(g) \cup {b}
  <2>1. PICK i \in 2 .. Len(f) : x = f[i]
    BY DEF Entries
  <2>2. i = Len(g) + 1 \/ i \in 2 .. Len(g)
    BY <1>1, <1>3
  <2>3. CASE i = Len(g) + 1
    BY <1>3, <2>1, <2>3
  <2>4. CASE i \in 2 .. Len(g)
    <3>1. i \in 1 .. Len(g)
      BY <1>1, <2>4
    <3>2. x = g[i]
      BY <1>3, <2>1, <3>1
    <3> QED BY <2>4, <3>2 DEF Entries
  <2> QED BY <2>2, <2>3, <2>4
<1>5. ASSUME NEW x \in Entries(g) \cup {b}
      PROVE  x \in Entries(f)
  <2>1. CASE x = b
    <3>1. Len(g) + 1 \in 2 .. Len(f)
      BY <1>1, <1>3
    <3> QED BY <1>3, <2>1, <3>1 DEF Entries
  <2>2. CASE x \in Entries(g)
    <3>1. PICK i \in 2 .. Len(g) : x = g[i]
      BY <2>2 DEF Entries
    <3>2. i \in 2 .. Len(f) /\ x = f[i]
      BY <1>1, <1>3, <3>1
    <3> QED BY <3>2 DEF Entries
  <2> QED BY <1>5, <2>1, <2>2
<1>6. ASSUME NEW i \in 2 .. Len(f), NEW j \in 2 .. Len(f), f[i] = f[j]
      PROVE  i = j
  <2>1. \A k \in 2 .. Len(g) : f[k] = g[k] /\ g[k] # b
    BY <1>1, <1>3 DEF Entries
  <2>2. /\ i = Len(g) + 1 \/ i \in 2 .. Len(g)
        /\ j = Len(g) + 1 \/ j \in 2 .. Len(g)
    BY <1>1, <1>3
  <2> QED BY <1>3, <1>6, <2>1, <2>2 DEF GroupOK
<1>7. f[1] = g[1]
  BY <1>1, <1>3
<1> QED BY <1>3, <1>4, <1>5, <1>6, <1>7 DEF GroupOK

-----------------------------------------------------------------------------
(* Each call keeps the list. *)

\* The free blocks' count is the number of blocks nobody holds.
LEMMA HeldFinite ==
  ASSUME held \subseteq Block
  PROVE  IsFiniteSet(held) /\ Cardinality(held) \in Nat
<1>1. IsFiniteSet(Block)
  BY FS_Interval, FreeBlocksAssumption DEF Block
<1> QED BY <1>1, FS_Subset, FS_CardinalityType

LEMMA CountOnGrant ==
  ASSUME held \subseteq Block, CountExact, s_free_total \in Int,
         NEW b \in Block \ held,
         held' = held \cup {b}, s_free_total' = s_free_total - 1
  PROVE  CountExact'
<1>1. Cardinality(held') = Cardinality(held) + 1
  BY HeldFinite, FS_AddElement
<1>2. s_free_total' + Cardinality(held') = s_free_total + Cardinality(held)
  BY <1>1, HeldFinite
<1> QED BY <1>2 DEF CountExact, total_free

LEMMA CountOnFree ==
  ASSUME held \subseteq Block, CountExact, s_free_total \in Int,
         NEW b \in held,
         held' = held \ {b}, s_free_total' = s_free_total + 1
  PROVE  CountExact'
<1>1. Cardinality(held') = Cardinality(held) - 1
  BY HeldFinite, FS_RemoveElement
<1>2. s_free_total' + Cardinality(held') = s_free_total + Cardinality(held)
  BY <1>1, HeldFinite
<1> QED BY <1>2 DEF CountExact, total_free

\* All but the last of a sequence.
LEMMA AllButLast ==
  ASSUME NEW g \in Seq(Nat), Len(g) >= 1
  PROVE  /\ SubSeq(g, 1, Len(g) - 1) \in Seq(Nat)
         /\ Len(SubSeq(g, 1, Len(g) - 1)) = Len(g) - 1
         /\ \A i \in 1 .. Len(g) - 1 : SubSeq(g, 1, Len(g) - 1)[i] = g[i]
<1>1. \A i \in 1 .. Len(g) - 1 : g[i] \in Nat
  OBVIOUS
<1>2. PICK n \in Nat : n = Len(g) - 1
  OBVIOUS
<1>3. /\ SubSeq(g, 1, n) \in Seq(Nat)
      /\ Len(SubSeq(g, 1, n)) = IF 1 <= n THEN n - 1 + 1 ELSE 0
      /\ \A i \in 1 .. n - 1 + 1 : SubSeq(g, 1, n)[i] = g[1 + i - 1]
  BY <1>1, <1>2, SubSeqProperties
<1>4. n - 1 + 1 = n /\ \A i \in 1 .. n : 1 + i - 1 = i
  BY <1>2
<1>5. Len(SubSeq(g, 1, n)) = n /\ \A i \in 1 .. n : SubSeq(g, 1, n)[i] = g[i]
  BY <1>3, <1>4
<1> QED BY <1>2, <1>3, <1>5

\* Popping the stack grants a block nobody holds and leaves a list.
LEMMA PopKeepsList ==
  ASSUME held \subseteq Block, NEW chain \in Seq(Block), ListOK(chain), BallocPop
  PROVE  ListOK(chain)' /\ ret' \in Block \ held
<1> DEFINE S == Storage(chain)
           x == s_free[Len(s_free)]
<1>1. /\ GroupOK(s_free') /\ Len(s_free') = Len(s_free) - 1 /\ s_free'[1] = s_free[1]
      /\ x \in Entries(s_free) /\ Entries(s_free') = Entries(s_free) \ {x}
  <2>1. GroupOK(s_free) /\ Len(s_free) >= 2
    BY FreeBlocksAssumption DEF ListOK, GroupsOK, BallocPop
  <2>2. /\ s_free' \in Seq(Nat) /\ Len(s_free') = Len(s_free) - 1
        /\ \A i \in 1 .. Len(s_free) - 1 : s_free'[i] = s_free[i]
    <3>1. s_free \in Seq(Nat) /\ Len(s_free) >= 1
      BY <2>1 DEF GroupOK
    <3>2. s_free' = SubSeq(s_free, 1, Len(s_free) - 1)
      BY DEF BallocPop
    <3> QED BY <3>1, <3>2, AllButLast
  <2> QED BY <2>1, <2>2, GroupPop
<1>2. x \in Block \ held
  BY <1>1 DEF ListOK, Listed
<1>3. Chained(chain)'
  BY <1>1 DEF ListOK, Chained, BallocPop, Nth
<1>4. GroupsOK(S)'
  <2>1. GroupsOK(S) /\ disk' = disk /\ Len(s_free) > 1
    BY DEF ListOK, BallocPop
  <2>2. Len(s_free') \in 1 .. NICFREE
    BY <1>1, <2>1, FreeBlocksAssumption DEF GroupsOK
  <2> HIDE DEF S
  <2> QED BY <1>1, <2>1, <2>2 DEF GroupsOK
<1>5. Apart(S)'
  <2>1. Apart(S) /\ disk' = disk
    BY DEF ListOK, BallocPop
  <2> HIDE DEF S, x
  <2> QED BY <1>1, <2>1 DEF Apart
<1>6. Listed(S)' = Block \ held'
  <2>1. x \notin S /\ \A s \in S : x \notin Entries(disk[s])
    BY <1>1 DEF ListOK, Apart
  <2>2. Listed(S) = Block \ held /\ disk' = disk /\ held' = held \cup {x}
    BY DEF ListOK, BallocPop
  <2> HIDE DEF S, x
  <2>3. Listed(S)' = Listed(S) \ {x}
    BY <1>1, <2>1, <2>2 DEF Listed
  <2> QED BY <2>2, <2>3
<1> QED BY <1>2, <1>3, <1>4, <1>5, <1>6 DEF ListOK, BallocPop, Storage

\* Loading the next group grants the block that stored it.
LEMMA LoadKeepsList ==
  ASSUME held \subseteq Block, NEW chain \in Seq(Block), ListOK(chain), BallocLoad
  PROVE  ListOK(Tail(chain))' /\ ret' \in Block \ held
<1> DEFINE S == Storage(chain)
           h == chain[1]
<1>1. h = s_free[1] /\ Len(chain) >= 1 /\ h \in S
  BY HeadIsStored DEF BallocLoad, ListOK, Chained
<1>2. /\ Tail(chain) \in Seq(Block)
      /\ Len(Tail(chain)) = Len(chain) - 1
      /\ \A k \in 1 .. Len(Tail(chain)) : Tail(chain)[k] = chain[k + 1]
      /\ Storage(Tail(chain)) = S \ {h}
  BY <1>1, StorageTail DEF ListOK, Chained
<1>3. Entries(s_free) = {} /\ s_free' = disk[h] /\ disk' = disk
  BY <1>1 DEF BallocLoad, Entries
<1>4. h \in Block \ held
  BY <1>1 DEF ListOK, Listed
<1>5. Chained(Tail(chain))'
  <2>1. s_free'[1] = Nth(Tail(chain), 1)
    BY <1>1, <1>2, <1>3 DEF ListOK, Chained, Nth
  <2>2. ASSUME NEW k \in 1 .. Len(Tail(chain))
        PROVE  disk[Tail(chain)[k]][1] = Nth(Tail(chain), k + 1)
    <3>1. k + 1 \in 1 .. Len(chain) /\ Tail(chain)[k] = chain[k + 1]
      BY <1>2
    <3>2. disk[chain[k + 1]][1] = Nth(chain, k + 2)
      BY <3>1 DEF ListOK, Chained
    <3>3. Nth(chain, k + 2) = Nth(Tail(chain), k + 1)
      BY <1>2, <3>1 DEF Nth
    <3> QED BY <3>1, <3>2, <3>3
  <2>3. ASSUME NEW j \in 1 .. Len(Tail(chain)), NEW k \in 1 .. Len(Tail(chain)),
               Tail(chain)[j] = Tail(chain)[k]
        PROVE  j = k
    <3>1. j + 1 \in 1 .. Len(chain) /\ k + 1 \in 1 .. Len(chain)
      BY <1>2
    <3> QED BY <1>2, <2>3, <3>1 DEF ListOK, Chained
  <2> QED BY <1>2, <1>3, <2>1, <2>2, <2>3 DEF Chained, Nth
<1>6. GroupsOK(S \ {h})'
  BY <1>1, <1>3, FreeBlocksAssumption, SMTT(30) DEF ListOK, GroupsOK, GroupOK
<1>7. Apart(S \ {h})'
  <2>1. Apart(S)
    BY DEF ListOK
  <2>2. \A s \in S \ {h} : Entries(disk[s]) \cap Entries(disk[h]) = {}
    BY <1>1, <2>1 DEF Apart
  <2>3. Entries(disk[h]) \cap S = {}
    BY <1>1, <2>1 DEF Apart
  <2>4. /\ \A s \in S : Entries(disk[s]) \cap S = {}
        /\ \A s, t \in S : s # t => Entries(disk[s]) \cap Entries(disk[t]) = {}
    BY <2>1 DEF Apart
  <2> HIDE DEF h, S
  <2> QED BY <1>3, <2>2, <2>3, <2>4 DEF Apart
<1>8. Listed(S \ {h})' = Block \ held'
  <2>1. h \notin Entries(disk[h]) /\ \A s \in S : h \notin Entries(disk[s])
    BY <1>1 DEF ListOK, Apart
  <2>2. Listed(S \ {h})' = (S \ {h}) \cup Entries(disk[h])
                            \cup UNION {Entries(disk[s]) : s \in S \ {h}}
    BY <1>3 DEF Listed
  <2>3. Listed(S) = S \cup UNION {Entries(disk[s]) : s \in S}
    BY <1>3 DEF Listed
  <2>4. Listed(S \ {h})' = Listed(S) \ {h}
    <3> HIDE DEF h, S
    <3>1. \A z : z \in Listed(S \ {h})' => z \in Listed(S) \ {h}
      BY <1>1, <2>1, <2>2, <2>3
    <3>2. \A z : z \in Listed(S) \ {h} => z \in Listed(S \ {h})'
      BY <1>1, <2>1, <2>2, <2>3
    <3> QED BY <3>1, <3>2
  <2>5. Listed(S) = Block \ held /\ held' = held \cup {h}
    BY <1>1 DEF ListOK, BallocLoad
  <2> HIDE DEF S, h
  <2> QED BY <2>4, <2>5
<1>9. Storage(Tail(chain))' = S \ {h}
  BY <1>2 DEF Storage
<1>10. ret' = h
  BY <1>1 DEF BallocLoad
<1> HIDE DEF S, h
<1> QED BY <1>4, <1>5, <1>6, <1>7, <1>8, <1>9, <1>10 DEF ListOK

\* Storing a full stack in the freed block puts that block at the head.
LEMMA StoreKeepsList ==
  ASSUME held \subseteq Block, disk \in [AllBlocks -> Seq(Nat)],
         NEW chain \in Seq(Block), ListOK(chain),
         NEW b \in held, BfreeStore(b)
  PROVE  <<b>> \o chain \in Seq(Block) /\ ListOK(<<b>> \o chain)'
<1> DEFINE S == Storage(chain)
           longer == <<b>> \o chain
<1>1. b \in Block /\ b \notin S /\ b \notin Entries(s_free)
      /\ \A s \in S : b \notin Entries(disk[s])
  BY DEF ListOK, Listed
<1>2. /\ longer \in Seq(Block) /\ Len(longer) = Len(chain) + 1 /\ longer[1] = b
      /\ \A k \in 1 .. Len(chain) : longer[k + 1] = chain[k]
      /\ Storage(longer) = S \cup {b}
  BY <1>1, StorageCons
<1>3. /\ disk'[b] = s_free /\ \A s \in S : disk'[s] = disk[s]
      /\ s_free' = <<b>> /\ held' = held \ {b}
  <2>1. S \subseteq AllBlocks /\ b \in AllBlocks
    <3>1. Block \subseteq AllBlocks
      BY FreeBlocksAssumption DEF Block, AllBlocks
    <3>2. S \subseteq Block
      BY DEF Storage
    <3> QED BY <1>1, <3>1, <3>2
  <2> QED BY <1>1, <2>1 DEF BfreeStore
<1>4. Entries(s_free') = {}
  BY <1>3 DEF Entries
<1>5. Chained(longer)'
  <2>1. s_free'[1] = Nth(longer, 1)
    BY <1>2, <1>3 DEF Nth
  <2>2. ASSUME NEW k \in 1 .. Len(longer)
        PROVE  disk'[longer[k]][1] = Nth(longer, k + 1)
    <3>1. CASE k = 1
      <4>1. Nth(longer, 2) = Nth(chain, 1)
        BY <1>2 DEF Nth
      <4> QED BY <1>2, <1>3, <3>1, <4>1 DEF ListOK, Chained
    <3>2. CASE k # 1
      <4>1. k - 1 \in 1 .. Len(chain) /\ longer[k] = chain[k - 1]
        BY <1>2, <3>2
      <4>2. Nth(longer, k + 1) = Nth(chain, k)
        BY <1>2, <3>2 DEF Nth
      <4>3. disk[chain[k - 1]][1] = Nth(chain, k)
        BY <4>1 DEF ListOK, Chained
      <4>4. chain[k - 1] \in S
        BY <4>1 DEF Storage
      <4> QED BY <1>3, <4>1, <4>2, <4>3, <4>4
    <3> QED BY <3>1, <3>2
  <2>3. ASSUME NEW j \in 1 .. Len(longer), NEW k \in 1 .. Len(longer),
               longer[j] = longer[k]
        PROVE  j = k
    <3>1. \A i \in 1 .. Len(longer) :
             i # 1 => /\ i - 1 \in 1 .. Len(chain)
                      /\ longer[i] = chain[i - 1]
                      /\ longer[i] # b
      BY <1>1, <1>2 DEF Storage
    <3> QED BY <1>2, <2>3, <3>1 DEF ListOK, Chained
  <2> HIDE DEF longer
  <2> QED BY <1>2, <2>1, <2>2, <2>3 DEF Chained, Nth
<1>6. GroupsOK(S \cup {b})'
  <2>1. GroupsOK(S) /\ Len(s_free) = NICFREE
    BY DEF ListOK, BfreeStore
  <2>2. Len(s_free') \in 1 .. NICFREE /\ GroupOK(s_free')
    BY <1>1, <1>3, <1>4, FreeBlocksAssumption DEF GroupOK, Block
  <2> HIDE DEF S
  <2> QED BY <1>3, <2>1, <2>2 DEF GroupsOK
<1>7. Apart(S \cup {b})'
  <2>1. Apart(S)
    BY DEF ListOK
  <2> HIDE DEF S
  <2>2. \A s \in S \cup {b} : Entries(disk'[s]) \cap (S \cup {b}) = {}
    BY <1>1, <1>3, <2>1 DEF Apart
  <2>3. \A s, t \in S \cup {b} :
           s # t => Entries(disk'[s]) \cap Entries(disk'[t]) = {}
    BY <1>1, <1>3, <2>1 DEF Apart
  <2> QED BY <1>4, <2>2, <2>3 DEF Apart
<1>8. Listed(S \cup {b})' = Block \ held'
  <2>1. Listed(S) = Block \ held
    BY DEF ListOK
  <2> HIDE DEF S
  <2>2. \A z : z \in Listed(S \cup {b})' => z \in Listed(S) \cup {b}
    BY <1>1, <1>3, <1>4 DEF Listed
  <2>3. \A z : z \in Listed(S) \cup {b} => z \in Listed(S \cup {b})'
    BY <1>1, <1>3, <1>4 DEF Listed
  <2> QED BY <1>1, <1>3, <2>1, <2>2, <2>3
<1>9. Storage(longer)' = S \cup {b}
  BY <1>2 DEF Storage
<1> HIDE DEF S, longer
<1>10. ListOK(longer)'
  BY <1>5, <1>6, <1>7, <1>8, <1>9 DEF ListOK
<1> QED BY <1>2, <1>10 DEF longer

\* Pushing the freed block keeps the chain and lists that block.
LEMMA PushKeepsList ==
  ASSUME held \subseteq Block, NEW chain \in Seq(Block), ListOK(chain),
         NEW b \in held, BfreePush(b)
  PROVE  ListOK(chain)'
<1> DEFINE S == Storage(chain)
<1>1. b \in Block /\ b \notin S /\ b \notin Entries(s_free)
      /\ \A s \in S : b \notin Entries(disk[s])
  BY DEF ListOK, Listed
<1>2. /\ GroupOK(s_free) /\ Len(s_free) \in 1 .. NICFREE /\ Len(s_free) # NICFREE
      /\ s_free' = Append(s_free, b) /\ disk' = disk /\ held' = held \ {b}
  BY DEF ListOK, GroupsOK, BfreePush
<1>3. /\ GroupOK(s_free') /\ Len(s_free') = Len(s_free) + 1 /\ s_free'[1] = s_free[1]
      /\ Entries(s_free') = Entries(s_free) \cup {b}
  <2>1. b \in Nat /\ Len(s_free) >= 1 /\ s_free \in Seq(Nat)
    BY <1>1, <1>2, FreeBlocksAssumption DEF Block, GroupOK
  <2>2. /\ s_free' \in Seq(Nat) /\ Len(s_free') = Len(s_free) + 1
        /\ s_free'[Len(s_free) + 1] = b
        /\ \A i \in 1 .. Len(s_free) : s_free'[i] = s_free[i]
    BY <1>2, <2>1
  <2> QED BY <1>1, <1>2, <2>1, <2>2, GroupPush
<1>4. Chained(chain)'
  BY <1>2, <1>3 DEF ListOK, Chained, Nth
<1>5. GroupsOK(S)'
  <2>1. GroupsOK(S)
    BY DEF ListOK
  <2>2. Len(s_free') \in 1 .. NICFREE
    BY <1>2, <1>3, FreeBlocksAssumption
  <2> HIDE DEF S
  <2> QED BY <1>2, <1>3, <2>1, <2>2 DEF GroupsOK
<1>6. Apart(S)'
  <2>1. Apart(S)
    BY DEF ListOK
  <2> HIDE DEF S
  <2> QED BY <1>1, <1>2, <1>3, <2>1 DEF Apart
<1>7. Listed(S)' = Block \ held'
  <2>1. Listed(S) = Block \ held
    BY DEF ListOK
  <2> HIDE DEF S
  <2>2. Listed(S)' = Listed(S) \cup {b}
    BY <1>2, <1>3 DEF Listed
  <2> QED BY <1>1, <1>2, <2>1, <2>2
<1>8. Storage(chain)' = S
  BY DEF Storage
<1> HIDE DEF S
<1> QED BY <1>4, <1>5, <1>6, <1>7, <1>8 DEF ListOK

-----------------------------------------------------------------------------
(* The list that format builds. *)

\* Whole groups from the low numbers up, then the rest: no two overlap.
LEMMA FormatArithmetic ==
  /\ total_free \in Nat /\ total_free = DATA_BLK_NUM - reserved_blocks
  /\ Groups \in Nat
  /\ total_free % NICFREE \in 0 .. NICFREE - 1
  /\ StorageBlock(Groups + 1) + (total_free % NICFREE) = DATA_BLK_NUM
  /\ \A k \in 1 .. Groups + 1 : StorageBlock(k) \in Nat
  /\ StorageBlock(1) = reserved_blocks
  /\ \A j, k \in 1 .. Groups + 1 : j < k => StorageBlock(j) + NICFREE <= StorageBlock(k)
  /\ \A k \in 1 .. Groups : StorageBlock(k + 1) = StorageBlock(k) + NICFREE
<1> DEFINE N == NICFREE
<1>1. /\ total_free \in Nat /\ total_free = DATA_BLK_NUM - reserved_blocks
      /\ N \in Nat \ {0} /\ N >= 2 /\ reserved_blocks \in Nat /\ DATA_BLK_NUM \in Nat
  BY FreeBlocksAssumption DEF total_free
<1>2. /\ Groups \in Nat
      /\ total_free % N \in 0 .. N - 1
      /\ total_free = N * Groups + (total_free % N)
  BY <1>1, DivMod DEF Groups
<1>3. \A j, k \in Nat : j < k => (j * N) + N <= k * N
  <2> SUFFICES ASSUME NEW j \in Nat, NEW k \in Nat, j < k
               PROVE  (j * N) + N <= k * N
    OBVIOUS
  <2>1. k - j - 1 \in Nat /\ (k - j - 1) * N >= 0
    BY <1>1
  <2>2. (k - j - 1) * N = k * N - j * N - N
    BY <1>1
  <2>3. j * N \in Nat /\ k * N \in Nat
    BY <1>1
  <2> QED BY <1>1, <2>1, <2>2, <2>3
<1>4. StorageBlock(Groups + 1) + (total_free % N) = DATA_BLK_NUM
  <2>1. StorageBlock(Groups + 1) = reserved_blocks + N * Groups
    BY <1>1, <1>2 DEF StorageBlock
  <2> HIDE DEF N
  <2>2. N * Groups \in Nat
    BY <1>1, <1>2
  <2> DEFINE q == N * Groups
             r == total_free % N
  <2>3. q \in Nat /\ r \in Nat /\ total_free = q + r
    BY <1>1, <1>2, <2>2
  <2> HIDE DEF q, r
  <2>4. reserved_blocks + q + r = DATA_BLK_NUM
    BY <1>1, <2>3
  <2> QED BY <2>1, <2>4 DEF q, r
<1>5. \A k \in 1 .. Groups + 1 : k - 1 \in Nat /\ (k - 1) * N \in Nat
  BY <1>1, <1>2
<1>6. \A k \in 1 .. Groups + 1 : StorageBlock(k) \in Nat
  BY <1>1, <1>5 DEF StorageBlock
<1>7. ASSUME NEW j \in 1 .. Groups + 1, NEW k \in 1 .. Groups + 1, j < k
      PROVE  StorageBlock(j) + N <= StorageBlock(k)
  <2>1. (j - 1) * N + N <= (k - 1) * N
    BY <1>2, <1>3, <1>5, <1>7
  <2>2. (j - 1) * N \in Nat /\ (k - 1) * N \in Nat
    BY <1>5
  <2> QED BY <1>1, <2>1, <2>2 DEF StorageBlock
<1>8. ASSUME NEW k \in 1 .. Groups
      PROVE  StorageBlock(k + 1) = StorageBlock(k) + N
  <2>1. (k - 1) * N = k * N - N /\ k * N \in Nat
    BY <1>1, <1>2
  <2> QED BY <1>1, <2>1 DEF StorageBlock
<1>9. StorageBlock(1) = reserved_blocks
  BY <1>1 DEF StorageBlock
<1> QED BY <1>1, <1>2, <1>4, <1>6, <1>7, <1>8, <1>9 DEF total_free

\* What Init puts in a storage block.
LEMMA FormatDisk ==
  ASSUME Init, NEW k \in 1 .. Groups
  PROVE  /\ StorageBlock(k) \in Block
         /\ disk[StorageBlock(k)] = FormatGroup(k)
         /\ FormatGroup(k) \in Seq(Nat) /\ Len(FormatGroup(k)) = NICFREE
         /\ Entries(FormatGroup(k)) = StorageBlock(k) + 1 .. StorageBlock(k) + NICFREE - 1
<1> DEFINE s == StorageBlock(k)
<1>1. Groups \in Nat /\ NICFREE \in Nat /\ NICFREE >= 2 /\ k + 1 \in 1 .. Groups + 1
      /\ k \in 1 .. Groups + 1
  BY FormatArithmetic, FreeBlocksAssumption
<1>2. s \in Nat /\ reserved_blocks <= s /\ s + NICFREE <= DATA_BLK_NUM
  <2>1. s \in Nat
    BY <1>1, FormatArithmetic
  <2>2. reserved_blocks <= s
    <3>1. CASE k = 1
      BY <3>1, FormatArithmetic, FreeBlocksAssumption
    <3>2. CASE k # 1
      <4>1. StorageBlock(1) + NICFREE <= s
        BY <1>1, <3>2, FormatArithmetic
      <4> QED BY <4>1, <2>1, <1>1, FormatArithmetic, FreeBlocksAssumption
    <3> QED BY <3>1, <3>2
  <2>3. s + NICFREE <= StorageBlock(Groups + 1)
    BY <1>1, FormatArithmetic
  <2>4. StorageBlock(Groups + 1) <= DATA_BLK_NUM
    BY <1>1, FormatArithmetic, FreeBlocksAssumption
  <2> QED BY <1>1, <2>1, <2>2, <2>3, <2>4, FormatArithmetic, FreeBlocksAssumption
<1>3. s \in Block /\ s \in AllBlocks
  BY <1>1, <1>2, FreeBlocksAssumption DEF Block, AllBlocks
<1>4. ASSUME NEW j \in 1 .. Groups, StorageBlock(j) = s
      PROVE  j = k
  <2>1. j \in 1 .. Groups + 1 /\ StorageBlock(j) \in Nat
    BY <1>1, FormatArithmetic
  <2>2. ~ (j < k) /\ ~ (k < j)
    BY <1>1, <1>2, <1>4, <2>1, FormatArithmetic
  <2> QED BY <2>2
<1>5. disk[s] = FormatGroup(k)
  <2> HIDE DEF s
  <2>1. (CHOOSE j \in 1 .. Groups : s = StorageBlock(j)) = k
    BY <1>4 DEF s
  <2>2. \E j \in 1 .. Groups : s = StorageBlock(j)
    BY DEF s
  <2> QED BY <1>3, <2>1, <2>2 DEF Init
<1>6. PrevLink(k) \in Nat
  <2>1. k # 1 => k - 1 \in 1 .. Groups + 1
    BY <1>1
  <2> QED BY <2>1, FormatArithmetic DEF PrevLink, END_OF_CHAIN
<1>7. FormatGroup(k) \in [1 .. NICFREE -> Nat]
  <2> HIDE DEF s
  <2>1. \A i \in 1 .. NICFREE : s + i - 1 \in Nat
    BY <1>1, <1>2
  <2> QED BY <1>6, <2>1 DEF FormatGroup, s
<1>8. FormatGroup(k) \in Seq(Nat) /\ Len(FormatGroup(k)) = NICFREE
  BY <1>1, <1>7
<1>9. ASSUME NEW x \in Entries(FormatGroup(k))
      PROVE  x \in s + 1 .. s + NICFREE - 1
  <2>1. PICK i \in 2 .. NICFREE : x = FormatGroup(k)[i]
    BY <1>8 DEF Entries
  <2>2. x = s + i - 1
    BY <1>1, <2>1 DEF FormatGroup
  <2> HIDE DEF s
  <2> QED BY <1>1, <1>2, <2>2
<1>10. ASSUME NEW x \in s + 1 .. s + NICFREE - 1
       PROVE  x \in Entries(FormatGroup(k))
  <2>1. x - s + 1 \in 2 .. NICFREE /\ s + (x - s + 1) - 1 = x
    <3> HIDE DEF s
    <3> QED BY <1>1, <1>2
  <2>2. FormatGroup(k)[x - s + 1] = x
    BY <1>1, <2>1 DEF FormatGroup
  <2> QED BY <1>8, <2>1, <2>2 DEF Entries
<1> QED BY <1>3, <1>5, <1>8, <1>9, <1>10

\* What Init leaves in memory.
LEMMA FormatStack ==
  ASSUME Init
  PROVE  /\ s_free \in Seq(Nat) /\ Len(s_free) = (total_free % NICFREE) + 1
         /\ s_free[1] = PrevLink(Groups + 1)
         /\ \A i \in 2 .. Len(s_free) : s_free[i] = StorageBlock(Groups + 1) + i - 2
         /\ Entries(s_free) = StorageBlock(Groups + 1) .. DATA_BLK_NUM - 1
<1> DEFINE r == total_free % NICFREE
           t == StorageBlock(Groups + 1)
<1>1. r \in Nat /\ t \in Nat /\ Groups \in Nat /\ t + r = DATA_BLK_NUM
  BY FormatArithmetic, FreeBlocksAssumption
<1>2. PrevLink(Groups + 1) \in Nat
  <2>1. Groups + 1 # 1 => Groups + 1 - 1 \in 1 .. Groups + 1
    BY <1>1
  <2> QED BY <2>1, FormatArithmetic DEF PrevLink, END_OF_CHAIN
<1>3. s_free = [i \in 1 .. r + 1 |-> IF i = 1 THEN PrevLink(Groups + 1) ELSE t + i - 2]
  BY DEF Init
<1> HIDE DEF r, t
<1>4. s_free \in [1 .. r + 1 -> Nat]
  <2>1. \A i \in 2 .. r + 1 : t + i - 2 \in Nat
    BY <1>1
  <2> QED BY <1>1, <1>2, <1>3, <2>1
<1>5. s_free \in Seq(Nat) /\ Len(s_free) = r + 1
  BY <1>1, <1>4
<1>6. s_free[1] = PrevLink(Groups + 1)
  BY <1>1, <1>3
<1>7. \A i \in 2 .. Len(s_free) : s_free[i] = t + i - 2
  BY <1>1, <1>3, <1>5
<1>8. ASSUME NEW x \in Entries(s_free)
      PROVE  x \in t .. DATA_BLK_NUM - 1
  <2>1. PICK i \in 2 .. r + 1 : x = t + i - 2
    BY <1>5, <1>7 DEF Entries
  <2> QED BY <1>1, <2>1
<1>9. ASSUME NEW x \in t .. DATA_BLK_NUM - 1
      PROVE  x \in Entries(s_free)
  <2>1. x - t + 2 \in 2 .. r + 1 /\ t + (x - t + 2) - 2 = x
    BY <1>1
  <2> QED BY <1>5, <1>7, <2>1 DEF Entries
<1> QED BY <1>5, <1>6, <1>7, <1>8, <1>9 DEF r, t

\* Every block is a storage block, an entry of one group, or in memory.
LEMMA FormatCovers ==
  ASSUME NEW x \in Block, x < StorageBlock(Groups + 1)
  PROVE  \E k \in 1 .. Groups : x \in StorageBlock(k) .. StorageBlock(k) + NICFREE - 1
<1> DEFINE a == x - reserved_blocks
           q == a \div NICFREE
<1>1. /\ a \in Nat /\ NICFREE \in Nat \ {0} /\ Groups \in Nat
      /\ reserved_blocks \in Nat /\ x \in Nat
  BY FormatArithmetic, FreeBlocksAssumption DEF Block
<1>2. q \in Nat /\ a % NICFREE \in 0 .. NICFREE - 1 /\ a = NICFREE * q + (a % NICFREE)
  BY <1>1, DivMod
<1>3. StorageBlock(q + 1) = reserved_blocks + NICFREE * q
  BY <1>1, <1>2 DEF StorageBlock
<1>4. x \in StorageBlock(q + 1) .. StorageBlock(q + 1) + NICFREE - 1
  <2> DEFINE m == NICFREE * q
             r == a % NICFREE
  <2>1. m \in Nat /\ r \in 0 .. NICFREE - 1 /\ x = reserved_blocks + m + r
    BY <1>1, <1>2
  <2>2. StorageBlock(q + 1) = reserved_blocks + m
    BY <1>3
  <2> HIDE DEF m, r, q, a
  <2> QED BY <1>1, <2>1, <2>2
<1>5. q + 1 \in 1 .. Groups
  <2> SUFFICES ASSUME q >= Groups PROVE FALSE
    BY <1>1, <1>2
  <2>1. q - Groups \in Nat /\ (q - Groups) * NICFREE \in Nat
    BY <1>1, <1>2
  <2>2. NICFREE * q = (q - Groups) * NICFREE + NICFREE * Groups
    BY <1>1, <1>2
  <2>3. StorageBlock(Groups + 1) = reserved_blocks + NICFREE * Groups
    BY <1>1 DEF StorageBlock
  <2>4. NICFREE * Groups \in Nat /\ NICFREE * q \in Nat
    BY <1>1, <1>2
  <2>5. StorageBlock(q + 1) >= StorageBlock(Groups + 1)
    <3> DEFINE m == NICFREE * q
               g == NICFREE * Groups
               d == (q - Groups) * NICFREE
    <3>1. m = d + g /\ d \in Nat /\ g \in Nat /\ m \in Nat
      BY <2>1, <2>2, <2>4
    <3>2. StorageBlock(q + 1) = reserved_blocks + m /\ StorageBlock(Groups + 1) = reserved_blocks + g
      BY <1>3, <2>3
    <3> HIDE DEF m, g, d, q
    <3> QED BY <1>1, <3>1, <3>2
  <2> QED BY <1>1, <1>3, <1>4, <2>3, <2>4, <2>5
<1> QED BY <1>4, <1>5

LEMMA FormatList ==
  ASSUME Init
  PROVE  \E chain \in Seq(Block) : ListOK(chain)
<1> DEFINE top == StorageBlock(Groups + 1)
           S == {StorageBlock(k) : k \in 1 .. Groups}
           chain == [k \in 1 .. Groups |-> StorageBlock(Groups + 1 - k)]
<1>1. Groups \in Nat /\ NICFREE \in Nat /\ NICFREE >= 2
  BY FormatArithmetic, FreeBlocksAssumption
<1>2. \A k \in 1 .. Groups :
         /\ StorageBlock(k) \in Nat /\ StorageBlock(k) \in Block /\ disk[StorageBlock(k)] = FormatGroup(k)
         /\ FormatGroup(k) \in Seq(Nat) /\ Len(FormatGroup(k)) = NICFREE
         /\ Entries(FormatGroup(k)) = StorageBlock(k) + 1 .. StorageBlock(k) + NICFREE - 1
         /\ k \in 1 .. Groups + 1
  <2> SUFFICES ASSUME NEW k \in 1 .. Groups
               PROVE  /\ StorageBlock(k) \in Nat /\ StorageBlock(k) \in Block
                      /\ disk[StorageBlock(k)] = FormatGroup(k)
                      /\ FormatGroup(k) \in Seq(Nat) /\ Len(FormatGroup(k)) = NICFREE
                      /\ Entries(FormatGroup(k))
                           = StorageBlock(k) + 1 .. StorageBlock(k) + NICFREE - 1
                      /\ k \in 1 .. Groups + 1
    OBVIOUS
  <2>1. k \in 1 .. Groups + 1
    BY <1>1
  <2>2. StorageBlock(k) \in Nat
    BY <2>1, FormatArithmetic
  <2> QED BY <2>1, <2>2, FormatDisk
<1>3. \A j, k \in 1 .. Groups + 1 : j < k => StorageBlock(j) + NICFREE <= StorageBlock(k)
  BY FormatArithmetic
<1>4. /\ s_free \in Seq(Nat) /\ Len(s_free) \in 1 .. NICFREE
      /\ s_free[1] = PrevLink(Groups + 1)
      /\ \A i \in 2 .. Len(s_free) : s_free[i] = top + i - 2
      /\ Entries(s_free) = top .. DATA_BLK_NUM - 1
  <2>1. (total_free % NICFREE) + 1 \in 1 .. NICFREE
    BY <1>1, FormatArithmetic
  <2> QED BY <2>1, FormatStack
<1>5. top \in Nat /\ reserved_blocks <= top /\ top <= DATA_BLK_NUM
      /\ DATA_BLK_NUM \in Nat /\ reserved_blocks \in Nat
  <2>1. top \in Nat /\ top <= DATA_BLK_NUM
    BY <1>1, FormatArithmetic, FreeBlocksAssumption
  <2>2. Groups # 0 => StorageBlock(1) + NICFREE <= top
    BY <1>1, <1>3
  <2> QED BY <1>1, <2>1, <2>2, FormatArithmetic, FreeBlocksAssumption
<1>6. /\ chain \in Seq(Block) /\ Len(chain) = Groups
      /\ \A k \in 1 .. Groups : chain[k] = StorageBlock(Groups + 1 - k)
      /\ Storage(chain) = S
  <2>1. chain \in [1 .. Groups -> Block]
    BY <1>1, <1>2
  <2>2. chain \in Seq(Block) /\ Len(chain) = Groups
    BY <1>1, <2>1
  <2>3. ASSUME NEW k \in 1 .. Groups
        PROVE  StorageBlock(k) \in Storage(chain)
    <3>1. Groups + 1 - k \in 1 .. Groups /\ Groups + 1 - (Groups + 1 - k) = k
      BY <1>1
    <3>2. chain[Groups + 1 - k] = StorageBlock(k)
      BY <3>1
    <3> QED BY <2>2, <3>1, <3>2 DEF Storage
  <2>4. \A k \in 1 .. Groups : chain[k] \in S
    BY <1>1
  <2> QED BY <2>2, <2>3, <2>4 DEF Storage
<1>7. Chained(chain)
  <2>1. \A k \in 1 .. Groups + 1 : PrevLink(k) = Nth(chain, Groups + 2 - k)
    <3> SUFFICES ASSUME NEW k \in 1 .. Groups + 1
                 PROVE  PrevLink(k) = Nth(chain, Groups + 2 - k)
      OBVIOUS
    <3>1. CASE k = 1
      BY <1>1, <1>6, <3>1 DEF PrevLink, Nth
    <3>2. CASE k # 1
      <4>1. Groups + 2 - k \in 1 .. Groups /\ Groups + 1 - (Groups + 2 - k) = k - 1
        BY <1>1, <3>2
      <4>2. Nth(chain, Groups + 2 - k) = StorageBlock(k - 1)
        <5>1. chain[Groups + 2 - k] = StorageBlock(k - 1)
          BY <1>6, <4>1
        <5> HIDE DEF chain
        <5> QED BY <1>6, <4>1, <5>1 DEF Nth
      <4> QED BY <3>2, <4>2 DEF PrevLink
    <3> QED BY <3>1, <3>2
  <2>2. s_free[1] = Nth(chain, 1)
    <3>1. Groups + 1 \in 1 .. Groups + 1 /\ Groups + 2 - (Groups + 1) = 1
      BY <1>1
    <3> HIDE DEF chain
    <3> QED BY <1>4, <2>1, <3>1
  <2>3. ASSUME NEW k \in 1 .. Groups
        PROVE  disk[chain[k]][1] = Nth(chain, k + 1)
    <3>1. /\ Groups + 1 - k \in 1 .. Groups /\ Groups + 1 - k \in 1 .. Groups + 1
          /\ Groups + 2 - (Groups + 1 - k) = k + 1
      BY <1>1
    <3>2. disk[chain[k]] = FormatGroup(Groups + 1 - k)
      BY <1>2, <1>6, <3>1
    <3>3. FormatGroup(Groups + 1 - k)[1] = PrevLink(Groups + 1 - k)
      BY <1>1 DEF FormatGroup
    <3> HIDE DEF chain
    <3> QED BY <2>1, <3>1, <3>2, <3>3
  <2>4. ASSUME NEW j \in 1 .. Groups, NEW k \in 1 .. Groups, j < k
        PROVE  chain[j] # chain[k]
    <3>1. /\ Groups + 1 - j \in 1 .. Groups /\ Groups + 1 - k \in 1 .. Groups
          /\ Groups + 1 - k < Groups + 1 - j
          /\ Groups + 1 - j \in 1 .. Groups + 1 /\ Groups + 1 - k \in 1 .. Groups + 1
      BY <1>1, <2>4
    <3>2. StorageBlock(Groups + 1 - k) + NICFREE <= StorageBlock(Groups + 1 - j)
      BY <1>3, <3>1
    <3>3. /\ chain[j] = StorageBlock(Groups + 1 - j)
          /\ chain[k] = StorageBlock(Groups + 1 - k)
      BY <1>6
    <3>4. StorageBlock(Groups + 1 - j) \in Nat /\ StorageBlock(Groups + 1 - k) \in Nat
      BY <1>2, <3>1
    <3> HIDE DEF chain
    <3> QED BY <1>1, <3>2, <3>3, <3>4
  <2>5. \A j, k \in 1 .. Groups : chain[j] = chain[k] => j = k
    <3> SUFFICES ASSUME NEW j \in 1 .. Groups, NEW k \in 1 .. Groups, chain[j] = chain[k]
                 PROVE  j = k
      OBVIOUS
    <3>1. ~ (j < k) /\ ~ (k < j)
      BY <2>4
    <3> QED BY <1>1, <3>1
  <2> HIDE DEF chain
  <2> QED BY <1>6, <2>2, <2>3, <2>5 DEF Chained
<1> HIDE DEF chain
<1>8. GroupsOK(S)
  <2>1. ASSUME NEW k \in 1 .. Groups
        PROVE  GroupOK(FormatGroup(k))
    <3>1. StorageBlock(k) + NICFREE <= top
      BY <1>1, <1>2, <1>3
    <3>2. Entries(FormatGroup(k)) \subseteq Block
      BY <1>1, <1>2, <1>5, <3>1 DEF Block
    <3>3. \A i \in 2 .. NICFREE : FormatGroup(k)[i] = StorageBlock(k) + i - 1
      BY <1>1 DEF FormatGroup
    <3>4. StorageBlock(k) \in Nat /\ FormatGroup(k) \in Seq(Nat) /\ Len(FormatGroup(k)) = NICFREE
      BY <1>2
    <3>5. \A i, j \in 2 .. NICFREE : FormatGroup(k)[i] = FormatGroup(k)[j] => i = j
      BY <3>3, <3>4
    <3> QED BY <3>2, <3>4, <3>5 DEF GroupOK
  <2>2. GroupOK(s_free)
    <3> HIDE DEF top
    <3> QED BY <1>4, <1>5 DEF GroupOK, Block
  <2> QED BY <1>2, <1>4, <2>1, <2>2 DEF GroupsOK
<1>9. Apart(S)
  <2>1. ASSUME NEW j \in 1 .. Groups, NEW k \in 1 .. Groups, j # k
        PROVE  /\ StorageBlock(k) \notin Entries(disk[StorageBlock(j)])
               /\ Entries(disk[StorageBlock(j)]) \cap Entries(disk[StorageBlock(k)]) = {}
    <3>1. StorageBlock(j) + NICFREE <= StorageBlock(k) \/ StorageBlock(k) + NICFREE <= StorageBlock(j)
      BY <1>1, <1>2, <1>3, <2>1
    <3>2. /\ StorageBlock(j) \in Nat /\ StorageBlock(k) \in Nat
          /\ Entries(disk[StorageBlock(j)]) = StorageBlock(j) + 1 .. StorageBlock(j) + NICFREE - 1
          /\ Entries(disk[StorageBlock(k)]) = StorageBlock(k) + 1 .. StorageBlock(k) + NICFREE - 1
      BY <1>2
    <3> QED BY <1>1, <3>1, <3>2
  <2>2. ASSUME NEW k \in 1 .. Groups
        PROVE  /\ StorageBlock(k) \notin Entries(disk[StorageBlock(k)])
               /\ StorageBlock(k) \notin Entries(s_free)
               /\ Entries(disk[StorageBlock(k)]) \cap Entries(s_free) = {}
    <3>1. StorageBlock(k) + NICFREE <= top
      BY <1>1, <1>2, <1>3
    <3> HIDE DEF top
    <3>2. /\ StorageBlock(k) \in Nat
          /\ Entries(disk[StorageBlock(k)]) = StorageBlock(k) + 1 .. StorageBlock(k) + NICFREE - 1
      BY <1>2
    <3>3. /\ Entries(disk[StorageBlock(k)]) \subseteq StorageBlock(k) + 1 .. top - 1
          /\ StorageBlock(k) < top
      BY <1>1, <1>5, <3>1, <3>2
    <3>4. \A x \in Entries(s_free) : x \in Nat /\ top <= x
      BY <1>4, <1>5
    <3> QED BY <1>5, <3>2, <3>3, <3>4
  <2>3. \A j, k \in 1 .. Groups : StorageBlock(k) \notin Entries(disk[StorageBlock(j)])
    BY <2>1, <2>2
  <2>4. \A j, k \in 1 .. Groups :
           StorageBlock(j) # StorageBlock(k) => Entries(disk[StorageBlock(j)]) \cap Entries(disk[StorageBlock(k)]) = {}
    BY <2>1
  <2> QED BY <2>2, <2>3, <2>4 DEF Apart
<1>10. Listed(S) = Block \ held
  <2>1. held = {}
    BY DEF Init
  <2>2. S \subseteq Block
    BY <1>2
  <2>3. Entries(s_free) \subseteq Block /\ \A s \in S : Entries(disk[s]) \subseteq Block
    BY <1>8 DEF GroupsOK, GroupOK
  <2>4. ASSUME NEW x \in Block
        PROVE  x \in Listed(S)
    <3>1. CASE x >= top
      BY <1>4, <1>5, <3>1 DEF Block, Listed
    <3>2. CASE ~ (x >= top)
      <4>1. PICK k \in 1 .. Groups : x \in StorageBlock(k) .. StorageBlock(k) + NICFREE - 1
        BY <1>5, <3>2, FormatCovers DEF Block
      <4>2. x = StorageBlock(k) \/ x \in Entries(disk[StorageBlock(k)])
        BY <1>1, <1>2, <4>1
      <4>3. StorageBlock(k) \in S
        OBVIOUS
      <4> HIDE DEF S
      <4> QED BY <4>2, <4>3 DEF Listed
    <3> QED BY <3>1, <3>2
  <2> QED BY <2>1, <2>2, <2>3, <2>4 DEF Listed
<1> QED BY <1>6, <1>7, <1>8, <1>9, <1>10 DEF ListOK

-----------------------------------------------------------------------------
(* The invariant is inductive when no caller asks on a full disk. *)

LEMMA InitIInv == Init => IInv
<1> SUFFICES ASSUME Init PROVE IInv
  OBVIOUS
<1>1. disk \in [AllBlocks -> Seq(Nat)]
  <2>1. ASSUME NEW b \in AllBlocks
        PROVE  disk[b] \in Seq(Nat)
    <3>1. CASE \E k \in 1 .. Groups : b = StorageBlock(k)
      BY <3>1, FormatDisk
    <3>2. CASE ~ \E k \in 1 .. Groups : b = StorageBlock(k)
      BY <3>2 DEF Init
    <3> QED BY <3>1, <3>2
  <2>2. disk = [b \in AllBlocks |-> disk[b]]
    BY DEF Init
  <2> QED BY <2>1, <2>2
<1>2. held = {} /\ ret = INVALID_BLK /\ s_free_total = total_free
  BY DEF Init
<1>3. total_free \in Int /\ CountExact
  BY <1>2, FS_EmptySet, FormatArithmetic DEF CountExact
<1>4. \E chain \in Seq(Block) : ListOK(chain)
  BY FormatList
<1> QED BY <1>1, <1>2, <1>3, <1>4 DEF IInv

LEMMA NextIInv ==
  ASSUME ~AsksWhenFull
  PROVE  IInv /\ [Next]_vars => IInv'
<1> SUFFICES ASSUME IInv, [Next]_vars PROVE IInv'
  OBVIOUS
<1>1. /\ disk \in [AllBlocks -> Seq(Nat)] /\ held \subseteq Block
      /\ ret \in Block \cup {INVALID_BLK} /\ s_free_total \in Int /\ CountExact
  BY DEF IInv
<1>2. PICK chain \in Seq(Block) : ListOK(chain)
  BY DEF IInv
<1>3. s_free \in Seq(Nat)
  BY <1>2 DEF ListOK, GroupsOK, GroupOK
<1>4. CASE BallocRefuse
  BY <1>4 DEF BallocRefuse
<1>5. CASE BallocLoad
  <2>1. ListOK(Tail(chain))' /\ ret' \in Block \ held
    BY <1>1, <1>2, <1>5, LoadKeepsList
  <2>2. /\ held' = held \cup {ret'} /\ s_free_total' = s_free_total - 1 /\ disk' = disk
    BY <1>5 DEF BallocLoad
  <2>3. CountExact'
    BY <1>1, <2>1, <2>2, CountOnGrant
  <2>4. Tail(chain) \in Seq(Block)
    BY <1>2, <1>5, StorageTail, HeadIsStored DEF BallocLoad, ListOK, Chained
  <2>5. \E c \in Seq(Block) : ListOK(c)'
    BY <2>1, <2>4, Zenon
  <2> QED BY <1>1, <2>1, <2>2, <2>3, <2>5 DEF IInv
<1>6. CASE BallocPop
  <2>1. ListOK(chain)' /\ ret' \in Block \ held
    BY <1>1, <1>2, <1>6, PopKeepsList
  <2>2. /\ held' = held \cup {ret'} /\ s_free_total' = s_free_total - 1 /\ disk' = disk
    BY <1>6 DEF BallocPop
  <2>3. CountExact'
    BY <1>1, <2>1, <2>2, CountOnGrant
  <2> QED BY <1>1, <2>1, <2>2, <2>3 DEF IInv
<1>7. ASSUME NEW b \in held, BfreeStore(b)
      PROVE  IInv'
  <2>1. <<b>> \o chain \in Seq(Block) /\ ListOK(<<b>> \o chain)'
    BY <1>1, <1>2, <1>7, StoreKeepsList
  <2>2. /\ held' = held \ {b} /\ s_free_total' = s_free_total + 1 /\ ret' = ret
        /\ disk' = [disk EXCEPT ![b] = s_free]
    BY <1>7 DEF BfreeStore
  <2>3. CountExact'
    BY <1>1, <2>2, CountOnFree
  <2>4. disk' \in [AllBlocks -> Seq(Nat)]
    BY <1>1, <1>3, <2>2
  <2>5. \E c \in Seq(Block) : ListOK(c)'
    BY <2>1, Zenon
  <2> QED BY <1>1, <2>2, <2>3, <2>4, <2>5 DEF IInv
<1>8. ASSUME NEW b \in held, BfreePush(b)
      PROVE  IInv'
  <2>1. ListOK(chain)'
    BY <1>1, <1>2, <1>8, PushKeepsList
  <2>2. /\ held' = held \ {b} /\ s_free_total' = s_free_total + 1 /\ ret' = ret
        /\ disk' = disk
    BY <1>8 DEF BfreePush
  <2>3. CountExact'
    BY <1>1, <2>2, CountOnFree
  <2> QED BY <1>1, <2>1, <2>2, <2>3 DEF IInv
<1>9. ASSUME NEW b \in held, NEW p \in Payloads, HolderWrite(b, p)
      PROVE  IInv'
  <2>1. b \notin Storage(chain)
    BY <1>2 DEF ListOK, Listed
  <2>2. /\ disk' = [disk EXCEPT ![b] = p] /\ s_free' = s_free /\ held' = held
        /\ ret' = ret /\ s_free_total' = s_free_total
    BY <1>9 DEF HolderWrite
  <2>3. \A s \in Storage(chain) : disk'[s] = disk[s]
    <3>1. Storage(chain) \subseteq AllBlocks
      BY FreeBlocksAssumption DEF Storage, Block, AllBlocks
    <3> QED BY <1>1, <2>1, <2>2, <3>1
  <2>4. Chained(chain)'
    <3>1. \A k \in 1 .. Len(chain) : disk'[chain[k]] = disk[chain[k]]
      BY <2>3 DEF Storage
    <3> QED BY <1>2, <2>2, <3>1 DEF ListOK, Chained, Nth
  <2>5. GroupsOK(Storage(chain))' /\ Storage(chain)' = Storage(chain)
    BY <1>2, <2>2, <2>3 DEF ListOK, GroupsOK, Storage
  <2>6. Apart(Storage(chain))'
    BY <1>2, <2>2, <2>3 DEF ListOK, Apart
  <2>7. Listed(Storage(chain))' = Block \ held'
    BY <1>2, <2>2, <2>3 DEF ListOK, Listed
  <2>8. ListOK(chain)'
    BY <2>4, <2>5, <2>6, <2>7 DEF ListOK
  <2>9. disk' \in [AllBlocks -> Seq(Nat)]
    BY <1>1, <1>9, <2>2, FreeBlocksAssumption
  <2>10. CountExact'
    BY <1>1, <2>2 DEF CountExact
  <2> QED BY <1>1, <2>2, <2>8, <2>9, <2>10 DEF IInv
<1>10. CASE UNCHANGED vars
  <2>1. ListOK(chain)'
    <3>1. s_free' = s_free /\ disk' = disk /\ held' = held
      BY <1>10 DEF vars
    <3>2. Chained(chain)' /\ Storage(chain)' = Storage(chain)
      BY <1>2, <3>1 DEF ListOK, Chained, Nth, Storage
    <3>3. GroupsOK(Storage(chain))'
      BY <1>2, <3>1 DEF ListOK, GroupsOK
    <3>4. Apart(Storage(chain))'
      BY <1>2, <3>1 DEF ListOK, Apart
    <3>5. Listed(Storage(chain))' = Block \ held'
      BY <1>2, <3>1 DEF ListOK, Listed
    <3> QED BY <3>2, <3>3, <3>4, <3>5 DEF ListOK
  <2> QED BY <1>1, <1>10, <2>1 DEF vars, IInv, CountExact
<1> QED BY <1>4, <1>5, <1>6, <1>7, <1>8, <1>9, <1>10 DEF Next

LEMMA ListInvariant ==
  ASSUME ~AsksWhenFull
  PROVE  Spec => []IInv
<1>1. IInv /\ [Next]_vars => IInv'
  BY NextIInv
<1> QED BY <1>1, InitIInv, PTL DEF Spec

-----------------------------------------------------------------------------
(* The walk of collect_free_blocks. *)

\* The blocks of X, each of them once.
Lists(s, X) ==
  /\ s \in Seq(Nat)
  /\ {s[i] : i \in 1 .. Len(s)} = X
  /\ \A i, j \in 1 .. Len(s) : s[i] = s[j] => i = j

LEMMA ListsJoin ==
  ASSUME NEW s, NEW t, NEW X, NEW Y, Lists(s, X), Lists(t, Y), X \cap Y = {}
  PROVE  Lists(s \o t, X \cup Y)
<1>1. /\ s \in Seq(Nat) /\ t \in Seq(Nat) /\ Len(s) \in Nat /\ Len(t) \in Nat
      /\ \A i \in 1 .. Len(s) : s[i] \in X
      /\ \A i \in 1 .. Len(t) : t[i] \in Y
  BY DEF Lists
<1> DEFINE u == s \o t
           m == Len(s)
<1>2. /\ u \in Seq(Nat) /\ Len(u) = m + Len(t)
      /\ \A i \in 1 .. m : u[i] = s[i]
      /\ \A i \in 1 .. Len(t) : u[m + i] = t[i]
  BY <1>1
<1> HIDE DEF u
<1>3. ASSUME NEW i \in 1 .. Len(u)
      PROVE  \/ i \in 1 .. m /\ u[i] = s[i] /\ u[i] \in X
             \/ i - m \in 1 .. Len(t) /\ u[i] = t[i - m] /\ u[i] \in Y
  <2>1. CASE i <= m
    <3>1. i \in 1 .. m
      BY <1>1, <2>1
    <3> QED BY <1>1, <1>2, <3>1
  <2>2. CASE ~ (i <= m)
    <3>1. i - m \in 1 .. Len(t) /\ m + (i - m) = i
      BY <1>1, <1>2, <2>2
    <3> QED BY <1>1, <1>2, <3>1
  <2> QED BY <2>1, <2>2
<1>4. ASSUME NEW i \in 1 .. Len(u), NEW j \in 1 .. Len(u), u[i] = u[j]
      PROVE  i = j
  <2>1. CASE i \in 1 .. m /\ u[i] = s[i] /\ u[i] \in X
    <3>1. j \in 1 .. m /\ u[j] = s[j]
      BY <1>3, <1>4, <2>1
    <3> QED BY <1>4, <2>1, <3>1 DEF Lists
  <2>2. CASE i - m \in 1 .. Len(t) /\ u[i] = t[i - m] /\ u[i] \in Y
    <3>1. j - m \in 1 .. Len(t) /\ u[j] = t[j - m]
      BY <1>3, <1>4, <2>2
    <3>2. i - m = j - m
      BY <1>4, <2>2, <3>1 DEF Lists
    <3> QED BY <1>1, <3>2
  <2> QED BY <1>3, <2>1, <2>2
<1>5. {u[i] : i \in 1 .. Len(u)} = X \cup Y
  <2>1. \A i \in 1 .. Len(u) : u[i] \in X \cup Y
    BY <1>3
  <2>2. ASSUME NEW x \in X
        PROVE  \E i \in 1 .. Len(u) : u[i] = x
    <3>1. PICK i \in 1 .. m : s[i] = x
      BY DEF Lists
    <3>2. i \in 1 .. Len(u)
      BY <1>1, <1>2
    <3> QED BY <1>2, <3>1, <3>2
  <2>3. ASSUME NEW y \in Y
        PROVE  \E i \in 1 .. Len(u) : u[i] = y
    <3>1. PICK i \in 1 .. Len(t) : t[i] = y
      BY DEF Lists
    <3>2. m + i \in 1 .. Len(u)
      BY <1>1, <1>2
    <3> QED BY <1>2, <3>1, <3>2
  <2> QED BY <2>1, <2>2, <2>3
<1> QED BY <1>2, <1>4, <1>5 DEF Lists, u

\* The blocks that a group lists besides its link.
LEMMA ListsGroup ==
  ASSUME NEW g, GroupOK(g), Len(g) >= 1
  PROVE  Lists(Tail(g), Entries(g))
<1>1. g \in Seq(Nat) /\ Len(g) \in Nat /\ Len(g) >= 1
  BY DEF GroupOK
<1> DEFINE t == Tail(g)
<1>2. t \in Seq(Nat) /\ Len(t) = Len(g) - 1 /\ \A i \in 1 .. Len(t) : t[i] = g[i + 1]
  BY <1>1
<1> HIDE DEF t
<1>3. \A i \in 1 .. Len(t) : i + 1 \in 2 .. Len(g)
  BY <1>1, <1>2
<1>4. {t[i] : i \in 1 .. Len(t)} = Entries(g)
  <2>1. \A i \in 1 .. Len(t) : t[i] \in Entries(g)
    BY <1>2, <1>3 DEF Entries
  <2>2. ASSUME NEW x \in Entries(g)
        PROVE  \E i \in 1 .. Len(t) : t[i] = x
    <3>1. PICK j \in 2 .. Len(g) : g[j] = x
      BY DEF Entries
    <3>2. j - 1 \in 1 .. Len(t) /\ (j - 1) + 1 = j
      BY <1>1, <1>2
    <3> QED BY <1>2, <3>1, <3>2
  <2> QED BY <2>1, <2>2
<1>5. ASSUME NEW i \in 1 .. Len(t), NEW j \in 1 .. Len(t), t[i] = t[j]
      PROVE  i = j
  <2>1. g[i + 1] = g[j + 1] /\ i + 1 \in 2 .. Len(g) /\ j + 1 \in 2 .. Len(g)
    BY <1>2, <1>3, <1>5
  <2>2. i + 1 = j + 1
    BY <2>1 DEF GroupOK
  <2> QED BY <2>2
<1> QED BY <1>2, <1>4, <1>5 DEF Lists, t

\* A list of all of X is as long as X has members.
LEMMA ListsLength ==
  ASSUME NEW s, NEW X, Lists(s, X)
  PROVE  Len(s) = Cardinality(X)
<1>1. s \in Seq(Nat) /\ Len(s) \in Nat /\ DOMAIN s = 1 .. Len(s)
  BY DEF Lists
<1>2. s \in Injection(1 .. Len(s), X)
  <2>1. s \in [1 .. Len(s) -> X]
    BY <1>1 DEF Lists
  <2>2. IsInjective(s)
    BY <1>1 DEF IsInjective, Lists
  <2> QED BY <2>1, <2>2 DEF Injection
<1>3. s \in Surjection(1 .. Len(s), X)
  <2>1. s \in [1 .. Len(s) -> X]
    BY <1>1 DEF Lists
  <2>2. \A x \in X : \E i \in 1 .. Len(s) : s[i] = x
    BY DEF Lists
  <2> QED BY <2>1, <2>2 DEF Surjection
<1>4. ExistsBijection(1 .. Len(s), X)
  BY <1>2, <1>3 DEF ExistsBijection, Bijection
<1>5. IsFiniteSet(1 .. Len(s)) /\ Cardinality(1 .. Len(s)) = Len(s)
  BY SMTT(60), <1>1, FS_Interval
<1> QED BY <1>4, <1>5, FS_Bijection

\* The chain is no longer than the data area.
LEMMA ChainBound ==
  ASSUME NEW chain \in Seq(Block), \A j, k \in 1 .. Len(chain) : chain[j] = chain[k] => j = k
  PROVE  Len(chain) \in 0 .. DATA_BLK_NUM
<1> DEFINE X == Storage(chain)
<1>1. Block \subseteq Nat /\ IsFiniteSet(Block) /\ Cardinality(Block) = DATA_BLK_NUM - reserved_blocks
  <2>1. IsFiniteSet(Block) /\ Cardinality(Block) = DATA_BLK_NUM - reserved_blocks
    BY FS_Interval, FreeBlocksAssumption DEF Block
  <2> QED BY <2>1, FreeBlocksAssumption DEF Block
<1>2. Lists(chain, X)
  <2>1. chain \in Seq(Nat)
    <3>1. Len(chain) \in Nat /\ chain \in [1 .. Len(chain) -> Block]
      OBVIOUS
    <3>2. chain \in [1 .. Len(chain) -> Nat]
      BY <1>1, <3>1
    <3> QED BY <3>1, <3>2, SeqDef
  <2> QED BY <2>1 DEF Lists, Storage
<1>3. Len(chain) = Cardinality(X)
  BY <1>2, ListsLength
<1>4. X \subseteq Block
  BY DEF Storage
<1>5. Cardinality(X) <= Cardinality(Block)
  BY <1>1, <1>4, FS_Subset
<1> QED BY <1>1, <1>3, <1>5, FreeBlocksAssumption

\* What is found before the walk reads the block of position k, and where it is then.
Found(chain, k) ==
  {x \in Block : \/ x \in Entries(s_free)
                 \/ \E m \in 1 .. Len(chain) :
                      m <= k /\ (x = chain[m] \/ x \in Entries(disk[chain[m]]))}

Walk(chain, k) ==
  {a \in [link : AllBlocks, out : Seq(Nat)] :
     a.link = Nth(chain, k + 1) /\ Lists(a.out, Found(chain, k))}

Ahead(a) ==
  IF a.link = END_OF_CHAIN THEN a
  ELSE IF disk[a.link] = << >> \/ Len(disk[a.link]) > NICFREE
  THEN [link |-> END_OF_CHAIN, out |-> Append(a.out, a.link)]
  ELSE [link |-> disk[a.link][1], out |-> a.out \o <<a.link>> \o Tail(disk[a.link])]

\* The links of a chain are blocks, and the end of it is none.
LEMMA NthIsBlock ==
  ASSUME NEW chain \in Seq(Block), NEW k \in Nat \ {0}
  PROVE  /\ Nth(chain, k) \in AllBlocks
         /\ Nth(chain, k) # END_OF_CHAIN <=> k <= Len(chain)
<1>1. END_OF_CHAIN \in AllBlocks /\ END_OF_CHAIN \notin Block /\ Block \subseteq AllBlocks
  BY FreeBlocksAssumption DEF END_OF_CHAIN, Block, AllBlocks
<1>2. k <= Len(chain) => chain[k] \in Block
  OBVIOUS
<1> QED BY <1>1, <1>2 DEF Nth

\* One step of the walk finds the storage block and its entries, all of them new.
LEMMA AheadFinds ==
  ASSUME NEW chain \in Seq(Block), ListOK(chain), NEW k \in Nat, NEW a \in Walk(chain, k)
  PROVE  Ahead(a) \in Walk(chain, k + 1)
<1> DEFINE N == Len(chain)
           out == a.out
           F == Found(chain, k)
<1>1. /\ N \in Nat /\ \A j \in 1 .. N : chain[j] \in Block /\ chain[j] \in Storage(chain)
      /\ \A i, j \in 1 .. N : chain[i] = chain[j] => i = j
      /\ \A j \in 1 .. N : disk[chain[j]][1] = Nth(chain, j + 1)
  BY DEF ListOK, Chained, Storage
<1>2. a \in [link : AllBlocks, out : Seq(Nat)] /\ a.link = Nth(chain, k + 1) /\ Lists(out, F)
  BY DEF Walk
<1>3. CASE ~ (k + 1 <= N)
  <2>1. a.link = END_OF_CHAIN /\ Nth(chain, k + 2) = END_OF_CHAIN
    <3>1. ~ (k + 2 <= N)
      BY <1>1, <1>3
    <3> QED BY <1>2, <1>3, <3>1 DEF Nth
  <2>2. Found(chain, k + 1) = F
    <3>1. \A m \in 1 .. N : m <= k /\ m <= k + 1
      BY <1>1, <1>3
    <3> QED BY <3>1 DEF Found
  <2>3. (k + 1) + 1 = k + 2
    OBVIOUS
  <2> QED BY <1>2, <2>1, <2>2, <2>3 DEF Walk, Ahead
<1>4. CASE k + 1 <= N
  <2> DEFINE b == chain[k + 1]
             g == disk[b]
  <2>1. k + 1 \in 1 .. N
    BY <1>4
  <2>2. a.link = b /\ b \in Block /\ b \in Storage(chain) /\ b # END_OF_CHAIN /\ b \in Nat
    <3>1. Nth(chain, k + 1) # END_OF_CHAIN
      BY <1>4, NthIsBlock
    <3>2. b \in Block /\ b \in Storage(chain)
      BY <1>1, <2>1
    <3>3. b \in Nat
      BY <3>2, FreeBlocksAssumption DEF Block
    <3> QED BY <1>2, <1>4, <3>1, <3>2, <3>3 DEF Nth
  <2>3. GroupOK(g) /\ Len(g) = NICFREE /\ g \in Seq(Nat) /\ NICFREE \in Nat /\ NICFREE >= 2
    BY <2>2, FreeBlocksAssumption DEF ListOK, GroupsOK, GroupOK
  <2>4. g[1] = Nth(chain, (k + 1) + 1)
    BY <1>1, <2>1
  <2>5. Ahead(a) = [link |-> g[1], out |-> out \o <<b>> \o Tail(g)]
    <3>1. g # << >> /\ ~ (Len(g) > NICFREE)
      BY <2>3
    <3> HIDE DEF g, b
    <3> QED BY <2>2, <3>1 DEF Ahead, g
  <2>6. g[1] \in AllBlocks
    BY <2>4, NthIsBlock
  <2> HIDE DEF b, g
  <2>7. Lists(out \o <<b>>, F \cup {b})
    <3>1. Lists(<<b>>, {b})
      BY <2>2 DEF Lists
    <3>2. b \notin F
      <4> SUFFICES ASSUME b \in F
                   PROVE  FALSE
        OBVIOUS
      <4>1. b \notin Entries(s_free)
        BY <2>2 DEF ListOK, Apart
      <4>2. PICK m \in 1 .. N : m <= k /\ (b = chain[m] \/ b \in Entries(disk[chain[m]]))
        BY <4>1 DEF Found
      <4>3. b # chain[m]
        BY <1>1, <2>1, <4>2 DEF b
      <4>4. b \notin Entries(disk[chain[m]])
        BY <1>1, <2>2 DEF ListOK, Apart
      <4> QED BY <4>2, <4>3, <4>4
    <3> QED BY <1>2, <3>1, <3>2, ListsJoin
  <2>8. Lists(out \o <<b>> \o Tail(g), (F \cup {b}) \cup Entries(g))
    <3>1. Lists(Tail(g), Entries(g))
      BY <2>3, ListsGroup
    <3>2. (F \cup {b}) \cap Entries(g) = {}
      <4> SUFFICES ASSUME NEW x \in Entries(g), x \in F \/ x = b
                   PROVE  FALSE
        OBVIOUS
      <4>1. x # b /\ x \notin Entries(s_free) /\ x \notin Storage(chain)
        BY <2>2 DEF ListOK, Apart, g
      <4>2. PICK m \in 1 .. N : m <= k /\ (x = chain[m] \/ x \in Entries(disk[chain[m]]))
        BY <4>1 DEF Found
      <4>3. chain[m] # b /\ chain[m] \in Storage(chain)
        BY <1>1, <2>1, <4>2 DEF b
      <4>4. Entries(disk[chain[m]]) \cap Entries(g) = {}
        BY <2>2, <4>3 DEF ListOK, Apart, g
      <4> QED BY <1>1, <4>1, <4>2, <4>3, <4>4
    <3> QED BY <2>7, <3>1, <3>2, ListsJoin
  <2>9. (F \cup {b}) \cup Entries(g) = Found(chain, k + 1)
    <3>1. \A m \in 1 .. N : m <= k + 1 <=> (m <= k \/ m = k + 1)
      BY <1>1
    <3>2. Entries(g) \subseteq Block
      BY <2>3 DEF GroupOK
    <3>3. ASSUME NEW x
          PROVE  x \in Found(chain, k + 1) <=> x \in F \/ x = b \/ x \in Entries(g)
      <4> HIDE DEF F
      <4>1. x \in Found(chain, k + 1) <=>
              /\ x \in Block
              /\ \/ x \in Entries(s_free)
                 \/ \E m \in 1 .. N : m <= k /\ (x = chain[m] \/ x \in Entries(disk[chain[m]]))
                 \/ x = chain[k + 1] \/ x \in Entries(disk[chain[k + 1]])
        BY <2>1, <3>1 DEF Found
      <4>2. x \in F <=>
              /\ x \in Block
              /\ \/ x \in Entries(s_free)
                 \/ \E m \in 1 .. N : m <= k /\ (x = chain[m] \/ x \in Entries(disk[chain[m]]))
        BY DEF Found, F
      <4> QED BY <2>2, <3>2, <4>1, <4>2 DEF b, g
    <3> QED BY <3>3
  <2>10. Lists(out \o <<b>> \o Tail(g), Found(chain, k + 1))
    BY <2>8, <2>9
  <2>11. out \o <<b>> \o Tail(g) \in Seq(Nat)
    BY <2>10 DEF Lists
  <2> DEFINE y == out \o <<b>> \o Tail(g)
  <2>12. y \in Seq(Nat) /\ Lists(y, Found(chain, k + 1))
    BY <2>10, <2>11
  <2> HIDE DEF y
  <2>13. [link |-> g[1], out |-> y] \in Walk(chain, k + 1)
    BY <2>4, <2>6, <2>12 DEF Walk
  <2> QED BY <2>5, <2>13 DEF y
<1> QED BY <1>3, <1>4

\* The whole walk.
LEMMA WalkFinds ==
  ASSUME IInv
  PROVE  Lists(CollectFreeBlocks, Block \ held)
<1>1. PICK chain \in Seq(Block) : ListOK(chain)
  BY DEF IInv
<1> DEFINE D == DATA_BLK_NUM
           walk[guard \in 0 .. DATA_BLK_NUM] ==
             IF guard = 0
             THEN IF s_free = << >> THEN [link |-> END_OF_CHAIN, out |-> << >>]
                  ELSE [link |-> s_free[1], out |-> Tail(s_free)]
             ELSE LET at == walk[guard - 1]
                  IN  IF at.link = END_OF_CHAIN THEN at
                      ELSE IF disk[at.link] = << >> \/ Len(disk[at.link]) > NICFREE
                      THEN [link |-> END_OF_CHAIN, out |-> Append(at.out, at.link)]
                      ELSE [link |-> disk[at.link][1],
                            out |-> at.out \o <<at.link>> \o Tail(disk[at.link])]
           c == [link |-> s_free[1], out |-> Tail(s_free)]
           R == [k \in 0 .. D |-> Walk(chain, k)]
           G == [p \in [link : AllBlocks, out : Seq(Nat)] \X (1 .. D) |-> Ahead(p[1])]
<1>2. CollectFreeBlocks = walk[D].out
  BY Zenon DEF CollectFreeBlocks
<1>3. D \in Nat
  BY FreeBlocksAssumption
<1>4. GroupOK(s_free) /\ Len(s_free) >= 1 /\ s_free # << >> /\ s_free[1] = Nth(chain, 1)
      /\ s_free \in Seq(Nat)
  BY <1>1 DEF ListOK, Chained, GroupsOK, GroupOK
<1>5. c \in Walk(chain, 0)
  <2>1. Lists(Tail(s_free), Entries(s_free))
    BY <1>4, ListsGroup
  <2>2. Found(chain, 0) = Entries(s_free)
    <3>1. Entries(s_free) \subseteq Block
      BY <1>4 DEF GroupOK
    <3>2. \A m \in 1 .. Len(chain) : ~ (m <= 0)
      OBVIOUS
    <3> QED BY <3>1, <3>2 DEF Found
  <2>3. s_free[1] \in AllBlocks /\ 0 + 1 = 1
    BY <1>4, NthIsBlock
  <2>4. Tail(s_free) \in Seq(Nat)
    BY <2>1 DEF Lists
  <2> QED BY <1>4, <2>1, <2>2, <2>3, <2>4 DEF Walk
<1>6. \A k \in Nat : \A a \in Walk(chain, k) : Ahead(a) \in Walk(chain, k + 1)
  BY <1>1, AheadFinds
<1> HIDE DEF D
<1>7. /\ \A k \in 0 .. D : R[k] = Walk(chain, k)
      /\ \A k \in 1 .. D : k - 1 \in 0 .. D /\ k \in 0 .. D /\ k - 1 \in Nat /\ (k - 1) + 1 = k
      /\ 0 \in 0 .. D
  BY <1>3
<1>8. ASSUME NEW k \in 1 .. D, NEW a \in Walk(chain, k - 1)
      PROVE  G[<<a, k>>] = Ahead(a) /\ Ahead(a) \in Walk(chain, k)
  <2>1. a \in [link : AllBlocks, out : Seq(Nat)]
    BY DEF Walk
  <2>2. Ahead(a) \in Walk(chain, (k - 1) + 1)
    BY <1>6, <1>7
  <2> QED BY <1>7, <2>1, <2>2
<1> HIDE DEF R, G, c
<1>9. PICK w : IsTrace(w, R, c, D, G)
  <2>1. c \in R[0]
    BY <1>5, <1>7
  <2>2. ASSUME NEW k \in 1 .. D, NEW a \in R[k - 1]
        PROVE  G[<<a, k>>] \in R[k]
    <3>1. R[k - 1] = Walk(chain, k - 1) /\ R[k] = Walk(chain, k)
      BY <1>7
    <3> QED BY <1>8, <3>1
  <2> QED BY <1>3, <2>1, <2>2, Trace
<1>10. walk = [k \in 0 .. D |-> IF k = 0 THEN c ELSE Ahead(walk[k - 1])]
  <2> DEFINE Def(f) == [guard \in 0 .. DATA_BLK_NUM |->
             IF guard = 0
             THEN IF s_free = << >> THEN [link |-> END_OF_CHAIN, out |-> << >>]
                  ELSE [link |-> s_free[1], out |-> Tail(s_free)]
             ELSE LET at == f[guard - 1]
                  IN  IF at.link = END_OF_CHAIN THEN at
                      ELSE IF disk[at.link] = << >> \/ Len(disk[at.link]) > NICFREE
                      THEN [link |-> END_OF_CHAIN, out |-> Append(at.out, at.link)]
                      ELSE [link |-> disk[at.link][1],
                            out |-> at.out \o <<at.link>> \o Tail(disk[at.link])]]
  <2>1. \A f : Def(f) = [k \in 0 .. D |-> IF k = 0 THEN c ELSE Ahead(f[k - 1])]
    BY <1>4, ZenonT(60) DEF Ahead, D, c
  <2>2. w = Def(w)
    <3>1. ASSUME NEW k \in 0 .. D
          PROVE  w[k] = IF k = 0 THEN c ELSE Ahead(w[k - 1])
      <4>1. CASE k = 0
        BY <1>9, <4>1 DEF IsTrace
      <4>2. CASE k # 0
        <5>1. k \in 1 .. D /\ k - 1 \in 0 .. D
          BY <1>3, <4>2
        <5>2. w[k - 1] \in Walk(chain, k - 1) /\ w[k] = G[<<w[k - 1], k>>]
          BY <1>7, <1>9, <5>1 DEF IsTrace
        <5> QED BY <1>8, <4>2, <5>1, <5>2
      <4> QED BY <4>1, <4>2
    <3>2. w = [k \in 0 .. D |-> w[k]]
      BY <1>9 DEF IsTrace
    <3>3. w = [k \in 0 .. D |-> IF k = 0 THEN c ELSE Ahead(w[k - 1])]
      <4> HIDE DEF Def
      <4>1. [k \in 0 .. D |-> w[k]] = [k \in 0 .. D |-> IF k = 0 THEN c ELSE Ahead(w[k - 1])]
        BY <3>1
      <4> QED BY <3>2, <4>1
    <3> HIDE DEF Def
    <3> QED BY <2>1, <3>3
  <2>3. walk = Def(walk)
    BY <2>2, Zenon
  <2> HIDE DEF walk, Def
  <2> QED BY <2>1, <2>3
<1> HIDE DEF walk
<1> DEFINE Z == {k \in Nat : k <= D => walk[k] \in Walk(chain, k)}
<1>11. 0 \in Z
  BY <1>3, <1>5, <1>10
<1>12. ASSUME NEW k \in Nat, k \in Z
       PROVE  k + 1 \in Z
  <2> SUFFICES ASSUME k + 1 <= D
               PROVE  walk[k + 1] \in Walk(chain, k + 1)
    OBVIOUS
  <2>1. walk[k] \in Walk(chain, k) /\ k + 1 \in 1 .. D /\ (k + 1) - 1 = k
    BY <1>3, <1>12
  <2>2. walk[k + 1] = Ahead(walk[k])
    BY <1>3, <1>10, <2>1
  <2> QED BY <1>6, <2>1, <2>2
<1> HIDE DEF Z
<1>13. walk[D] \in Walk(chain, D)
  <2>1. D \in Z
    BY <1>3, <1>11, <1>12, Induction
  <2> QED BY <1>3, <2>1 DEF Z
<1>14. Found(chain, D) = Block \ held
  <2>1. \A m \in 1 .. Len(chain) : m <= D
    <3>1. Len(chain) \in 0 .. D
      BY <1>1, ChainBound DEF ListOK, Chained, D
    <3> QED BY <1>3, <3>1
  <2>2. Listed(Storage(chain)) = Block \ held
    BY <1>1 DEF ListOK
  <2>3. ASSUME NEW x
        PROVE  x \in Listed(Storage(chain)) <=>
                 \/ x \in Entries(s_free)
                 \/ \E m \in 1 .. Len(chain) : x = chain[m] \/ x \in Entries(disk[chain[m]])
    BY DEF Listed, Storage
  <2>4. ASSUME NEW x
        PROVE  x \in Found(chain, D) <=> x \in Block /\ x \in Listed(Storage(chain))
    BY <2>1, <2>3 DEF Found
  <2> QED BY <2>2, <2>4
<1> QED BY <1>2, <1>13, <1>14 DEF Walk

-----------------------------------------------------------------------------
(* What the invariant gives. *)

\* The stack stays within s_free[NICFREE], and blocks and counter in range.
THEOREM FreeListTypes ==
  ASSUME ~AsksWhenFull
  PROVE  Spec => []TypeOK
<1>1. IInv => TypeOK
  <2> SUFFICES ASSUME IInv PROVE TypeOK
    OBVIOUS
  <2>1. s_free \in Seq(Nat) /\ Len(s_free) <= NICFREE
    BY FreeBlocksAssumption DEF IInv, ListOK, GroupsOK, GroupOK
  <2>2. IsFiniteSet(Block) /\ Cardinality(Block) = total_free
    BY FS_Interval, FreeBlocksAssumption DEF Block, total_free
  <2>3. /\ Cardinality(held) \in Nat /\ Cardinality(held) <= total_free
        /\ total_free \in Nat
    BY <2>2, HeldFinite, FS_Subset, FormatArithmetic DEF IInv
  <2>4. s_free_total \in 0 .. total_free
    BY <2>3 DEF IInv, CountExact
  <2> QED BY <2>1, <2>4 DEF IInv, TypeOK
<1> QED BY <1>1, ListInvariant, PTL

\* The free-block counter and the blocks in use always make up the data area.
THEOREM FreeListCount ==
  ASSUME ~AsksWhenFull
  PROVE  Spec => []CountExact
<1>1. IInv => CountExact
  BY DEF IInv
<1> QED BY <1>1, ListInvariant, PTL

\* The list runs dry only when every block is held: no free block is ever lost
\* behind a broken link.
THEOREM FreeListComplete ==
  ASSUME ~AsksWhenFull
  PROVE  Spec => []RefusesOnlyWhenFull
<1>1. IInv => RefusesOnlyWhenFull
  <2> SUFFICES ASSUME IInv, Spent PROVE held = Block
    BY DEF RefusesOnlyWhenFull
  <2>1. PICK chain \in Seq(Block) : ListOK(chain)
    BY DEF IInv
  <2>2. s_free = <<END_OF_CHAIN>>
    BY <2>1 DEF Spent, ListOK, GroupsOK
  <2>3. Entries(s_free) = {}
    BY <2>2 DEF Entries
  <2>4. Storage(chain) = {}
    <3>1. Nth(chain, 1) = END_OF_CHAIN
      BY <2>1, <2>2 DEF ListOK, Chained
    <3>2. END_OF_CHAIN \notin Block
      BY FreeBlocksAssumption DEF END_OF_CHAIN, Block
    <3>3. ~ (1 <= Len(chain))
      BY <3>1, <3>2 DEF Nth
    <3> QED BY <3>3 DEF Storage
  <2>5. Listed(Storage(chain)) = {}
    BY <2>3, <2>4 DEF Listed
  <2> QED BY <2>1, <2>5 DEF ListOK, IInv
<1> QED BY <1>1, ListInvariant, PTL

\* No block is handed out twice.
THEOREM FreeListGrants ==
  ASSUME ~AsksWhenFull
  PROVE  Spec => GrantsFreeBlock
<1>1. IInv /\ [Next]_vars =>
        [s_free_total' = s_free_total - 1 => ret' \in Block \ held]_vars
  <2> SUFFICES ASSUME IInv, Next, s_free_total' = s_free_total - 1
               PROVE  ret' \in Block \ held
    OBVIOUS
  <2>1. PICK chain \in Seq(Block) : ListOK(chain)
    BY DEF IInv
  <2>2. s_free_total \in Int /\ held \subseteq Block
    BY DEF IInv
  <2>3. CASE BallocLoad
    BY <2>1, <2>2, <2>3, LoadKeepsList
  <2>4. CASE BallocPop
    BY <2>1, <2>2, <2>4, PopKeepsList
  <2>5. CASE BallocRefuse
    BY <2>5 DEF BallocRefuse
  <2>6. ASSUME NEW b \in held, BfreeStore(b) \/ BfreePush(b)
        PROVE  FALSE
    BY <2>2, <2>6 DEF BfreeStore, BfreePush
  <2>7. ASSUME NEW b \in held, NEW p \in Payloads, HolderWrite(b, p)
        PROVE  FALSE
    BY <2>2, <2>7 DEF HolderWrite
  <2> QED BY <2>3, <2>4, <2>5, <2>6, <2>7 DEF Next
<1> QED BY <1>1, ListInvariant, PTL DEF Spec, GrantsFreeBlock

\* The walk of the F3 map finds every block that nobody holds, once, and as many as
\* free_block_count() says; its bound of DATA_BLK_NUM steps never cuts it short.
THEOREM FreeListWalk ==
  ASSUME ~AsksWhenFull
  PROVE  Spec => []WalkFindsFreeBlocks
<1>1. IInv => WalkFindsFreeBlocks
  <2> SUFFICES ASSUME IInv PROVE WalkFindsFreeBlocks
    OBVIOUS
  <2> DEFINE found == CollectFreeBlocks
  <2>1. Lists(found, Block \ held)
    BY WalkFinds
  <2> HIDE DEF found
  <2>2. {found[i] : i \in DOMAIN found} = Block \ held
    <3>1. DOMAIN found = 1 .. Len(found)
      BY <2>1 DEF Lists
    <3> QED BY <2>1, <3>1 DEF Lists
  <2>3. Len(found) = Cardinality(Block \ held)
    BY <2>1, ListsLength
  <2>4. IsFiniteSet(Block) /\ Cardinality(Block) = total_free
    BY FS_Interval, FreeBlocksAssumption DEF Block, total_free
  <2>5. /\ Cardinality(Block \ held) = Cardinality(Block) - Cardinality(Block \cap held)
        /\ Block \cap held = held
    BY <2>4, FS_Difference DEF IInv
  <2>6. Cardinality(held) \in Nat /\ total_free \in Int /\ s_free_total \in Int
        /\ s_free_total + Cardinality(held) = total_free
    BY HeldFinite, FreeBlocksAssumption DEF IInv, CountExact, total_free
  <2>7. Cardinality(Block \ held) = s_free_total
    <3>1. Cardinality(Block \ held) = total_free - Cardinality(held)
      BY <2>4, <2>5
    <3> QED BY <2>6, <3>1
  <2> QED BY <2>2, <2>3, <2>7 DEF WalkFindsFreeBlocks, found
<1> QED BY <1>1, ListInvariant, PTL

\* The linked groups implement the pool: initial states map to initial states,
\* and each call to a grant, a release or a stutter that leaves the data of the
\* other holders alone.
THEOREM FreeListImplementsPool ==
  ASSUME ~AsksWhenFull
  PROVE  Spec => ImplementsPool
<1> DEFINE view == [b \in held |-> disk[b]]
<1>1. Init => Pool!Init
  BY DEF Init, Pool!Init
<1>2. IInv /\ [Next]_vars => [Pool!Next]_(Pool!poolVars)
  <2> SUFFICES ASSUME IInv, [Next]_vars
               PROVE  [Pool!Next]_(Pool!poolVars)
    OBVIOUS
  <2>1. PICK chain \in Seq(Block) : ListOK(chain)
    BY DEF IInv
  <2>2. disk \in [AllBlocks -> Seq(Nat)] /\ held \subseteq Block
    BY DEF IInv
  <2>3. ASSUME NEW b \in Block \ held, ret' = b, held' = held \cup {b}, disk' = disk
        PROVE  Pool!Next
    <3>1. Pool!Grant(b)
      BY <2>3 DEF Pool!Grant
    <3> QED BY <2>3, <3>1 DEF Pool!Next
  <2>4. CASE BallocLoad
    <3>1. ret' \in Block \ held
      BY <2>1, <2>2, <2>4, LoadKeepsList
    <3> QED BY <2>3, <2>4, <3>1 DEF BallocLoad
  <2>5. CASE BallocPop
    <3>1. ret' \in Block \ held
      BY <2>1, <2>2, <2>5, PopKeepsList
    <3> QED BY <2>3, <2>5, <3>1 DEF BallocPop
  <2>6. CASE BallocRefuse
    BY <2>6 DEF BallocRefuse
  <2>7. ASSUME NEW b \in held, BfreeStore(b) \/ BfreePush(b)
        PROVE  Pool!Next
    <3>1. /\ held' = held \ {b} /\ ret' = ret
          /\ \A c \in held \ {b} : disk'[c] = disk[c]
      <4>1. \A c \in held : c \in AllBlocks
        BY <2>2, FreeBlocksAssumption DEF Block, AllBlocks
      <4>2. CASE BfreeStore(b)
        BY <2>2, <4>1, <4>2 DEF BfreeStore
      <4>3. CASE BfreePush(b)
        BY <4>3 DEF BfreePush
      <4> QED BY <2>7, <4>2, <4>3
    <3>2. Pool!Release(b)
      BY <3>1 DEF Pool!Release
    <3> QED BY <2>2, <3>2 DEF Pool!Next
  <2>8. ASSUME NEW b \in held, NEW p \in Payloads, HolderWrite(b, p)
        PROVE  Pool!Next
    <3>1. /\ held' = held /\ ret' = ret
          /\ \A c \in held \ {b} : disk'[c] = disk[c]
      BY <2>2, <2>8 DEF HolderWrite
    <3>2. Pool!Write(b)
      BY <3>1 DEF Pool!Write
    <3> QED BY <2>2, <3>2 DEF Pool!Next
  <2>9. CASE UNCHANGED vars
    BY <2>9 DEF vars, Pool!poolVars
  <2> QED BY <2>4, <2>5, <2>6, <2>7, <2>8, <2>9 DEF Next
<1> QED BY <1>1, <1>2, ListInvariant, PTL DEF Spec, ImplementsPool, Pool!Spec
=============================================================================
