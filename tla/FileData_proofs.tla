---------------------------- MODULE FileData_proofs ----------------------------
(***************************************************************************)
(* Proofs about the data of files, for any number of files and blocks and  *)
(* any shape of di_addr: bmap_alloc and truncate neither lose a block nor  *)
(* give it to two files, however far an allocation got on a full disk.     *)
(***************************************************************************)
EXTENDS FileData, Stepwise, FiniteSetTheorems, TLAPS

\* ---- The inductive invariant ----

Addr == 0 .. NADDR - 1
Ptr == 0 .. PTRS_PER_BLK - 1

Vols == [addr : [File -> [Addr -> Blk \cup {0}]],
         store : [Blk -> [Ptr -> Word]],
         free : SUBSET Blk]

\* An entry is <<f, i>> in di_addr of the file f, and <<-c, i>> in the block c.
At(v, e) == IF e[1] > 0 THEN v.addr[e[1]][e[2]] ELSE v.store[-e[1]][e[2]]

\* The entries in use, when level says how many levels of blocks are below each block
\* that is not free.
Live(v, level) ==
  (File \X Addr) \cup
  {e \in {-c : c \in Blk} \X Ptr : -e[1] \notin v.free /\ level[-e[1]] >= 1}

\* The level of the blocks that an entry leads to.
Below(level, e) == IF e[1] > 0 THEN Depth(e[2]) ELSE level[-e[1]] - 1

\* Each entry in use leads to no block or to one that is not free, and whose only
\* entry it is (own); and every block that is not free has one.
Mapped(v, level, own) ==
  /\ level \in [Blk -> 0 .. 2]
  /\ \A e \in Live(v, level) : At(v, e) # 0 =>
       /\ At(v, e) \in Blk \ v.free
       /\ own[At(v, e)] = e
       /\ level[At(v, e)] = Below(level, e)
  /\ \A b \in Blk \ v.free : own[b] \in Live(v, level) /\ At(v, own[b]) = b

Good(v) == v \in Vols /\ \E level, own : Mapped(v, level, own)

Types ==
  /\ size \in [File -> Nat]
  /\ ofile \in [Fd -> [file : File, off : Nat] \cup {NoFile}]

IInv == Types /\ Good(vol)

\* ---- Constants ----

LEMMA Constants ==
  /\ DIRECT_ADDR \in Nat /\ SINGLES \in Nat /\ PTRS_PER_BLK \in Nat \ {0}
  /\ DATA_BLK_NUM \in Nat /\ NADDR \in Nat /\ NADDR = DIRECT_ADDR + SINGLES + 1
  /\ \A i \in Addr : Depth(i) \in 0 .. 2
  /\ 0 \notin Blk /\ INVALID_BLK \notin Blk /\ Blk \subseteq Nat
  /\ \A f \in File : f \in Nat /\ f > 0
  /\ \A c \in Blk : c \in Nat /\ c > 0 /\ -c < 0 /\ -(-c) = c
BY FileDataAssumption DEF Depth, NADDR, Addr, Blk, INVALID_BLK

\* Where an entry is.
LEMMA LiveParts ==
  ASSUME NEW v, NEW level, NEW e
  PROVE  e \in Live(v, level) <=>
           \/ \E f \in File, i \in Addr : e = <<f, i>>
           \/ \E c \in Blk, i \in Ptr : e = <<-c, i>> /\ c \notin v.free /\ level[c] >= 1
<1>1. ASSUME NEW c \in Blk, NEW i \in Ptr, e = <<-c, i>>
      PROVE  e \in Live(v, level) <=> c \notin v.free /\ level[c] >= 1
  <2>1. -e[1] = c /\ e[1] < 0 /\ e \in {-d : d \in Blk} \X Ptr
    BY <1>1, Constants
  <2>2. e \notin File \X Addr
    BY <1>1, Constants
  <2> QED BY <2>1, <2>2 DEF Live
<1>2. e \in Live(v, level) =>
        \/ \E f \in File, i \in Addr : e = <<f, i>>
        \/ \E c \in Blk, i \in Ptr : e = <<-c, i>>
  BY DEF Live
<1>3. \A f \in File, i \in Addr : e = <<f, i>> => e \in Live(v, level)
  BY DEF Live
<1> QED BY <1>1, <1>2, <1>3

LEMMA AtParts ==
  ASSUME NEW v, NEW level
  PROVE  /\ \A f \in File, i \in Addr : At(v, <<f, i>>) = v.addr[f][i] /\ Below(level, <<f, i>>) = Depth(i)
         /\ \A c \in Blk, i \in Ptr : At(v, <<-c, i>>) = v.store[c][i] /\ Below(level, <<-c, i>>) = level[c] - 1
BY Constants DEF At, Below

\* Entry e leads to a block that was free, in which there is nothing yet.
LEMMA GrantKeeps ==
  ASSUME NEW v, NEW u, NEW level, NEW own, Mapped(v, level, own), v \in Vols, u \in Vols,
         NEW e \in Live(v, level), At(v, e) = 0, NEW new \in v.free,
         u.free = v.free \ {new}, At(u, e) = new,
         \A d \in Live(v, level) : d # e => At(u, d) = At(v, d),
         Below(level, e) >= 1 => \A i \in Ptr : u.store[new][i] = 0
  PROVE  Mapped(u, [level EXCEPT ![new] = Below(level, e)],
                [b \in Blk |-> IF b = new THEN e ELSE own[b]])
<1> DEFINE l == [level EXCEPT ![new] = Below(level, e)]
           o == [b \in Blk |-> IF b = new THEN e ELSE own[b]]
<1>1. new \in Blk /\ v.free \subseteq Blk
  BY DEF Vols
<1>2. level \in [Blk -> 0 .. 2]
  BY DEF Mapped
<1>3. /\ l[new] = Below(level, e) /\ \A b \in Blk : b # new => l[b] = level[b]
      /\ o[new] = e /\ \A b \in Blk : b # new => o[b] = own[b]
  BY <1>1, <1>2
<1>4. Below(level, e) \in 0 .. 2
  <2>1. CASE \E f \in File, i \in Addr : e = <<f, i>>
    <3>1. PICK f \in File, i \in Addr : e = <<f, i>>
      BY <2>1
    <3>2. Below(level, <<f, i>>) = Depth(i)
      BY AtParts
    <3> QED BY <3>1, <3>2, Constants
  <2>2. CASE \E c \in Blk, i \in Ptr : e = <<-c, i>> /\ c \notin v.free /\ level[c] >= 1
    BY <1>2, <2>2, AtParts
  <2> QED BY <2>1, <2>2, LiveParts
<1>5. l \in [Blk -> 0 .. 2]
  BY <1>2, <1>4
<1> HIDE DEF l, o
<1>6. ASSUME NEW d \in Live(v, level)
      PROVE  d \in Live(u, l) /\ Below(l, d) = Below(level, d)
  <2>1. CASE \E f \in File, i \in Addr : d = <<f, i>>
    <3>1. PICK f \in File, i \in Addr : d = <<f, i>>
      BY <2>1
    <3>2. d \in Live(u, l)
      BY <3>1, LiveParts
    <3> QED BY <3>1, <3>2, AtParts
  <2>2. CASE \E c \in Blk, i \in Ptr : d = <<-c, i>> /\ c \notin v.free /\ level[c] >= 1
    <3>1. PICK c \in Blk, i \in Ptr : d = <<-c, i>> /\ c \notin v.free /\ level[c] >= 1
      BY <2>2
    <3>2. c # new /\ c \notin u.free /\ l[c] = level[c]
      BY <1>3, <3>1
    <3>3. d \in Live(u, l)
      BY <3>1, <3>2, LiveParts
    <3>4. Below(l, d) = l[c] - 1 /\ Below(level, d) = level[c] - 1
      <4>1. Below(l, <<-c, i>>) = l[c] - 1
        BY <3>1, AtParts
      <4>2. Below(level, <<-c, i>>) = level[c] - 1
        BY <3>1, AtParts
      <4> QED BY <3>1, <4>1, <4>2
    <3> QED BY <3>2, <3>3, <3>4
  <2> QED BY <2>1, <2>2, LiveParts
<1>7. ASSUME NEW d \in Live(u, l), d \notin Live(v, level)
      PROVE  At(u, d) = 0
  <2>1. ~ \E f \in File, i \in Addr : d = <<f, i>>
    BY <1>7, LiveParts
  <2>2. PICK c \in Blk, i \in Ptr : d = <<-c, i>> /\ c \notin u.free /\ l[c] >= 1
    BY <2>1, LiveParts
  <2>3. c = new
    <3> SUFFICES ASSUME c # new
                 PROVE  FALSE
      OBVIOUS
    <3>1. c \notin v.free /\ level[c] >= 1
      BY <1>3, <2>2
    <3> QED BY <1>7, <2>2, <3>1, LiveParts
  <2> QED BY <1>3, <2>2, <2>3, AtParts
<1>8. ASSUME NEW d \in Live(u, l), At(u, d) # 0
      PROVE  At(u, d) \in Blk \ u.free /\ o[At(u, d)] = d /\ l[At(u, d)] = Below(l, d)
  <2>1. d \in Live(v, level)
    BY <1>7, <1>8
  <2>2. CASE d = e
    BY <1>1, <1>3, <1>6, <2>1, <2>2
  <2>3. CASE d # e
    <3>1. At(u, d) = At(v, d) /\ At(v, d) # 0
      BY <1>8, <2>1, <2>3
    <3>2. At(v, d) \in Blk \ v.free /\ own[At(v, d)] = d /\ level[At(v, d)] = Below(level, d)
      BY <2>1, <3>1 DEF Mapped
    <3> QED BY <1>3, <1>6, <2>1, <3>1, <3>2
  <2> QED BY <2>2, <2>3
<1>9. ASSUME NEW b \in Blk \ u.free
      PROVE  o[b] \in Live(u, l) /\ At(u, o[b]) = b
  <2>1. CASE b = new
    BY <1>3, <1>6, <2>1
  <2>2. CASE b # new
    <3>1. own[b] \in Live(v, level) /\ At(v, own[b]) = b /\ o[b] = own[b] /\ b # 0
      BY <1>3, <2>2, Constants DEF Mapped
    <3> QED BY <1>6, <3>1
  <2> QED BY <2>1, <2>2
<1> QED BY <1>5, <1>8, <1>9 DEF Mapped, l, o

\* A block of data is written: there are no entries in it.
LEMMA EntriesNotData ==
  ASSUME NEW v, NEW u, NEW level,
         NEW b \in Blk, level[b] = 0, u.addr = v.addr, u.free = v.free,
         \A c \in Blk : c # b => u.store[c] = v.store[c]
  PROVE  Live(u, level) = Live(v, level) /\ \A d \in Live(v, level) : At(u, d) = At(v, d)
<1>1. Live(u, level) = Live(v, level)
  BY DEF Live
<1>2. ASSUME NEW d \in Live(v, level)
      PROVE  At(u, d) = At(v, d)
  <2>1. CASE \E f \in File, i \in Addr : d = <<f, i>>
    <3>1. PICK f \in File, i \in Addr : d = <<f, i>>
      BY <2>1
    <3>2. At(u, <<f, i>>) = u.addr[f][i] /\ At(v, <<f, i>>) = v.addr[f][i]
      BY AtParts
    <3> QED BY <3>1, <3>2
  <2>2. CASE \E c \in Blk, i \in Ptr : d = <<-c, i>> /\ c \notin v.free /\ level[c] >= 1
    <3>1. PICK c \in Blk, i \in Ptr : d = <<-c, i>> /\ c \notin v.free /\ level[c] >= 1
      BY <2>2
    <3>2. At(u, <<-c, i>>) = u.store[c][i] /\ At(v, <<-c, i>>) = v.store[c][i]
      BY AtParts
    <3>3. c # b
      BY <3>1
    <3> QED BY <3>1, <3>2, <3>3
  <2> QED BY <2>1, <2>2, LiveParts
<1> QED BY <1>1, <1>2

LEMMA DataKeeps ==
  ASSUME NEW v, NEW u, NEW level, NEW own, Mapped(v, level, own),
         NEW b \in Blk, level[b] = 0, u.addr = v.addr, u.free = v.free,
         \A c \in Blk : c # b => u.store[c] = v.store[c]
  PROVE  Mapped(u, level, own)
<1>1. Live(u, level) = Live(v, level) /\ \A d \in Live(v, level) : At(u, d) = At(v, d)
  BY EntriesNotData
<1> QED BY <1>1 DEF Mapped

\* ---- What truncate finds ----

\* The blocks under a file are those of its entries and of the entries in them.
LEMMA BlocksOfFile ==
  ASSUME NEW v \in Vols, NEW level, NEW own, Mapped(v, level, own), NEW f \in File
  PROVE  /\ \A i \in Addr : v.addr[f][i] # 0 => v.addr[f][i] \in BlocksOf(v, f)
         /\ \A c \in BlocksOf(v, f), j \in Ptr :
              level[c] >= 1 /\ v.store[c][j] # 0 => v.store[c][j] \in BlocksOf(v, f)
         /\ \A b \in BlocksOf(v, f) :
              /\ b \in Blk \ v.free
              /\ \/ \E i \in Addr : own[b] = <<f, i>>
                 \/ \E c \in BlocksOf(v, f), j \in Ptr : own[b] = <<-c, j>>
<1> DEFINE B == BlocksOf(v, f)
           below(b) == {v.store[b][j] : j \in Ptr} \ {0}
<1>1. level \in [Blk -> 0 .. 2] /\ v.free \subseteq Blk /\ v.addr \in [File -> [Addr -> Blk \cup {0}]]
  BY DEF Mapped, Vols
\* Entry i of the file.
<1>2. ASSUME NEW i \in Addr, v.addr[f][i] # 0
      PROVE  /\ v.addr[f][i] \in Blk \ v.free /\ own[v.addr[f][i]] = <<f, i>>
             /\ level[v.addr[f][i]] = Depth(i)
  <2>1. <<f, i>> \in Live(v, level) /\ At(v, <<f, i>>) = v.addr[f][i] /\ Below(level, <<f, i>>) = Depth(i)
    BY LiveParts, AtParts
  <2> QED BY <1>2, <2>1 DEF Mapped
\* Entry j of a block of entries.
<1>3. ASSUME NEW c \in Blk \ v.free, level[c] >= 1, NEW j \in Ptr, v.store[c][j] # 0
      PROVE  /\ v.store[c][j] \in Blk \ v.free /\ own[v.store[c][j]] = <<-c, j>>
             /\ level[v.store[c][j]] = level[c] - 1
  <2>1. <<-c, j>> \in Live(v, level) /\ At(v, <<-c, j>>) = v.store[c][j] /\ Below(level, <<-c, j>>) = level[c] - 1
    BY <1>3, LiveParts, AtParts
  <2> QED BY <1>3, <2>1 DEF Mapped
<1>4. \A b : b \in B <=> \E i \in Addr : b \in Under(v, v.addr[f][i], Depth(i))
  BY DEF BlocksOf, BlocksUnder, Addr
<1>5. ASSUME NEW i \in Addr, NEW b
      PROVE  b \in Under(v, v.addr[f][i], Depth(i)) <=>
               /\ v.addr[f][i] # 0
               /\ \/ b = v.addr[f][i]
                  \/ Depth(i) >= 1 /\ b \in below(v.addr[f][i])
                  \/ Depth(i) = 2 /\ \E c \in below(v.addr[f][i]) : b \in below(c)
  BY DEF Under, Ptr
<1>6. ASSUME NEW i \in Addr, v.addr[f][i] # 0
      PROVE  v.addr[f][i] \in B
  BY <1>4, <1>5, <1>6
<1>7. ASSUME NEW c \in B, NEW j \in Ptr, level[c] >= 1, v.store[c][j] # 0
      PROVE  v.store[c][j] \in B
  <2>1. PICK i \in Addr :
          /\ v.addr[f][i] # 0
          /\ \/ c = v.addr[f][i]
             \/ Depth(i) >= 1 /\ c \in below(v.addr[f][i])
             \/ Depth(i) = 2 /\ \E d \in below(v.addr[f][i]) : c \in below(d)
    BY <1>4, <1>5
  <2>2. level[v.addr[f][i]] = Depth(i) /\ v.addr[f][i] \in Blk \ v.free /\ Depth(i) \in 0 .. 2
    BY <1>2, <2>1, Constants
  <2>3. v.store[c][j] \in below(c)
    BY <1>7
  <2>4. CASE c = v.addr[f][i]
    <3>1. Depth(i) >= 1 /\ v.store[c][j] \in below(v.addr[f][i])
      BY <1>7, <2>2, <2>3, <2>4
    <3>2. v.store[c][j] \in Under(v, v.addr[f][i], Depth(i))
      BY <1>5, <2>1, <3>1
    <3> QED BY <1>4, <3>2
  <2>5. CASE Depth(i) >= 1 /\ c \in below(v.addr[f][i])
    <3>1. PICK k \in Ptr : c = v.store[v.addr[f][i]][k] /\ c # 0
      BY <2>5
    <3>2. level[c] = Depth(i) - 1
      BY <1>3, <2>2, <2>5, <3>1
    <3>3. Depth(i) = 2
      BY <1>7, <2>2, <3>2
    <3>4. v.store[c][j] \in Under(v, v.addr[f][i], Depth(i))
      BY <1>5, <2>1, <2>3, <2>5, <3>3
    <3> QED BY <1>4, <3>4
  <2>6. CASE Depth(i) = 2 /\ \E d \in below(v.addr[f][i]) : c \in below(d)
    <3>0. PICK d \in below(v.addr[f][i]) : c \in below(d)
      BY <2>6
    <3>1. PICK k \in Ptr : d = v.store[v.addr[f][i]][k] /\ d # 0
      OBVIOUS
    <3>2. level[d] = 1 /\ d \in Blk \ v.free
      BY <1>3, <2>2, <2>6, <3>1
    <3>3. PICK m \in Ptr : c = v.store[d][m] /\ c # 0
      BY <3>0
    <3>4. level[c] = 0
      BY <1>3, <3>2, <3>3
    <3> QED BY <1>7, <3>4
  <2> QED BY <2>1, <2>4, <2>5, <2>6
<1>8. ASSUME NEW b \in B
      PROVE  /\ b \in Blk \ v.free
             /\ \/ \E i \in Addr : own[b] = <<f, i>>
                \/ \E c \in B, j \in Ptr : own[b] = <<-c, j>>
  <2>1. PICK i \in Addr :
          /\ v.addr[f][i] # 0
          /\ \/ b = v.addr[f][i]
             \/ Depth(i) >= 1 /\ b \in below(v.addr[f][i])
             \/ Depth(i) = 2 /\ \E d \in below(v.addr[f][i]) : b \in below(d)
    BY <1>4, <1>5
  <2>2. /\ level[v.addr[f][i]] = Depth(i) /\ v.addr[f][i] \in Blk \ v.free
        /\ own[v.addr[f][i]] = <<f, i>> /\ v.addr[f][i] \in B
    BY <1>2, <1>6, <2>1
  <2>3. CASE b = v.addr[f][i]
    BY <2>2, <2>3
  <2>4. CASE Depth(i) >= 1 /\ b \in below(v.addr[f][i])
    <3>1. PICK k \in Ptr : b = v.store[v.addr[f][i]][k] /\ b # 0
      BY <2>4
    <3>2. own[b] = <<-v.addr[f][i], k>> /\ b \in Blk \ v.free
      BY <1>3, <2>2, <2>4, <3>1
    <3> QED BY <2>2, <3>2
  <2>5. CASE Depth(i) = 2 /\ \E d \in below(v.addr[f][i]) : b \in below(d)
    <3>0. PICK d \in below(v.addr[f][i]) : b \in below(d)
      BY <2>5
    <3>1. PICK k \in Ptr : d = v.store[v.addr[f][i]][k] /\ d # 0
      OBVIOUS
    <3>2. level[d] = 1 /\ d \in Blk \ v.free
      <4>1. PICK a \in Blk \ v.free : a = v.addr[f][i] /\ level[a] = 2
        BY <2>2, <2>5
      <4>2. d = v.store[a][k] /\ d # 0
        BY <3>1, <4>1
      <4> HIDE DEF below, B
      <4> QED BY <1>3, <4>1, <4>2
    <3>3. PICK m \in Ptr : b = v.store[d][m] /\ b # 0
      BY <3>0
    <3>4. own[b] = <<-d, m>> /\ b \in Blk \ v.free
      BY <1>3, <3>2, <3>3
    <3>5. d \in B
      BY <1>7, <2>2, <2>5, <3>1
    <3> QED BY <3>4, <3>5
  <2> QED BY <2>1, <2>3, <2>4, <2>5
<1> QED BY <1>6, <1>7, <1>8

\* truncate leaves the entries of the other files as they were.
LEMMA TruncateKeeps ==
  ASSUME NEW v \in Vols, NEW level, NEW own, Mapped(v, level, own), NEW f \in File
  PROVE  truncate(v, f) \in Vols /\ Mapped(truncate(v, f), level, own)
<1> DEFINE B == BlocksOf(v, f)
           u == truncate(v, f)
<1>1. /\ \A i \in Addr : v.addr[f][i] # 0 => v.addr[f][i] \in B
      /\ \A c \in B, j \in Ptr : level[c] >= 1 /\ v.store[c][j] # 0 => v.store[c][j] \in B
      /\ \A b \in B :
           /\ b \in Blk \ v.free
           /\ \/ \E i \in Addr : own[b] = <<f, i>>
              \/ \E c \in B, j \in Ptr : own[b] = <<-c, j>>
  BY BlocksOfFile
<1>2. /\ v.addr \in [File -> [Addr -> Blk \cup {0}]]
      /\ v.store \in [Blk -> [Ptr -> Word]] /\ v.free \subseteq Blk
  BY DEF Vols
<1>3. /\ u.free = v.free \cup B
      /\ \A g \in File, i \in Addr : u.addr[g][i] = IF g = f THEN 0 ELSE v.addr[g][i]
      /\ \A c \in Blk \ B : u.store[c] = v.store[c]
  BY <1>2 DEF truncate, Addr
<1>4. u \in Vols
  <2>1. [i \in 0 .. NADDR - 1 |-> 0] \in [Addr -> Blk \cup {0}]
    BY DEF Addr
  <2>2. Junk \in [Ptr -> Word]
    BY DEF Junk, Ptr, Word
  <2>3. [v.addr EXCEPT ![f] = [i \in 0 .. NADDR - 1 |-> 0]] \in [File -> [Addr -> Blk \cup {0}]]
    BY <1>2, <2>1
  <2>4. [b \in Blk |-> IF b \in B THEN Junk ELSE v.store[b]] \in [Blk -> [Ptr -> Word]]
    BY <1>2, <2>2
  <2>5. v.free \cup B \subseteq Blk
    BY <1>1, <1>2
  <2> QED BY <2>3, <2>4, <2>5 DEF truncate, Vols
<1> HIDE DEF B, u
<1>5. ASSUME NEW d \in Live(u, level), At(u, d) # 0
      PROVE  d \in Live(v, level) /\ At(u, d) = At(v, d) /\ At(v, d) \notin B
  <2>1. CASE \E g \in File, i \in Addr : d = <<g, i>>
    <3>1. PICK g \in File, i \in Addr : d = <<g, i>>
      BY <2>1
    <3>2. At(u, d) = u.addr[g][i] /\ At(v, d) = v.addr[g][i]
      BY <3>1, AtParts
    <3>3. g # f /\ At(u, d) = At(v, d)
      BY <1>3, <1>5, <3>2
    <3>4. d \in Live(v, level)
      BY <3>1, LiveParts
    <3>5. own[At(v, d)] = d
      BY <1>5, <3>3, <3>4 DEF Mapped
    <3>6. At(v, d) \notin B
      <4>1. \A i1 \in Addr : <<f, i1>> # d
        BY <3>1, <3>3
      <4>2. \A c \in Blk, j \in Ptr : <<-c, j>> # d
        BY <3>1, Constants
      <4> QED BY <1>1, <3>5, <4>1, <4>2
    <3> QED BY <3>3, <3>4, <3>6
  <2>2. CASE \E c \in Blk, i \in Ptr : d = <<-c, i>> /\ c \notin u.free /\ level[c] >= 1
    <3>1. PICK c \in Blk, i \in Ptr : d = <<-c, i>> /\ c \notin u.free /\ level[c] >= 1
      BY <2>2
    <3>2. c \notin B /\ c \notin v.free
      BY <1>3, <3>1
    <3>3. d \in Live(v, level)
      BY <3>1, <3>2, LiveParts
    <3>4. At(u, d) = u.store[c][i] /\ At(v, d) = v.store[c][i]
      BY <3>1, AtParts
    <3>5. At(u, d) = At(v, d)
      BY <1>3, <3>2, <3>4
    <3>6. own[At(v, d)] = d
      BY <1>5, <3>3, <3>5 DEF Mapped
    <3>7. At(v, d) \notin B
      <4>1. \A i1 \in Addr : <<f, i1>> # d
        BY <3>1, Constants
      <4>2. \A b \in B, j \in Ptr : <<-b, j>> # d
        <5>1. \A b \in Blk : -b = -c => b = c
          BY Constants
        <5> QED BY <1>1, <3>1, <3>2, <5>1
      <4> QED BY <1>1, <3>6, <4>1, <4>2
    <3> QED BY <3>3, <3>5, <3>7
  <2> QED BY <2>1, <2>2, <1>5, LiveParts
<1>6. ASSUME NEW b \in Blk \ u.free
      PROVE  own[b] \in Live(u, level) /\ At(u, own[b]) = b
  <2>1. b \in Blk \ v.free /\ b \notin B /\ b # 0
    BY <1>3, Constants
  <2>2. own[b] \in Live(v, level) /\ At(v, own[b]) = b
    BY <2>1 DEF Mapped
  <2>3. CASE \E g \in File, i \in Addr : own[b] = <<g, i>>
    <3>1. PICK g \in File, i \in Addr : own[b] = <<g, i>>
      BY <2>3
    <3>2. At(v, <<g, i>>) = v.addr[g][i] /\ At(u, <<g, i>>) = u.addr[g][i]
      BY AtParts
    <3>3. g # f
      BY <1>1, <2>1, <2>2, <3>1, <3>2
    <3>4. own[b] \in Live(u, level)
      BY <3>1, LiveParts
    <3> QED BY <1>3, <2>2, <3>1, <3>2, <3>3, <3>4
  <2>4. CASE \E c \in Blk, i \in Ptr : own[b] = <<-c, i>> /\ c \notin v.free /\ level[c] >= 1
    <3>1. PICK c \in Blk, i \in Ptr : own[b] = <<-c, i>> /\ c \notin v.free /\ level[c] >= 1
      BY <2>4
    <3>2. At(v, <<-c, i>>) = v.store[c][i] /\ At(u, <<-c, i>>) = u.store[c][i]
      BY AtParts
    <3>3. c \notin B
      BY <1>1, <2>1, <2>2, <3>1, <3>2
    <3>4. c \notin u.free
      BY <1>3, <3>1, <3>3
    <3>5. own[b] \in Live(u, level)
      BY <3>1, <3>4, LiveParts
    <3> QED BY <1>3, <2>2, <3>1, <3>2, <3>3, <3>5
  <2> QED BY <2>2, <2>3, <2>4, LiveParts
<1>7. \A d \in Live(u, level) : At(u, d) # 0 =>
        At(u, d) \in Blk \ u.free /\ own[At(u, d)] = d /\ level[At(u, d)] = Below(level, d)
  BY <1>3, <1>5 DEF Mapped
<1> QED BY <1>4, <1>6, <1>7 DEF Mapped, u

\* The block that balloc hands out is free.
LEMMA LowestMember ==
  ASSUME NEW S, S \subseteq Nat, S # {}
  PROVE  Lowest(S) \in S
<1>1. Lowest(S) = Least(S)
  BY DEF Lowest, Least
<1> QED BY <1>1, LeastMember

\* ---- The way to a logical block ----

LEMMA DivLess ==
  ASSUME NEW a \in Nat, NEW m \in Nat, NEW n \in Nat \ {0}, a < m * n
  PROVE  a \div n \in 0 .. m - 1
<1> DEFINE q == a \div n
           r == a % n
<1>1. q \in Nat /\ r \in 0 .. n - 1 /\ a = n * q + r
  BY DivMod
<1> HIDE DEF q, r
<1> SUFFICES ASSUME q >= m
             PROVE  FALSE
  BY <1>1 DEF q
<1>2. (q - m) \in Nat /\ (q - m) * n >= 0
  BY <1>1
<1>3. (q - m) * n = q * n - m * n
  BY <1>1
<1>4. q * n \in Int /\ m * n \in Int /\ n * q = q * n
  BY <1>1
<1> QED BY <1>1, <1>2, <1>3, <1>4

LEMMA EntriesWay ==
  ASSUME NEW l \in Nat, l < MaxBlks
  PROVE  LET way == Entries(l)
         IN  /\ Len(way) \in 1 .. 3
             /\ way[1] \in Addr /\ Depth(way[1]) = Len(way) - 1
             /\ \A k \in 2 .. Len(way) : way[k] \in Ptr
<1> DEFINE s == l - DIRECT_ADDR
           P == PTRS_PER_BLK
           SP == SINGLES * P
           t == s - SP
           way == Entries(l)
<1>1. P \in Nat \ {0} /\ SINGLES \in Nat /\ DIRECT_ADDR \in Nat /\ NADDR = DIRECT_ADDR + SINGLES + 1
  BY Constants
<1>2. SP \in Nat
  BY <1>1
<1>3. CASE s < 0
  <2>1. way = <<l>>
    BY <1>3 DEF Entries
  <2>2. l \in Addr /\ Depth(l) = 0
    BY <1>1, <1>3 DEF Addr, Depth
  <2> HIDE DEF way
  <2>3. Len(way) = 1 /\ way[1] = l
    BY <2>1
  <2> QED BY <2>2, <2>3 DEF way
<1>4. CASE s >= 0 /\ t < 0
  <2>1. way = <<DIRECT_ADDR + (s \div P), s % P>>
    BY <1>1, <1>4 DEF Entries
  <2> HIDE DEF way
  <2>2. s \in Nat /\ s < SINGLES * P
    <3> HIDE DEF SP
    <3>1. s \in Nat /\ s < SP
      BY <1>1, <1>2, <1>4
    <3> QED BY <3>1 DEF SP
  <2> HIDE DEF s
  <2>3. s \div P \in 0 .. SINGLES - 1 /\ s % P \in 0 .. P - 1
    BY <1>1, <2>2, DivLess, DivMod
  <2> DEFINE q == s \div P
             r == s % P
  <2>4. q \in 0 .. SINGLES - 1 /\ r \in Ptr /\ way = <<DIRECT_ADDR + q, r>>
    BY <2>1, <2>3 DEF Ptr
  <2> HIDE DEF q, r
  <2>5. DIRECT_ADDR + q \in Addr /\ Depth(DIRECT_ADDR + q) = 1
    BY <1>1, <2>4 DEF Addr, Depth
  <2>6. Len(way) = 2 /\ way[1] = DIRECT_ADDR + q /\ way[2] = r
    BY <2>4
  <2> QED BY <2>4, <2>5, <2>6 DEF way
<1>5. CASE s >= 0 /\ t >= 0
  <2>1. way = <<NADDR - 1, t \div P, t % P>>
    BY <1>1, <1>2, <1>5 DEF Entries
  <2> HIDE DEF way
  <2>2. t \in Nat /\ t < P * P
    <3> DEFINE PP == P * P
    <3>1. PP \in Nat /\ l < DIRECT_ADDR + SP + PP
      BY <1>1 DEF MaxBlks
    <3> HIDE DEF SP, PP
    <3>2. t \in Nat /\ t < PP
      BY <1>1, <1>2, <1>5, <3>1
    <3> QED BY <3>2 DEF PP
  <2> HIDE DEF t
  <2>3. t \div P \in 0 .. P - 1 /\ t % P \in 0 .. P - 1
    BY <1>1, <2>2, DivLess, DivMod
  <2> DEFINE q == t \div P
             r == t % P
  <2>4. q \in Ptr /\ r \in Ptr /\ way = <<NADDR - 1, q, r>>
    BY <2>1, <2>3 DEF Ptr
  <2> HIDE DEF q, r
  <2>5. NADDR - 1 \in Addr /\ Depth(NADDR - 1) = 2
    BY <1>1 DEF Addr, Depth
  <2>6. Len(way) = 3 /\ way[1] = NADDR - 1 /\ way[2] = q /\ way[3] = r
    BY <2>4
  <2> QED BY <2>4, <2>5, <2>6 DEF way
<1>6. s \in Int /\ t \in Int
  BY <1>1, <1>2
<1> HIDE DEF s, t
<1> QED BY <1>3, <1>4, <1>5, <1>6

\* What an entry in use leads to.
Leading(v, level, own) ==
  /\ \A f \in File, i \in Addr : v.addr[f][i] # 0 =>
       /\ v.addr[f][i] \in Blk \ v.free /\ own[v.addr[f][i]] = <<f, i>>
       /\ level[v.addr[f][i]] = Depth(i)
  /\ \A c \in Blk \ v.free, j \in Ptr : level[c] >= 1 /\ v.store[c][j] # 0 =>
       /\ v.store[c][j] \in Blk \ v.free /\ own[v.store[c][j]] = <<-c, j>>
       /\ level[v.store[c][j]] = level[c] - 1

LEMMA EntriesLead ==
  ASSUME NEW v, NEW level, NEW own, Mapped(v, level, own)
  PROVE  Leading(v, level, own)
<1>1. ASSUME NEW f \in File, NEW i \in Addr, v.addr[f][i] # 0
      PROVE  /\ v.addr[f][i] \in Blk \ v.free /\ own[v.addr[f][i]] = <<f, i>>
             /\ level[v.addr[f][i]] = Depth(i)
  <2>1. <<f, i>> \in Live(v, level) /\ At(v, <<f, i>>) = v.addr[f][i] /\ Below(level, <<f, i>>) = Depth(i)
    BY LiveParts, AtParts
  <2> QED BY <1>1, <2>1 DEF Mapped
<1>2. ASSUME NEW c \in Blk \ v.free, level[c] >= 1, NEW j \in Ptr, v.store[c][j] # 0
      PROVE  /\ v.store[c][j] \in Blk \ v.free /\ own[v.store[c][j]] = <<-c, j>>
             /\ level[v.store[c][j]] = level[c] - 1
  <2>1. <<-c, j>> \in Live(v, level) /\ At(v, <<-c, j>>) = v.store[c][j] /\ Below(level, <<-c, j>>) = level[c] - 1
    BY <1>2, LiveParts, AtParts
  <2> QED BY <1>2, <2>1 DEF Mapped
<1> QED BY <1>1, <1>2 DEF Leading

\* ---- What bmap finds ----

\* The block at the end of the first k entries of the way, 0 if one of them is empty.
Down(v, b, i) == IF b = 0 THEN 0 ELSE v.store[b][i]

Node(v, f, way, k) ==
  IF k = 1 THEN v.addr[f][way[1]]
  ELSE IF k = 2 THEN Down(v, v.addr[f][way[1]], way[2])
  ELSE Down(v, Down(v, v.addr[f][way[1]], way[2]), way[3])

LEMMA NodeStep ==
  ASSUME NEW v, NEW f, NEW way, NEW k \in 1 .. 3
  PROVE  /\ k = 1 => Node(v, f, way, k) = v.addr[f][way[1]]
         /\ k > 1 => Node(v, f, way, k) = Down(v, Node(v, f, way, k - 1), way[k])
<1>1. CASE k = 1
  BY <1>1 DEF Node
<1>2. CASE k = 2
  BY <1>2 DEF Node
<1>3. CASE k = 3
  BY <1>3 DEF Node
<1> QED BY <1>1, <1>2, <1>3

LEMMA MaxBlksInt == MaxBlks \in Nat
<1>1. \A a, b \in Nat : a * b \in Nat
  OBVIOUS
<1> DEFINE x == SINGLES * PTRS_PER_BLK
           y == PTRS_PER_BLK * PTRS_PER_BLK
<1>2. x \in Nat /\ y \in Nat /\ DIRECT_ADDR \in Nat
  BY <1>1, Constants
<1> HIDE DEF x, y
<1> QED BY <1>2 DEF MaxBlks, x, y

LEMMA BmapIs ==
  ASSUME NEW v, NEW f, NEW l \in Nat
  PROVE  /\ l >= MaxBlks => bmap(v, f, l) = 0
         /\ l < MaxBlks => bmap(v, f, l) = Node(v, f, Entries(l), Len(Entries(l)))
<1>1. CASE l >= MaxBlks
  <2>1. bmap(v, f, l) = 0
    BY <1>1, Zenon DEF bmap
  <2> QED BY <1>1, <2>1, MaxBlksInt
<1>2. CASE ~ (l >= MaxBlks)
  <2>0. l < MaxBlks
    BY <1>2, MaxBlksInt
  <2> DEFINE way == Entries(l)
             n == Len(way)
             at[k \in 1 .. Len(way)] ==
               IF k = 1 THEN Entry(v, f, way, 1, 0)
               ELSE IF at[k - 1] = 0 THEN 0 ELSE Entry(v, f, way, k, at[k - 1])
             w == [k \in 1 .. n |-> Node(v, f, way, k)]
             Def(g) == [k \in 1 .. Len(way) |->
               IF k = 1 THEN Entry(v, f, way, 1, 0)
               ELSE IF g[k - 1] = 0 THEN 0 ELSE Entry(v, f, way, k, g[k - 1])]
  <2>1. bmap(v, f, l) = at[n]
    BY <1>2, Zenon DEF bmap
  <2>2. n \in 1 .. 3
    BY <2>0, EntriesWay
  <2> HIDE DEF way, n
  <2>3. ASSUME NEW k \in 1 .. n
        PROVE  w[k] = IF k = 1 THEN Entry(v, f, way, 1, 0)
                      ELSE IF w[k - 1] = 0 THEN 0 ELSE Entry(v, f, way, k, w[k - 1])
    <3>1. k \in 1 .. 3 /\ w[k] = Node(v, f, way, k)
      BY <2>2
    <3>2. CASE k = 1
      BY <3>1, <3>2, NodeStep DEF Entry
    <3>3. CASE k # 1
      <4>1. k - 1 \in 1 .. n /\ k > 1
        BY <2>2, <3>3
      <4>2. w[k - 1] = Node(v, f, way, k - 1)
        BY <4>1
      <4> HIDE DEF w
      <4> QED BY <3>1, <3>3, <4>1, <4>2, NodeStep DEF Entry, Down
    <3> QED BY <3>2, <3>3
  <2>4. w = Def(w)
    <3>1. Def(w) = [k \in 1 .. n |->
               IF k = 1 THEN Entry(v, f, way, 1, 0)
               ELSE IF w[k - 1] = 0 THEN 0 ELSE Entry(v, f, way, k, w[k - 1])]
      BY Zenon DEF n
    <3>2. w = [k \in 1 .. n |-> w[k]]
      OBVIOUS
    <3> HIDE DEF w, Def
    <3>3. [k \in 1 .. n |-> w[k]] = [k \in 1 .. n |->
               IF k = 1 THEN Entry(v, f, way, 1, 0)
               ELSE IF w[k - 1] = 0 THEN 0 ELSE Entry(v, f, way, k, w[k - 1])]
      BY <2>3
    <3> QED BY <3>1, <3>2, <3>3
  <2>5. at = Def(at)
    BY <2>4, Zenon
  <2>6. \A k \in 1 .. n : at[k] = IF k = 1 THEN Entry(v, f, way, 1, 0)
                      ELSE IF at[k - 1] = 0 THEN 0 ELSE Entry(v, f, way, k, at[k - 1])
    <3>1. Def(at) = [k \in 1 .. n |->
               IF k = 1 THEN Entry(v, f, way, 1, 0)
               ELSE IF at[k - 1] = 0 THEN 0 ELSE Entry(v, f, way, k, at[k - 1])]
      BY Zenon DEF n
    <3> HIDE DEF at, Def
    <3> DEFINE body(k) == IF k = 1 THEN Entry(v, f, way, 1, 0)
               ELSE IF at[k - 1] = 0 THEN 0 ELSE Entry(v, f, way, k, at[k - 1])
    <3>2. at = [k \in 1 .. n |-> body(k)]
      BY <2>5, <3>1
    <3> HIDE DEF body
    <3>3. \A k \in 1 .. n : at[k] = body(k)
      BY <3>2
    <3> QED BY <3>3 DEF body
  <2> HIDE DEF at, w
  <2>7. ASSUME NEW k \in 1 .. 3, k <= n, k = 1 \/ at[k - 1] = Node(v, f, way, k - 1)
        PROVE  at[k] = Node(v, f, way, k)
    <3>1. k \in 1 .. n
      BY <2>2, <2>7
    <3> QED BY <2>6, <2>7, <3>1, NodeStep DEF Entry, Down
  <2>8. at[1] = Node(v, f, way, 1)
    BY <2>2, <2>7
  <2>9. n >= 2 => at[2] = Node(v, f, way, 2)
    <3>1. 2 - 1 = 1 /\ 2 \in 1 .. 3
      OBVIOUS
    <3> QED BY <2>7, <2>8, <3>1
  <2>10. n >= 3 => at[3] = Node(v, f, way, 3)
    <3>1. 3 - 1 = 2 /\ 3 \in 1 .. 3 /\ (n >= 3 => n >= 2)
      BY <2>2
    <3> QED BY <2>7, <2>9, <3>1
  <2>11. at[n] = Node(v, f, way, n)
    <3>1. n = 1 \/ n = 2 \/ n = 3
      BY <2>2
    <3> QED BY <2>8, <2>9, <2>10, <3>1
  <2>12. bmap(v, f, l) = Node(v, f, way, n)
    BY <2>1, <2>11
  <2> QED BY <2>0, <2>12, MaxBlksInt DEF n, way
<1> QED BY <1>1, <1>2

\* The blocks on a way, from di_addr to the data.
OnWay(v, level, own, f, way, k) ==
  LET b == Node(v, f, way, k)
      c == Node(v, f, way, k - 1)
  IN  /\ b \in Blk \ v.free /\ level[b] = Len(way) - k
      /\ k = 1 => own[b] = <<f, way[1]>>
      /\ k > 1 => /\ c # 0 /\ c \in Blk \ v.free /\ level[c] = Len(way) - (k - 1)
                  /\ level[c] >= 1
                  /\ b = v.store[c][way[k]] /\ own[b] = <<-c, way[k]>>

LEMMA NodeMapped ==
  ASSUME NEW v, NEW level, NEW own, Mapped(v, level, own),
         NEW f \in File, NEW l \in Nat, l < MaxBlks, NEW way, way = Entries(l),
         NEW k \in 1 .. Len(way), Node(v, f, way, k) # 0
  PROVE  OnWay(v, level, own, f, way, k)
<1> DEFINE n == Len(way)
           N(j) == Node(v, f, way, j)
<1>1. /\ n \in 1 .. 3 /\ way[1] \in Addr /\ Depth(way[1]) = n - 1
      /\ \A j \in 2 .. n : way[j] \in Ptr
  BY EntriesWay
<1> HIDE DEF n
<1>2. /\ N(1) = v.addr[f][way[1]]
      /\ \A j \in 2 .. 3 : N(j) = Down(v, N(j - 1), way[j])
  BY NodeStep
<1> HIDE DEF N
<1>0. Leading(v, level, own)
  BY EntriesLead
<1>3. N(1) # 0 => N(1) \in Blk \ v.free /\ own[N(1)] = <<f, way[1]>> /\ level[N(1)] = n - 1
  <2>1. PICK i \in Addr : i = way[1] /\ Depth(i) = n - 1
    BY <1>1
  <2>2. v.addr[f][i] # 0 => v.addr[f][i] \in Blk \ v.free /\ own[v.addr[f][i]] = <<f, i>> /\ level[v.addr[f][i]] = Depth(i)
    BY <1>0 DEF Leading
  <2> QED BY <1>2, <2>1, <2>2
<1>4. ASSUME NEW j \in 2 .. 3, j <= n, N(j) # 0,
             N(j - 1) # 0 => N(j - 1) \in Blk \ v.free /\ level[N(j - 1)] = n - (j - 1)
      PROVE  /\ N(j) \in Blk \ v.free /\ level[N(j)] = n - j
             /\ N(j - 1) # 0 /\ N(j - 1) \in Blk \ v.free /\ level[N(j - 1)] = n - (j - 1)
             /\ level[N(j - 1)] >= 1
             /\ N(j) = v.store[N(j - 1)][way[j]] /\ own[N(j)] = <<-N(j - 1), way[j]>>
  <2>1. N(j) = Down(v, N(j - 1), way[j])
    BY <1>2
  <2>2. N(j - 1) # 0 /\ N(j) = v.store[N(j - 1)][way[j]]
    BY <1>4, <2>1 DEF Down
  <2>3. PICK c : c = N(j - 1)
    OBVIOUS
  <2>4. c \in Blk \ v.free /\ level[c] = n - (j - 1) /\ level[c] >= 1 /\ n - (j - 1) - 1 = n - j
    BY <1>1, <1>4, <2>2, <2>3
  <2>5. way[j] \in Ptr /\ v.store[c][way[j]] # 0 /\ N(j) = v.store[c][way[j]]
    BY <1>1, <1>4, <2>2, <2>3
  <2>6. N(j) \in Blk \ v.free /\ own[N(j)] = <<-c, way[j]>> /\ level[N(j)] = level[c] - 1
    <3>1. PICK i \in Ptr : i = way[j] /\ v.store[c][i] # 0 /\ N(j) = v.store[c][i]
      BY <2>5
    <3>2. v.store[c][i] \in Blk \ v.free /\ own[v.store[c][i]] = <<-c, i>> /\ level[v.store[c][i]] = level[c] - 1
      BY <1>0, <2>4, <3>1 DEF Leading
    <3> QED BY <3>1, <3>2
  <2> QED BY <2>2, <2>3, <2>4, <2>6
<1>5. 2 \in 2 .. 3 /\ 3 \in 2 .. 3 /\ 2 - 1 = 1 /\ 3 - 1 = 2
  OBVIOUS
<1>6. k \in 1 .. 3 /\ k <= n
  BY <1>1 DEF n
<1>7. CASE k = 1
  BY <1>3, <1>7 DEF N, n, OnWay
<1>8. CASE k = 2
  <2>1. N(2) # 0 /\ n >= 2
    BY <1>6, <1>8 DEF N
  <2>2. /\ N(2) \in Blk \ v.free /\ level[N(2)] = n - 2
        /\ N(1) # 0 /\ N(1) \in Blk \ v.free /\ level[N(1)] = n - 1
        /\ level[N(1)] >= 1
        /\ N(2) = v.store[N(1)][way[2]] /\ own[N(2)] = <<-N(1), way[2]>>
    BY <1>3, <1>4, <1>5, <2>1
  <2> QED BY <1>5, <1>8, <2>2 DEF N, n, OnWay
<1>9. CASE k = 3
  <2>1. N(3) # 0 /\ n >= 3
    BY <1>6, <1>9 DEF N
  <2>2. N(2) # 0 /\ n >= 2
    BY <1>1, <1>2, <1>5, <2>1 DEF Down
  <2>3. N(2) \in Blk \ v.free /\ level[N(2)] = n - 2
    BY <1>3, <1>4, <1>5, <2>2
  <2>4. /\ N(3) \in Blk \ v.free /\ level[N(3)] = n - 3
        /\ N(2) # 0 /\ N(2) \in Blk \ v.free /\ level[N(2)] = n - 2
        /\ level[N(2)] >= 1
        /\ N(3) = v.store[N(2)][way[3]] /\ own[N(3)] = <<-N(2), way[3]>>
    BY <1>4, <1>5, <2>1, <2>3
  <2> QED BY <1>5, <1>9, <2>4 DEF N, n, OnWay
<1> QED BY <1>6, <1>7, <1>8, <1>9

\* ---- What stays where it is ----

\* Entries that lead to a block still do, and data is what it was.
Extends(v, u, level) ==
  /\ \A e \in Live(v, level) : At(v, e) # 0 => At(u, e) = At(v, e)
  /\ \A b \in Blk \ v.free : level[b] = 0 => u.store[b] = v.store[b]

\* Whatever bmap finds of the files in G is still there, with the same words.
Same(v, u, G) ==
  \A g \in G, l \in Nat : bmap(v, g, l) # 0 =>
    bmap(u, g, l) = bmap(v, g, l) /\ u.store[bmap(v, g, l)] = v.store[bmap(v, g, l)]

LEMMA SameSelf ==
  ASSUME NEW v, NEW G
  PROVE  Same(v, v, G)
BY DEF Same

LEMMA SameJoin ==
  ASSUME NEW v, NEW u, NEW w, NEW G, Same(v, u, G), Same(u, w, G)
  PROVE  Same(v, w, G)
<1> SUFFICES ASSUME NEW g \in G, NEW l \in Nat, bmap(v, g, l) # 0
             PROVE  bmap(w, g, l) = bmap(v, g, l) /\ w.store[bmap(v, g, l)] = v.store[bmap(v, g, l)]
  BY DEF Same
<1>1. bmap(u, g, l) = bmap(v, g, l) /\ u.store[bmap(v, g, l)] = v.store[bmap(v, g, l)]
  BY DEF Same
<1>2. bmap(w, g, l) = bmap(u, g, l) /\ w.store[bmap(u, g, l)] = u.store[bmap(u, g, l)]
  BY <1>1 DEF Same
<1> QED BY <1>1, <1>2

\* Entry k of a way.
Way(f, way, c, k) == IF k = 1 THEN <<f, way[1]>> ELSE <<-c, way[k]>>

LEMMA WayLive ==
  ASSUME NEW v, NEW level, NEW own, Mapped(v, level, own),
         NEW f \in File, NEW l \in Nat, l < MaxBlks, NEW way, way = Entries(l),
         NEW k \in 1 .. Len(way), Node(v, f, way, k) # 0
  PROVE  LET e == Way(f, way, Node(v, f, way, k - 1), k)
         IN  e \in Live(v, level) /\ At(v, e) = Node(v, f, way, k)
                                  /\ own[Node(v, f, way, k)] = e
<1> DEFINE b == Node(v, f, way, k)
           c == Node(v, f, way, k - 1)
           n == Len(way)
           e == Way(f, way, c, k)
<1>1. /\ n \in 1 .. 3 /\ way[1] \in Addr
      /\ \A j \in 2 .. n : way[j] \in Ptr
  BY EntriesWay
<1>2. /\ b \in Blk \ v.free /\ level[b] = n - k
      /\ k = 1 => own[b] = <<f, way[1]>>
      /\ k > 1 => /\ c # 0 /\ c \in Blk \ v.free /\ level[c] = n - (k - 1)
                  /\ level[c] >= 1
                  /\ b = v.store[c][way[k]] /\ own[b] = <<-c, way[k]>>
  BY NodeMapped DEF OnWay
<1>3. k = 1 => b = v.addr[f][way[1]]
  BY DEF Node
<1>4. k \in Int /\ k >= 1 /\ (k # 1 => k \in 2 .. n)
  BY <1>1
<1> HIDE DEF b, c, n
<1>5. CASE k = 1
  <2>1. PICK i \in Addr : i = way[1]
    BY <1>1
  <2>2. e = <<f, i>>
    BY <1>5, <2>1 DEF Way
  <2>3. <<f, i>> \in Live(v, level) /\ At(v, <<f, i>>) = v.addr[f][i]
    BY LiveParts, AtParts
  <2>4. e \in Live(v, level) /\ At(v, e) = b /\ own[b] = e
    BY <1>2, <1>3, <1>5, <2>1, <2>2, <2>3
  <2> QED BY <2>4 DEF b, c, n
<1>6. CASE k # 1
  <2>1. PICK i \in Ptr : i = way[k]
    BY <1>1, <1>4, <1>6
  <2>2. e = <<-c, i>> /\ k > 1
    BY <1>4, <1>6, <2>1 DEF Way
  <2>3. c \in Blk /\ c \notin v.free /\ level[c] >= 1
    BY <1>2, <2>2
  <2>4. <<-c, i>> \in Live(v, level)
    BY <2>3, LiveParts
  <2>5. At(v, <<-c, i>>) = v.store[c][i]
    BY <2>3, AtParts
  <2>6. e \in Live(v, level) /\ At(v, e) = b /\ own[b] = e
    BY <1>2, <2>1, <2>2, <2>4, <2>5
  <2> QED BY <2>6 DEF b, c, n
<1> QED BY <1>5, <1>6

\* Where all entries of a way are kept, it leads to the same blocks.
LEMMA NodesKept ==
  ASSUME NEW v, NEW u, NEW level, NEW own, Mapped(v, level, own),
         NEW f \in File, NEW l \in Nat, l < MaxBlks, NEW way, way = Entries(l),
         \A k \in 1 .. Len(way) :
           LET e == Way(f, way, Node(v, f, way, k - 1), k)
           IN  Node(v, f, way, k) # 0 => At(u, e) = At(v, e)
  PROVE  \A k \in 1 .. Len(way) : Node(v, f, way, k) # 0 => Node(u, f, way, k) = Node(v, f, way, k)
<1> DEFINE n == Len(way)
           N(k) == Node(v, f, way, k)
           M(k) == Node(u, f, way, k)
           e(k) == Way(f, way, Node(v, f, way, k - 1), k)
<1>1. /\ n \in 1 .. 3 /\ way[1] \in Addr
      /\ \A j \in 2 .. n : way[j] \in Ptr
  BY EntriesWay
<1>2. ASSUME NEW k \in 1 .. n, N(k) # 0
      PROVE  At(u, e(k)) = N(k)
  BY <1>2, WayLive
<1>3. N(1) # 0 => M(1) = N(1)
  <2> SUFFICES ASSUME N(1) # 0
               PROVE  M(1) = N(1)
    OBVIOUS
  <2>1. PICK i \in Addr : i = way[1]
    BY <1>1
  <2>2. At(u, <<f, i>>) = u.addr[f][i]
    BY AtParts
  <2>3. M(1) = u.addr[f][way[1]]
    BY DEF Node
  <2>4. e(1) = <<f, i>>
    BY <2>1 DEF Way
  <2>5. At(u, e(1)) = N(1)
    BY <1>1, <1>2
  <2> QED BY <2>1, <2>2, <2>3, <2>4, <2>5
<1>4. ASSUME NEW k \in 2 .. n, N(k) # 0, N(k - 1) # 0 => M(k - 1) = N(k - 1)
      PROVE  N(k - 1) # 0 /\ M(k) = N(k)
  <2>0. k \in 1 .. Len(way) /\ k > 1 /\ k # 1 /\ k \in 1 .. 3
    BY <1>1
  <2>1. /\ N(k - 1) # 0 /\ N(k - 1) \in Blk
    BY <1>4, <2>0, NodeMapped DEF OnWay
  <2>2. M(k) = Down(u, M(k - 1), way[k])
    BY <2>0, NodeStep
  <2> HIDE DEF N, M
  <2>3. M(k) = u.store[N(k - 1)][way[k]]
    BY <1>4, <2>1, <2>2 DEF Down
  <2>4. PICK i \in Ptr, c \in Blk : i = way[k] /\ c = N(k - 1)
    BY <1>1, <2>1
  <2>5. e(k) = <<-c, i>>
    BY <2>0, <2>4 DEF Way, N
  <2>6. At(u, <<-c, i>>) = u.store[c][i]
    BY AtParts
  <2>7. At(u, e(k)) = N(k)
    BY <1>2, <1>4, <2>0 DEF n
  <2> QED BY <2>1, <2>3, <2>4, <2>5, <2>6, <2>7
<1> HIDE DEF N, M, n
<1>5. 2 - 1 = 1 /\ 3 - 1 = 2 /\ (n >= 2 => 2 \in 2 .. n) /\ (n >= 3 => n >= 2 /\ 3 \in 2 .. n)
  BY <1>1
<1>6. n >= 2 /\ N(2) # 0 => M(2) = N(2)
  BY <1>3, <1>4, <1>5
<1>7. n >= 3 /\ N(3) # 0 => M(3) = N(3)
  BY <1>4, <1>5, <1>6
<1>8. \A k \in 1 .. n : N(k) # 0 => M(k) = N(k)
  <2> SUFFICES ASSUME NEW k \in 1 .. n, N(k) # 0
               PROVE  M(k) = N(k)
    OBVIOUS
  <2>1. k = 1 \/ (k = 2 /\ n >= 2) \/ (k = 3 /\ n >= 3)
    BY <1>1
  <2> QED BY <1>3, <1>6, <1>7, <2>1
<1> QED BY <1>8 DEF N, M, n

LEMMA ExtendsSame ==
  ASSUME NEW v, NEW u, NEW level, NEW own, Mapped(v, level, own), Extends(v, u, level)
  PROVE  /\ Same(v, u, File)
         /\ \A f \in File, l \in Nat : l < MaxBlks =>
              \A k \in 1 .. Len(Entries(l)) :
                Node(v, f, Entries(l), k) # 0 => Node(u, f, Entries(l), k) = Node(v, f, Entries(l), k)
<1>1. ASSUME NEW f \in File, NEW l \in Nat, l < MaxBlks
      PROVE  \A k \in 1 .. Len(Entries(l)) :
               Node(v, f, Entries(l), k) # 0 => Node(u, f, Entries(l), k) = Node(v, f, Entries(l), k)
  <2> DEFINE way == Entries(l)
  <2>1. ASSUME NEW k \in 1 .. Len(way), Node(v, f, way, k) # 0
        PROVE  LET e == Way(f, way, Node(v, f, way, k - 1), k)
               IN  At(u, e) = At(v, e)
    <3> DEFINE e == Way(f, way, Node(v, f, way, k - 1), k)
    <3>1. e \in Live(v, level) /\ At(v, e) = Node(v, f, way, k)
      BY <1>1, <2>1, WayLive
    <3> HIDE DEF e
    <3>2. At(u, e) = At(v, e)
      BY <2>1, <3>1 DEF Extends
    <3> QED BY <3>2 DEF e
  <2> QED BY <1>1, <2>1, NodesKept
<1>2. ASSUME NEW f \in File, NEW l \in Nat, bmap(v, f, l) # 0
      PROVE  bmap(u, f, l) = bmap(v, f, l) /\ u.store[bmap(v, f, l)] = v.store[bmap(v, f, l)]
  <2> DEFINE way == Entries(l)
             n == Len(way)
  <2>1. l < MaxBlks
    BY <1>2, BmapIs, MaxBlksInt
  <2>2. bmap(v, f, l) = Node(v, f, way, n) /\ bmap(u, f, l) = Node(u, f, way, n)
    BY <2>1, BmapIs
  <2>3. n \in 1 .. n /\ n - n = 0
    BY <2>1, EntriesWay
  <2>4. Node(v, f, way, n) \in Blk \ v.free /\ level[Node(v, f, way, n)] = n - n
    <3>1. OnWay(v, level, own, f, way, n)
      BY <1>2, <2>1, <2>2, <2>3, NodeMapped
    <3> HIDE DEF way, n
    <3> QED BY <3>1, <2>3 DEF OnWay, n
  <2>5. Node(u, f, way, n) = Node(v, f, way, n)
    BY <1>1, <1>2, <2>1, <2>2, <2>3
  <2> HIDE DEF n, way
  <2>6. u.store[Node(v, f, way, n)] = v.store[Node(v, f, way, n)]
    BY <2>3, <2>4 DEF Extends
  <2> QED BY <2>2, <2>5, <2>6
<1> QED BY <1>1, <1>2 DEF Same

\* ---- No two logical blocks on one ----

\* The way says which logical block it leads to.
LEMMA EntriesValue ==
  ASSUME NEW l \in Nat, l < MaxBlks, NEW way, way = Entries(l)
  PROVE  l = IF Len(way) = 1 THEN way[1]
             ELSE IF Len(way) = 2 THEN DIRECT_ADDR + PTRS_PER_BLK * (way[1] - DIRECT_ADDR) + way[2]
             ELSE DIRECT_ADDR + SINGLES * PTRS_PER_BLK + PTRS_PER_BLK * way[2] + way[3]
<1> DEFINE s == l - DIRECT_ADDR
           P == PTRS_PER_BLK
           SP == SINGLES * P
           t == s - SP
<1>1. P \in Nat \ {0} /\ SINGLES \in Nat /\ DIRECT_ADDR \in Nat /\ SP \in Nat
  BY Constants
<1>2. CASE s < 0
  <2>1. way = <<l>>
    BY <1>2 DEF Entries
  <2> QED BY <2>1
<1>3. CASE s >= 0 /\ t < 0
  <2>1. way = <<DIRECT_ADDR + (s \div P), s % P>>
    BY <1>1, <1>3 DEF Entries
  <2> DEFINE q == s \div P
             r == s % P
  <2>2. s \in Nat
    BY <1>1, <1>3
  <2>3. q \in Nat /\ r \in Nat /\ s = P * q + r
    <3> HIDE DEF s
    <3> QED BY <1>1, <2>2, DivMod
  <2>4. way = <<DIRECT_ADDR + q, r>>
    BY <2>1
  <2>5. l = DIRECT_ADDR + s
    BY <1>1
  <2> HIDE DEF q, r, s
  <2>6. Len(way) = 2 /\ way[1] = DIRECT_ADDR + q /\ way[2] = r
    BY <2>4
  <2>7. way[1] - DIRECT_ADDR = q
    BY <1>1, <2>3, <2>6
  <2> DEFINE Pq == P * q
  <2>8. Pq \in Int
    BY <1>1, <2>3
  <2>9. l = DIRECT_ADDR + Pq + r
    <3>1. s = Pq + r
      BY <2>3
    <3> HIDE DEF Pq
    <3> QED BY <1>1, <2>3, <2>5, <2>8, <3>1
  <2> QED BY <2>6, <2>7, <2>9
<1>4. CASE s >= 0 /\ t >= 0
  <2>1. way = <<NADDR - 1, t \div P, t % P>>
    BY <1>1, <1>4 DEF Entries
  <2> DEFINE q == t \div P
             r == t % P
  <2>2. t \in Nat
    <3> HIDE DEF SP
    <3> QED BY <1>1, <1>4
  <2>3. q \in Nat /\ r \in Nat /\ t = P * q + r
    <3> HIDE DEF t
    <3> QED BY <1>1, <2>2, DivMod
  <2>4. way = <<NADDR - 1, q, r>>
    BY <2>1
  <2>5. l = DIRECT_ADDR + SP + t
    <3> HIDE DEF SP
    <3> QED BY <1>1
  <2> HIDE DEF q, r, t
  <2>6. Len(way) = 3 /\ way[2] = q /\ way[3] = r
    BY <2>4
  <2> DEFINE Pq == P * q
  <2>8. Pq \in Int
    BY <1>1, <2>3
  <2>9. l = DIRECT_ADDR + SP + Pq + r
    <3>1. t = Pq + r
      BY <2>3
    <3> HIDE DEF Pq, SP
    <3> QED BY <1>1, <2>3, <2>5, <2>8, <3>1
  <2> QED BY <2>6, <2>9
<1>5. s \in Int /\ t \in Int
  BY <1>1
<1> HIDE DEF s, t
<1> QED BY <1>2, <1>3, <1>4, <1>5

\* One step back from a block that two ways lead to.
LEMMA Back ==
  ASSUME NEW v, NEW level, NEW own, Mapped(v, level, own),
         NEW f \in File, NEW l \in Nat, l < MaxBlks, NEW way, way = Entries(l),
         NEW g \in File, NEW m \in Nat, m < MaxBlks, NEW wax, wax = Entries(m),
         NEW i \in 1 .. Len(way), NEW j \in 1 .. Len(wax),
         Node(v, f, way, i) # 0, Node(v, f, way, i) = Node(v, g, wax, j)
  PROVE  /\ i = 1 /\ j = 1 => f = g /\ way[1] = wax[1]
         /\ i > 1 <=> j > 1
         /\ i > 1 => /\ Node(v, f, way, i - 1) # 0
                     /\ Node(v, f, way, i - 1) = Node(v, g, wax, j - 1)
                     /\ way[i] = wax[j]
         /\ Len(way) - i = Len(wax) - j
<1> DEFINE b == Node(v, f, way, i)
           c == Node(v, f, way, i - 1)
           d == Node(v, g, wax, j - 1)
<1>1. /\ b \in Blk \ v.free /\ level[b] = Len(way) - i
      /\ i = 1 => own[b] = <<f, way[1]>>
      /\ i > 1 => c # 0 /\ c \in Blk /\ own[b] = <<-c, way[i]>>
  <2>1. OnWay(v, level, own, f, way, i)
    BY NodeMapped
  <2> QED BY <2>1 DEF OnWay
<1>2. /\ level[b] = Len(wax) - j
      /\ j = 1 => own[b] = <<g, wax[1]>>
      /\ j > 1 => d # 0 /\ d \in Blk /\ own[b] = <<-d, wax[j]>>
  <2>1. OnWay(v, level, own, g, wax, j)
    BY NodeMapped
  <2> QED BY <2>1 DEF OnWay
<1>3. (i = 1 \/ i > 1) /\ (j = 1 \/ j > 1) /\ ~ (i = 1 /\ i > 1) /\ ~ (j = 1 /\ j > 1)
  <2>1. Len(way) \in Nat /\ Len(wax) \in Nat
    BY EntriesWay
  <2> QED BY <2>1
<1> HIDE DEF b, c, d
<1>4. i = 1 /\ j = 1 => f = g /\ way[1] = wax[1]
  BY <1>1, <1>2
<1>0. f \in Nat /\ f > 0 /\ g \in Nat /\ g > 0 /\ \A x \in Blk : x \in Nat /\ -x < 0
  BY Constants
<1>5. ~ (i = 1 /\ j > 1)
  <2> SUFFICES ASSUME i = 1, j > 1
               PROVE  FALSE
    OBVIOUS
  <2>1. f = -d
    BY <1>1, <1>2
  <2> QED BY <1>0, <1>2, <2>1
<1>6. ~ (i > 1 /\ j = 1)
  <2> SUFFICES ASSUME i > 1, j = 1
               PROVE  FALSE
    OBVIOUS
  <2>1. g = -c
    BY <1>1, <1>2
  <2> QED BY <1>0, <1>1, <2>1
<1>7. i > 1 /\ j > 1 => c = d /\ way[i] = wax[j]
  <2> SUFFICES ASSUME i > 1, j > 1
               PROVE  c = d /\ way[i] = wax[j]
    OBVIOUS
  <2>1. -c = -d /\ way[i] = wax[j]
    BY <1>1, <1>2
  <2>2. -(-c) = c /\ -(-d) = d
    BY <1>1, <1>2, Constants
  <2> QED BY <2>1, <2>2
<1> QED BY <1>1, <1>2, <1>3, <1>4, <1>5, <1>6, <1>7 DEF c, d

LEMMA BmapInjective ==
  ASSUME NEW v, NEW level, NEW own, Mapped(v, level, own),
         NEW f \in File, NEW l \in Nat, NEW g \in File, NEW m \in Nat,
         bmap(v, f, l) # 0, bmap(v, f, l) = bmap(v, g, m)
  PROVE  f = g /\ l = m
<1> DEFINE way == Entries(l)
           wax == Entries(m)
           n == Len(way)
           q == Len(wax)
           N(k) == Node(v, f, way, k)
           M(k) == Node(v, g, wax, k)
<1>1. l < MaxBlks /\ m < MaxBlks
  BY BmapIs, MaxBlksInt
<1>2. N(n) # 0 /\ N(n) = M(q)
  BY <1>1, BmapIs
<1>3. n \in 1 .. 3 /\ q \in 1 .. 3
  BY <1>1, EntriesWay
<1>4. ASSUME NEW i \in 1 .. n, NEW j \in 1 .. q, N(i) # 0, N(i) = M(j)
      PROVE  /\ i = 1 /\ j = 1 => f = g /\ way[1] = wax[1]
             /\ i > 1 <=> j > 1
             /\ i > 1 => N(i - 1) # 0 /\ N(i - 1) = M(j - 1) /\ way[i] = wax[j]
  BY <1>1, <1>4, Back
<1>5. /\ l = IF n = 1 THEN way[1]
             ELSE IF n = 2 THEN DIRECT_ADDR + PTRS_PER_BLK * (way[1] - DIRECT_ADDR) + way[2]
             ELSE DIRECT_ADDR + SINGLES * PTRS_PER_BLK + PTRS_PER_BLK * way[2] + way[3]
      /\ m = IF q = 1 THEN wax[1]
             ELSE IF q = 2 THEN DIRECT_ADDR + PTRS_PER_BLK * (wax[1] - DIRECT_ADDR) + wax[2]
             ELSE DIRECT_ADDR + SINGLES * PTRS_PER_BLK + PTRS_PER_BLK * wax[2] + wax[3]
  BY <1>1, EntriesValue
<1> HIDE DEF N, M, n, q, way, wax
<1>6. n = q /\ f = g /\ \A k \in 1 .. n : way[k] = wax[k]
  <2>1. n \in 1 .. n /\ q \in 1 .. q /\ 2 - 1 = 1 /\ 3 - 1 = 2
    BY <1>3
  <2>2. CASE n = 1
    <3>1. q = 1
      BY <1>2, <1>3, <1>4, <2>1, <2>2
    <3> QED BY <1>2, <1>4, <2>1, <2>2, <3>1
  <2>3. CASE n = 2
    <3>1. q > 1 /\ N(1) # 0 /\ N(1) = M(q - 1) /\ way[2] = wax[q]
      BY <1>2, <1>4, <2>1, <2>3
    <3>2. 1 \in 1 .. n /\ q - 1 \in 1 .. q
      BY <1>3, <3>1
    <3>3. ~ (q - 1 > 1)
      BY <1>4, <3>1, <3>2
    <3>4. q = 2
      BY <1>3, <3>1, <3>3
    <3>5. f = g /\ way[1] = wax[1]
      BY <1>4, <2>1, <3>1, <3>2, <3>4
    <3>6. \A k \in 1 .. 2 : k = 1 \/ k = 2
      OBVIOUS
    <3> QED BY <2>3, <3>1, <3>4, <3>5, <3>6
  <2>4. CASE n = 3
    <3>1. q > 1 /\ N(2) # 0 /\ N(2) = M(q - 1) /\ way[3] = wax[q]
      BY <1>2, <1>4, <2>1, <2>4
    <3>2. 2 \in 1 .. n /\ q - 1 \in 1 .. q /\ 2 > 1
      BY <1>3, <2>4, <3>1
    <3>3. q - 1 > 1 /\ N(1) # 0 /\ N(1) = M(q - 1 - 1) /\ way[2] = wax[q - 1]
      BY <1>4, <2>1, <3>1, <3>2
    <3>4. q = 3 /\ q - 1 = 2 /\ q - 1 - 1 = 1 /\ 1 \in 1 .. n /\ 1 \in 1 .. q
      BY <1>3, <3>3
    <3>5. f = g /\ way[1] = wax[1]
      BY <1>4, <3>3, <3>4
    <3>6. \A k \in 1 .. 3 : k = 1 \/ k = 2 \/ k = 3
      OBVIOUS
    <3> QED BY <2>4, <3>1, <3>3, <3>4, <3>5, <3>6
  <2> QED BY <1>3, <2>2, <2>3, <2>4
<1>7. CASE n = 1
  BY <1>5, <1>6, <1>7
<1>8. CASE n = 2
  <2>1. way[1] = wax[1] /\ way[2] = wax[2]
    BY <1>6, <1>8
  <2> QED BY <1>5, <1>6, <1>8, <2>1
<1>9. CASE n = 3
  <2>1. way[2] = wax[2] /\ way[3] = wax[3]
    BY <1>6, <1>9
  <2> QED BY <1>5, <1>6, <1>9, <2>1
<1> QED BY <1>3, <1>7, <1>8, <1>9

\* ---- bmap_alloc ----

\* Where the walk from the volume v may be once entry k of the way is dealt with: at no
\* block, or at the one at the end of the first k entries; nothing has moved.
Walk(v, f, way, k) ==
  {a \in [vol : Vols, blk : Blk \cup {0, INVALID_BLK}] :
     /\ Same(v, a.vol, File)
     /\ \E level, own :
          /\ Mapped(a.vol, level, own)
          /\ \/ a.blk = INVALID_BLK
             \/ k = 0 /\ a.blk = 0
             \/ /\ k # 0 /\ a.blk \in Blk \ a.vol.free /\ level[a.blk] = Len(way) - k
                /\ a.blk = Node(a.vol, f, way, k)}

\* The step for entry k.
Hop(f, way, a, k) ==
  IF a.blk = INVALID_BLK THEN a
  ELSE IF Entry(a.vol, f, way, k, a.blk) # 0
  THEN [vol |-> a.vol, blk |-> Entry(a.vol, f, way, k, a.blk)]
  ELSE IF a.vol.free = {} THEN [vol |-> a.vol, blk |-> INVALID_BLK]
  ELSE [vol |-> Granted(a.vol, f, way, k, a.blk), blk |-> Lowest(a.vol.free)]

\* What an update of a volume gives.
LEMMA NewAddr ==
  ASSUME NEW u, NEW A, NEW S, NEW F, u = [addr |-> A, store |-> S, free |-> F], NEW i, NEW j, NEW x
  PROVE  [u EXCEPT !.addr[i][j] = x] = [addr |-> [A EXCEPT ![i][j] = x], store |-> S, free |-> F]
OBVIOUS

LEMMA NewStore ==
  ASSUME NEW u, NEW A, NEW S, NEW F, u = [addr |-> A, store |-> S, free |-> F], NEW i, NEW j, NEW x
  PROVE  [u EXCEPT !.store[i][j] = x] = [addr |-> A, store |-> [S EXCEPT ![i][j] = x], free |-> F]
OBVIOUS

\* A block is granted to entry k, and cleared if it is to hold entries.
LEMMA GrantedIs ==
  ASSUME NEW v \in Vols, NEW f, NEW way, NEW k, NEW b
  PROVE  LET new == Lowest(v.free)
             st == IF k < Len(way) THEN [v.store EXCEPT ![new] = Zeroed] ELSE v.store
             w == Granted(v, f, way, k, b)
         IN  /\ w.free = v.free \ {new}
             /\ w = IF k = 1 THEN [addr |-> [v.addr EXCEPT ![f][way[1]] = new], store |-> st,
                                   free |-> v.free \ {new}]
                    ELSE [addr |-> v.addr, store |-> [st EXCEPT ![b][way[k]] = new],
                          free |-> v.free \ {new}]
<1> DEFINE new == Lowest(v.free)
           st == IF k < Len(way) THEN [v.store EXCEPT ![new] = Zeroed] ELSE v.store
           w == Granted(v, f, way, k, b)
           popped == [v EXCEPT !.free = @ \ {new}, !.store = st]
<1>1. PICK A, S, F : v = [addr |-> A, store |-> S, free |-> F]
  BY DEF Vols
<1>2. v.addr = A /\ v.store = S /\ v.free = F
  BY <1>1
<1>3. w = IF k = 1 THEN [popped EXCEPT !.addr[f][way[1]] = new]
          ELSE [popped EXCEPT !.store[b][way[k]] = new]
  BY Zenon DEF Granted
<1> HIDE DEF new, st, w
<1>4. popped = [addr |-> A, store |-> st, free |-> F \ {new}]
  <2>1. popped = [[v EXCEPT !.free = @ \ {new}] EXCEPT !.store = st]
    BY <1>1
  <2>2. [v EXCEPT !.free = @ \ {new}] = [addr |-> A, store |-> S, free |-> F \ {new}]
    BY <1>1
  <2>3. [[addr |-> A, store |-> S, free |-> F \ {new}] EXCEPT !.store = st]
          = [addr |-> A, store |-> st, free |-> F \ {new}]
    OBVIOUS
  <2> QED BY <2>1, <2>2, <2>3
<1> HIDE DEF popped
<1>5. [popped EXCEPT !.addr[f][way[1]] = new]
        = [addr |-> [A EXCEPT ![f][way[1]] = new], store |-> st, free |-> F \ {new}]
  BY <1>4, NewAddr
<1>6. [popped EXCEPT !.store[b][way[k]] = new]
        = [addr |-> A, store |-> [st EXCEPT ![b][way[k]] = new], free |-> F \ {new}]
  BY <1>4, NewStore
<1>7. w = IF k = 1 THEN [addr |-> [v.addr EXCEPT ![f][way[1]] = new], store |-> st, free |-> v.free \ {new}]
          ELSE [addr |-> v.addr, store |-> [st EXCEPT ![b][way[k]] = new], free |-> v.free \ {new}]
  BY <1>2, <1>3, <1>5, <1>6
<1>8. w.free = v.free \ {new}
  BY <1>7
<1> QED BY <1>7, <1>8 DEF new, st, w

\* One step gives a block to one entry at most, and to none that has one.
LEMMA HopKeeps ==
  ASSUME NEW f \in File, NEW l \in Nat, l < MaxBlks, NEW way, way = Entries(l),
         NEW k \in 1 .. Len(way), NEW v, NEW a \in Walk(v, f, way, k - 1)
  PROVE  Hop(f, way, a, k) \in Walk(v, f, way, k)
<1> DEFINE n == Len(way)
           u == a.vol
           b == a.blk
           e == IF k = 1 THEN <<f, way[1]>> ELSE <<-b, way[k]>>
<1>1. /\ n \in 1 .. 3 /\ way[1] \in Addr /\ Depth(way[1]) = n - 1
      /\ \A j \in 2 .. n : way[j] \in Ptr
  BY EntriesWay
<1>2. k \in Int /\ n \in Int /\ 1 <= k /\ k <= n /\ n <= 3 /\ (k = 1 => k - 1 = 0)
  BY <1>1
<1>3. u \in Vols /\ b \in Blk \cup {0, INVALID_BLK} /\ a = [vol |-> u, blk |-> b] /\ Same(v, u, File)
  BY DEF Walk
<1>4. PICK level, own :
        /\ Mapped(u, level, own)
        /\ \/ b = INVALID_BLK
           \/ k - 1 = 0 /\ b = 0
           \/ /\ k - 1 # 0 /\ b \in Blk \ u.free /\ level[b] = n - (k - 1)
              /\ b = Node(u, f, way, k - 1)
  BY DEF Walk
<1> HIDE DEF n, u, b
<1>5. CASE b = INVALID_BLK
  <2>1. Hop(f, way, a, k) = a
    BY <1>5 DEF Hop, b
  <2>2. a \in Walk(v, f, way, k)
    BY <1>3, <1>4, <1>5 DEF Walk, u, b
  <2> QED BY <2>1, <2>2
<1>6. CASE b # INVALID_BLK
  <2>1. k # 1 => /\ b \in Blk \ u.free /\ level[b] = n - (k - 1) /\ level[b] >= 1 /\ way[k] \in Ptr
                 /\ b = Node(u, f, way, k - 1)
    <3> SUFFICES ASSUME k # 1
                 PROVE  /\ b \in Blk \ u.free /\ level[b] = n - (k - 1) /\ level[b] >= 1 /\ way[k] \in Ptr
                        /\ b = Node(u, f, way, k - 1)
      OBVIOUS
    <3>1. k \in 2 .. n /\ k - 1 # 0 /\ n - (k - 1) >= 1
      BY <1>2
    <3> QED BY <1>1, <1>4, <1>6, <3>1
  <2>2. e \in Live(u, level) /\ At(u, e) = Entry(u, f, way, k, b) /\ Below(level, e) = n - k
    <3>1. CASE k = 1
      <4>1. e = <<f, way[1]>>
        BY <3>1
      <4>2. e \in Live(u, level)
        BY <1>1, <4>1, LiveParts
      <4>3. At(u, e) = u.addr[f][way[1]] /\ Below(level, e) = Depth(way[1])
        <5>1. At(u, <<f, way[1]>>) = u.addr[f][way[1]] /\ Below(level, <<f, way[1]>>) = Depth(way[1])
          BY <1>1, AtParts
        <5> QED BY <4>1, <5>1
      <4> QED BY <1>1, <3>1, <4>2, <4>3 DEF Entry
    <3>2. CASE k # 1
      <4>1. e = <<-b, way[k]>>
        BY <3>2
      <4>2. e \in Live(u, level)
        BY <2>1, <3>2, <4>1, LiveParts
      <4>3. At(u, e) = u.store[b][way[k]] /\ Below(level, e) = level[b] - 1
        <5>1. b \in Blk /\ way[k] \in Ptr
          BY <2>1, <3>2
        <5>2. At(u, <<-b, way[k]>>) = u.store[b][way[k]] /\ Below(level, <<-b, way[k]>>) = level[b] - 1
          BY <5>1, AtParts
        <5> QED BY <4>1, <5>2
      <4>4. n - (k - 1) - 1 = n - k
        BY <1>2
      <4> QED BY <2>1, <3>2, <4>2, <4>3, <4>4 DEF Entry
    <3> QED BY <3>1, <3>2
  <2>3. CASE Entry(u, f, way, k, b) # 0
    <3> DEFINE x == Entry(u, f, way, k, b)
    <3>1. Hop(f, way, a, k) = [vol |-> u, blk |-> x]
      BY <1>6, <2>3 DEF Hop, u, b
    <3>2. x \in Blk \ u.free /\ level[x] = n - k
      BY <1>4, <2>2, <2>3 DEF Mapped
    <3>4. x = Node(u, f, way, k)
      <4>1. k \in 1 .. 3 /\ (k # 1 => k > 1)
        BY <1>1, <1>2
      <4>2. CASE k = 1
        BY <4>1, <4>2, NodeStep DEF Entry
      <4>3. CASE k # 1
        <5>1. Node(u, f, way, k) = Down(u, b, way[k])
          BY <2>1, <4>1, <4>3, NodeStep
        <5>2. b # 0
          BY <2>1, <4>3, Constants
        <5> QED BY <4>3, <5>1, <5>2 DEF Entry, Down
      <4> QED BY <4>2, <4>3
    <3> HIDE DEF x
    <3>3. [vol |-> u, blk |-> x] \in Walk(v, f, way, k)
      BY <1>2, <1>3, <1>4, <3>2, <3>4 DEF Walk, n
    <3> QED BY <3>1, <3>3
  <2>4. CASE Entry(u, f, way, k, b) = 0 /\ u.free = {}
    <3>1. Hop(f, way, a, k) = [vol |-> u, blk |-> INVALID_BLK]
      BY <1>6, <2>4 DEF Hop, u, b
    <3>2. [vol |-> u, blk |-> INVALID_BLK] \in Walk(v, f, way, k)
      BY <1>3, <1>4 DEF Walk
    <3> QED BY <3>1, <3>2
  <2>5. CASE Entry(u, f, way, k, b) = 0 /\ u.free # {}
    <3> DEFINE new == Lowest(u.free)
               w == Granted(u, f, way, k, b)
               level2 == [level EXCEPT ![new] = Below(level, e)]
               own2 == [c \in Blk |-> IF c = new THEN e ELSE own[c]]
    <3>1. Hop(f, way, a, k) = [vol |-> w, blk |-> new]
      BY <1>6, <2>5 DEF Hop, u, b
    <3>2. /\ u.addr \in [File -> [Addr -> Blk \cup {0}]] /\ u.store \in [Blk -> [Ptr -> Word]]
          /\ u.free \subseteq Blk /\ u = [addr |-> u.addr, store |-> u.store, free |-> u.free]
      BY <1>3 DEF Vols
    <3>3. new \in u.free /\ new \in Blk
      <4>1. u.free \subseteq Nat
        BY <3>2, Constants
      <4> QED BY <2>5, <3>2, <4>1, LowestMember
    <3> HIDE DEF new
    <3>4. Zeroed \in [Ptr -> Word] /\ \A i \in Ptr : Zeroed[i] = 0
      BY DEF Zeroed, Ptr, Word
    <3> DEFINE st == IF k < n THEN [u.store EXCEPT ![new] = Zeroed] ELSE u.store
    <3>5. /\ st \in [Blk -> [Ptr -> Word]] /\ \A c \in Blk : c # new => st[c] = u.store[c]
          /\ k < n => st[new] = Zeroed
      BY <3>2, <3>3, <3>4
    <3> HIDE DEF st, w
    <3>6. w = IF k = 1 THEN [addr |-> [u.addr EXCEPT ![f][way[1]] = new], store |-> st, free |-> u.free \ {new}]
              ELSE [addr |-> u.addr, store |-> [st EXCEPT ![b][way[k]] = new], free |-> u.free \ {new}]
      <4>1. /\ Granted(u, f, way, k, b).free = u.free \ {new}
            /\ Granted(u, f, way, k, b) =
                 IF k = 1 THEN [addr |-> [u.addr EXCEPT ![f][way[1]] = new], store |-> st, free |-> u.free \ {new}]
                 ELSE [addr |-> u.addr, store |-> [st EXCEPT ![b][way[k]] = new], free |-> u.free \ {new}]
        BY <1>3, GrantedIs DEF new, st, n
      <4> QED BY <4>1 DEF w
    <3>7. w \in Vols /\ w.free = u.free \ {new}
      <4>1. CASE k = 1
        <5>1. [u.addr EXCEPT ![f][way[1]] = new] \in [File -> [Addr -> Blk \cup {0}]]
          BY <1>1, <3>2, <3>3
        <5> QED BY <3>2, <3>5, <3>6, <4>1, <5>1 DEF Vols
      <4>2. CASE k # 1
        <5>1. [st EXCEPT ![b][way[k]] = new] \in [Blk -> [Ptr -> Word]]
          BY <2>1, <3>3, <3>5, <4>2 DEF Word
        <5> QED BY <3>2, <3>6, <4>2, <5>1 DEF Vols
      <4> QED BY <4>1, <4>2
    <3>8. At(w, e) = new
      <4>1. CASE k = 1
        <5>1. w.addr[f][way[1]] = new
          BY <1>1, <3>2, <3>6, <4>1
        <5>2. At(w, <<f, way[1]>>) = w.addr[f][way[1]]
          BY <1>1, AtParts
        <5> QED BY <4>1, <5>1, <5>2
      <4>2. CASE k # 1
        <5>1. w.store[b][way[k]] = new
          BY <2>1, <3>5, <3>6, <4>2
        <5>3. b \in Blk /\ way[k] \in Ptr
          BY <2>1, <4>2
        <5>2. At(w, <<-b, way[k]>>) = w.store[b][way[k]]
          BY <5>3, AtParts
        <5> QED BY <4>2, <5>1, <5>2
      <4> QED BY <4>1, <4>2
    <3>9. ASSUME NEW d \in Live(u, level), d # e
          PROVE  At(w, d) = At(u, d)
      <4>1. CASE \E g \in File, i \in Addr : d = <<g, i>>
        <5>1. PICK g \in File, i \in Addr : d = <<g, i>>
          BY <4>1
        <5>2. At(w, <<g, i>>) = w.addr[g][i] /\ At(u, <<g, i>>) = u.addr[g][i]
          BY AtParts
        <5>3. w.addr[g][i] = u.addr[g][i]
          <6>1. CASE k = 1
            <7>1. g # f \/ i # way[1]
              BY <3>9, <5>1, <6>1
            <7> QED BY <3>2, <3>6, <6>1, <7>1
          <6>2. CASE k # 1
            BY <3>6, <6>2
          <6> QED BY <6>1, <6>2
        <5> QED BY <5>1, <5>2, <5>3
      <4>2. CASE \E c \in Blk, i \in Ptr : d = <<-c, i>> /\ c \notin u.free /\ level[c] >= 1
        <5>1. PICK c \in Blk, i \in Ptr : d = <<-c, i>> /\ c \notin u.free /\ level[c] >= 1
          BY <4>2
        <5>2. At(w, <<-c, i>>) = w.store[c][i] /\ At(u, <<-c, i>>) = u.store[c][i]
          BY AtParts
        <5>3. st[c] = u.store[c]
          BY <3>3, <3>5, <5>1
        <5>4. w.store[c][i] = st[c][i]
          <6>1. CASE k = 1
            BY <3>6, <6>1
          <6>2. CASE k # 1
            <7>1. c # b \/ i # way[k]
              BY <3>9, <5>1, <6>2
            <7> QED BY <2>1, <3>5, <3>6, <6>2, <7>1
          <6> QED BY <6>1, <6>2
        <5> QED BY <5>1, <5>2, <5>3, <5>4
      <4> QED BY <4>1, <4>2, LiveParts
    <3>10. Below(level, e) >= 1 => \A i \in Ptr : w.store[new][i] = 0
      <4> SUFFICES ASSUME Below(level, e) >= 1, NEW i \in Ptr
                   PROVE  w.store[new][i] = 0
        OBVIOUS
      <4>1. k < n
        BY <1>2, <2>2
      <4>2. st[new][i] = 0
        BY <3>4, <3>5, <4>1
      <4>3. CASE k = 1
        BY <3>6, <4>2, <4>3
      <4>4. CASE k # 1
        <5>1. b # new
          BY <2>1, <3>3, <4>4
        <5> QED BY <2>1, <3>3, <3>5, <3>6, <4>2, <4>4, <5>1
      <4> QED BY <4>3, <4>4
    <3>11. Mapped(w, level2, own2)
      <4>1. At(u, e) = 0
        BY <2>2, <2>5
      <4> HIDE DEF e
      <4> QED BY <1>3, <1>4, <2>2, <3>3, <3>7, <3>8, <3>9, <3>10, <4>1, GrantKeeps
    <3>12. level2[new] = n - k
      BY <1>4, <2>2, <3>3 DEF Mapped
    <3>14. Extends(u, w, level)
      <4>1. At(u, e) = 0
        BY <2>2, <2>5
      <4>2. ASSUME NEW c \in Blk \ u.free, level[c] = 0
            PROVE  w.store[c] = u.store[c]
        <5>1. c # new /\ st[c] = u.store[c]
          BY <3>3, <3>5
        <5>2. CASE k = 1
          BY <3>6, <5>1, <5>2
        <5>3. CASE k # 1
          <6>1. c # b
            BY <2>1, <4>2, <5>3
          <6> QED BY <3>5, <3>6, <5>1, <5>3, <6>1
        <5> QED BY <5>2, <5>3
      <4> HIDE DEF e
      <4> QED BY <3>9, <4>1, <4>2 DEF Extends
    <3>15. /\ Same(u, w, File)
           /\ \A j \in 1 .. Len(way) : Node(u, f, way, j) # 0 => Node(w, f, way, j) = Node(u, f, way, j)
      BY <1>4, <3>14, ExtendsSame
    <3>16. Same(v, w, File)
      BY <1>3, <3>15, SameJoin
    <3>17. new = Node(w, f, way, k)
      <4>1. k \in 1 .. 3 /\ (k # 1 => k > 1)
        BY <1>1, <1>2
      <4>2. CASE k = 1
        <5>1. Node(w, f, way, k) = w.addr[f][way[1]]
          BY <4>1, <4>2, NodeStep
        <5>2. At(w, <<f, way[1]>>) = w.addr[f][way[1]]
          BY <1>1, AtParts
        <5> QED BY <3>8, <4>2, <5>1, <5>2
      <4>3. CASE k # 1
        <5>1. Node(w, f, way, k - 1) = b /\ b # 0
          <6>1. k - 1 \in 1 .. Len(way)
            BY <1>2, <4>3 DEF n
          <6>2. b = Node(u, f, way, k - 1) /\ b # 0
            BY <2>1, <4>3, Constants
          <6> QED BY <3>15, <6>1, <6>2
        <5>2. Node(w, f, way, k) = Down(w, b, way[k])
          BY <4>1, <4>3, <5>1, NodeStep
        <5>3. b \in Blk /\ way[k] \in Ptr
          BY <2>1, <4>3
        <5>4. At(w, <<-b, way[k]>>) = w.store[b][way[k]]
          BY <5>3, AtParts
        <5> QED BY <3>8, <4>3, <5>1, <5>2, <5>4 DEF Down
      <4> QED BY <4>2, <4>3
    <3> HIDE DEF level2, own2
    <3>13. [vol |-> w, blk |-> new] \in Walk(v, f, way, k)
      <4>1. new \in Blk \ w.free /\ k # 0
        BY <1>2, <3>3, <3>7
      <4>2. level2[new] = Len(way) - k
        BY <3>12 DEF n
      <4> QED BY <3>7, <3>11, <3>16, <3>17, <4>1, <4>2 DEF Walk
    <3> QED BY <3>1, <3>13 DEF new
  <2> QED BY <2>3, <2>4, <2>5
<1> QED BY <1>5, <1>6

\* What bmap_alloc gives: no block, or the one that bmap finds from now on; what the files
\* had is where it was.
Allocated(v, f, l) ==
  {a \in [vol : Vols, blk : Blk \cup {0, INVALID_BLK}] :
     /\ Same(v, a.vol, File)
     /\ \E level, own :
          /\ Mapped(a.vol, level, own)
          /\ \/ a.blk = INVALID_BLK
             \/ a.blk \in Blk /\ level[a.blk] = 0 /\ l < MaxBlks /\ a.blk = bmap(a.vol, f, l)}

LEMMA AllocKeeps ==
  ASSUME NEW v, Good(v), NEW f \in File, NEW l \in Nat
  PROVE  bmap_alloc(v, f, l) \in Allocated(v, f, l)
<1> DEFINE way == Entries(l)
           n == Len(way)
           c == [vol |-> v, blk |-> 0]
<1>1. v \in Vols
  BY DEF Good
<1>2. PICK level, own : Mapped(v, level, own)
  BY DEF Good
<1>3. CASE l >= MaxBlks
  <2>1. bmap_alloc(v, f, l) = [vol |-> v, blk |-> INVALID_BLK]
    BY <1>3, Zenon DEF bmap_alloc
  <2>2. [vol |-> v, blk |-> INVALID_BLK] \in Allocated(v, f, l)
    BY <1>1, <1>2, SameSelf DEF Allocated
  <2> QED BY <2>1, <2>2
<1>4. CASE ~ (l >= MaxBlks)
  <2>0. l < MaxBlks
    <3>1. MaxBlks \in Int
      <4>1. \A a, b \in Int : a * b \in Int
        OBVIOUS
      <4> DEFINE x == SINGLES * PTRS_PER_BLK
                 y == PTRS_PER_BLK * PTRS_PER_BLK
      <4>2. x \in Int /\ y \in Int /\ DIRECT_ADDR \in Int
        BY <4>1, Constants
      <4> HIDE DEF x, y
      <4> QED BY <4>2 DEF MaxBlks, x, y
    <3> QED BY <1>4, <3>1
  <2>1. n \in Nat /\ n >= 1
    BY <2>0, EntriesWay
  <2> DEFINE at[k \in 0 .. Len(way)] ==
               IF k = 0 THEN [vol |-> v, blk |-> 0]
               ELSE LET u == at[k - 1].vol
                        b == at[k - 1].blk
                    IN  IF b = INVALID_BLK THEN at[k - 1]
                        ELSE IF Entry(u, f, way, k, b) # 0
                        THEN [vol |-> u, blk |-> Entry(u, f, way, k, b)]
                        ELSE IF u.free = {} THEN [vol |-> u, blk |-> INVALID_BLK]
                        ELSE [vol |-> Granted(u, f, way, k, b), blk |-> Lowest(u.free)]
             A == [vol : Vols, blk : Blk \cup {0, INVALID_BLK}]
             R == [k \in 0 .. n |-> Walk(v, f, way, k)]
             G == [p \in A \X (1 .. n) |-> Hop(f, way, p[1], p[2])]
  <2>2. bmap_alloc(v, f, l) = at[n]
    BY <1>4, Zenon DEF bmap_alloc
  <2>3. \A k \in 1 .. n : \A a \in Walk(v, f, way, k - 1) : Hop(f, way, a, k) \in Walk(v, f, way, k)
    BY <2>0, HopKeeps
  <2>4. c \in Walk(v, f, way, 0)
    BY <1>1, <1>2, SameSelf DEF Walk
  <2> HIDE DEF n, way
  <2>5. /\ \A k \in 1 .. n : k - 1 \in 0 .. n /\ k \in 0 .. n /\ R[k - 1] = Walk(v, f, way, k - 1) /\ R[k] = Walk(v, f, way, k)
        /\ R[0] = Walk(v, f, way, 0) /\ \A k \in 0 .. n : R[k] = Walk(v, f, way, k)
    BY <2>1
  <2>6. \A k \in 1 .. n : \A a \in Walk(v, f, way, k - 1) : G[<<a, k>>] = Hop(f, way, a, k)
    BY DEF Walk
  <2> HIDE DEF R, G
  <2>7. PICK w : IsTrace(w, R, c, n, G)
    BY <2>1, <2>3, <2>4, <2>5, <2>6, Trace
  <2>8. at = [k \in 0 .. n |-> IF k = 0 THEN c ELSE Hop(f, way, at[k - 1], k)]
    <3> DEFINE Def(g) == [k \in 0 .. Len(way) |->
               IF k = 0 THEN [vol |-> v, blk |-> 0]
               ELSE LET u == g[k - 1].vol
                        b == g[k - 1].blk
                    IN  IF b = INVALID_BLK THEN g[k - 1]
                        ELSE IF Entry(u, f, way, k, b) # 0
                        THEN [vol |-> u, blk |-> Entry(u, f, way, k, b)]
                        ELSE IF u.free = {} THEN [vol |-> u, blk |-> INVALID_BLK]
                        ELSE [vol |-> Granted(u, f, way, k, b), blk |-> Lowest(u.free)]]
    <3>1. \A g : Def(g) = [k \in 0 .. n |-> IF k = 0 THEN c ELSE Hop(f, way, g[k - 1], k)]
      BY Zenon DEF Hop, n
    <3>2. w = Def(w)
      <4>1. ASSUME NEW k \in 0 .. n
            PROVE  w[k] = IF k = 0 THEN c ELSE Hop(f, way, w[k - 1], k)
        <5>1. CASE k = 0
          BY <2>7, <5>1 DEF IsTrace
        <5>2. CASE k # 0
          <6>1. k \in 1 .. n /\ k - 1 \in 0 .. n
            BY <2>1, <5>2
          <6>2. w[k - 1] \in Walk(v, f, way, k - 1) /\ w[k] = G[<<w[k - 1], k>>]
            BY <2>5, <2>7, <6>1 DEF IsTrace
          <6> QED BY <2>6, <5>2, <6>1, <6>2
        <5> QED BY <5>1, <5>2
      <4>2. w = [k \in 0 .. n |-> w[k]]
        BY <2>7 DEF IsTrace
      <4>3. w = [k \in 0 .. n |-> IF k = 0 THEN c ELSE Hop(f, way, w[k - 1], k)]
        <5> HIDE DEF c, Def
        <5>1. [k \in 0 .. n |-> w[k]] = [k \in 0 .. n |-> IF k = 0 THEN c ELSE Hop(f, way, w[k - 1], k)]
          BY <4>1
        <5> QED BY <4>2, <5>1
      <4> HIDE DEF Def
      <4> QED BY <3>1, <4>3
    <3>3. at = Def(at)
      BY <3>2, Zenon
    <3> HIDE DEF at, Def
    <3> QED BY <3>1, <3>3
  <2> HIDE DEF at, c
  <2> DEFINE Z == {k \in Nat : k <= n => at[k] \in Walk(v, f, way, k)}
  <2>9. 0 \in Z
    BY <2>1, <2>4, <2>8
  <2>10. ASSUME NEW k \in Nat, k \in Z
         PROVE  k + 1 \in Z
    <3> SUFFICES ASSUME k + 1 <= n
                 PROVE  at[k + 1] \in Walk(v, f, way, k + 1)
      OBVIOUS
    <3>1. at[k] \in Walk(v, f, way, k) /\ k + 1 \in 1 .. n /\ (k + 1) - 1 = k
      BY <2>1, <2>10
    <3>2. at[k + 1] = Hop(f, way, at[k], k + 1)
      BY <2>1, <2>8, <3>1
    <3>3. Hop(f, way, at[k], k + 1) \in Walk(v, f, way, k + 1)
      BY <2>3, <3>1
    <3> QED BY <3>2, <3>3
  <2> HIDE DEF Z
  <2>11. n \in Z
    BY <2>1, <2>9, <2>10, Induction
  <2>12. at[n] \in Walk(v, f, way, n)
    BY <2>1, <2>11 DEF Z
  <2>13. n - n = 0 /\ n # 0
    BY <2>1
  <2>14. at[n] \in Allocated(v, f, l)
    <3>1. n = Len(way) /\ way = Entries(l)
      BY DEF n, way
    <3>2. \A u : bmap(u, f, l) = Node(u, f, way, n)
      BY <2>0, <3>1, BmapIs
    <3>3. at[n] \in Walk(v, f, way, n) /\ Len(way) - n = 0
      BY <2>12, <2>13, <3>1
    <3>4. PICK a : a = at[n]
      OBVIOUS
    <3>5. PICK lv, ow :
            /\ Mapped(a.vol, lv, ow)
            /\ \/ a.blk = INVALID_BLK
               \/ a.blk \in Blk /\ lv[a.blk] = 0 /\ a.blk = Node(a.vol, f, way, n)
      BY <2>13, <3>3, <3>4 DEF Walk
    <3>6. a \in [vol : Vols, blk : Blk \cup {0, INVALID_BLK}] /\ Same(v, a.vol, File)
      BY <3>3, <3>4 DEF Walk
    <3>7. a \in Allocated(v, f, l)
      BY <2>0, <3>2, <3>5, <3>6 DEF Allocated
    <3> QED BY <3>4, <3>7
  <2> QED BY <2>2, <2>14
<1> QED BY <1>3, <1>4

\* ---- The steps ----

\* The word p of g, in the block that bmap finds, and whether it finds one.
Word0(v, g, p) == v.store[bmap(v, g, p \div PTRS_PER_BLK)][p % PTRS_PER_BLK]
Has(v, g, p) == bmap(v, g, p \div PTRS_PER_BLK) # 0

\* Is p of g among the first n words that are written from off on in f?
Among(f, off, n, g, p) == g = f /\ off <= p /\ p < off + n

\* Where a write to f that began on the volume v may be after j of its words: the first n
\* of them are there, the others are what they were.
Writing(v, f, off, w, j) ==
  {s \in [vol : Vols, n : Nat, full : BOOLEAN] :
     /\ Good(s.vol) /\ s.n <= j /\ (~ s.full => s.n = j)
     /\ \A g \in File, p \in Nat :
          Has(v, g, p) \/ Among(f, off, s.n, g, p) =>
            /\ Has(s.vol, g, p)
            /\ Word0(s.vol, g, p) = IF Among(f, off, s.n, g, p) THEN w ELSE Word0(v, g, p)}

\* The step for word j of those that are written from offset off on.
Word1(f, off, w, s, j) ==
  IF s.full THEN s
  ELSE LET p == off + j - 1
           r == bmap_alloc(s.vol, f, p \div PTRS_PER_BLK)
       IN  IF r.blk = INVALID_BLK
           THEN [vol |-> r.vol, n |-> j - 1, full |-> TRUE]
           ELSE [vol |-> [r.vol EXCEPT !.store[r.blk][p % PTRS_PER_BLK] = w],
                 n |-> j, full |-> FALSE]

\* Two places in a file are the same if they are in the same place of the same block.
LEMMA SamePlace ==
  ASSUME NEW p \in Nat, NEW q \in Nat,
         p \div PTRS_PER_BLK = q \div PTRS_PER_BLK, p % PTRS_PER_BLK = q % PTRS_PER_BLK
  PROVE  p = q
<1>1. /\ p = PTRS_PER_BLK * (p \div PTRS_PER_BLK) + (p % PTRS_PER_BLK)
      /\ q = PTRS_PER_BLK * (q \div PTRS_PER_BLK) + (q % PTRS_PER_BLK)
  BY DivMod, Constants
<1> QED BY <1>1

\* One word of a block is written.
LEMMA WordWritten ==
  ASSUME NEW v \in Vols, NEW b \in Blk, NEW i \in Ptr, NEW w \in Datum
  PROVE  LET u == [v EXCEPT !.store[b][i] = w]
         IN  /\ u \in Vols /\ u.addr = v.addr /\ u.free = v.free
             /\ \A c \in Blk, k \in Ptr :
                  u.store[c][k] = IF c = b /\ k = i THEN w ELSE v.store[c][k]
             /\ \A c \in Blk : c # b => u.store[c] = v.store[c]
<1> DEFINE u == [v EXCEPT !.store[b][i] = w]
<1>2. PICK A, S, F : v = [addr |-> A, store |-> S, free |-> F]
  BY DEF Vols
<1>3. A = v.addr /\ S = v.store /\ F = v.free
  BY <1>2
<1>4. /\ A \in [File -> [Addr -> Blk \cup {0}]] /\ S \in [Blk -> [Ptr -> Word]] /\ F \subseteq Blk
  BY <1>3 DEF Vols
<1>5. u = [addr |-> A, store |-> [S EXCEPT ![b][i] = w], free |-> F]
  BY <1>2, NewStore
<1> HIDE DEF u
<1>7. [S EXCEPT ![b][i] = w] \in [Blk -> [Ptr -> Word]]
  BY <1>4 DEF Word
<1>8. u \in Vols
  BY <1>4, <1>5, <1>7 DEF Vols
<1>9. u.addr = v.addr /\ u.free = v.free /\ u.store = [S EXCEPT ![b][i] = w]
  BY <1>3, <1>5
<1>10. /\ \A c \in Blk : c # b => u.store[c] = v.store[c]
       /\ \A c \in Blk, k \in Ptr :
            u.store[c][k] = IF c = b /\ k = i THEN w ELSE v.store[c][k]
  BY <1>3, <1>4, <1>9
<1> QED BY <1>8, <1>9, <1>10 DEF u

\* A word of data is written where bmap finds its block: no file has another word changed.
LEMMA DatumKept ==
  ASSUME NEW v, NEW level, NEW own, Mapped(v, level, own),
         NEW f \in File, NEW l \in Nat, NEW b \in Blk, b = bmap(v, f, l), level[b] = 0,
         NEW i, NEW w, NEW u, u.addr = v.addr, u.free = v.free,
         \A c \in Blk : c # b => u.store[c] = v.store[c],
         \A c \in Blk, k \in Ptr : u.store[c][k] = IF c = b /\ k = i THEN w ELSE v.store[c][k]
  PROVE  /\ Mapped(u, level, own)
         /\ \A g \in File, m \in Nat : bmap(v, g, m) # 0 =>
              /\ bmap(u, g, m) = bmap(v, g, m)
              /\ \A k \in Ptr : u.store[bmap(v, g, m)][k] =
                   IF g = f /\ m = l /\ k = i THEN w ELSE v.store[bmap(v, g, m)][k]
<1>11. Mapped(u, level, own)
  BY DataKeeps
<1>12. \A e \in Live(v, level) : At(u, e) = At(v, e)
  BY EntriesNotData
<1>13. ASSUME NEW g \in File, NEW m \in Nat, bmap(v, g, m) # 0
       PROVE  bmap(u, g, m) = bmap(v, g, m) /\ bmap(v, g, m) \in Blk
  <2> DEFINE way == Entries(m)
             n == Len(way)
  <2>1. m < MaxBlks
    BY <1>13, BmapIs, MaxBlksInt
  <2>2. bmap(v, g, m) = Node(v, g, way, n) /\ bmap(u, g, m) = Node(u, g, way, n)
    BY <2>1, BmapIs
  <2>3. n \in 1 .. n
    BY <2>1, EntriesWay
  <2>4. ASSUME NEW k \in 1 .. Len(way), Node(v, g, way, k) # 0
        PROVE  LET e == Way(g, way, Node(v, g, way, k - 1), k)
               IN  At(u, e) = At(v, e)
    <3> DEFINE e == Way(g, way, Node(v, g, way, k - 1), k)
    <3>1. e \in Live(v, level)
      BY <2>1, <2>4, WayLive
    <3> HIDE DEF e
    <3>2. At(u, e) = At(v, e)
      BY <1>12, <3>1
    <3> QED BY <3>2 DEF e
  <2>5. Node(u, g, way, n) = Node(v, g, way, n)
    <3>1. \A k \in 1 .. Len(way) : Node(v, g, way, k) # 0 => Node(u, g, way, k) = Node(v, g, way, k)
      BY <2>1, <2>4, NodesKept
    <3> QED BY <1>13, <2>2, <2>3, <3>1
  <2>6. Node(v, g, way, n) \in Blk
    <3>1. OnWay(v, level, own, g, way, n)
      BY <1>13, <2>1, <2>2, <2>3, NodeMapped
    <3> QED BY <3>1 DEF OnWay
  <2> QED BY <2>2, <2>5, <2>6
<1>14. ASSUME NEW g \in File, NEW m \in Nat, bmap(v, g, m) # 0, NEW k \in Ptr
       PROVE  u.store[bmap(v, g, m)][k] =
                IF g = f /\ m = l /\ k = i THEN w ELSE v.store[bmap(v, g, m)][k]
  <2>1. PICK c \in Blk : c = bmap(v, g, m)
    BY <1>13, <1>14
  <2>2. c = b => g = f /\ m = l
    BY <1>14, <2>1, BmapInjective
  <2>3. g = f /\ m = l => c = b
    BY <2>1
  <2>4. u.store[c][k] = IF c = b /\ k = i THEN w ELSE v.store[c][k]
    OBVIOUS
  <2> QED BY <2>1, <2>2, <2>3, <2>4
<1> QED BY <1>11, <1>13, <1>14

LEMMA WordKeeps ==
  ASSUME NEW f \in File, NEW off \in Nat, NEW w \in Datum, NEW j \in Nat \ {0}, NEW v,
         NEW s \in Writing(v, f, off, w, j - 1)
  PROVE  Word1(f, off, w, s, j) \in Writing(v, f, off, w, j)
<1> DEFINE p == off + j - 1
           l == p \div PTRS_PER_BLK
           i == p % PTRS_PER_BLK
           r == bmap_alloc(s.vol, f, l)
<1>0. /\ s \in [vol : Vols, n : Nat, full : BOOLEAN] /\ Good(s.vol)
      /\ s.n <= j - 1 /\ (~ s.full => s.n = j - 1)
      /\ \A g \in File, q \in Nat :
           Has(v, g, q) \/ Among(f, off, s.n, g, q) =>
             /\ Has(s.vol, g, q)
             /\ Word0(s.vol, g, q) = IF Among(f, off, s.n, g, q) THEN w ELSE Word0(v, g, q)
  BY DEF Writing
<1>1. CASE s.full
  <2>1. s.n <= j
    BY <1>0
  <2>2. Word1(f, off, w, s, j) = s
    BY <1>1 DEF Word1
  <2> QED BY <1>0, <1>1, <2>1, <2>2 DEF Writing
<1>2. CASE ~ s.full
  <2>1. p \in Nat
    OBVIOUS
  <2>a. p = off + j - 1
    OBVIOUS
  <2> HIDE DEF p
  <2>2. l \in Nat /\ i \in Ptr
    BY <2>1, DivMod, Constants DEF Ptr
  <2>b. \A q \in Nat : q \div PTRS_PER_BLK \in Nat /\ q % PTRS_PER_BLK \in Ptr
    BY DivMod, Constants DEF Ptr
  <2>c. \A q \in Nat : q \div PTRS_PER_BLK = l /\ q % PTRS_PER_BLK = i => q = p
    BY <2>1, SamePlace
  <2>d. Has(s.vol, f, p) <=> bmap(s.vol, f, l) # 0
    BY DEF Has
  <2>e. \A u, g, q : Word0(u, g, q) = u.store[bmap(u, g, q \div PTRS_PER_BLK)][q % PTRS_PER_BLK]
    BY DEF Word0
  <2>f. \A u, g, q : Has(u, g, q) <=> bmap(u, g, q \div PTRS_PER_BLK) # 0
    BY DEF Has
  <2>g. l = p \div PTRS_PER_BLK /\ i = p % PTRS_PER_BLK
    OBVIOUS
  <2>3. r \in Allocated(s.vol, f, l)
    BY <1>0, <2>2, AllocKeeps
  <2>h. Word1(f, off, w, s, j) =
          IF r.blk = INVALID_BLK
          THEN [vol |-> r.vol, n |-> j - 1, full |-> TRUE]
          ELSE [vol |-> [r.vol EXCEPT !.store[r.blk][i] = w], n |-> j, full |-> FALSE]
    BY <1>2 DEF Word1, p
  <2> HIDE DEF r, i, l
  <2>4. r.vol \in Vols /\ Same(s.vol, r.vol, File)
    BY <2>3 DEF Allocated
  <2>5. PICK level, own :
          /\ Mapped(r.vol, level, own)
          /\ \/ r.blk = INVALID_BLK
             \/ r.blk \in Blk /\ level[r.blk] = 0 /\ l < MaxBlks /\ r.blk = bmap(r.vol, f, l)
    BY <2>3 DEF Allocated
  <2>6. \A g \in File, q \in Nat : Has(s.vol, g, q) =>
          Has(r.vol, g, q) /\ Word0(r.vol, g, q) = Word0(s.vol, g, q)
    <3> SUFFICES ASSUME NEW g \in File, NEW q \in Nat, Has(s.vol, g, q)
                 PROVE  Has(r.vol, g, q) /\ Word0(r.vol, g, q) = Word0(s.vol, g, q)
      OBVIOUS
    <3>1. q \div PTRS_PER_BLK \in Nat
      BY <2>b
    <3> QED BY <2>4, <2>e, <2>f, <3>1 DEF Same
  <2>7. CASE r.blk = INVALID_BLK
    <3> DEFINE t == [vol |-> r.vol, n |-> j - 1, full |-> TRUE]
    <3>1. Word1(f, off, w, s, j) = t
      BY <2>7, <2>h
    <3>2. j - 1 \in Nat /\ j - 1 <= j /\ Good(r.vol)
      BY <2>4, <2>5 DEF Good
    <3>3. t.vol = r.vol /\ t.n = s.n /\ t.full = TRUE /\ t \in [vol : Vols, n : Nat, full : BOOLEAN]
      BY <1>0, <1>2, <2>4, <3>2
    <3>4. \A g \in File, q \in Nat :
            Has(v, g, q) \/ Among(f, off, t.n, g, q) =>
              /\ Has(t.vol, g, q)
              /\ Word0(t.vol, g, q) = IF Among(f, off, t.n, g, q) THEN w ELSE Word0(v, g, q)
      <4> HIDE DEF t
      <4> QED BY <1>0, <2>6, <3>3
    <3>5. t.n <= j
      BY <1>0, <1>2, <3>2, <3>3
    <3> HIDE DEF t
    <3> QED BY <3>1, <3>2, <3>3, <3>4, <3>5 DEF Writing
  <2>8. CASE r.blk # INVALID_BLK
    <3> DEFINE u == [r.vol EXCEPT !.store[r.blk][i] = w]
               t == [vol |-> u, n |-> j, full |-> FALSE]
    <3>1. Word1(f, off, w, s, j) = t
      BY <2>8, <2>h
    <3>2. r.blk \in Blk /\ level[r.blk] = 0 /\ l < MaxBlks /\ r.blk = bmap(r.vol, f, l)
      BY <2>5, <2>8
    <3>3. PICK x, b : x = r.vol /\ b = r.blk
      OBVIOUS
    <3>4. u = [x EXCEPT !.store[b][i] = w]
      BY <3>3
    <3> HIDE DEF u
    <3>5. /\ u \in Vols /\ Mapped(u, level, own)
          /\ \A g \in File, m \in Nat : bmap(x, g, m) # 0 =>
               /\ bmap(u, g, m) = bmap(x, g, m)
               /\ \A k \in Ptr : u.store[bmap(x, g, m)][k] =
                    IF g = f /\ m = l /\ k = i THEN w ELSE x.store[bmap(x, g, m)][k]
      <4>1. /\ x \in Vols /\ Mapped(x, level, own) /\ b \in Blk /\ b = bmap(x, f, l)
            /\ level[b] = 0
        BY <2>4, <2>5, <3>2, <3>3
      <4>2. /\ u \in Vols /\ u.addr = x.addr /\ u.free = x.free
            /\ \A c \in Blk, k \in Ptr :
                 u.store[c][k] = IF c = b /\ k = i THEN w ELSE x.store[c][k]
            /\ \A c \in Blk : c # b => u.store[c] = x.store[c]
        BY <2>2, <3>4, <4>1, WordWritten
      <4> QED BY <2>2, <4>1, <4>2, DatumKept
    <3>6. t.vol = u /\ t.n = j /\ t.full = FALSE /\ t \in [vol : Vols, n : Nat, full : BOOLEAN]
      BY <3>5
    <3>7. Has(x, f, p)
      <4>1. b # 0
        BY <3>2, <3>3, Constants
      <4> QED BY <2>f, <2>g, <3>2, <3>3, <4>1
    <3>8. ASSUME NEW g \in File, NEW q \in Nat, Has(x, g, q)
          PROVE  /\ Has(u, g, q)
                 /\ Word0(u, g, q) = IF g = f /\ q = p THEN w ELSE Word0(x, g, q)
      <4> DEFINE m == q \div PTRS_PER_BLK
                 k == q % PTRS_PER_BLK
      <4>1. m \in Nat /\ k \in Ptr /\ bmap(x, g, m) # 0
        BY <2>b, <2>f, <3>8
      <4>2. /\ bmap(u, g, m) = bmap(x, g, m)
            /\ u.store[bmap(x, g, m)][k] =
                 IF g = f /\ m = l /\ k = i THEN w ELSE x.store[bmap(x, g, m)][k]
        <5> HIDE DEF m, k
        <5> QED BY <3>5, <4>1
      <4>3. m = l /\ k = i <=> q = p
        BY <2>c, <2>g
      <4>4. Word0(u, g, q) = u.store[bmap(u, g, m)][k] /\ Word0(x, g, q) = x.store[bmap(x, g, m)][k]
        BY <2>e
      <4>5. Has(u, g, q) <=> bmap(u, g, m) # 0
        BY <2>f
      <4> HIDE DEF m, k
      <4> QED BY <4>1, <4>2, <4>3, <4>4, <4>5
    <3>9. \A g \in File, q \in Nat :
            Among(f, off, j, g, q) <=> Among(f, off, s.n, g, q) \/ (g = f /\ q = p)
      BY <1>0, <1>2, <2>a DEF Among
    <3>10. ASSUME NEW g \in File, NEW q \in Nat, Has(v, g, q) \/ Among(f, off, t.n, g, q)
           PROVE  /\ Has(t.vol, g, q)
                  /\ Word0(t.vol, g, q) = IF Among(f, off, t.n, g, q) THEN w ELSE Word0(v, g, q)
      <4>1. Has(x, g, q)
        <5>1. CASE g = f /\ q = p
          BY <3>7, <5>1
        <5>2. CASE ~ (g = f /\ q = p)
          <6>1. Has(v, g, q) \/ Among(f, off, s.n, g, q)
            BY <3>6, <3>9, <3>10, <5>2
          <6> QED BY <1>0, <2>6, <3>3, <6>1
        <5> QED BY <5>1, <5>2
      <4>2. /\ Has(u, g, q)
            /\ Word0(u, g, q) = IF g = f /\ q = p THEN w ELSE Word0(x, g, q)
        BY <3>8, <4>1
      <4>3. CASE g = f /\ q = p
        BY <3>6, <3>9, <4>2, <4>3
      <4>4. CASE ~ (g = f /\ q = p)
        <5>1. Has(v, g, q) \/ Among(f, off, s.n, g, q)
          BY <3>6, <3>9, <3>10, <4>4
        <5>2. Word0(s.vol, g, q) = (IF Among(f, off, s.n, g, q) THEN w ELSE Word0(v, g, q)) /\ Has(s.vol, g, q)
          BY <1>0, <5>1
        <5>3. Word0(x, g, q) = Word0(s.vol, g, q)
          BY <2>6, <3>3, <5>2
        <5> QED BY <3>6, <3>9, <4>2, <4>4, <5>2, <5>3
      <4> QED BY <4>3, <4>4
    <3>11. Good(u) /\ j <= j /\ j \in Nat
      BY <3>5 DEF Good
    <3> HIDE DEF t
    <3> QED BY <3>1, <3>6, <3>10, <3>11 DEF Writing
  <2> QED BY <2>7, <2>8
<1> QED BY <1>1, <1>2

\* No block on a way of another file is under f.
LEMMA OthersNotUnder ==
  ASSUME NEW v \in Vols, NEW level, NEW own, Mapped(v, level, own), NEW f \in File,
         NEW g \in File, g # f, NEW l \in Nat, l < MaxBlks, NEW way, way = Entries(l),
         NEW k \in 1 .. Len(way), Node(v, g, way, k) # 0
  PROVE  Node(v, g, way, k) \notin BlocksOf(v, f)
<1> DEFINE B == BlocksOf(v, f)
           N(i) == Node(v, g, way, i)
<1>1. \A b \in B :
        /\ b \in Blk
        /\ \/ \E i \in Addr : own[b] = <<f, i>>
           \/ \E c \in B, j \in Ptr : own[b] = <<-c, j>>
  BY BlocksOfFile
<1>2. Len(way) \in 1 .. 3
  BY EntriesWay
<1>3. /\ \A x \in File, y \in Blk : x # -y
      /\ \A x, y \in Blk : -x = -y => x = y
  <2>1. /\ \A x \in File : x \in Nat /\ x > 0
        /\ \A y \in Blk : y \in Nat /\ -y < 0 /\ -(-y) = y
    BY Constants
  <2>2. \A x \in File, y \in Blk : x # -y
    BY <2>1
  <2>3. \A x, y \in Blk : -x = -y => x = y
    BY <2>1
  <2> QED BY <2>2, <2>3
<1>4. ASSUME NEW i \in 1 .. Len(way), N(i) # 0
      PROVE  /\ N(i) \in Blk
             /\ i = 1 => own[N(i)] = <<g, way[1]>>
             /\ i > 1 => N(i - 1) # 0 /\ N(i - 1) \in Blk /\ own[N(i)] = <<-N(i - 1), way[i]>>
  <2>1. OnWay(v, level, own, g, way, i)
    BY <1>4, NodeMapped
  <2> QED BY <2>1 DEF OnWay
<1> HIDE DEF B, N
<1>5. N(1) # 0 => N(1) \notin B
  <2> SUFFICES ASSUME N(1) # 0, N(1) \in B
               PROVE  FALSE
    OBVIOUS
  <2>1. own[N(1)] = <<g, way[1]>>
    BY <1>2, <1>4
  <2> QED BY <1>1, <1>3, <2>1
<1>6. ASSUME NEW i \in 2 .. 3, i <= Len(way), N(i) # 0, N(i - 1) # 0 => N(i - 1) \notin B
      PROVE  N(i) \notin B
  <2> SUFFICES ASSUME N(i) \in B
               PROVE  FALSE
    OBVIOUS
  <2>1. i \in 1 .. Len(way) /\ i > 1
    BY <1>2, <1>6
  <2>2. N(i - 1) \in Blk /\ N(i - 1) \notin B /\ own[N(i)] = <<-N(i - 1), way[i]>>
    BY <1>4, <1>6, <2>1
  <2>3. PICK d \in Blk : d = N(i - 1)
    BY <2>2
  <2>4. ~ \E c \in B, j \in Ptr : own[N(i)] = <<-c, j>>
    BY <1>1, <1>3, <2>2, <2>3
  <2>5. ~ \E a \in Addr : own[N(i)] = <<f, a>>
    BY <1>3, <2>2, <2>3
  <2> QED BY <1>1, <2>4, <2>5
<1>7. 2 - 1 = 1 /\ 3 - 1 = 2 /\ 2 \in 2 .. 3 /\ 3 \in 2 .. 3
  OBVIOUS
<1>8. Len(way) >= 2 /\ N(2) # 0 => N(2) \notin B
  BY <1>5, <1>6, <1>7
<1>9. Len(way) >= 3 /\ N(3) # 0 => N(3) \notin B
  <2>1. Len(way) >= 3 => Len(way) >= 2
    BY <1>2
  <2> QED BY <1>6, <1>7, <1>8, <2>1
<1>10. k = 1 \/ (k = 2 /\ Len(way) >= 2) \/ (k = 3 /\ Len(way) >= 3)
  <2>1. PICK n \in 1 .. 3 : n = Len(way)
    BY <1>2
  <2>2. k \in 1 .. n
    BY <2>1
  <2>3. k = 1 \/ (k = 2 /\ n >= 2) \/ (k = 3 /\ n >= 3)
    BY <2>2
  <2> QED BY <2>1, <2>3
<1> QED BY <1>5, <1>8, <1>9, <1>10 DEF N, B

LEMMA TruncateSame ==
  ASSUME NEW v \in Vols, NEW level, NEW own, Mapped(v, level, own), NEW f \in File
  PROVE  Same(v, truncate(v, f), File \ {f})
<1> DEFINE B == BlocksOf(v, f)
           u == truncate(v, f)
<1>1. /\ \A g \in File, i \in Addr : g # f => u.addr[g][i] = v.addr[g][i]
      /\ \A c \in Blk \ B : u.store[c] = v.store[c]
  BY DEF truncate, Vols, Addr
<1> HIDE DEF u
<1> SUFFICES ASSUME NEW g \in File, g # f, NEW l \in Nat, bmap(v, g, l) # 0
             PROVE  bmap(u, g, l) = bmap(v, g, l) /\ u.store[bmap(v, g, l)] = v.store[bmap(v, g, l)]
  BY DEF Same, u
<1> DEFINE way == Entries(l)
           n == Len(way)
           N(k) == Node(v, g, way, k)
<1>2. l < MaxBlks
  BY BmapIs, MaxBlksInt
<1>3. bmap(v, g, l) = N(n) /\ bmap(u, g, l) = Node(u, g, way, n)
  BY <1>2, BmapIs
<1>4. /\ n \in 1 .. 3 /\ way[1] \in Addr
      /\ \A j \in 2 .. n : way[j] \in Ptr
  BY <1>2, EntriesWay
<1>5. ASSUME NEW k \in 1 .. Len(way), N(k) # 0
      PROVE  /\ N(k) \in Blk \ B
             /\ k > 1 => N(k - 1) \in Blk \ B
  <2>1. OnWay(v, level, own, g, way, k)
    BY <1>2, <1>5, NodeMapped
  <2>2. N(k) \notin B
    BY <1>2, <1>5, OthersNotUnder
  <2>3. ASSUME k > 1
        PROVE  N(k - 1) \notin B
    <3>1. k - 1 \in 1 .. Len(way)
      BY <1>4, <2>3
    <3>2. N(k - 1) # 0
      BY <2>1, <2>3 DEF OnWay
    <3> QED BY <1>2, <3>1, <3>2, OthersNotUnder
  <2> HIDE DEF B
  <2> QED BY <2>1, <2>2, <2>3 DEF OnWay
<1>6. ASSUME NEW k \in 1 .. Len(way), N(k) # 0
      PROVE  LET e == Way(g, way, N(k - 1), k)
             IN  At(u, e) = At(v, e)
  <2>1. CASE k = 1
    <3>1. PICK i \in Addr : i = way[1]
      BY <1>4
    <3>2. At(u, <<g, i>>) = u.addr[g][i] /\ At(v, <<g, i>>) = v.addr[g][i]
      BY AtParts
    <3> HIDE DEF N, way
    <3> QED BY <1>1, <2>1, <3>1, <3>2 DEF Way
  <2>2. CASE k # 1
    <3>0. k > 1 /\ k \in 2 .. n
      BY <1>4, <2>2
    <3>1. PICK i \in Ptr : i = way[k]
      BY <1>4, <3>0
    <3>2. PICK c \in Blk \ B : c = N(k - 1)
      BY <1>5, <1>6, <3>0
    <3>3. At(u, <<-c, i>>) = u.store[c][i] /\ At(v, <<-c, i>>) = v.store[c][i]
      BY AtParts
    <3> HIDE DEF N, way, B
    <3> QED BY <1>1, <2>2, <3>1, <3>2, <3>3 DEF Way
  <2> QED BY <2>1, <2>2
<1>7. \A k \in 1 .. Len(way) : Node(v, g, way, k) # 0 => Node(u, g, way, k) = Node(v, g, way, k)
  BY <1>2, <1>6, NodesKept
<1>8. n \in 1 .. Len(way) /\ N(n) # 0
  BY <1>3, <1>4
<1>9. N(n) \in Blk \ B
  BY <1>5, <1>8
<1> HIDE DEF B
<1> QED BY <1>1, <1>3, <1>7, <1>8, <1>9

LEMMA TruncateGood ==
  ASSUME NEW v, Good(v), NEW f \in File
  PROVE  Good(truncate(v, f)) /\ Same(v, truncate(v, f), File \ {f})
<1>1. PICK level, own : v \in Vols /\ Mapped(v, level, own)
  BY DEF Good
<1>2. truncate(v, f) \in Vols /\ Mapped(truncate(v, f), level, own)
  BY <1>1, TruncateKeeps
<1>3. Same(v, truncate(v, f), File \ {f})
  BY <1>1, TruncateSame
<1> QED BY <1>2, <1>3 DEF Good

LEMMA ReclaimKeeps ==
  ASSUME IInv, NEW f \in File, Reclaim(f)
  PROVE  IInv'
<1>1. Good(vol') /\ size' = [size EXCEPT ![f] = 0] /\ ofile' = ofile
  BY TruncateGood DEF IInv, Reclaim
<1> QED BY <1>1 DEF IInv, Types

LEMMA OpenKeeps ==
  ASSUME IInv, NEW f \in File, NEW fd \in Fd, NEW flags, Open(f, fd, flags)
  PROVE  IInv'
<1>1. Good(vol')
  <2>1. Good(vol) /\ Good(truncate(vol, f))
    BY TruncateGood DEF IInv
  <2> QED BY <2>1 DEF Open
<1>2. size' \in [File -> Nat]
  BY DEF IInv, Types, Open
<1>3. ofile' \in [Fd -> [file : File, off : Nat] \cup {NoFile}]
  <2>1. [file |-> f, off |-> IF flags = "APPEND" THEN size[f] ELSE 0] \in [file : File, off : Nat]
    BY DEF IInv, Types
  <2> QED BY <2>1 DEF IInv, Types, Open
<1> QED BY <1>1, <1>2, <1>3 DEF IInv, Types

\* A descriptor that is open.
LEMMA OpenFd ==
  ASSUME IInv, NEW fd \in Fd, ofile[fd] # NoFile
  PROVE  ofile[fd].file \in File /\ ofile[fd].off \in Nat
BY DEF IInv, Types

LEMMA CloseKeeps ==
  ASSUME IInv, NEW fd \in Fd, Close(fd)
  PROVE  IInv'
BY DEF IInv, Types, Close

LEMMA ReadKeeps ==
  ASSUME IInv, NEW fd \in Fd, NEW len \in Lengths, Read(fd, len)
  PROVE  IInv'
<1> DEFINE left == size[ofile[fd].file] - ofile[fd].off
           step == IF len < left THEN len ELSE left
<1>1. ofile[fd].file \in File /\ ofile[fd].off \in Nat /\ left \in Int /\ left > 0 /\ len \in Nat
  BY OpenFd, FileDataAssumption DEF IInv, Types, Read
<1>2. step \in Nat
  BY <1>1
<1>3. vol' = vol /\ size' = size /\ ofile' = [ofile EXCEPT ![fd].off = @ + step]
  BY DEF Read
<1> HIDE DEF step
<1>4. ofile[fd] \in [file : File, off : Nat]
  BY DEF IInv, Types, Read
<1>5. [ofile[fd] EXCEPT !.off = @ + step] \in [file : File, off : Nat]
  BY <1>2, <1>4
<1>6. ofile' \in [Fd -> [file : File, off : Nat] \cup {NoFile}]
  BY <1>3, <1>5 DEF IInv, Types
<1> QED BY <1>3, <1>6 DEF IInv, Types

\* Where a write ends.
LEMMA WriteDone ==
  ASSUME IInv, NEW fd \in Fd, NEW len \in Lengths, NEW w \in Datum, Write(fd, len, w)
  PROVE  \E s \in Writing(vol, ofile[fd].file, ofile[fd].off, w, len) :
           LET end == ofile[fd].off + s.n
           IN  /\ vol' = s.vol
               /\ size' = [size EXCEPT ![ofile[fd].file] = IF end > @ THEN end ELSE @]
               /\ ofile' = [ofile EXCEPT ![fd].off = end]
<1> DEFINE f == ofile[fd].file
           off == ofile[fd].off
           done[j \in 0 .. len] ==
             IF j = 0 THEN [vol |-> vol, n |-> 0, full |-> FALSE]
             ELSE IF done[j - 1].full THEN done[j - 1]
             ELSE LET p == off + j - 1
                      r == bmap_alloc(done[j - 1].vol, f, p \div PTRS_PER_BLK)
                  IN  IF r.blk = INVALID_BLK
                      THEN [vol |-> r.vol, n |-> j - 1, full |-> TRUE]
                      ELSE [vol |-> [r.vol EXCEPT !.store[r.blk][p % PTRS_PER_BLK] = w],
                            n |-> j, full |-> FALSE]
           end == off + done[len].n
           c == [vol |-> vol, n |-> 0, full |-> FALSE]
           W(k) == Writing(vol, f, off, w, k)
           S == [vol : Vols, n : Nat, full : BOOLEAN]
           R == [k \in 0 .. len |-> W(k)]
           G == [x \in S \X (1 .. len) |-> Word1(f, off, w, x[1], x[2])]
<1>1. /\ ofile[fd] # NoFile /\ vol' = done[len].vol
      /\ size' = [size EXCEPT ![f] = IF end > @ THEN end ELSE @]
      /\ ofile' = [ofile EXCEPT ![fd].off = end]
  BY Zenon DEF Write
<1>2. f \in File /\ off \in Nat /\ len \in Nat
  BY <1>1, OpenFd, FileDataAssumption
<1>3. c \in W(0)
  <2>1. c.vol = vol /\ c.n = 0 /\ c.full = FALSE /\ c \in S /\ Good(vol)
    BY DEF IInv, Good
  <2>2. \A g \in File, p \in Nat : ~ Among(f, off, 0, g, p)
    BY <1>2 DEF Among
  <2> HIDE DEF c, f, off
  <2> QED BY <2>1, <2>2 DEF Writing
<1> HIDE DEF f, off
<1>a. \A k \in 0 .. len : W(k) \subseteq S
  BY DEF Writing
<1>4. \A j \in 1 .. len : \A s \in W(j - 1) : Word1(f, off, w, s, j) \in W(j)
  <2> SUFFICES ASSUME NEW j \in 1 .. len, NEW s \in W(j - 1)
               PROVE  Word1(f, off, w, s, j) \in W(j)
    OBVIOUS
  <2>1. j \in Nat \ {0}
    BY <1>2
  <2> QED BY <1>2, <2>1, WordKeeps
<1> HIDE DEF W, S
<1>5. /\ \A k \in 1 .. len : k - 1 \in 0 .. len /\ k \in 0 .. len
      /\ \A k \in 0 .. len : R[k] = W(k)
      /\ 0 \in 0 .. len /\ len \in 0 .. len
  BY <1>2
<1>6. ASSUME NEW j \in 1 .. len, NEW s \in W(j - 1)
      PROVE  G[<<s, j>>] = Word1(f, off, w, s, j)
  <2>1. s \in S
    BY <1>5, <1>a
  <2> QED BY <2>1
<1> HIDE DEF R, G
<1>7. PICK t : IsTrace(t, R, c, len, G)
  <2>1. c \in R[0]
    BY <1>3, <1>5
  <2>2. ASSUME NEW k \in 1 .. len, NEW a \in R[k - 1]
        PROVE  G[<<a, k>>] \in R[k]
    <3>1. R[k - 1] = W(k - 1) /\ R[k] = W(k)
      BY <1>5
    <3>2. a \in W(k - 1)
      BY <3>1
    <3> QED BY <1>4, <1>6, <3>1, <3>2
  <2> HIDE DEF c
  <2> QED BY <1>2, <2>1, <2>2, Trace
<1>8. done = [j \in 0 .. len |-> IF j = 0 THEN c ELSE Word1(f, off, w, done[j - 1], j)]
  <2> DEFINE Def(g) == [j \in 0 .. len |->
               IF j = 0 THEN [vol |-> vol, n |-> 0, full |-> FALSE]
               ELSE IF g[j - 1].full THEN g[j - 1]
               ELSE LET p == off + j - 1
                        r == bmap_alloc(g[j - 1].vol, f, p \div PTRS_PER_BLK)
                    IN  IF r.blk = INVALID_BLK
                        THEN [vol |-> r.vol, n |-> j - 1, full |-> TRUE]
                        ELSE [vol |-> [r.vol EXCEPT !.store[r.blk][p % PTRS_PER_BLK] = w],
                              n |-> j, full |-> FALSE]]
  <2>1. \A g : Def(g) = [j \in 0 .. len |-> IF j = 0 THEN c ELSE Word1(f, off, w, g[j - 1], j)]
    BY Zenon DEF Word1
  <2>2. t = Def(t)
    <3>1. ASSUME NEW k \in 0 .. len
          PROVE  t[k] = IF k = 0 THEN c ELSE Word1(f, off, w, t[k - 1], k)
      <4>1. CASE k = 0
        BY <1>7, <4>1 DEF IsTrace
      <4>2. CASE k # 0
        <5>1. k \in 1 .. len /\ k - 1 \in 0 .. len
          BY <1>2, <4>2
        <5>2. t[k - 1] \in W(k - 1) /\ t[k] = G[<<t[k - 1], k>>]
          BY <1>5, <1>7, <5>1 DEF IsTrace
        <5> QED BY <1>6, <4>2, <5>1, <5>2
      <4> QED BY <4>1, <4>2
    <3>2. t = [k \in 0 .. len |-> t[k]]
      BY <1>7 DEF IsTrace
    <3>3. t = [k \in 0 .. len |-> IF k = 0 THEN c ELSE Word1(f, off, w, t[k - 1], k)]
      <4> HIDE DEF c, Def
      <4>1. [k \in 0 .. len |-> t[k]] = [k \in 0 .. len |-> IF k = 0 THEN c ELSE Word1(f, off, w, t[k - 1], k)]
        BY <3>1
      <4> QED BY <3>2, <4>1
    <3> HIDE DEF Def
    <3> QED BY <2>1, <3>3
  <2>3. done = Def(done)
    BY <2>2, Zenon
  <2> HIDE DEF done, Def
  <2> QED BY <2>1, <2>3
<1> HIDE DEF done, c
<1> DEFINE Z == {k \in Nat : k <= len => done[k] \in W(k)}
<1>9. 0 \in Z
  BY <1>2, <1>3, <1>8
<1>10. ASSUME NEW k \in Nat, k \in Z
       PROVE  k + 1 \in Z
  <2> SUFFICES ASSUME k + 1 <= len
               PROVE  done[k + 1] \in W(k + 1)
    OBVIOUS
  <2>1. done[k] \in W(k) /\ k + 1 \in 1 .. len /\ (k + 1) - 1 = k
    BY <1>2, <1>10
  <2>2. done[k + 1] = Word1(f, off, w, done[k], k + 1)
    BY <1>2, <1>8, <2>1
  <2> QED BY <1>4, <2>1, <2>2
<1> HIDE DEF Z
<1>11. len \in Z
  BY <1>2, <1>9, <1>10, Induction
<1>12. done[len] \in W(len)
  BY <1>2, <1>11 DEF Z
<1>13. done[len] \in Writing(vol, ofile[fd].file, ofile[fd].off, w, len)
  BY <1>12 DEF W, f, off
<1> QED BY <1>1, <1>13 DEF f, off

LEMMA WriteKeeps ==
  ASSUME IInv, NEW fd \in Fd, NEW len \in Lengths, NEW w \in Datum, Write(fd, len, w)
  PROVE  IInv'
<1> DEFINE f == ofile[fd].file
           off == ofile[fd].off
<1>1. ofile[fd] # NoFile
  BY Zenon DEF Write
<1>2. f \in File /\ off \in Nat
  BY <1>1, OpenFd
<1>3. PICK s \in Writing(vol, f, off, w, len) :
        /\ vol' = s.vol
        /\ size' = [size EXCEPT ![f] = IF off + s.n > @ THEN off + s.n ELSE @]
        /\ ofile' = [ofile EXCEPT ![fd].off = off + s.n]
  BY WriteDone
<1>4. Good(vol') /\ s.n \in Nat
  BY <1>3 DEF Writing
<1> HIDE DEF f, off
<1> DEFINE end == off + s.n
<1>5. end \in Nat
  BY <1>2, <1>4
<1>6. size' = [size EXCEPT ![f] = IF end > @ THEN end ELSE @] /\ ofile' = [ofile EXCEPT ![fd].off = end]
  BY <1>3
<1> HIDE DEF end
<1>14. size' \in [File -> Nat]
  BY <1>2, <1>5, <1>6 DEF IInv, Types
<1>15. ofile' \in [Fd -> [file : File, off : Nat] \cup {NoFile}]
  <2>1. ofile[fd] \in [file : File, off : Nat]
    BY <1>1 DEF IInv, Types
  <2>2. [ofile[fd] EXCEPT !.off = end] \in [file : File, off : Nat]
    BY <1>5, <2>1
  <2> QED BY <1>6, <2>2 DEF IInv, Types
<1> QED BY <1>4, <1>14, <1>15 DEF IInv, Types

LEMMA InitHolds == Init => IInv
<1> SUFFICES ASSUME Init
             PROVE  IInv
  OBVIOUS
<1>1. /\ vol.addr = [f \in File |-> [i \in Addr |-> 0]]
      /\ vol.store = [b \in Blk |-> Zeroed] /\ vol.free = Blk
      /\ vol = [addr |-> vol.addr, store |-> vol.store, free |-> vol.free]
  BY DEF Init, Addr
<1>2. Zeroed \in [Ptr -> Word]
  BY DEF Zeroed, Ptr, Word
<1>3. vol \in Vols
  BY <1>1, <1>2 DEF Vols
<1> DEFINE level == [b \in Blk |-> 0]
<1>4. ASSUME NEW e \in Live(vol, level)
      PROVE  At(vol, e) = 0
  <2>1. PICK f \in File, i \in Addr : e = <<f, i>>
    BY <1>1, <1>4, LiveParts
  <2>2. At(vol, <<f, i>>) = vol.addr[f][i]
    BY AtParts
  <2> QED BY <1>1, <2>1, <2>2
<1>5. Mapped(vol, level, level)
  BY <1>1, <1>4 DEF Mapped
<1>6. Types
  BY DEF Init, Types
<1> QED BY <1>3, <1>5, <1>6 DEF IInv, Good

LEMMA NextKeeps == IInv /\ [Next]_vars => IInv'
<1> SUFFICES ASSUME IInv, [Next]_vars
             PROVE  IInv'
  OBVIOUS
<1>1. ASSUME NEW f \in File, Reclaim(f)
      PROVE  IInv'
  BY <1>1, ReclaimKeeps
<1>2. ASSUME NEW f \in File, NEW fd \in Fd, NEW flags \in {"", "TRUNC", "APPEND"}, Open(f, fd, flags)
      PROVE  IInv'
  BY <1>2, OpenKeeps
<1>3. ASSUME NEW fd \in Fd, Close(fd)
      PROVE  IInv'
  BY <1>3, CloseKeeps
<1>4. ASSUME NEW fd \in Fd, NEW len \in Lengths, Read(fd, len)
      PROVE  IInv'
  BY <1>4, ReadKeeps
<1>5. ASSUME NEW fd \in Fd, NEW len \in Lengths, NEW w \in Datum, Write(fd, len, w)
      PROVE  IInv'
  BY <1>5, WriteKeeps
<1>6. ASSUME UNCHANGED vars
      PROVE  IInv'
  BY <1>6 DEF vars, IInv, Types
<1> QED BY <1>1, <1>2, <1>3, <1>4, <1>5, <1>6 DEF Next

\* ---- The partition ----

\* Every block that is not free is under a file, one level after the other.
LEMMA EveryBlockOwned ==
  ASSUME NEW v \in Vols, NEW level, NEW own, Mapped(v, level, own), NEW b \in Blk \ v.free
  PROVE  \E f \in File : b \in BlocksOf(v, f)
<1>1. \A f \in File :
        /\ \A i \in Addr : v.addr[f][i] # 0 => v.addr[f][i] \in BlocksOf(v, f)
        /\ \A c \in BlocksOf(v, f), j \in Ptr :
             level[c] >= 1 /\ v.store[c][j] # 0 => v.store[c][j] \in BlocksOf(v, f)
  BY BlocksOfFile
<1>2. level \in [Blk -> 0 .. 2]
  BY DEF Mapped
\* One level up, unless the entry is one of the file.
<1>3. ASSUME NEW x \in Blk \ v.free
      PROVE  \/ \E f \in File : x \in BlocksOf(v, f)
             \/ \E c \in Blk \ v.free, j \in Ptr : v.store[c][j] = x /\ level[c] = level[x] + 1
  <2>1. own[x] \in Live(v, level) /\ At(v, own[x]) = x /\ x # 0
    BY Constants DEF Mapped
  <2>2. level[x] = Below(level, own[x])
    BY <2>1 DEF Mapped
  <2>3. CASE \E f \in File, i \in Addr : own[x] = <<f, i>>
    <3>1. PICK f \in File, i \in Addr : own[x] = <<f, i>>
      BY <2>3
    <3>2. At(v, <<f, i>>) = v.addr[f][i]
      BY AtParts
    <3> QED BY <1>1, <2>1, <3>1, <3>2
  <2>4. CASE \E c \in Blk, j \in Ptr : own[x] = <<-c, j>> /\ c \notin v.free /\ level[c] >= 1
    <3>1. PICK c \in Blk, j \in Ptr : own[x] = <<-c, j>> /\ c \notin v.free /\ level[c] >= 1
      BY <2>4
    <3>2. At(v, <<-c, j>>) = v.store[c][j] /\ Below(level, <<-c, j>>) = level[c] - 1
      BY AtParts
    <3>3. level[x] = level[c] - 1 /\ v.store[c][j] = x
      BY <2>1, <2>2, <3>1, <3>2
    <3>4. level[c] = level[x] + 1
      BY <1>2, <3>3
    <3> QED BY <3>1, <3>3, <3>4
  <2> QED BY <2>1, <2>3, <2>4, LiveParts
<1>4. ASSUME NEW x \in Blk \ v.free, level[x] = 2
      PROVE  \E f \in File : x \in BlocksOf(v, f)
  <2>1. \A c \in Blk : level[c] # level[x] + 1
    BY <1>2, <1>4
  <2> QED BY <1>3, <2>1
<1>5. ASSUME NEW x \in Blk \ v.free, level[x] = 1
      PROVE  \E f \in File : x \in BlocksOf(v, f)
  <2> SUFFICES ASSUME NEW c \in Blk \ v.free, NEW j \in Ptr, v.store[c][j] = x, level[c] = level[x] + 1
               PROVE  \E f \in File : x \in BlocksOf(v, f)
    BY <1>3
  <2>1. level[c] = 2 /\ x # 0
    BY <1>5, Constants
  <2>2. PICK f \in File : c \in BlocksOf(v, f)
    BY <1>4, <2>1
  <2> QED BY <1>1, <2>1, <2>2
<1>6. ASSUME NEW x \in Blk \ v.free, level[x] = 0
      PROVE  \E f \in File : x \in BlocksOf(v, f)
  <2> SUFFICES ASSUME NEW c \in Blk \ v.free, NEW j \in Ptr, v.store[c][j] = x, level[c] = level[x] + 1
               PROVE  \E f \in File : x \in BlocksOf(v, f)
    BY <1>3
  <2>1. level[c] = 1 /\ x # 0
    BY <1>6, Constants
  <2>2. PICK f \in File : c \in BlocksOf(v, f)
    BY <1>5, <2>1
  <2> QED BY <1>1, <2>1, <2>2
<1>7. level[b] = 0 \/ level[b] = 1 \/ level[b] = 2
  BY <1>2
<1> QED BY <1>4, <1>5, <1>6, <1>7

\* The blocks that Indirect finds are those that have blocks below them.
LEMMA IndirectBlocks ==
  ASSUME vol \in Vols, NEW level, NEW own, Mapped(vol, level, own)
  PROVE  UNION {Indirect(f) : f \in File} = {c \in Blk \ vol.free : level[c] >= 1}
<1> DEFINE below(w) == {vol.store[w][j] : j \in Ptr} \ {0}
<1>0. level \in [Blk -> 0 .. 2]
  BY DEF Mapped
<1>1. ASSUME NEW f \in File, NEW c
      PROVE  c \in Indirect(f) <=>
               \E i \in Addr :
                 /\ vol.addr[f][i] # 0 /\ Depth(i) # 0
                 /\ c = vol.addr[f][i] \/ (Depth(i) = 2 /\ c \in below(vol.addr[f][i]))
  <2> DEFINE In(i) == LET w == vol.addr[f][i]
                      IN  IF w = 0 \/ Depth(i) = 0 THEN {}
                          ELSE {w} \cup (IF Depth(i) = 2
                                         THEN {vol.store[w][j] : j \in 0 .. PTRS_PER_BLK - 1} \ {0} ELSE {})
  <2>1. Indirect(f) = UNION {In(i) : i \in Addr}
    BY Zenon DEF Indirect, Addr
  <2>2. ASSUME NEW i \in Addr
        PROVE  c \in In(i) <=>
                 /\ vol.addr[f][i] # 0 /\ Depth(i) # 0
                 /\ c = vol.addr[f][i] \/ (Depth(i) = 2 /\ c \in below(vol.addr[f][i]))
    BY DEF Ptr
  <2> HIDE DEF In, below
  <2>3. c \in Indirect(f) <=> \E i \in Addr : c \in In(i)
    BY <2>1
  <2> QED BY <2>2, <2>3
\* The block of entry i of a file, and of entry j of a block.
<1>2. ASSUME NEW f \in File, NEW i \in Addr, vol.addr[f][i] # 0
      PROVE  vol.addr[f][i] \in Blk \ vol.free /\ level[vol.addr[f][i]] = Depth(i)
  <2>1. <<f, i>> \in Live(vol, level) /\ At(vol, <<f, i>>) = vol.addr[f][i] /\ Below(level, <<f, i>>) = Depth(i)
    BY LiveParts, AtParts
  <2> QED BY <1>2, <2>1 DEF Mapped
<1>3. ASSUME NEW c \in Blk \ vol.free, level[c] >= 1, NEW j \in Ptr, vol.store[c][j] # 0
      PROVE  vol.store[c][j] \in Blk \ vol.free /\ level[vol.store[c][j]] = level[c] - 1
  <2>1. <<-c, j>> \in Live(vol, level) /\ At(vol, <<-c, j>>) = vol.store[c][j] /\ Below(level, <<-c, j>>) = level[c] - 1
    BY <1>3, LiveParts, AtParts
  <2> QED BY <1>3, <2>1 DEF Mapped
<1>4. ASSUME NEW f \in File, NEW c \in Indirect(f)
      PROVE  c \in Blk \ vol.free /\ level[c] >= 1
  <2>1. PICK i \in Addr :
          /\ vol.addr[f][i] # 0 /\ Depth(i) # 0
          /\ c = vol.addr[f][i] \/ (Depth(i) = 2 /\ c \in below(vol.addr[f][i]))
    BY <1>1
  <2>2. /\ vol.addr[f][i] \in Blk \ vol.free /\ level[vol.addr[f][i]] = Depth(i)
        /\ Depth(i) \in 0 .. 2
    BY <1>2, <2>1, Constants
  <2>3. CASE c = vol.addr[f][i]
    BY <2>1, <2>2, <2>3
  <2>4. CASE Depth(i) = 2 /\ c \in below(vol.addr[f][i])
    <3>1. PICK j \in Ptr : c = vol.store[vol.addr[f][i]][j] /\ c # 0
      BY <2>4
    <3>2. PICK a \in Blk \ vol.free : a = vol.addr[f][i] /\ level[a] = 2
      BY <2>2, <2>4
    <3>3. c = vol.store[a][j] /\ c # 0
      BY <3>1, <3>2
    <3>4. level[c] = 1 /\ c \in Blk \ vol.free
      BY <1>3, <3>2, <3>3
    <3> QED BY <3>4
  <2> QED BY <2>1, <2>3, <2>4
<1>5. ASSUME NEW c \in Blk \ vol.free, level[c] >= 1
      PROVE  \E f \in File : c \in Indirect(f)
  <2>1. own[c] \in Live(vol, level) /\ At(vol, own[c]) = c /\ c # 0
    BY Constants DEF Mapped
  <2>2. CASE \E f \in File, i \in Addr : own[c] = <<f, i>>
    <3>1. PICK f \in File, i \in Addr : own[c] = <<f, i>>
      BY <2>2
    <3>2. At(vol, <<f, i>>) = vol.addr[f][i]
      BY AtParts
    <3>3. vol.addr[f][i] = c
      BY <2>1, <3>1, <3>2
    <3>4. Depth(i) # 0
      BY <1>2, <1>5, <2>1, <3>3
    <3> QED BY <1>1, <2>1, <3>3, <3>4
  <2>3. CASE \E d \in Blk, j \in Ptr : own[c] = <<-d, j>> /\ d \notin vol.free /\ level[d] >= 1
    <3>1. PICK d \in Blk, j \in Ptr : own[c] = <<-d, j>> /\ d \notin vol.free /\ level[d] >= 1
      BY <2>3
    <3>2. At(vol, <<-d, j>>) = vol.store[d][j]
      BY AtParts
    <3>3. vol.store[d][j] = c
      BY <2>1, <3>1, <3>2
    <3>4. level[c] = level[d] - 1
      BY <1>3, <2>1, <3>1, <3>3
    <3>5. level[d] = 2
      BY <1>0, <1>5, <3>1, <3>4
    <3>6. own[d] \in Live(vol, level) /\ At(vol, own[d]) = d /\ d # 0 /\ level[d] = Below(level, own[d])
      BY <3>1, Constants DEF Mapped
    <3>7. ~ \E e \in Blk, k \in Ptr : own[d] = <<-e, k>>
      <4> SUFFICES ASSUME NEW e \in Blk, NEW k \in Ptr, own[d] = <<-e, k>>
                   PROVE  FALSE
        OBVIOUS
      <4>1. Below(level, <<-e, k>>) = level[e] - 1
        BY AtParts
      <4> QED BY <1>0, <3>5, <3>6, <4>1
    <3>8. PICK f \in File, i \in Addr : own[d] = <<f, i>>
      BY <3>6, <3>7, LiveParts
    <3>9. At(vol, <<f, i>>) = vol.addr[f][i]
      BY AtParts
    <3>10. vol.addr[f][i] = d
      BY <3>6, <3>8, <3>9
    <3>11. Depth(i) = 2
      BY <1>2, <3>5, <3>6, <3>10
    <3>12. c \in below(d)
      BY <2>1, <3>3
    <3> HIDE DEF below
    <3> QED BY <1>1, <3>6, <3>10, <3>11, <3>12
  <2> QED BY <2>1, <2>2, <2>3, LiveParts
<1>6. \A c : c \in UNION {Indirect(f) : f \in File} <=> c \in {d \in Blk \ vol.free : level[d] >= 1}
  BY <1>4, <1>5
<1> QED BY <1>6

\* Every entry in use, and the block it leads to.
LEMMA Partition ==
  ASSUME IInv
  PROVE  BlocksPartition
<1>1. PICK level, own : vol \in Vols /\ Mapped(vol, level, own)
  BY DEF IInv, Good
<1> DEFINE used == {e \in Leads : e[3] # 0}
           B == Blk \ vol.free
<1>2. vol.free = Blk \ UNION {BlocksOf(vol, f) : f \in File}
  <2>1. \A f \in File : BlocksOf(vol, f) \subseteq Blk \ vol.free
    BY <1>1, BlocksOfFile
  <2>2. \A b \in Blk \ vol.free : \E f \in File : b \in BlocksOf(vol, f)
    BY <1>1, EveryBlockOwned
  <2>3. vol.free \subseteq Blk
    BY <1>1 DEF Vols
  <2> QED BY <2>1, <2>2, <2>3
<1>3. ASSUME NEW x
      PROVE  x \in Leads <=> \E e \in Live(vol, level) : x = <<e[1], e[2], At(vol, e)>>
  <2>1. x \in Leads <=>
          \/ \E f \in File, i \in Addr : x = <<f, i, vol.addr[f][i]>>
          \/ \E c \in Blk \ vol.free, i \in Ptr : level[c] >= 1 /\ x = <<-c, i, vol.store[c][i]>>
    <3>1. UNION {Indirect(f) : f \in File} = {c \in B : level[c] >= 1}
      BY <1>1, IndirectBlocks
    <3> DEFINE I == UNION {Indirect(f) : f \in File}
    <3>2. Leads = {<<f, i, vol.addr[f][i]>> : f \in File, i \in Addr}
                  \cup {<<-c, i, vol.store[c][i]>> : c \in I, i \in Ptr}
      BY SMT DEF Leads, Addr, Ptr
    <3> HIDE DEF I
    <3>3. x \in Leads <=>
            \/ \E f \in File, i \in Addr : x = <<f, i, vol.addr[f][i]>>
            \/ \E c \in I, i \in Ptr : x = <<-c, i, vol.store[c][i]>>
      BY <3>2
    <3>4. \A c : c \in I <=> c \in Blk \ vol.free /\ level[c] >= 1
      BY <3>1 DEF I
    <3> QED BY <3>3, <3>4
  <2>2. ASSUME NEW f \in File, NEW i \in Addr
        PROVE  /\ <<f, i>> \in Live(vol, level)
               /\ LET e == <<f, i>> IN <<e[1], e[2], At(vol, e)>> = <<f, i, vol.addr[f][i]>>
    BY LiveParts, AtParts
  <2>3. ASSUME NEW c \in Blk \ vol.free, level[c] >= 1, NEW i \in Ptr
        PROVE  /\ <<-c, i>> \in Live(vol, level)
               /\ LET e == <<-c, i>> IN <<e[1], e[2], At(vol, e)>> = <<-c, i, vol.store[c][i]>>
    BY <2>3, LiveParts, AtParts
  <2>4. ASSUME x \in Leads
        PROVE  \E e \in Live(vol, level) : x = <<e[1], e[2], At(vol, e)>>
    <3>1. CASE \E f \in File, i \in Addr : x = <<f, i, vol.addr[f][i]>>
      <4>1. PICK f \in File, i \in Addr : x = <<f, i, vol.addr[f][i]>>
        BY <3>1
      <4> DEFINE e == <<f, i>>
      <4>2. e \in Live(vol, level) /\ x = <<e[1], e[2], At(vol, e)>>
        BY <2>2, <4>1
      <4> HIDE DEF e
      <4> QED BY <4>2
    <3>2. CASE \E c \in Blk \ vol.free, i \in Ptr : level[c] >= 1 /\ x = <<-c, i, vol.store[c][i]>>
      <4>1. PICK c \in Blk \ vol.free, i \in Ptr : level[c] >= 1 /\ x = <<-c, i, vol.store[c][i]>>
        BY <3>2
      <4> DEFINE e == <<-c, i>>
      <4>2. e \in Live(vol, level) /\ x = <<e[1], e[2], At(vol, e)>>
        BY <2>3, <4>1
      <4> HIDE DEF e
      <4> QED BY <4>2
    <3> QED BY <2>1, <2>4, <3>1, <3>2
  <2>5. ASSUME NEW e \in Live(vol, level), x = <<e[1], e[2], At(vol, e)>>
        PROVE  x \in Leads
    <3>1. CASE \E f \in File, i \in Addr : e = <<f, i>>
      <4>1. PICK f \in File, i \in Addr : e = <<f, i>>
        BY <3>1
      <4>2. x = <<f, i, vol.addr[f][i]>>
        BY <2>2, <2>5, <4>1
      <4> QED BY <2>1, <4>2
    <3>2. CASE \E c \in Blk, i \in Ptr : e = <<-c, i>> /\ c \notin vol.free /\ level[c] >= 1
      <4>1. PICK c \in Blk, i \in Ptr : e = <<-c, i>> /\ c \notin vol.free /\ level[c] >= 1
        BY <3>2
      <4>2. x = <<-c, i, vol.store[c][i]>>
        BY <2>3, <2>5, <4>1
      <4> QED BY <2>1, <4>1, <4>2
    <3> QED BY <3>1, <3>2, LiveParts
  <2> QED BY <2>4, <2>5
<1>4. ASSUME NEW x \in used
      PROVE  x[3] \in B /\ x = <<own[x[3]][1], own[x[3]][2], x[3]>>
  <2>1. PICK e \in Live(vol, level) : x = <<e[1], e[2], At(vol, e)>>
    BY <1>3
  <2>2. x[3] = At(vol, e) /\ At(vol, e) # 0
    BY <2>1
  <2>3. At(vol, e) \in B /\ own[At(vol, e)] = e
    BY <1>1, <2>2 DEF Mapped
  <2> QED BY <2>1, <2>2, <2>3
<1>5. ASSUME NEW b \in B
      PROVE  <<own[b][1], own[b][2], b>> \in used
  <2>1. own[b] \in Live(vol, level) /\ At(vol, own[b]) = b /\ b # 0
    BY <1>1, Constants DEF Mapped
  <2> QED BY <1>3, <2>1
<1> HIDE DEF used, B
<1>6. {e[3] : e \in used} = B
  <2>1. \A b \in B : <<own[b][1], own[b][2], b>>[3] = b
    OBVIOUS
  <2> QED BY <1>4, <1>5, <2>1
<1>7. Cardinality(used) = Cardinality(B)
  <2> DEFINE M == [b \in B |-> <<own[b][1], own[b][2], b>>]
  <2>1. M \in [B -> used] /\ \A b \in B : M[b] = <<own[b][1], own[b][2], b>>
    BY <1>5
  <2>2. \A a, b \in B : M[a] = M[b] => a = b
    BY <2>1
  <2>3. \A x \in used : \E b \in B : M[b] = x
    BY <1>4, <2>1
  <2> HIDE DEF M
  <2>4. M \in Bijection(B, used)
    <3>1. M \in Injection(B, used)
      <4>1. DOMAIN M = B
        BY <2>1
      <4> QED BY <2>1, <2>2, <4>1 DEF Injection, IsInjective
    <3>2. M \in Surjection(B, used)
      BY <2>1, <2>3, Zenon DEF Surjection
    <3> QED BY <3>1, <3>2 DEF Bijection
  <2>5. ExistsBijection(B, used)
    BY <2>4 DEF ExistsBijection
  <2>6. IsFiniteSet(B)
    <3>1. IsFiniteSet(Blk)
      BY FS_Interval, Constants DEF Blk
    <3> QED BY <3>1, FS_Subset DEF B
  <2> QED BY <2>5, <2>6, FS_Bijection
<1>8. {e[3] : e \in used} = Blk \ vol.free /\ Cardinality(used) = Cardinality(Blk \ vol.free)
  BY <1>6, <1>7 DEF B
<1> QED BY <1>2, <1>8, Zenon DEF BlocksPartition, used

\* ---- What is written is read ----

\* Files have no holes: every word below the size of a file has a block, and no
\* descriptor stands behind the end of its file.
Filled(v, sz) == \A g \in File, p \in Nat : p < sz[g] => Has(v, g, p)

Within == \A fd \in Fd : ofile[fd] # NoFile => ofile[fd].off <= size[ofile[fd].file]

DataInv == IInv /\ Filled(vol, size) /\ Within

\* The word p of g as a read finds it, and the words of all files.
Cell(v, g, p) == IF Has(v, g, p) THEN Word0(v, g, p) ELSE 0
Content(v, sz) == [g \in File |-> [k \in 1 .. sz[g] |-> Cell(v, g, k - 1)]]

LEMMA ContentsAre ==
  Contents = Content(vol, size) /\ Contents' = Content(vol', size')
<1>1. \A g, p : DataAt(g, p) = Cell(vol, g, p)
  BY Zenon DEF DataAt, Cell, Has, Word0
<1>2. \A g, p : DataAt(g, p)' = Cell(vol', g, p)
  BY Zenon DEF DataAt, Cell, Has, Word0
<1>3. Contents = Content(vol, size)
  BY <1>1, Zenon DEF Contents, Content
<1>4. Contents' = Content(vol', size')
  BY <1>2, Zenon DEF Contents, Content
<1> QED BY <1>3, <1>4

\* The contents of g are sz[g] words, the cells of g.
Words(v, sz, g) ==
  /\ Content(v, sz)[g] = [k \in 1 .. sz[g] |-> Cell(v, g, k - 1)]
  /\ Len(Content(v, sz)[g]) = sz[g]
  /\ \A k \in 1 .. sz[g] : Content(v, sz)[g][k] = Cell(v, g, k - 1)

LEMMA ContentOf ==
  ASSUME NEW v, NEW sz, sz \in [File -> Nat], NEW g \in File
  PROVE  Words(v, sz, g)
<1> DEFINE s == [k \in 1 .. sz[g] |-> Cell(v, g, k - 1)]
<1>1. Content(v, sz)[g] = s
  BY DEF Content
<1>2. sz[g] \in Nat
  OBVIOUS
<1>3. s \in [1 .. sz[g] -> {Cell(v, g, p) : p \in Nat}]
  <2>1. \A k \in 1 .. sz[g] : k - 1 \in Nat
    BY <1>2
  <2> QED BY <2>1
<1>4. \A k \in 1 .. sz[g] : s[k] = Cell(v, g, k - 1)
  OBVIOUS
<1> HIDE DEF s
<1>5. s \in Seq({Cell(v, g, p) : p \in Nat}) /\ Len(s) = sz[g]
  BY <1>2, <1>3
<1> QED BY <1>1, <1>4, <1>5 DEF s, Words

\* A file of the same size with the same words has the same contents.
LEMMA ContentSame ==
  ASSUME NEW v, NEW sz, sz \in [File -> Nat], NEW u, NEW tz, tz \in [File -> Nat],
         NEW g \in File, tz[g] = sz[g],
         \A p \in Nat : p < sz[g] => Cell(u, g, p) = Cell(v, g, p)
  PROVE  Content(u, tz)[g] = Content(v, sz)[g]
<1>1. \A k \in 1 .. sz[g] : Cell(u, g, k - 1) = Cell(v, g, k - 1)
  <2> SUFFICES ASSUME NEW k \in 1 .. sz[g]
               PROVE  Cell(u, g, k - 1) = Cell(v, g, k - 1)
    OBVIOUS
  <2>1. sz[g] \in Nat /\ k - 1 \in Nat /\ k - 1 < sz[g]
    OBVIOUS
  <2> QED BY <2>1
<1>2. /\ Content(u, tz)[g] = [k \in 1 .. sz[g] |-> Cell(u, g, k - 1)]
      /\ Content(v, sz)[g] = [k \in 1 .. sz[g] |-> Cell(v, g, k - 1)]
  <2>1. Words(u, tz, g)
    BY ContentOf
  <2>2. Words(v, sz, g)
    BY ContentOf
  <2> QED BY <2>1, <2>2 DEF Words
<1>3. [k \in 1 .. sz[g] |-> Cell(u, g, k - 1)] = [k \in 1 .. sz[g] |-> Cell(v, g, k - 1)]
  BY <1>1
<1> QED BY <1>2, <1>3

\* A file is emptied, by O_TRUNC or when its last name is gone.
LEMMA EmptyChanges ==
  ASSUME DataInv, NEW f \in File, vol' = truncate(vol, f), size' = [size EXCEPT ![f] = 0]
  PROVE  Filled(vol', size') /\ Bytes!Changed(Contents, Contents')
<1>1. Same(vol, vol', File \ {f}) /\ size \in [File -> Nat] /\ Filled(vol, size)
  BY TruncateGood DEF DataInv, IInv, Types
<1>2. size'[f] = 0 /\ size' \in [File -> Nat] /\ \A g \in File \ {f} : size'[g] = size[g]
  BY <1>1
<1>3. ASSUME NEW g \in File \ {f}, NEW p \in Nat, p < size[g]
      PROVE  Has(vol, g, p) /\ Has(vol', g, p) /\ Word0(vol', g, p) = Word0(vol, g, p)
  <2>1. Has(vol, g, p)
    BY <1>1, <1>3 DEF Filled
  <2>2. p \div PTRS_PER_BLK \in Nat
    BY DivMod, Constants
  <2>3. PICK u : u = vol'
    OBVIOUS
  <2>4. Has(u, g, p) /\ Word0(u, g, p) = Word0(vol, g, p)
    BY <1>1, <2>1, <2>2, <2>3 DEF Same, Has, Word0
  <2> QED BY <2>1, <2>3, <2>4
<1>4. ASSUME NEW g \in File, NEW p \in Nat, p < size'[g]
      PROVE  Has(vol', g, p)
  BY <1>2, <1>3, <1>4
<1>5. ASSUME NEW g \in File \ {f}
      PROVE  Content(vol', size')[g] = Content(vol, size)[g]
  <2>1. \A p \in Nat : p < size[g] => Cell(vol', g, p) = Cell(vol, g, p)
    BY <1>3 DEF Cell
  <2>2. PICK u, tz : u = vol' /\ tz = size'
    OBVIOUS
  <2>3. tz \in [File -> Nat] /\ tz[g] = size[g]
    BY <1>2, <2>2
  <2>4. \A p \in Nat : p < size[g] => Cell(u, g, p) = Cell(vol, g, p)
    BY <2>1, <2>2
  <2>5. Content(u, tz)[g] = Content(vol, size)[g]
    BY <1>1, <2>3, <2>4, ContentSame
  <2> QED BY <2>2, <2>5
<1>6. Content(vol', size')[f] = << >>
  <2>1. Content(vol', size')[f] = [k \in 1 .. 0 |-> Cell(vol', f, k - 1)]
    <3>1. PICK u, tz : u = vol' /\ tz = size'
      OBVIOUS
    <3>2. Words(u, tz, f)
      BY <1>2, <3>1, ContentOf
    <3> QED BY <1>2, <3>1, <3>2 DEF Words
  <2> QED BY <2>1
<1>7. Filled(vol', size')
  BY <1>4 DEF Filled
<1>8. /\ \A g \in File \ {f} : Contents'[g] = Contents[g]
      /\ Bytes!Truncated(Contents[f], Contents'[f])
  BY <1>5, <1>6, ContentsAre DEF Bytes!Truncated
<1> QED BY <1>7, <1>8 DEF Bytes!Changed

\* No file is longer than the disk.
LEMMA SizeWithinDisk ==
  ASSUME DataInv, NEW f \in File
  PROVE  size[f] <= DATA_BLK_NUM * PTRS_PER_BLK
<1> DEFINE N == DATA_BLK_NUM
           P == PTRS_PER_BLK
           NP == N * P
           M == [l \in 0 .. N |-> bmap(vol, f, l)]
<1>1. N \in Nat /\ P \in Nat \ {0} /\ size[f] \in Nat
  BY Constants DEF DataInv, IInv, Types
<1>2. NP \in Nat
  BY <1>1
<1> SUFFICES ASSUME size[f] > NP
             PROVE  FALSE
  BY <1>1, <1>2
<1>3. PICK level, own : vol \in Vols /\ Mapped(vol, level, own)
  BY DEF DataInv, IInv, Good
<1>4. ASSUME NEW l \in 0 .. N
      PROVE  bmap(vol, f, l) # 0
  <2> DEFINE p == l * P
  <2>1. p \in Nat /\ p <= NP
    <3>1. l \in Nat /\ N - l \in Nat /\ (N - l) * P >= 0
      BY <1>1
    <3>2. (N - l) * P = N * P - l * P
      BY <1>1, <3>1
    <3>3. l * P \in Nat
      BY <1>1, <3>1
    <3> HIDE DEF NP, p
    <3>4. NP \in Nat /\ NP = N * P /\ p = l * P
      BY <1>2 DEF NP, p
    <3> QED BY <3>1, <3>2, <3>3, <3>4
  <2>2. p < size[f]
    <3> HIDE DEF NP, p
    <3> QED BY <1>1, <1>2, <2>1
  <2>3. p \div P = l
    <3> DEFINE q == p \div P
               r == p % P
    <3>1. q \in Nat /\ r \in 0 .. P - 1 /\ p = P * q + r
      <4> HIDE DEF p
      <4> QED BY <1>1, <2>1, DivMod
    <3> HIDE DEF q, r
    <3>2. l \in Nat /\ P * (l - q) = r
      <4>1. P * (l - q) = P * l - P * q
        BY <1>1, <3>1
      <4>2. l * P = P * l /\ P * l \in Int /\ P * q \in Int
        BY <1>1, <3>1
      <4> QED BY <3>1, <4>1, <4>2
    <3>3. ~ (l - q >= 1)
      <4> SUFFICES ASSUME l - q >= 1
                   PROVE  FALSE
        OBVIOUS
      <4>1. l - q - 1 \in Nat /\ P * (l - q - 1) >= 0
        BY <1>1, <3>1, <3>2
      <4>2. P * (l - q - 1) = P * (l - q) - P
        BY <1>1, <3>1, <3>2
      <4> QED BY <1>1, <3>1, <3>2, <4>1, <4>2
    <3>4. ~ (l - q <= -1)
      <4> SUFFICES ASSUME l - q <= -1
                   PROVE  FALSE
        OBVIOUS
      <4>1. q - l - 1 \in Nat /\ P * (q - l - 1) >= 0
        BY <1>1, <3>1, <3>2
      <4>2. P * (q - l - 1) = - (P * (l - q)) - P
        BY <1>1, <3>1, <3>2
      <4> QED BY <1>1, <3>1, <3>2, <4>1, <4>2
    <3>5. l = q
      BY <3>1, <3>2, <3>3, <3>4
    <3> QED BY <3>5 DEF q
  <2>4. Has(vol, f, p)
    BY <2>1, <2>2 DEF DataInv, Filled
  <2> HIDE DEF p
  <2> QED BY <2>3, <2>4 DEF Has
<1>5. ASSUME NEW l \in 0 .. N
      PROVE  bmap(vol, f, l) \in Blk
  <2>1. l < MaxBlks /\ l \in Nat
    BY <1>4, BmapIs, MaxBlksInt
  <2>2. Len(Entries(l)) \in 1 .. Len(Entries(l))
    BY <2>1, EntriesWay
  <2>3. bmap(vol, f, l) = Node(vol, f, Entries(l), Len(Entries(l)))
    BY <2>1, BmapIs
  <2>4. Node(vol, f, Entries(l), Len(Entries(l))) # 0
    BY <1>4, <2>3
  <2>5. OnWay(vol, level, own, f, Entries(l), Len(Entries(l)))
    BY <1>3, <2>1, <2>2, <2>4, NodeMapped
  <2> QED BY <2>3, <2>5 DEF OnWay
<1>6. \A l, m \in 0 .. N : bmap(vol, f, l) = bmap(vol, f, m) => l = m
  <2> SUFFICES ASSUME NEW l \in 0 .. N, NEW m \in 0 .. N, bmap(vol, f, l) = bmap(vol, f, m)
               PROVE  l = m
    OBVIOUS
  <2>1. l \in Nat /\ m \in Nat /\ bmap(vol, f, l) # 0
    BY <1>4
  <2> QED BY <1>3, <2>1, BmapInjective
<1>7. M \in [0 .. N -> Blk] /\ \A l, m \in 0 .. N : M[l] = M[m] => l = m
  BY <1>5, <1>6
<1>8. /\ IsFiniteSet(0 .. N) /\ Cardinality(0 .. N) = N + 1
      /\ IsFiniteSet(Blk) /\ Cardinality(Blk) = N
  <2> HIDE DEF N, M, NP
  <2>0. N \in Int /\ 0 \in Int /\ 1 \in Int
    BY <1>1
  <2>1. IsFiniteSet(0 .. N) /\ Cardinality(0 .. N) = IF 0 > N THEN 0 ELSE N - 0 + 1
    BY <2>0, FS_Interval, Zenon
  <2>2. IsFiniteSet(1 .. N) /\ Cardinality(1 .. N) = IF 1 > N THEN 0 ELSE N - 1 + 1
    BY <2>0, FS_Interval, Zenon
  <2> QED BY <1>1, <2>1, <2>2 DEF Blk, N
<1> HIDE DEF M, NP
<1>9. Cardinality(Blk) < Cardinality(0 .. N)
  BY <1>1, <1>8
<1> QED BY <1>7, <1>8, <1>9, FS_PigeonHole

\* A write to a file puts words in it, and in no other.
LEMMA WriteChanges ==
  ASSUME DataInv, NEW fd \in Fd, NEW len \in Lengths, NEW w \in Datum, Write(fd, len, w)
  PROVE  Filled(vol', size') /\ Within' /\ (Contents' = Contents \/ Bytes!Changed(Contents, Contents'))
<1> DEFINE f == ofile[fd].file
           off == ofile[fd].off
<1>1. ofile[fd] # NoFile
  BY Zenon DEF Write
<1>2. f \in File /\ off \in Nat /\ len \in Nat /\ off <= size[f]
  BY <1>1, OpenFd, FileDataAssumption DEF DataInv, Within
<1>3. PICK s \in Writing(vol, f, off, w, len) :
        /\ vol' = s.vol
        /\ size' = [size EXCEPT ![f] = IF off + s.n > @ THEN off + s.n ELSE @]
        /\ ofile' = [ofile EXCEPT ![fd].off = off + s.n]
  BY WriteDone DEF DataInv
<1> DEFINE n == s.n
           u == s.vol
<1>4. /\ n \in Nat /\ n <= len
      /\ \A g \in File, p \in Nat :
           Has(vol, g, p) \/ Among(f, off, n, g, p) =>
             /\ Has(u, g, p)
             /\ Word0(u, g, p) = IF Among(f, off, n, g, p) THEN w ELSE Word0(vol, g, p)
  BY DEF Writing
<1>5. size \in [File -> Nat] /\ ofile \in [Fd -> [file : File, off : Nat] \cup {NoFile}] /\ Filled(vol, size) /\ Within
  BY DEF DataInv, IInv, Types
<1>6. /\ vol' = u /\ size' \in [File -> Nat]
      /\ size'[f] = IF off + n > size[f] THEN off + n ELSE size[f]
      /\ \A g \in File \ {f} : size'[g] = size[g]
      /\ ofile' = [ofile EXCEPT ![fd].off = off + n]
  BY <1>2, <1>3, <1>4, <1>5
<1>a. ofile[fd].file = f /\ ofile[fd].off = off
  OBVIOUS
<1> HIDE DEF f, off, n, u
<1>7. ASSUME NEW g \in File, NEW p \in Nat, p < size'[g]
      PROVE  /\ (g = f /\ p < size[g]) \/ (g # f /\ p < size[g]) \/ Among(f, off, n, g, p)
             /\ p < size[g] => Has(vol, g, p)
             /\ Has(u, g, p)
             /\ Cell(u, g, p) = IF Among(f, off, n, g, p) THEN w ELSE Cell(vol, g, p)
  <2>1. p < size[g] => Has(vol, g, p)
    BY <1>5 DEF Filled
  <2>2. p < size[g] \/ Among(f, off, n, g, p)
    <3>1. CASE g = f
      BY <1>2, <1>4, <1>5, <1>6, <1>7, <3>1 DEF Among
    <3>2. CASE g # f
      BY <1>6, <1>7, <3>2
    <3> QED BY <3>1, <3>2
  <2>3. /\ Has(u, g, p)
        /\ Word0(u, g, p) = IF Among(f, off, n, g, p) THEN w ELSE Word0(vol, g, p)
    BY <1>4, <2>1, <2>2
  <2>4. ~ Among(f, off, n, g, p) => Has(vol, g, p)
    BY <2>1, <2>2
  <2> QED BY <2>1, <2>2, <2>3, <2>4 DEF Cell
<1>8. Filled(vol', size')
  BY <1>6, <1>7 DEF Filled
<1>9. Within'
  <2>1. \A g \in File : size[g] <= size'[g]
    <3> SUFFICES ASSUME NEW g \in File
                 PROVE  size[g] <= size'[g]
      OBVIOUS
    <3>1. CASE g = f
      BY <1>2, <1>4, <1>5, <1>6, <3>1
    <3>2. CASE g # f
      BY <1>5, <1>6, <3>2
    <3> QED BY <3>1, <3>2
  <2>2. ASSUME NEW d \in Fd, ofile'[d] # NoFile
        PROVE  ofile'[d].off <= size'[ofile'[d].file]
    <3>1. CASE d = fd
      <4>1. ofile'[d] = [ofile[fd] EXCEPT !.off = off + n]
        BY <1>5, <1>6, <3>1
      <4>2. ofile[fd] \in [file : File, off : Nat]
        BY <1>1, <1>5
      <4>3. ofile'[d].off = off + n /\ ofile'[d].file = f
        BY <1>a, <4>1, <4>2
      <4> QED BY <1>2, <1>4, <1>5, <1>6, <4>3
    <3>2. CASE d # fd
      <4>1. ofile'[d] = ofile[d] /\ ofile[d] # NoFile
        BY <1>5, <1>6, <2>2, <3>2
      <4>2. ofile[d] \in [file : File, off : Nat] /\ ofile[d].off <= size[ofile[d].file]
        BY <1>5, <4>1 DEF Within
      <4>3. PICK g \in File, o \in Nat : g = ofile[d].file /\ o = ofile[d].off
        BY <4>2
      <4>4. o <= size[g] /\ size[g] <= size'[g] /\ size[g] \in Nat /\ size'[g] \in Nat
        BY <1>5, <1>6, <2>1, <4>2, <4>3
      <4>5. o <= size'[g]
        BY <4>4
      <4> QED BY <4>1, <4>3, <4>5
    <3> QED BY <3>1, <3>2
  <2> QED BY <2>2 DEF Within
<1>10. ASSUME NEW g \in File \ {f}
       PROVE  Content(u, size')[g] = Content(vol, size)[g]
  <2>1. \A p \in Nat : p < size[g] => Cell(u, g, p) = Cell(vol, g, p)
    <3> SUFFICES ASSUME NEW p \in Nat, p < size[g]
                 PROVE  Cell(u, g, p) = Cell(vol, g, p)
      OBVIOUS
    <3>1. p < size'[g] /\ ~ Among(f, off, n, g, p)
      BY <1>6 DEF Among
    <3> QED BY <1>7, <3>1
  <2> QED BY <1>5, <1>6, <2>1, ContentSame
<1>11. CASE n = 0
  <2>1. size'[f] = size[f]
    BY <1>2, <1>5, <1>6, <1>11
  <2>2. Content(u, size')[f] = Content(vol, size)[f]
    <3>1. \A p \in Nat : p < size[f] => Cell(u, f, p) = Cell(vol, f, p)
      <4> SUFFICES ASSUME NEW p \in Nat, p < size[f]
                   PROVE  Cell(u, f, p) = Cell(vol, f, p)
        OBVIOUS
      <4>1. p < size'[f] /\ ~ Among(f, off, n, f, p)
        BY <1>2, <1>11, <2>1 DEF Among
      <4> QED BY <1>2, <1>7, <4>1
    <3> QED BY <1>2, <1>5, <1>6, <2>1, <3>1, ContentSame
  <2>3. \A g \in File : Content(u, size')[g] = Content(vol, size)[g]
    BY <1>10, <2>2
  <2>4. Content(u, size') = Content(vol, size)
    <3> DEFINE A == Content(u, size')
               C == Content(vol, size)
    <3>1. A = [g \in File |-> A[g]] /\ C = [g \in File |-> C[g]]
      BY DEF Content
    <3> HIDE DEF A, C
    <3>2. \A g \in File : A[g] = C[g]
      BY <2>3 DEF A, C
    <3>3. [g \in File |-> A[g]] = [g \in File |-> C[g]]
      BY <3>2
    <3>4. A = C
      BY <3>1, <3>3
    <3> QED BY <3>4 DEF A, C
  <2>5. Contents' = Contents
    BY <1>6, <2>4, ContentsAre
  <2> QED BY <1>8, <1>9, <2>5
<1>12. CASE n # 0
  <2> DEFINE before == Content(vol, size)[f]
             after == Content(u, size')[f]
  <2>1. n \in 1 .. len
    BY <1>2, <1>4, <1>12
  <2>2. /\ Len(before) = size[f] /\ \A k \in 1 .. size[f] : before[k] = Cell(vol, f, k - 1)
        /\ after = [k \in 1 .. size'[f] |-> Cell(u, f, k - 1)]
    <3>1. Len(before) = size[f] /\ \A k \in 1 .. size[f] : before[k] = Cell(vol, f, k - 1)
      <4>1. Words(vol, size, f)
        BY <1>2, <1>5, ContentOf
      <4> QED BY <4>1 DEF Words, before
    <3>2. after = [k \in 1 .. size'[f] |-> Cell(u, f, k - 1)]
      <4>1. PICK tz : tz = size'
        OBVIOUS
      <4>2. Words(u, tz, f)
        BY <1>2, <1>6, <4>1, ContentOf
      <4> QED BY <4>1, <4>2 DEF Words, after
    <3> QED BY <3>1, <3>2
  <2> HIDE DEF before, after
  <2>3. size'[f] = IF off + n > Len(before) THEN off + n ELSE Len(before)
    BY <1>6, <2>2
  <2>4. ASSUME NEW k \in 1 .. size'[f]
        PROVE  Cell(u, f, k - 1) = IF k > off /\ k <= off + n THEN w
                                   ELSE IF k <= Len(before) THEN before[k] ELSE 0
    <3>1. size'[f] \in Nat /\ size[f] \in Nat
      BY <1>2, <1>5, <1>6
    <3>2. k - 1 \in Nat /\ k - 1 < size'[f] /\ k \in Nat /\ k >= 1
      BY <3>1
    <3>3. Among(f, off, n, f, k - 1) <=> k > off /\ k <= off + n
      BY <1>2, <1>4, <3>2 DEF Among
    <3>4. Cell(u, f, k - 1) = IF Among(f, off, n, f, k - 1) THEN w ELSE Cell(vol, f, k - 1)
      BY <1>2, <1>7, <3>2
    <3>5. ~ Among(f, off, n, f, k - 1) => k <= size[f]
      BY <1>2, <1>4, <1>6, <3>1, <3>2, <3>3
    <3>6. k <= size[f] => before[k] = Cell(vol, f, k - 1)
      BY <2>2, <3>1, <3>2
    <3> QED BY <2>2, <3>3, <3>4, <3>5, <3>6
  <2>5. after = Bytes!Overwritten(before, off, n, w)
    <3> DEFINE val(k) == IF k > off /\ k <= off + n THEN w ELSE IF k <= Len(before) THEN before[k] ELSE 0
    <3>1. Bytes!Overwritten(before, off, n, w) = [k \in 1 .. size'[f] |-> val(k)]
      BY <2>3, Zenon DEF Bytes!Overwritten
    <3>2. \A k \in 1 .. size'[f] : Cell(u, f, k - 1) = val(k)
      BY <2>4
    <3> HIDE DEF val
    <3>3. [k \in 1 .. size'[f] |-> Cell(u, f, k - 1)] = [k \in 1 .. size'[f] |-> val(k)]
      BY <3>2
    <3> QED BY <2>2, <3>1, <3>3
  <2>6. off \in 0 .. DATA_BLK_NUM * PTRS_PER_BLK
    <3> DEFINE NP == DATA_BLK_NUM * PTRS_PER_BLK
    <3>1. size[f] <= NP
      BY <1>2, SizeWithinDisk
    <3>2. NP \in Nat /\ size[f] \in Nat
      BY <1>2, <1>5, Constants
    <3> HIDE DEF NP
    <3>3. off \in 0 .. NP
      BY <1>2, <3>1, <3>2
    <3> QED BY <3>3 DEF NP
  <2>7. Bytes!Written(before, after)
    BY <2>1, <2>5, <2>6, Zenon DEF Bytes!Written
  <2>8. /\ \A g \in File \ {f} : Contents'[g] = Contents[g]
        /\ Bytes!Written(Contents[f], Contents'[f])
    BY <1>6, <1>10, <2>7, ContentsAre DEF before, after
  <2>9. Bytes!Changed(Contents, Contents')
    BY <1>2, <2>8 DEF Bytes!Changed
  <2> QED BY <1>8, <1>9, <2>9
<1> QED BY <1>11, <1>12

\* An operation on descriptors: the files stay what they are.
LEMMA FilesKept ==
  ASSUME DataInv, vol' = vol, size' = size,
         NEW fd \in Fd, ofile' = [ofile EXCEPT ![fd] = ofile'[fd]],
         ofile'[fd] # NoFile => ofile'[fd].off <= size[ofile'[fd].file]
  PROVE  Filled(vol', size') /\ Within' /\ Contents' = Contents
<1>1. Filled(vol', size')
  BY DEF DataInv
<1>2. Contents' = Contents
  BY ContentsAre
<1>3. ofile \in [Fd -> [file : File, off : Nat] \cup {NoFile}]
  BY DEF DataInv, IInv, Types
<1>4. \A d \in Fd \ {fd} : ofile'[d] = ofile[d]
  BY <1>3
<1>5. ASSUME NEW d \in Fd, ofile'[d] # NoFile
      PROVE  ofile'[d].off <= size'[ofile'[d].file]
  <2>1. CASE d = fd
    BY <1>5, <2>1
  <2>2. CASE d # fd
    BY <1>4, <1>5, <2>2 DEF DataInv, Within
  <2> QED BY <2>1, <2>2
<1> QED BY <1>1, <1>2, <1>5 DEF Within

LEMMA CloseChanges ==
  ASSUME DataInv, NEW fd \in Fd, Close(fd)
  PROVE  Filled(vol', size') /\ Within' /\ Contents' = Contents
<1>1. vol' = vol /\ size' = size /\ ofile' = [ofile EXCEPT ![fd] = NoFile]
  BY DEF Close
<1>2. ofile \in [Fd -> [file : File, off : Nat] \cup {NoFile}]
  BY DEF DataInv, IInv, Types
<1>3. ofile'[fd] = NoFile
  BY <1>1, <1>2
<1> QED BY <1>1, <1>3, FilesKept

LEMMA ReadChanges ==
  ASSUME DataInv, NEW fd \in Fd, NEW len \in Lengths, Read(fd, len)
  PROVE  Filled(vol', size') /\ Within' /\ Contents' = Contents
<1> DEFINE left == size[ofile[fd].file] - ofile[fd].off
           step == IF len < left THEN len ELSE left
           next == [ofile[fd] EXCEPT !.off = @ + step]
<1>1. ofile[fd] # NoFile /\ IInv
  BY DEF Read, DataInv
<1>2. /\ ofile[fd].file \in File /\ ofile[fd].off \in Nat /\ len \in Nat
      /\ size[ofile[fd].file] \in Nat
  BY <1>1, OpenFd, FileDataAssumption DEF IInv, Types
<1>3. left \in Int /\ left > 0 /\ step \in Nat /\ step <= left
  BY <1>2 DEF Read
<1>4. vol' = vol /\ size' = size /\ ofile' = [ofile EXCEPT ![fd] = next]
  BY DEF Read
<1>5. ofile \in [Fd -> [file : File, off : Nat] \cup {NoFile}]
      /\ ofile[fd] \in [file : File, off : Nat]
  BY <1>1 DEF IInv, Types
<1>6. next.file = ofile[fd].file /\ next.off = ofile[fd].off + step
  BY <1>5
<1>7. next.off <= size[next.file]
  BY <1>2, <1>3, <1>6
<1> HIDE DEF next
<1>8. ofile'[fd] = next
  BY <1>4, <1>5
<1> QED BY <1>4, <1>7, <1>8, FilesKept

\* A descriptor of another file stands where it stood.
LEMMA EmptyWithin ==
  ASSUME DataInv, NEW f \in File, OpenOn(f) = {}, size' = [size EXCEPT ![f] = 0],
         NEW d \in Fd, ofile[d] # NoFile
  PROVE  ofile[d].off <= size'[ofile[d].file]
<1>1. ofile[d].file \in File /\ ofile[d].file # f
  BY OpenFd DEF DataInv, OpenOn
<1>2. size'[ofile[d].file] = size[ofile[d].file]
  BY <1>1 DEF DataInv, IInv, Types
<1> QED BY <1>2 DEF DataInv, Within

LEMMA ReclaimChanges ==
  ASSUME DataInv, NEW f \in File, Reclaim(f)
  PROVE  Filled(vol', size') /\ Within' /\ Bytes!Changed(Contents, Contents')
<1>1. /\ OpenOn(f) = {} /\ vol' = truncate(vol, f)
      /\ size' = [size EXCEPT ![f] = 0] /\ ofile' = ofile
  BY DEF Reclaim
<1>2. Filled(vol', size') /\ Bytes!Changed(Contents, Contents')
  BY <1>1, EmptyChanges
<1>3. \A d \in Fd : ofile[d] # NoFile => ofile[d].off <= size'[ofile[d].file]
  BY <1>1, EmptyWithin
<1>4. Within'
  BY <1>1, <1>3 DEF Within
<1> QED BY <1>2, <1>4

LEMMA OpenChanges ==
  ASSUME DataInv, NEW f \in File, NEW fd \in Fd, NEW flags,
         Open(f, fd, flags), flags = "TRUNC" => OpenOn(f) = {}
  PROVE  /\ Filled(vol', size') /\ Within'
         /\ Contents' = Contents \/ Bytes!Changed(Contents, Contents')
<1> DEFINE next == [file |-> f, off |-> IF flags = "APPEND" THEN size[f] ELSE 0]
<1>1. ofile' = [ofile EXCEPT ![fd] = next]
  BY DEF Open
<1>2. ofile \in [Fd -> [file : File, off : Nat] \cup {NoFile}] /\ size \in [File -> Nat]
  BY DEF DataInv, IInv, Types
<1>3. ofile'[fd] = next /\ next.file = f /\ next.off = IF flags = "APPEND" THEN size[f] ELSE 0
  BY <1>1, <1>2
<1> HIDE DEF next
<1>4. size[f] \in Nat
  BY <1>2
<1>5. CASE flags # "TRUNC"
  <2>1. vol' = vol /\ size' = size
    BY <1>5 DEF Open
  <2>2. size[f] <= size[f] /\ 0 <= size[f]
    BY <1>4
  <2>3. next.off <= size[next.file]
    BY <1>3, <2>2, Zenon
  <2> QED BY <1>1, <1>3, <2>1, <2>3, FilesKept
<1>6. CASE flags = "TRUNC"
  <2>1. OpenOn(f) = {} /\ vol' = truncate(vol, f) /\ size' = [size EXCEPT ![f] = 0]
    BY <1>6 DEF Open
  <2>2. Filled(vol', size') /\ Bytes!Changed(Contents, Contents')
    BY <2>1, EmptyChanges
  <2>3. ASSUME NEW d \in Fd, ofile'[d] # NoFile
        PROVE  ofile'[d].off <= size'[ofile'[d].file]
    <3>1. CASE d = fd
      <4>1. ofile'[d].off = 0 /\ ofile'[d].file = f
        BY <1>3, <1>6, <3>1
      <4>2. size'[f] = 0
        BY <1>2, <2>1
      <4>3. 0 <= 0
        OBVIOUS
      <4> QED BY <4>1, <4>2, <4>3, Zenon
    <3>2. CASE d # fd
      <4>1. ofile'[d] = ofile[d]
        BY <1>1, <1>2, <3>2
      <4>2. ofile[d].off <= size'[ofile[d].file]
        BY <2>1, <2>3, <4>1, EmptyWithin
      <4> QED BY <4>1, <4>2
    <3> QED BY <3>1, <3>2
  <2>4. Within'
    BY <2>3 DEF Within
  <2> QED BY <2>2, <2>4
<1> QED BY <1>5, <1>6

LEMMA DataInvInit == Init => DataInv /\ Contents = [g \in File |-> << >>]
<1> SUFFICES ASSUME Init
             PROVE  DataInv /\ Contents = [g \in File |-> << >>]
  OBVIOUS
<1>1. size \in [File -> Nat] /\ \A g \in File : size[g] = 0
  BY DEF Init
<1>2. Filled(vol, size)
  BY <1>1 DEF Filled
<1>3. Within
  BY DEF Init, Within
<1>4. ASSUME NEW g \in File
      PROVE  [k \in 1 .. size[g] |-> Cell(vol, g, k - 1)] = << >>
  <2>1. 1 .. size[g] = {}
    BY <1>1
  <2> QED BY <2>1
<1>5. Content(vol, size) = [g \in File |-> << >>]
  BY <1>4 DEF Content
<1> QED BY <1>2, <1>3, <1>5, InitHolds, ContentsAre DEF DataInv

LEMMA DataInvNext ==
  ~ TruncatesOpen /\ DataInv /\ [Next]_vars =>
    DataInv' /\ (Contents' = Contents \/ Bytes!Changed(Contents, Contents'))
<1> SUFFICES ASSUME ~ TruncatesOpen, DataInv, [Next]_vars
             PROVE  DataInv' /\ (Contents' = Contents \/ Bytes!Changed(Contents, Contents'))
  OBVIOUS
<1> DEFINE Goal == /\ Filled(vol', size') /\ Within'
                   /\ Contents' = Contents \/ Bytes!Changed(Contents, Contents')
<1>1. ASSUME NEW f \in File, Reclaim(f)
      PROVE  Goal
  BY <1>1, ReclaimChanges
<1>2. ASSUME NEW f \in File, NEW fd \in Fd, NEW flags \in {"", "TRUNC", "APPEND"}, Open(f, fd, flags)
      PROVE  Goal
  <2>1. flags = "TRUNC" => OpenOn(f) = {}
    BY <1>2, Zenon DEF Open
  <2> QED BY <1>2, <2>1, OpenChanges
<1>3. ASSUME NEW fd \in Fd, Close(fd)
      PROVE  Goal
  BY <1>3, CloseChanges
<1>4. ASSUME NEW fd \in Fd, NEW len \in Lengths, Read(fd, len)
      PROVE  Goal
  BY <1>4, ReadChanges
<1>5. ASSUME NEW fd \in Fd, NEW len \in Lengths, NEW w \in Datum, Write(fd, len, w)
      PROVE  Goal
  BY <1>5, WriteChanges
<1>6. ASSUME UNCHANGED vars
      PROVE  Goal
  <2>1. vol' = vol /\ size' = size /\ ofile' = ofile
    BY <1>6 DEF vars
  <2>2. Contents' = Contents
    BY <2>1, ContentsAre
  <2> QED BY <2>1, <2>2 DEF DataInv, Within
<1> HIDE DEF Goal
<1>7. Goal
  BY <1>1, <1>2, <1>3, <1>4, <1>5, <1>6 DEF Next
<1>8. IInv'
  BY NextKeeps DEF DataInv
<1> QED BY <1>7, <1>8 DEF Goal, DataInv

\* ---- Theorems ----

\* The inductive invariant holds.
THEOREM FileDataInvariant == Spec => []IInv
<1>1. Init => IInv
  BY InitHolds
<1>2. IInv /\ [Next]_vars => IInv'
  BY NextKeeps
<1> QED BY <1>1, <1>2, PTL DEF Spec

\* However reads, writes, truncations and reclaims follow each other, and however far
\* bmap_alloc got when the disk was full, every block is free or under exactly one entry
\* of one file: none is lost, and none is shared.
THEOREM FileDataBlocksPartition == Spec => []BlocksPartition
<1>1. IInv => BlocksPartition
  BY Partition
<1> QED BY <1>1, FileDataInvariant, PTL
\* When no file is emptied under an open descriptor, files have no holes and no descriptor
\* stands behind the end of its file: a word that was never written is never read.
THEOREM FileDataNoHoles == ~ TruncatesOpen => (Spec => [](Filled(vol, size) /\ Within))
<1> SUFFICES ASSUME ~ TruncatesOpen
             PROVE  Spec => [](Filled(vol, size) /\ Within)
  OBVIOUS
<1>1. Init => DataInv
  BY DataInvInit
<1>2. DataInv /\ [Next]_vars => DataInv'
  BY DataInvNext
<1>3. DataInv => Filled(vol, size) /\ Within
  BY DEF DataInv
<1> QED BY <1>1, <1>2, <1>3, PTL DEF Spec

\* The block maps implement files that are sequences of words: each call of the engine
\* truncates one file or writes words into one file, and no other file sees it.
THEOREM FileDataImplementsBytes == ~ TruncatesOpen => (Spec => ImplementsBytes)
<1> SUFFICES ASSUME ~ TruncatesOpen
             PROVE  Spec => ImplementsBytes
  OBVIOUS
<1>1. Init => DataInv /\ Bytes!Init
  BY DataInvInit DEF Bytes!Init
<1>2. DataInv /\ [Next]_vars => DataInv' /\ [Bytes!Next]_Contents
  BY DataInvNext DEF Bytes!Next
<1> QED BY <1>1, <1>2, PTL DEF Spec, ImplementsBytes, Bytes!Spec
===============================================================================
