------------------------------ MODULE FileData ------------------------------
(***************************************************************************)
(* The data of files in the UNIX engine: the block map of an inode (bmap,  *)
(* bmap_alloc and truncate of src/fs/unix/inode.cpp) and the calls that    *)
(* read and write through a descriptor (src/fs/unix/unix_fs.cpp).          *)
(*                                                                         *)
(* A block is PTRS_PER_BLK words; a word is a block number in an indirect  *)
(* block and a unit of data in the others, and 0 is no block.  What is     *)
(* left in a block once it is freed is JUNK.  Which block balloc hands out *)
(* is the matter of FreeBlocks: here it is the lowest free one.  Every     *)
(* descriptor is open for reading and writing, a write stores copies of    *)
(* one word, and each call runs to its end.                                *)
(***************************************************************************)
EXTENDS Integers, Sequences, FiniteSets

CONSTANTS
  File,
  DIRECT_ADDR,    \* direct entries of di_addr (6)
  SINGLES,        \* entries of one indirection (2); one double entry follows
  PTRS_PER_BLK,
  DATA_BLK_NUM,   \* blocks 1 .. DATA_BLK_NUM can be handed out
  Datum,          \* the words that callers write
  Lengths,        \* how many words they read or write in a call
  MAX_OPEN_FILE,
  TruncatesOpen   \* is a file opened with O_TRUNC while it is open?

INVALID_BLK == -1
JUNK == -2
Blk == 1 .. DATA_BLK_NUM
Word == Datum \cup Blk \cup {0, JUNK}
NADDR == DIRECT_ADDR + SINGLES + 1
MaxBlks == DIRECT_ADDR + SINGLES * PTRS_PER_BLK + PTRS_PER_BLK * PTRS_PER_BLK
Fd == 1 .. MAX_OPEN_FILE

ASSUME FileDataAssumption ==
  /\ File \subseteq Nat \ {0}
  /\ {DIRECT_ADDR, SINGLES, DATA_BLK_NUM, MAX_OPEN_FILE} \subseteq Nat
  /\ PTRS_PER_BLK \in Nat \ {0}
  /\ Datum \subseteq Nat /\ Lengths \subseteq Nat \ {0}
  /\ TruncatesOpen \in BOOLEAN

VARIABLES
  vol,    \* the volume: addr (di_addr of the files), store (the blocks), free
  size,   \* di_size of the files, in words
  ofile   \* the descriptors: a file and an offset

vars == <<vol, size, ofile>>

Junk == [i \in 0 .. PTRS_PER_BLK - 1 |-> JUNK]
Zeroed == [i \in 0 .. PTRS_PER_BLK - 1 |-> 0]
NoFile == [file |-> 0, off |-> 0]

Init ==
  /\ vol = [addr |-> [f \in File |-> [i \in 0 .. NADDR - 1 |-> 0]],
            store |-> [b \in Blk |-> Zeroed],
            free |-> Blk]
  /\ size = [f \in File |-> 0]
  /\ ofile = [fd \in Fd |-> NoFile]
-----------------------------------------------------------------------------
(***************************************************************************)
(* The entries on the way to logical block l: one of di_addr, and one of   *)
(* each indirect block below it.                                           *)
(***************************************************************************)
Entries(l) ==
  LET s == l - DIRECT_ADDR
      t == s - SINGLES * PTRS_PER_BLK
  IN  IF s < 0 THEN <<l>>
      ELSE IF t < 0 THEN <<DIRECT_ADDR + (s \div PTRS_PER_BLK), s % PTRS_PER_BLK>>
      ELSE <<NADDR - 1, t \div PTRS_PER_BLK, t % PTRS_PER_BLK>>

\* Entry k of the way, in the block b that holds it.
Entry(v, f, way, k, b) == IF k = 1 THEN v.addr[f][way[1]] ELSE v.store[b][way[k]]

\* Mistake: the last level of indirection is not followed.
bmap_short(v, f, l) ==
  LET way == Entries(l)
      at[k \in 1 .. Len(way)] ==
        IF k = 1 THEN Entry(v, f, way, 1, 0)
        ELSE IF at[k - 1] = 0 THEN 0 ELSE Entry(v, f, way, k, at[k - 1])
  IN  at[IF Len(way) = 1 THEN 1 ELSE Len(way) - 1]

bmap(v, f, l) ==
  LET way == Entries(l)
      at[k \in 1 .. Len(way)] ==
        IF k = 1 THEN Entry(v, f, way, 1, 0)
        ELSE IF at[k - 1] = 0 THEN 0 ELSE Entry(v, f, way, k, at[k - 1])
  IN  IF l >= MaxBlks THEN 0 ELSE at[Len(way)]

Lowest(S) == CHOOSE b \in S : \A c \in S : b <= c

\* A block for entry k, zeroed if it is to hold entries, not if it holds data.
Granted(v, f, way, k, b) ==
  LET new == Lowest(v.free)
      store == IF k < Len(way) THEN [v.store EXCEPT ![new] = Zeroed] ELSE v.store
      popped == [v EXCEPT !.free = @ \ {new}, !.store = store]
  IN  IF k = 1 THEN [popped EXCEPT !.addr[f][way[1]] = new]
      ELSE [popped EXCEPT !.store[b][way[k]] = new]

\* Every missing block of the way is allocated; those that were stay when the
\* next is refused.
bmap_alloc(v, f, l) ==
  LET way == Entries(l)
      at[k \in 0 .. Len(way)] ==
        IF k = 0 THEN [vol |-> v, blk |-> 0]
        ELSE LET u == at[k - 1].vol
                 b == at[k - 1].blk
             IN  IF b = INVALID_BLK THEN at[k - 1]
                 ELSE IF Entry(u, f, way, k, b) # 0
                 THEN [vol |-> u, blk |-> Entry(u, f, way, k, b)]
                 ELSE IF u.free = {} THEN [vol |-> u, blk |-> INVALID_BLK]
                 ELSE [vol |-> Granted(u, f, way, k, b), blk |-> Lowest(u.free)]
  IN  IF l >= MaxBlks THEN [vol |-> v, blk |-> INVALID_BLK] ELSE at[Len(way)]

\* Mistake: the block of entries in the middle is not freed.
Under_ends(v, w, depth) ==
  LET below(b) == {v.store[b][i] : i \in 0 .. PTRS_PER_BLK - 1} \ {0}
  IN  IF w = 0 THEN {}
      ELSE {w} \cup (IF depth = 1 THEN below(w) ELSE {})
               \cup (IF depth = 2 THEN UNION {below(b) : b \in below(w)} ELSE {})

\* The blocks that entry w of an indirect block or of di_addr leads to, those of
\* the deepest level first; depth is 0 for an entry of a data block.
Under(v, w, depth) ==
  LET below(b) == {v.store[b][i] : i \in 0 .. PTRS_PER_BLK - 1} \ {0}
  IN  IF w = 0 THEN {}
      ELSE {w} \cup (IF depth >= 1 THEN below(w) ELSE {})
               \cup (IF depth = 2 THEN UNION {below(b) : b \in below(w)} ELSE {})

Depth(i) == IF i < DIRECT_ADDR THEN 0 ELSE IF i = NADDR - 1 THEN 2 ELSE 1

\* The blocks under entry i of di_addr, as truncate finds them.
BlocksUnder(v, f, i) == Under(v, v.addr[f][i], Depth(i))
BlocksOf(v, f) == UNION {BlocksUnder(v, f, i) : i \in 0 .. NADDR - 1}

truncate(v, f) ==
  [addr |-> [v.addr EXCEPT ![f] = [i \in 0 .. NADDR - 1 |-> 0]],
   store |-> [b \in Blk |-> IF b \in BlocksOf(v, f) THEN Junk ELSE v.store[b]],
   free |-> v.free \cup BlocksOf(v, f)]
-----------------------------------------------------------------------------
OpenOn(f) == {fd \in Fd : ofile[fd].file = f}

\* fs_open: with O_TRUNC the file is emptied, with O_APPEND the offset is at
\* its end.
Open(f, fd, flags) ==
  /\ ofile[fd] = NoFile
  /\ \A g \in Fd : ofile[g] = NoFile => fd <= g
  /\ flags = "TRUNC" => OpenOn(f) = {} \/ TruncatesOpen
  /\ vol' = IF flags = "TRUNC" THEN truncate(vol, f) ELSE vol
  /\ size' = IF flags = "TRUNC" THEN [size EXCEPT ![f] = 0] ELSE size
  /\ ofile' = [ofile EXCEPT ![fd] =
                 [file |-> f, off |-> IF flags = "APPEND" THEN size[f] ELSE 0]]

Close(fd) ==
  /\ ofile[fd] # NoFile
  /\ ofile' = [ofile EXCEPT ![fd] = NoFile]
  /\ UNCHANGED <<vol, size>>

\* fs_read: at the end of the file nothing moves.
Read(fd, len) ==
  LET f == ofile[fd].file
      left == size[f] - ofile[fd].off
  IN  /\ ofile[fd] # NoFile
      /\ left > 0
      /\ ofile' = [ofile EXCEPT ![fd].off = @ + IF len < left THEN len ELSE left]
      /\ UNCHANGED <<vol, size>>

\* fs_write: word after word, up to the first that finds no block; a block is
\* read before a part of it is written.
Write(fd, len, w) ==
  LET f == ofile[fd].file
      off == ofile[fd].off
      done[j \in 0 .. len] ==
        IF j = 0 THEN [vol |-> vol, n |-> 0, full |-> FALSE]
        ELSE IF done[j - 1].full THEN done[j - 1]
        ELSE LET p == off + j - 1
                 r == bmap_alloc(done[j - 1].vol, f, p \div PTRS_PER_BLK)
             IN  IF r.blk = INVALID_BLK
                 THEN [vol |-> r.vol, n |-> j - 1, full |-> TRUE]
                 ELSE [vol |-> [r.vol EXCEPT !.store[r.blk][p % PTRS_PER_BLK] = w],
                       n |-> j, full |-> FALSE]
      end == off + done[len].n
  IN  /\ ofile[fd] # NoFile
      /\ vol' = done[len].vol
      /\ size' = [size EXCEPT ![f] = IF end > @ THEN end ELSE @]
      /\ ofile' = [ofile EXCEPT ![fd].off = end]

\* put of an inode without links: the file is gone, its number to be reused.
Reclaim(f) ==
  /\ OpenOn(f) = {}
  /\ vol' = truncate(vol, f)
  /\ size' = [size EXCEPT ![f] = 0]
  /\ UNCHANGED ofile

Next ==
  \/ \E f \in File :
       Reclaim(f) \/ \E fd \in Fd, flags \in {"", "TRUNC", "APPEND"} : Open(f, fd, flags)
  \/ \E fd \in Fd :
       \/ Close(fd)
       \/ \E len \in Lengths : Read(fd, len) \/ \E w \in Datum : Write(fd, len, w)

Spec == Init /\ [][Next]_vars
-----------------------------------------------------------------------------
\* The blocks of f that hold entries.
Indirect(f) ==
  UNION {LET w == vol.addr[f][i]
         IN  IF w = 0 \/ Depth(i) = 0 THEN {}
             ELSE {w} \cup (IF Depth(i) = 2
                            THEN {vol.store[w][j] : j \in 0 .. PTRS_PER_BLK - 1} \ {0} ELSE {})
         : i \in 0 .. NADDR - 1}

\* Every entry of a file or of an indirect block, and the block it leads to.
Leads ==
  {<<f, i, vol.addr[f][i]>> : f \in File, i \in 0 .. NADDR - 1}
  \cup {<<-c, i, vol.store[c][i]>> :
          c \in UNION {Indirect(f) : f \in File}, i \in 0 .. PTRS_PER_BLK - 1}

\* Every block is free, or under exactly one entry of one file: truncate frees
\* whatever bmap_alloc left behind, however far it got on a full disk, and no
\* file has a block of another.
BlocksPartition ==
  /\ vol.free = Blk \ UNION {BlocksOf(vol, f) : f \in File}
  /\ LET used == {e \in Leads : e[3] # 0}
     IN  /\ {e[3] : e \in used} = Blk \ vol.free
         /\ Cardinality(used) = Cardinality(Blk \ vol.free)

\* The words of a file, as fs_read finds them: a missing block reads as zeros.
DataAt(f, p) ==
  LET b == bmap(vol, f, p \div PTRS_PER_BLK)
  IN  IF b = 0 THEN 0 ELSE vol.store[b][p % PTRS_PER_BLK]

Contents == [f \in File |-> [k \in 1 .. size[f] |-> DataAt(f, k - 1)]]

Bytes == INSTANCE FileBytes WITH content <- Contents, Word <- Datum,
                                 MaxWords <- DATA_BLK_NUM * PTRS_PER_BLK

\* The block maps implement files of words: a write is seen by every reader of
\* its file, by no reader of another, and a part that was never written is zero.
ImplementsBytes == Bytes!Spec
=============================================================================
