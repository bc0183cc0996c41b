------------------------------- MODULE Fat16 -------------------------------
(***************************************************************************)
(* The FAT16 engine, src/fs/fat16/fat16_fs.cpp: the allocation table, the  *)
(* directories, the files and their descriptors.  One thread calls the     *)
(* engine and every call runs to its end, so one action is one call; a     *)
(* call that is refused changes nothing and is no step here.               *)
(*                                                                         *)
(* A cluster holds ENTRIES words of 32 bytes, each a directory entry or a  *)
(* unit of the data of a file: written, zero, or OLD once O_TRUNC should   *)
(* have dropped it; offsets and sizes are in words. A path is its parts    *)
(* and whether it starts with a slash; names are in upper case, and Short  *)
(* gives the 8.3 form that an entry keeps of a name. Every descriptor is   *)
(* open for reading and writing. The table on disk equals fat_ after every *)
(* call, since all that change it flush it, so a mount that reads it back  *)
(* only resets the current directory.                                      *)
(***************************************************************************)
EXTENDS Integers, Sequences, FiniteSets

CONSTANTS
  CLUSTERS,         \* data clusters, numbered from 2 (kDataBlkCount, 2062)
  ENTRIES,          \* entries of a block (kDirEntriesPerBlk, 16)
  GUARD,            \* clusters that one walk of a chain visits (2000)
  MAX_OPEN_FILE,
  Name,             \* the names callers use
  Short,            \* the name that is kept of each of them
  Paths,            \* the paths they pass
  Flags,            \* the flags they open with
  Lengths,          \* the words they read or write in a call
  Liberties         \* the careless calls that they make

\* Callers that take no liberty do not remove a file that is open ("open"), nor
\* the current directory ("cwd"), nor a name that is "." or ".." ("dots"), and
\* make none in the root ("dot names"); they do not change to a file ("file"), do
\* not empty a file that is open ("trunc") and format with no file open ("format").
AllLiberties == {"open", "cwd", "dots", "dot names", "file", "trunc", "format"}

Cluster == 2 .. CLUSTERS + 1
kRootCluster == 0
FREE == 0        \* FAT16_FREE_CLUSTER
EOC == -1        \* FAT16_END_OF_CHAIN: like FREE, less than 2
NONE == -2       \* a path that leads nowhere
UNUSED == ""     \* the name of an entry that starts with a zero
DELETED == "0xE5"
OLD == -1
Fd == 0 .. MAX_OPEN_FILE - 1
Part == Name \cup {".", ".."}

ASSUME Fat16Assumption ==
  /\ {CLUSTERS, MAX_OPEN_FILE} \subseteq Nat
  /\ ENTRIES \in Nat /\ ENTRIES >= 2 /\ GUARD \in Nat \ {0}
  /\ Name \cap {UNUSED, DELETED, ".", ".."} = {}
  /\ Short \in [Name -> Name]
  /\ \A p \in Paths : p.abs \in BOOLEAN /\ p.parts \in Seq(Part)
  /\ \A f \in Flags : f \subseteq {"TRUNC", "APPEND"}
  /\ Lengths \subseteq Nat
  /\ Liberties \subseteq AllLiberties

VARIABLES
  vol,           \* the volume: fat (fat_), slots (of the directory that starts at
                 \* a cluster, or of the root) and data (the words of a cluster)
  cwd_cluster,
  cwd_path,      \* the parts of the path that pwd prints
  ofile          \* the descriptors: first cluster, offset and open_parent_

vars == <<vol, cwd_cluster, cwd_path, ofile>>

Entry(n, dir, first) == [name |-> n, dir |-> dir, first |-> first, size |-> 0]
Unused == Entry(UNUSED, FALSE, 0)
NewBlock(entries) ==
  entries \o [j \in 1 .. ENTRIES - Len(entries) |-> Unused]
Zeroed == [i \in 0 .. ENTRIES - 1 |-> 0]
NoFile == [first |-> 0, off |-> 0, parent |-> 0]

\* A format clears the table and the root, not the clusters: no one reads a
\* cluster before it is cleared for its new use.
Formatted(v) ==
  [v EXCEPT !.fat = [c \in Cluster |-> FREE], !.slots[kRootCluster] = NewBlock(<< >>)]

Init ==
  /\ vol = Formatted([fat |-> [c \in Cluster |-> FREE],
                      slots |-> [d \in Cluster \cup {kRootCluster} |-> << >>],
                      data |-> [c \in Cluster |-> Zeroed]])
  /\ cwd_cluster = kRootCluster
  /\ cwd_path = << >>
  /\ ofile = [fd \in Fd |-> NoFile]
-----------------------------------------------------------------------------
(* Clusters *)

\* The clusters of the chain that starts at c, up to n of them, with their place
\* in it: <<1, c>> and so on.
Chain(v, c, n) ==
  LET next == [x \in Cluster \cup {FREE, EOC} |-> IF x >= 2 THEN v.fat[x] ELSE EOC]
      at[k \in 1 .. n] == IF k = 1 THEN c ELSE next[at[k - 1]]
  IN  {p \in {<<k, at[k]>> : k \in 1 .. n} : p[2] >= 2}

FreeClusters(v) == {c \in Cluster : v.fat[c] = FREE}
Lowest(S) == CHOOSE x \in S : \A y \in S : x <= y

\* alloc_cluster, and what its callers then write over the cluster: zeros for a
\* file, entries for a directory.  There must be a free one.
Allocated(v, entries) ==
  LET c == Lowest(FreeClusters(v))
  IN  [v EXCEPT !.fat[c] = EOC, !.data[c] = Zeroed, !.slots[c] = entries]

\* Mistake: only the first cluster is freed.
free_cluster_chain_first(v, c) ==
  [v EXCEPT !.fat = [x \in Cluster |-> IF x = c THEN FREE ELSE @[x]]]

free_cluster_chain(v, c) ==
  LET chain == {p[2] : p \in Chain(v, c, GUARD)}
  IN  [v EXCEPT !.fat = [x \in Cluster |-> IF x \in chain THEN FREE ELSE @[x]]]

Kth(v, c, k) == (CHOOSE p \in Chain(v, c, CLUSTERS + 1) : p[1] = k)[2]
Length(v, c) == Cardinality(Chain(v, c, CLUSTERS + 1))

\* The chain of c goes on to its k-th cluster, or as far as there are clusters for
\* it: each time the lowest free one, cleared.
Extended(v, c, k) ==
  LET Longer(u, length) ==
        IF length >= k \/ FreeClusters(u) = {} THEN u
        ELSE [Allocated(u, << >>) EXCEPT !.fat[Kth(u, c, length)] = Lowest(FreeClusters(u))]
      More(u) == Longer(u, Length(u, c))
      grown[i \in 0 .. k] == IF i = 0 THEN v ELSE More(grown[i - 1])
  IN  grown[k]
-----------------------------------------------------------------------------
(* Directories *)

\* Mistake: a slot that was deleted ends the directory.
Live_short(slots) ==
  LET over == {j \in 1 .. Len(slots) : slots[j].name \in {UNUSED, DELETED}}
  IN  1 .. (IF over = {} THEN Len(slots) ELSE Lowest(over) - 1)

\* Of the slots of a directory, those in use: read_dir_entries stops at the first
\* that was never used, and no one looks at what was deleted.
Live(slots) ==
  LET unused == {j \in 1 .. Len(slots) : slots[j].name = UNUSED}
  IN  {j \in 1 .. (IF unused = {} THEN Len(slots) ELSE Lowest(unused) - 1) :
         slots[j].name # DELETED}

\* Mistake: a slot that was deleted is not used again.
Vacant_unused(slots) == {j \in 1 .. Len(slots) : slots[j].name = UNUSED}

Vacant(slots) == {j \in 1 .. Len(slots) : slots[j].name \in {UNUSED, DELETED}}

CanAppend(v, d) == Vacant(v.slots[d]) # {} \/ (d # kRootCluster /\ FreeClusters(v) # {})

\* append_dir_entry: the first vacant slot, or a cluster more, which the root
\* never gets.
append_dir_entry(v, d, e) ==
  IF Vacant(v.slots[d]) # {} THEN [v EXCEPT !.slots[d][Lowest(Vacant(v.slots[d]))] = e]
  ELSE [Extended(v, d, Length(v, d) + 1) EXCEPT !.slots[d] = @ \o NewBlock(<<e>>)]

\* remove_dir_entry: the first slot of that name, in use or not; the name of "/"
\* is that of a slot never used.  All but the first byte of the name stays.
remove_dir_entry(v, d, n) ==
  LET named == {j \in 1 .. Len(v.slots[d]) : v.slots[d][j].name = n}
  IN  IF named = {} THEN v ELSE [v EXCEPT !.slots[d][Lowest(named)].name = DELETED]

\* The slots of a file's directory that carry its first cluster: get_file_size
\* looks at those in use, update_file_size at all.
Carrying(slots, first) ==
  {j \in 1 .. Len(slots) : slots[j].first = first /\ ~slots[j].dir}

get_file_size(v, d, first) ==
  LET at == Carrying(v.slots[d], first) \cap Live(v.slots[d])
  IN  IF at = {} THEN 0 ELSE v.slots[d][Lowest(at)].size

\* Mistake: a size is never made smaller.
update_file_size_up(v, d, first, size) ==
  LET at == Carrying(v.slots[d], first)
  IN  IF at = {} \/ size = 0 THEN v ELSE [v EXCEPT !.slots[d][Lowest(at)].size = size]

\* Mistake: the size goes to the first file of the directory.
update_file_size_any(v, d, first, size) ==
  LET at == {j \in 1 .. Len(v.slots[d]) : v.slots[d][j].name # UNUSED}
  IN  IF at = {} THEN v ELSE [v EXCEPT !.slots[d][Lowest(at)].size = size]

update_file_size(v, d, first, size) ==
  LET at == Carrying(v.slots[d], first)
  IN  IF at = {} THEN v ELSE [v EXCEPT !.slots[d][Lowest(at)].size = size]
-----------------------------------------------------------------------------
(* Paths *)

Start(path) == IF path.abs THEN kRootCluster ELSE cwd_cluster

\* The entry of that name, or of a directory of that name, in d; NoEntry if none.
NoEntry == Entry(UNUSED, FALSE, NONE)

Found(d, n, dirs) ==
  LET slots == vol.slots[d]
      named == {j \in Live(slots) : slots[j].name = n /\ (dirs => slots[j].dir)}
  IN  IF named = {} THEN NoEntry ELSE slots[Lowest(named)]

\* Every part but the last is a directory.
Through(parts, from) ==
  LET at[k \in 0 .. Len(parts)] ==
        IF k = 0 THEN from
        ELSE LET d == at[k - 1] IN IF d = NONE THEN NONE ELSE Found(d, parts[k], TRUE).first
  IN  at[Len(parts)]

\* What resolve_path gives back: the directory of the last part, its name, the
\* entry of that name and its cluster.
Parent(path) ==
  IF path.parts = << >> THEN Start(path)
  ELSE Through(SubSeq(path.parts, 1, Len(path.parts) - 1), Start(path))

basename(path) == IF path.parts = << >> THEN UNUSED ELSE path.parts[Len(path.parts)]

TargetEntry(path) ==
  IF Parent(path) = NONE THEN NoEntry ELSE Found(Parent(path), basename(path), FALSE)
Target(path) == IF path.parts = << >> THEN Start(path) ELSE TargetEntry(path).first
Exists(path) == Target(path) # NONE
-----------------------------------------------------------------------------
Takes(liberty) == liberty \in Liberties

OpenOn(c) == {fd \in Fd : ofile[fd] # NoFile /\ ofile[fd].first = c}
FreeFds == {fd \in Fd : ofile[fd] = NoFile}

Kept(n) == IF n \in Name THEN Short[n] ELSE n

\* A new entry, with a cluster of its own; the cluster goes back if the directory
\* has no place for the entry.  Bound: no directory is longer than GUARD, and what
\* is created in a file, after a cd to it, is left out.
Enter(path, dir, block) ==
  LET d == Parent(path)
      made == Allocated(vol, block)
      e == Entry(Kept(basename(path)), dir, Lowest(FreeClusters(vol)))
  IN  /\ d # NONE
      /\ vol.slots[d] # << >>
      /\ ~Exists(path)
      /\ basename(path) \in {".", ".."} => Takes("dot names")
      /\ FreeClusters(vol) # {}
      /\ CanAppend(made, d)
      /\ vol' = append_dir_entry(made, d, e)
      /\ UNCHANGED <<cwd_cluster, cwd_path, ofile>>

Create(path) == Enter(path, FALSE, << >>)

\* Mistake: every directory's ".." is the root.
Mkdir_root(path) ==
  Enter(path, TRUE, NewBlock(<<Entry(".", TRUE, Lowest(FreeClusters(vol))),
                               Entry("..", TRUE, kRootCluster)>>))

Mkdir(path) ==
  Enter(path, TRUE, NewBlock(<<Entry(".", TRUE, Lowest(FreeClusters(vol))),
                               Entry("..", TRUE, Parent(path))>>))

Delete(path) ==
  LET freed == IF path.parts = << >> THEN vol ELSE free_cluster_chain(vol, Target(path))
  IN  /\ Exists(path)
      /\ path.parts # << >> =>
           /\ ~TargetEntry(path).dir
           /\ OpenOn(Target(path)) # {} => Takes("open")
      /\ vol' = remove_dir_entry(freed, Parent(path), basename(path))
      /\ UNCHANGED <<cwd_cluster, cwd_path, ofile>>

\* Whatever the path leads to is read as a directory: a file that starts with a
\* zero is an empty one.
IsEmpty(d) ==
  IF vol.slots[d] = << >> THEN vol.data[d][0] = 0
  ELSE \A j \in Live(vol.slots[d]) : vol.slots[d][j].name \in {".", ".."}

Rmdir(path) ==
  /\ Exists(path)
  /\ IsEmpty(Target(path))
  /\ Target(path) \in {cwd_cluster} \ {kRootCluster} => Takes("cwd")
  /\ OpenOn(Target(path)) # {} => Takes("open")
  /\ basename(path) \in {".", ".."} => Takes("dots")
  /\ vol' = remove_dir_entry(free_cluster_chain(vol, Target(path)),
                             Parent(path), basename(path))
  /\ UNCHANGED <<cwd_cluster, cwd_path, ofile>>

\* The parts of a relative path go on the end of cwd_path, where ".." takes the
\* last part off; those of an absolute path are taken as they are.
PathAfter(path) ==
  LET at[k \in 0 .. Len(path.parts)] ==
        IF k = 0 THEN cwd_path
        ELSE CASE path.parts[k] = "." -> at[k - 1]
               [] path.parts[k] = ".." -> SubSeq(at[k - 1], 1, Len(at[k - 1]) - 1)
               [] OTHER -> Append(at[k - 1], path.parts[k])
  IN  IF Target(path) = kRootCluster THEN << >>
      ELSE IF path.abs THEN path.parts ELSE at[Len(path.parts)]

\* No one asks whether the target is a directory.
Chdir(path) ==
  /\ Exists(path)
  /\ path.parts # << >> /\ ~TargetEntry(path).dir => Takes("file")
  /\ cwd_cluster' = Target(path)
  /\ cwd_path' = PathAfter(path)
  /\ UNCHANGED <<vol, ofile>>

\* fs_open with O_TRUNC keeps the first cluster with what is in it; with O_APPEND
\* the offset is the size found before.
Open(path, flags) ==
  LET e == TargetEntry(path)
      cut == free_cluster_chain([vol EXCEPT !.fat[e.first] = EOC], vol.fat[e.first])
      old == [cut EXCEPT !.data[e.first] =
                [i \in 0 .. ENTRIES - 1 |-> IF @[i] = 0 THEN 0 ELSE OLD]]
  IN  /\ path.parts # << >>
      /\ Exists(path)
      /\ ~e.dir
      /\ "TRUNC" \in flags /\ OpenOn(e.first) # {} => Takes("trunc")
      /\ vol' = IF "TRUNC" \in flags THEN update_file_size(old, Parent(path), e.first, 0)
                ELSE vol
      /\ ofile' = IF FreeFds = {} THEN ofile
                  ELSE [ofile EXCEPT ![Lowest(FreeFds)] =
                          [first |-> e.first, parent |-> Parent(path),
                           off |-> IF "APPEND" \in flags THEN e.size ELSE 0]]
      /\ UNCHANGED <<cwd_cluster, cwd_path>>

Close(fd) ==
  /\ ofile[fd] # NoFile
  /\ ofile' = [ofile EXCEPT ![fd] = NoFile]
  /\ UNCHANGED <<vol, cwd_cluster, cwd_path>>

\* fs_read: up to the size that the entry gives, or to the end of the chain.
Read(fd, len) ==
  LET o == ofile[fd]
      left == get_file_size(vol, o.parent, o.first) - o.off
      chained == Length(vol, o.first) * ENTRIES - o.off
  IN  /\ o # NoFile
      /\ left > 0 /\ chained > 0
      /\ ofile' = [ofile EXCEPT ![fd].off = @ + Lowest({len, left, chained})]
      /\ UNCHANGED <<vol, cwd_cluster, cwd_path>>

\* fs_write: clusters are added up to the last word, and the words written that
\* find one; the offset counts for the size all the same.
Write(fd, len) ==
  LET o == ofile[fd]
      last == IF len = 0 THEN o.off ELSE o.off + len - 1
      v == Extended(vol, o.first, (last \div ENTRIES) + 1)
      room == Length(v, o.first) * ENTRIES
      end == IF room > o.off THEN Lowest({o.off + len, room}) ELSE o.off
      Written(c, i) ==
        \E p \in Chain(v, o.first, CLUSTERS + 1) :
          p[2] = c /\ (p[1] - 1) * ENTRIES + i \in o.off .. end - 1
      w == [v EXCEPT !.data = [c \in Cluster |-> [i \in 0 .. ENTRIES - 1 |->
                                 IF Written(c, i) THEN 1 ELSE @[c][i]]]]
  IN  /\ o # NoFile
      /\ vol' = IF end > get_file_size(v, o.parent, o.first)
                THEN update_file_size(w, o.parent, o.first, end) ELSE w
      /\ ofile' = [ofile EXCEPT ![fd].off = end]
      /\ UNCHANGED <<cwd_cluster, cwd_path>>

Format ==
  /\ FreeFds # Fd => Takes("format")
  /\ vol' = Formatted(vol)
  /\ cwd_cluster' = kRootCluster
  /\ cwd_path' = << >>
  /\ UNCHANGED ofile

\* Mistake: the path of the current directory is not reset.
Mount_path ==
  /\ cwd_cluster' = kRootCluster
  /\ UNCHANGED <<vol, cwd_path, ofile>>

Mount ==
  /\ cwd_cluster' = kRootCluster
  /\ cwd_path' = << >>
  /\ UNCHANGED <<vol, ofile>>

Next ==
  \/ \E path \in Paths :
       \/ Create(path)
       \/ Mkdir(path)
       \/ Delete(path)
       \/ Rmdir(path)
       \/ Chdir(path)
       \/ \E flags \in Flags : Open(path, flags)
  \/ \E fd \in Fd : Close(fd) \/ \E len \in Lengths : Read(fd, len) \/ Write(fd, len)
  \/ Format
  \/ Mount

Spec == Init /\ [][Next]_vars
-----------------------------------------------------------------------------
\* The slots of d whose entries own a chain; the root has no dots of its own.
OwnersIn(d) ==
  {j \in Live(vol.slots[d]) :
     d # kRootCluster => vol.slots[d][j].name \notin {".", ".."}}

\* The directories that are found from the root.
Dirs ==
  LET Below(d) == {vol.slots[d][j].first : j \in {j \in OwnersIn(d) : vol.slots[d][j].dir}}
      at[k \in 0 .. CLUSTERS] ==
        IF k = 0 THEN {kRootCluster} ELSE UNION {{d} \cup Below(d) : d \in at[k - 1]}
  IN  at[CLUSTERS]

\* Every entry that owns a chain, with its place.
Owners == UNION {{[in |-> d, at |-> j, e |-> vol.slots[d][j]] : j \in OwnersIn(d)} : d \in Dirs}
Files == {o \in Owners : ~o.e.dir}

\* Every cluster that is not free is in the chain of one entry, once: no chain
\* runs into another or into itself, none holds a free cluster, and no cluster
\* is lost.
ClustersOwned ==
  LET used == Cluster \ FreeClusters(vol)
      held == UNION {{<<o, p[1], p[2]>> : p \in Chain(vol, o.e.first, CLUSTERS + 1)} : o \in Owners}
  IN  /\ {h[3] : h \in held} = used
      /\ Cardinality(held) = Cardinality(used)

\* A file has the clusters that its size calls for, a directory those that its
\* slots take up.
SizeWithinChain ==
  \A o \in Owners :
    LET room == Length(vol, o.e.first) * ENTRIES
    IN  IF o.e.dir THEN Len(vol.slots[o.e.first]) = room ELSE o.e.size <= room

\* A write finds the entry of its file, though update_file_size also looks at the
\* entries that were deleted and still show their old first cluster.
SizeKeptInEntry ==
  \A o \in Files : Lowest(Carrying(vol.slots[o.in], o.e.first)) = o.at

\* A directory has a name once.
NamesUnique == \A o, q \in Owners : o.in = q.in /\ o.e.name = q.e.name => o = q

\* The dots of a directory lead to itself and to the directory that has it.
DotsLead ==
  /\ {Found(kRootCluster, n, FALSE) : n \in {".", ".."}} = {NoEntry}
  /\ \A o \in Owners \ Files :
       /\ Found(o.e.first, ".", FALSE).first = o.e.first
       /\ Found(o.e.first, "..", FALSE).first = o.in

\* A descriptor finds the entry of its file in the directory that it remembers.
OpenFilesLive ==
  \A fd \in Fd \ FreeFds :
    \E o \in Files : o.in = ofile[fd].parent /\ o.e.first = ofile[fd].first

\* The current directory is a directory of the tree, and what pwd prints leads to it.
PwdNamesCwd == Through(cwd_path, kRootCluster) = cwd_cluster

\* The words of a file, as fs_read finds them.
Words(o) ==
  LET size == Lowest({o.e.size, Length(vol, o.e.first) * ENTRIES})
  IN  [k \in 1 .. size |->
         vol.data[Kth(vol, o.e.first, ((k - 1) \div ENTRIES) + 1)][(k - 1) % ENTRIES]]

Contents ==
  LET written == {<<o.e.first, Words(o)>> : o \in Files}
  IN  [c \in Cluster |-> IF \E w \in written : w[1] = c
                         THEN (CHOOSE w \in written : w[1] = c)[2] ELSE << >>]

Bytes == INSTANCE FileBytes WITH content <- Contents, File <- Cluster, Word <- {1},
                                 MaxWords <- CLUSTERS * ENTRIES

\* The chains implement files of words: a write is seen by every reader of its
\* file, by no reader of another, and a part that was never written is zero.
ImplementsBytes == Bytes!Spec

Nodes == {kRootCluster} \cup {o.e.first : o \in Owners}

Tree == INSTANCE Hierarchy WITH
  Node <- Cluster \cup {kRootCluster}, root <- kRootCluster, dir <- TRUE, Kind <- BOOLEAN,
  names <- [p \in {<<o.in, o.e.name>> : o \in Owners} |-> Found(p[1], p[2], FALSE).first],
  kind <- [c \in Nodes |-> vol.slots[c] # << >>]

\* Entries and chains implement names and the nodes they name.
ImplementsTree == Tree!Spec
=============================================================================
