------------------------------- MODULE UnixFs -------------------------------
(***************************************************************************)
(* The name space of the UNIX engine: inodes, directories, open files and  *)
(* the current directory, in src/fs/unix/unix_fs.cpp with the directory    *)
(* and inode managers it calls.  The engine is called by one thread and    *)
(* every call runs to its end, so one action is one call.                  *)
(*                                                                         *)
(* A path is its parts and whether it starts with a slash.  A directory is *)
(* the sequence of its 16-byte slots; the data of a file is the number of  *)
(* blocks it occupies (FileData has the rest).  No inode is in the memory  *)
(* cache between two calls, each of which puts back what it got, so the    *)
(* table below is the one on disk.  The session is root's, whom            *)
(* check_access lets through; a call that is refused changes nothing and   *)
(* is no step here.                                                        *)
(***************************************************************************)
EXTENDS Integers, Sequences, FiniteSets

CONSTANTS
  Ino,                            \* the inode numbers in circulation
  root_ino, etc_ino, home_ino,    \* the first three that ialloc hands out
  NONE,                           \* no inode: 0 in a slot, INVALID_BLK elsewhere
  Name,                           \* names of files, "etc" and "home" among them
  DIR_ENTRIES_PER_BLK,
  DATA_BLKS,                      \* data blocks that balloc can hand out
  MAX_OPEN_FILE,
  HOPS,                           \* symbolic links that one open follows (16)
  Paths,                          \* the paths callers pass
  Targets,                        \* the paths they put in symbolic links
  Flags,                          \* the flags they open with
  MaxFileBlks,                    \* bound: blocks of a file
  MaxPath,                        \* bound: parts of cwd_path
  Liberties                       \* the careless calls that callers make

\* Callers that take no liberty do not remove a file that is open ("open"), nor
\* the current directory ("cwd"), nor a name that is "." or ".." ("dots"); they
\* create nothing under a regular file ("parents"), make a directory only when
\* there are blocks for it ("full"), and format with no file open ("format").
AllLiberties == {"open", "cwd", "dots", "parents", "full", "format"}

Fd == 0 .. MAX_OPEN_FILE - 1
Part == Name \cup {".", ".."}
Path == [abs : BOOLEAN, parts : Seq(Part)]

ASSUME UnixFsAssumption ==
  /\ {root_ino, etc_ino, home_ino} \subseteq Ino
  /\ root_ino # etc_ino /\ etc_ino # home_ino /\ root_ino # home_ino
  /\ NONE \notin Ino /\ IsFiniteSet(Ino)
  /\ {"etc", "home"} \subseteq Name /\ Name \cap {".", "..", ""} = {}
  /\ DIR_ENTRIES_PER_BLK \in Nat /\ DIR_ENTRIES_PER_BLK >= 2
  /\ DATA_BLKS \in Nat /\ DATA_BLKS >= 4
  /\ {MAX_OPEN_FILE, HOPS, MaxFileBlks, MaxPath} \subseteq Nat /\ HOPS > 0
  /\ Targets \subseteq Paths
  /\ \A p \in Paths : p.abs \in BOOLEAN /\ p.parts \in Seq(Part)
  /\ \A f \in Flags : f \subseteq {"READ", "WRITE", "APPEND", "TRUNC"}
  /\ Liberties \subseteq AllLiberties

VARIABLES
  inode,        \* the inode table: type, links, slots of a directory, blocks
  free_inodes,  \* the numbers on the stack of ialloc
  free_blocks,  \* how many blocks balloc can still hand out
  cwd_ino,      \* the current directory
  cwd_path,     \* the path that pwd prints, always from the root
  ofile         \* the descriptors: their inode and flags

vars == <<inode, free_inodes, free_blocks, cwd_ino, cwd_path, ofile>>
-----------------------------------------------------------------------------
Slot(n, i) == [name |-> n, ino |-> i]
Hole == Slot("", NONE)
NoPath == [abs |-> FALSE, parts |-> << >>]
Blank == [mode |-> "none", nlink |-> 0, slots |-> << >>, nblk |-> 0, target |-> NoPath]
BlocksFor(slots) == (Len(slots) + DIR_ENTRIES_PER_BLK - 1) \div DIR_ENTRIES_PER_BLK

\* Mistake: every directory's ".." is the root.
Dots_root(self, parent) == <<Slot(".", self), Slot("..", root_ino)>>

Dots(self, parent) == <<Slot(".", self), Slot("..", parent)>>

NewDir(slots) ==
  [Blank EXCEPT !.mode = "dir", !.nlink = 1, !.slots = slots, !.nblk = BlocksFor(slots)]

RootSlots == Dots(root_ino, root_ino) \o <<Slot("etc", etc_ino), Slot("home", home_ino)>>

Formatted ==
  [i \in Ino |-> CASE i = root_ino -> NewDir(RootSlots)
                   [] i \in {etc_ino, home_ino} -> NewDir(Dots(i, root_ino))
                   [] OTHER -> Blank]

FormattedBlocks == BlocksFor(RootSlots) + 2

NoFile == [ino |-> NONE, flags |-> {}]

Init ==
  /\ inode = Formatted
  /\ free_inodes = Ino \ {root_ino, etc_ino, home_ino}
  /\ free_blocks = DATA_BLKS - FormattedBlocks
  /\ cwd_ino = root_ino
  /\ cwd_path = << >>
  /\ ofile = [fd \in Fd |-> NoFile]
-----------------------------------------------------------------------------
(* Directories *)

\* The slots of d that hold a name n.
Holding(d, n) ==
  {k \in 1 .. Len(inode[d].slots) : inode[d].slots[k].ino # NONE /\ inode[d].slots[k].name = n}

First(S) == CHOOSE k \in S : \A j \in S : k <= j

lookup(d, n) == IF Holding(d, n) = {} THEN NONE ELSE inode[d].slots[First(Holding(d, n))].ino

\* link: the first hole, or a slot at the end.
Linked(d, n, i) ==
  LET slots == inode[d].slots
      holes == {k \in 1 .. Len(slots) : slots[k].ino = NONE}
  IN  IF holes # {} THEN [slots EXCEPT ![First(holes)] = Slot(n, i)]
      ELSE Append(slots, Slot(n, i))

\* Mistake: a directory grows into blocks that it does not take.
Growth_none(d, slots) == 0

\* The blocks that write_dir_data must allocate for them.
Growth(d, slots) == BlocksFor(slots) - inode[d].nblk

Unlinked(d, n) == [inode[d].slots EXCEPT ![First(Holding(d, n))] = Hole]

\* Mistake: the first slot after the dots is skipped.
is_empty_late(d) == \A k \in 4 .. Len(inode[d].slots) : inode[d].slots[k].ino = NONE

is_empty(d) ==
  \A k \in 1 .. Len(inode[d].slots) :
    inode[d].slots[k].ino # NONE => inode[d].slots[k].name \in {".", ".."}
-----------------------------------------------------------------------------
(* Paths *)

Walk(parts, from) ==
  LET at[k \in 0 .. Len(parts)] ==
        IF k = 0 THEN from
        ELSE IF at[k - 1] = NONE THEN NONE
        ELSE IF inode[at[k - 1]].mode # "dir" THEN NONE
        ELSE lookup(at[k - 1], parts[k])
  IN  at[Len(parts)]

Start(path) == IF path.abs THEN root_ino ELSE cwd_ino

namei(path) == Walk(path.parts, Start(path))

\* The last directory of the walk is not looked at: it may be a file.
namei_parent(path) ==
  IF path.parts = << >> THEN NONE
  ELSE Walk(SubSeq(path.parts, 1, Len(path.parts) - 1), Start(path))

basename(path) == path.parts[Len(path.parts)]

\* The loop looks at HOPS inodes and gives up if all are symbolic links.
namei_follow(path) ==
  LET at[h \in 1 .. HOPS] ==
        IF h = 1 THEN namei(path)
        ELSE IF at[h - 1] # NONE /\ inode[at[h - 1]].mode = "link"
        THEN namei(inode[at[h - 1]].target)
        ELSE at[h - 1]
      last == at[HOPS]
  IN  IF last # NONE /\ inode[last].mode = "link" THEN NONE ELSE last
-----------------------------------------------------------------------------
OpenInodes == {ofile[fd].ino : fd \in Fd} \ {NONE}

Takes(liberty) == liberty \in Liberties

\* A directory, or, for careless callers, a regular file that is still empty
\* (bound: the bytes of a file are not read as slots).
GoodParent(d) ==
  /\ d # NONE
  /\ inode[d].mode # "dir" =>
       Takes("parents") /\ inode[d].mode = "file" /\ inode[d].nblk = 0

\* A new name in d, for an inode made by the call or not.
CanName(path) ==
  /\ GoodParent(namei_parent(path))
  /\ lookup(namei_parent(path), basename(path)) = NONE

Create(path) ==
  /\ CanName(path)
  /\ LET d == namei_parent(path)
     IN  \E i \in free_inodes :
           LET slots == Linked(d, basename(path), i)
           IN  /\ Growth(d, slots) <= free_blocks
               /\ inode' = [inode EXCEPT ![i] = [Blank EXCEPT !.mode = "file", !.nlink = 1],
                                         ![d].slots = slots, ![d].nblk = BlocksFor(slots)]
               /\ free_inodes' = free_inodes \ {i}
               /\ free_blocks' = free_blocks - Growth(d, slots)
  /\ UNCHANGED <<cwd_ino, cwd_path, ofile>>

Symlink(target, path) ==
  /\ CanName(path)
  /\ LET d == namei_parent(path)
     IN  \E i \in free_inodes :
           LET slots == Linked(d, basename(path), i)
           IN  /\ Growth(d, slots) + 1 <= free_blocks
               /\ inode' = [inode EXCEPT ![i] = [Blank EXCEPT !.mode = "link", !.nlink = 1,
                                                              !.nblk = 1, !.target = target],
                                         ![d].slots = slots, ![d].nblk = BlocksFor(slots)]
               /\ free_inodes' = free_inodes \ {i}
               /\ free_blocks' = free_blocks - Growth(d, slots) - 1
  /\ UNCHANGED <<cwd_ino, cwd_path, ofile>>

\* Neither the result of init_dir nor that of link is looked at.
Mkdir(path) ==
  /\ CanName(path)
  /\ LET d == namei_parent(path)
     IN  \E i \in free_inodes :
           LET own == IF free_blocks >= 1 THEN NewDir(Dots(i, d)) ELSE NewDir(<< >>)
               left == free_blocks - own.nblk
               slots == Linked(d, basename(path), i)
               fits == Growth(d, slots) <= left
           IN  /\ (own.slots # << >> /\ fits) \/ Takes("full")
               /\ inode' = IF fits
                           THEN [inode EXCEPT ![i] = own, ![d].slots = slots,
                                              ![d].nblk = BlocksFor(slots)]
                           ELSE [inode EXCEPT ![i] = own]
               /\ free_inodes' = free_inodes \ {i}
               /\ free_blocks' = left - (IF fits THEN Growth(d, slots) ELSE 0)
  /\ UNCHANGED <<cwd_ino, cwd_path, ofile>>

Link(src, path) ==
  /\ namei(src) # NONE
  /\ inode[namei(src)].mode # "dir"
  /\ CanName(path)
  /\ LET i == namei(src)
         d == namei_parent(path)
         slots == Linked(d, basename(path), i)
     IN  /\ Growth(d, slots) <= free_blocks
         /\ inode' = [inode EXCEPT ![i].nlink = @ + 1,
                                   ![d].slots = slots, ![d].nblk = BlocksFor(slots)]
         /\ free_blocks' = free_blocks - Growth(d, slots)
  /\ UNCHANGED <<free_inodes, cwd_ino, cwd_path, ofile>>

\* unlink, and put with its last reference: an inode without links gives back
\* its blocks and its number, whoever has it open.
Remove(d, n, i, links) ==
  /\ inode' = [inode EXCEPT ![d].slots = Unlinked(d, n),
                            ![i] = IF links = 0 THEN Blank ELSE [@ EXCEPT !.nlink = links]]
  /\ free_inodes' = IF links = 0 THEN free_inodes \cup {i} ELSE free_inodes
  /\ free_blocks' = free_blocks + (IF links = 0 THEN inode[i].nblk ELSE 0)
  /\ UNCHANGED <<cwd_ino, cwd_path, ofile>>

\* Mistake: the file goes with any of its names.
Delete_any(path) ==
  LET d == namei_parent(path)
      i == lookup(d, basename(path))
  IN  /\ d # NONE
      /\ i # NONE
      /\ inode[i].mode # "dir"
      /\ i \in OpenInodes /\ inode[i].nlink = 1 => Takes("open")
      /\ Remove(d, basename(path), i, 0)

Delete(path) ==
  LET d == namei_parent(path)
      i == lookup(d, basename(path))
  IN  /\ d # NONE
      /\ i # NONE
      /\ inode[i].mode # "dir"
      /\ i \in OpenInodes /\ inode[i].nlink = 1 => Takes("open")
      /\ Remove(d, basename(path), i, inode[i].nlink - 1)

\* Mistake: rmdir takes a file for an empty directory.
Rmdir_file(path) ==
  LET d == namei_parent(path)
      i == lookup(d, basename(path))
  IN  /\ d # NONE
      /\ i # NONE
      /\ is_empty(i)
      /\ i = cwd_ino => Takes("cwd")
      /\ basename(path) \in {".", ".."} => Takes("dots")
      /\ Remove(d, basename(path), i, 0)

Rmdir(path) ==
  LET d == namei_parent(path)
      i == lookup(d, basename(path))
  IN  /\ d # NONE
      /\ i # NONE
      /\ inode[i].mode = "dir"
      /\ is_empty(i)
      /\ i = cwd_ino => Takes("cwd")
      /\ basename(path) \in {".", ".."} => Takes("dots")
      /\ Remove(d, basename(path), i, 0)
-----------------------------------------------------------------------------
\* The parts of a relative path go on the end of cwd_path, where ".." takes the
\* last part off; those of an absolute path are taken as they are.
PathAfter(path) ==
  LET at[k \in 0 .. Len(path.parts)] ==
        IF k = 0 THEN cwd_path
        ELSE CASE path.parts[k] = "." -> at[k - 1]
               [] path.parts[k] = ".." ->
                    SubSeq(at[k - 1], 1, Len(at[k - 1]) - 1)
               [] OTHER -> Append(at[k - 1], path.parts[k])
  IN  IF path.abs THEN path.parts ELSE at[Len(path.parts)]

Chdir(path) ==
  /\ namei_follow(path) # NONE
  /\ inode[namei_follow(path)].mode = "dir"
  /\ Len(PathAfter(path)) <= MaxPath
  /\ cwd_ino' = namei_follow(path)
  /\ cwd_path' = PathAfter(path)
  /\ UNCHANGED <<inode, free_inodes, free_blocks, ofile>>

FreeFds == {fd \in Fd : ofile[fd] = NoFile}

\* The file is truncated before a descriptor is looked for.
Open(path, flags) ==
  LET i == namei_follow(path)
  IN  /\ i # NONE
      /\ inode[i].mode # "dir"
      /\ IF "TRUNC" \in flags /\ inode[i].mode = "file"
         THEN /\ inode' = [inode EXCEPT ![i].nblk = 0]
              /\ free_blocks' = free_blocks + inode[i].nblk
         ELSE UNCHANGED <<inode, free_blocks>>
      /\ ofile' = IF FreeFds = {} THEN ofile
                  ELSE [ofile EXCEPT ![First(FreeFds)] = [ino |-> i, flags |-> flags]]
      /\ UNCHANGED <<free_inodes, cwd_ino, cwd_path>>

Close(fd) ==
  /\ ofile[fd] # NoFile
  /\ ofile' = [ofile EXCEPT ![fd] = NoFile]
  /\ UNCHANGED <<inode, free_inodes, free_blocks, cwd_ino, cwd_path>>

\* A write takes as many blocks as it needs and finds.
Write(fd, blocks) ==
  LET i == ofile[fd].ino
  IN  /\ ofile[fd].flags \cap {"WRITE", "APPEND"} # {}
      /\ blocks <= free_blocks
      /\ inode[i].nblk + blocks <= MaxFileBlks
      /\ inode' = [inode EXCEPT ![i].nblk = @ + blocks]
      /\ free_blocks' = free_blocks - blocks
      /\ UNCHANGED <<free_inodes, cwd_ino, cwd_path, ofile>>

\* The tables of the volume are made anew; the descriptors stay.
Format ==
  /\ OpenInodes # {} => Takes("format")
  /\ inode' = Formatted
  /\ free_inodes' = Ino \ {root_ino, etc_ino, home_ino}
  /\ free_blocks' = DATA_BLKS - FormattedBlocks
  /\ cwd_ino' = root_ino
  /\ cwd_path' = << >>
  /\ UNCHANGED ofile

\* Mistake: the path of the current directory is not reset.
Remount_path ==
  /\ cwd_ino' = root_ino
  /\ UNCHANGED <<inode, free_inodes, free_blocks, cwd_path, ofile>>

\* Unmounted and mounted again, as F2 does twice: the super block goes to the
\* disk and comes back.
Remount ==
  /\ cwd_ino' = root_ino
  /\ cwd_path' = << >>
  /\ UNCHANGED <<inode, free_inodes, free_blocks, ofile>>

Next ==
  \/ \E path \in Paths :
       \/ Create(path)
       \/ Mkdir(path)
       \/ Delete(path)
       \/ Rmdir(path)
       \/ Chdir(path)
       \/ \E target \in Targets : Symlink(target, path)
       \/ \E src \in Paths : Link(src, path)
       \/ \E flags \in Flags : Open(path, flags)
  \/ \E fd \in Fd : Close(fd) \/ \E blocks \in 1 .. MaxFileBlks : Write(fd, blocks)
  \/ Format
  \/ Remount

Spec == Init /\ [][Next]_vars
-----------------------------------------------------------------------------
InUse == {i \in Ino : inode[i].mode # "none"}
Dirs == {i \in Ino : inode[i].mode = "dir"}

\* The slots of the directories that carry a name, and what they name.
NameSlots ==
  UNION {{d} \X {k \in 1 .. Len(inode[d].slots) :
                  /\ inode[d].slots[k].ino # NONE
                  /\ inode[d].slots[k].name \notin {".", ".."}} : d \in Dirs}
NamedBy(s) == inode[s[1]].slots[s[2]].ino
NameAt(s) == inode[s[1]].slots[s[2]].name

\* Every name leads to an inode in use, and the links of a file are its names:
\* a file lives for exactly as long as it has one.
LinkCounts ==
  /\ \A s \in NameSlots : NamedBy(s) \in InUse
  /\ \A i \in InUse \ {root_ino} :
       /\ inode[i].nlink > 0
       /\ Cardinality({s \in NameSlots : NamedBy(s) = i}) = inode[i].nlink

\* The directories are a tree: each but the root has one name, in the directory
\* its ".." leads to, and so on up to the root.
DirectoryTree ==
  \A d \in Dirs :
    LET up[k \in 0 .. Cardinality(Ino)] ==
          IF k = 0 THEN d ELSE IF up[k - 1] \in Dirs THEN lookup(up[k - 1], "..") ELSE NONE
    IN  /\ lookup(d, ".") = d
        /\ d # root_ino => \E s \in NameSlots : NamedBy(s) = d /\ s[1] = lookup(d, "..")
        /\ up[Cardinality(Ino)] = root_ino

BlocksUsed ==
  LET sum[S \in SUBSET Ino] ==
        IF S = {} THEN 0
        ELSE LET i == CHOOSE i \in S : TRUE IN inode[i].nblk + sum[S \ {i}]
  IN  sum[Ino]

\* Every inode number and every block is free or in use, whatever failed on the way.
NothingLost ==
  /\ free_inodes = Ino \ InUse
  /\ free_blocks + BlocksUsed = DATA_BLKS

\* A descriptor leads to a file that exists.
OpenFilesLive == \A i \in OpenInodes : inode[i].mode = "file"

\* The current directory exists, and what pwd prints leads to it.
PwdNamesCwd ==
  /\ inode[cwd_ino].mode = "dir"
  /\ namei_follow([abs |-> TRUE, parts |-> cwd_path]) = cwd_ino

Tree == INSTANCE Hierarchy WITH
  Node <- Ino, root <- root_ino, dir <- "dir", Kind <- {"file", "dir", "link"},
  names <- [p \in {<<s[1], NameAt(s)>> : s \in NameSlots} |-> lookup(p[1], p[2])],
  kind <- [i \in InUse |-> inode[i].mode]

\* Link counts and slots implement names and the nodes they name.
ImplementsTree == Tree!Spec
=============================================================================
