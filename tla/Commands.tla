------------------------------ MODULE Commands ------------------------------
(***************************************************************************)
(* The commands of src/main.cpp that make several calls of the engine: cp, *)
(* mv, mkdir -p, touch and rm, with fs_delete_recursive behind rm -r.  One *)
(* step is one call of the engine.  Some calls end in a sync(), which      *)
(* empties the image on the host and writes it anew, and some do not, as   *)
(* the open, write and close that a user types between commands.  At any   *)
(* point, also in the middle of a save, the program may be killed; the     *)
(* next one starts from the image, or formats where there is none.         *)
(*                                                                         *)
(* Of the engine there is what these commands rely on: names, hard and     *)
(* symbolic links, the contents of files as blocks, the blocks of          *)
(* directories and links, a disk that fills up and descriptors that run    *)
(* out.  UnixFs and FileData have the rest.                                *)
(***************************************************************************)
EXTENDS Integers, Sequences, FiniteSets, SequencesExt

CONSTANTS
  Name,      \* names in directories
  Path,      \* the paths of commands, from the root
  Args,      \* what touch and rm are given
  Block,     \* what a block of a file may hold
  INODES,    \* inodes, the root among them
  BLOCKS,    \* blocks of files, directories and symbolic links
  DIR_ENTRIES_PER_BLK,  \* slots in a block of a directory (32)
  LENGTH,    \* blocks of the longest file that users write
  NOFILE,    \* descriptors
  HOPS,      \* symbolic links that one open follows (16)
  Liberties  \* what callers do beyond what the commands are ready for: "self"
             \* copies a file onto itself, "full" copies what the disk has no
             \* room for, "locked" moves a file out of a directory that may
             \* not be written

ASSUME CommandsAssumption ==
  /\ IsFiniteSet(Name)
  /\ Path \subseteq Seq(Name) \ {<< >>}
  /\ Args \subseteq Seq(Path) \ {<< >>}
  /\ {INODES, BLOCKS, LENGTH, NOFILE, HOPS} \subseteq Nat \ {0}
  /\ DIR_ENTRIES_PER_BLK \in Nat /\ DIR_ENTRIES_PER_BLK >= 2

VARIABLES
  fs,    \* the volume: its entries <<directory, name>> |-> inode, its inodes,
         \* the blocks of those that are directories or links, the slots that
         \* are free in those blocks, and the directories that the user may
         \* not write
  host,  \* {the volume in the image}, {} while a save rewrites it
  fds,   \* the number of descriptors in use
  held,  \* the inodes that those of them lead to that the user opened
  cmd    \* the command that runs

commands_vars == <<fs, host, fds, held, cmd>>

Ino == 0 .. INODES - 1
root == 0
NONE == -1

Free == [kind |-> "free", data |-> << >>, target |-> << >>]
Dir == [Free EXCEPT !.kind = "dir"]
File == [Free EXCEPT !.kind = "file"]
Link(p) == [Free EXCEPT !.kind = "link", !.target = p]

\* ---- The engine ----

\* namei does not follow links.
namei(f, p) ==
  LET walk[k \in 0 .. Len(p)] ==
        IF k = 0 THEN root
        ELSE IF <<walk[k - 1], p[k]>> \in DOMAIN f.entry THEN f.entry[<<walk[k - 1], p[k]>>]
        ELSE NONE
  IN  walk[Len(p)]

kind(f, i) == IF i = NONE THEN "none" ELSE f.inode[i].kind

namei_follow(f, p) ==
  LET hop[k \in 0 .. HOPS] ==
        IF k = 0 THEN namei(f, p)
        ELSE IF kind(f, hop[k - 1]) = "link" THEN namei(f, f.inode[hop[k - 1]].target)
        ELSE hop[k - 1]
  IN  IF kind(f, hop[HOPS]) = "link" THEN NONE ELSE hop[HOPS]

\* The contents of the file that a path leads to, if it leads to one.
Content(f, p) ==
  {f.inode[i].data : i \in {j \in Ino : j = namei_follow(f, p) /\ kind(f, j) = "file"}}

Children(f, p) == {n \in Name : <<namei(f, p), n>> \in DOMAIN f.entry}

Room(f) ==
  LET used[k \in 0 .. INODES] ==
        IF k = 0 THEN 0
        ELSE used[k - 1] + Len(f.inode[k - 1].data) + f.blks[k - 1]
  IN  BLOCKS - used[INODES]

\* There is no entry at p yet; one can be made there, and one can be taken out.
IsVacant(f, p) == kind(f, namei(f, Front(p))) = "dir" /\ namei(f, p) = NONE

CanEnter(f, p) == IsVacant(f, p) /\ namei(f, Front(p)) \notin f.locked

CanRemove(f, p) == namei(f, p) # NONE /\ namei(f, Front(p)) \notin f.locked

\* DirectoryManager::link finds a slot, or a block for another one.
HasSlot(f, p) == f.spare[namei(f, Front(p))] > 0 \/ Room(f) > 0

Enter(f, p, i) ==
  LET d == namei(f, Front(p))
      e == <<d, Last(p)>>
      entered == [f EXCEPT !.entry = [x \in DOMAIN @ \cup {e} |-> IF x = e THEN i ELSE @[x]]]
  IN  IF f.spare[d] > 0 THEN [entered EXCEPT !.spare[d] = @ - 1]
      ELSE [entered EXCEPT !.blks[d] = @ + 1, !.spare[d] = DIR_ENTRIES_PER_BLK - 1]

\* The new inode: a link has its target in a block, and init_dir writes the dots
\* of a directory into one, if there is one.
Allot(f, i, node) ==
  LET dots == node.kind = "dir" /\ Room(f) > 0
  IN  [f EXCEPT !.inode[i] = node,
                !.blks[i] = IF dots \/ node.kind = "link" THEN 1 ELSE 0,
                !.spare[i] = IF dots THEN DIR_ENTRIES_PER_BLK - 2 ELSE 0]

\* fs_create, fs_mkdir and fs_symlink, if there is an inode left.  Without a slot
\* for its name a file or link is given up; fs_mkdir does not look, and leaves a
\* directory without a name.
Make(f, p, node) ==
  LET free == {i \in Ino : kind(f, i) = "free"}
  IN  IF ~CanEnter(f, p) \/ free = {} \/ (node.kind = "link" /\ Room(f) = 0) THEN f
      ELSE LET i == CHOOSE j \in free : \A k \in free : j <= k
               made == Allot(f, i, node)
           IN  IF HasSlot(made, p) THEN Enter(made, p, i)
               ELSE IF node.kind = "dir" THEN made ELSE f

\* The entry goes, and the inode with the last of its names.
Unlink(f, p) ==
  LET d == namei(f, Front(p))
      e == <<d, Last(p)>>
      i == f.entry[e]
      rest == [x \in DOMAIN f.entry \ {e} |-> f.entry[x]]
      unlinked == [f EXCEPT !.entry = rest, !.spare[d] = @ + 1]
  IN  IF \E x \in DOMAIN rest : rest[x] = i THEN unlinked
      ELSE [unlinked EXCEPT !.inode[i] = Free, !.blks[i] = 0, !.spare[i] = 0,
                            !.locked = @ \ {i}]

fs_delete(f, p) ==
  IF CanRemove(f, p) /\ kind(f, namei(f, p)) # "dir" THEN Unlink(f, p) ELSE f

fs_rmdir(f, p) ==
  IF CanRemove(f, p) /\ kind(f, namei(f, p)) = "dir" /\ Children(f, p) = {}
  THEN Unlink(f, p) ELSE f

\* fs_write of one block; a block that there is no room for is left out.
fs_write(f, i, pos, b) ==
  IF pos < Len(f.inode[i].data) THEN [f EXCEPT !.inode[i].data[pos + 1] = b]
  ELSE IF Room(f) > 0 THEN [f EXCEPT !.inode[i].data = Append(@, b)]
  ELSE f

\* O_TRUNC.
Emptied(f, p) ==
  LET i == namei_follow(f, p)
  IN  IF kind(f, i) = "file" THEN [f EXCEPT !.inode[i].data = << >>] ELSE f

\* sync, as far as the fopen of save_to_file, which empties the image.
sync == host' = {}

\* Calls that change something end in a sync.
Synced == IF fs' = fs THEN UNCHANGED host ELSE sync
-----------------------------------------------------------------------------
Idle == [op |-> "idle", pc |-> "idle"]

\* The command returns rc; its outcome stands until the prompt is back.
Done(rc) == cmd' = [cmd EXCEPT !.pc = "done", !.rc = rc]

FreshVolume ==
  [entry |-> [e \in {} |-> root],
   inode |-> [i \in Ino |-> IF i = root THEN Dir ELSE Free],
   blks |-> [i \in Ino |-> IF i = root THEN 1 ELSE 0],
   spare |-> [i \in Ino |-> IF i = root THEN DIR_ENTRIES_PER_BLK - 2 ELSE 0],
   locked |-> {}]

CommandsInit ==
  /\ fs = FreshVolume /\ host = {}
  /\ fds = 0 /\ held = {} /\ cmd = Idle

\* The parts before the last of a path are directories, as far as they are there.
Sound(p) ==
  \A k \in 1 .. Len(p) - 1 : kind(fs, namei(fs, SubSeq(p, 1, k))) \in {"none", "dir"}

\* ---- Other commands, from the prompt ----

\* fs_link does not ask for the right to write the directory.
ln(p, q) ==
  /\ Sound(p) /\ Sound(q) /\ IsVacant(fs, q) /\ HasSlot(fs, q)
  /\ kind(fs, namei(fs, p)) \in {"file", "link"}
  /\ fs' = Enter(fs, q, namei(fs, p)) /\ sync
  /\ UNCHANGED <<fds, held, cmd>>

ln_s(p, q) ==
  /\ Sound(q)
  /\ fs' = Make(fs, q, Link(p)) /\ Synced
  /\ UNCHANGED <<fds, held, cmd>>

\* Its owner takes the right to write a directory away, or gives it back.
chmod(p) ==
  /\ kind(fs, namei(fs, p)) = "dir"
  /\ fs' = [fs EXCEPT !.locked = IF namei(fs, p) \in @ THEN @ \ {namei(fs, p)}
                                 ELSE @ \cup {namei(fs, p)}]
  /\ sync
  /\ UNCHANGED <<fds, held, cmd>>

\* open f w empties the file before it asks for a descriptor, and saves nothing;
\* with r, rw and a the file stays as it is.  Users open a file once at a time.
open(p, w) ==
  LET i == namei_follow(fs, p)
  IN  /\ Sound(p) /\ kind(fs, i) = "file" /\ i \notin held
      /\ fs' = IF w THEN Emptied(fs, p) ELSE fs
      /\ IF fds < NOFILE THEN fds' = fds + 1 /\ held' = held \cup {i}
         ELSE UNCHANGED <<fds, held>>
      /\ UNCHANGED <<host, cmd>>

\* A block at a time, without a sync, wherever in the file the descriptor stands.
\* The file may have been removed, and its inode be another file's by now.
write(i, pos, b) ==
  /\ kind(fs, i) = "file" /\ pos <= Len(fs.inode[i].data)
  /\ fs' = fs_write(fs, i, pos, b)
  /\ UNCHANGED <<host, fds, held, cmd>>

close(i) ==
  /\ fds' = fds - 1 /\ held' = held \ {i} /\ sync
  /\ UNCHANGED <<fs, cmd>>

\* ---- The commands ----

\* What the source has in it when cp or mv starts, in memory and on the host,
\* whether it is in the way of the copy, and whether it fits next to the name of
\* the copy.
Begin_copy(op, p, q) ==
  /\ Sound(p) /\ Sound(q)
  /\ (namei_follow(fs, p) # NONE /\ namei_follow(fs, p) = namei_follow(fs, q))
       => "self" \in Liberties
  /\ (\E c \in Content(fs, p) : Len(c) > Room(Emptied(Make(fs, q, File), q)))
       => "full" \in Liberties
  /\ (op = "mv" /\ namei(fs, Front(p)) \in fs.locked) => "locked" \in Liberties
  /\ cmd' = [op |-> op, pc |-> "source", src |-> p, dst |-> q, want |-> Content(fs, p),
             saved |-> {Content(f, p) : f \in host}, s |-> NONE, d |-> NONE, rpos |-> 0, wpos |-> 0, rc |-> 0]

Begin_list(op, ps) ==
  /\ \A i \in DOMAIN ps : Sound(ps[i])
  /\ cmd' = [op |-> op, pc |-> "list", args |-> ps, rest |-> ps, todo |-> << >>, rc |-> 0]

Prompt ==
  /\ cmd = Idle
  /\ \/ \E p, q \in Path : p # q /\ (ln(p, q) \/ ln_s(p, q))
     \/ \E p \in Path : chmod(p)
     \/ \E p \in Path, w \in BOOLEAN : open(p, w)
     \/ \E i \in held, pos \in 0 .. LENGTH - 1, b \in Block : write(i, pos, b)
     \/ \E i \in held : close(i)
     \/ /\ \/ \E op \in {"cp", "mv"}, p, q \in Path : Begin_copy(op, p, q)
           \/ \E op \in {"touch", "rm", "rm_r"}, ps \in Args : Begin_list(op, ps)
           \/ \E op \in {"mkdir", "mkdir_p"}, p \in Path : Begin_list(op, <<p>>)
        /\ UNCHANGED <<fs, host, fds, held>>

\* fs_stat (mv) and fs_open of the source.
OpenSource ==
  /\ cmd.pc = "source"
  /\ LET i == namei_follow(fs, cmd.src)
     IN  IF kind(fs, i) = "file" /\ fds < NOFILE
         THEN /\ fds' = fds + 1
              /\ cmd' = [cmd EXCEPT !.pc = "create", !.s = i]
         ELSE Done(-1) /\ UNCHANGED fds
  /\ UNCHANGED <<fs, host, held>>

\* fs_create of the destination, which may be there.
CreateDest ==
  /\ cmd.pc = "create"
  /\ fs' = Make(fs, cmd.dst, File) /\ Synced
  /\ cmd' = [cmd EXCEPT !.pc = "dest"]
  /\ UNCHANGED <<fds, held>>

\* Mistake: without O_TRUNC.
OpenDest_append ==
  /\ cmd.pc = "dest"
  /\ LET i == namei_follow(fs, cmd.dst)
     IN  IF kind(fs, i) = "file" /\ fds < NOFILE
         THEN /\ fds' = fds + 1
              /\ cmd' = [cmd EXCEPT !.pc = "copy", !.d = i]
              /\ UNCHANGED host
         ELSE Done(-1) /\ fds' = fds - 1 /\ sync
  /\ UNCHANGED <<fs, held>>

\* Mistake: the source is not closed.
OpenDest_leaks ==
  /\ cmd.pc = "dest"
  /\ LET i == namei_follow(fs, cmd.dst)
     IN  /\ fs' = Emptied(fs, cmd.dst)
         /\ IF kind(fs, i) = "file" /\ fds < NOFILE
            THEN fds' = fds + 1 /\ cmd' = [cmd EXCEPT !.pc = "copy", !.d = i]
            ELSE Done(-1) /\ UNCHANGED fds
  /\ UNCHANGED <<host, held>>

\* fs_open with O_TRUNC: the destination is emptied, without a sync, and then a
\* descriptor is asked for.  If there is none, the source is closed.
OpenDest ==
  /\ cmd.pc = "dest"
  /\ LET i == namei_follow(fs, cmd.dst)
     IN  /\ fs' = Emptied(fs, cmd.dst)
         /\ IF kind(fs, i) = "file" /\ fds < NOFILE
            THEN /\ fds' = fds + 1
                 /\ cmd' = [cmd EXCEPT !.pc = "copy", !.d = i]
                 /\ UNCHANGED host
            ELSE Done(-1) /\ fds' = fds - 1 /\ sync
  /\ UNCHANGED held

\* Mistake: if in the place of while.
Copy_once ==
  /\ cmd.pc = "copy"
  /\ LET data == fs.inode[cmd.s].data
     IN  IF data = << >>
         THEN cmd' = [cmd EXCEPT !.pc = "close"] /\ UNCHANGED fs
         ELSE /\ fs' = fs_write(fs, cmd.d, 0, data[1])
              /\ cmd' = [cmd EXCEPT !.pc = "close"]
  /\ UNCHANGED <<host, fds, held>>

\* One round of the loop: a read and a write, whose result is not looked at.
Copy ==
  /\ cmd.pc = "copy"
  /\ LET data == fs.inode[cmd.s].data
     IN  IF cmd.rpos >= Len(data)
         THEN cmd' = [cmd EXCEPT !.pc = "close"] /\ UNCHANGED fs
         ELSE /\ fs' = fs_write(fs, cmd.d, cmd.wpos, data[cmd.rpos + 1])
              /\ cmd' = [cmd EXCEPT !.rpos = @ + 1,
                                    !.wpos = IF @ < Len(fs'.inode[cmd.d].data)
                                             THEN @ + 1 ELSE @]
  /\ UNCHANGED <<host, fds, held>>

\* The two closes.
CloseBoth ==
  /\ cmd.pc = "close"
  /\ fds' = fds - 2 /\ sync
  /\ IF cmd.op = "mv" THEN cmd' = [cmd EXCEPT !.pc = "delete"] ELSE Done(0)
  /\ UNCHANGED <<fs, held>>

\* fs_delete of the source, whose result is not looked at.
DeleteSource ==
  /\ cmd.pc = "delete"
  /\ fs' = fs_delete(fs, cmd.src) /\ Synced
  /\ Done(0)
  /\ UNCHANGED <<fds, held>>
-----------------------------------------------------------------------------
\* What is to be done for one argument, in order.  mkdir -p makes all directories
\* on the way, whether that fails or not.
Item(what, p, must) == [what |-> what, path |-> p, must |-> must]

Items(op, p) ==
  IF op = "mkdir_p"
  THEN [k \in 1 .. Len(p) |-> Item("mkdir", SubSeq(p, 1, k), FALSE)] \o <<Item("stat", p, TRUE)>>
  ELSE <<Item(op, p, TRUE)>>

\* The next argument.
NextArg ==
  /\ cmd.pc = "list" /\ cmd.todo = << >>
  /\ IF cmd.rest = << >> THEN Done(cmd.rc)
     ELSE cmd' = [cmd EXCEPT !.todo = Items(cmd.op, Head(cmd.rest)), !.rest = Tail(@)]
  /\ UNCHANGED <<fs, host, fds, held>>

\* Mistake: the last argument makes the result.
Outcome_last(ok, item) ==
  cmd' = IF ok \/ ~item.must THEN [cmd EXCEPT !.todo = Tail(@), !.rc = 0]
         ELSE [cmd EXCEPT !.todo = << >>, !.rc = -1]

\* A failure ends what is done for the argument, and the others go on.
Outcome(ok, item) ==
  cmd' = IF ok \/ ~item.must THEN [cmd EXCEPT !.todo = Tail(@)]
         ELSE [cmd EXCEPT !.todo = << >>, !.rc = -1]

\* A call of the engine that changes the volume, or fails.
Call(f, item) == fs' = f /\ Synced /\ Outcome(f # fs, item)

\* Mistake: without the path of the directory.
ChildPath_name(p, n) == <<n>>

ChildPath(p, n) == Append(p, n)

\* fs_delete_recursive of a directory: its children in the order of their slots,
\* as they are listed now, and then the directory.
Descend(p) ==
  /\ \E order \in SetToSeqs(Children(fs, p)) :
       cmd' = [cmd EXCEPT !.todo =
                 [k \in DOMAIN order |-> Item("rm_r", ChildPath(p, order[k]), TRUE)]
                   \o <<Item("rmdir", p, TRUE)>> \o Tail(@)]
  /\ UNCHANGED <<fs, host>>

DoItem ==
  /\ cmd.pc = "list" /\ cmd.todo # << >>
  /\ LET item == Head(cmd.todo)
         p == item.path
         isdir == kind(fs, namei(fs, p)) = "dir"
     IN  \/ item.what = "touch" /\ Call(Make(fs, p, File), item)
         \/ item.what = "mkdir" /\ Call(Make(fs, p, Dir), item)
         \/ item.what = "rm" /\ Call(fs_delete(fs, p), item)
         \/ item.what = "rm_r" /\ ~isdir /\ Call(fs_delete(fs, p), item)
         \/ item.what = "rm_r" /\ isdir /\ Descend(p)
         \/ item.what = "rmdir" /\ Call(fs_rmdir(fs, p), item)
         \/ /\ item.what = "stat" /\ Outcome(namei(fs, p) # NONE, item)
            /\ UNCHANGED <<fs, host>>
  /\ UNCHANGED <<fds, held>>

\* Back to the prompt.
Return ==
  /\ cmd.pc = "done"
  /\ cmd' = Idle
  /\ UNCHANGED <<fs, host, fds, held>>

Program ==
  \/ OpenSource \/ CreateDest \/ OpenDest \/ Copy \/ CloseBoth \/ DeleteSource
  \/ NextArg \/ DoItem
  \/ Return

\* save_to_file goes on.  (Durability also has the host that cuts it short.)
save_to_file ==
  /\ host = {} /\ host' = {fs}
  /\ UNCHANGED <<fs, fds, held, cmd>>

\* The program is killed at any point, and started again; the next one formats
\* when a save was not at its end.
Crash ==
  /\ \/ fs' \in host
     \/ host = {} /\ fs' = FreshVolume
  /\ fds' = 0 /\ held' = {} /\ cmd' = Idle
  /\ UNCHANGED host

CommandsNext ==
  \/ host # {} /\ (Prompt \/ Program)
  \/ save_to_file
  \/ Crash

CommandsSpec == CommandsInit /\ [][CommandsNext]_commands_vars
-----------------------------------------------------------------------------
Copying == cmd.op \in {"cp", "mv"} /\ cmd.pc # "source" /\ cmd.want # {}

\* In the middle of a cp or mv, what the source had in it is whole in the source
\* or, after the copy, in the destination, in memory as in every image that is
\* whole: there the source may also be as it was saved last, but no image has a
\* part of either.
CopyKeepsData ==
  Copying =>
    LET moved(f) == cmd.op = "mv" /\ Content(f, cmd.dst) = cmd.want
    IN  /\ Content(fs, cmd.src) = cmd.want \/ moved(fs)
        /\ \A f \in host : Content(f, cmd.src) \in cmd.saved \cup {cmd.want} \/ moved(f)

\* "Copied." and "Moved." mean that the destination is what the source was, to
\* the last block and no longer, and that a source that was moved is gone, in
\* memory and in the image.
CopyExact ==
  (cmd.pc = "done" /\ cmd.op \in {"cp", "mv"} /\ cmd.rc = 0) =>
    \A f \in {fs} \cup host :
      /\ Content(f, cmd.dst) = cmd.want
      /\ cmd.op = "mv" => namei(f, cmd.src) = NONE

\* Success of a command with several arguments means that it was done for each
\* of them, whatever failed on the way, and that the image has it.  The exception
\* is mkdir without -p, when no block is left.
DoneForAll ==
  (cmd.pc = "done" /\ cmd.op \notin {"cp", "mv"} /\ cmd.rc = 0) =>
    \/ cmd.op = "mkdir" /\ Room(fs) <= 0
    \/ \A i \in DOMAIN cmd.args, f \in {fs} \cup host :
         (namei(f, cmd.args[i]) = NONE) <=> (cmd.op \in {"rm", "rm_r"})

\* A volume but for what is in its files.
NamesOf(f) == [f EXCEPT !.inode = [i \in Ino |-> [@[i] EXCEPT !.data = << >>]]]

\* A command that is over holds no descriptor, on whatever way it ended, and all
\* that the image may lack is what was written into files.
NothingLeftOpen ==
  (cmd.pc \in {"idle", "done"}) =>
    /\ fds = Cardinality(held)
    /\ \A f \in host : NamesOf(f) = NamesOf(fs)

\* The entries that the command may touch.
Targets ==
  CASE cmd.op = "cp" -> {cmd.dst}
    [] cmd.op = "mv" -> {cmd.src, cmd.dst}
    [] cmd.op = "idle" -> {}
    [] OTHER -> {cmd.args[i] : i \in DOMAIN cmd.args}

\* No command touches a name that is not its target, or on the way to it (mkdir
\* -p) or under it (rm -r), nor the contents of another file: what a symbolic
\* link leads to survives an rm -r, what has a second name survives an mv.
OnlyTargets ==
  [][cmd # Idle /\ cmd' # Idle /\ fs' # fs =>
       /\ \A p \in Path :
            namei(fs, p) # namei(fs', p) =>
              \E t \in Targets :
                p = t \/ (cmd.op = "mkdir_p" /\ IsPrefix(p, t))
                      \/ (cmd.op = "rm_r" /\ IsPrefix(t, p))
       /\ \A p \in Path :
            (Content(fs, p) # Content(fs', p) /\ {} \notin {Content(fs, p), Content(fs', p)})
              => cmd.op \in {"cp", "mv"} /\ namei_follow(fs, p) = namei_follow(fs, cmd.dst)]_commands_vars
=============================================================================
