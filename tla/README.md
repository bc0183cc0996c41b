# PseudoFS in TLA+

PseudoFS simulates a multi-user file system inside one file of the host. It has
two engines behind one interface, a UNIX engine (inodes, grouped free blocks, mixed
index) and a FAT16 engine, with a shell and a text interface on top. This directory
holds specifications of it, the TLC runs that check them on small instances, and
proofs that TLAPS checks for every size.

The parts: [inventory](#inventory), [modules](#modules), [runs](#runs),
[proofs](#proofs), [where code and comments differ](#where-code-and-comments-differ),
[what is left out](#what-is-left-out), [plan](#plan).

To check a run: `tlc -workers 2 -config UnixFs.cfg MCUnixFs.tla`. To check the proofs
of a module: `tlapm FreeBlocks_proofs.tla`.

## Inventory

The program is single-threaded. Its hard behaviours come not from threads but from
long sequences of legal calls, from calls that fail half-way on a full disk, from state
that is kept twice, from kills and restarts, and from a terminal that sends lines and
Ctrl+C whenever it likes.

| Part | State | Operations | Correct when |
|---|---|---|---|
| Free block list, `src/fs/unix/super_block.cpp` | `s_free`, `s_nfree`, the groups in the free blocks themselves, `s_free_total` | `format`, `balloc`, `bfree`, `collect_free_blocks` | every block is free once or held by one holder; what holders write never reaches the list |
| Free inode stack, same file | `s_inode`, `s_ninode`, `s_rinode`, `s_inode_total` | `format`, `ialloc`, `ifree` | no number is handed out twice, none is lost |
| Inode manager, `src/fs/unix/inode.cpp` | cache of 64 `MemINode`s with `i_count`, the inodes on disk | `get`, `put`, `alloc`, `bmap`, `bmap_alloc`, `truncate`, `write_back` | a block is under one entry of one file or free; an inode lives as long as it has a name |
| Directory manager, `src/fs/unix/directory.cpp` | 16-byte slots in the data of directories | `lookup`, `link`, `unlink`, `init_dir`, `is_empty`, `namei`, `namei_parent` | a directory has a name once; directories form a tree |
| UNIX engine, `src/fs/unix/unix_fs.cpp` | `cwd_ino_`, `cwd_path_`, user, the managers above | the calls of the VFS interface | link counts are exact, nothing leaks, the two forms of the current directory agree |
| FAT16 engine, `src/fs/fat16/fat16_fs.cpp` | `fat_`, directory entries, `cwd_cluster_`, `cwd_path_`, `open_parent_` | the calls of the VFS interface | every cluster is free or in one chain; sizes fit the chains and stand in the right entry |
| Open file table, `src/core/open_file_table.cpp` | user tables, the system table with `f_count` | `alloc_fd`, `free_fd`, offsets and flags, `close_all` | a descriptor has an entry of its own until it is closed |
| Block device, `src/core/block_device.cpp` | the image in memory and its file | `read_block`, `write_block`, `zero_all`, load and save | an image that is whole is the volume at one moment |
| User manager, `src/core/user_manager.cpp` | users, the current user, their file | login, logout, su, add, passwd, load and save | rights are those of who is logged in |
| Command registry, `src/shell/command_registry.cpp` | the commands, the operation log and its file, `suppress_log_` | execute, record, replay, patterns | a command runs as it was typed; the log builds up again what was done |
| Commands and start-up, `src/main.cpp` | the input buffer, the prompt loop, the engine in use | `read_line`, the pager, 33 commands, each one or more calls of an engine, start and exit | a line runs once and whole; cp and mv leave the source or the copy; rm -r takes its target only |
| Text interface, `src/tui/tui.cpp` | panels, F2 switch of engines | keys and display | shows the state of the engine |

How they interact. A command calls the active engine through `IFileSystem`. The UNIX
engine resolves a path with the directory manager, which gets inodes from the inode
manager, which asks the super block for inode numbers and blocks; every call puts back
what it got before it returns, so nothing is in the inode cache between two calls.
Both engines use the same open file table. A call that changes names ends with `sync`,
which writes super block and image to the host file; a write of data does not. Login,
su and logout set the user of the active engine.

What is hard there, with its line, is the list of hazards in `PROJECT.json`: the chain of
free groups after an allocation that was refused; the indirect blocks of an allocation
that stopped half-way; names reused in holes; deleted FAT entries that still show
their first cluster; a file removed while open; a path of the current directory edited
as text beside the inode it should lead to; one system table for the descriptors of
all users; restarts with an old super block or half an image; commands of several calls, one of
which fails; a replay that runs what it must not record; lines that come in parts.

## Modules

| Module | Models | Implements |
|---|---|---|
| `BlockPool` | what `balloc` and `bfree` promise: blocks that belong to their holder | |
| `FreeBlocks` | the groups of free blocks, in memory and on disk | `BlockPool` |
| `FreeInodes` | the stack of free inodes | |
| `FdTable` | what the open file table promises: a map of descriptors per user | |
| `OpenFileTable` | the user tables and the system table | `FdTable` |
| `Hierarchy` | a tree of directories with hard links: names and nodes | |
| `UnixFs` | names, inodes, descriptors and the current directory of the UNIX engine | `Hierarchy` |
| `FileBytes` | files as sequences of words | |
| `FileData` | the mixed index, read, write, truncate of the UNIX engine | `FileBytes` |
| `Fat16` | the FAT16 engine | `Hierarchy` and `FileBytes` |
| `Durability` (on `FreeInodes`) | the super block in memory, the simulated disk, its image, kills, restarts, F2 | |
| `CliInput` | the terminal or pipe, `read_char`, `read_line`, the prompt and the pager | |
| `Shell` | accounts, the session, `execute`, the operation log, replay, patterns, the start | |
| `Commands` | cp, mv, mkdir, mkdir -p, touch, rm, rm -r, one call of the engine at a time, between other commands that users type | |
| `MC...` | constants, bounds and symmetry for TLC | |
| `..._proofs` | theorems about `FreeBlocks`, `FreeInodes` and `Durability` (one module), `OpenFileTable` with `Commands` (`Calls_proofs`), `UnixFs`, `FileData`, `Fat16`, and `CliInput` with `Shell` (`Session_proofs`) | |
| `Stepwise` | lemmas about numbers, division and functions defined by recursion | |

Both engines are shown to implement the same two abstract modules, which is what the VFS
interface promises its callers: a tree of names, and files that keep the words written
to them.

Conventions. In the modules of the engines each call runs to its end, as the code does,
so one action is one call with everything it changes, in the order of the code where the order shows (`Open` empties a
file before it looks for a descriptor; `Mkdir` takes the inode, then its first block, then
the slot). A call that refuses changes nothing and is left out, unless a refusal does
change something (`BallocRefuse`, `Mkdir` on a full disk, a write that stops short).
Names in the specifications are those of the code.

- `FreeBlocks`: a block on disk is the sequence of words that `balloc` would copy out of
  it. Any holder may write any payload into its block; a link that led into such a
  block would be read as a group, which is how a mistake in the list shows.
- `FreeInodes`: one stack and a counter. `held` are the numbers in use.
- `OpenFileTable`: both tables with the code's scan for the first vacant place. An
  entry of the user table is an index into the system table or -1.
- `UnixFs`: the inode table (type, links, slots, number of blocks), free numbers
  and blocks as a set and a count (the two modules above say why that is right), the
  current directory twice, and the descriptors. Paths are sequences of parts, resolved
  by `namei`, `namei_parent` and `namei_follow` as the code does: the last directory of a
  walk is not looked at, and symbolic links are followed at the end only.
- `FileData`: `di_addr`, the blocks with the words in them, and which are free. `Entries`
  is the way from `di_addr` through the indirect blocks to a data block. `bmap_alloc`
  allocates along it and keeps what it got when a later allocation is refused. Words
  left in a block that was freed are `JUNK`.
- `Fat16`: the table, the entries of directories with deleted and never-used ones, the
  words of clusters, descriptors with `open_parent_`. `Allocated` is always the lowest
  free cluster, as in the code. Names are in upper case and `Short` is their 8.3 form.
- `Durability`: three copies of a volume. `sync` flushes memory into the simulated disk
  and truncates the image; `save_to_file` makes it whole, or the host cuts it short.
  Between the two the process may be killed; `restart` loads whatever image is there and
  `restart_format` is the start that finds none, or was given `--format`. `fs_write` and
  `fs_open_trunc` change the disk and do not save. `switch_away` and `switch_back` are F2.
- `CliInput`: a line is one or two pieces. The user types pieces, ends the input and
  presses Ctrl+C at any moment; the program reads, runs and pages. `fate` records what
  became of each line.
- `Shell`: commands are functions on a record, since `replay` runs many in one call.
  `execute` sets the user, expands the pattern, records and runs, in that order. `Started`
  is the start of `main`, which reads accounts and log back.
- `Commands`: one step is one call of the engine. `sync` empties the image and the next
  step, `save_to_file`, makes it whole; the program may be killed between any two steps
  (`Crash`), also inside a save, and the next one formats when the image is not whole. As
  in the code, `open f w`, `O_TRUNC` and `write` save nothing, so at the prompt the image
  may be older than memory. `fs_mkdir` ignores what `init_dir` and `link` return: on a full
  disk it may leave a directory without dots or without a name and report success, while a
  file or link without a slot is given up. A failure of the host in the middle of a save is in
  `Durability` only. Users open a file once at a time and write whole blocks; writes
  through a descriptor whose inode is no file any more are left out. The engine is reduced to
  what the commands rely on; `UnixFs` and `FileData` have the rest.

### What callers do

The code lets a caller do more than keeps the volume whole. `Liberties`
(`UnixFs`, `Fat16`, `CliInput`, `Commands`), `ShellLiberties` (`Shell`), `TruncatesOpen` (`FileData`) and `AsksWhenFull` (`FreeBlocks`) name
the calls in question, and the guards that use them say what exactly is left out when
a liberty is not taken. The passing runs take none of them; `UnixFs_open`, which shows a violation, takes one. What each does, with the settings on which TLC finds it, is in
[where code and comments differ](#where-code-and-comments-differ).

### Operators named after mistakes

Before some definitions stands a second one with a comment that begins `Mistake:`. It is
the same definition with a plausible error, used by nothing. Put in the place of the
first, it makes TLC report the property that `PROJECT.json` names beside it. This is how each
property is known to depend on the code: a property that no such error can break was dropped.

## Runs

| Run | Instance | What it shows |
|---|---|---|
| `FreeBlocks` | 6 blocks, groups of 3 (50 in the code); holders leave zeros or what looks like a group | the walk of the list finds exactly the blocks nobody holds, once each; the counter is exact; the groups implement the pool, so `balloc` grants only free blocks and gives up only when all are held |
| `OpenFileTable` | 2 users, 2 descriptors each, 3 system entries | no shared entry, counts, implements the map of descriptors |
| `Durability` | a stack of 4 numbers before 5 inodes, 3 blocks | no number twice or lost, each block in one file or free, after every restart; what may be loaded agrees with itself |
| `Durability_crash` | the same | the code does not save every write as a comment says, see below |
| `UnixFs` | 4 inodes, 6 blocks, 2 names, 3 slots in a block, a descriptor | tree, exact link counts, no inode or block lost, open files and the current directory exist, `pwd` names the current directory |
| `UnixFs_links` | the same with symbolic links, no descriptor | implements `Hierarchy` |
| `FileData` | 2 files, 2 descriptors, 7 blocks of 2 words, one direct, one single and one double indirect entry, transfers of 4 or 5 words | every block free or under one entry of one file; implements `FileBytes` |
| `Fat16` | 3 clusters of 2 entries or words, 2 names, a descriptor, writes of 1 or 2 words | every cluster free or in one chain, dots lead where they should, `pwd` names the current directory, sizes within chains and in the right entry, open files exist; implements `Hierarchy` and `FileBytes` |
| `CliInput` | 3 lines of 5 kinds, 2 prompts of the pager, a terminal or a pipe | a line runs once, undivided, in order; every whole line is settled; `exit` and the end of a pipe end the program |
| `Shell` | 16 commands, 5 steps, one user beside root | the log rebuilds directories, accounts and session; files agree with memory; login, su and passwd reach the account that was named; a pattern is expanded in its directory |
| `Commands` | 2 names, one of them in 2 levels, 3 inodes beside the root, 6 blocks, 3 slots in a block, files of up to 3 blocks, 3 descriptors | whenever the program is killed the source or the copy is whole; success means done; nothing is left open, and a whole image lacks at most what was written into files; only targets are touched |
| `UnixFs_open` | `UnixFs` with the liberty `open` | the code does not do what a comment says, see below |

Why the bounds are enough. In `FreeBlocks` six blocks and groups of three give a group on
disk behind another and a group in memory, so that groups are stored, loaded and linked
in every order that the stack allows. In `UnixFs` the disk starts with four of six blocks
taken and one of four inodes free, so both run out, a directory grows by a block (with three
slots the second name needs one) and holes are reused; three directories can be nested
and moved between by `..`, which is where a wrong `..` or a stale path shows. In `FileData` one
file can reach its double indirect block exactly when the other has none, so that an
allocation stops at each of its three levels. In `Fat16` two entries fill a cluster, so
a directory needs a second one for its first name, and three clusters are a directory with a
file of one word in it, or a file over two clusters and one that wants more; `GUARD` is larger than
the disk.
Offsets and sizes in words keep the boundaries (in a block, at its end, across
several) that bytes have. The bounds are the constants of the `.cfg` files and, named
as such in the modules, `MaxFileBlks` and `MaxPath` (`UnixFs`), `WritesAtOnce`
(`MCFreeBlocks`: a holder writes its block before the next call of the list, as all of them
do) and `Followed` (`MCUnixFs`: careless histories end when an inode in use is on the stack).
`ZeroedWhenSpent` (`MCFreeBlocks`) is an assumption on callers: once the list has dropped
its link, the blocks they hold are full of zeros, so that the one freed next reads as an empty
group. In `Fat16` the two names are symmetric, in `Durability` the blocks:
nothing in the module tells them apart.

In `Durability` a stack of four numbers leaves one inode behind the stack, as 50 leave
most of 255 in the code. In `CliInput` three lines suffice for one that is run, one
that is typed ahead into the pager and one after it (`MaxLines` and `Pages` bound them). In
`Shell` five steps (`MaxSteps`) allow a directory, a change into it, a start with
`--format`, a replay and a command after that; a second replay of a doubled log would
show in `LogRebuilds`. In `Commands` two descriptors are what cp needs, and one or two that users
hold open leave too few or just enough. The root takes one block of six; what is left is a
directory with its dots and two files, or a file of two blocks with its copy and the block by which the root
grows for the second name, so that copies fill the disk to the last block and `mkdir`, `touch` and
`ln -s` meet a full one. The blocks of files are alike in the run: a copy that is too short or too
long shows, an exchange of blocks does not; the theorems are for any contents (`Block`). `LENGTH`
bounds what users write, not what the commands copy. The paths allow `rm -r` of a directory with a
child that is a link.

Deadlock is checked in every run but `Shell`, which stops after `MaxSteps`, and
`CliInput`, where the program may end or wait for somebody to type.

Fairness. Only `CliInput` has two parties that wait for each other, and only it has
liveness properties: `LineTaken` and `Ends`. `WF_vars(Program)` says that the process gets
to run when it can; the actions of the user and of the terminal have no fairness: nobody has
to type, to finish a line, to end the input or to stop pressing Ctrl+C. The other modules have
nothing that waits: a call ends by itself, and which comes next is up to the user.

## Proofs

All theorems hold for every value of the constants that satisfies the assumption of
the module.

`FreeBlocks_proofs`, under `~AsksWhenFull` (nobody asks for a block when none is free; the first
line of the table below shows that the assumption is needed): `FreeListTypes`, `FreeListCount`,
`FreeListComplete`, `FreeListGrants`, `FreeListWalk` and `FreeListImplementsPool`. None of the properties is
inductive. The strengthening says that there is a sequence of groups, the one in memory
last, in which each group but the first links to the storage block of the one
before, groups on disk are full (`NICFREE` entries), and all the blocks named are distinct
and held by nobody. The chain is a function from positions to groups that the invariant
quantifies over, so no recursion is needed: `balloc` drops the last position, `bfree` adds
one. The count of free blocks follows from cardinalities of that partition, and the
refinement from the fact that every block the list reads or writes is not held. For
`FreeListWalk` the state of `collect_free_blocks` after each step is which positions of that
sequence it has passed; positions lead to different blocks, so the bound on its steps
never cuts the walk short.

`Durability_proofs`, first about `FreeInodes`: `InodeTypes`, `InodeUnique`, `InodeNoneLost`, `InodeCount`. The
stack and the numbers in use partition the numbers that format stacked; since those are at
most `NICINOD`, `ifree` never meets a full stack.

Then about `Durability`: `DurableTypes`, `DurableUnique`, `DurableNoneLost`, `DurableCount`,
`DurableBlocks`, `DurableImages`. What is true of memory now must be true of
whatever a mount or a restart loads later, so the invariant `DInv` states one predicate,
`Good`, of each super block that may come to be in memory, together with the inodes
and contents that it would come with: of memory itself, of the simulated disk when a save is
under way or the volume is not mounted, and of every image on the host; and while a
save is under way there is no whole image. Inode numbers
are treated by the lemmas about `FreeInodes`.

`Calls_proofs`, first about `OpenFileTable`: `TableTypes`, `TableEntriesUnshared`, `TableCounts`,
`TableImplementsFds`. The inductive invariant says that the user tables are injective into
the entries whose `f_count` is 1; that gives the bound on open files and the refinement.

Then about `Commands`. With no assumption on callers: `CommandsNothingLeftOpen`, `CommandsDoneForAll` and
`CommandsOnlyTargets`. `CommandsCopyKeepsData` needs `Careful` (no liberties `self` and
`full`), `CommandsCopyExact` the absence of `locked` as well; the table below says what `cp` and
`mv` do otherwise. The invariant has one part per question. `CmdInv`: volumes and the command are
well-formed, the descriptors in use are those that users hold and those of the command at its step,
and an image that is whole has the names and inodes of memory, with older contents of files
perhaps (`SameTree`): only calls that end in a save change names.
`ListInv`: what is still to do belongs to the argument at hand and its last item decides about it, and
what was reported done for earlier arguments still is. `DataInv`: until the copy both paths lead
where they did and there is room; during it the destination is as much of the source as was read; after it, all of
it. `SavedInv`: a whole image has the source as it was saved before the command, or as it
was in memory when the command began, or has it moved; when success is reported, it is what memory is. A save
in the middle of a copy keeps that because of what `DataInv` says of memory (`KeptInMemory`).
`DestInv`: the descriptor that is written is on the destination. The hard step is the
removal of the source by `mv`: a path to any other file must lead where it led. Both paths are chains
of symbolic links; one that passed the removed name would end where that one ends
(`ChainsMeet`), so a path to another file does not pass it. And as a directory
has one path (`OnePath`), a name that comes or goes is the name of one path only.

`UnixFs_proofs`, under `Careful` (callers take no liberty): `UnixTypes`, `UnixLinkCounts`,
`UnixNothingLost`, `UnixOpenFilesLive`, `UnixDirectoryTree`, `UnixImplementsTree`. The
invariant names what the properties rely on together: the dots are the first two slots and
names come once (`Shaped`); the slots that name an inode, counted as pairs of directory and
place, are as many as its links (`Named`); the name of a directory stands in its parent, and
there is a function `depth` that grows by one from parent to child (`Nested`), which rules
out cycles without following a path; descriptors and the current directory are on
inodes of their kind (`Referred`); `NothingLost`. Each call is shown to keep names and kinds, or to
add one name, or to remove one, or to make the volume anew; the invariant and the step
of `Hierarchy` are then proved once for each of these four outcomes. `UnixPwdNamesCwd` needs
`PlainPaths` as well: no symbolic links, and no dots in absolute paths, which both
make `pwd` wrong in the code (the table below has one of them). The state it adds is a chain of names
from the root to the current directory that spells `cwd_path`.

`FileData_proofs`: `FileDataInvariant` and `FileDataBlocksPartition`, with no assumption on
callers. The invariant says there are functions `level` and `own`: every entry in use leads to
no block, or to one of the level that its place asks for, and `own` of that block is the entry
itself. So no two entries lead to one block, and the partition is a bijection between entries and blocks.
It is kept by each hop of `bmap_alloc`, each word of a write and each block of
`truncate`, also where an allocation stops half-way. `FileDataNoHoles` and
`FileDataImplementsBytes` are under `~TruncatesOpen` (nobody empties a file that is open;
the table below shows that it is needed). `DataInv` adds that every word below the size has a block and
that no descriptor stands behind the end of its file. Two places of two files never have one block
(`BmapInjective`), so a write is seen where it was made and nowhere else, and blocks that are
granted unzeroed are overwritten before they can be read.

`Fat16_proofs`: `ChainsApart`, `SizesFit`, `SizesFound`, `DotsTrue`, `DescriptorsLive`, for
disks, directories and files of any size. They have two conditions. `Careful`: callers take no liberty and open no
file with both `O_TRUNC` and `O_APPEND` (commands open with `w` or `a`, `main.cpp:619`
and `623`; an `O_APPEND` handle put at the end of a file that the same open empties would write a size
that a full disk does not have room for). `WithinGuard`: no chain is longer than the
number of clusters a walk visits, 2000 in the code. It is a condition on runs and not on the constants because the
disk has 2062 clusters, so that one file of more than 2000 does break the properties (the
table below shows it with `GUARD = 2`); where `GUARD >= CLUSTERS` it always holds
(`GuardSuffices`), as in the run of the module.
None of the properties is inductive: that clusters are owned once says nothing of
the order of a chain, which is what `alloc_cluster` extends and `free_cluster_chain` follows. The
invariant `IInv` says that there is a function `way` from the entries to sequences of
clusters that the links follow, that covers every cluster in use and has each in one place
(`Laid`); that dots stand in the first two slots of a directory and only there (`Shaped`);
that a function `depth` grows from a directory to those in it (`Nested`), which makes `..` lead
to the place of the entry; that no slot before the entry of a file, used or deleted, shows its first cluster (`FirstShown`); that a size is within its chain
(`Sized`); and that each open descriptor has its entry where it remembers it and stands within the
file. `Laid` has a set of orphans, clusters that are taken and have no entry yet, because
a call takes a cluster before the entry or the link that leads to it is in place. What a walk
finds (`Kth`, `Length`, `Found`, `Through`) is computed from `way` by lemmas; each call is
a composition of few changes to the volume (a link set, a cluster taken, a slot
filled, marked or resized, a chain given back), and each of these keeps `Laid` and the
rest once and for all. It is also shown that each call keeps the entries, adds one,
takes one away that has nothing in it, or leaves none (`Outcome`). From that, and with names
that are as short as entries keep them (`PlainNames`), follow `NamesOnce`; `EntriesImplementTree`,
the step of `Hierarchy` being computed from the entries before and after; and `PwdTrue`, which also
needs `PlainPaths`, absolute paths without dots: a chain of names from the root leads to the current
directory and spells `cwd_path`, and no call removes an entry in it, since that would
have to be empty or hold the next one.

`Session_proofs` has two parts. On the input of lines, under `Careful` (Ctrl+C does not come between the two reads of a line; with
that liberty TLC finds `RunsOneLine` violated): `CliRunsOneLine` and `CliInOrder`. What was read, what is
in the buffer and what is still in the terminal are one stream of pieces: line numbers go up
in it and the two pieces of a line are neighbours (`Ordered`); it begins with the
beginning of a line, unless the program is discarding the rest of one (`Anchored`); a part is followed by its rest
(`Followed`); and the lines that wait to be run are exactly those in it (`Waiting`).

On the commands of a session (`Shell`): `ShellFilesAgree`, with no assumption on callers;
`ShellLogRebuilds` where `AtPrompt`, the program is started again only where the session of root
began; `ShellExpandsInDir` where `Rooted`, `/*` is typed at the root only; `ShellAccountsOwn` where
`OwnNumbers`, no two names have one number and none is longer than is kept. Each of these conditions is
needed; the table below has the settings on which TLC finds the property violated without it. Names, commands, the table of users and the
log are of any size. `SessionInv` says that the record has its types, that files agree with memory and that
root is the first of the table. `LogRebuilds` compares two sessions: the one that is there and the
one that `--format` and `replay` build. It holds because a command depends on no more than
what there is to see: directories, current directory, users and who is logged in
(`ExecuteDoes`: two sessions that look the same still do so after the same command, whatever
their logs and files are). A replay is a sequence of commands (`Orbit` of `Stepwise`), so one
more line in the log is one more command at its end, and a replay in the middle of a session
repeats what was done only on a volume that is blank. For `ExpandsInDir`, the directories are removed one by
one; that none of them lies in another, so that the order does not matter, comes from their all having one
parent. For `AccountsOwn`, the invariant is that names in the table are different and that
each user has the number of the name.

Loops are recursive functions in the specifications (`namei`, `bmap`, `bmap_alloc`,
`Write`, the walk). `Stepwise` has the way to reason about them: a function over `0 .. n` has the values its
definition says if some function has them, and a trace with the wanted property in every step is
built from least members of sets of numbers.

Only model-checked: liveness under fairness (`LineTaken` and `Ends` of `CliInput`), which is
outside what the installed provers do, and the refinement of `FileBytes` by `Fat16`.

## Where code and comments differ

Two of these are runs (`UnixFs_open`, `Durability_crash`) and findings of `PROJECT.json`; the others were met with the settings named (or, where it says so,
in the program itself). Settings start from the passing run of the module; paths are added to
`Paths`. Where a liberty of `UnixFs` is taken, `CONSTRAINT Followed` belongs to it.

| Where | What happens | Setting |
|---|---|---|
| `super_block.cpp:127` | `balloc` on a full disk drops the end link; the block freed next is taken for a group and its data for block numbers, if it does not begin with zeros | `FreeBlocks`, without `ZeroedWhenSpent`: `WalkFindsFreeBlocks` |
| `unix_fs.cpp:180`, `inode.cpp:110` | an open file is not referenced, so `rm` frees it under its descriptor | run `UnixFs_open` |
| `unix_fs.cpp:427` | `mkdir` on a full disk succeeds and leaves a directory without dots | `UnixFs`, liberty `full`: `DirectoryTree` |
| `fat16_fs.cpp:140` | two names that are one in 8.3 make two entries of one name | `Fat16`, `Short <- Truncated`, no symmetry: `NamesUnique` |
| `super_block.cpp:178` | inodes that did not fit on the stack at format are never handed out; the code calls it a known limitation | `NoneLost` of `Durability` states it |
| `unix_fs.cpp:109` | names are created below a regular file | `UnixFs`, liberty `parents`, path `/etc/home`: `LinkCounts` |
| `unix_fs.cpp:449` | `rmdir /etc/.` frees a directory that keeps its name | `UnixFs`, liberty `dots`, path `/etc/.`: `LinkCounts` |
| `unix_fs.cpp:517` | `cd /etc/..` and then `cd ..`: `pwd` is wrong | `UnixFs`, path `/etc/..`: `PwdNamesCwd` |
| `inode.cpp:242` | a file emptied while another descriptor stands further on shows what was in a reused block | `FileData`, `TruncatesOpen = TRUE`: `ImplementsBytes` |
| `fat16_fs.cpp:358` | `rm` of an open file | `Fat16`, liberty `open`: `OpenFilesLive` |
| `fat16_fs.cpp:190` | a file emptied while another descriptor stands further on shows its old words | `Fat16`, two descriptors, liberty `trunc`: `ImplementsBytes` |
| `fat16_fs.cpp:703` | a chain is freed up to 2000 clusters of at most 2062 | `Fat16`, `GUARD = 2`: `ClustersOwned` |
| `fat16_fs.cpp:474` | `cd` to a file | `Fat16`, liberty `file`: `PwdNamesCwd` |
| `fat16_fs.cpp:466` | `rmdir A/.` frees a directory that keeps its name | `Fat16`, liberty `dots`, path `A/.`: `ClustersOwned` |
| `fat16_fs.cpp:489` | `cd /A/B/.` and then `cd ..`: `pwd` is wrong | `Fat16`, absolute paths `/A/B` and `/A/B/.`: `PwdNamesCwd` |
| `unix_fs.h:53`, `unix_fs.cpp:887` | every write is said to be saved, so that a crash loses nothing; `fs_write` and `O_TRUNC` do not save (and a kill inside a save leaves no disk at all, in `Durability` and `Commands`) | run `Durability_crash`: `WritesSurvive` |
| `unix_fs.cpp:431` | `mkdir` on a full disk ignores that `link` failed and says success; no such directory is there, and its inode is lost | `Commands`, `DoneForAll` without its exception for `mkdir` |
| `command_registry.cpp:280` | `rmdir /*` outside the root removes what is in the current directory, though "the directory prefix is taken literally" (line 276) | `Shell`, liberty `rooted`: `ExpandsInDir` |
| `docs/演示流程脚本.md:266` | the log, which spans sessions, is said to rebuild the volume; a session that ended elsewhere or as another user is replayed from the wrong place | `Shell`, liberty `restart`: `LogRebuilds` |
| `user_manager.cpp:66` | two users of one number: su and passwd reach the first | `Shell`, one number for two names in `UidOf`: `AccountsOwn` |
| `main.cpp:868` | cp or mv of a file onto itself empties it | `Commands`, liberty `self`: `CopyKeepsData` |
| `main.cpp:877` | cp and mv on a full disk say "Copied." and "Moved.", and mv removes the source | `Commands`, liberty `full`: `CopyExact` |
| `main.cpp:991` | mv out of a directory that may not be written says "Moved." and leaves the source | `Commands`, liberty `locked`: `CopyExact` |
| `main.cpp:32` | interrupts are said to be handled deterministically; Ctrl+C between the two reads of a line is seen at a later one | `CliInput`, liberty `midline`: `RunsOneLine` |
| `unix_fs.cpp:662` | chmod can give the owner the right to read and never take it | the program: `chmod 077 d` leaves `r--rwxrwx` |
| `main.cpp:946` | `tree d` lists the directories in `d` by paths from the current directory | the source |
| `command_registry.cpp:29` | `*bc` does not match a name `*abc` | the source |

## What is left out

- Users' rights on single files (`check_access`, modes): in `Commands` a directory may be
  written or not, elsewhere every user may do everything, as with `DEFAULT_MODE`. Groups.
  `UserManager::check_access` is called by tests only.
- Commands that change nothing (ls, ll, find, cat, stat, tree, disk, history, help), the
  times of files, and the text interface apart from F2: display.
- The splitting of a line into words and the matching of a pattern character by character.
- Within the engines: the cache of inodes (empty between calls), names longer than 14
  bytes, reading the bytes of a file as directory slots after a careless call, the second
  copy of the FAT, the limits of `DIRNUM` that the code does not apply, recursive removal and the
  image of the FAT16 engine (the UNIX engine's are in `Commands` and `Durability`).
- Byte layouts are read as what they encode.

## Plan

1. Done: the free lists, the open file table, the name space and the data of the UNIX
   engine, the FAT16 engine, what survives a crash, the input of the command line, the
   session and its log, the commands made of several calls; the abstract modules; proofs
   about the free lists, the open file table, crashes, the name space and the data of the UNIX
   engine with both refinements, the FAT16 engine with the refinement of `Hierarchy`, the input
   of the command line, the session with its log, and the commands made of several calls.
2. A composition of `FreeBlocks` and `FileData`, which so far meet in the promise of
   `BlockPool`; rights of users on files across su and logout.
3. A proof that `Fat16` refines `FileBytes`, which is checked by TLC.
