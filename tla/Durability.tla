----------------------------- MODULE Durability -----------------------------
(***************************************************************************)
(* What of a UNIX volume is where, and what a crash leaves of it: the      *)
(* super block in memory, the simulated disk (also in memory) with its     *)
(* block SUPER_BLK and its inodes, and the image on the host, which        *)
(* BlockDevice::save_to_file rewrites in place.  UnixFs::sync writes the   *)
(* first into the second and the second into the third.  A process may be  *)
(* killed between any two steps, also in the middle of a save, and the     *)
(* next one starts as main() does.                                         *)
(*                                                                         *)
(* The free inodes are those of FreeInodes; the free blocks are a set (the *)
(* pool that FreeBlocks implements).  The inodes and blocks of the three   *)
(* directories that format makes are not in circulation here.              *)
(***************************************************************************)
EXTENDS FreeInodes

CONSTANT Block   \* the data blocks

VARIABLES
  s_free,     \* the free blocks, by the super block in memory
  content,    \* the blocks of each inode, on the simulated disk
  dev_super,  \* SUPER_BLK of the simulated disk
  host,       \* {what is in the image file}, {} when that is not a whole disk
  mounted,    \* FALSE while F2 has the other engine in front
  phase       \* "up" between calls, "saving" and "exiting" in the middle of
              \* save_to_file, "ended" after main has returned

devVars == <<held, content>>
memVars == <<s_inode, s_rinode, s_inode_total, s_free>>
dvars == <<memVars, devVars, dev_super, host, mounted, phase>>

\* The super block in memory, and the simulated disk.
Super == [inode |-> s_inode, rinode |-> s_rinode, total |-> s_inode_total,
          free |-> s_free]

Disk == [super |-> dev_super, held |-> held, content |-> content]

\* Mistake: the super block in memory is not written to the disk first.
sync_unflushed ==
  /\ UNCHANGED dev_super
  /\ host' = {} /\ phase' = "saving"

\* UnixFs::sync as far as the fopen of save_to_file, which empties the image.
sync ==
  /\ dev_super' = Super'
  /\ host' = {} /\ phase' = "saving"

\* save_to_file goes on: the image is whole, or the host cuts it short; sync
\* and main look at neither result.
save_to_file ==
  /\ phase \in {"saving", "exiting"}
  /\ host' = {Disk} \/ host' = {}
  /\ phase' = IF phase = "saving" THEN "up" ELSE "ended"
  /\ UNCHANGED <<memVars, devVars, dev_super, mounted>>

Calling == phase = "up" /\ mounted

\* fs_create, fs_mkdir and fs_symlink; without a free inode they change nothing.
\* A directory has a block for its dots, if there is one, and a link one for its
\* target; a block by which a directory grows is taken as in fs_write.
fs_create(mine) ==
  /\ Calling
  /\ Ialloc
  /\ s_free' = s_free \ mine
  /\ content' = [content EXCEPT ![s_inode[Len(s_inode)]] = mine]
  /\ UNCHANGED mounted
  /\ sync

\* fs_delete and fs_rmdir.
fs_delete(ino) ==
  /\ Calling
  /\ Ifree(ino)
  /\ s_free' = s_free \cup content[ino]
  /\ content' = [content EXCEPT ![ino] = {}]
  /\ UNCHANGED mounted
  /\ sync

\* fs_close, fs_chmod and fs_link.
fs_close ==
  /\ Calling
  /\ UNCHANGED <<memVars, devVars, mounted>>
  /\ sync

\* fs_write, a block at a time: nothing but the simulated disk is written.
fs_write(ino, b) ==
  /\ Calling
  /\ s_free' = s_free \ {b}
  /\ content' = [content EXCEPT ![ino] = @ \cup {b}]
  /\ UNCHANGED <<s_inode, s_rinode, s_inode_total, held, dev_super, host, mounted,
                 phase>>

\* fs_open with O_TRUNC.
fs_open_trunc(ino) ==
  /\ Calling
  /\ s_free' = s_free \cup content[ino]
  /\ content' = [content EXCEPT ![ino] = {}]
  /\ UNCHANGED <<s_inode, s_rinode, s_inode_total, held, dev_super, host, mounted,
                 phase>>

\* Mistake: the super block read is the one of an empty disk.
load_fresh(super) ==
  /\ s_inode' = [i \in 1 .. StackCount |-> reserved_inodes + StackCount - i]
  /\ s_rinode' = super.rinode /\ s_inode_total' = super.total
  /\ s_free' = super.free

\* SuperBlock::load
load(super) ==
  /\ s_inode' = super.inode /\ s_rinode' = super.rinode
  /\ s_inode_total' = super.total /\ s_free' = super.free

\* SuperBlock::format: lower numbers are handed out first.
Fresh == [inode |-> [i \in 1 .. StackCount |-> reserved_inodes + StackCount - i],
          rinode |-> reserved_inodes + StackCount,
          total |-> INODE_TOTAL - reserved_inodes, free |-> Block]

fs_format ==
  /\ load(Fresh)
  /\ held' = {} /\ content' = [ino \in Inode |-> {}]
  /\ mounted' = TRUE
  /\ sync

\* Mistake: unmount leaves the super block in memory.
fs_unmount_unflushed == mounted' = FALSE /\ UNCHANGED dev_super

fs_unmount ==
  /\ mounted' = FALSE
  /\ dev_super' = IF mounted THEN Super ELSE dev_super

fs_mount(super) == load(super) /\ mounted' = TRUE

\* F2 to the other engine, and back.
switch_away ==
  /\ Calling
  /\ fs_unmount
  /\ UNCHANGED <<memVars, devVars, host, phase>>

switch_back ==
  /\ phase = "up" /\ ~mounted
  /\ fs_mount(dev_super)
  /\ UNCHANGED <<devVars, dev_super, host, phase>>

\* F10, exit or the end of the input: unmount, then save.
exit ==
  /\ phase = "up"
  /\ fs_unmount
  /\ host' = {} /\ phase' = "exiting"
  /\ UNCHANGED <<memVars, devVars>>

\* The process ends, by itself or killed at any point, and the next one finds
\* a whole image and mounts it.
restart ==
  \E image \in host :
    /\ held' = image.held /\ content' = image.content
    /\ dev_super' = image.super
    /\ fs_mount(image.super)
    /\ phase' = "up" /\ UNCHANGED host

\* As before, but there is no whole image, or --format is given.
restart_format == fs_format

DInit ==
  /\ Init /\ s_free = Block /\ content = [ino \in Inode |-> {}]
  /\ dev_super = Super
  /\ host = {} /\ mounted = TRUE /\ phase = "saving"

DNext ==
  \/ \E mine \in {{}} \cup {{b} : b \in s_free} : fs_create(mine)
  \/ fs_close
  \/ \E ino \in held : fs_delete(ino) \/ fs_open_trunc(ino)
  \/ \E ino \in held, b \in s_free : fs_write(ino, b)
  \/ save_to_file
  \/ switch_away \/ switch_back
  \/ exit \/ restart \/ restart_format

DSpec == DInit /\ [][DNext]_dvars
-----------------------------------------------------------------------------
\* After every restart, as at any time, each block is free or in one file, so
\* what is written later never lands in a file that the image brought back.
BlocksExact ==
  /\ s_free = Block \ UNION {content[ino] : ino \in Inode}
  /\ \A m, n \in Inode : m # n => content[m] \cap content[n] = {}
  /\ \A ino \in Inode \ held : content[ino] = {}

\* The super block that F2 or a restart would load agrees with the inodes of
\* the same disk: no inode in use is on its stack and no block is lost.
ImageAgrees ==
  \A disk \in host \cup (IF mounted THEN {} ELSE {Disk}) :
    /\ {disk.super.inode[i] : i \in 1 .. Len(disk.super.inode)}
         = (reserved_inodes .. reserved_inodes + StackCount - 1) \ disk.held
    /\ disk.super.total + Cardinality(disk.held) = INODE_TOTAL - reserved_inodes
    /\ disk.super.free = Block \ UNION {disk.content[ino] : ino \in Inode}

\* After each call the image, if it is whole, has the files and what is in them,
\* so that a crash loses nothing.
WritesSurvive ==
  Calling => \A disk \in host : disk.held = held /\ disk.content = content
=============================================================================
