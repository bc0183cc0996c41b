---------------------------- MODULE MCFreeBlocks ----------------------------
(* FreeBlocks on a data area of a few blocks, for TLC. *)
EXTENDS FreeBlocks

\* A block whose words look like a group of two blocks, and an all-zero block.
MCPayloads == {<<2, 3>>, << >>}

\* Storage blocks from the head of the chain.
ChainFrom[link \in AllBlocks, fuel \in 0 .. DATA_BLK_NUM] ==
  IF link = END_OF_CHAIN \/ fuel = 0 THEN {}
  ELSE {link} \cup (IF disk[link] = << >> THEN {}
                    ELSE ChainFrom[disk[link][1], fuel - 1])
Stored == IF s_free = << >> THEN {} ELSE ChainFrom[s_free[1], DATA_BLK_NUM]

\* Bound: every holder writes its block before the next call of the list, as
\* fs_write, write_dir_data and bmap_alloc do.
WritesAtOnce ==
  \A b \in Block \ (Stored \cup {ret}) : disk[b] \in Payloads \cup {<< >>}

\* Assumption on the callers of the passing run: when the list has been spent and
\* its link dropped, the blocks that are held are full of zeros.
ZeroedWhenSpent == s_free = << >> => \A b \in held : disk[b] = << >>
=============================================================================
