----------------------------- MODULE BlockPool -----------------------------
(***************************************************************************)
(* What SuperBlock::balloc and SuperBlock::bfree promise the rest of the   *)
(* UNIX engine (include/fs/unix/super_block.h): a pool of data blocks.     *)
(* A granted block belongs to its holder until it is given back, nothing   *)
(* but the holder changes what is in it, and a request is refused only     *)
(* when every block is granted.  FreeBlocks implements it with groups of   *)
(* free blocks linked through the free blocks themselves.                  *)
(***************************************************************************)
CONSTANTS Block,        \* the data blocks the pool hands out
          INVALID_BLK   \* the result of a refused request

VARIABLES data,   \* what the granted blocks hold; its DOMAIN is the grant
          ret     \* the result of the last request

poolVars == <<data, ret>>

Init == data = << >> /\ ret = INVALID_BLK

Grant(b) ==
  /\ b \notin DOMAIN data
  /\ ret' = b
  /\ DOMAIN data' = DOMAIN data \cup {b}
  /\ \A c \in DOMAIN data : data'[c] = data[c]

Refuse ==
  /\ Block \subseteq DOMAIN data
  /\ ret' = INVALID_BLK
  /\ UNCHANGED data

Release(b) ==
  /\ b \in DOMAIN data
  /\ data' = [c \in DOMAIN data \ {b} |-> data[c]]
  /\ UNCHANGED ret

Write(b) ==
  /\ b \in DOMAIN data
  /\ DOMAIN data' = DOMAIN data
  /\ \A c \in DOMAIN data \ {b} : data'[c] = data[c]
  /\ UNCHANGED ret

Next == Refuse \/ \E b \in Block : Grant(b) \/ Release(b) \/ Write(b)

Spec == Init /\ [][Next]_poolVars
=============================================================================
