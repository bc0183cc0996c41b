----------------------------- MODULE FileBytes -----------------------------
(***************************************************************************)
(* What files promise to those who write them: every file is a sequence of *)
(* words of its own.  A write replaces the words from its offset on, with  *)
(* zeros before it where the file was shorter; it may stop short.          *)
(***************************************************************************)
EXTENDS Integers, Sequences

CONSTANTS File, Word, Lengths, MaxWords

VARIABLE content   \* the words of every file

Init == content = [f \in File |-> << >>]

\* The words of s after a write of n words w at offset off.
Overwritten(s, off, n, w) ==
  [k \in 1 .. (IF off + n > Len(s) THEN off + n ELSE Len(s)) |->
     IF k > off /\ k <= off + n THEN w ELSE IF k <= Len(s) THEN s[k] ELSE 0]

Truncated(before, after) == after = << >>

Written(before, after) ==
  \E off \in 0 .. MaxWords, len \in Lengths, w \in Word :
    \E n \in 1 .. len : after = Overwritten(before, off, n, w)

\* One file is truncated or written, and the others keep their words; or the
\* volume is made anew.
Changed(now, next) ==
  \/ \E f \in File :
       /\ \A g \in File \ {f} : next[g] = now[g]
       /\ Truncated(now[f], next[f]) \/ Written(now[f], next[f])
  \/ next = [f \in File |-> << >>]

\* The quantifiers only name the two values, for TLC to evaluate them once.
Next == \E now \in {content}, next \in {content'} : Changed(now, next)

Spec == Init /\ [][Next]_content
=============================================================================
