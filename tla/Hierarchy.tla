----------------------------- MODULE Hierarchy -----------------------------
(***************************************************************************)
(* What a tree of directories with hard links promises: names, and the     *)
(* nodes they name.  A node exists for exactly as long as it has a name,   *)
(* and a directory can lose its name only when nothing is in it.           *)
(***************************************************************************)
CONSTANTS
  Node,
  root,
  Name,
  dir,   \* the kind of a directory
  Kind   \* the kinds, dir among them

VARIABLES
  names,  \* <<directory, name>> |-> node
  kind    \* the kind of every node that exists

vars == <<names, kind>>

Existing(ns) == {root} \cup {ns[p] : p \in DOMAIN ns}

\* An empty tree, or one with directories in its root.
Fresh(ns, ks) ==
  /\ ns \in [DOMAIN ns -> Node]
  /\ DOMAIN ns \subseteq {root} \X Name
  /\ \A p, q \in DOMAIN ns : ns[p] = ns[q] => p = q
  /\ ks = [i \in Existing(ns) |-> dir]

Init == Fresh(names, kind)

\* The names ns and the kinds ks of a tree become nt and kt: a node or a further
\* name of a node that is not a directory, under a name that is not taken.
Named(ns, ks, nt, kt) ==
  \E p \in DOMAIN nt \ DOMAIN ns :
    /\ p[1] \in DOMAIN ks /\ ks[p[1]] = dir /\ p[2] \in Name
    /\ nt = [q \in DOMAIN ns \cup {p} |-> IF q = p THEN nt[p] ELSE ns[q]]
    /\ IF nt[p] \in DOMAIN ks THEN ks[nt[p]] # dir /\ kt = ks
       ELSE \E k \in Kind : kt = [i \in DOMAIN ks \cup {nt[p]} |-> IF i = nt[p] THEN k ELSE ks[i]]

\* A name goes, and its node with the last of its names.
Removed(ns, ks, nt, kt) ==
  \E p \in DOMAIN ns \ DOMAIN nt :
    /\ \A n \in Name : <<ns[p], n>> \notin DOMAIN ns
    /\ nt = [q \in DOMAIN ns \ {p} |-> ns[q]]
    /\ kt = [i \in Existing(nt) |-> ks[i]]

\* Or the volume is made anew.
Changed(ns, ks, nt, kt) ==
  Named(ns, ks, nt, kt) \/ Removed(ns, ks, nt, kt) \/ Fresh(nt, kt)

\* The quantifiers only name the four values, for TLC to evaluate them once.
Next ==
  \E ns \in {names}, ks \in {kind}, nt \in {names'}, kt \in {kind'} : Changed(ns, ks, nt, kt)

Spec == Init /\ [][Next]_vars
=============================================================================
