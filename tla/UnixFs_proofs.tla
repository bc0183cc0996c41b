---------------------------- MODULE UnixFs_proofs ----------------------------
(***************************************************************************)
(* Proofs about the name space of the UNIX engine, for any number of       *)
(* inodes, blocks, names and paths and for callers that take no liberty:   *)
(* exact link counts, a tree of directories, nothing lost, no descriptor   *)
(* on a file that is gone, and a current directory that pwd names.         *)
(***************************************************************************)
EXTENDS UnixFs, Stepwise, FiniteSetTheorems, TLAPS

\* ---- The inductive invariant ----

Careful == Liberties = {}

SlotType == [name : Part \cup {""}, ino : Ino \cup {NONE}]

INode ==
  [mode : {"none", "file", "dir", "link"}, nlink : Nat, slots : Seq(SlotType),
   nblk : Nat, target : Paths \cup {NoPath}]

Types ==
  /\ inode \in [Ino -> INode]
  /\ free_inodes \in SUBSET Ino
  /\ free_blocks \in Nat
  /\ cwd_ino \in Ino
  /\ ofile \in [Fd -> [ino : Ino \cup {NONE}, flags : SUBSET {"READ", "WRITE", "APPEND", "TRUNC"}]]

parent(d) == inode[d].slots[2].ino

\* The dots are in front, behind them are names, each of them once; what is not
\* a directory has no slots.
Shaped ==
  /\ \A d \in Dirs :
       /\ Len(inode[d].slots) >= 2
       /\ inode[d].slots[1] = Slot(".", d)
       /\ inode[d].slots[2].name = ".."
       /\ inode[d].nlink = 1
       /\ inode[d].nblk = BlocksFor(inode[d].slots)
       /\ \A k \in 3 .. Len(inode[d].slots) :
            inode[d].slots[k].ino # NONE => inode[d].slots[k].name \in Name
       /\ \A j, k \in 3 .. Len(inode[d].slots) :
            /\ inode[d].slots[j].ino # NONE /\ inode[d].slots[k].ino # NONE
            /\ inode[d].slots[j].name = inode[d].slots[k].name
            => j = k
  /\ \A i \in Ino \ Dirs : inode[i].slots = << >>
  /\ \A i \in Ino \ InUse : inode[i] = Blank

\* The name slots that name i.
Naming(i) == {s \in NameSlots : NamedBy(s) = i}

\* No name leads to the root or to an inode that is free; every other inode has a
\* name, and its names are counted.
Named ==
  /\ \A s \in NameSlots : NamedBy(s) \in InUse \ {root_ino}
  /\ \A i \in InUse \ {root_ino} :
       IsFiniteSet(Naming(i)) /\ Cardinality(Naming(i)) = inode[i].nlink /\ inode[i].nlink > 0

\* The name of a directory is in its parent, and parents have no cycle: there is
\* a depth that grows from parent to child.
Nested ==
  /\ root_ino \in Dirs /\ parent(root_ino) = root_ino
  /\ \A d \in Dirs : parent(d) \in Dirs
  /\ \A s \in NameSlots : NamedBy(s) \in Dirs => parent(NamedBy(s)) = s[1]
  /\ \A d \in Dirs \ {root_ino} : Naming(d) # {}
  /\ \E depth \in [Ino -> Nat] :
       /\ depth[root_ino] = 0
       /\ \A d \in Dirs \ {root_ino} : depth[d] = depth[parent(d)] + 1

\* A descriptor that is open is on a file, and the current directory is one.
Referred ==
  /\ \A fd \in Fd :
       ofile[fd] = NoFile \/ (ofile[fd].ino \in Ino /\ inode[ofile[fd].ino].mode = "file")
  /\ cwd_ino \in Dirs

IInv == Types /\ Shaped /\ Named /\ Nested /\ Referred /\ NothingLost

\* ---- Induction, and functions defined by it ----

\* A directory with slots of that name has a first one.
LEMMA FirstMember ==
  ASSUME NEW S, S \subseteq Nat, S # {}
  PROVE  First(S) \in S /\ \A j \in S : First(S) <= j
<1>1. First(S) = Least(S)
  BY DEF First, Least
<1> QED BY <1>1, LeastMember

\* ---- Paths ----

V == Ino \cup {NONE}

\* One part of a walk.
Step(x, n) ==
  IF x = NONE THEN NONE
  ELSE IF inode[x].mode # "dir" THEN NONE
  ELSE lookup(x, n)

IsWalk(w, parts, from) ==
  /\ w \in [0 .. Len(parts) -> V]
  /\ w[0] = from
  /\ \A k \in 1 .. Len(parts) : w[k] = Step(w[k - 1], parts[k])

\* What lookup finds is in a slot of that name.
LEMMA LookupFinds ==
  ASSUME Types, NEW d \in Ino, NEW n
  PROVE  /\ lookup(d, n) \in V
         /\ lookup(d, n) # NONE =>
              /\ First(Holding(d, n)) \in Holding(d, n)
              /\ lookup(d, n) = inode[d].slots[First(Holding(d, n))].ino
         /\ lookup(d, n) = NONE => Holding(d, n) = {}
<1>1. inode[d].slots \in Seq(SlotType)
  BY DEF Types, INode
<1>2. Holding(d, n) \subseteq Nat
  BY <1>1 DEF Holding
<1>3. CASE Holding(d, n) = {}
  BY <1>3 DEF lookup, V
<1>4. CASE Holding(d, n) # {}
  <2>1. First(Holding(d, n)) \in Holding(d, n)
    BY <1>2, <1>4, FirstMember
  <2>2. \A k \in Holding(d, n) :
          inode[d].slots[k] \in SlotType /\ inode[d].slots[k].ino # NONE
    BY <1>1 DEF Holding
  <2>3. /\ inode[d].slots[First(Holding(d, n))] \in SlotType
        /\ inode[d].slots[First(Holding(d, n))].ino # NONE
    BY <2>1, <2>2
  <2> QED BY <1>4, <2>1, <2>2, <2>3 DEF lookup, V, SlotType
<1> QED BY <1>3, <1>4

LEMMA StepType ==
  ASSUME Types, NEW x \in V, NEW n
  PROVE  Step(x, n) \in V
BY LookupFinds DEF Step, V

LEMMA WalkIsWalk ==
  ASSUME Types, NEW parts \in Seq(Part), NEW from \in V
  PROVE  \E w : IsWalk(w, parts, from) /\ Walk(parts, from) = w[Len(parts)]
<1> DEFINE n == Len(parts)
           at[k \in 0 .. Len(parts)] ==
             IF k = 0 THEN from
             ELSE IF at[k - 1] = NONE THEN NONE
             ELSE IF inode[at[k - 1]].mode # "dir" THEN NONE
             ELSE lookup(at[k - 1], parts[k])
           G == [x \in V \X (1 .. n) |-> Step(x[1], parts[x[2]])]
<1>1. Walk(parts, from) = at[n]
  BY DEF Walk
<1>2. n \in Nat
  OBVIOUS
<1>3. PICK w : IsWalk(w, parts, from)
  <2>1. G \in [V \X (1 .. n) -> V]
    BY StepType
  <2>2. \A x \in V, k \in 1 .. n : G[<<x, k>>] = Step(x, parts[k])
    OBVIOUS
  <2> HIDE DEF G, n
  <2>3. PICK w : IsOrbit(w, V, from, n, G)
    BY <1>2, <2>1, Orbit
  <2>4. \A k \in 1 .. n : w[k - 1] \in V
    BY <1>2, <2>3 DEF IsOrbit
  <2> QED BY SMTT(60), <2>2, <2>3, <2>4 DEF IsWalk, IsOrbit, n
<1>4. at = [k \in 0 .. n |-> IF k = 0 THEN from ELSE Step(at[k - 1], parts[k])]
  <2> DEFINE Def(g) == [k \in 0 .. Len(parts) |->
             IF k = 0 THEN from
             ELSE IF g[k - 1] = NONE THEN NONE
             ELSE IF inode[g[k - 1]].mode # "dir" THEN NONE
             ELSE lookup(g[k - 1], parts[k])]
  <2>1. w = Def(w)
    BY <1>3 DEF IsWalk, Step
  <2>2. at = Def(at)
    BY <2>1, Zenon
  <2> QED BY <2>2 DEF Step
<1> HIDE DEF at
<1> DEFINE S == {k \in Nat : k <= n => at[k] \in V}
<1>5. 0 \in S
  BY <1>2, <1>4
<1>6. ASSUME NEW k \in Nat, k \in S
      PROVE  k + 1 \in S
  <2> SUFFICES ASSUME k + 1 <= n
               PROVE  at[k + 1] \in V
    OBVIOUS
  <2>1. at[k + 1] = Step(at[k], parts[k + 1])
    BY <1>2, <1>4
  <2> QED BY <1>2, <1>6, <2>1, StepType
<1> HIDE DEF S
<1>7. \A k \in 0 .. n : at[k] \in V
  <2>1. Nat \subseteq S
    BY <1>5, <1>6, Induction
  <2> QED BY <1>2, <2>1 DEF S
<1>8. IsWalk(at, parts, from)
  BY <1>2, <1>4, <1>7 DEF IsWalk
<1> QED BY <1>1, <1>8

\* The slots of a directory are the dots and what NameSlots has of it.
LEMMA DirSlots ==
  ASSUME Types, Shaped, Nested, NEW d \in Dirs
  PROVE  /\ d \in Ino /\ inode[d] \in INode /\ inode[d].slots \in Seq(SlotType)
         /\ Len(inode[d].slots) \in Nat /\ Len(inode[d].slots) >= 2
         /\ inode[d].slots[1] = Slot(".", d) /\ inode[d].slots[2] = Slot("..", parent(d))
         /\ parent(d) \in Dirs /\ d # NONE /\ parent(d) # NONE
         /\ \A k : <<d, k>> \in NameSlots <=>
                     k \in 3 .. Len(inode[d].slots) /\ inode[d].slots[k].ino # NONE
         /\ \A k \in 3 .. Len(inode[d].slots) :
              inode[d].slots[k].ino # NONE => inode[d].slots[k].name \in Name
<1>1. d \in Ino /\ inode[d] \in INode /\ inode[d].slots \in Seq(SlotType)
  BY DEF Types, INode, Dirs
<1>2. parent(d) \in Dirs /\ d # NONE /\ parent(d) # NONE
  BY UnixFsAssumption DEF Nested, Dirs
<1>3. /\ Len(inode[d].slots) \in Nat /\ Len(inode[d].slots) >= 2
      /\ inode[d].slots[1] = Slot(".", d)
      /\ \A k \in 3 .. Len(inode[d].slots) :
           inode[d].slots[k].ino # NONE => inode[d].slots[k].name \in Name
  BY <1>1 DEF Shaped
<1>4. inode[d].slots[2] = Slot("..", parent(d))
  <2>1. inode[d].slots[2] \in SlotType
    BY <1>1, <1>3
  <2> QED BY <2>1 DEF Shaped, parent, Slot, SlotType
<1>5. ASSUME NEW k
      PROVE  <<d, k>> \in NameSlots <=>
               k \in 3 .. Len(inode[d].slots) /\ inode[d].slots[k].ino # NONE
  <2>1. <<d, k>> \in NameSlots <=>
          /\ k \in 1 .. Len(inode[d].slots)
          /\ inode[d].slots[k].ino # NONE
          /\ inode[d].slots[k].name \notin {".", ".."}
    BY DEF NameSlots
  <2>2. k \in 3 .. Len(inode[d].slots) /\ inode[d].slots[k].ino # NONE =>
          inode[d].slots[k].name \notin {".", ".."}
    BY <1>3, UnixFsAssumption
  <2>3. k \in 1 .. Len(inode[d].slots) /\ k \notin 3 .. Len(inode[d].slots) => k = 1 \/ k = 2
    BY <1>3
  <2> QED BY <1>3, <1>4, <2>1, <2>2, <2>3 DEF Slot
<1> QED BY <1>1, <1>2, <1>3, <1>4, <1>5

LEMMA LookupDots ==
  ASSUME Types, Shaped, Nested, NEW d \in Dirs
  PROVE  lookup(d, ".") = d /\ lookup(d, "..") = parent(d)
<1>1. /\ d \in Ino /\ Len(inode[d].slots) \in Nat /\ Len(inode[d].slots) >= 2
      /\ inode[d].slots[1] = Slot(".", d) /\ inode[d].slots[2] = Slot("..", parent(d))
      /\ d # NONE /\ parent(d) # NONE
      /\ \A k \in 3 .. Len(inode[d].slots) :
           inode[d].slots[k].ino # NONE => inode[d].slots[k].name \in Name
  BY DirSlots
<1>2. ASSUME NEW k \in 1 .. Len(inode[d].slots), inode[d].slots[k].ino # NONE
      PROVE  /\ inode[d].slots[k].name = "." <=> k = 1
             /\ inode[d].slots[k].name = ".." <=> k = 2
  <2>1. CASE k \in 3 .. Len(inode[d].slots)
    <3>1. inode[d].slots[k].name \in Name
      BY <1>1, <1>2, <2>1
    <3>2. "." \notin Name /\ ".." \notin Name
      BY UnixFsAssumption
    <3> QED BY <2>1, <3>1, <3>2
  <2>2. CASE k = 1 \/ k = 2
    BY <1>1, <2>2 DEF Slot
  <2> QED BY <1>1, <2>1, <2>2
<1>3. Holding(d, ".") = {1} /\ Holding(d, "..") = {2}
  BY <1>1, <1>2 DEF Holding, Slot
<1>4. Types /\ d \in Ino /\ 1 \in Holding(d, ".") /\ 2 \in Holding(d, "..")
  BY <1>1, <1>3
<1>5. First(Holding(d, ".")) \in Holding(d, ".") /\ First(Holding(d, "..")) \in Holding(d, "..")
  BY <1>3, FirstMember
<1> QED BY <1>1, <1>3, <1>5 DEF lookup, Slot

\* A name that is found is in a name slot, and one that has a slot is found.
LEMMA LookupName ==
  ASSUME Types, Shaped, Nested, NEW d \in Dirs, NEW n \in Part, n \notin {".", ".."},
         lookup(d, n) # NONE
  PROVE  /\ n \in Name
         /\ First(Holding(d, n)) \in 3 .. Len(inode[d].slots)
         /\ <<d, First(Holding(d, n))>> \in NameSlots
         /\ NamedBy(<<d, First(Holding(d, n))>>) = lookup(d, n)
         /\ inode[d].slots[First(Holding(d, n))].name = n
<1> DEFINE k == First(Holding(d, n))
<1>1. k \in Holding(d, n) /\ lookup(d, n) = inode[d].slots[k].ino
  BY LookupFinds, DirSlots
<1> HIDE DEF k
<1>2. k \in 1 .. Len(inode[d].slots) /\ inode[d].slots[k].ino # NONE /\ inode[d].slots[k].name = n
  BY <1>1 DEF Holding
<1>3. k # 1 /\ k # 2
  <2>1. inode[d].slots[1].name = "." /\ inode[d].slots[2].name = ".."
    <3>1. inode[d].slots[1] = Slot(".", d) /\ inode[d].slots[2] = Slot("..", parent(d))
      BY DirSlots
    <3> QED BY <3>1 DEF Slot
  <2> QED BY <1>2, <2>1
<1>4. k \in 3 .. Len(inode[d].slots)
  BY <1>2, <1>3, DirSlots
<1>5. <<d, k>> \in NameSlots /\ NamedBy(<<d, k>>) = inode[d].slots[k].ino
  BY <1>2, <1>4, DirSlots DEF NamedBy
<1> QED BY <1>1, <1>2, <1>4, <1>5 DEF k, Part

TreeInv == Types /\ Shaped /\ Named /\ Nested

\* Paths lead to inodes in use, or nowhere.
LEMMA StepInUse ==
  ASSUME TreeInv, NEW x \in InUse \cup {NONE}, NEW n \in Part
  PROVE  Step(x, n) \in InUse \cup {NONE}
<1> USE DEF TreeInv
<1>1. CASE x = NONE \/ inode[x].mode # "dir" \/ lookup(x, n) = NONE
  BY <1>1 DEF Step
<1>2. CASE x # NONE /\ inode[x].mode = "dir" /\ lookup(x, n) # NONE
  <2>1. x \in Dirs
    BY <1>2 DEF Dirs, InUse
  <2>2. \A d \in Dirs : d \in InUse
    BY DEF Dirs, InUse
  <2>3. CASE n \in {".", ".."}
    BY <1>2, <2>1, <2>2, <2>3, LookupDots, DirSlots DEF Step
  <2>4. CASE n \notin {".", ".."}
    <3>1. \E s \in NameSlots : NamedBy(s) = lookup(x, n)
      BY <1>2, <2>1, <2>4, LookupName
    <3> QED BY <1>2, <3>1 DEF Named, Step
  <2> QED BY <2>3, <2>4
<1> QED BY <1>1, <1>2

LEMMA WalkInUse ==
  ASSUME TreeInv, NEW parts \in Seq(Part), NEW from \in InUse \cup {NONE}
  PROVE  Walk(parts, from) \in InUse \cup {NONE}
<1>1. from \in V
  BY DEF InUse, V
<1>2. PICK w : IsWalk(w, parts, from) /\ Walk(parts, from) = w[Len(parts)]
  BY <1>1, WalkIsWalk DEF TreeInv
<1> DEFINE n == Len(parts)
           S == {k \in Nat : k <= n => w[k] \in InUse \cup {NONE}}
<1>3. n \in Nat /\ w[0] = from /\ \A k \in 1 .. n : w[k] = Step(w[k - 1], parts[k])
  BY <1>2 DEF IsWalk
<1>4. 0 \in S
  BY <1>3
<1>5. ASSUME NEW k \in Nat, k \in S
      PROVE  k + 1 \in S
  <2> SUFFICES ASSUME k + 1 <= n
               PROVE  w[k + 1] \in InUse \cup {NONE}
    OBVIOUS
  <2>1. w[k + 1] = Step(w[k], parts[k + 1]) /\ parts[k + 1] \in Part
    BY <1>3
  <2>2. w[k] \in InUse \cup {NONE}
    BY <1>3, <1>5
  <2> QED BY <2>1, <2>2, StepInUse
<1> HIDE DEF S
<1>6. Nat \subseteq S
  BY <1>4, <1>5, Induction
<1> QED BY <1>2, <1>3, <1>6 DEF S

LEMMA PathParts ==
  ASSUME NEW path \in Paths \cup {NoPath}
  PROVE  path.parts \in Seq(Part) /\ path.abs \in BOOLEAN
<1>1. CASE path \in Paths
  BY <1>1, UnixFsAssumption
<1>2. CASE path = NoPath
  <2>1. << >> \in Seq(Part)
    OBVIOUS
  <2> QED BY <1>2, <2>1 DEF NoPath
<1> QED BY <1>1, <1>2

LEMMA StartInUse ==
  ASSUME TreeInv, Referred, NEW path
  PROVE  Start(path) \in InUse /\ Start(path) # NONE
BY UnixFsAssumption DEF TreeInv, Nested, Referred, Start, Dirs, InUse

LEMMA NameiInUse ==
  ASSUME TreeInv, Referred, NEW path \in Paths \cup {NoPath}
  PROVE  namei(path) \in InUse \cup {NONE}
BY PathParts, StartInUse, WalkInUse DEF namei

LEMMA ParentInUse ==
  ASSUME TreeInv, Referred, NEW path \in Paths, namei_parent(path) # NONE
  PROVE  /\ namei_parent(path) \in InUse
         /\ path.parts # << >>
         /\ basename(path) \in Part
<1>1. path.parts \in Seq(Part)
  BY PathParts
<1>2. path.parts # << >>
  BY DEF namei_parent
<1>3. SubSeq(path.parts, 1, Len(path.parts) - 1) \in Seq(Part) /\ basename(path) \in Part
  BY <1>1, <1>2 DEF basename
<1> QED BY <1>2, <1>3, StartInUse, WalkInUse DEF namei_parent

LEMMA FollowInUse ==
  ASSUME TreeInv, Referred, NEW path \in Paths \cup {NoPath}
  PROVE  /\ namei_follow(path) \in InUse \cup {NONE}
         /\ namei_follow(path) # NONE => inode[namei_follow(path)].mode # "link"
<1> DEFINE U == InUse \cup {NONE}
           Hop(x) == IF x # NONE /\ inode[x].mode = "link" THEN namei(inode[x].target) ELSE x
           at[h \in 1 .. HOPS] ==
             IF h = 1 THEN namei(path)
             ELSE IF at[h - 1] # NONE /\ inode[at[h - 1]].mode = "link"
             THEN namei(inode[at[h - 1]].target)
             ELSE at[h - 1]
           G == [x \in U \X (1 .. HOPS - 1) |-> Hop(x[1])]
<1>1. HOPS \in Nat /\ HOPS > 0
  BY UnixFsAssumption
<1>2. namei_follow(path) =
        IF at[HOPS] # NONE /\ inode[at[HOPS]].mode = "link" THEN NONE ELSE at[HOPS]
  BY DEF namei_follow
<1>3. namei(path) \in U
  BY NameiInUse
<1>4. ASSUME NEW x \in U
      PROVE  Hop(x) \in U
  <2>1. x # NONE => inode[x].target \in Paths \cup {NoPath}
    BY DEF TreeInv, Types, INode, InUse
  <2> QED BY <2>1, NameiInUse
<1>5. G \in [U \X (1 .. HOPS - 1) -> U]
  BY <1>4
<1>6. HOPS - 1 \in Nat
  BY <1>1
<1>7. \A x \in U, k \in 1 .. HOPS - 1 : G[<<x, k>>] = Hop(x)
  OBVIOUS
<1> HIDE DEF G
<1>8. PICK w : IsOrbit(w, U, namei(path), HOPS - 1, G)
  BY <1>3, <1>5, <1>6, Orbit
<1>9. at = [h \in 1 .. HOPS |-> IF h = 1 THEN namei(path) ELSE Hop(at[h - 1])]
  <2> DEFINE Def(g) == [h \in 1 .. HOPS |->
               IF h = 1 THEN namei(path)
               ELSE IF g[h - 1] # NONE /\ inode[g[h - 1]].mode = "link"
               THEN namei(inode[g[h - 1]].target)
               ELSE g[h - 1]]
             g == [h \in 1 .. HOPS |-> w[h - 1]]
  <2>1. g = Def(g)
    <3>1. ASSUME NEW h \in 1 .. HOPS
          PROVE  g[h] = Def(g)[h]
      <4>1. CASE h = 1
        BY <1>1, <1>8, <4>1 DEF IsOrbit
      <4>2. CASE h # 1
        <5>1. h - 1 \in 1 .. HOPS - 1 /\ h - 1 \in 1 .. HOPS /\ w[h - 2] \in U
          BY <1>1, <1>8, <4>2 DEF IsOrbit
        <5>2. w[h - 1] = G[<<w[h - 1 - 1], h - 1>>] /\ h - 1 - 1 = h - 2
          BY <1>8, <5>1 DEF IsOrbit
        <5>3. w[h - 1] = Hop(w[h - 2])
          BY <1>7, <5>1, <5>2
        <5>4. g[h - 1] = w[h - 2] /\ g[h] = w[h - 1]
          BY <5>1, <5>2
        <5> QED BY <4>2, <5>3, <5>4
      <4> QED BY <4>1, <4>2
    <3> QED BY <3>1, Zenon
  <2> HIDE DEF g
  <2>2. at = Def(at)
    BY <2>1, Zenon
  <2> QED BY <2>2
<1> HIDE DEF at
<1> DEFINE S == {k \in Nat : k + 1 <= HOPS => at[k + 1] \in U}
<1>10. 0 \in S
  BY <1>1, <1>3, <1>9
<1>11. ASSUME NEW k \in Nat, k \in S
       PROVE  k + 1 \in S
  <2> SUFFICES ASSUME k + 1 + 1 <= HOPS
               PROVE  at[k + 1 + 1] \in U
    OBVIOUS
  <2>1. at[k + 1 + 1] = Hop(at[k + 1])
    <3>1. PICK h \in 1 .. HOPS : h = k + 1 + 1 /\ h # 1 /\ h - 1 = k + 1
      BY <1>1
    <3>2. at[h] = IF h = 1 THEN namei(path)
                  ELSE IF at[h - 1] # NONE /\ inode[at[h - 1]].mode = "link"
                  THEN namei(inode[at[h - 1]].target) ELSE at[h - 1]
      BY <1>9
    <3>3. at[h] = Hop(at[h - 1])
      BY <3>1, <3>2
    <3> QED BY <3>1, <3>3
  <2> QED BY <1>1, <1>4, <1>11, <2>1
<1> HIDE DEF S
<1>12. at[HOPS] \in U
  <2>1. HOPS - 1 \in S
    BY <1>6, <1>10, <1>11, Induction
  <2> QED BY <1>1, <2>1 DEF S
<1> QED BY <1>2, <1>12

\* ---- Slots ----

\* A name n for i goes into slot p, a hole or the slot after the last.
AddedAt(new, old, p, n, i) ==
  /\ new \in Seq(SlotType)
  /\ p \in 3 .. Len(old) + 1
  /\ p <= Len(old) => old[p].ino = NONE
  /\ Len(new) = IF p <= Len(old) THEN Len(old) ELSE p
  /\ new[p] = Slot(n, i)
  /\ \A k \in 1 .. Len(old) : k # p => new[k] = old[k]

RemovedAt(new, old, p) ==
  /\ new \in Seq(SlotType)
  /\ Len(new) = Len(old)
  /\ new[p] = Hole
  /\ \A k \in 1 .. Len(old) : k # p => new[k] = old[k]

LEMMA LinkedAdds ==
  ASSUME TreeInv, NEW d \in Dirs, NEW n \in Name, NEW i \in Ino
  PROVE  \E p : AddedAt(Linked(d, n, i), inode[d].slots, p, n, i)
<1> DEFINE old == inode[d].slots
           holes == {k \in 1 .. Len(old) : old[k].ino = NONE}
<1>1. /\ old \in Seq(SlotType) /\ Len(old) \in Nat /\ Len(old) >= 2
      /\ old[1].ino # NONE /\ old[2].ino # NONE
  <2>1. /\ old \in Seq(SlotType) /\ Len(old) \in Nat /\ Len(old) >= 2
        /\ old[1] = Slot(".", d) /\ old[2] = Slot("..", parent(d))
        /\ d # NONE /\ parent(d) # NONE
    BY DirSlots DEF TreeInv
  <2> QED BY <2>1 DEF Slot
<1>2. Slot(n, i) \in SlotType
  BY DEF Slot, SlotType, Part
<1>3. Linked(d, n, i) = IF holes # {} THEN [old EXCEPT ![First(holes)] = Slot(n, i)]
                        ELSE Append(old, Slot(n, i))
  BY DEF Linked
<1> HIDE DEF old
<1>4. CASE holes # {}
  <2> DEFINE p == First(holes)
  <2>1. p \in holes
    <3>1. holes \subseteq Nat
      BY <1>1
    <3> HIDE DEF holes
    <3> QED BY <1>4, <3>1, FirstMember
  <2> HIDE DEF p
  <2>2. p \in 3 .. Len(old) /\ old[p].ino = NONE
    BY <1>1, <2>1
  <2>3. Linked(d, n, i) = [old EXCEPT ![p] = Slot(n, i)]
    BY <1>3, <1>4 DEF p
  <2>4. AddedAt(Linked(d, n, i), old, p, n, i)
    BY <1>1, <1>2, <2>2, <2>3 DEF AddedAt
  <2> QED BY <2>4 DEF old
<1>5. CASE holes = {}
  <2>1. AddedAt(Linked(d, n, i), old, Len(old) + 1, n, i)
    BY <1>1, <1>2, <1>3, <1>5 DEF AddedAt
  <2> QED BY <2>1 DEF old
<1> QED BY <1>4, <1>5

LEMMA UnlinkedRemoves ==
  ASSUME TreeInv, NEW d \in Dirs, NEW n \in Part, n \notin {".", ".."}, lookup(d, n) # NONE
  PROVE  \E p : /\ RemovedAt(Unlinked(d, n), inode[d].slots, p)
                /\ <<d, p>> \in NameSlots /\ NamedBy(<<d, p>>) = lookup(d, n)
                /\ NameAt(<<d, p>>) = n
<1> DEFINE old == inode[d].slots
           p == First(Holding(d, n))
<1>1. /\ p \in 3 .. Len(old) /\ <<d, p>> \in NameSlots
      /\ NamedBy(<<d, p>>) = lookup(d, n) /\ old[p].name = n
  BY LookupName DEF TreeInv
<1>2. old \in Seq(SlotType)
  BY DirSlots DEF TreeInv
<1>3. Hole \in SlotType
  BY DEF Hole, Slot, SlotType
<1>4. Unlinked(d, n) = [old EXCEPT ![p] = Hole]
  BY DEF Unlinked
<1> HIDE DEF old, p
<1>5. RemovedAt(Unlinked(d, n), old, p)
  BY <1>1, <1>2, <1>3, <1>4 DEF RemovedAt
<1> QED BY <1>1, <1>5 DEF old, NameAt

\* ---- A name is added ----

IsNameSlot(e, k) ==
  /\ e \in Dirs
  /\ k \in 1 .. Len(inode[e].slots)
  /\ inode[e].slots[k].ino # NONE
  /\ inode[e].slots[k].name \notin {".", ".."}

LEMMA InNameSlots ==
  /\ \A e, k : <<e, k>> \in NameSlots <=> IsNameSlot(e, k)
  /\ \A s \in NameSlots : s = <<s[1], s[2]>> /\ IsNameSlot(s[1], s[2])
BY DEF NameSlots, IsNameSlot

LEMMA InNameSlotsNext ==
  /\ \A e, k : <<e, k>> \in NameSlots' <=> IsNameSlot(e, k)'
  /\ \A s \in NameSlots' : s = <<s[1], s[2]>> /\ IsNameSlot(s[1], s[2])'
BY DEF NameSlots, IsNameSlot

\* How the inode i is changed when it gets a name in d.
IsNewFile(i) ==
  /\ i \notin InUse
  /\ inode'[i].mode \in {"file", "link"}
  /\ inode'[i].slots = << >>
  /\ inode'[i].nlink = 1

IsNewDir(i, d) == i \notin InUse /\ inode'[i] = NewDir(Dots(i, d))

IsLinked(i) ==
  /\ i \in InUse \ Dirs
  /\ inode'[i] = [inode[i] EXCEPT !.nlink = @ + 1]

\* And what else is changed.
Adds(d, p, n, i) ==
  /\ d \in Dirs /\ i \in Ino \ {root_ino} /\ n \in Name
  /\ inode' \in [Ino -> INode]
  /\ AddedAt(inode'[d].slots, inode[d].slots, p, n, i)
  /\ inode'[d].mode = inode[d].mode /\ inode'[d].nlink = inode[d].nlink
  /\ inode'[d].nblk = BlocksFor(inode'[d].slots)
  /\ Holding(d, n) = {}
  /\ \A j \in Ino \ {d, i} : inode'[j] = inode[j]
  /\ IsNewFile(i) \/ IsNewDir(i, d) \/ IsLinked(i)

LEMMA AddDirs ==
  ASSUME TreeInv, NEW d, NEW p, NEW n, NEW i, Adds(d, p, n, i)
  PROVE  /\ i # d /\ i \notin Dirs /\ InUse' = InUse \cup {i}
         /\ Dirs' = IF IsNewDir(i, d) THEN Dirs \cup {i} ELSE Dirs
         /\ \A e \in Dirs \ {d} : inode'[e] = inode[e]
<1>1. d \in Dirs /\ d \in Ino /\ d \in InUse /\ Dirs \subseteq InUse /\ InUse \subseteq Ino
  BY DEF Adds, Dirs, InUse
<1>2. i # d /\ i \notin Dirs
  BY <1>1 DEF Adds, IsNewFile, IsNewDir, IsLinked
<1>3. /\ \A j \in Ino \ {i} : inode'[j].mode = inode[j].mode
      /\ i \in Ino
  BY <1>1 DEF Adds
<1>4. inode'[i].mode # "none" /\ (inode'[i].mode = "dir" <=> IsNewDir(i, d))
  <2>1. CASE IsNewFile(i)
    BY <1>2, <2>1 DEF IsNewFile, IsNewDir, NewDir, Blank
  <2>2. CASE IsNewDir(i, d)
    BY <2>2 DEF IsNewDir, NewDir, Blank
  <2>3. CASE IsLinked(i)
    BY <1>2, <1>3, <2>3 DEF IsLinked, IsNewDir, InUse, Dirs, TreeInv, Types, INode
  <2> QED BY <2>1, <2>2, <2>3 DEF Adds
<1>5. InUse' = InUse \cup {i}
  BY <1>3, <1>4 DEF InUse
<1>6. Dirs' = IF IsNewDir(i, d) THEN Dirs \cup {i} ELSE Dirs
  BY <1>2, <1>3, <1>4 DEF Dirs
<1> QED BY <1>1, <1>2, <1>5, <1>6 DEF Adds

\* The name slots are those that there were and the new one.
LEMMA AddSlots ==
  ASSUME TreeInv, NEW d, NEW p, NEW n, NEW i, Adds(d, p, n, i)
  PROVE  /\ <<d, p>> \notin NameSlots
         /\ NameSlots' = NameSlots \cup {<<d, p>>}
         /\ \A s \in NameSlots : NamedBy(s)' = NamedBy(s)
         /\ NamedBy(<<d, p>>)' = i
<1>1. /\ d \in Dirs /\ i # NONE /\ n \in Name /\ n \notin {".", ".."}
      /\ AddedAt(inode'[d].slots, inode[d].slots, p, n, i)
  BY UnixFsAssumption DEF Adds
<1>2. /\ i # d /\ i \notin Dirs
      /\ Dirs' = IF IsNewDir(i, d) THEN Dirs \cup {i} ELSE Dirs
      /\ \A e \in Dirs \ {d} : inode'[e] = inode[e]
  BY AddDirs
<1>3. Len(inode[d].slots) \in Nat
  BY <1>1, DirSlots DEF TreeInv
<1>4. ~ IsNameSlot(d, p)
  BY <1>1, <1>3 DEF IsNameSlot, AddedAt
<1>5. ASSUME NEW e \in Dirs, NEW k
      PROVE  /\ IsNameSlot(e, k)' <=> (IsNameSlot(e, k) \/ <<e, k>> = <<d, p>>)
             /\ IsNameSlot(e, k) => inode'[e].slots[k].ino = inode[e].slots[k].ino
  <2>1. e \in Dirs'
    BY <1>2
  <2>2. CASE e # d
    BY <1>2, <2>1, <2>2 DEF IsNameSlot
  <2>3. CASE e = d /\ k = p
    BY <1>1, <1>3, <1>4, <2>1, <2>3 DEF IsNameSlot, AddedAt, Slot
  <2>4. CASE e = d /\ k # p
    <3>1. k \in 1 .. Len(inode'[d].slots) <=> k \in 1 .. Len(inode[d].slots)
      BY <1>1, <1>3, <2>4 DEF AddedAt
    <3>2. k \in 1 .. Len(inode[d].slots) => inode'[d].slots[k] = inode[d].slots[k]
      BY <1>1, <2>4 DEF AddedAt
    <3> QED BY <2>1, <2>4, <3>1, <3>2 DEF IsNameSlot
  <2> QED BY <2>2, <2>3, <2>4
<1>6. ASSUME NEW e \in Dirs' \ Dirs, NEW k
      PROVE  ~ IsNameSlot(e, k)'
  <2>1. e = i /\ inode'[i] = NewDir(Dots(i, d))
    BY <1>2 DEF IsNewDir
  <2>2. inode'[i].slots = Dots(i, d)
    BY <2>1 DEF NewDir, Blank
  <2> QED BY <2>1, <2>2 DEF IsNameSlot, Dots, Slot
<1>7. \A e, k : IsNameSlot(e, k)' <=> (IsNameSlot(e, k) \/ <<e, k>> = <<d, p>>)
  <2>1. \A e, k : (IsNameSlot(e, k) => e \in Dirs) /\ (IsNameSlot(e, k)' => e \in Dirs')
    BY DEF IsNameSlot
  <2> QED BY <1>1, <1>5, <1>6, <2>1
<1>8. NameSlots' = NameSlots \cup {<<d, p>>}
  <2>1. \A s : s \in NameSlots' => s \in NameSlots \cup {<<d, p>>}
    BY <1>7, InNameSlots, InNameSlotsNext
  <2>2. \A s : s \in NameSlots \cup {<<d, p>>} => s \in NameSlots'
    BY <1>7, InNameSlots, InNameSlotsNext
  <2> QED BY <2>1, <2>2
<1>9. \A s \in NameSlots : NamedBy(s)' = NamedBy(s)
  BY <1>5, InNameSlots DEF NamedBy, IsNameSlot
<1>10. NamedBy(<<d, p>>)' = i
  BY <1>1 DEF NamedBy, AddedAt, Slot
<1> QED BY <1>4, <1>8, <1>9, <1>10, InNameSlots

LEMMA AddParents ==
  ASSUME TreeInv, NEW d, NEW p, NEW n, NEW i, Adds(d, p, n, i)
  PROVE  /\ \A e \in Dirs : parent(e)' = parent(e)
         /\ IsNewDir(i, d) => parent(i)' = d
<1>1. d \in Dirs /\ AddedAt(inode'[d].slots, inode[d].slots, p, n, i)
  BY DEF Adds
<1>2. Len(inode[d].slots) \in Nat /\ Len(inode[d].slots) >= 2
  BY <1>1, DirSlots DEF TreeInv
<1>3. \A e \in Dirs \ {d} : inode'[e] = inode[e]
  BY AddDirs
<1>4. inode'[d].slots[2] = inode[d].slots[2]
  BY <1>1, <1>2 DEF AddedAt
<1>5. \A e \in Dirs : parent(e)' = parent(e)
  BY <1>3, <1>4 DEF parent
<1>6. ASSUME IsNewDir(i, d)
      PROVE  parent(i)' = d
  <2>1. inode'[i].slots = Dots(i, d)
    BY <1>6 DEF IsNewDir, NewDir, Blank
  <2>2. Dots(i, d)[2].ino = d
    BY DEF Dots, Slot
  <2> QED BY <2>1, <2>2 DEF parent
<1> QED BY <1>5, <1>6

LEMMA AddShaped ==
  ASSUME TreeInv, NEW d, NEW p, NEW n, NEW i, Adds(d, p, n, i)
  PROVE  Shaped'
<1> DEFINE new == inode'[d].slots
           old == inode[d].slots
<1>1. /\ d \in Dirs /\ i # NONE /\ n \in Name /\ AddedAt(new, old, p, n, i)
      /\ i \in Ino /\ inode'[i] \in INode
  BY UnixFsAssumption DEF Adds
<1>2. /\ i # d /\ i \notin Dirs /\ InUse' = InUse \cup {i}
      /\ Dirs' = IF IsNewDir(i, d) THEN Dirs \cup {i} ELSE Dirs
      /\ \A e \in Dirs \ {d} : inode'[e] = inode[e]
  BY AddDirs
<1>3. /\ Len(old) \in Nat /\ Len(old) >= 2
      /\ old[1] = Slot(".", d) /\ old[2].name = ".." /\ inode[d].nlink = 1
      /\ \A k \in 3 .. Len(old) : old[k].ino # NONE => old[k].name \in Name
      /\ \A j, k \in 3 .. Len(old) :
           /\ old[j].ino # NONE /\ old[k].ino # NONE /\ old[j].name = old[k].name
           => j = k
  BY <1>1, DirSlots DEF TreeInv, Shaped
<1>4. ASSUME NEW k \in 3 .. Len(new)
      PROVE  IF k = p THEN new[k] = Slot(n, i)
             ELSE k \in 3 .. Len(old) /\ new[k] = old[k]
  BY <1>1, <1>3 DEF AddedAt
<1>5. ASSUME NEW k \in 3 .. Len(old), old[k].ino # NONE
      PROVE  old[k].name # n
  <2>1. Holding(d, n) = {}
    BY DEF Adds
  <2> QED BY <1>5, <2>1 DEF Holding
<1>6. /\ Len(new) >= 2 /\ new[1] = Slot(".", d) /\ new[2].name = ".."
      /\ inode'[d].nlink = 1 /\ inode'[d].nblk = BlocksFor(new)
  BY SMTT(30), <1>1, <1>3 DEF AddedAt, Adds
<1>7. \A k \in 3 .. Len(new) : new[k].ino # NONE => new[k].name \in Name
  BY SMTT(30), <1>1, <1>3, <1>4 DEF Slot
<1>8. ASSUME NEW j \in 3 .. Len(new), NEW k \in 3 .. Len(new),
             new[j].ino # NONE, new[k].ino # NONE, new[j].name = new[k].name
      PROVE  j = k
  <2>1. CASE j = p /\ k # p
    BY <1>4, <1>5, <1>8, <2>1 DEF Slot
  <2>2. CASE j # p /\ k = p
    BY <1>4, <1>5, <1>8, <2>2 DEF Slot
  <2>3. CASE j # p /\ k # p
    BY SMTT(90), <1>3, <1>4, <1>8, <2>3
  <2> QED BY <2>1, <2>2, <2>3
<1> DEFINE Good(e) ==
             /\ Len(inode'[e].slots) >= 2
             /\ inode'[e].slots[1] = Slot(".", e)
             /\ inode'[e].slots[2].name = ".."
             /\ inode'[e].nlink = 1
             /\ inode'[e].nblk = BlocksFor(inode'[e].slots)
             /\ \A k \in 3 .. Len(inode'[e].slots) :
                  inode'[e].slots[k].ino # NONE => inode'[e].slots[k].name \in Name
             /\ \A j, k \in 3 .. Len(inode'[e].slots) :
                  /\ inode'[e].slots[j].ino # NONE /\ inode'[e].slots[k].ino # NONE
                  /\ inode'[e].slots[j].name = inode'[e].slots[k].name
                  => j = k
<1>9. Good(d)
  BY <1>6, <1>7, <1>8
<1>10. ASSUME NEW e \in Dirs \ {d}
       PROVE  Good(e)
  BY SMTT(30), <1>2 DEF TreeInv, Shaped
<1>11. ASSUME IsNewDir(i, d)
       PROVE  Good(i)
  <2>1. /\ inode'[i].slots = Dots(i, d) /\ inode'[i].nlink = 1
        /\ inode'[i].nblk = BlocksFor(Dots(i, d))
    BY <1>11 DEF IsNewDir, NewDir, Blank
  <2>2. Len(Dots(i, d)) = 2 /\ Dots(i, d)[1] = Slot(".", i) /\ Dots(i, d)[2].name = ".."
    BY DEF Dots, Slot
  <2> QED BY <2>1, <2>2
<1>12. \A e \in Dirs' : Good(e)
  BY <1>2, <1>9, <1>10, <1>11
<1>13. ASSUME NEW j \in Ino \ Dirs'
       PROVE  inode'[j].slots = << >>
  <2>1. j # d /\ j \notin Dirs
    BY <1>1, <1>2
  <2>2. CASE j # i
    BY <2>1, <2>2 DEF Adds, TreeInv, Shaped
  <2>3. CASE j = i
    <3>1. IsNewFile(i) \/ IsLinked(i)
      BY <1>2, <1>13, <2>3 DEF Adds
    <3>2. inode[i].slots = << >>
      BY <2>1, <2>3 DEF TreeInv, Shaped
    <3>3. IsLinked(i) => inode'[i].slots = inode[i].slots
      BY <1>1 DEF IsLinked, TreeInv, Types, INode
    <3> QED BY <2>3, <3>1, <3>2, <3>3 DEF IsNewFile
  <2> QED BY <2>2, <2>3
<1>14. ASSUME NEW j \in Ino \ InUse'
       PROVE  inode'[j] = Blank
  <2>1. j # i /\ j \notin InUse /\ j # d
    BY <1>1, <1>2 DEF Dirs, InUse
  <2> QED BY <2>1 DEF Adds, TreeInv, Shaped
<1> HIDE DEF new, old
<1> QED BY <1>12, <1>13, <1>14 DEF Shaped

LEMMA AddNamed ==
  ASSUME TreeInv, NEW d, NEW p, NEW n, NEW i, Adds(d, p, n, i)
  PROVE  Named'
<1>1. /\ <<d, p>> \notin NameSlots
      /\ NameSlots' = NameSlots \cup {<<d, p>>}
      /\ \A s \in NameSlots : NamedBy(s)' = NamedBy(s)
      /\ NamedBy(<<d, p>>)' = i
  BY AddSlots
<1>2. i # root_ino /\ i # d /\ i \in Ino /\ InUse' = InUse \cup {i}
  BY AddDirs DEF Adds
<1>3. \A s \in NameSlots' : NamedBy(s)' \in InUse' \ {root_ino}
  BY <1>1, <1>2 DEF TreeInv, Named
<1>4. \A j : Naming(j)' = IF j = i THEN Naming(j) \cup {<<d, p>>} ELSE Naming(j)
  BY <1>1 DEF Naming
<1>5. ASSUME NEW j \in InUse' \ {root_ino}, j # i
      PROVE  IsFiniteSet(Naming(j)') /\ Cardinality(Naming(j)') = inode'[j].nlink /\ inode'[j].nlink > 0
  <2>1. j \in InUse \ {root_ino} /\ j \in Ino
    BY <1>2, <1>5 DEF InUse
  <2>2. inode'[j].nlink = inode[j].nlink
    BY <1>5, <2>1 DEF Adds
  <2> QED BY <1>4, <1>5, <2>1, <2>2 DEF TreeInv, Named
<1>6. IsFiniteSet(Naming(i)') /\ Cardinality(Naming(i)') = inode'[i].nlink /\ inode'[i].nlink > 0
  <2>1. <<d, p>> \notin Naming(i) /\ Naming(i)' = Naming(i) \cup {<<d, p>>}
    BY <1>1, <1>4 DEF Naming
  <2>2. CASE i \notin InUse
    <3>1. Naming(i) = {}
      BY <2>2 DEF Naming, TreeInv, Named
    <3>2. inode'[i].nlink = 1
      BY <2>2 DEF Adds, IsNewFile, IsNewDir, IsLinked, NewDir, Blank
    <3>3. Naming(i)' = {<<d, p>>}
      BY <2>1, <3>1
    <3>4. IsFiniteSet({<<d, p>>}) /\ Cardinality({<<d, p>>}) = 1
      BY FS_Singleton
    <3> QED BY <3>2, <3>3, <3>4
  <2>3. CASE i \in InUse
    <3>1. IsLinked(i) /\ inode[i] \in INode
      BY <1>2, <2>3 DEF Adds, IsNewFile, IsNewDir, TreeInv, Types
    <3>2. inode'[i].nlink = inode[i].nlink + 1 /\ inode[i].nlink \in Nat
      BY <3>1 DEF IsLinked, INode
    <3>3. IsFiniteSet(Naming(i)) /\ Cardinality(Naming(i)) = inode[i].nlink
      BY <1>2, <2>3 DEF TreeInv, Named
    <3> DEFINE S == Naming(i)
    <3>4. IsFiniteSet(S \cup {<<d, p>>}) /\ Cardinality(S \cup {<<d, p>>}) = Cardinality(S) + 1
      <4>1. IsFiniteSet(S) /\ <<d, p>> \notin S
        BY <2>1, <3>3
      <4> HIDE DEF S
      <4> QED BY <4>1, FS_AddElement
    <3> QED BY <2>1, <3>2, <3>3, <3>4
  <2> QED BY <2>2, <2>3
<1>7. \A j \in InUse' \ {root_ino} :
        IsFiniteSet(Naming(j)') /\ Cardinality(Naming(j)') = inode'[j].nlink /\ inode'[j].nlink > 0
  BY <1>5, <1>6
<1> QED BY <1>3, <1>7 DEF Named

LEMMA AddNested ==
  ASSUME TreeInv, NEW d, NEW p, NEW n, NEW i, Adds(d, p, n, i)
  PROVE  Nested'
<1>1. /\ NameSlots' = NameSlots \cup {<<d, p>>}
      /\ \A s \in NameSlots : NamedBy(s)' = NamedBy(s)
      /\ NamedBy(<<d, p>>)' = i
  BY AddSlots
<1>2. /\ i # d /\ i \notin Dirs /\ i \in Ino /\ i # root_ino /\ d \in Dirs
      /\ Dirs' = IF IsNewDir(i, d) THEN Dirs \cup {i} ELSE Dirs
  BY AddDirs DEF Adds
<1>3. /\ \A e \in Dirs : parent(e)' = parent(e)
      /\ IsNewDir(i, d) => parent(i)' = d
  BY AddParents
<1>4. /\ root_ino \in Dirs /\ parent(root_ino) = root_ino
      /\ \A e \in Dirs : parent(e) \in Dirs
      /\ \A s \in NameSlots : NamedBy(s) \in Dirs => parent(NamedBy(s)) = s[1]
      /\ \A e \in Dirs \ {root_ino} : Naming(e) # {}
  BY DEF TreeInv, Nested
<1>5. root_ino \in Dirs' /\ parent(root_ino)' = root_ino
  BY <1>2, <1>3, <1>4
<1>6. \A e \in Dirs' : parent(e)' \in Dirs'
  BY <1>2, <1>3, <1>4
<1>7. ASSUME NEW s \in NameSlots', NEW e \in Dirs', e = NamedBy(s)'
      PROVE  parent(e)' = s[1]
  <2>1. CASE s = <<d, p>>
    BY <1>1, <1>2, <1>3, <1>7, <2>1
  <2>2. CASE s \in NameSlots /\ NamedBy(s) = i
    <3>1. i \in InUse
      BY <2>2 DEF TreeInv, Named
    <3>2. ~ IsNewDir(i, d)
      BY <3>1 DEF IsNewDir
    <3> QED BY <1>1, <1>2, <1>7, <2>2, <3>2
  <2>3. CASE s \in NameSlots /\ NamedBy(s) # i
    BY <1>1, <1>2, <1>3, <1>4, <1>7, <2>3
  <2> QED BY <1>1, <2>1, <2>2, <2>3
<1>8. \A e \in Dirs' \ {root_ino} : Naming(e)' # {}
  BY <1>1, <1>2, <1>4 DEF Naming
<1>9. \E depth \in [Ino -> Nat] :
        /\ depth[root_ino] = 0
        /\ \A e \in Dirs' \ {root_ino} : depth[e] = depth[parent(e)'] + 1
  <2>1. PICK depth \in [Ino -> Nat] :
          /\ depth[root_ino] = 0
          /\ \A e \in Dirs \ {root_ino} : depth[e] = depth[parent(e)] + 1
    BY DEF TreeInv, Nested
  <2>2. Dirs \subseteq Ino
    BY DEF Dirs
  <2> DEFINE g == [depth EXCEPT ![i] = depth[d] + 1]
  <2>3. g \in [Ino -> Nat] /\ g[root_ino] = 0
    BY <1>2, <2>1, <2>2
  <2>4. ASSUME NEW e \in Dirs' \ {root_ino}
        PROVE  g[e] = g[parent(e)'] + 1
    <3>1. CASE e = i
      BY <1>2, <1>3, <2>1, <2>2, <2>4, <3>1
    <3>2. CASE e # i
      <4>1. e \in Dirs \ {root_ino} /\ parent(e)' = parent(e) /\ parent(e) \in Dirs
        BY <1>2, <1>3, <1>4, <2>4, <3>2
      <4>2. g[e] = depth[e] /\ g[parent(e)] = depth[parent(e)]
        BY <1>2, <2>2, <3>2, <4>1
      <4> QED BY <2>1, <4>1, <4>2
    <3> QED BY <3>1, <3>2
  <2> HIDE DEF g
  <2> QED BY <2>3, <2>4
<1>10. \A s \in NameSlots' : NamedBy(s)' \in Dirs' => parent(NamedBy(s))' = s[1]
  BY <1>7 DEF parent
<1> QED BY <1>5, <1>6, <1>8, <1>9, <1>10 DEF Nested

\* ---- A name is removed ----

\* The inode i keeps another name, or it goes with its last.
IsUnlinked(i) ==
  /\ i \notin Dirs /\ inode[i].nlink # 1
  /\ inode'[i] = [inode[i] EXCEPT !.nlink = @ - 1]

IsGone(i) ==
  /\ inode[i].nlink = 1
  /\ i \in Dirs => is_empty(i)
  /\ inode'[i] = Blank

\* And what else is changed.
Removes(d, p, i) ==
  /\ <<d, p>> \in NameSlots /\ NamedBy(<<d, p>>) = i
  /\ inode' \in [Ino -> INode]
  /\ RemovedAt(inode'[d].slots, inode[d].slots, p)
  /\ inode'[d].mode = inode[d].mode /\ inode'[d].nlink = inode[d].nlink
  /\ inode'[d].nblk = inode[d].nblk
  /\ \A j \in Ino \ {d, i} : inode'[j] = inode[j]
  /\ IsUnlinked(i) \/ IsGone(i)

LEMMA HoleIsEmpty ==
  Hole.ino = NONE
BY DEF Hole, Slot

\* No directory holds a name of itself.
LEMMA NotInItself ==
  ASSUME TreeInv, NEW d, NEW p, <<d, p>> \in NameSlots
  PROVE  /\ d \in Dirs
         /\ NamedBy(<<d, p>>) # d
         /\ NamedBy(<<d, p>>) \in InUse \ {root_ino}
<1>1. d \in Dirs /\ NamedBy(<<d, p>>) \in InUse \ {root_ino}
  BY InNameSlots DEF IsNameSlot, TreeInv, Named
<1>2. ASSUME NamedBy(<<d, p>>) = d
      PROVE  FALSE
  <2>1. parent(d) = d /\ d # root_ino /\ d \in Ino
    BY <1>1, <1>2 DEF TreeInv, Nested, Dirs
  <2>2. PICK depth \in [Ino -> Nat] : \A e \in Dirs \ {root_ino} : depth[e] = depth[parent(e)] + 1
    BY DEF TreeInv, Nested
  <2>3. depth[d] = depth[d] + 1 /\ depth[d] \in Nat
    BY <1>1, <2>1, <2>2
  <2> QED BY <2>3
<1> QED BY <1>1, <1>2

LEMMA RemoveDirs ==
  ASSUME TreeInv, NEW d, NEW p, NEW i, Removes(d, p, i)
  PROVE  /\ i # d /\ d \in Dirs /\ i \in InUse \ {root_ino} /\ i \in Ino
         /\ InUse' = IF IsGone(i) THEN InUse \ {i} ELSE InUse
         /\ Dirs' = IF IsGone(i) THEN Dirs \ {i} ELSE Dirs
         /\ \A e \in Dirs \ {d, i} : inode'[e] = inode[e]
<1>1. i # d /\ d \in Dirs /\ i \in InUse \ {root_ino} /\ i \in Ino
  BY NotInItself DEF Removes, InUse
<1>2. Dirs \subseteq Ino
  BY DEF Dirs
<1>3. \A j \in Ino \ {i} : inode'[j].mode = inode[j].mode
  BY <1>1, <1>2 DEF Removes
<1>4. CASE IsGone(i)
  <2>1. inode'[i].mode = "none"
    BY <1>4 DEF IsGone, Blank
  <2> QED BY <1>1, <1>2, <1>3, <1>4, <2>1 DEF InUse, Dirs, Removes
<1>5. CASE ~ IsGone(i)
  <2>1. IsUnlinked(i) /\ inode[i] \in INode
    BY <1>1, <1>5 DEF Removes, TreeInv, Types
  <2>2. inode'[i].mode = inode[i].mode
    BY <2>1 DEF IsUnlinked, INode
  <2> QED BY <1>1, <1>2, <1>3, <1>5, <2>2 DEF InUse, Dirs, Removes
<1> QED BY <1>4, <1>5

\* The name slots are those that there were without the one.
LEMMA RemoveSlots ==
  ASSUME TreeInv, NEW d, NEW p, NEW i, Removes(d, p, i)
  PROVE  /\ NameSlots' = NameSlots \ {<<d, p>>}
         /\ \A s \in NameSlots' : NamedBy(s)' = NamedBy(s)
         /\ IsGone(i) => \A k : <<i, k>> \notin NameSlots
<1>1. /\ i # d /\ d \in Dirs
      /\ Dirs' = IF IsGone(i) THEN Dirs \ {i} ELSE Dirs
      /\ \A e \in Dirs \ {d, i} : inode'[e] = inode[e]
  BY RemoveDirs
<1>2. /\ RemovedAt(inode'[d].slots, inode[d].slots, p)
      /\ p \in 1 .. Len(inode[d].slots)
  BY InNameSlots DEF Removes, IsNameSlot
<1>3. IsGone(i) => \A k : ~ IsNameSlot(i, k)
  BY DEF IsGone, IsNameSlot, is_empty
<1>4. i \notin Dirs \/ IsGone(i)
  BY DEF Removes, IsUnlinked
<1>5. ASSUME NEW e \in Dirs', NEW k
      PROVE  /\ IsNameSlot(e, k)' <=> IsNameSlot(e, k) /\ <<e, k>> # <<d, p>>
             /\ IsNameSlot(e, k)' => inode'[e].slots[k].ino = inode[e].slots[k].ino
  <2>1. e \in Dirs /\ e # i
    BY <1>1, <1>4
  <2>2. CASE e # d
    BY <1>1, <2>1, <2>2 DEF IsNameSlot
  <2>3. CASE e = d /\ k = p
    BY <1>2, <2>3, HoleIsEmpty DEF IsNameSlot, RemovedAt
  <2>4. CASE e = d /\ k # p
    <3>1. Len(inode'[d].slots) = Len(inode[d].slots)
      BY <1>2 DEF RemovedAt
    <3>2. k \in 1 .. Len(inode[d].slots) => inode'[d].slots[k] = inode[d].slots[k]
      BY <1>2, <2>4 DEF RemovedAt
    <3> QED BY <2>1, <2>4, <3>1, <3>2 DEF IsNameSlot
  <2> QED BY <2>2, <2>3, <2>4
<1>6. \A e, k : IsNameSlot(e, k)' <=> IsNameSlot(e, k) /\ <<e, k>> # <<d, p>>
  <2>1. \A e, k : (IsNameSlot(e, k) => e \in Dirs) /\ (IsNameSlot(e, k)' => e \in Dirs')
    BY DEF IsNameSlot
  <2> QED BY <1>1, <1>3, <1>5, <2>1
<1>7. NameSlots' = NameSlots \ {<<d, p>>}
  <2>1. \A s : s \in NameSlots' => s \in NameSlots \ {<<d, p>>}
    BY <1>6, InNameSlots, InNameSlotsNext
  <2>2. \A s : s \in NameSlots \ {<<d, p>>} => s \in NameSlots'
    BY <1>6, InNameSlots, InNameSlotsNext
  <2> QED BY <2>1, <2>2
<1>8. \A s \in NameSlots' : NamedBy(s)' = NamedBy(s)
  <2>1. ASSUME NEW s \in NameSlots'
        PROVE  s[1] \in Dirs' /\ IsNameSlot(s[1], s[2])'
    BY InNameSlotsNext DEF IsNameSlot
  <2> QED BY <1>5, <2>1 DEF NamedBy
<1> QED BY <1>3, <1>7, <1>8, InNameSlots

LEMMA RemoveShaped ==
  ASSUME TreeInv, NEW d, NEW p, NEW i, Removes(d, p, i)
  PROVE  Shaped'
<1> DEFINE new == inode'[d].slots
           old == inode[d].slots
<1>1. /\ i # d /\ d \in Dirs /\ i \in Ino
      /\ InUse' = IF IsGone(i) THEN InUse \ {i} ELSE InUse
      /\ Dirs' = IF IsGone(i) THEN Dirs \ {i} ELSE Dirs
      /\ \A e \in Dirs \ {d, i} : inode'[e] = inode[e]
  BY RemoveDirs
<1>2. RemovedAt(new, old, p) /\ p \in 3 .. Len(old)
  BY <1>1, DirSlots DEF Removes, TreeInv
<1>3. /\ Len(old) \in Nat /\ Len(old) >= 2
      /\ old[1] = Slot(".", d) /\ old[2].name = ".."
      /\ inode[d].nlink = 1 /\ inode[d].nblk = BlocksFor(old)
      /\ \A k \in 3 .. Len(old) : old[k].ino # NONE => old[k].name \in Name
      /\ \A j, k \in 3 .. Len(old) :
           /\ old[j].ino # NONE /\ old[k].ino # NONE /\ old[j].name = old[k].name
           => j = k
  BY <1>1, DirSlots DEF TreeInv, Shaped
<1>4. ASSUME NEW k \in 3 .. Len(new), new[k].ino # NONE
      PROVE  k \in 3 .. Len(old) /\ new[k] = old[k]
  BY <1>2, <1>3, <1>4, HoleIsEmpty DEF RemovedAt
<1>5. /\ Len(new) = Len(old) /\ new[1] = old[1] /\ new[2] = old[2]
      /\ inode'[d].nlink = 1 /\ inode'[d].nblk = BlocksFor(new)
  BY <1>2, <1>3 DEF RemovedAt, Removes, BlocksFor
<1> DEFINE Good(e) ==
             /\ Len(inode'[e].slots) >= 2
             /\ inode'[e].slots[1] = Slot(".", e)
             /\ inode'[e].slots[2].name = ".."
             /\ inode'[e].nlink = 1
             /\ inode'[e].nblk = BlocksFor(inode'[e].slots)
             /\ \A k \in 3 .. Len(inode'[e].slots) :
                  inode'[e].slots[k].ino # NONE => inode'[e].slots[k].name \in Name
             /\ \A j, k \in 3 .. Len(inode'[e].slots) :
                  /\ inode'[e].slots[j].ino # NONE /\ inode'[e].slots[k].ino # NONE
                  /\ inode'[e].slots[j].name = inode'[e].slots[k].name
                  => j = k
<1>6. Good(d)
  BY SMTT(30), <1>3, <1>4, <1>5
<1>7. i \notin Dirs \/ IsGone(i)
  BY DEF Removes, IsUnlinked
<1>8. \A e \in Dirs' : Good(e)
  <2>1. ASSUME NEW e \in Dirs \ {d, i}
        PROVE  Good(e)
    BY <1>1 DEF TreeInv, Shaped
  <2> QED BY <1>1, <1>6, <1>7, <2>1
<1>9. ASSUME NEW j \in Ino \ Dirs'
      PROVE  inode'[j].slots = << >>
  <2>1. CASE j # i
    BY <1>1, <1>9, <2>1 DEF Removes, TreeInv, Shaped
  <2>2. CASE j = i /\ IsGone(i)
    BY <2>2 DEF IsGone, Blank
  <2>3. CASE j = i /\ ~ IsGone(i)
    <3>1. IsUnlinked(i) /\ inode[i] \in INode
      BY <1>1, <2>3 DEF Removes, TreeInv, Types
    <3>2. inode'[i].slots = inode[i].slots
      BY <3>1 DEF IsUnlinked, INode
    <3> QED BY <1>1, <2>3, <3>1, <3>2 DEF IsUnlinked, TreeInv, Shaped
  <2> QED BY <2>1, <2>2, <2>3
<1>10. ASSUME NEW j \in Ino \ InUse'
       PROVE  inode'[j] = Blank
  <2>1. CASE j # i
    <3>1. j \notin InUse /\ j # d
      BY <1>1, <1>10, <2>1 DEF Dirs, InUse
    <3> QED BY <2>1, <3>1 DEF Removes, TreeInv, Shaped
  <2>2. CASE j = i
    BY <1>1, <1>10, <2>2, RemoveDirs DEF IsGone
  <2> QED BY <2>1, <2>2
<1> HIDE DEF new, old
<1> QED BY <1>8, <1>9, <1>10 DEF Shaped

LEMMA RemoveNamed ==
  ASSUME TreeInv, NEW d, NEW p, NEW i, Removes(d, p, i)
  PROVE  Named'
<1>1. /\ NameSlots' = NameSlots \ {<<d, p>>}
      /\ \A s \in NameSlots' : NamedBy(s)' = NamedBy(s)
  BY RemoveSlots
<1>2. /\ i # d /\ i \in InUse \ {root_ino} /\ i \in Ino
      /\ InUse' = IF IsGone(i) THEN InUse \ {i} ELSE InUse
  BY RemoveDirs
<1>3. \A j : Naming(j)' = IF j = i THEN Naming(j) \ {<<d, p>>} ELSE Naming(j)
  BY <1>1 DEF Naming, Removes
<1>4. /\ IsFiniteSet(Naming(i)') /\ Cardinality(Naming(i)') = inode[i].nlink - 1
      /\ Cardinality(Naming(i)') = 0 => Naming(i)' = {}
  <2>1. IsFiniteSet(Naming(i)) /\ Cardinality(Naming(i)) = inode[i].nlink
    BY <1>2 DEF TreeInv, Named
  <2>2. <<d, p>> \in Naming(i) /\ Naming(i)' = Naming(i) \ {<<d, p>>}
    BY <1>3 DEF Naming, Removes
  <2> DEFINE S == Naming(i)
  <2>3. /\ IsFiniteSet(S \ {<<d, p>>}) /\ Cardinality(S \ {<<d, p>>}) = Cardinality(S) - 1
        /\ Cardinality(S \ {<<d, p>>}) = 0 => S \ {<<d, p>>} = {}
    <3>1. IsFiniteSet(S) /\ <<d, p>> \in S
      BY <2>1, <2>2
    <3> HIDE DEF S
    <3> QED BY <3>1, FS_RemoveElement, FS_EmptySet
  <2> QED BY <2>1, <2>2, <2>3
<1>5. IsGone(i) => Naming(i)' = {}
  BY <1>4 DEF IsGone
<1>6. \A s \in NameSlots' : NamedBy(s)' \in InUse' \ {root_ino}
  <2>1. ASSUME NEW s \in NameSlots'
        PROVE  NamedBy(s)' \in InUse \ {root_ino} /\ (NamedBy(s)' = i => Naming(i)' # {})
    BY <1>1 DEF TreeInv, Named, Naming
  <2> QED BY <1>2, <1>5, <2>1
<1>7. ASSUME NEW j \in InUse' \ {root_ino}
      PROVE  IsFiniteSet(Naming(j)') /\ Cardinality(Naming(j)') = inode'[j].nlink /\ inode'[j].nlink > 0
  <2>1. CASE j # i
    <3>1. j \in InUse \ {root_ino} /\ j \in Ino
      BY <1>2, <1>7 DEF InUse
    <3>2. inode'[j].nlink = inode[j].nlink
      BY <2>1, <3>1 DEF Removes
    <3> QED BY <1>3, <2>1, <3>1, <3>2 DEF TreeInv, Named
  <2>2. CASE j = i
    <3>1. IsUnlinked(i) /\ inode[i] \in INode
      BY <1>2, <1>7, <2>2 DEF Removes, TreeInv, Types
    <3>2. inode'[i].nlink = inode[i].nlink - 1
      BY <3>1 DEF IsUnlinked, INode
    <3>3. inode[i].nlink \in Nat /\ inode[i].nlink > 0 /\ inode[i].nlink # 1
      BY <1>2, <3>1 DEF IsUnlinked, INode, TreeInv, Named
    <3> QED BY <1>4, <2>2, <3>2, <3>3
  <2> QED BY <2>1, <2>2
<1> QED BY <1>6, <1>7 DEF Named

LEMMA RemoveNested ==
  ASSUME TreeInv, NEW d, NEW p, NEW i, Removes(d, p, i)
  PROVE  Nested'
<1>1. /\ NameSlots' = NameSlots \ {<<d, p>>}
      /\ \A s \in NameSlots' : NamedBy(s)' = NamedBy(s)
      /\ IsGone(i) => \A k : <<i, k>> \notin NameSlots
      /\ \A s \in NameSlots : s = <<s[1], s[2]>>
  BY RemoveSlots, InNameSlots
<1>2. /\ i # d /\ d \in Dirs /\ i # root_ino /\ i \in Ino
      /\ Dirs' = IF IsGone(i) THEN Dirs \ {i} ELSE Dirs
      /\ \A e \in Dirs \ {d, i} : inode'[e] = inode[e]
  BY RemoveDirs
<1>3. i \notin Dirs \/ IsGone(i)
  BY DEF Removes, IsUnlinked
<1>4. \A e \in Dirs' : e # i /\ e \in Dirs /\ parent(e)' = parent(e)
  <2>1. RemovedAt(inode'[d].slots, inode[d].slots, p) /\ p \in 3 .. Len(inode[d].slots)
    BY <1>2, DirSlots DEF Removes, TreeInv
  <2>2. Len(inode[d].slots) \in Nat /\ Len(inode[d].slots) >= 2
    BY <1>2, DirSlots DEF TreeInv
  <2>3. inode'[d].slots[2] = inode[d].slots[2]
    BY <2>1, <2>2 DEF RemovedAt
  <2> QED BY <1>2, <1>3, <2>3 DEF parent
<1>5. /\ root_ino \in Dirs /\ parent(root_ino) = root_ino
      /\ \A e \in Dirs : parent(e) \in Dirs
      /\ \A s \in NameSlots : NamedBy(s) \in Dirs => parent(NamedBy(s)) = s[1]
      /\ \A e \in Dirs \ {root_ino} : Naming(e) # {}
  BY DEF TreeInv, Nested
<1>6. root_ino \in Dirs' /\ parent(root_ino)' = root_ino
  BY <1>2, <1>4, <1>5
<1>7. ASSUME NEW e \in Dirs'
      PROVE  parent(e)' \in Dirs'
  <2>1. CASE e = root_ino
    BY <1>6, <2>1
  <2>2. CASE e # root_ino
    <3>1. PICK s \in NameSlots : NamedBy(s) = e
      BY <1>4, <1>5, <2>2 DEF Naming
    <3>2. parent(e) = s[1]
      BY <1>4, <1>5, <3>1
    <3>3. parent(e) = i => ~ IsGone(i)
      BY <1>1, <3>2
    <3> QED BY <1>2, <1>4, <1>5, <3>3
  <2> QED BY <2>1, <2>2
<1>8. ASSUME NEW s \in NameSlots', NEW e \in Dirs', e = NamedBy(s)'
      PROVE  parent(e)' = s[1]
  BY <1>1, <1>4, <1>5, <1>8
<1>9. \A s \in NameSlots' : NamedBy(s)' \in Dirs' => parent(NamedBy(s))' = s[1]
  BY <1>8 DEF parent
<1>10. ASSUME NEW e \in Dirs' \ {root_ino}
       PROVE  Naming(e)' # {}
  <2>1. PICK s \in NameSlots : NamedBy(s) = e
    BY <1>4, <1>5 DEF Naming
  <2>2. s # <<d, p>>
    BY <1>4, <2>1 DEF Removes
  <2> QED BY <1>1, <2>1, <2>2 DEF Naming
<1>11. \E depth \in [Ino -> Nat] :
         /\ depth[root_ino] = 0
         /\ \A e \in Dirs' \ {root_ino} : depth[e] = depth[parent(e)'] + 1
  <2>1. PICK depth \in [Ino -> Nat] :
          /\ depth[root_ino] = 0
          /\ \A e \in Dirs \ {root_ino} : depth[e] = depth[parent(e)] + 1
    BY DEF TreeInv, Nested
  <2> QED BY <1>4, <2>1
<1> QED BY <1>6, <1>7, <1>9, <1>10, <1>11 DEF Nested

\* ---- Sums over the inode table ----

\* g[S] is the sum of f over S, taken in the order of CHOOSE.
IsSum(g, f) ==
  /\ g \in [SUBSET Ino -> Int]
  /\ \A S \in SUBSET Ino :
       g[S] = IF S = {} THEN 0
              ELSE f[CHOOSE i \in S : TRUE] + g[S \ {CHOOSE i \in S : TRUE}]

\* Taking one inode out of a set of them makes it smaller.
LEMMA Smaller ==
  ASSUME NEW S \in SUBSET Ino, S # {}
  PROVE  /\ (CHOOSE i \in S : TRUE) \in S
         /\ Cardinality(S) \in Nat /\ Cardinality(S) > 0
         /\ Cardinality(S \ {CHOOSE i \in S : TRUE}) = Cardinality(S) - 1
<1> DEFINE x == CHOOSE i \in S : TRUE
<1>1. IsFiniteSet(S)
  BY UnixFsAssumption, FS_Subset
<1>2. x \in S
  OBVIOUS
<1> HIDE DEF x
<1>3. Cardinality(S) \in Nat /\ Cardinality(S \ {x}) \in Nat
  BY <1>1, FS_CardinalityType, FS_RemoveElement
<1>4. Cardinality(S \ {x}) = Cardinality(S) - 1
  BY <1>1, <1>2, FS_RemoveElement
<1> QED BY <1>2, <1>3, <1>4 DEF x

LEMMA SumExists ==
  ASSUME NEW f \in [Ino -> Int]
  PROVE  \E g : IsSum(g, f)
<1> DEFINE Pick(S) == CHOOSE i \in S : TRUE
           Val(g, S) == IF S = {} THEN 0 ELSE f[Pick(S)] + g[S \ {Pick(S)}]
           Upto(g, n) == /\ g \in [SUBSET Ino -> Int]
                         /\ \A S \in SUBSET Ino : Cardinality(S) <= n => g[S] = Val(g, S)
           N == {n \in Nat : \E g : Upto(g, n)}
<1>1. \A S \in SUBSET Ino : IsFiniteSet(S) /\ Cardinality(S) \in Nat
  BY UnixFsAssumption, FS_Subset, FS_CardinalityType
<1>2. \A S \in SUBSET Ino : S # {} =>
        /\ Pick(S) \in S /\ S \ {Pick(S)} \in SUBSET Ino
        /\ Cardinality(S \ {Pick(S)}) = Cardinality(S) - 1
  BY Smaller
<1> HIDE DEF Pick
<1>3. 0 \in N
  <2>1. \A S \in SUBSET Ino : Cardinality(S) <= 0 => S = {}
    BY <1>1, FS_EmptySet
  <2>2. Upto([S \in SUBSET Ino |-> 0], 0)
    BY <2>1
  <2> QED BY <2>2
<1>4. ASSUME NEW n \in Nat, n \in N
      PROVE  n + 1 \in N
  <2>1. PICK g : Upto(g, n)
    BY <1>4
  <2> DEFINE h == [S \in SUBSET Ino |-> IF Cardinality(S) <= n THEN g[S] ELSE Val(g, S)]
  <2>2. ASSUME NEW S \in SUBSET Ino
        PROVE  Val(g, S) \in Int
    <3>1. S # {} => f[Pick(S)] \in Int /\ g[S \ {Pick(S)}] \in Int
      BY <1>2, <2>1
    <3> QED BY <3>1
  <2>3. h \in [SUBSET Ino -> Int]
    BY <2>1, <2>2
  <2>4. ASSUME NEW S \in SUBSET Ino, Cardinality(S) <= n + 1
        PROVE  h[S] = Val(h, S)
    <3>1. h[S] = Val(g, S)
      BY <2>1
    <3>2. S # {} => h[S \ {Pick(S)}] = g[S \ {Pick(S)}]
      BY <1>1, <1>2, <2>4
    <3> HIDE DEF h
    <3> QED BY <3>1, <3>2
  <2> HIDE DEF h
  <2>5. Upto(h, n + 1)
    BY <2>3, <2>4
  <2> QED BY <2>5
<1> HIDE DEF N
<1>5. Cardinality(Ino) \in N
  BY <1>1, <1>3, <1>4, Induction
<1>6. PICK g : Upto(g, Cardinality(Ino))
  BY <1>5 DEF N
<1>7. \A S \in SUBSET Ino : Cardinality(S) <= Cardinality(Ino)
  BY UnixFsAssumption, FS_Subset
<1>8. IsSum(g, f)
  BY <1>6, <1>7 DEF IsSum, Pick
<1> QED BY <1>8

\* A sum changes as the value of one inode does.
LEMMA SumChange ==
  ASSUME NEW f \in [Ino -> Int], NEW e \in [Ino -> Int], NEW x \in Ino,
         \A j \in Ino \ {x} : e[j] = f[j],
         NEW g, IsSum(g, f), NEW h, IsSum(h, e)
  PROVE  h[Ino] = g[Ino] + e[x] - f[x]
<1> DEFINE Pick(S) == CHOOSE i \in S : TRUE
           Goal(S) == h[S] = g[S] + (IF x \in S THEN e[x] - f[x] ELSE 0)
           N == {n \in Nat : \A S \in SUBSET Ino : Cardinality(S) = n => Goal(S)}
<1>1. \A S \in SUBSET Ino : IsFiniteSet(S) /\ Cardinality(S) \in Nat
  BY UnixFsAssumption, FS_Subset, FS_CardinalityType
<1>2. \A S \in SUBSET Ino : S # {} =>
        /\ Pick(S) \in S /\ S \ {Pick(S)} \in SUBSET Ino
        /\ Cardinality(S \ {Pick(S)}) = Cardinality(S) - 1
  BY Smaller
<1>3. \A S \in SUBSET Ino :
        /\ g[S] \in Int /\ h[S] \in Int
        /\ S # {} => /\ g[S] = f[Pick(S)] + g[S \ {Pick(S)}]
                     /\ h[S] = e[Pick(S)] + h[S \ {Pick(S)}]
  BY DEF IsSum
<1>4. g[{}] = 0 /\ h[{}] = 0
  BY DEF IsSum
<1> HIDE DEF Pick
<1>5. 0 \in N
  <2>1. \A S \in SUBSET Ino : Cardinality(S) = 0 => S = {}
    BY <1>1, FS_EmptySet
  <2> QED BY <1>4, <2>1
<1>6. ASSUME NEW n \in Nat, n \in N
      PROVE  n + 1 \in N
  <2> SUFFICES ASSUME NEW S \in SUBSET Ino, Cardinality(S) = n + 1
               PROVE  Goal(S)
    OBVIOUS
  <2>1. S # {}
    <3>1. Cardinality({}) = 0
      BY FS_EmptySet
    <3> HIDE DEF N
    <3> QED BY <3>1
  <2> DEFINE y == Pick(S)
             T == S \ {y}
  <2>2. y \in S /\ y \in Ino /\ T \in SUBSET Ino /\ Cardinality(T) = n
    BY <1>2, <2>1
  <2>3. Goal(T)
    BY <1>6, <2>2
  <2>4. /\ g[S] = f[y] + g[T] /\ h[S] = e[y] + h[T]
        /\ g[T] \in Int /\ h[T] \in Int /\ f[y] \in Int /\ e[y] \in Int /\ e[x] \in Int /\ f[x] \in Int
    BY <1>3, <2>1, <2>2
  <2>5. x \in T <=> x \in S /\ x # y
    OBVIOUS
  <2>6. y # x => e[y] = f[y]
    BY <2>2
  <2> HIDE DEF y, T
  <2> QED BY <2>2, <2>3, <2>4, <2>5, <2>6
<1> HIDE DEF N
<1>7. Cardinality(Ino) \in N
  BY <1>1, <1>5, <1>6, Induction
<1>8. Goal(Ino)
  BY <1>7 DEF N
<1>9. g[Ino] \in Int /\ e[x] \in Int /\ f[x] \in Int
  BY <1>3
<1> QED BY <1>8, <1>9

Blocks == [i \in Ino |-> inode[i].nblk]

TypedTable == inode \in [Ino -> INode]

LEMMA UsedIsSum ==
  TypedTable => Blocks \in [Ino -> Int] /\ \E g : IsSum(g, Blocks) /\ BlocksUsed = g[Ino]
<1> SUFFICES ASSUME TypedTable
             PROVE  Blocks \in [Ino -> Int] /\ \E g : IsSum(g, Blocks) /\ BlocksUsed = g[Ino]
  OBVIOUS
<1> DEFINE sum[S \in SUBSET Ino] ==
             IF S = {} THEN 0
             ELSE LET i == CHOOSE i \in S : TRUE IN inode[i].nblk + sum[S \ {i}]
<1>1. BlocksUsed = sum[Ino]
  BY DEF BlocksUsed
<1>2. Blocks \in [Ino -> Int]
  BY DEF TypedTable, INode, Blocks
<1>3. PICK g : IsSum(g, Blocks)
  <2> HIDE DEF Blocks
  <2> QED BY <1>2, SumExists
<1>4. \A S \in SUBSET Ino : S # {} => Blocks[CHOOSE i \in S : TRUE] = inode[CHOOSE i \in S : TRUE].nblk
  BY DEF Blocks
<1>5. sum = [S \in SUBSET Ino |->
               IF S = {} THEN 0
               ELSE inode[CHOOSE i \in S : TRUE].nblk + sum[S \ {CHOOSE i \in S : TRUE}]]
  <2> DEFINE Def(h) == [S \in SUBSET Ino |->
               IF S = {} THEN 0
               ELSE LET i == CHOOSE i \in S : TRUE IN inode[i].nblk + h[S \ {i}]]
  <2>1. g = Def(g)
    BY <1>3, <1>4 DEF IsSum
  <2>2. sum = Def(sum)
    BY <2>1, Zenon
  <2> QED BY <2>2
<1> HIDE DEF sum
<1> DEFINE Pick(S) == CHOOSE i \in S : TRUE
           N == {n \in Nat : \A S \in SUBSET Ino : Cardinality(S) = n => sum[S] = g[S]}
<1>6. \A S \in SUBSET Ino : IsFiniteSet(S) /\ Cardinality(S) \in Nat
  BY UnixFsAssumption, FS_Subset, FS_CardinalityType
<1>7. \A S \in SUBSET Ino : S # {} =>
        /\ Pick(S) \in S /\ S \ {Pick(S)} \in SUBSET Ino
        /\ Cardinality(S \ {Pick(S)}) = Cardinality(S) - 1
  BY Smaller
<1>8. \A S \in SUBSET Ino :
        IF S = {} THEN sum[S] = 0 /\ g[S] = 0
        ELSE /\ sum[S] = inode[Pick(S)].nblk + sum[S \ {Pick(S)}]
             /\ g[S] = inode[Pick(S)].nblk + g[S \ {Pick(S)}]
  <2> SUFFICES ASSUME NEW S \in SUBSET Ino
               PROVE  IF S = {} THEN sum[S] = 0 /\ g[S] = 0
                      ELSE /\ sum[S] = inode[Pick(S)].nblk + sum[S \ {Pick(S)}]
                           /\ g[S] = inode[Pick(S)].nblk + g[S \ {Pick(S)}]
    OBVIOUS
  <2>1. sum[S] = IF S = {} THEN 0 ELSE inode[Pick(S)].nblk + sum[S \ {Pick(S)}]
    BY <1>5
  <2>2. g[S] = IF S = {} THEN 0 ELSE inode[Pick(S)].nblk + g[S \ {Pick(S)}]
    BY <1>3, <1>4 DEF IsSum
  <2> HIDE DEF Pick
  <2> QED BY <2>1, <2>2
<1> HIDE DEF Pick
<1>9. 0 \in N
  <2>1. \A S \in SUBSET Ino : Cardinality(S) = 0 => S = {}
    BY <1>6, FS_EmptySet
  <2> QED BY <1>8, <2>1
<1>10. ASSUME NEW n \in Nat, n \in N
       PROVE  n + 1 \in N
  <2> SUFFICES ASSUME NEW S \in SUBSET Ino, Cardinality(S) = n + 1
               PROVE  sum[S] = g[S]
    OBVIOUS
  <2>1. S # {}
    <3>1. Cardinality({}) = 0
      BY FS_EmptySet
    <3> HIDE DEF N
    <3> QED BY <3>1
  <2>2. sum[S \ {Pick(S)}] = g[S \ {Pick(S)}]
    BY <1>7, <1>10, <2>1
  <2> HIDE DEF N
  <2> QED BY <1>8, <2>1, <2>2
<1> HIDE DEF N
<1>11. Cardinality(Ino) \in N
  BY <1>6, <1>9, <1>10, Induction
<1>12. sum[Ino] = g[Ino]
  BY <1>11 DEF N
<1> HIDE DEF Blocks
<1> QED BY <1>1, <1>2, <1>3, <1>12

LEMMA UsedIsSumNext ==
  (TypedTable => Blocks \in [Ino -> Int] /\ \E g : IsSum(g, Blocks) /\ BlocksUsed = g[Ino])'
BY UsedIsSum, PTL

\* When two inodes change, the blocks in use change by what these two gain.
LEMMA BlocksChange ==
  ASSUME TypedTable, TypedTable', NEW d \in Ino, NEW i \in Ino, d # i,
         \A j \in Ino \ {d, i} : inode'[j].nblk = inode[j].nblk
  PROVE  /\ BlocksUsed \in Int
         /\ BlocksUsed' = BlocksUsed + (inode'[d].nblk - inode[d].nblk)
                                     + (inode'[i].nblk - inode[i].nblk)
<1> DEFINE f == Blocks
           m == [f EXCEPT ![d] = inode'[d].nblk]
           e == [j \in Ino |-> inode'[j].nblk]
<1>1. PICK g : f \in [Ino -> Int] /\ IsSum(g, f) /\ BlocksUsed = g[Ino]
  BY UsedIsSum
<1>2. e = Blocks' /\ Blocks' \in [Ino -> Int] /\ \E h : IsSum(h, Blocks') /\ BlocksUsed' = h[Ino]
  <2>1. e = Blocks'
    BY DEF Blocks
  <2> QED BY <2>1, UsedIsSumNext DEF IsSum
<1>3. PICK h : e \in [Ino -> Int] /\ IsSum(h, e) /\ BlocksUsed' = h[Ino]
  BY <1>2
<1>4. /\ \A j \in Ino : f[j] = inode[j].nblk /\ e[j] = inode'[j].nblk
      /\ \A j \in Ino : m[j] = IF j = d THEN e[d] ELSE f[j]
      /\ m \in [Ino -> Int]
  BY <1>1, <1>3 DEF Blocks
<1> HIDE DEF f, m, e
<1>5. PICK q : IsSum(q, m)
  BY <1>4, SumExists
<1>6. q[Ino] = g[Ino] + m[d] - f[d]
  BY <1>1, <1>4, <1>5, SumChange
<1>7. h[Ino] = q[Ino] + e[i] - m[i]
  <2>1. \A j \in Ino \ {i} : e[j] = m[j]
    BY <1>4
  <2> QED BY <1>3, <1>4, <1>5, <2>1, SumChange
<1>8. g[Ino] \in Int /\ q[Ino] \in Int /\ f[d] \in Int /\ e[d] \in Int /\ f[i] \in Int /\ e[i] \in Int
  BY <1>1, <1>3, <1>5 DEF IsSum
<1>9. m[d] = e[d] /\ m[i] = f[i]
  BY <1>4
<1> QED BY <1>1, <1>3, <1>4, <1>6, <1>7, <1>8, <1>9

\* ---- A volume that was just formatted ----

LEMMA BlocksForSlots ==
  /\ \A slots \in Seq(SlotType) : BlocksFor(slots) \in Nat
  /\ \A i, p : BlocksFor(Dots(i, p)) = 1
  /\ BlocksFor(RootSlots) \in {1, 2}
<1> DEFINE D == DIR_ENTRIES_PER_BLK
<1>1. D \in Nat /\ D >= 2
  BY UnixFsAssumption
<1>2. \A n \in Nat : (n + D - 1) \div D \in Nat
  <2>1. ASSUME NEW n \in Nat
        PROVE  (n + D - 1) \div D \in Nat
    <3> DEFINE a == n + D - 1
    <3>1. a \in Nat
      BY <1>1
    <3> HIDE DEF a, D
    <3>2. a \div D \in Nat
      BY <1>1, <3>1, SMT
    <3> QED BY <3>2 DEF a
  <2> QED BY <2>1
<1>3. (2 + D - 1) \div D = 1 /\ (4 + D - 1) \div D \in {1, 2}
  <2> HIDE DEF D
  <2>1. (2 + D - 1) \div D = 1 /\ (4 + D - 1) \div D <= 2 /\ (4 + D - 1) \div D >= 1
    BY <1>1, SMT
  <2>2. (4 + D - 1) \div D \in Int
    BY <1>1, SMT
  <2> DEFINE q == (4 + D - 1) \div D
  <2>3. q \in {1, 2}
    <3>1. q \in Int /\ q <= 2 /\ q >= 1
      BY <2>1, <2>2
    <3> HIDE DEF q
    <3> QED BY <3>1
  <2> QED BY <2>1, <2>3
<1>4. \A i, p : Len(Dots(i, p)) = 2
  BY DEF Dots
<1>5. Len(RootSlots) = 4
  BY DEF RootSlots, Dots, Slot
<1>6. \A slots \in Seq(SlotType) : Len(slots) \in Nat
  OBVIOUS
<1> HIDE DEF D
<1> QED BY <1>2, <1>3, <1>4, <1>5, <1>6 DEF BlocksFor, D

LEMMA Concatenation ==
  ASSUME NEW S, NEW f \in Seq(S), NEW g \in Seq(S)
  PROVE  /\ f \o g \in Seq(S) /\ Len(f \o g) = Len(f) + Len(g)
         /\ \A k \in 1 .. Len(f) : (f \o g)[k] = f[k]
         /\ \A k \in Len(f) + 1 .. Len(f) + Len(g) : (f \o g)[k] = g[k - Len(f)]
OBVIOUS

LEMMA TwoAndTwo ==
  ASSUME NEW S, NEW f \in Seq(S), NEW g \in Seq(S), Len(f) = 2, Len(g) = 2
  PROVE  /\ f \o g \in Seq(S) /\ Len(f \o g) = 4
         /\ (f \o g)[1] = f[1] /\ (f \o g)[2] = f[2]
         /\ (f \o g)[3] = g[1] /\ (f \o g)[4] = g[2]
<1> DEFINE h == f \o g
<1>1. /\ h \in Seq(S) /\ Len(h) = Len(f) + Len(g)
      /\ \A k \in 1 .. Len(f) : h[k] = f[k]
      /\ \A k \in Len(f) + 1 .. Len(f) + Len(g) : h[k] = g[k - Len(f)]
  BY Concatenation
<1> HIDE DEF h
<1>2. h[3] = g[3 - Len(f)] /\ h[4] = g[4 - Len(f)]
  BY <1>1
<1>3. h \in Seq(S) /\ Len(h) = 4 /\ h[1] = f[1] /\ h[2] = f[2] /\ h[3] = g[1] /\ h[4] = g[2]
  BY <1>1, <1>2
<1> QED BY <1>3 DEF h

LEMMA FormattedInodes ==
  /\ Formatted \in [Ino -> INode]
  /\ Formatted[root_ino].slots = RootSlots /\ Len(RootSlots) = 4
  /\ RootSlots[1] = Slot(".", root_ino) /\ RootSlots[2] = Slot("..", root_ino)
  /\ RootSlots[3] = Slot("etc", etc_ino) /\ RootSlots[4] = Slot("home", home_ino)
  /\ Formatted[root_ino].mode = "dir" /\ Formatted[root_ino].nlink = 1
  /\ Formatted[root_ino].nblk = BlocksFor(RootSlots)
  /\ \A i \in {etc_ino, home_ino} :
       /\ Formatted[i].slots = <<Slot(".", i), Slot("..", root_ino)>>
       /\ Formatted[i].mode = "dir" /\ Formatted[i].nlink = 1
       /\ Formatted[i].nblk = 1
  /\ \A i \in Ino \ {root_ino, etc_ino, home_ino} : Formatted[i] = Blank
<1>1. /\ {root_ino, etc_ino, home_ino} \subseteq Ino
      /\ root_ino # etc_ino /\ etc_ino # home_ino /\ root_ino # home_ino
      /\ "etc" \in Name /\ "home" \in Name
  BY UnixFsAssumption
<1>2. Blank \in INode
  <2>1. << >> \in Seq(SlotType)
    OBVIOUS
  <2> QED BY <2>1 DEF Blank, INode
<1>3. ASSUME NEW slots \in Seq(SlotType)
      PROVE  /\ NewDir(slots) \in INode
             /\ NewDir(slots).mode = "dir" /\ NewDir(slots).nlink = 1
             /\ NewDir(slots).slots = slots /\ NewDir(slots).nblk = BlocksFor(slots)
  <2>1. BlocksFor(slots) \in Nat
    BY BlocksForSlots
  <2>2. \A r \in INode :
          LET new == [r EXCEPT !.mode = "dir", !.nlink = 1, !.slots = slots, !.nblk = BlocksFor(slots)]
          IN  /\ new \in INode
              /\ new.mode = "dir" /\ new.nlink = 1
              /\ new.slots = slots /\ new.nblk = BlocksFor(slots)
    BY <2>1 DEF INode
  <2> QED BY <1>2, <2>2 DEF NewDir
<1>4. ASSUME NEW i \in Ino
      PROVE  Dots(i, root_ino) \in Seq(SlotType)
  <2>1. Slot(".", i) \in SlotType /\ Slot("..", root_ino) \in SlotType
    BY <1>1 DEF Slot, SlotType, Part
  <2> QED BY <2>1 DEF Dots
<1>5. /\ RootSlots \in Seq(SlotType)
      /\ Len(RootSlots) = 4
      /\ RootSlots[1] = Slot(".", root_ino) /\ RootSlots[2] = Slot("..", root_ino)
      /\ RootSlots[3] = Slot("etc", etc_ino) /\ RootSlots[4] = Slot("home", home_ino)
  <2>1. /\ Slot(".", root_ino) \in SlotType /\ Slot("..", root_ino) \in SlotType
        /\ Slot("etc", etc_ino) \in SlotType /\ Slot("home", home_ino) \in SlotType
    BY <1>1 DEF Slot, SlotType, Part
  <2> DEFINE front == Dots(root_ino, root_ino)
             back == <<Slot("etc", etc_ino), Slot("home", home_ino)>>
  <2>2. /\ front \in Seq(SlotType) /\ Len(front) = 2
        /\ front[1] = Slot(".", root_ino) /\ front[2] = Slot("..", root_ino)
    BY <2>1 DEF Dots
  <2>3. /\ back \in Seq(SlotType) /\ Len(back) = 2
        /\ back[1] = Slot("etc", etc_ino) /\ back[2] = Slot("home", home_ino)
    BY <2>1
  <2>4. RootSlots = front \o back
    BY DEF RootSlots
  <2> HIDE DEF front, back
  <2>5. /\ front \o back \in Seq(SlotType) /\ Len(front \o back) = 4
        /\ (front \o back)[1] = front[1] /\ (front \o back)[2] = front[2]
        /\ (front \o back)[3] = back[1] /\ (front \o back)[4] = back[2]
    BY <2>2, <2>3, TwoAndTwo
  <2> QED BY <2>2, <2>3, <2>4, <2>5
<1>6. /\ Formatted[root_ino] = NewDir(RootSlots)
      /\ \A i \in {etc_ino, home_ino} : Formatted[i] = NewDir(Dots(i, root_ino))
      /\ \A i \in Ino \ {root_ino, etc_ino, home_ino} : Formatted[i] = Blank
  BY <1>1 DEF Formatted
<1>7. Formatted \in [Ino -> INode]
  <2>1. \A i \in Ino : Formatted[i] \in INode
    BY SMTT(90), <1>1, <1>2, <1>3, <1>4, <1>5, <1>6
  <2>2. Formatted = [i \in Ino |-> Formatted[i]]
    BY DEF Formatted
  <2> HIDE DEF Formatted
  <2> QED BY <2>1, <2>2
<1>8. /\ Formatted[root_ino].slots = RootSlots
      /\ Formatted[root_ino].mode = "dir" /\ Formatted[root_ino].nlink = 1
      /\ Formatted[root_ino].nblk = BlocksFor(RootSlots)
  BY <1>3, <1>5, <1>6
<1>9. ASSUME NEW i \in {etc_ino, home_ino}
      PROVE  /\ Formatted[i].slots = <<Slot(".", i), Slot("..", root_ino)>>
             /\ Formatted[i].mode = "dir" /\ Formatted[i].nlink = 1
             /\ Formatted[i].nblk = 1
  <2>1. Formatted[i] = NewDir(Dots(i, root_ino)) /\ Dots(i, root_ino) \in Seq(SlotType)
    BY <1>1, <1>4, <1>6
  <2>2. BlocksFor(Dots(i, root_ino)) = 1
    BY BlocksForSlots
  <2>3. Dots(i, root_ino) = <<Slot(".", i), Slot("..", root_ino)>>
    BY DEF Dots
  <2> QED BY <1>3, <2>1, <2>2, <2>3
<1> QED BY <1>5, <1>6, <1>7, <1>8, <1>9

LEMMA FormattedUsed ==
  inode = Formatted => BlocksUsed = FormattedBlocks
<1> SUFFICES ASSUME inode = Formatted
             PROVE  BlocksUsed = FormattedBlocks
  OBVIOUS
<1> DEFINE z == [j \in Ino |-> 0]
           a == [z EXCEPT ![root_ino] = BlocksFor(RootSlots)]
           b == [a EXCEPT ![etc_ino] = 1]
<1>1. /\ {root_ino, etc_ino, home_ino} \subseteq Ino
      /\ root_ino # etc_ino /\ etc_ino # home_ino /\ root_ino # home_ino
      /\ BlocksFor(RootSlots) \in Int
  <2>1. BlocksFor(RootSlots) \in Int
    <3>1. BlocksFor(RootSlots) \in {1, 2}
      BY BlocksForSlots
    <3> QED BY <3>1
  <2> QED BY <2>1, UnixFsAssumption
<1>2. PICK g : IsSum(g, Blocks) /\ BlocksUsed = g[Ino]
  BY FormattedInodes, UsedIsSum DEF TypedTable
<1>3. /\ Blocks \in [Ino -> Int]
      /\ Blocks[root_ino] = BlocksFor(RootSlots) /\ Blocks[etc_ino] = 1 /\ Blocks[home_ino] = 1
      /\ \A j \in Ino \ {root_ino, etc_ino, home_ino} : Blocks[j] = 0
  <2>1. Blocks \in [Ino -> Int]
    BY FormattedInodes, UsedIsSum DEF TypedTable
  <2>2. \A j \in Ino : Blocks[j] = Formatted[j].nblk
    BY DEF Blocks
  <2>3. Blank.nblk = 0
    BY DEF Blank
  <2> QED BY <1>1, <2>1, <2>2, <2>3, FormattedInodes
<1> HIDE DEF Blocks
<1>4. IsSum([S \in SUBSET Ino |-> 0], z)
  <2>1. \A S \in SUBSET Ino : S # {} => (CHOOSE i \in S : TRUE) \in Ino
    BY Smaller
  <2> QED BY <2>1 DEF IsSum
<1>5. /\ z \in [Ino -> Int] /\ a \in [Ino -> Int] /\ b \in [Ino -> Int]
      /\ \A j \in Ino : z[j] = 0
      /\ \A j \in Ino : a[j] = IF j = root_ino THEN BlocksFor(RootSlots) ELSE 0
      /\ \A j \in Ino : b[j] = IF j = etc_ino THEN 1 ELSE a[j]
  BY <1>1
<1> HIDE DEF z, a, b
<1>6. PICK ga : IsSum(ga, a)
  BY <1>5, SumExists
<1>7. PICK gb : IsSum(gb, b)
  BY <1>5, SumExists
<1>8. ga[Ino] = 0 + a[root_ino] - z[root_ino]
  <2> DEFINE gz == [S \in SUBSET Ino |-> 0]
  <2>1. gz[Ino] = 0 /\ IsSum(gz, z)
    BY <1>4
  <2> HIDE DEF gz
  <2>2. \A j \in Ino \ {root_ino} : a[j] = z[j]
    BY <1>5
  <2>3. ga[Ino] = gz[Ino] + a[root_ino] - z[root_ino]
    BY <1>1, <1>5, <1>6, <2>1, <2>2, SumChange
  <2> QED BY <2>1, <2>3
<1>9. gb[Ino] = ga[Ino] + b[etc_ino] - a[etc_ino]
  <2>1. \A j \in Ino \ {etc_ino} : b[j] = a[j]
    BY <1>5
  <2> QED BY <1>1, <1>5, <1>6, <1>7, <2>1, SumChange
<1>10. g[Ino] = gb[Ino] + Blocks[home_ino] - b[home_ino]
  <2>1. \A j \in Ino \ {home_ino} : Blocks[j] = b[j]
    BY <1>1, <1>3, <1>5
  <2> QED BY <1>1, <1>2, <1>3, <1>5, <1>7, <2>1, SumChange
<1> QED BY <1>1, <1>2, <1>3, <1>5, <1>8, <1>9, <1>10 DEF FormattedBlocks

LEMMA FormattedTree ==
  inode = Formatted =>
    /\ TypedTable /\ Shaped /\ Named /\ Nested
    /\ InUse = {root_ino, etc_ino, home_ino} /\ Dirs = InUse
    /\ NameSlots = {<<root_ino, 3>>, <<root_ino, 4>>}
    /\ NamedBy(<<root_ino, 3>>) = etc_ino /\ NamedBy(<<root_ino, 4>>) = home_ino
<1> SUFFICES ASSUME inode = Formatted
             PROVE  /\ TypedTable /\ Shaped /\ Named /\ Nested
                    /\ InUse = {root_ino, etc_ino, home_ino} /\ Dirs = InUse
                    /\ NameSlots = {<<root_ino, 3>>, <<root_ino, 4>>}
                    /\ NamedBy(<<root_ino, 3>>) = etc_ino /\ NamedBy(<<root_ino, 4>>) = home_ino
  OBVIOUS
<1> DEFINE three == {root_ino, etc_ino, home_ino}
<1>1. /\ root_ino \in Ino /\ etc_ino \in Ino /\ home_ino \in Ino
      /\ root_ino # etc_ino /\ etc_ino # home_ino /\ root_ino # home_ino
      /\ root_ino # NONE /\ etc_ino # NONE /\ home_ino # NONE
      /\ "etc" \in Name /\ "home" \in Name /\ "." \notin Name /\ ".." \notin Name
  BY UnixFsAssumption
<1>2. TypedTable
  BY FormattedInodes DEF TypedTable
<1>3. \A i \in Ino \ three : inode[i] = Blank
  BY FormattedInodes
<1>4. /\ inode[root_ino].slots = RootSlots /\ Len(RootSlots) = 4
      /\ RootSlots[1].name = "." /\ RootSlots[1].ino = root_ino /\ RootSlots[1] = Slot(".", root_ino)
      /\ RootSlots[2].name = ".." /\ RootSlots[2].ino = root_ino
      /\ RootSlots[3].name = "etc" /\ RootSlots[3].ino = etc_ino
      /\ RootSlots[4].name = "home" /\ RootSlots[4].ino = home_ino
      /\ inode[root_ino].mode = "dir" /\ inode[root_ino].nlink = 1
      /\ inode[root_ino].nblk = BlocksFor(RootSlots)
  BY FormattedInodes DEF Slot
<1>5. ASSUME NEW i \in {etc_ino, home_ino}
      PROVE  /\ Len(inode[i].slots) = 2
             /\ inode[i].slots[1] = Slot(".", i) /\ inode[i].slots[1].name = "."
             /\ inode[i].slots[2].name = ".." /\ inode[i].slots[2].ino = root_ino
             /\ inode[i].mode = "dir" /\ inode[i].nlink = 1
             /\ inode[i].nblk = BlocksFor(inode[i].slots)
  <2>1. inode[i].slots = <<Slot(".", i), Slot("..", root_ino)>> /\ inode[i].nblk = 1
    BY FormattedInodes
  <2>2. inode[i].slots = Dots(i, root_ino)
    BY <2>1 DEF Dots
  <2>3. inode[i].nblk = BlocksFor(inode[i].slots)
    BY <2>1, <2>2, BlocksForSlots
  <2> QED BY <2>1, <2>3, FormattedInodes DEF Slot
<1>6. InUse = three /\ Dirs = three
  <2>1. Blank.mode = "none"
    BY DEF Blank
  <2> QED BY <1>1, <1>3, <1>4, <1>5, <2>1 DEF InUse, Dirs
<1>7. Shaped
  <2>1. ASSUME NEW d \in Dirs
        PROVE  /\ Len(inode[d].slots) >= 2
               /\ inode[d].slots[1] = Slot(".", d) /\ inode[d].slots[2].name = ".."
               /\ inode[d].nlink = 1 /\ inode[d].nblk = BlocksFor(inode[d].slots)
    <3>1. CASE d = root_ino
      BY <1>4, <3>1
    <3>2. CASE d \in {etc_ino, home_ino}
      BY <1>5, <3>2
    <3> QED BY <1>6, <3>1, <3>2
  <2>2. ASSUME NEW d \in Dirs, NEW k \in 3 .. Len(inode[d].slots)
        PROVE  d = root_ino /\ (k = 3 \/ k = 4)
    <3> DEFINE n == Len(inode[d].slots)
    <3>1. k \in 3 .. n
      OBVIOUS
    <3>2. IF d = root_ino THEN n = 4 ELSE n = 2
      BY <1>4, <1>5, <1>6
    <3> HIDE DEF n
    <3> QED BY <3>1, <3>2
  <2>3. \A d \in Dirs : \A k \in 3 .. Len(inode[d].slots) : inode[d].slots[k].name \in Name
    BY <1>1, <1>4, <2>2
  <2>4. \A d \in Dirs : \A j, k \in 3 .. Len(inode[d].slots) :
          inode[d].slots[j].name = inode[d].slots[k].name => j = k
    BY <1>4, <2>2
  <2>5. \A i \in Ino \ Dirs : inode[i].slots = << >>
    BY <1>3, <1>6 DEF Blank
  <2>6. \A d \in Dirs :
          /\ Len(inode[d].slots) >= 2
          /\ inode[d].slots[1] = Slot(".", d)
          /\ inode[d].slots[2].name = ".."
          /\ inode[d].nlink = 1
          /\ inode[d].nblk = BlocksFor(inode[d].slots)
          /\ \A k \in 3 .. Len(inode[d].slots) :
               inode[d].slots[k].ino # NONE => inode[d].slots[k].name \in Name
          /\ \A j, k \in 3 .. Len(inode[d].slots) :
               /\ inode[d].slots[j].ino # NONE /\ inode[d].slots[k].ino # NONE
               /\ inode[d].slots[j].name = inode[d].slots[k].name
               => j = k
    BY <2>1, <2>3, <2>4
  <2>7. \A i \in Ino \ InUse : inode[i] = Blank
    BY <1>3, <1>6
  <2> QED BY <2>5, <2>6, <2>7 DEF Shaped
<1>8. NameSlots = {<<root_ino, 3>>, <<root_ino, 4>>}
  <2>1. \A e, k : IsNameSlot(e, k) <=> e = root_ino /\ k \in {3, 4}
    <3>1. \A k : IsNameSlot(root_ino, k) <=> k \in {3, 4}
      <4>1. \A k : k \in 1 .. 4 <=> k = 1 \/ k = 2 \/ k = 3 \/ k = 4
        OBVIOUS
      <4>2. "etc" \notin {".", ".."} /\ "home" \notin {".", ".."}
        BY <1>1
      <4> QED BY <1>1, <1>4, <1>6, <4>1, <4>2 DEF IsNameSlot
    <3>2. \A e \in {etc_ino, home_ino} : \A k : ~ IsNameSlot(e, k)
      <4>1. \A k : k \in 1 .. 2 <=> k = 1 \/ k = 2
        OBVIOUS
      <4> QED BY <1>5, <4>1 DEF IsNameSlot
    <3> QED BY <1>6, <3>1, <3>2 DEF IsNameSlot
  <2> QED BY <2>1, InNameSlots
<1>9. NamedBy(<<root_ino, 3>>) = etc_ino /\ NamedBy(<<root_ino, 4>>) = home_ino
  BY <1>4 DEF NamedBy
<1>10. Naming(etc_ino) = {<<root_ino, 3>>} /\ Naming(home_ino) = {<<root_ino, 4>>}
  BY <1>1, <1>8, <1>9 DEF Naming
<1>11. Named
  <2>1. \A s \in NameSlots : NamedBy(s) \in InUse \ {root_ino}
    BY <1>1, <1>6, <1>8, <1>9
  <2>2. \A i \in InUse \ {root_ino} : IsFiniteSet(Naming(i)) /\ Cardinality(Naming(i)) = 1
    <3>1. \A x : IsFiniteSet({x}) /\ Cardinality({x}) = 1
      BY FS_Singleton
    <3> QED BY <1>6, <1>10, <3>1
  <2> QED BY <1>5, <1>6, <2>1, <2>2 DEF Named
<1>12. \A e \in Dirs : parent(e) = root_ino
  BY <1>4, <1>5, <1>6 DEF parent
<1>13. Nested
  <2>1. \A s \in NameSlots : NamedBy(s) \in Dirs => parent(NamedBy(s)) = s[1]
    BY <1>8, <1>12
  <2>2. \A e \in Dirs \ {root_ino} : Naming(e) # {}
    BY <1>6, <1>10
  <2> DEFINE depth == [i \in Ino |-> IF i = root_ino THEN 0 ELSE 1]
  <2>3. /\ depth \in [Ino -> Nat] /\ depth[root_ino] = 0
        /\ \A e \in Dirs \ {root_ino} : depth[e] = depth[parent(e)] + 1
    BY <1>1, <1>6, <1>12
  <2> HIDE DEF depth
  <2> QED BY <1>6, <1>12, <2>1, <2>2, <2>3 DEF Nested
<1> QED BY <1>2, <1>6, <1>7, <1>8, <1>9, <1>11, <1>13

LEMMA FormattedTreeNext ==
  (inode = Formatted =>
    /\ TypedTable /\ Shaped /\ Named /\ Nested
    /\ InUse = {root_ino, etc_ino, home_ino} /\ Dirs = InUse)'
BY FormattedTree, PTL

LEMMA FormattedUsedNext ==
  (inode = Formatted => BlocksUsed = FormattedBlocks)'
BY FormattedUsed, PTL

\* ---- The invariant holds after every call ----

\* What a call does to the names: it adds one, removes one, leaves them alone or
\* makes the volume anew.
NamesKept ==
  \A j \in Ino : inode'[j].mode = inode[j].mode /\ inode'[j].slots = inode[j].slots

Outcome ==
  \/ \E d, p, n, i : Adds(d, p, n, i)
  \/ \E d, p, i : Removes(d, p, i) /\ (IsGone(i) => i # cwd_ino)
  \/ NamesKept
  \/ inode' = Formatted /\ cwd_ino' = root_ino /\ cwd_path' = << >>

LEMMA AddKeeps ==
  ASSUME IInv, NEW d, NEW p, NEW n, NEW i, Adds(d, p, n, i),
         free_inodes' = IF i \in InUse THEN free_inodes ELSE free_inodes \ {i},
         free_blocks' = free_blocks - (inode'[d].nblk - inode[d].nblk)
                                    - (inode'[i].nblk - inode[i].nblk),
         free_blocks' >= 0,
         UNCHANGED <<cwd_ino, ofile>>
  PROVE  IInv' /\ Outcome
<1>1. TreeInv /\ Referred /\ NothingLost
  BY DEF IInv, TreeInv
<1>2. Shaped' /\ Named' /\ Nested'
  BY <1>1, AddShaped, AddNamed, AddNested
<1>3. /\ i # d /\ i \notin Dirs /\ InUse' = InUse \cup {i} /\ d \in Dirs
      /\ Dirs \subseteq Dirs' /\ d \in Ino /\ i \in Ino
  BY ZenonT(30), <1>1, AddDirs DEF Adds, Dirs
<1>4. TypedTable /\ TypedTable'
  BY DEF TypedTable, IInv, Types, Adds
<1>5. /\ BlocksUsed \in Int
      /\ BlocksUsed' = BlocksUsed + (inode'[d].nblk - inode[d].nblk)
                                  + (inode'[i].nblk - inode[i].nblk)
  BY <1>3, <1>4, BlocksChange DEF Adds
<1>6. /\ inode[d].nblk \in Nat /\ inode'[d].nblk \in Nat
      /\ inode[i].nblk \in Nat /\ inode'[i].nblk \in Nat
  BY <1>3, <1>4 DEF TypedTable, INode
<1>7. free_blocks \in Nat /\ DATA_BLKS \in Nat
  BY UnixFsAssumption DEF IInv, Types
<1>8. free_blocks' \in Nat
  BY <1>6, <1>7
<1>9. NothingLost'
  <2>1. free_inodes' = Ino \ InUse'
    BY <1>1, <1>3 DEF NothingLost
  <2>2. free_blocks' + BlocksUsed' = DATA_BLKS
    BY <1>1, <1>5, <1>6, <1>7 DEF NothingLost
  <2> QED BY <2>1, <2>2 DEF NothingLost
<1>10. Types'
  BY <1>4, <1>8, <1>9 DEF Types, TypedTable, IInv, NothingLost
<1>11. Referred'
  <2>1. cwd_ino' \in Dirs'
    BY <1>1, <1>3 DEF Referred
  <2>2. \A j \in Ino : inode[j].mode = "file" => inode'[j].mode = "file"
    <3>1. CASE IsNewFile(i) \/ IsNewDir(i, d)
      BY <1>3, <3>1 DEF Adds, IsNewFile, IsNewDir, InUse
    <3>2. CASE IsLinked(i)
      BY ZenonT(30), <1>3, <1>4, <3>2 DEF Adds, IsLinked, TypedTable, INode
    <3> QED BY <3>1, <3>2 DEF Adds
  <2>3. \A fd \in Fd : ofile[fd].ino \in Ino \/ ofile[fd] = NoFile
    BY <1>1 DEF Referred
  <2>4. \A fd \in Fd :
          ofile[fd] = NoFile \/ (ofile[fd].ino \in Ino /\ inode'[ofile[fd].ino].mode = "file")
    <3> SUFFICES ASSUME NEW fd \in Fd, ofile[fd] # NoFile
                 PROVE  ofile[fd].ino \in Ino /\ inode'[ofile[fd].ino].mode = "file"
      OBVIOUS
    <3>1. ofile[fd].ino \in Ino /\ inode[ofile[fd].ino].mode = "file"
      BY <1>1 DEF Referred
    <3> QED BY <2>2, <3>1
  <2>5. ofile' = ofile
    OBVIOUS
  <2> QED BY <2>1, <2>4, <2>5 DEF Referred
<1>12. Outcome
  BY DEF Outcome
<1> QED BY <1>2, <1>9, <1>10, <1>11, <1>12 DEF IInv

LEMMA RemoveKeeps ==
  ASSUME IInv, NEW d, NEW p, NEW i, Removes(d, p, i),
         free_inodes' = IF IsGone(i) THEN free_inodes \cup {i} ELSE free_inodes,
         free_blocks' = free_blocks + (IF IsGone(i) THEN inode[i].nblk ELSE 0),
         UNCHANGED <<cwd_ino, ofile>>,
         IsGone(i) => i \notin OpenInodes /\ i # cwd_ino
  PROVE  IInv' /\ Outcome
<1>1. TreeInv /\ Referred /\ NothingLost
  BY DEF IInv, TreeInv
<1>2. Shaped' /\ Named' /\ Nested'
  BY <1>1, RemoveShaped, RemoveNamed, RemoveNested
<1>3. /\ i # d /\ d \in Dirs /\ d \in Ino /\ i \in Ino
      /\ InUse' = IF IsGone(i) THEN InUse \ {i} ELSE InUse
      /\ Dirs' = IF IsGone(i) THEN Dirs \ {i} ELSE Dirs
  BY <1>1, RemoveDirs DEF Dirs
<1>4. TypedTable /\ TypedTable'
  BY DEF TypedTable, IInv, Types, Removes
<1>5. /\ BlocksUsed \in Int
      /\ BlocksUsed' = BlocksUsed + (inode'[d].nblk - inode[d].nblk)
                                  + (inode'[i].nblk - inode[i].nblk)
  BY <1>3, <1>4, BlocksChange DEF Removes
<1>6. /\ inode[d].nblk \in Nat /\ inode'[d].nblk = inode[d].nblk
      /\ inode[i].nblk \in Nat
      /\ inode'[i].nblk = IF IsGone(i) THEN 0 ELSE inode[i].nblk
  <2>1. IsGone(i) => inode'[i].nblk = 0
    BY DEF IsGone, Blank
  <2>2. IsUnlinked(i) => inode'[i].nblk = inode[i].nblk
    BY <1>3, <1>4 DEF IsUnlinked, TypedTable, INode
  <2> QED BY <1>3, <1>4, <2>1, <2>2 DEF TypedTable, INode, Removes
<1>7. free_blocks \in Nat /\ DATA_BLKS \in Nat
  BY UnixFsAssumption DEF IInv, Types
<1>8. free_blocks' \in Nat
  BY <1>6, <1>7
<1>9. NothingLost'
  <2>1. free_inodes' = Ino \ InUse'
    <3>1. i \in InUse
      BY <1>1, RemoveDirs
    <3> QED BY <1>1, <1>3, <3>1 DEF NothingLost
  <2>2. free_blocks' + BlocksUsed' = DATA_BLKS
    BY <1>1, <1>5, <1>6, <1>7 DEF NothingLost
  <2> QED BY <2>1, <2>2 DEF NothingLost
<1>10. Types'
  BY <1>4, <1>8, <1>9 DEF Types, TypedTable, IInv, NothingLost
<1>11. Referred'
  <2>1. cwd_ino' \in Dirs'
    BY <1>1, <1>3 DEF Referred
  <2>2. \A j \in Ino \ {i} : inode'[j].mode = inode[j].mode
    BY <1>3 DEF Removes
  <2>3. IsUnlinked(i) => inode'[i].mode = inode[i].mode
    BY <1>3, <1>4 DEF IsUnlinked, TypedTable, INode
  <2>4. \A fd \in Fd : ofile[fd].ino \in Ino \/ ofile[fd] = NoFile
    BY <1>1 DEF Referred
  <2>5. \A fd \in Fd : ofile[fd].ino = i => ~ IsGone(i) \/ ofile[fd] = NoFile
    BY <1>3, UnixFsAssumption DEF OpenInodes
  <2>6. \A fd \in Fd :
          ofile[fd] = NoFile \/ (ofile[fd].ino \in Ino /\ inode'[ofile[fd].ino].mode = "file")
    <3> SUFFICES ASSUME NEW fd \in Fd, ofile[fd] # NoFile
                 PROVE  ofile[fd].ino \in Ino /\ inode'[ofile[fd].ino].mode = "file"
      OBVIOUS
    <3>1. ofile[fd].ino \in Ino /\ inode[ofile[fd].ino].mode = "file"
      BY <1>1 DEF Referred
    <3>2. ofile[fd].ino = i => IsUnlinked(i)
      BY <2>5 DEF Removes
    <3> QED BY <2>2, <2>3, <3>1, <3>2
  <2>7. ofile' = ofile
    OBVIOUS
  <2> QED BY <2>1, <2>6, <2>7 DEF Referred
<1>12. Outcome
  BY DEF Outcome
<1> QED BY <1>2, <1>9, <1>10, <1>11, <1>12 DEF IInv

\* A careful caller names something new in a directory.
LEMMA NewName ==
  ASSUME IInv, Careful, NEW path \in Paths, CanName(path)
  PROVE  /\ namei_parent(path) \in Dirs /\ namei_parent(path) \in Ino
         /\ basename(path) \in Name
         /\ Holding(namei_parent(path), basename(path)) = {}
<1> DEFINE d == namei_parent(path)
           n == basename(path)
<1>1. TreeInv /\ Referred
  BY DEF IInv, TreeInv
<1>2. d # NONE /\ lookup(d, n) = NONE /\ inode[d].mode = "dir"
  BY DEF CanName, GoodParent, Careful, Takes
<1>3. d \in InUse /\ n \in Part
  BY <1>1, <1>2, ParentInUse
<1> HIDE DEF d, n
<1>4. d \in Dirs /\ d \in Ino
  BY <1>2, <1>3 DEF InUse, Dirs
<1>5. n \notin {".", ".."}
  BY <1>1, <1>2, <1>4, LookupDots, DirSlots DEF TreeInv
<1>6. Holding(d, n) = {}
  BY <1>1, <1>2, <1>4, LookupFinds DEF TreeInv
<1> QED BY <1>3, <1>4, <1>5, <1>6 DEF d, n, Part

\* What the calls that name something do to the inode table.
LEMMA Extended ==
  ASSUME IInv, NEW d \in Dirs, NEW i \in Ino \ {root_ino}, NEW n \in Name, d # i, Holding(d, n) = {},
         NEW new \in INode,
         inode' = [inode EXCEPT ![i] = new, ![d].slots = Linked(d, n, i),
                                ![d].nblk = BlocksFor(Linked(d, n, i))],
         IsNewFile(i) \/ IsNewDir(i, d) \/ IsLinked(i)
  PROVE  /\ \E p : Adds(d, p, n, i)
         /\ inode'[d].nblk - inode[d].nblk = Growth(d, Linked(d, n, i))
<1> DEFINE slots == Linked(d, n, i)
<1>1. TreeInv /\ inode \in [Ino -> INode] /\ d \in Ino
  BY DEF IInv, TreeInv, Types, Dirs
<1>2. PICK p : AddedAt(slots, inode[d].slots, p, n, i)
  BY <1>1, LinkedAdds
<1> HIDE DEF slots
<1>3. slots \in Seq(SlotType) /\ BlocksFor(slots) \in Nat
  BY <1>2, BlocksForSlots DEF AddedAt
<1>4. inode' = [inode EXCEPT ![i] = new, ![d].slots = slots, ![d].nblk = BlocksFor(slots)]
  BY DEF slots
<1>5. inode'[d] = [inode[d] EXCEPT !.slots = slots, !.nblk = BlocksFor(slots)]
  BY <1>1, <1>4
<1>6. /\ inode'[d] \in INode
      /\ inode'[d].slots = slots /\ inode'[d].nblk = BlocksFor(slots)
      /\ inode'[d].mode = inode[d].mode /\ inode'[d].nlink = inode[d].nlink
  BY <1>1, <1>3, <1>5 DEF INode
<1>7. /\ \A j \in Ino \ {d, i} : inode'[j] = inode[j]
      /\ inode'[i] = new
      /\ inode' = [j \in Ino |-> inode'[j]]
  BY <1>1, <1>4
<1>8. inode' \in [Ino -> INode]
  <2>1. \A j \in Ino : inode'[j] \in INode
    BY <1>1, <1>6, <1>7
  <2> QED BY <1>7, <2>1
<1>9. Adds(d, p, n, i)
  BY <1>2, <1>6, <1>7, <1>8 DEF Adds
<1> QED BY <1>6, <1>9 DEF Growth, slots

LEMMA NewInodes ==
  /\ [Blank EXCEPT !.mode = "file", !.nlink = 1] \in INode
  /\ \A t \in Targets :
       [Blank EXCEPT !.mode = "link", !.nlink = 1, !.nblk = 1, !.target = t] \in INode
  /\ \A i \in Ino, d \in Ino : NewDir(Dots(i, d)) \in INode
<1>1. Blank \in INode
  <2>1. << >> \in Seq(SlotType)
    OBVIOUS
  <2> QED BY <2>1 DEF Blank, INode
<1>2. \A r \in INode : [r EXCEPT !.mode = "file", !.nlink = 1] \in INode
  BY DEF INode
<1>3. \A r \in INode, t \in Paths :
        [r EXCEPT !.mode = "link", !.nlink = 1, !.nblk = 1, !.target = t] \in INode
  BY DEF INode
<1>4. \A r \in INode, s \in Seq(SlotType), b \in Nat :
        [r EXCEPT !.mode = "dir", !.nlink = 1, !.slots = s, !.nblk = b] \in INode
  BY DEF INode
<1>5. ASSUME NEW i \in Ino, NEW d \in Ino
      PROVE  Dots(i, d) \in Seq(SlotType)
  <2>1. Slot(".", i) \in SlotType /\ Slot("..", d) \in SlotType
    BY DEF Slot, SlotType, Part
  <2> QED BY <2>1 DEF Dots
<1> QED BY <1>1, <1>2, <1>3, <1>4, <1>5, BlocksForSlots, UnixFsAssumption DEF NewDir

LEMMA FreeInode ==
  ASSUME IInv, NEW i \in free_inodes
  PROVE  /\ i \in Ino \ {root_ino} /\ i \notin InUse /\ inode[i].nblk = 0
         /\ \A d \in Dirs : d # i
<1>1. i \in Ino /\ i \notin InUse
  BY DEF IInv, NothingLost
<1>2. \A d \in Dirs : d # i
  BY <1>1 DEF Dirs, InUse
<1>3. inode[i] = Blank
  BY <1>1 DEF IInv, Shaped
<1> QED BY <1>1, <1>2, <1>3 DEF IInv, Nested, Blank

LEMMA NamingKeeps ==
  ASSUME IInv, NEW d \in Dirs, NEW i \in Ino \ {root_ino}, NEW n \in Name, d # i, Holding(d, n) = {},
         NEW new \in INode,
         inode' = [inode EXCEPT ![i] = new, ![d].slots = Linked(d, n, i),
                                ![d].nblk = BlocksFor(Linked(d, n, i))],
         IsNewFile(i) \/ IsNewDir(i, d) \/ IsLinked(i),
         free_inodes' = IF i \in InUse THEN free_inodes ELSE free_inodes \ {i},
         free_blocks' = free_blocks - Growth(d, Linked(d, n, i)) - (new.nblk - inode[i].nblk),
         Growth(d, Linked(d, n, i)) + (new.nblk - inode[i].nblk) <= free_blocks,
         UNCHANGED <<cwd_ino, ofile>>
  PROVE  IInv' /\ Outcome
<1>1. PICK p : Adds(d, p, n, i)
  BY Extended
<1>2. inode'[d].nblk - inode[d].nblk = Growth(d, Linked(d, n, i))
  BY Extended
<1>3. inode \in [Ino -> INode] /\ d \in Ino
  BY DEF IInv, Types, Dirs
<1>4. inode'[i] = new
  BY <1>3
<1>5. /\ inode'[d].nblk \in Nat /\ inode[d].nblk \in Nat /\ inode[i].nblk \in Nat /\ new.nblk \in Nat
      /\ free_blocks \in Nat
  BY <1>1, <1>3 DEF Adds, IInv, Types, INode
<1>6. /\ free_blocks' = free_blocks - (inode'[d].nblk - inode[d].nblk)
                                    - (inode'[i].nblk - inode[i].nblk)
      /\ free_blocks' >= 0
  <2> DEFINE g == Growth(d, Linked(d, n, i))
  <2>1. /\ g \in Int /\ inode'[d].nblk - inode[d].nblk = g
        /\ free_blocks' = free_blocks - g - (new.nblk - inode[i].nblk)
        /\ g + (new.nblk - inode[i].nblk) <= free_blocks
    BY <1>2, <1>5
  <2> HIDE DEF g
  <2> QED BY <1>4, <1>5, <2>1
<1> QED BY <1>1, <1>6, AddKeeps

LEMMA CreateKeeps ==
  ASSUME IInv, Careful, NEW path \in Paths, Create(path)
  PROVE  IInv' /\ Outcome
<1> DEFINE d == namei_parent(path)
           n == basename(path)
           new == [Blank EXCEPT !.mode = "file", !.nlink = 1]
<1>1. d \in Dirs /\ d \in Ino /\ n \in Name /\ Holding(d, n) = {}
  BY NewName DEF Create
<1>2. PICK i \in free_inodes :
        /\ Growth(d, Linked(d, n, i)) <= free_blocks
        /\ inode' = [inode EXCEPT ![i] = new, ![d].slots = Linked(d, n, i),
                                  ![d].nblk = BlocksFor(Linked(d, n, i))]
        /\ free_inodes' = free_inodes \ {i}
        /\ free_blocks' = free_blocks - Growth(d, Linked(d, n, i))
  BY DEF Create
<1>3. UNCHANGED <<cwd_ino, ofile>>
  BY DEF Create
<1>4. /\ new \in INode
      /\ new.mode = "file" /\ new.slots = << >> /\ new.nlink = 1 /\ new.nblk = 0
  BY NewInodes DEF Blank
<1> HIDE DEF d, n, new
<1>5. i \in Ino \ {root_ino} /\ i \notin InUse /\ inode[i].nblk = 0 /\ d # i
  BY <1>1, FreeInode
<1>6. inode'[i] = new
  BY <1>1, <1>2, <1>5 DEF IInv, Types
<1>7. IsNewFile(i)
  BY <1>4, <1>5, <1>6 DEF IsNewFile
<1>8. Growth(d, Linked(d, n, i)) \in Int /\ free_blocks \in Nat
  <2>1. BlocksFor(Linked(d, n, i)) \in Nat
    BY <1>1, <1>5, LinkedAdds, BlocksForSlots DEF AddedAt, IInv, TreeInv
  <2> QED BY <1>1, <2>1 DEF Growth, IInv, Types, INode
<1>9. /\ free_blocks' = free_blocks - Growth(d, Linked(d, n, i)) - (new.nblk - inode[i].nblk)
      /\ Growth(d, Linked(d, n, i)) + (new.nblk - inode[i].nblk) <= free_blocks
  BY <1>2, <1>4, <1>5, <1>8
<1>10. free_inodes' = IF i \in InUse THEN free_inodes ELSE free_inodes \ {i}
  BY <1>2, <1>5
<1> QED BY <1>1, <1>2, <1>3, <1>4, <1>5, <1>7, <1>9, <1>10, NamingKeeps

LEMMA SymlinkKeeps ==
  ASSUME IInv, Careful, NEW target \in Targets, NEW path \in Paths, Symlink(target, path)
  PROVE  IInv' /\ Outcome
<1> DEFINE d == namei_parent(path)
           n == basename(path)
           new == [Blank EXCEPT !.mode = "link", !.nlink = 1, !.nblk = 1, !.target = target]
<1>1. d \in Dirs /\ d \in Ino /\ n \in Name /\ Holding(d, n) = {}
  BY NewName DEF Symlink
<1>2. PICK i \in free_inodes :
        /\ Growth(d, Linked(d, n, i)) + 1 <= free_blocks
        /\ inode' = [inode EXCEPT ![i] = new, ![d].slots = Linked(d, n, i),
                                  ![d].nblk = BlocksFor(Linked(d, n, i))]
        /\ free_inodes' = free_inodes \ {i}
        /\ free_blocks' = free_blocks - Growth(d, Linked(d, n, i)) - 1
  BY DEF Symlink
<1>3. UNCHANGED <<cwd_ino, ofile>>
  BY DEF Symlink
<1>4. /\ new \in INode
      /\ new.mode = "link" /\ new.slots = << >> /\ new.nlink = 1 /\ new.nblk = 1
  BY NewInodes DEF Blank
<1> HIDE DEF d, n, new
<1>5. i \in Ino \ {root_ino} /\ i \notin InUse /\ inode[i].nblk = 0 /\ d # i
  BY <1>1, FreeInode
<1>6. inode'[i] = new
  BY <1>1, <1>2, <1>5 DEF IInv, Types
<1>7. IsNewFile(i)
  BY <1>4, <1>5, <1>6 DEF IsNewFile
<1>8. Growth(d, Linked(d, n, i)) \in Int /\ free_blocks \in Nat
  <2>1. BlocksFor(Linked(d, n, i)) \in Nat
    BY <1>1, <1>5, LinkedAdds, BlocksForSlots DEF AddedAt, IInv, TreeInv
  <2> QED BY <1>1, <2>1 DEF Growth, IInv, Types, INode
<1>9. /\ free_blocks' = free_blocks - Growth(d, Linked(d, n, i)) - (new.nblk - inode[i].nblk)
      /\ Growth(d, Linked(d, n, i)) + (new.nblk - inode[i].nblk) <= free_blocks
  BY <1>2, <1>4, <1>5, <1>8
<1>10. free_inodes' = IF i \in InUse THEN free_inodes ELSE free_inodes \ {i}
  BY <1>2, <1>5
<1> QED BY <1>1, <1>2, <1>3, <1>4, <1>5, <1>7, <1>9, <1>10, NamingKeeps

LEMMA MkdirKeeps ==
  ASSUME IInv, Careful, NEW path \in Paths, Mkdir(path)
  PROVE  IInv' /\ Outcome
<1> DEFINE d == namei_parent(path)
           n == basename(path)
<1>1. d \in Dirs /\ d \in Ino /\ n \in Name /\ Holding(d, n) = {}
  BY NewName DEF Mkdir
<1>2. PICK i \in free_inodes :
        LET own == IF free_blocks >= 1 THEN NewDir(Dots(i, d)) ELSE NewDir(<< >>)
            left == free_blocks - own.nblk
            slots == Linked(d, n, i)
        IN  /\ own.slots # << >> /\ Growth(d, slots) <= left
            /\ inode' = [inode EXCEPT ![i] = own, ![d].slots = slots, ![d].nblk = BlocksFor(slots)]
            /\ free_inodes' = free_inodes \ {i}
            /\ free_blocks' = left - Growth(d, slots)
  BY DEF Mkdir, Careful, Takes
<1>3. UNCHANGED <<cwd_ino, ofile>>
  BY DEF Mkdir
<1> DEFINE new == NewDir(Dots(i, d))
<1>4. new \in INode /\ new.nblk = 1
  <2>1. new \in INode
    BY <1>1, FreeInode, NewInodes
  <2> QED BY <2>1, BlocksForSlots DEF NewDir, Blank
<1>5. free_blocks >= 1
  <2>1. NewDir(<< >>).slots = << >>
    BY DEF NewDir, Blank
  <2> QED BY <1>2, <2>1
<1> HIDE DEF d, n, new
<1>6. /\ Growth(d, Linked(d, n, i)) <= free_blocks - new.nblk
      /\ inode' = [inode EXCEPT ![i] = new, ![d].slots = Linked(d, n, i),
                                ![d].nblk = BlocksFor(Linked(d, n, i))]
      /\ free_inodes' = free_inodes \ {i}
      /\ free_blocks' = free_blocks - new.nblk - Growth(d, Linked(d, n, i))
  BY <1>2, <1>5 DEF new
<1>7. i \in Ino \ {root_ino} /\ i \notin InUse /\ inode[i].nblk = 0 /\ d # i
  BY <1>1, FreeInode
<1>8. inode'[i] = new
  BY <1>1, <1>6, <1>7 DEF IInv, Types
<1>9. IsNewDir(i, d)
  BY <1>7, <1>8 DEF IsNewDir, new
<1>10. Growth(d, Linked(d, n, i)) \in Int /\ free_blocks \in Nat
  <2>1. BlocksFor(Linked(d, n, i)) \in Nat
    BY <1>1, <1>7, LinkedAdds, BlocksForSlots DEF AddedAt, IInv, TreeInv
  <2> QED BY <1>1, <2>1 DEF Growth, IInv, Types, INode
<1>11. /\ free_blocks' = free_blocks - Growth(d, Linked(d, n, i)) - (new.nblk - inode[i].nblk)
       /\ Growth(d, Linked(d, n, i)) + (new.nblk - inode[i].nblk) <= free_blocks
  BY <1>4, <1>6, <1>7, <1>10
<1>12. free_inodes' = IF i \in InUse THEN free_inodes ELSE free_inodes \ {i}
  BY <1>6, <1>7
<1> QED BY <1>1, <1>3, <1>4, <1>6, <1>7, <1>9, <1>11, <1>12, NamingKeeps

LEMMA LinkKeeps ==
  ASSUME IInv, Careful, NEW src \in Paths, NEW path \in Paths, Link(src, path)
  PROVE  IInv' /\ Outcome
<1> DEFINE d == namei_parent(path)
           n == basename(path)
           i == namei(src)
           new == [inode[i] EXCEPT !.nlink = @ + 1]
<1>1. d \in Dirs /\ d \in Ino /\ n \in Name /\ Holding(d, n) = {}
  BY NewName DEF Link
<1>2. /\ i # NONE /\ inode[i].mode # "dir"
      /\ Growth(d, Linked(d, n, i)) <= free_blocks
      /\ inode' = [inode EXCEPT ![i].nlink = @ + 1, ![d].slots = Linked(d, n, i),
                                ![d].nblk = BlocksFor(Linked(d, n, i))]
      /\ free_blocks' = free_blocks - Growth(d, Linked(d, n, i))
      /\ UNCHANGED <<free_inodes, cwd_ino, ofile>>
  BY DEF Link
<1>3. i \in InUse
  BY <1>2, NameiInUse DEF IInv, TreeInv
<1> HIDE DEF d, n, i
<1>4. i \in Ino /\ i \in InUse \ Dirs /\ inode[i] \in INode
  BY <1>2, <1>3 DEF IInv, Types, InUse, Dirs
<1>5. new \in INode /\ new.nblk = inode[i].nblk
  BY <1>4 DEF INode
<1>6. inode' = [inode EXCEPT ![i] = new, ![d].slots = Linked(d, n, i),
                             ![d].nblk = BlocksFor(Linked(d, n, i))]
  BY <1>2
<1>7. i # root_ino /\ d # i
  BY <1>1, <1>4 DEF IInv, Nested
<1>8. inode'[i] = new
  BY <1>1, <1>4, <1>6, <1>7 DEF IInv, Types
<1>9. IsLinked(i)
  BY <1>4, <1>8 DEF IsLinked
<1>10. Growth(d, Linked(d, n, i)) \in Int /\ free_blocks \in Nat /\ inode[i].nblk \in Nat
  <2>1. BlocksFor(Linked(d, n, i)) \in Nat
    BY <1>1, <1>4, LinkedAdds, BlocksForSlots DEF AddedAt, IInv, TreeInv
  <2> QED BY <1>1, <1>4, <2>1 DEF Growth, IInv, Types, INode
<1>11. /\ free_blocks' = free_blocks - Growth(d, Linked(d, n, i)) - (new.nblk - inode[i].nblk)
       /\ Growth(d, Linked(d, n, i)) + (new.nblk - inode[i].nblk) <= free_blocks
  BY <1>2, <1>5, <1>10
<1>12. free_inodes' = IF i \in InUse THEN free_inodes ELSE free_inodes \ {i}
  BY <1>2, <1>3
<1>13. UNCHANGED <<cwd_ino, ofile>>
  BY <1>2
<1> HIDE DEF new
<1> QED BY <1>1, <1>4, <1>5, <1>6, <1>7, <1>9, <1>11, <1>12, <1>13, NamingKeeps

\* What is removed has a name in a directory.
LEMMA OldName ==
  ASSUME IInv, NEW path \in Paths, namei_parent(path) # NONE,
         lookup(namei_parent(path), basename(path)) # NONE,
         \/ inode[lookup(namei_parent(path), basename(path))].mode # "dir"
         \/ basename(path) \notin {".", ".."}
  PROVE  /\ namei_parent(path) \in Dirs
         /\ \E p : /\ RemovedAt(Unlinked(namei_parent(path), basename(path)),
                                inode[namei_parent(path)].slots, p)
                   /\ <<namei_parent(path), p>> \in NameSlots
                   /\ NamedBy(<<namei_parent(path), p>>) = lookup(namei_parent(path), basename(path))
<1> DEFINE d == namei_parent(path)
           n == basename(path)
<1>1. TreeInv /\ Referred
  BY DEF IInv, TreeInv
<1>2. d \in InUse /\ d \in Ino /\ n \in Part
  BY <1>1, ParentInUse DEF InUse
<1>3. /\ lookup(d, n) # NONE
      /\ inode[lookup(d, n)].mode # "dir" \/ n \notin {".", ".."}
  OBVIOUS
<1> HIDE DEF d, n
<1>4. d \in Dirs
  <2>1. Holding(d, n) # {}
    BY <1>3 DEF lookup
  <2>2. inode[d].slots # << >>
    BY <2>1 DEF Holding
  <2> QED BY <1>1, <1>2, <2>2 DEF TreeInv, Shaped
<1>5. n \notin {".", ".."}
  <2>1. lookup(d, ".") = d /\ lookup(d, "..") = parent(d) /\ parent(d) \in Dirs
    BY <1>1, <1>4, LookupDots, DirSlots DEF TreeInv
  <2> QED BY <1>3, <1>4, <2>1 DEF Dirs
<1>6. \E p : /\ RemovedAt(Unlinked(d, n), inode[d].slots, p)
             /\ <<d, p>> \in NameSlots /\ NamedBy(<<d, p>>) = lookup(d, n)
  BY <1>1, <1>2, <1>3, <1>4, <1>5, UnlinkedRemoves
<1> QED BY <1>4, <1>6 DEF d, n

LEMMA RemovalKeeps ==
  ASSUME IInv, NEW d \in Dirs, NEW n, NEW p, NEW i, NEW links,
         RemovedAt(Unlinked(d, n), inode[d].slots, p),
         <<d, p>> \in NameSlots, NamedBy(<<d, p>>) = i,
         Remove(d, n, i, links), links = inode[i].nlink - 1,
         i \in Dirs => is_empty(i),
         links = 0 => i \notin OpenInodes /\ i # cwd_ino
  PROVE  IInv' /\ Outcome
<1>1. TreeInv /\ inode \in [Ino -> INode] /\ d \in Ino
  BY DEF IInv, TreeInv, Types, Dirs
<1>2. i # d /\ i \in InUse \ {root_ino} /\ i \in Ino
  BY <1>1, NotInItself DEF InUse
<1> DEFINE slots == Unlinked(d, n)
           new == IF links = 0 THEN Blank ELSE [inode[i] EXCEPT !.nlink = links]
<1>3. slots \in Seq(SlotType)
  BY DEF RemovedAt
<1>4. inode[d] \in INode /\ inode[i] \in INode
  BY <1>1, <1>2
<1>5. links \in Int /\ links >= 0
  <2>1. IsFiniteSet(Naming(i)) /\ Cardinality(Naming(i)) = inode[i].nlink /\ <<d, p>> \in Naming(i)
    BY <1>1, <1>2 DEF TreeInv, Named, Naming
  <2>2. Cardinality(Naming(i)) # 0
    BY <2>1, FS_EmptySet
  <2> QED BY <1>4, <2>1, <2>2 DEF INode
<1>6. /\ inode' = [inode EXCEPT ![d].slots = slots, ![i] = new]
      /\ free_inodes' = IF links = 0 THEN free_inodes \cup {i} ELSE free_inodes
      /\ free_blocks' = free_blocks + (IF links = 0 THEN inode[i].nblk ELSE 0)
      /\ UNCHANGED <<cwd_ino, ofile>>
  <2>1. inode' = [inode EXCEPT ![d].slots = slots,
                               ![i] = IF links = 0 THEN Blank ELSE [@ EXCEPT !.nlink = links]]
    BY DEF Remove
  <2>2. inode' = [inode EXCEPT ![d].slots = slots, ![i] = new]
    <3> HIDE DEF slots
    <3> QED BY <1>1, <1>2, <2>1
  <2> QED BY <2>2 DEF Remove
<1>7. new \in INode
  <2>1. Blank \in INode
    <3>1. << >> \in Seq(SlotType)
      OBVIOUS
    <3> QED BY <3>1 DEF Blank, INode
  <2>2. [inode[i] EXCEPT !.nlink = links] \in INode
    <3>1. \A r \in INode, l \in Nat : [r EXCEPT !.nlink = l] \in INode
      BY DEF INode
    <3> QED BY <1>4, <1>5, <3>1
  <2> QED BY <2>1, <2>2
<1> HIDE DEF slots, new
<1>8. /\ inode'[i] = new /\ inode'[d] = [inode[d] EXCEPT !.slots = slots]
      /\ \A j \in Ino \ {d, i} : inode'[j] = inode[j]
      /\ inode' = [j \in Ino |-> inode'[j]]
  BY <1>1, <1>2, <1>6
<1>9. /\ inode'[d] \in INode /\ inode'[d].slots = slots
      /\ inode'[d].mode = inode[d].mode /\ inode'[d].nlink = inode[d].nlink
      /\ inode'[d].nblk = inode[d].nblk
  BY <1>3, <1>4, <1>8 DEF INode
<1>10. inode' \in [Ino -> INode]
  <2>1. \A j \in Ino : inode'[j] \in INode
    BY <1>1, <1>7, <1>8, <1>9
  <2> QED BY <1>8, <2>1
<1>11. IF links = 0 THEN IsGone(i) ELSE IsUnlinked(i)
  <2>1. CASE links = 0
    <3>1. inode[i].nlink = 1
      BY <1>4, <2>1 DEF INode
    <3> QED BY <1>8, <2>1, <3>1 DEF IsGone, new
  <2>2. CASE links # 0
    <3>1. inode[i].nlink # 1
      BY <1>4, <2>2 DEF INode
    <3>2. i \notin Dirs
      BY <1>1, <3>1 DEF TreeInv, Shaped
    <3> QED BY <1>8, <2>2, <3>1, <3>2 DEF IsUnlinked, new
  <2> QED BY <2>1, <2>2
<1>12. links = 0 <=> IsGone(i)
  BY <1>11 DEF IsGone, IsUnlinked
<1>13. RemovedAt(inode'[d].slots, inode[d].slots, p)
  BY <1>9 DEF slots
<1>14. Removes(d, p, i)
  BY <1>8, <1>9, <1>10, <1>11, <1>13 DEF Removes
<1> QED BY <1>6, <1>12, <1>14, RemoveKeeps

LEMMA DeleteKeeps ==
  ASSUME IInv, Careful, NEW path \in Paths, Delete(path)
  PROVE  IInv' /\ Outcome
<1> DEFINE d == namei_parent(path)
           n == basename(path)
           i == lookup(d, n)
<1>1. /\ d # NONE /\ i # NONE /\ inode[i].mode # "dir"
      /\ ~ (i \in OpenInodes /\ inode[i].nlink = 1)
      /\ Remove(d, n, i, inode[i].nlink - 1)
  BY DEF Delete, Careful, Takes
<1>2. PICK p : /\ d \in Dirs /\ RemovedAt(Unlinked(d, n), inode[d].slots, p)
               /\ <<d, p>> \in NameSlots /\ NamedBy(<<d, p>>) = i
  BY <1>1, OldName
<1> HIDE DEF d, n, i
<1>3. i \in Ino /\ inode[i] \in INode
  BY <1>2, NotInItself DEF IInv, TreeInv, Types, InUse
<1>4. inode[i].nlink - 1 = 0 => i \notin OpenInodes
  BY <1>1, <1>3 DEF INode
<1>5. i \notin Dirs /\ i # cwd_ino
  BY <1>1 DEF Dirs, IInv, Referred
<1> QED BY <1>1, <1>2, <1>4, <1>5, RemovalKeeps

LEMMA RmdirKeeps ==
  ASSUME IInv, Careful, NEW path \in Paths, Rmdir(path)
  PROVE  IInv' /\ Outcome
<1> DEFINE d == namei_parent(path)
           n == basename(path)
           i == lookup(d, n)
<1>1. /\ d # NONE /\ i # NONE /\ inode[i].mode = "dir" /\ is_empty(i)
      /\ i # cwd_ino /\ n \notin {".", ".."}
      /\ Remove(d, n, i, 0)
  BY DEF Rmdir, Careful, Takes
<1>2. PICK p : /\ d \in Dirs /\ RemovedAt(Unlinked(d, n), inode[d].slots, p)
               /\ <<d, p>> \in NameSlots /\ NamedBy(<<d, p>>) = i
  BY <1>1, OldName
<1> HIDE DEF d, n, i
<1>3. i \in Ino /\ i \in Dirs
  BY <1>1, <1>2, NotInItself DEF IInv, TreeInv, InUse, Dirs
<1>4. inode[i].nlink - 1 = 0
  BY <1>3 DEF IInv, Shaped
<1>5. i \notin OpenInodes
  <2>1. \A fd \in Fd : ofile[fd].ino # NONE => inode[ofile[fd].ino].mode = "file"
    BY DEF IInv, Referred, NoFile
  <2> QED BY <1>1, <2>1 DEF OpenInodes
<1>6. Remove(d, n, i, inode[i].nlink - 1)
  <2>1. inode[i].nlink - 1 = 0 /\ Remove(d, n, i, 0)
    BY <1>1, <1>4
  <2> QED BY <2>1, Zenon
<1> QED BY <1>1, <1>2, <1>4, <1>5, <1>6, RemovalKeeps

LEMMA Bounds ==
  MAX_OPEN_FILE \in Nat /\ HOPS \in Nat /\ MaxFileBlks \in Nat /\ MaxPath \in Nat
BY UnixFsAssumption

\* Descriptors that are on files, and what they may hold.
GoodFiles(of) ==
  /\ of \in [Fd -> [ino : Ino \cup {NONE}, flags : SUBSET {"READ", "WRITE", "APPEND", "TRUNC"}]]
  /\ \A fd \in Fd : of[fd] = NoFile \/ (of[fd].ino \in Ino /\ inode[of[fd].ino].mode = "file")

LEMMA SameTableKeeps ==
  ASSUME IInv, UNCHANGED <<inode, free_inodes, free_blocks>>, cwd_ino' \in Dirs, GoodFiles(ofile')
  PROVE  IInv' /\ Outcome
<1>1. inode' = inode /\ free_inodes' = free_inodes /\ free_blocks' = free_blocks
  OBVIOUS
<1>2. Dirs' = Dirs /\ InUse' = InUse /\ NameSlots' = NameSlots /\ BlocksUsed' = BlocksUsed
  BY <1>1 DEF Dirs, InUse, NameSlots, BlocksUsed
<1>3. Types'
  BY <1>1 DEF IInv, Types, GoodFiles, Dirs
<1>4. Shaped'
  BY SMTT(30), <1>1, <1>2 DEF IInv, Shaped
<1>5. Named' /\ Nested'
  <2>1. \A s : NamedBy(s)' = NamedBy(s)
    BY <1>1 DEF NamedBy
  <2>2. \A i : Naming(i)' = Naming(i) /\ parent(i)' = parent(i)
    BY <1>1, <1>2, <2>1 DEF Naming, parent
  <2>3. Named'
    BY <1>1, <1>2, <2>1, <2>2 DEF IInv, Named
  <2>4. \A s \in NameSlots' : NamedBy(s)' \in Dirs' => parent(NamedBy(s))' = s[1]
    BY <1>1, <1>2, <2>1 DEF IInv, Nested, parent
  <2> QED BY <1>2, <2>2, <2>3, <2>4 DEF IInv, Nested
<1>6. Referred'
  BY <1>1, <1>2 DEF IInv, Referred, GoodFiles
<1>7. NothingLost'
  BY <1>1, <1>2 DEF IInv, NothingLost
<1>8. Outcome
  BY <1>1 DEF Outcome, NamesKept
<1> QED BY <1>3, <1>4, <1>5, <1>6, <1>7, <1>8 DEF IInv

\* A file grows or is truncated.
LEMMA ResizeKeeps ==
  ASSUME IInv, NEW i \in Ino, inode[i].mode = "file", NEW blocks \in Nat,
         inode' = [inode EXCEPT ![i].nblk = blocks],
         free_blocks' = free_blocks - (blocks - inode[i].nblk), free_blocks' >= 0,
         UNCHANGED <<free_inodes, cwd_ino>>, GoodFiles(ofile')
  PROVE  IInv' /\ Outcome
<1>1. TypedTable
  BY DEF IInv, Types, TypedTable
<1>2. inode' = [inode EXCEPT ![i] = [inode[i] EXCEPT !.nblk = blocks]]
  OBVIOUS
<1>3. [inode[i] EXCEPT !.nblk = blocks] \in INode /\ inode[i] \in INode
  BY <1>1 DEF TypedTable, INode
<1>4. TypedTable'
  BY <1>1, <1>2, <1>3 DEF TypedTable
<1>5. /\ \A j \in Ino : /\ inode'[j].mode = inode[j].mode /\ inode'[j].slots = inode[j].slots
                        /\ inode'[j].nlink = inode[j].nlink
      /\ \A j \in Ino \ {i} : inode'[j] = inode[j]
      /\ inode'[i].nblk = blocks
  <2>1. inode'[i] = [inode[i] EXCEPT !.nblk = blocks] /\ \A j \in Ino \ {i} : inode'[j] = inode[j]
    BY <1>1, <1>2 DEF TypedTable
  <2> QED BY <1>3, <2>1 DEF INode
<1>6. Dirs' = Dirs /\ InUse' = InUse /\ i \in InUse \ Dirs
  BY <1>5 DEF Dirs, InUse
<1>7. NameSlots' = NameSlots /\ \A s \in NameSlots : NamedBy(s)' = NamedBy(s)
  <2>1. Dirs \subseteq Ino
    BY DEF Dirs
  <2>2. \A e, k : IsNameSlot(e, k)' <=> IsNameSlot(e, k)
    BY <1>5, <1>6, <2>1 DEF IsNameSlot
  <2>3. \A s : s \in NameSlots' <=> s \in NameSlots
    BY <2>2, InNameSlots, InNameSlotsNext
  <2>4. \A s \in NameSlots : s[1] \in Ino
    BY <2>1, InNameSlots DEF IsNameSlot
  <2> QED BY <1>5, <2>3, <2>4 DEF NamedBy
<1>8. \A e \in Dirs : inode'[e] = inode[e] /\ parent(e)' = parent(e)
  BY <1>5, <1>6 DEF Dirs, parent
<1>9. Shaped'
  <2>1. \A j \in Ino \ InUse' : inode'[j] = Blank
    BY <1>5, <1>6 DEF IInv, Shaped
  <2>2. \A j \in Ino \ Dirs' : inode'[j].slots = << >>
    BY <1>5, <1>6 DEF IInv, Shaped
  <2> QED BY <1>6, <1>8, <2>1, <2>2 DEF IInv, Shaped
<1>10. Named'
  <2>1. \A j : Naming(j)' = Naming(j)
    BY <1>7 DEF Naming
  <2>2. \A j \in InUse : inode'[j].nlink = inode[j].nlink
    BY <1>5 DEF InUse
  <2> QED BY <1>6, <1>7, <2>1, <2>2 DEF IInv, Named
<1>11. Nested'
  <2>1. \A s \in NameSlots' : NamedBy(s)' \in Dirs' => parent(NamedBy(s))' = s[1]
    <3>1. ASSUME NEW s \in NameSlots', NEW e \in Dirs', e = NamedBy(s)'
          PROVE  parent(e)' = s[1]
      BY <1>6, <1>7, <1>8, <3>1 DEF IInv, Nested
    <3> QED BY <3>1 DEF parent
  <2>2. \A e \in Dirs' \ {root_ino} : Naming(e)' # {}
    BY <1>6, <1>7 DEF IInv, Nested, Naming
  <2>3. \E depth \in [Ino -> Nat] :
          /\ depth[root_ino] = 0
          /\ \A e \in Dirs' \ {root_ino} : depth[e] = depth[parent(e)'] + 1
    BY <1>6, <1>8 DEF IInv, Nested
  <2>4. /\ root_ino \in Dirs' /\ parent(root_ino)' = root_ino
        /\ \A e \in Dirs' : parent(e)' \in Dirs'
    BY <1>6, <1>8 DEF IInv, Nested
  <2> QED BY <2>1, <2>2, <2>3, <2>4 DEF Nested
<1>12. Referred'
  <2>1. \A fd \in Fd : ofile'[fd] = NoFile \/ (ofile'[fd].ino \in Ino /\ inode'[ofile'[fd].ino].mode = "file")
    BY <1>5 DEF GoodFiles
  <2> QED BY <1>6, <2>1 DEF IInv, Referred
<1>13. /\ free_blocks \in Nat /\ inode[i].nblk \in Nat /\ inode'[i].nblk = blocks
       /\ DATA_BLKS \in Nat /\ free_blocks + BlocksUsed = DATA_BLKS
  BY <1>3, <1>5, UnixFsAssumption DEF IInv, Types, INode, NothingLost
<1>14. NothingLost'
  <2>1. root_ino # i /\ root_ino \in Ino
    BY <1>6, UnixFsAssumption DEF IInv, Nested
  <2>2. \A j \in Ino \ {root_ino, i} : inode'[j].nblk = inode[j].nblk
    BY <1>5
  <2>3. /\ BlocksUsed \in Int
        /\ BlocksUsed' = BlocksUsed + (inode'[root_ino].nblk - inode[root_ino].nblk)
                                    + (inode'[i].nblk - inode[i].nblk)
    BY <1>1, <1>4, <2>1, <2>2, BlocksChange
  <2>4. inode'[root_ino].nblk = inode[root_ino].nblk /\ inode[root_ino].nblk \in Nat
    BY <1>1, <1>5, <2>1 DEF TypedTable, INode
  <2>5. free_blocks' + BlocksUsed' = DATA_BLKS
    BY <1>13, <2>3, <2>4
  <2> QED BY <1>6, <2>5 DEF NothingLost, IInv
<1>15. Types'
  <2>1. free_blocks' \in Nat
    BY <1>13
  <2> QED BY <1>4, <2>1 DEF TypedTable, Types, IInv, GoodFiles
<1>16. Outcome
  BY <1>5 DEF Outcome, NamesKept
<1> QED BY <1>9, <1>10, <1>11, <1>12, <1>14, <1>15, <1>16 DEF IInv

LEMMA SameFiles ==
  ASSUME IInv, UNCHANGED ofile
  PROVE  GoodFiles(ofile')
<1>1. ofile' = ofile
  OBVIOUS
<1> QED BY <1>1 DEF IInv, Types, Referred, GoodFiles

LEMMA ChdirKeeps ==
  ASSUME IInv, NEW path \in Paths, Chdir(path)
  PROVE  IInv' /\ Outcome
<1>1. namei_follow(path) \in Dirs
  BY FollowInUse DEF Chdir, IInv, TreeInv, Dirs, InUse
<1> QED BY <1>1, SameFiles, SameTableKeeps DEF Chdir

LEMMA OpenKeeps ==
  ASSUME IInv, NEW path \in Paths, NEW flags \in Flags, Open(path, flags)
  PROVE  IInv' /\ Outcome
<1> DEFINE i == namei_follow(path)
<1>1. i \in Ino /\ inode[i].mode = "file" /\ inode[i] \in INode
  <2>1. i \in InUse /\ inode[i].mode # "link" /\ inode[i].mode # "dir"
    BY FollowInUse DEF Open, IInv, TreeInv
  <2> QED BY <2>1 DEF InUse, IInv, Types, INode
<1>2. /\ IF "TRUNC" \in flags /\ inode[i].mode = "file"
         THEN /\ inode' = [inode EXCEPT ![i].nblk = 0]
              /\ free_blocks' = free_blocks + inode[i].nblk
         ELSE UNCHANGED <<inode, free_blocks>>
      /\ ofile' = IF FreeFds = {} THEN ofile
                  ELSE [ofile EXCEPT ![First(FreeFds)] = [ino |-> i, flags |-> flags]]
      /\ UNCHANGED <<free_inodes, cwd_ino>>
  BY DEF Open
<1> HIDE DEF i
<1>3. GoodFiles(ofile')
  <2>1. GoodFiles(ofile)
    BY DEF IInv, Types, Referred, GoodFiles
  <2>2. CASE FreeFds = {}
    BY <1>2, <2>1, <2>2
  <2>3. CASE FreeFds # {}
    <3>1. First(FreeFds) \in Fd
      <4>1. FreeFds \subseteq Nat
        BY Bounds DEF FreeFds, Fd
      <4>2. First(FreeFds) \in FreeFds
        BY <2>3, <4>1, FirstMember
      <4> QED BY <4>2 DEF FreeFds
    <3> DEFINE new == [ino |-> i, flags |-> flags]
    <3>2. new \in [ino : Ino \cup {NONE}, flags : SUBSET {"READ", "WRITE", "APPEND", "TRUNC"}]
      BY <1>1, UnixFsAssumption
    <3>3. new.ino = i
      OBVIOUS
    <3>4. ofile' = [ofile EXCEPT ![First(FreeFds)] = new]
      BY <1>2, <2>3
    <3> HIDE DEF new
    <3> QED BY <1>1, <2>1, <3>1, <3>2, <3>3, <3>4 DEF GoodFiles
  <2> QED BY <2>2, <2>3
<1>4. CASE "TRUNC" \in flags
  <2>1. inode[i].nblk \in Nat /\ free_blocks \in Nat
    BY <1>1 DEF INode, IInv, Types
  <2>2. free_blocks' = free_blocks - (0 - inode[i].nblk) /\ free_blocks' >= 0
    BY <1>1, <1>2, <1>4, <2>1
  <2> QED BY <1>1, <1>2, <1>3, <1>4, <2>2, ResizeKeeps
<1>5. CASE "TRUNC" \notin flags
  <2>1. UNCHANGED <<inode, free_inodes, free_blocks>> /\ cwd_ino' \in Dirs
    BY <1>2, <1>5 DEF IInv, Referred
  <2> QED BY <1>3, <2>1, SameTableKeeps
<1> QED BY <1>4, <1>5

LEMMA CloseKeeps ==
  ASSUME IInv, NEW fd \in Fd, Close(fd)
  PROVE  IInv' /\ Outcome
<1>1. ofile' = [ofile EXCEPT ![fd] = NoFile]
  BY DEF Close
<1>2. NoFile \in [ino : Ino \cup {NONE}, flags : SUBSET {"READ", "WRITE", "APPEND", "TRUNC"}]
  BY DEF NoFile
<1>3. GoodFiles(ofile')
  BY <1>1, <1>2 DEF IInv, Types, Referred, GoodFiles
<1>4. UNCHANGED <<inode, free_inodes, free_blocks>> /\ cwd_ino' \in Dirs
  BY DEF Close, IInv, Referred
<1> QED BY <1>3, <1>4, SameTableKeeps

LEMMA WriteKeeps ==
  ASSUME IInv, NEW fd \in Fd, NEW blocks \in 1 .. MaxFileBlks, Write(fd, blocks)
  PROVE  IInv' /\ Outcome
<1> DEFINE i == ofile[fd].ino
<1>1. /\ ofile[fd] # NoFile
      /\ blocks <= free_blocks
      /\ inode' = [inode EXCEPT ![i].nblk = @ + blocks]
      /\ free_blocks' = free_blocks - blocks
      /\ UNCHANGED <<free_inodes, cwd_ino, ofile>>
  BY DEF Write, NoFile
<1>2. i \in Ino /\ inode[i].mode = "file"
  BY <1>1 DEF IInv, Referred
<1> HIDE DEF i
<1>3. inode[i].nblk \in Nat /\ free_blocks \in Nat /\ blocks \in Nat
  <2>1. inode[i] \in INode /\ free_blocks \in Nat
    BY <1>2 DEF IInv, Types
  <2>2. blocks \in Nat
    BY Bounds
  <2> QED BY <2>1, <2>2 DEF INode
<1> DEFINE n == inode[i].nblk + blocks
<1>4. n \in Nat /\ free_blocks' = free_blocks - (n - inode[i].nblk) /\ free_blocks' >= 0
  BY <1>1, <1>3
<1>5. inode' = [inode EXCEPT ![i].nblk = n]
  BY <1>1
<1>6. GoodFiles(ofile')
  BY <1>1, SameFiles
<1>7. UNCHANGED <<free_inodes, cwd_ino>>
  BY <1>1
<1> HIDE DEF n
<1> QED BY <1>2, <1>4, <1>5, <1>6, <1>7, ResizeKeeps

LEMMA FormattedFree ==
  DATA_BLKS - FormattedBlocks \in Nat /\ DATA_BLKS \in Nat /\ FormattedBlocks \in Nat
<1>1. BlocksFor(RootSlots) = 1 \/ BlocksFor(RootSlots) = 2
  BY BlocksForSlots
<1>2. FormattedBlocks = 3 \/ FormattedBlocks = 4
  BY <1>1 DEF FormattedBlocks
<1>3. DATA_BLKS \in Nat /\ DATA_BLKS >= 4
  BY UnixFsAssumption
<1> QED BY <1>2, <1>3

LEMMA FormatKeeps ==
  ASSUME IInv, Careful, Format
  PROVE  IInv' /\ Outcome
<1>1. /\ inode' = Formatted /\ ofile' = ofile /\ cwd_ino' = root_ino /\ cwd_path' = << >>
      /\ free_inodes' = Ino \ {root_ino, etc_ino, home_ino}
      /\ free_blocks' = DATA_BLKS - FormattedBlocks
      /\ OpenInodes = {}
  BY DEF Format, Careful, Takes
<1>2. /\ TypedTable' /\ Shaped' /\ Named' /\ Nested'
      /\ InUse' = {root_ino, etc_ino, home_ino} /\ Dirs' = InUse'
  BY <1>1, FormattedTreeNext
<1>3. BlocksUsed' = FormattedBlocks
  BY <1>1, FormattedUsedNext
<1>4. NothingLost'
  BY <1>1, <1>2, <1>3, FormattedFree DEF NothingLost
<1>5. root_ino \in Ino
  BY UnixFsAssumption
<1>6. Types'
  BY <1>1, <1>2, <1>5, FormattedFree DEF Types, TypedTable, IInv
<1>7. \A fd \in Fd : ofile[fd] = NoFile
  <2>1. \A fd \in Fd : ofile[fd].ino = NONE
    BY <1>1 DEF OpenInodes
  <2> QED BY <2>1, UnixFsAssumption DEF IInv, Referred
<1>8. Referred'
  BY <1>1, <1>2, <1>7 DEF Referred
<1>9. Outcome
  BY <1>1 DEF Outcome
<1> QED BY <1>2, <1>4, <1>6, <1>8, <1>9 DEF IInv

LEMMA RemountKeeps ==
  ASSUME IInv, Remount
  PROVE  IInv' /\ Outcome
<1>1. root_ino \in Dirs
  BY DEF IInv, Nested
<1> QED BY <1>1, SameFiles, SameTableKeeps DEF Remount

LEMMA InitIInv ==
  Init => IInv
<1> SUFFICES ASSUME Init
             PROVE  IInv
  OBVIOUS
<1>1. /\ inode = Formatted /\ ofile = [fd \in Fd |-> NoFile] /\ cwd_ino = root_ino
      /\ free_inodes = Ino \ {root_ino, etc_ino, home_ino}
      /\ free_blocks = DATA_BLKS - FormattedBlocks
  BY DEF Init
<1>2. /\ TypedTable /\ Shaped /\ Named /\ Nested
      /\ InUse = {root_ino, etc_ino, home_ino} /\ Dirs = InUse
  BY <1>1, FormattedTree
<1>3. NothingLost
  BY <1>1, <1>2, FormattedUsed, FormattedFree DEF NothingLost
<1>4. root_ino \in Ino
  BY UnixFsAssumption
<1>5. Types
  <2>1. NoFile \in [ino : Ino \cup {NONE}, flags : SUBSET {"READ", "WRITE", "APPEND", "TRUNC"}]
    BY DEF NoFile
  <2> QED BY <1>1, <1>2, <1>4, <2>1, FormattedFree DEF Types, TypedTable
<1>6. Referred
  BY <1>1, <1>2 DEF Referred
<1> QED BY <1>2, <1>3, <1>5, <1>6 DEF IInv

LEMMA NextKeeps ==
  ASSUME IInv, Careful, [Next]_vars
  PROVE  IInv' /\ Outcome
<1>1. ASSUME NEW path \in Paths, Create(path)
      PROVE  IInv' /\ Outcome
  BY <1>1, CreateKeeps
<1>2. ASSUME NEW path \in Paths, Mkdir(path)
      PROVE  IInv' /\ Outcome
  BY <1>2, MkdirKeeps
<1>3. ASSUME NEW path \in Paths, Delete(path)
      PROVE  IInv' /\ Outcome
  BY <1>3, DeleteKeeps
<1>4. ASSUME NEW path \in Paths, Rmdir(path)
      PROVE  IInv' /\ Outcome
  BY <1>4, RmdirKeeps
<1>5. ASSUME NEW path \in Paths, Chdir(path)
      PROVE  IInv' /\ Outcome
  BY <1>5, ChdirKeeps
<1>6. ASSUME NEW path \in Paths, NEW target \in Targets, Symlink(target, path)
      PROVE  IInv' /\ Outcome
  BY <1>6, SymlinkKeeps
<1>7. ASSUME NEW path \in Paths, NEW src \in Paths, Link(src, path)
      PROVE  IInv' /\ Outcome
  BY <1>7, LinkKeeps
<1>8. ASSUME NEW path \in Paths, NEW flags \in Flags, Open(path, flags)
      PROVE  IInv' /\ Outcome
  BY <1>8, OpenKeeps
<1>9. ASSUME NEW fd \in Fd, Close(fd)
      PROVE  IInv' /\ Outcome
  BY <1>9, CloseKeeps
<1>10. ASSUME NEW fd \in Fd, NEW blocks \in 1 .. MaxFileBlks, Write(fd, blocks)
       PROVE  IInv' /\ Outcome
  BY <1>10, WriteKeeps
<1>11. CASE Format
  BY <1>11, FormatKeeps
<1>12. CASE Remount
  BY <1>12, RemountKeeps
<1>13. CASE UNCHANGED vars
  <2>1. UNCHANGED <<inode, free_inodes, free_blocks, cwd_ino, ofile>>
    BY <1>13 DEF vars
  <2>2. cwd_ino' \in Dirs
    BY <2>1 DEF IInv, Referred
  <2> QED BY <2>1, <2>2, SameFiles, SameTableKeeps
<1> QED
  BY <1>1, <1>2, <1>3, <1>4, <1>5, <1>6, <1>7, <1>8, <1>9, <1>10, <1>11, <1>12, <1>13 DEF Next

\* ---- Theorems ----

LEMMA AlwaysIInv ==
  ASSUME Careful
  PROVE  Spec => []IInv
<1>1. Init => IInv
  BY InitIInv
<1>2. Careful /\ IInv /\ [Next]_vars => IInv'
  BY NextKeeps
<1>3. Careful
  OBVIOUS
<1> QED BY <1>1, <1>2, <1>3, PTL DEF Spec

\* The state of the engine keeps its types (the inode table, the free lists, the
\* current directory and the descriptors of unix_fs.h) under callers that take
\* no liberty.
THEOREM UnixTypes ==
  Careful => (Spec => []Types)
<1> SUFFICES ASSUME Careful
             PROVE  Spec => []Types
  OBVIOUS
<1>1. IInv => Types
  BY DEF IInv
<1>2. Spec => []IInv
  BY AlwaysIInv
<1> QED BY <1>1, <1>2, PTL

\* Every name leads to an inode in use, and an inode has as many links as names:
\* what create, mkdir, symlink, hardlink, unlink and rmdir do to i_nlink.
THEOREM UnixLinkCounts ==
  Careful => (Spec => []LinkCounts)
<1> SUFFICES ASSUME Careful
             PROVE  Spec => []LinkCounts
  OBVIOUS
<1>1. IInv => LinkCounts
  BY DEF IInv, Named, LinkCounts, Naming
<1>2. Spec => []IInv
  BY AlwaysIInv
<1> QED BY <1>1, <1>2, PTL

\* Every inode number and every data block is free or in use, after every call,
\* those included that run out of blocks on the way.
THEOREM UnixNothingLost ==
  Careful => (Spec => []NothingLost)
<1> SUFFICES ASSUME Careful
             PROVE  Spec => []NothingLost
  OBVIOUS
<1>1. IInv => NothingLost
  BY DEF IInv
<1>2. Spec => []IInv
  BY AlwaysIInv
<1> QED BY <1>1, <1>2, PTL

\* A descriptor leads to a regular file that exists: open follows symbolic links
\* and refuses directories, and the file is not removed under it.
THEOREM UnixOpenFilesLive ==
  Careful => (Spec => []OpenFilesLive)
<1> SUFFICES ASSUME Careful
             PROVE  Spec => []OpenFilesLive
  OBVIOUS
<1>1. IInv => OpenFilesLive
  BY DEF IInv, Referred, OpenFilesLive, OpenInodes, NoFile
<1>2. Spec => []IInv
  BY AlwaysIInv
<1> QED BY <1>1, <1>2, PTL

\* A directory is less deep than there are inodes: its depth, and every smaller
\* one, is that of a directory.
LEMMA DepthBound ==
  ASSUME Nested, NEW depth \in [Ino -> Nat], depth[root_ino] = 0,
         \A d \in Dirs \ {root_ino} : depth[d] = depth[parent(d)] + 1,
         NEW d \in Dirs
  PROVE  depth[d] <= Cardinality(Ino)
<1> DEFINE Levels(n) == \A k \in 0 .. n : \E e \in Dirs : depth[e] = k
           S == {n \in Nat : \A e \in Dirs : depth[e] = n => Levels(n)}
<1>1. Dirs \subseteq Ino /\ root_ino \in Dirs /\ \A e \in Dirs : parent(e) \in Dirs
  BY DEF Dirs, Nested
<1>2. 0 \in S
  BY <1>1
<1>3. ASSUME NEW n \in Nat, n \in S
      PROVE  n + 1 \in S
  <2> SUFFICES ASSUME NEW e \in Dirs, depth[e] = n + 1
               PROVE  Levels(n + 1)
    OBVIOUS
  <2>1. e # root_ino
    OBVIOUS
  <2>2. depth[e] = depth[parent(e)] + 1 /\ parent(e) \in Dirs /\ depth[parent(e)] \in Nat
    BY <1>1, <2>1
  <2>3. Levels(n)
    BY <1>3, <2>2
  <2>4. \A k \in 0 .. n + 1 : k \in 0 .. n \/ k = n + 1
    OBVIOUS
  <2> QED BY <2>3, <2>4
<1> HIDE DEF S
<1>4. depth[d] \in S
  <2>1. Nat \subseteq S
    BY <1>2, <1>3, Induction
  <2> QED BY <1>1, <2>1
<1>5. Levels(depth[d]) /\ depth[d] \in Nat
  BY <1>1, <1>4 DEF S
<1> SUFFICES ASSUME depth[d] > Cardinality(Ino)
             PROVE  FALSE
  <2>1. Cardinality(Ino) \in Nat
    BY UnixFsAssumption, FS_CardinalityType
  <2> QED BY <1>5, <2>1
<1> DEFINE n == depth[d]
           c == [k \in 0 .. n |-> CHOOSE e \in Dirs : depth[e] = k]
<1>6. \A k \in 0 .. n : c[k] \in Dirs /\ depth[c[k]] = k
  BY <1>5
<1>7. c \in [0 .. n -> Ino]
  BY <1>1, <1>6
<1>8. IsFiniteSet(0 .. n) /\ Cardinality(0 .. n) = n + 1
  <2>1. n \in Nat
    BY <1>5
  <2> HIDE DEF n
  <2>2. 0 \in Int /\ n \in Int /\ ~ (0 > n)
    BY <2>1
  <2>3. IsFiniteSet(0 .. n) /\ Cardinality(0 .. n) = IF 0 > n THEN 0 ELSE n - 0 + 1
    BY <2>2, FS_Interval
  <2> QED BY <2>1, <2>2, <2>3
<1>9. IsFiniteSet(Ino) /\ Cardinality(Ino) \in Nat
  BY UnixFsAssumption, FS_CardinalityType
<1>10. Cardinality(Ino) < Cardinality(0 .. n)
  BY <1>5, <1>8, <1>9
<1> HIDE DEF c, n
<1>11. \E x, y \in 0 .. n : x # y /\ c[x] = c[y]
  <2> DEFINE dom == 0 .. n
  <2>1. IsFiniteSet(dom) /\ c \in [dom -> Ino] /\ Cardinality(Ino) < Cardinality(dom)
    BY <1>7, <1>8, <1>10
  <2> HIDE DEF dom
  <2>2. \E x, y \in dom : x # y /\ c[x] = c[y]
    BY <1>9, <2>1, FS_PigeonHole
  <2> QED BY <2>2 DEF dom
<1> QED BY <1>6, <1>11

LEMMA DirectoriesAreATree ==
  ASSUME IInv
  PROVE  DirectoryTree
<1> DEFINE N == Cardinality(Ino)
<1>1. N \in Nat
  BY UnixFsAssumption, FS_CardinalityType
<1>2. /\ Dirs \subseteq Ino
      /\ \A i \in Dirs : lookup(i, "..") = parent(i) /\ parent(i) \in Dirs /\ lookup(i, ".") = i
  BY LookupDots, DirSlots DEF IInv, Dirs
<1>3. PICK depth \in [Ino -> Nat] :
        /\ depth[root_ino] = 0
        /\ \A d \in Dirs \ {root_ino} : depth[d] = depth[parent(d)] + 1
  BY DEF IInv, Nested
<1>4. parent(root_ino) = root_ino
  BY DEF IInv, Nested
<1> SUFFICES ASSUME NEW d \in Dirs
             PROVE  LET up[k \in 0 .. Cardinality(Ino)] ==
                          IF k = 0 THEN d
                          ELSE IF up[k - 1] \in Dirs THEN lookup(up[k - 1], "..") ELSE NONE
                    IN  /\ lookup(d, ".") = d
                        /\ d # root_ino =>
                             \E s \in NameSlots : NamedBy(s) = d /\ s[1] = lookup(d, "..")
                        /\ up[Cardinality(Ino)] = root_ino
  BY DEF DirectoryTree
<1> DEFINE up[k \in 0 .. Cardinality(Ino)] ==
             IF k = 0 THEN d
             ELSE IF up[k - 1] \in Dirs THEN lookup(up[k - 1], "..") ELSE NONE
           G == [x \in Dirs \X (1 .. N) |-> parent(x[1])]
<1> HIDE DEF N
<1>5. G \in [Dirs \X (1 .. N) -> Dirs] /\ \A e \in Dirs, k \in 1 .. N : G[<<e, k>>] = parent(e)
  BY <1>2
<1> HIDE DEF G
<1>6. PICK w : IsOrbit(w, Dirs, d, N, G)
  BY <1>1, <1>5, Orbit
<1>7. up = [k \in 0 .. N |-> IF k = 0 THEN d
                           ELSE IF up[k - 1] \in Dirs THEN lookup(up[k - 1], "..") ELSE NONE]
  <2> DEFINE Def(f) == [k \in 0 .. Cardinality(Ino) |->
               IF k = 0 THEN d ELSE IF f[k - 1] \in Dirs THEN lookup(f[k - 1], "..") ELSE NONE]
  <2>1. w = Def(w)
    <3>1. ASSUME NEW k \in 0 .. N
          PROVE  w[k] = IF k = 0 THEN d
                        ELSE IF w[k - 1] \in Dirs THEN lookup(w[k - 1], "..") ELSE NONE
      <4>1. k # 0 => k \in 1 .. N /\ w[k - 1] \in Dirs
        BY <1>1, <1>6 DEF IsOrbit
      <4> QED BY ZenonT(30), <1>2, <1>5, <1>6, <4>1 DEF IsOrbit
    <3>2. w = [k \in 0 .. N |-> w[k]]
      BY <1>6 DEF IsOrbit
    <3> QED BY <3>1, <3>2 DEF N
  <2>2. up = Def(up)
    BY <2>1, Zenon
  <2> HIDE DEF up
  <2> QED BY <2>2 DEF N
<1> HIDE DEF up
<1> DEFINE Z == {k \in Nat : k <= N => /\ up[k] \in Dirs
                                      /\ depth[up[k]] = IF k <= depth[d] THEN depth[d] - k ELSE 0}
<1>8. 0 \in Z
  BY <1>1, <1>2, <1>3, <1>7
<1>9. ASSUME NEW k \in Nat, k \in Z
      PROVE  k + 1 \in Z
  <2> SUFFICES ASSUME k + 1 <= N
               PROVE  /\ up[k + 1] \in Dirs
                      /\ depth[up[k + 1]] = IF k + 1 <= depth[d] THEN depth[d] - (k + 1) ELSE 0
    OBVIOUS
  <2>1. up[k] \in Dirs /\ depth[up[k]] = IF k <= depth[d] THEN depth[d] - k ELSE 0
    BY <1>1, <1>9
  <2>2. up[k + 1] = parent(up[k])
    BY <1>1, <1>2, <1>7, <2>1
  <2>3. depth[d] \in Nat /\ depth[parent(up[k])] \in Nat /\ parent(up[k]) \in Dirs
    BY <1>2, <1>3, <2>1
  <2>4. CASE up[k] = root_ino
    BY <1>3, <1>4, <2>1, <2>2, <2>3, <2>4
  <2>5. CASE up[k] # root_ino
    <3>1. depth[up[k]] = depth[parent(up[k])] + 1
      BY <1>3, <2>1, <2>5
    <3> QED BY <2>1, <2>2, <2>3, <3>1
  <2> QED BY <2>4, <2>5
<1> HIDE DEF Z
<1>10. up[N] = root_ino
  <2>1. N \in Z
    BY <1>1, <1>8, <1>9, Induction
  <2>2. depth[d] <= N /\ depth[d] \in Nat
    BY <1>2, <1>3, DepthBound DEF IInv, N
  <2>3. up[N] \in Dirs /\ depth[up[N]] = 0
    BY <1>1, <2>1, <2>2 DEF Z
  <2>4. up[N] # root_ino => depth[up[N]] = depth[parent(up[N])] + 1 /\ depth[parent(up[N])] \in Nat
    BY <1>2, <1>3, <2>3
  <2> QED BY <2>3, <2>4
<1>11. ASSUME d # root_ino
       PROVE  \E s \in NameSlots : NamedBy(s) = d /\ s[1] = lookup(d, "..")
  <2>1. PICK s \in NameSlots : NamedBy(s) = d
    BY <1>11 DEF IInv, Nested, Naming
  <2>2. parent(d) = s[1]
    BY <2>1 DEF IInv, Nested
  <2> QED BY <1>2, <2>1, <2>2
<1> QED BY <1>2, <1>10, <1>11 DEF N, up

\* The directories are a tree: mkdir and rmdir keep ".", ".." and the name of a
\* directory in its parent in step, and from each the root is reached.
THEOREM UnixDirectoryTree ==
  Careful => (Spec => []DirectoryTree)
<1> SUFFICES ASSUME Careful
             PROVE  Spec => []DirectoryTree
  OBVIOUS
<1>1. IInv => DirectoryTree
  BY DirectoriesAreATree
<1>2. Spec => []IInv
  BY AlwaysIInv
<1> QED BY <1>1, <1>2, PTL

\* ---- The name space implements a tree of names and nodes ----

Pair(s) == <<s[1], NameAt(s)>>
Nms == [p \in {<<s[1], NameAt(s)>> : s \in NameSlots} |-> lookup(p[1], p[2])]
Knd == [i \in InUse |-> inode[i].mode]

\* A name slot is the only one with its name in its directory, and lookup finds it.
LEMMA OnlySlot ==
  ASSUME TreeInv, NEW s \in NameSlots
  PROVE  /\ s[1] \in Dirs /\ NameAt(s) \in Name /\ NamedBy(s) \in InUse \ {root_ino}
         /\ lookup(s[1], NameAt(s)) = NamedBy(s)
         /\ \A t \in NameSlots : Pair(t) = Pair(s) => t = s
<1>1. /\ s = <<s[1], s[2]>> /\ s[1] \in Dirs /\ s[2] \in 1 .. Len(inode[s[1]].slots)
      /\ inode[s[1]].slots[s[2]].ino # NONE
  BY InNameSlots DEF IsNameSlot
<1>2. s[2] \in 3 .. Len(inode[s[1]].slots) /\ NameAt(s) \in Name
  BY <1>1, DirSlots DEF TreeInv, NameAt
<1>3. NamedBy(s) \in InUse \ {root_ino}
  BY DEF TreeInv, Named
<1>4. ASSUME NEW t \in NameSlots, Pair(t) = Pair(s)
      PROVE  t = s
  <2>1. /\ t = <<t[1], t[2]>> /\ t[1] \in Dirs /\ t[2] \in 1 .. Len(inode[t[1]].slots)
        /\ inode[t[1]].slots[t[2]].ino # NONE
    BY InNameSlots DEF IsNameSlot
  <2>2. t[2] \in 3 .. Len(inode[t[1]].slots)
    BY <2>1, DirSlots DEF TreeInv
  <2>3. t[1] = s[1] /\ inode[t[1]].slots[t[2]].name = inode[s[1]].slots[s[2]].name
    BY <1>4 DEF Pair, NameAt
  <2>4. t[2] = s[2]
    BY <1>1, <1>2, <2>1, <2>2, <2>3 DEF TreeInv, Shaped
  <2> QED BY <1>1, <2>1, <2>3, <2>4
<1>5. lookup(s[1], NameAt(s)) = NamedBy(s)
  <2> DEFINE d == s[1]
             n == NameAt(s)
             k == First(Holding(d, n))
  <2>1. s[2] \in Holding(d, n)
    BY <1>1 DEF Holding, NameAt
  <2>2. n \in Part /\ n \notin {".", ".."} /\ d \in Dirs /\ d \in Ino
    BY <1>1, <1>2, UnixFsAssumption DEF Part, Dirs
  <2>3. lookup(d, n) # NONE
    <3> HIDE DEF d, n
    <3> QED BY <2>1, <2>2, LookupFinds DEF TreeInv
  <2>4. <<d, k>> \in NameSlots /\ NamedBy(<<d, k>>) = lookup(d, n) /\ NameAt(<<d, k>>) = n
    <3> HIDE DEF d, n
    <3>1. /\ <<d, First(Holding(d, n))>> \in NameSlots
          /\ NamedBy(<<d, First(Holding(d, n))>>) = lookup(d, n)
          /\ inode[d].slots[First(Holding(d, n))].name = n
      BY <2>2, <2>3, LookupName DEF TreeInv
    <3> QED BY <3>1 DEF NameAt
  <2>5. <<d, k>> = s
    <3>1. Pair(<<d, k>>) = Pair(s)
      BY <2>4 DEF Pair
    <3> QED BY <1>4, <2>4, <3>1
  <2> QED BY <2>4, <2>5
<1> QED BY <1>1, <1>2, <1>3, <1>4, <1>5

LEMMA NmsKnd ==
  TreeInv =>
    /\ DOMAIN Nms = {Pair(s) : s \in NameSlots}
    /\ Nms = [q \in DOMAIN Nms |-> Nms[q]]
    /\ \A s \in NameSlots : Nms[Pair(s)] = NamedBy(s)
    /\ DOMAIN Knd = InUse /\ Knd = [j \in InUse |-> Knd[j]]
    /\ \A j \in InUse : Knd[j] = inode[j].mode
    /\ InUse = {root_ino} \cup {Nms[q] : q \in DOMAIN Nms}
<1> SUFFICES ASSUME TreeInv
             PROVE  /\ DOMAIN Nms = {Pair(s) : s \in NameSlots}
                    /\ Nms = [q \in DOMAIN Nms |-> Nms[q]]
                    /\ \A s \in NameSlots : Nms[Pair(s)] = NamedBy(s)
                    /\ DOMAIN Knd = InUse /\ Knd = [j \in InUse |-> Knd[j]]
                    /\ \A j \in InUse : Knd[j] = inode[j].mode
                    /\ InUse = {root_ino} \cup {Nms[q] : q \in DOMAIN Nms}
  OBVIOUS
<1>1. DOMAIN Nms = {Pair(s) : s \in NameSlots} /\ Nms = [q \in DOMAIN Nms |-> Nms[q]]
  BY DEF Nms, Pair
<1>2. ASSUME NEW s \in NameSlots
      PROVE  Nms[Pair(s)] = NamedBy(s)
  <2>1. Nms[Pair(s)] = lookup(s[1], NameAt(s))
    BY DEF Nms, Pair
  <2> QED BY <2>1, OnlySlot
<1>3. DOMAIN Knd = InUse /\ Knd = [j \in InUse |-> Knd[j]] /\ \A j \in InUse : Knd[j] = inode[j].mode
  BY DEF Knd
<1>4. InUse = {root_ino} \cup {Nms[q] : q \in DOMAIN Nms}
  <2>1. root_ino \in InUse
    BY DEF TreeInv, Nested, Dirs, InUse
  <2>2. \A q \in DOMAIN Nms : Nms[q] \in InUse
    BY <1>1, <1>2 DEF TreeInv, Named
  <2>3. ASSUME NEW j \in InUse \ {root_ino}
        PROVE  \E q \in DOMAIN Nms : Nms[q] = j
    <3>1. IsFiniteSet(Naming(j)) /\ Cardinality(Naming(j)) = inode[j].nlink /\ inode[j].nlink > 0
      BY DEF TreeInv, Named
    <3>2. Naming(j) # {}
      BY <3>1, FS_EmptySet
    <3>3. PICK s \in NameSlots : NamedBy(s) = j
      BY <3>2 DEF Naming
    <3> QED BY <1>1, <1>2, <3>3
  <2> QED BY <2>1, <2>2, <2>3
<1> QED BY <1>1, <1>2, <1>3, <1>4

LEMMA NmsKndNext ==
  (TreeInv =>
    /\ DOMAIN Nms = {Pair(s) : s \in NameSlots}
    /\ Nms = [q \in DOMAIN Nms |-> Nms[q]]
    /\ \A s \in NameSlots : Nms[Pair(s)] = NamedBy(s)
    /\ DOMAIN Knd = InUse /\ Knd = [j \in InUse |-> Knd[j]]
    /\ \A j \in InUse : Knd[j] = inode[j].mode
    /\ InUse = {root_ino} \cup {Nms[q] : q \in DOMAIN Nms})'
BY NmsKnd, PTL

\* The slots that stay keep their names.
LEMMA AddKeepsNames ==
  ASSUME TreeInv, NEW d, NEW p, NEW n, NEW i, Adds(d, p, n, i)
  PROVE  /\ \A s \in NameSlots : NameAt(s)' = NameAt(s) /\ Pair(s)' = Pair(s)
         /\ Pair(<<d, p>>)' = <<d, n>>
<1>1. /\ d \in Dirs /\ AddedAt(inode'[d].slots, inode[d].slots, p, n, i)
      /\ <<d, p>> \notin NameSlots
      /\ \A e \in Dirs \ {d} : inode'[e] = inode[e]
  BY AddSlots, AddDirs DEF Adds
<1>2. ASSUME NEW s \in NameSlots
      PROVE  NameAt(s)' = NameAt(s)
  <2>1. s = <<s[1], s[2]>> /\ s[1] \in Dirs /\ s[2] \in 1 .. Len(inode[s[1]].slots)
    BY InNameSlots DEF IsNameSlot
  <2>2. CASE s[1] = d
    <3>1. s[2] # p
      BY <1>1, <2>1, <2>2
    <3>2. inode'[d].slots[s[2]] = inode[d].slots[s[2]]
      BY <1>1, <2>1, <2>2, <3>1 DEF AddedAt
    <3> QED BY <2>2, <3>2 DEF NameAt
  <2>3. CASE s[1] # d
    BY <1>1, <2>1, <2>3 DEF NameAt
  <2> QED BY <2>2, <2>3
<1>3. NameAt(<<d, p>>)' = n
  BY <1>1 DEF NameAt, AddedAt, Slot
<1> QED BY <1>2, <1>3 DEF Pair

LEMMA RemoveKeepsNames ==
  ASSUME TreeInv, NEW d, NEW p, NEW i, Removes(d, p, i)
  PROVE  \A s \in NameSlots' : NameAt(s)' = NameAt(s) /\ Pair(s)' = Pair(s)
<1>1. /\ RemovedAt(inode'[d].slots, inode[d].slots, p)
      /\ NameSlots' = NameSlots \ {<<d, p>>}
      /\ i # d /\ d \in Dirs
      /\ \A e \in Dirs \ {d, i} : inode'[e] = inode[e]
      /\ IsGone(i) => \A k : <<i, k>> \notin NameSlots
      /\ i \notin Dirs \/ IsGone(i)
  BY RemoveSlots, RemoveDirs DEF Removes, IsUnlinked
<1>2. ASSUME NEW s \in NameSlots'
      PROVE  NameAt(s)' = NameAt(s)
  <2>1. /\ s \in NameSlots /\ s # <<d, p>>
        /\ s = <<s[1], s[2]>> /\ s[1] \in Dirs /\ s[2] \in 1 .. Len(inode[s[1]].slots)
    BY <1>1, InNameSlots DEF IsNameSlot
  <2>2. s[1] # i
    BY <1>1, <2>1
  <2>3. CASE s[1] = d
    <3>1. s[2] # p
      BY <2>1, <2>3
    <3>2. inode'[d].slots[s[2]] = inode[d].slots[s[2]]
      BY <1>1, <2>1, <2>3, <3>1 DEF RemovedAt
    <3> QED BY <2>3, <3>2 DEF NameAt
  <2>4. CASE s[1] # d
    BY <1>1, <2>1, <2>2, <2>4 DEF NameAt
  <2> QED BY <2>3, <2>4
<1> QED BY <1>2 DEF Pair

LEMMA AddImplements ==
  ASSUME TreeInv, TreeInv', NEW d, NEW p, NEW n, NEW i, Adds(d, p, n, i)
  PROVE  Tree!Named(Nms, Knd, Nms', Knd')
<1> DEFINE P == <<d, n>>
<1>1. /\ d \in Dirs /\ d \in InUse /\ n \in Name /\ i \in Ino /\ i # d /\ i \notin Dirs
      /\ InUse' = InUse \cup {i} /\ <<d, p>> \notin NameSlots
      /\ NameSlots' = NameSlots \cup {<<d, p>>}
      /\ \A s \in NameSlots : NamedBy(s)' = NamedBy(s) /\ Pair(s)' = Pair(s)
      /\ NamedBy(<<d, p>>)' = i /\ Pair(<<d, p>>)' = P
  BY SMTT(30), AddDirs, AddSlots, AddKeepsNames DEF Adds, Dirs, InUse
<1>2. /\ DOMAIN Nms = {Pair(s) : s \in NameSlots}
      /\ \A s \in NameSlots : Nms[Pair(s)] = NamedBy(s)
      /\ DOMAIN Knd = InUse /\ Knd = [j \in InUse |-> Knd[j]]
      /\ \A j \in InUse : Knd[j] = inode[j].mode
  BY NmsKnd
<1>3. /\ DOMAIN Nms' = {Pair(s)' : s \in NameSlots'}
      /\ Nms' = [q \in DOMAIN Nms' |-> Nms'[q]]
      /\ \A s \in NameSlots' : Nms'[Pair(s)'] = NamedBy(s)'
      /\ DOMAIN Knd' = InUse' /\ Knd' = [j \in InUse' |-> Knd'[j]]
      /\ \A j \in InUse' : Knd'[j] = inode'[j].mode
  BY NmsKndNext
<1>4. P \notin DOMAIN Nms
  <2> SUFFICES ASSUME NEW s \in NameSlots, Pair(s) = P
               PROVE  FALSE
    BY <1>2
  <2>1. s[1] = d /\ NameAt(s) = n
    BY DEF Pair
  <2>2. s[2] \in Holding(d, n)
    BY <2>1, InNameSlots DEF IsNameSlot, Holding, NameAt
  <2> QED BY <2>2 DEF Adds
<1>5. DOMAIN Nms' = DOMAIN Nms \cup {P} /\ Nms'[P] = i
  BY <1>1, <1>2, <1>3
<1>6. Nms' = [q \in DOMAIN Nms \cup {P} |-> IF q = P THEN Nms'[P] ELSE Nms[q]]
  <2>1. \A q \in DOMAIN Nms : Nms'[q] = Nms[q]
    BY <1>1, <1>2, <1>3
  <2> QED BY <1>3, <1>5, <2>1
<1>7. Knd[d] = "dir" /\ d \in DOMAIN Knd
  BY <1>1, <1>2 DEF Dirs
<1>8. \A j \in InUse \ {i} : inode'[j].mode = inode[j].mode
  BY DEF Adds, InUse
<1>9. IF i \in DOMAIN Knd THEN Knd[i] # "dir" /\ Knd' = Knd
      ELSE \E k \in {"file", "dir", "link"} :
             Knd' = [j \in DOMAIN Knd \cup {i} |-> IF j = i THEN k ELSE Knd[j]]
  <2>1. CASE i \in InUse
    <3>1. IsLinked(i) /\ inode[i] \in INode
      BY <1>1, <2>1 DEF Adds, IsNewFile, IsNewDir, TreeInv, Types
    <3>2. inode'[i].mode = inode[i].mode
      BY <3>1 DEF IsLinked, INode
    <3>3. InUse' = InUse /\ \A j \in InUse : Knd'[j] = Knd[j]
      BY <1>1, <1>2, <1>3, <1>8, <2>1, <3>2
    <3>4. Knd' = Knd
      BY <1>2, <1>3, <3>3
    <3>5. Knd[i] # "dir"
      BY <1>1, <1>2, <2>1 DEF Dirs
    <3> QED BY <1>2, <2>1, <3>4, <3>5
  <2>2. CASE i \notin InUse
    <3>1. inode'[i].mode \in {"file", "dir", "link"}
      <4>1. inode'[i] \in INode /\ inode'[i].mode # "none"
        BY <1>1 DEF TreeInv, Types, InUse
      <4> QED BY <4>1 DEF INode
    <3>2. \A j \in InUse : j # i /\ Knd'[j] = Knd[j]
      BY <1>1, <1>2, <1>3, <1>8, <2>2
    <3>3. Knd'[i] = inode'[i].mode
      BY <1>1, <1>3
    <3>4. Knd' = [j \in DOMAIN Knd \cup {i} |-> IF j = i THEN inode'[i].mode ELSE Knd[j]]
      BY <1>1, <1>2, <1>3, <3>2, <3>3
    <3> QED BY <1>2, <2>2, <3>1, <3>4
  <2> QED BY <2>1, <2>2
<1>10. P[1] = d /\ P[2] = n
  OBVIOUS
<1> HIDE DEF P
<1>11. IF Nms'[P] \in DOMAIN Knd THEN Knd[Nms'[P]] # "dir" /\ Knd' = Knd
       ELSE \E k \in {"file", "dir", "link"} :
              Knd' = [j \in DOMAIN Knd \cup {Nms'[P]} |-> IF j = Nms'[P] THEN k ELSE Knd[j]]
  BY <1>5, <1>9, Zenon
<1>12. P \in DOMAIN Nms' \ DOMAIN Nms
  BY <1>4, <1>5
<1>13. P[1] \in DOMAIN Knd /\ Knd[P[1]] = "dir" /\ P[2] \in Name
  BY <1>1, <1>7, <1>10
<1> QED BY <1>6, <1>11, <1>12, <1>13, Zenon DEF Tree!Named

LEMMA RemoveImplements ==
  ASSUME TreeInv, TreeInv', NEW d, NEW p, NEW i, Removes(d, p, i)
  PROVE  Tree!Removed(Nms, Knd, Nms', Knd')
<1> DEFINE P == Pair(<<d, p>>)
<1>1. /\ i \in InUse \ {root_ino} /\ i \in Ino
      /\ InUse' = IF IsGone(i) THEN InUse \ {i} ELSE InUse
      /\ <<d, p>> \in NameSlots /\ NamedBy(<<d, p>>) = i
      /\ NameSlots' = NameSlots \ {<<d, p>>}
      /\ \A s \in NameSlots' : NamedBy(s)' = NamedBy(s) /\ Pair(s)' = Pair(s)
      /\ IsGone(i) => \A k : <<i, k>> \notin NameSlots
      /\ i \notin Dirs \/ IsGone(i)
  BY RemoveDirs, RemoveSlots, RemoveKeepsNames DEF Removes, IsUnlinked
<1>2. /\ DOMAIN Nms = {Pair(s) : s \in NameSlots}
      /\ \A s \in NameSlots : Nms[Pair(s)] = NamedBy(s)
      /\ DOMAIN Knd = InUse
      /\ \A j \in InUse : Knd[j] = inode[j].mode
  BY NmsKnd
<1>3. /\ DOMAIN Nms' = {Pair(s)' : s \in NameSlots'}
      /\ Nms' = [q \in DOMAIN Nms' |-> Nms'[q]]
      /\ \A s \in NameSlots' : Nms'[Pair(s)'] = NamedBy(s)'
      /\ Knd' = [j \in InUse' |-> Knd'[j]]
      /\ \A j \in InUse' : Knd'[j] = inode'[j].mode
      /\ InUse' = {root_ino} \cup {Nms'[q] : q \in DOMAIN Nms'}
  BY NmsKndNext
<1>4. P \in DOMAIN Nms /\ Nms[P] = i
  BY <1>1, <1>2
<1>5. \A s \in NameSlots : Pair(s) = P => s = <<d, p>>
  BY <1>1, OnlySlot
<1> HIDE DEF P
<1>6. DOMAIN Nms' = DOMAIN Nms \ {P}
  <2>1. ASSUME NEW q
        PROVE  q \in DOMAIN Nms' <=> q \in DOMAIN Nms /\ q # P
    <3>1. q \in DOMAIN Nms' => \E s \in NameSlots \ {<<d, p>>} : q = Pair(s)
      BY <1>1, <1>3
    <3>2. \A s \in NameSlots \ {<<d, p>>} : Pair(s) \in DOMAIN Nms' /\ Pair(s) \in DOMAIN Nms /\ Pair(s) # P
      BY <1>1, <1>2, <1>3, <1>5
    <3>3. q \in DOMAIN Nms /\ q # P => \E s \in NameSlots \ {<<d, p>>} : q = Pair(s)
      BY <1>2 DEF P
    <3> QED BY <3>1, <3>2, <3>3
  <2> QED BY <2>1
<1>7. Nms' = [q \in DOMAIN Nms \ {P} |-> Nms[q]]
  <2>1. \A q \in DOMAIN Nms' : Nms'[q] = Nms[q]
    BY <1>1, <1>2, <1>3
  <2> QED BY <1>3, <1>6, <2>1
<1>8. \A n \in Name : <<Nms[P], n>> \notin DOMAIN Nms
  <2> SUFFICES ASSUME NEW s \in NameSlots, s[1] = i
               PROVE  FALSE
    BY <1>2, <1>4 DEF Pair
  <2>1. s = <<s[1], s[2]>> /\ s[1] \in Dirs
    BY InNameSlots DEF IsNameSlot
  <2> QED BY <1>1, <2>1
<1>9. Knd' = [j \in Tree!Existing(Nms') |-> Knd[j]]
  <2>1. Tree!Existing(Nms') = InUse'
    BY <1>3 DEF Tree!Existing
  <2>2. \A j \in InUse' : inode'[j].mode = inode[j].mode
    <3>1. IsUnlinked(i) => inode'[i].mode = inode[i].mode
      BY <1>1 DEF IsUnlinked, TreeInv, Types, INode
    <3> QED BY <1>1, <3>1 DEF Removes, InUse
  <2>3. \A j \in InUse' : Knd'[j] = Knd[j]
    BY <1>1, <1>2, <1>3, <2>2
  <2> QED BY <1>3, <2>1, <2>3
<1> QED BY <1>4, <1>6, <1>7, <1>8, <1>9 DEF Tree!Removed

\* A call that keeps the slots keeps the names and the kinds.
LEMMA KeptImplements ==
  ASSUME TreeInv, TreeInv', NamesKept
  PROVE  Nms' = Nms /\ Knd' = Knd
<1>1. Dirs' = Dirs /\ InUse' = InUse
  BY DEF NamesKept, Dirs, InUse
<1>2. \A e \in Dirs : inode'[e].slots = inode[e].slots
  BY DEF NamesKept, Dirs
<1>3. NameSlots' = NameSlots
  <2>1. \A e, k : IsNameSlot(e, k)' <=> IsNameSlot(e, k)
    BY <1>1, <1>2 DEF IsNameSlot
  <2>2. \A e, k : <<e, k>> \in NameSlots' <=> <<e, k>> \in NameSlots
    BY <2>1, InNameSlots, InNameSlotsNext
  <2> QED BY <2>2, InNameSlots, InNameSlotsNext
<1>4. \A s \in NameSlots : NamedBy(s)' = NamedBy(s) /\ Pair(s)' = Pair(s)
  <2> SUFFICES ASSUME NEW s \in NameSlots
               PROVE  NamedBy(s)' = NamedBy(s) /\ Pair(s)' = Pair(s)
    OBVIOUS
  <2>1. s[1] \in Dirs
    BY InNameSlots DEF IsNameSlot
  <2> QED BY <1>2, <2>1 DEF NamedBy, NameAt, Pair
<1>5. Nms' = Nms
  <2>1. DOMAIN Nms' = DOMAIN Nms
    BY <1>3, <1>4, NmsKnd, NmsKndNext
  <2>2. \A s \in NameSlots : Nms'[Pair(s)] = Nms[Pair(s)]
    BY <1>3, <1>4, NmsKnd, NmsKndNext
  <2>3. \A q \in DOMAIN Nms : Nms'[q] = Nms[q]
    BY <2>2, NmsKnd
  <2> QED BY <2>1, <2>3, NmsKnd, NmsKndNext
<1>6. Knd' = Knd
  BY <1>1, NmsKnd, NmsKndNext DEF NamesKept, InUse
<1> QED BY <1>5, <1>6

LEMMA FormattedImplements ==
  TreeInv /\ inode = Formatted => Tree!Fresh(Nms, Knd)
<1> SUFFICES ASSUME TreeInv, inode = Formatted
             PROVE  Tree!Fresh(Nms, Knd)
  OBVIOUS
<1>1. /\ Dirs = InUse
      /\ NameSlots = {<<root_ino, 3>>, <<root_ino, 4>>}
      /\ NamedBy(<<root_ino, 3>>) = etc_ino /\ NamedBy(<<root_ino, 4>>) = home_ino
      /\ etc_ino # home_ino
  BY FormattedTree, UnixFsAssumption
<1>2. \A s \in NameSlots :
        s[1] = root_ino /\ NameAt(s) \in Name /\ NamedBy(s) \in Ino /\ Nms[Pair(s)] = NamedBy(s)
  BY <1>1, OnlySlot, NmsKnd DEF InUse
<1>3. /\ DOMAIN Nms = {Pair(s) : s \in NameSlots}
      /\ Nms = [q \in DOMAIN Nms |-> Nms[q]]
      /\ DOMAIN Knd = InUse /\ Knd = [j \in InUse |-> Knd[j]]
      /\ \A j \in InUse : Knd[j] = inode[j].mode
      /\ InUse = {root_ino} \cup {Nms[q] : q \in DOMAIN Nms}
  BY NmsKnd
<1>4. Nms \in [DOMAIN Nms -> Ino]
  <2>1. \A q \in DOMAIN Nms : Nms[q] \in Ino
    BY <1>2, <1>3
  <2> QED BY <1>3, <2>1
<1>5. DOMAIN Nms \subseteq {root_ino} \X Name
  <2>1. \A s \in NameSlots : Pair(s) \in {root_ino} \X Name
    BY <1>2 DEF Pair
  <2> QED BY <1>3, <2>1
<1>6. \A p, q \in DOMAIN Nms : Nms[p] = Nms[q] => p = q
  <2>1. \A s, t \in NameSlots : NamedBy(s) = NamedBy(t) => s = t
    BY <1>1
  <2>2. \A s, t \in NameSlots : Nms[Pair(s)] = Nms[Pair(t)] => Pair(s) = Pair(t)
    BY <1>2, <2>1
  <2> QED BY <1>3, <2>2
<1>7. Knd = [j \in Tree!Existing(Nms) |-> "dir"]
  <2>1. Tree!Existing(Nms) = InUse
    BY <1>3 DEF Tree!Existing
  <2>2. \A j \in InUse : Knd[j] = "dir"
    BY <1>1, <1>3 DEF Dirs
  <2> QED BY <1>3, <2>1, <2>2
<1> QED BY <1>4, <1>5, <1>6, <1>7 DEF Tree!Fresh

LEMMA FormattedImplementsNext ==
  (TreeInv /\ inode = Formatted => Tree!Fresh(Nms, Knd))'
BY FormattedImplements, PTL

\* The slots and the link counts implement names and the nodes they name: init
\* and each call of the engine map to a step of the tree of directories, or to
\* none.
THEOREM UnixImplementsTree ==
  Careful => (Spec => ImplementsTree)
<1> SUFFICES ASSUME Careful
             PROVE  Spec => ImplementsTree
  OBVIOUS
<1>1. Init => Tree!Init
  <2> SUFFICES ASSUME Init
               PROVE  Tree!Init
    OBVIOUS
  <2>1. TreeInv /\ inode = Formatted
    BY InitIInv DEF IInv, TreeInv, Init
  <2>2. Tree!Fresh(Nms, Knd)
    BY <2>1, FormattedImplements
  <2> QED BY <2>2 DEF Tree!Init, Nms, Knd
<1>2. Careful /\ IInv /\ [Next]_vars => [Tree!Next]_(Tree!vars)
  <2> SUFFICES ASSUME IInv, [Next]_vars
               PROVE  [Tree!Next]_(Tree!vars)
    OBVIOUS
  <2>1. Outcome /\ TreeInv /\ TreeInv'
    BY NextKeeps DEF IInv, TreeInv
  <2>2. ASSUME Tree!Changed(Nms, Knd, Nms', Knd')
        PROVE  Tree!Next
    BY <2>2 DEF Tree!Next, Nms, Knd
  <2>3. ASSUME NEW d, NEW p, NEW n, NEW i, Adds(d, p, n, i)
        PROVE  Tree!Next
    BY <2>1, <2>2, <2>3, AddImplements DEF Tree!Changed
  <2>4. ASSUME NEW d, NEW p, NEW i, Removes(d, p, i)
        PROVE  Tree!Next
    BY <2>1, <2>2, <2>4, RemoveImplements DEF Tree!Changed
  <2>5. CASE NamesKept
    <3>1. Nms' = Nms /\ Knd' = Knd
      BY <2>1, <2>5, KeptImplements
    <3> QED BY <3>1 DEF Tree!vars, Nms, Knd
  <2>6. CASE inode' = Formatted
    BY <2>1, <2>2, <2>6, FormattedImplementsNext DEF Tree!Changed
  <2> QED BY <2>1, <2>3, <2>4, <2>5, <2>6 DEF Outcome
<1>3. Spec => []IInv
  BY AlwaysIInv
<1>4. Careful
  OBVIOUS
<1> QED BY <1>1, <1>2, <1>3, <1>4, PTL DEF Spec, ImplementsTree, Tree!Spec

\* ---- The path of the current directory ----

\* Callers who make no symbolic link, and whose absolute paths have no dots: with
\* either, the path that pwd prints comes apart from the directory.
PlainPaths == Targets = {} /\ \A p \in Paths : p.abs => p.parts \in Seq(Name)

NoLinks == \A i \in Ino : inode[i].mode # "link"

\* The names of path lead from the root to i.
IsChain(w, path, i) ==
  /\ w \in [0 .. Len(path) -> Ino] /\ w[0] = root_ino /\ w[Len(path)] = i
  /\ \A k \in 1 .. Len(path) :
       <<w[k - 1], path[k]>> \in DOMAIN Nms /\ w[k] = Nms[<<w[k - 1], path[k]>>]

LeadsTo(path, i) == path \in Seq(Name) /\ \E w : IsChain(w, path, i)

PInv == IInv /\ NoLinks /\ LeadsTo(cwd_path, cwd_ino)

\* A name in the tree, seen from its directory and from its pair.
LEMMA NameFound ==
  ASSUME TreeInv, NEW d \in Dirs, NEW n \in Name, lookup(d, n) # NONE
  PROVE  <<d, n>> \in DOMAIN Nms /\ Nms[<<d, n>>] = lookup(d, n)
<1>1. n \in Part /\ n \notin {".", ".."}
  BY UnixFsAssumption DEF Part
<1> DEFINE s == <<d, First(Holding(d, n))>>
<1>2. s \in NameSlots /\ NamedBy(s) = lookup(d, n) /\ NameAt(s) = n
  BY <1>1, LookupName DEF TreeInv, NameAt
<1>3. Pair(s) = <<d, n>>
  BY <1>2 DEF Pair
<1> HIDE DEF s
<1> QED BY <1>2, <1>3, NmsKnd

LEMMA PairFound ==
  ASSUME TreeInv, NEW d, NEW n, <<d, n>> \in DOMAIN Nms
  PROVE  /\ d \in Dirs /\ n \in Name /\ Nms[<<d, n>>] \in InUse \ {root_ino}
         /\ lookup(d, n) = Nms[<<d, n>>]
         /\ Nms[<<d, n>>] \in Dirs => parent(Nms[<<d, n>>]) = d
<1>1. PICK s \in NameSlots : Pair(s) = <<d, n>> /\ Nms[<<d, n>>] = NamedBy(s)
  BY NmsKnd
<1>2. s[1] = d /\ NameAt(s) = n
  BY <1>1 DEF Pair
<1> QED BY <1>1, <1>2, OnlySlot DEF TreeInv, Nested

\* A walk that arrives has been in directories.
LEMMA WalkInDirs ==
  ASSUME TreeInv, NEW parts \in Seq(Part), NEW from \in V, NEW u,
         IsWalk(u, parts, from), u[Len(parts)] # NONE
  PROVE  /\ \A k \in 0 .. Len(parts) : u[k] \in Ino
         /\ \A k \in 1 .. Len(parts) : u[k - 1] \in Dirs /\ u[k] = lookup(u[k - 1], parts[k])
<1> DEFINE n == Len(parts)
           S == {k \in Nat : k <= n => u[n - k] # NONE}
<1>1. /\ n \in Nat /\ u \in [0 .. n -> V]
      /\ \A k \in 1 .. n : u[k] = Step(u[k - 1], parts[k])
  BY DEF IsWalk
<1>2. 0 \in S
  BY <1>1
<1>3. ASSUME NEW k \in Nat, k \in S
      PROVE  k + 1 \in S
  <2> SUFFICES ASSUME k + 1 <= n
               PROVE  u[n - (k + 1)] # NONE
    OBVIOUS
  <2>1. n - k \in 1 .. n /\ n - k - 1 = n - (k + 1)
    BY <1>1
  <2>2. u[n - k] = Step(u[n - (k + 1)], parts[n - k])
    BY <1>1, <2>1
  <2> QED BY <1>1, <1>3, <2>2 DEF Step
<1> HIDE DEF S
<1>4. Nat \subseteq S
  BY <1>2, <1>3, Induction
<1>5. \A k \in 0 .. n : u[k] # NONE
  <2> SUFFICES ASSUME NEW k \in 0 .. n
               PROVE  u[k] # NONE
    OBVIOUS
  <2>1. n - k \in S /\ n - k <= n /\ n - (n - k) = k
    BY <1>1, <1>4
  <2> QED BY <2>1 DEF S
<1>6. \A k \in 0 .. n : u[k] \in Ino
  BY <1>1, <1>5 DEF V
<1>7. ASSUME NEW k \in 1 .. n
      PROVE  u[k - 1] \in Dirs /\ u[k] = lookup(u[k - 1], parts[k])
  <2>1. k \in 0 .. n /\ k - 1 \in 0 .. n
    BY <1>1
  <2> QED BY <1>1, <1>5, <1>6, <2>1 DEF Step, Dirs
<1> QED BY <1>6, <1>7

\* Without symbolic links there is nothing to follow.
LEMMA FollowNothing ==
  ASSUME TreeInv, NoLinks, NEW path, path.parts \in Seq(Part), Start(path) \in InUse
  PROVE  namei_follow(path) = namei(path)
<1> DEFINE at[h \in 1 .. HOPS] ==
             IF h = 1 THEN namei(path)
             ELSE IF at[h - 1] # NONE /\ inode[at[h - 1]].mode = "link"
             THEN namei(inode[at[h - 1]].target)
             ELSE at[h - 1]
           x == namei(path)
           S == {k \in Nat : k + 1 <= HOPS => at[k + 1] = x}
<1>1. HOPS \in Nat /\ HOPS > 0
  BY UnixFsAssumption
<1>2. namei_follow(path) =
        IF at[HOPS] # NONE /\ inode[at[HOPS]].mode = "link" THEN NONE ELSE at[HOPS]
  BY DEF namei_follow
<1>3. x \in InUse \cup {NONE}
  BY WalkInUse DEF namei
<1>4. x # NONE => inode[x].mode # "link"
  BY <1>3 DEF NoLinks, InUse
<1> HIDE DEF x
<1>5. at = [h \in 1 .. HOPS |->
             IF h = 1 THEN x
             ELSE IF at[h - 1] # NONE /\ inode[at[h - 1]].mode = "link"
             THEN namei(inode[at[h - 1]].target)
             ELSE at[h - 1]]
  <2> DEFINE Def(g) == [h \in 1 .. HOPS |->
               IF h = 1 THEN namei(path)
               ELSE IF g[h - 1] # NONE /\ inode[g[h - 1]].mode = "link"
               THEN namei(inode[g[h - 1]].target)
               ELSE g[h - 1]]
             g == [h \in 1 .. HOPS |-> x]
  <2>1. g = Def(g)
    <3>1. \A h \in 1 .. HOPS : h # 1 => h - 1 \in 1 .. HOPS
      BY <1>1
    <3>2. \A h \in 1 .. HOPS : h # 1 => g[h - 1] = x
      BY <3>1
    <3>3. \A h \in 1 .. HOPS : Def(g)[h] = x
      BY <1>4, <3>2 DEF x
    <3> QED BY <3>3
  <2> HIDE DEF g
  <2>2. at = Def(at)
    BY <2>1, Zenon
  <2> QED BY <2>2 DEF x
<1> HIDE DEF at
<1>6. 0 \in S
  BY <1>1, <1>5
<1>7. ASSUME NEW k \in Nat, k \in S
      PROVE  k + 1 \in S
  <2> SUFFICES ASSUME k + 1 + 1 <= HOPS
               PROVE  at[k + 1 + 1] = x
    OBVIOUS
  <2>1. at[k + 1] = x
    BY <1>1, <1>7
  <2> QED BY <1>1, <1>4, <1>5, <2>1
<1> HIDE DEF S
<1>8. at[HOPS] = x
  <2>1. HOPS - 1 \in S
    BY <1>1, <1>6, <1>7, Induction
  <2> QED BY <1>1, <2>1 DEF S
<1> QED BY <1>2, <1>4, <1>8 DEF x

\* A chain is the walk of its path, so pwd names the directory.
LEMMA ChainIsWalked ==
  ASSUME TreeInv, NEW path, NEW i, LeadsTo(path, i)
  PROVE  Walk(path, root_ino) = i
<1>1. PICK w : IsChain(w, path, i)
  BY DEF LeadsTo
<1>2. path \in Seq(Name) /\ path \in Seq(Part) /\ root_ino \in V
  <2>1. root_ino \in Ino
    BY UnixFsAssumption
  <2> QED BY <2>1 DEF LeadsTo, Part, V
<1>3. PICK u : IsWalk(u, path, root_ino) /\ Walk(path, root_ino) = u[Len(path)]
  BY <1>2, WalkIsWalk DEF TreeInv
<1> DEFINE n == Len(path)
           S == {k \in Nat : k <= n => u[k] = w[k]}
<1>4. 0 \in S
  BY <1>1, <1>3 DEF IsChain, IsWalk
<1>5. ASSUME NEW k \in Nat, k \in S
      PROVE  k + 1 \in S
  <2> SUFFICES ASSUME k + 1 <= n
               PROVE  u[k + 1] = w[k + 1]
    OBVIOUS
  <2>1. n \in Nat /\ k + 1 \in 1 .. n /\ k + 1 - 1 = k
    BY <1>2
  <2>2. u[k + 1] = Step(w[k], path[k + 1])
    BY <1>3, <1>5, <2>1 DEF IsWalk
  <2>3. <<w[k], path[k + 1]>> \in DOMAIN Nms /\ w[k + 1] = Nms[<<w[k], path[k + 1]>>]
    BY <1>1, <2>1 DEF IsChain
  <2>4. w[k] \in Dirs /\ lookup(w[k], path[k + 1]) = w[k + 1]
    BY <2>3, PairFound
  <2> QED BY <2>2, <2>4, UnixFsAssumption DEF Step, Dirs
<1> HIDE DEF S
<1>6. n \in S /\ n \in Nat
  BY <1>2, <1>4, <1>5, Induction
<1> QED BY <1>1, <1>3, <1>6 DEF S, IsChain

LEMMA PwdFromChain ==
  ASSUME PInv
  PROVE  PwdNamesCwd
<1>1. TreeInv /\ NoLinks /\ cwd_ino \in Dirs /\ LeadsTo(cwd_path, cwd_ino)
  BY DEF PInv, IInv, TreeInv, Referred
<1> DEFINE path == [abs |-> TRUE, parts |-> cwd_path]
<1>2. path.parts = cwd_path /\ path.abs = TRUE
  OBVIOUS
<1> HIDE DEF path
<1>3. path.parts \in Seq(Part) /\ Start(path) = root_ino /\ root_ino \in InUse
  BY <1>1, <1>2 DEF LeadsTo, Part, Start, TreeInv, Nested, Dirs, InUse
<1>4. namei_follow(path) = cwd_ino
  BY <1>1, <1>2, <1>3, FollowNothing, ChainIsWalked DEF namei
<1> QED BY <1>1, <1>4 DEF PwdNamesCwd, Dirs, path

\* The empty path, and what "..", a name and "." do to a path.
LEMMA LeadsNowhere ==
  ASSUME TreeInv
  PROVE  LeadsTo(<< >>, root_ino)
<1> DEFINE w == [k \in 0 .. 0 |-> root_ino]
<1>1. << >> \in Seq(Name) /\ Len(<< >>) = 0 /\ 1 .. 0 = {}
  OBVIOUS
<1>2. root_ino \in Ino
  BY UnixFsAssumption
<1>3. w \in [0 .. 0 -> Ino] /\ w[0] = root_ino
  BY <1>2
<1> HIDE DEF w
<1>4. IsChain(w, << >>, root_ino)
  BY <1>1, <1>3 DEF IsChain
<1> QED BY <1>1, <1>4 DEF LeadsTo

LEMMA LeadsNowhereNext ==
  (TreeInv => LeadsTo(<< >>, root_ino))'
<1>1. TreeInv => LeadsTo(<< >>, root_ino)
  BY LeadsNowhere
<1> QED BY <1>1, PTL

LEMMA LeadsUp ==
  ASSUME TreeInv, NEW path, NEW i \in Dirs, LeadsTo(path, i)
  PROVE  LeadsTo(SubSeq(path, 1, Len(path) - 1), parent(i))
<1>1. PICK w : IsChain(w, path, i)
  BY DEF LeadsTo
<1>2. path \in Seq(Name) /\ Len(path) \in Nat
  BY DEF LeadsTo
<1>3. CASE Len(path) = 0
  <2>1. SubSeq(path, 1, Len(path) - 1) = << >>
    BY <1>2, <1>3
  <2>2. parent(i) = root_ino
    BY <1>1, <1>3 DEF IsChain, TreeInv, Nested
  <2> QED BY <2>1, <2>2, LeadsNowhere
<1>4. CASE Len(path) # 0
  <2> DEFINE n == Len(path) - 1
             front == SubSeq(path, 1, n)
             v == [k \in 0 .. n |-> w[k]]
  <2>1. n \in Nat /\ Len(path) = n + 1
    BY <1>2, <1>4
  <2>2. front \in Seq(Name) /\ Len(front) = n /\ \A k \in 1 .. n : front[k] = path[k]
    BY <1>2, <2>1
  <2>3. <<w[n], path[n + 1]>> \in DOMAIN Nms /\ i = Nms[<<w[n], path[n + 1]>>]
    BY <1>1, <2>1 DEF IsChain
  <2>4. parent(i) = w[n]
    BY <2>3, PairFound
  <2> HIDE DEF front, n
  <2>5. IsChain(v, front, parent(i))
    BY <1>1, <2>1, <2>2, <2>4 DEF IsChain
  <2> QED BY <2>2, <2>5 DEF LeadsTo, front, n
<1> QED BY <1>3, <1>4

LEMMA LeadsDown ==
  ASSUME TreeInv, NEW path, NEW d \in Dirs, LeadsTo(path, d), NEW n \in Name,
         lookup(d, n) # NONE
  PROVE  LeadsTo(Append(path, n), lookup(d, n))
<1>1. PICK w : IsChain(w, path, d)
  BY DEF LeadsTo
<1>2. path \in Seq(Name) /\ Len(path) \in Nat
  BY DEF LeadsTo
<1>3. <<d, n>> \in DOMAIN Nms /\ Nms[<<d, n>>] = lookup(d, n)
  BY NameFound
<1>4. lookup(d, n) \in Ino
  BY <1>3, PairFound DEF InUse
<1> DEFINE m == Len(path)
           longer == Append(path, n)
           j == lookup(d, n)
           v == [k \in 0 .. m + 1 |-> IF k = m + 1 THEN j ELSE w[k]]
<1>5. /\ longer \in Seq(Name) /\ Len(longer) = m + 1 /\ longer[m + 1] = n
      /\ \A k \in 1 .. m : longer[k] = path[k]
  BY <1>2
<1>6. m \in Nat /\ j \in Ino /\ Nms[<<d, n>>] = j
  BY <1>2, <1>3, <1>4
<1>7. /\ w \in [0 .. m -> Ino] /\ w[0] = root_ino /\ w[m] = d
      /\ \A k \in 1 .. m : <<w[k - 1], path[k]>> \in DOMAIN Nms /\ w[k] = Nms[<<w[k - 1], path[k]>>]
  BY <1>1 DEF IsChain
<1> HIDE DEF longer, m, j
<1>8. IsChain(v, longer, j)
  <2>1. v \in [0 .. m + 1 -> Ino] /\ v[0] = root_ino /\ v[m + 1] = j
    BY <1>6, <1>7
  <2>2. ASSUME NEW k \in 1 .. m + 1
        PROVE  <<v[k - 1], longer[k]>> \in DOMAIN Nms /\ v[k] = Nms[<<v[k - 1], longer[k]>>]
    <3>1. CASE k = m + 1
      <4>1. v[k - 1] = d /\ longer[k] = n /\ v[k] = j
        BY <1>5, <1>6, <1>7, <3>1
      <4> QED BY <1>3, <1>6, <4>1
    <3>2. CASE k # m + 1
      <4>1. k \in 1 .. m /\ v[k - 1] = w[k - 1] /\ v[k] = w[k] /\ longer[k] = path[k]
        BY <1>5, <1>6, <3>2
      <4> QED BY <1>7, <4>1
    <3> QED BY <3>1, <3>2
  <2> HIDE DEF v
  <2> QED BY <1>5, <2>1, <2>2 DEF IsChain
<1> QED BY <1>5, <1>8 DEF LeadsTo, longer, j

\* The trace of cwd_path along a relative path.
Turn(at, n) ==
  CASE n = "." -> at
    [] n = ".." -> SubSeq(at, 1, Len(at) - 1)
    [] OTHER -> Append(at, n)

LEMMA PathTrace ==
  ASSUME NEW path, path.parts \in Seq(Part), cwd_path \in Seq(Name), ~ path.abs
  PROVE  \E at : /\ at[0] = cwd_path
                 /\ \A k \in 1 .. Len(path.parts) : at[k] = Turn(at[k - 1], path.parts[k])
                 /\ PathAfter(path) = at[Len(path.parts)]
<1> DEFINE n == Len(path.parts)
           at[k \in 0 .. Len(path.parts)] ==
             IF k = 0 THEN cwd_path
             ELSE CASE path.parts[k] = "." -> at[k - 1]
                    [] path.parts[k] = ".." ->
                         SubSeq(at[k - 1], 1, Len(at[k - 1]) - 1)
                    [] OTHER -> Append(at[k - 1], path.parts[k])
           G == [x \in Seq(Name) \X (1 .. n) |-> Turn(x[1], path.parts[x[2]])]
<1>1. PathAfter(path) = at[n]
  BY DEF PathAfter
<1>2. n \in Nat
  OBVIOUS
<1>3. ASSUME NEW p \in Seq(Name), NEW k \in 1 .. n
      PROVE  Turn(p, path.parts[k]) \in Seq(Name)
  <2>1. path.parts[k] \in Part
    OBVIOUS
  <2>2. SubSeq(p, 1, Len(p) - 1) \in Seq(Name)
    <3>1. CASE Len(p) = 0
      <4>1. SubSeq(p, 1, Len(p) - 1) = << >> /\ << >> \in Seq(Name)
        BY <3>1
      <4> QED BY <4>1
    <3>2. CASE Len(p) # 0
      BY <3>2
    <3> QED BY <3>1, <3>2
  <2>3. path.parts[k] \in Name => Append(p, path.parts[k]) \in Seq(Name)
    OBVIOUS
  <2> QED BY <2>1, <2>2, <2>3 DEF Turn, Part
<1>4. G \in [Seq(Name) \X (1 .. n) -> Seq(Name)]
  BY <1>3
<1>5. \A x \in Seq(Name), k \in 1 .. n : G[<<x, k>>] = Turn(x, path.parts[k])
  OBVIOUS
<1> HIDE DEF G, n
<1>6. PICK w : IsOrbit(w, Seq(Name), cwd_path, n, G)
  BY <1>2, <1>4, Orbit
<1>7. \A k \in 1 .. n : w[k] = Turn(w[k - 1], path.parts[k])
  <2>1. \A k \in 1 .. n : w[k - 1] \in Seq(Name)
    BY <1>2, <1>6 DEF IsOrbit
  <2> QED BY <1>5, <1>6, <2>1 DEF IsOrbit
<1>8. at = [k \in 0 .. n |-> IF k = 0 THEN cwd_path ELSE Turn(at[k - 1], path.parts[k])]
  <2> DEFINE Def(g) == [k \in 0 .. Len(path.parts) |->
               IF k = 0 THEN cwd_path
               ELSE CASE path.parts[k] = "." -> g[k - 1]
                      [] path.parts[k] = ".." ->
                           SubSeq(g[k - 1], 1, Len(g[k - 1]) - 1)
                      [] OTHER -> Append(g[k - 1], path.parts[k])]
  <2>1. w = Def(w)
    <3>1. \A k \in 0 .. n : w[k] = IF k = 0 THEN cwd_path ELSE Turn(w[k - 1], path.parts[k])
      BY <1>2, <1>6, <1>7 DEF IsOrbit
    <3>2. w = [k \in 0 .. n |-> w[k]]
      BY <1>6 DEF IsOrbit
    <3>3. Def(w) = [k \in 0 .. n |-> IF k = 0 THEN cwd_path ELSE Turn(w[k - 1], path.parts[k])]
      BY DEF Turn, n
    <3> QED BY <3>1, <3>2, <3>3
  <2>2. at = Def(at)
    BY <2>1, Zenon
  <2>3. Def(at) = [k \in 0 .. n |-> IF k = 0 THEN cwd_path ELSE Turn(at[k - 1], path.parts[k])]
    BY DEF Turn, n
  <2> QED BY <2>2, <2>3
<1> HIDE DEF at
<1>9. at[0] = cwd_path /\ \A k \in 1 .. n : at[k] = Turn(at[k - 1], path.parts[k])
  BY <1>2, <1>8
<1> QED BY <1>1, <1>9 DEF n

\* cd: the path follows the walk, part by part.
LEMMA ChdirLeads ==
  ASSUME PInv, PlainPaths, NEW path \in Paths, Chdir(path)
  PROVE  LeadsTo(cwd_path', cwd_ino')
<1>1. TreeInv /\ Types /\ NoLinks /\ cwd_ino \in Dirs /\ LeadsTo(cwd_path, cwd_ino)
  BY DEF PInv, IInv, TreeInv, Referred
<1>2. path.parts \in Seq(Part) /\ Start(path) \in InUse
  BY <1>1, PathParts, StartInUse DEF PInv, IInv
<1>3. cwd_ino' = namei(path) /\ cwd_ino' # NONE /\ cwd_path' = PathAfter(path)
  BY <1>1, <1>2, FollowNothing DEF Chdir
<1>4. Start(path) \in V
  BY <1>2 DEF InUse, V
<1> DEFINE n == Len(path.parts)
<1>5. PICK u : IsWalk(u, path.parts, Start(path)) /\ namei(path) = u[n]
  BY <1>1, <1>2, <1>4, WalkIsWalk DEF namei
<1>6. /\ n \in Nat /\ u[0] = Start(path)
      /\ \A k \in 0 .. n : u[k] \in Ino
      /\ \A k \in 1 .. n : u[k - 1] \in Dirs /\ u[k] = lookup(u[k - 1], path.parts[k])
  BY <1>1, <1>2, <1>3, <1>4, <1>5, WalkInDirs DEF IsWalk
<1>9. \A k \in 1 .. n : u[k] # NONE
  <2>1. NONE \notin Ino
    BY UnixFsAssumption
  <2> QED BY <1>6, <2>1
<1>7. CASE path.abs
  <2>1. path.parts \in Seq(Name) /\ u[0] = root_ino /\ cwd_path' = path.parts
    BY <1>3, <1>6, <1>7 DEF PlainPaths, Start, PathAfter
  <2>2. \A k \in 1 .. n : <<u[k - 1], path.parts[k]>> \in DOMAIN Nms
                          /\ u[k] = Nms[<<u[k - 1], path.parts[k]>>]
    <3> SUFFICES ASSUME NEW k \in 1 .. n
                 PROVE  <<u[k - 1], path.parts[k]>> \in DOMAIN Nms
                        /\ u[k] = Nms[<<u[k - 1], path.parts[k]>>]
      OBVIOUS
    <3>1. path.parts[k] \in Name
      BY <2>1
    <3>2. u[k - 1] \in Dirs /\ u[k] = lookup(u[k - 1], path.parts[k]) /\ u[k] # NONE
      BY <1>6, <1>9
    <3> QED BY <1>1, <3>1, <3>2, NameFound
  <2>3. u \in [0 .. n -> Ino]
    BY <1>5, <1>6 DEF IsWalk
  <2>4. IsChain(u, path.parts, u[n])
    BY <2>1, <2>2, <2>3 DEF IsChain
  <2> QED BY <1>3, <1>5, <2>1, <2>4 DEF LeadsTo
<1>8. CASE ~ path.abs
  <2>1. PICK at : /\ at[0] = cwd_path
                  /\ \A k \in 1 .. n : at[k] = Turn(at[k - 1], path.parts[k])
                  /\ PathAfter(path) = at[n]
    BY <1>1, <1>2, <1>8, PathTrace DEF LeadsTo
  <2> DEFINE S == {k \in Nat : k <= n => LeadsTo(at[k], u[k])}
  <2>2. 0 \in S
    BY <1>1, <1>6, <1>8, <2>1 DEF Start
  <2>3. ASSUME NEW k \in Nat, k \in S
        PROVE  k + 1 \in S
    <3> SUFFICES ASSUME k + 1 <= n
                 PROVE  LeadsTo(at[k + 1], u[k + 1])
      OBVIOUS
    <3> DEFINE p == path.parts[k + 1]
               d == u[k]
    <3>1. k + 1 \in 1 .. n /\ k + 1 \in 0 .. n /\ k + 1 - 1 = k
      BY <1>6
    <3>2. p \in Part /\ d \in Dirs /\ u[k + 1] = lookup(d, p) /\ lookup(d, p) # NONE
      BY <1>2, <1>6, <1>9, <3>1
    <3>3. at[k + 1] = Turn(at[k], p)
      BY <2>1, <3>1
    <3>4. LeadsTo(at[k], d)
      BY <1>6, <2>3
    <3> HIDE DEF p, d
    <3>5. CASE p = "."
      BY <1>1, <3>2, <3>3, <3>4, <3>5, LookupDots DEF Turn, TreeInv
    <3>6. CASE p = ".."
      BY <1>1, <3>2, <3>3, <3>4, <3>6, LookupDots, LeadsUp DEF Turn, TreeInv
    <3>7. CASE p \in Name
      <4>1. p # "." /\ p # ".."
        BY <3>7, UnixFsAssumption
      <4> QED BY <1>1, <3>2, <3>3, <3>4, <3>7, <4>1, LeadsDown DEF Turn
    <3> QED BY <3>2, <3>5, <3>6, <3>7 DEF Part
  <2> HIDE DEF S
  <2>4. n \in S
    BY <1>6, <2>2, <2>3, Induction
  <2> QED BY <1>3, <1>5, <1>6, <2>1, <2>4 DEF S
<1> QED BY <1>7, <1>8

\* Every other call leaves the path alone, and the chain of names under it.
LEMMA CwdCalls ==
  ASSUME [Next]_vars
  PROVE  \/ UNCHANGED <<cwd_ino, cwd_path>>
         \/ cwd_ino' = root_ino /\ cwd_path' = << >>
         \/ \E path \in Paths : Chdir(path)
<1>1. ASSUME NEW path \in Paths,
             \/ Create(path) \/ Mkdir(path)
             \/ Delete(path) \/ Rmdir(path)
             \/ \E target \in Targets : Symlink(target, path)
             \/ \E src \in Paths : Link(src, path)
             \/ \E flags \in Flags : Open(path, flags)
      PROVE  UNCHANGED <<cwd_ino, cwd_path>>
  BY <1>1 DEF Create, Mkdir, Delete, Rmdir, Remove, Symlink, Link, Open
<1>2. ASSUME NEW fd \in Fd, Close(fd) \/ \E blocks \in 1 .. MaxFileBlks : Write(fd, blocks)
      PROVE  UNCHANGED <<cwd_ino, cwd_path>>
  BY <1>2 DEF Close, Write
<1>3. Format \/ Remount => cwd_ino' = root_ino /\ cwd_path' = << >>
  BY DEF Format, Remount
<1>4. UNCHANGED vars => UNCHANGED <<cwd_ino, cwd_path>>
  BY DEF vars
<1> QED BY <1>1, <1>2, <1>3, <1>4 DEF Next

LEMMA ChainStays ==
  ASSUME PInv, TreeInv', Outcome, UNCHANGED <<cwd_ino, cwd_path>>
  PROVE  LeadsTo(cwd_path, cwd_ino)'
<1>1. /\ TreeInv /\ cwd_ino \in Dirs /\ cwd_path \in Seq(Name)
      /\ cwd_ino' = cwd_ino /\ cwd_path' = cwd_path
  BY DEF PInv, IInv, TreeInv, Referred, LeadsTo
<1>2. PICK w : IsChain(w, cwd_path, cwd_ino)
  BY DEF PInv, LeadsTo
<1> DEFINE n == Len(cwd_path)
           P(k) == <<w[k - 1], cwd_path[k]>>
<1>3. /\ n \in Nat /\ w \in [0 .. n -> Ino] /\ w[0] = root_ino /\ w[n] = cwd_ino
      /\ \A k \in 1 .. n : P(k) \in DOMAIN Nms /\ w[k] = Nms[P(k)]
  BY <1>1, <1>2 DEF IsChain
<1>4. ASSUME \A k \in 1 .. n : P(k) \in DOMAIN Nms' /\ Nms'[P(k)] = Nms[P(k)]
      PROVE  LeadsTo(cwd_path, cwd_ino)'
  BY <1>1, <1>3, <1>4 DEF LeadsTo, IsChain
<1>5. ASSUME NEW d, NEW p, NEW m, NEW i, Adds(d, p, m, i)
      PROVE  \A k \in 1 .. n : P(k) \in DOMAIN Nms' /\ Nms'[P(k)] = Nms[P(k)]
  <2>1. PICK q \in DOMAIN Nms' \ DOMAIN Nms :
          Nms' = [r \in DOMAIN Nms \cup {q} |-> IF r = q THEN Nms'[q] ELSE Nms[r]]
    BY <1>1, <1>5, AddImplements DEF Tree!Named
  <2>2. \A r \in DOMAIN Nms : r \in DOMAIN Nms' /\ Nms'[r] = Nms[r]
    BY <2>1
  <2> QED BY <1>3, <2>2
<1>6. ASSUME NEW d, NEW p, NEW i, Removes(d, p, i), IsGone(i) => i # cwd_ino
      PROVE  \A k \in 1 .. n : P(k) \in DOMAIN Nms' /\ Nms'[P(k)] = Nms[P(k)]
  <2>1. /\ <<d, p>> \in NameSlots /\ NamedBy(<<d, p>>) = i
        /\ NameSlots' = NameSlots \ {<<d, p>>}
        /\ \A s \in NameSlots' : NamedBy(s)' = NamedBy(s) /\ Pair(s)' = Pair(s)
        /\ IsGone(i) => \A k : <<i, k>> \notin NameSlots
        /\ i \notin Dirs \/ IsGone(i)
    BY <1>1, <1>6, RemoveSlots, RemoveKeepsNames DEF Removes, IsUnlinked
  <2>2. \A e, x : <<e, x>> \in DOMAIN Nms => e # i
    <3>1. \A e, x : <<e, x>> \in DOMAIN Nms => e \in Dirs /\ \E s \in NameSlots : s[1] = e
      <4> SUFFICES ASSUME NEW e, NEW x, <<e, x>> \in DOMAIN Nms
                   PROVE  e \in Dirs /\ \E s \in NameSlots : s[1] = e
        OBVIOUS
      <4>1. PICK s \in NameSlots : Pair(s) = <<e, x>>
        BY <1>1, NmsKnd
      <4>2. s[1] = e
        BY <4>1 DEF Pair
      <4> QED BY <1>1, <4>2, OnlySlot
    <3>2. \A s \in NameSlots : s[1] = i => s = <<i, s[2]>>
      BY InNameSlots
    <3> QED BY <2>1, <3>1, <3>2
  <2>3. \A k \in 1 .. n : w[k] # i
    <3> SUFFICES ASSUME NEW k \in 1 .. n
                 PROVE  w[k] # i
      OBVIOUS
    <3>1. CASE k = n
      BY <1>1, <1>3, <1>6, <2>1, <3>1
    <3>2. CASE k # n
      <4>1. k + 1 \in 1 .. n /\ k + 1 - 1 = k
        BY <1>3, <3>2
      <4>2. <<w[k], cwd_path[k + 1]>> \in DOMAIN Nms
        BY <1>3, <4>1
      <4> QED BY <2>2, <4>2
    <3> QED BY <3>1, <3>2
  <2>4. ASSUME NEW q \in DOMAIN Nms, Nms[q] # i
        PROVE  q \in DOMAIN Nms' /\ Nms'[q] = Nms[q]
    <3>1. PICK s \in NameSlots : Pair(s) = q /\ Nms[q] = NamedBy(s)
      BY <1>1, NmsKnd
    <3>2. s \in NameSlots'
      BY <2>1, <2>4, <3>1
    <3> QED BY <1>1, <2>1, <3>1, <3>2, NmsKndNext
  <2> QED BY <1>3, <2>3, <2>4
<1>7. ASSUME NamesKept
      PROVE  \A k \in 1 .. n : P(k) \in DOMAIN Nms' /\ Nms'[P(k)] = Nms[P(k)]
  BY <1>1, <1>3, <1>7, KeptImplements
<1>8. ASSUME cwd_ino' = root_ino, cwd_path' = << >>
      PROVE  \A k \in 1 .. n : P(k) \in DOMAIN Nms' /\ Nms'[P(k)] = Nms[P(k)]
  <2>1. n = 0
    BY <1>1, <1>8
  <2> QED BY <2>1
<1> QED BY <1>4, <1>5, <1>6, <1>7, <1>8 DEF Outcome

\* Without targets there are no symbolic links.
LEMMA NoLinksKept ==
  ASSUME PInv, Targets = {}, [Next]_vars
  PROVE  NoLinks'
<1> DEFINE Was(j) == inode'[j].mode = inode[j].mode
           Ok == \A j \in Ino : Was(j) \/ inode'[j].mode # "link"
<1>1. inode \in [Ino -> INode] /\ NoLinks
  BY DEF PInv, IInv, Types
<1>2. Ok => NoLinks'
  BY <1>1 DEF NoLinks
<1>3. ASSUME NEW d, NEW i, NEW s, NEW b, NEW x, x.mode # "link",
             inode' = [inode EXCEPT ![i] = x, ![d].slots = s, ![d].nblk = b]
      PROVE  Ok
  BY <1>1, <1>3 DEF INode
<1>4. ASSUME NEW d, NEW n, NEW i \in Ino, NEW links, Remove(d, n, i, links)
      PROVE  Ok
  BY <1>1, <1>4 DEF Remove, INode, Blank
<1>5. Blank.mode = "none" /\ \A s : NewDir(s).mode = "dir"
  BY DEF Blank, NewDir
<1>6. ASSUME NEW path \in Paths, Create(path)
      PROVE  Ok
  <2> DEFINE d == namei_parent(path)
             x == [Blank EXCEPT !.mode = "file", !.nlink = 1]
  <2>1. x.mode # "link"
    BY DEF Blank
  <2>2. PICK i \in free_inodes :
          inode' = [inode EXCEPT ![i] = x, ![d].slots = Linked(d, basename(path), i),
                                 ![d].nblk = BlocksFor(Linked(d, basename(path), i))]
    BY <1>6 DEF Create
  <2> HIDE DEF x, d
  <2> QED BY <1>3, <2>1, <2>2
<1>7. ASSUME NEW path \in Paths, Mkdir(path)
      PROVE  Ok
  <2> DEFINE d == namei_parent(path)
             own(i) == IF free_blocks >= 1 THEN NewDir(Dots(i, d)) ELSE NewDir(<< >>)
             slots(i) == Linked(d, basename(path), i)
  <2>1. \A i : own(i).mode # "link"
    BY <1>5
  <2>2. PICK i \in free_inodes :
          \/ inode' = [inode EXCEPT ![i] = own(i), ![d].slots = slots(i),
                                    ![d].nblk = BlocksFor(slots(i))]
          \/ inode' = [inode EXCEPT ![i] = own(i)]
    BY <1>7 DEF Mkdir
  <2>3. \E x, t, b :
          /\ x.mode # "link"
          /\ \/ inode' = [inode EXCEPT ![i] = x, ![d].slots = t, ![d].nblk = b]
             \/ inode' = [inode EXCEPT ![i] = x]
    <3> HIDE DEF own, d, slots
    <3>1. own(i).mode # "link"
      BY <2>1
    <3> QED BY <2>2, <3>1, Zenon
  <2> HIDE DEF d
  <2>4. PICK x, t, b :
          /\ x.mode # "link"
          /\ \/ inode' = [inode EXCEPT ![i] = x, ![d].slots = t, ![d].nblk = b]
             \/ inode' = [inode EXCEPT ![i] = x]
    BY <2>3
  <2>5. CASE inode' = [inode EXCEPT ![i] = x]
    BY <1>1, <2>4, <2>5
  <2>6. CASE inode' = [inode EXCEPT ![i] = x, ![d].slots = t, ![d].nblk = b]
    BY <1>3, <2>4, <2>6, Zenon
  <2> QED BY <2>4, <2>5, <2>6, Zenon
<1>8. ASSUME NEW path \in Paths, NEW src \in Paths, Link(src, path)
      PROVE  Ok
  BY <1>1, <1>8 DEF Link, INode
<1>9. ASSUME NEW path \in Paths, Delete(path) \/ Rmdir(path)
      PROVE  Ok
  <2> DEFINE d == namei_parent(path)
             i == lookup(d, basename(path))
  <2>1. d # NONE /\ i # NONE /\ \E links : Remove(d, basename(path), i, links)
    BY <1>9 DEF Delete, Rmdir
  <2>2. d \in Ino
    BY <2>1, ParentInUse DEF PInv, IInv, TreeInv, InUse
  <2>3. i \in Ino
    BY <2>1, <2>2, LookupFinds DEF PInv, IInv, V
  <2> HIDE DEF i, d
  <2> QED BY <1>4, <2>1, <2>3
<1>10. ASSUME NEW i, NEW blocks, inode' = [inode EXCEPT ![i].nblk = blocks]
       PROVE  Ok
  BY <1>1, <1>10 DEF INode
<1>11. ASSUME NEW path \in Paths, NEW flags \in Flags, Open(path, flags)
       PROVE  Ok
  <2>1. inode' = inode \/ inode' = [inode EXCEPT ![namei_follow(path)].nblk = 0]
    BY <1>11 DEF Open
  <2> QED BY <1>10, <2>1
<1>12. ASSUME NEW fd \in Fd, NEW blocks \in 1 .. MaxFileBlks, Write(fd, blocks)
       PROVE  Ok
  <2>1. inode' = [inode EXCEPT ![ofile[fd].ino].nblk = @ + blocks]
    BY <1>12 DEF Write
  <2> QED BY <1>1, <2>1 DEF INode
<1>13. ASSUME Format
       PROVE  Ok
  <2>1. inode' = Formatted
    BY <1>13 DEF Format
  <2>2. NewDir(RootSlots).mode = "dir" /\ \A i : NewDir(Dots(i, root_ino)).mode = "dir"
    BY DEF NewDir, Blank
  <2>3. \A j \in Ino : Formatted[j].mode # "link"
    <3> HIDE DEF Ok
    <3> QED BY <1>5, <2>2 DEF Formatted
  <2> QED BY <2>1, <2>3
<1>14. ASSUME UNCHANGED inode
       PROVE  Ok
  BY <1>14
<1>15. ASSUME NEW path \in Paths, Chdir(path)
       PROVE  Ok
  BY <1>14, <1>15 DEF Chdir
<1>16. (\E fd \in Fd : Close(fd)) \/ Remount \/ UNCHANGED vars => Ok
  BY <1>14 DEF Close, Remount, vars
<1> HIDE DEF Ok
<1> QED BY <1>2, <1>6, <1>7, <1>8, <1>9, <1>11, <1>12, <1>13, <1>15, <1>16 DEF Next

LEMMA AlwaysPInv ==
  ASSUME Careful, PlainPaths
  PROVE  Spec => []PInv
<1>1. Init => PInv
  <2> SUFFICES ASSUME Init
               PROVE  PInv
    OBVIOUS
  <2>1. IInv /\ TreeInv
    BY InitIInv DEF IInv, TreeInv
  <2>2. NoLinks
    BY DEF Init, Formatted, NoLinks, NewDir, Blank
  <2>3. LeadsTo(cwd_path, cwd_ino)
    BY <2>1, LeadsNowhere DEF Init
  <2> QED BY <2>1, <2>2, <2>3 DEF PInv
<1>2. Careful /\ PlainPaths /\ PInv /\ [Next]_vars => PInv'
  <2> SUFFICES ASSUME PInv, [Next]_vars
               PROVE  PInv'
    OBVIOUS
  <2>1. IInv' /\ Outcome /\ TreeInv'
    BY NextKeeps DEF PInv, IInv, TreeInv
  <2>2. NoLinks'
    BY NoLinksKept DEF PlainPaths
  <2>3. LeadsTo(cwd_path, cwd_ino)'
    <3>1. CASE UNCHANGED <<cwd_ino, cwd_path>>
      BY <2>1, <3>1, ChainStays
    <3>2. CASE cwd_ino' = root_ino /\ cwd_path' = << >>
      BY <2>1, <3>2, LeadsNowhereNext
    <3>3. ASSUME NEW path \in Paths, Chdir(path)
          PROVE  LeadsTo(cwd_path, cwd_ino)'
      <4>1. LeadsTo(cwd_path', cwd_ino')
        BY <3>3, ChdirLeads
      <4>2. inode' = inode
        BY <3>3 DEF Chdir
      <4>3. Nms' = Nms
        BY <4>2 DEF Nms, NameSlots, NameAt, Dirs, lookup, Holding
      <4> QED BY <4>1, <4>3 DEF LeadsTo, IsChain
    <3> QED BY <3>1, <3>2, <3>3, CwdCalls
  <2> QED BY <2>1, <2>2, <2>3 DEF PInv
<1>3. Careful /\ PlainPaths
  OBVIOUS
<1> QED BY <1>1, <1>2, <1>3, PTL DEF Spec

\* The current directory exists, and the path that pwd prints leads to it, after
\* every cd, rmdir, format and mount: for callers that take no liberty, make no
\* symbolic link and cd to absolute paths without dots.
THEOREM UnixPwdNamesCwd ==
  Careful /\ PlainPaths => (Spec => []PwdNamesCwd)
<1> SUFFICES ASSUME Careful, PlainPaths
             PROVE  Spec => []PwdNamesCwd
  OBVIOUS
<1>1. PInv => PwdNamesCwd
  BY PwdFromChain
<1>2. Spec => []PInv
  BY AlwaysPInv
<1> QED BY <1>1, <1>2, PTL
===============================================================================
