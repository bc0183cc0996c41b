---------------------------- MODULE Fat16_proofs ----------------------------
(***************************************************************************)
(* Proofs about Fat16, for disks, directories and files of any size.       *)
(*                                                                         *)
(* The invariant says that there is a function way from the entries that   *)
(* own a chain to the sequence of its clusters: the links of the table     *)
(* follow it, no cluster is in two places of it, and every cluster that    *)
(* is not free is in it.                                                   *)
(***************************************************************************)
EXTENDS Fat16, Stepwise, FiniteSetTheorems, SequenceTheorems, TLAPS

\* ---- The inductive invariant ----

Link == Cluster \cup {FREE, EOC}
Place == Cluster \cup {kRootCluster}
Dots == {".", ".."}
Bare == {UNUSED, DELETED}
Ptr == 0 .. ENTRIES - 1

SlotType == [name : Name \cup Dots \cup Bare, dir : BOOLEAN, first : Place, size : Nat]

\* Behind a slot that was never used there are only such slots.
Solid(slots) ==
  \A i, j \in 1 .. Len(slots) : i < j /\ slots[i].name = UNUSED => slots[j].name = UNUSED

Listing == {slots \in Seq(SlotType) : Solid(slots)}

Vols == [fat : [Cluster -> Link], slots : [Place -> Listing], data : [Cluster -> [Ptr -> {0, 1, OLD}]]]

DirsOf(v) == {kRootCluster} \cup {c \in Cluster : v.fat[c] # FREE /\ v.slots[c] # << >>}

\* The entries that own a chain: directories and places in them.
Slots(v) ==
  {s \in Place \X Nat :
     /\ s[1] \in DirsOf(v) /\ s[2] \in 1 .. Len(v.slots[s[1]])
     /\ v.slots[s[1]][s[2]].name \in Name}

At(v, s) == v.slots[s[1]][s[2]]

\* The links of v follow w to its end.
Follows(v, w) ==
  /\ Len(w) >= 1
  /\ \A i \in 1 .. Len(w) : v.fat[w[i]] = IF i < Len(w) THEN w[i + 1] ELSE EOC

Once(w) == \A i, j \in 1 .. Len(w) : w[i] = w[j] => i = j

\* No cluster is in two places, and each that is not free is in one.
Apart(v, way) ==
  \A s, t \in Slots(v) : \A i \in 1 .. Len(way[s]), j \in 1 .. Len(way[t]) :
    way[s][i] = way[t][j] => s = t /\ i = j

Covered(v, way, c) == \E s \in Slots(v) : \E i \in 1 .. Len(way[s]) : c = way[s][i]

\* The chains of all entries, and clusters that have no entry yet.
Laid(v, way, orphans) ==
  /\ way \in [Slots(v) -> Seq(Cluster)]
  /\ \A s \in Slots(v) :
       /\ Follows(v, way[s]) /\ way[s][1] = At(v, s).first
       /\ \A i \in 1 .. Len(way[s]) : v.slots[way[s][i]] # << >> <=> i = 1 /\ At(v, s).dir
  /\ Apart(v, way)
  /\ \A c \in Cluster : v.fat[c] # FREE => c \in orphans \/ Covered(v, way, c)
  /\ \A c \in orphans : c \in Cluster /\ v.fat[c] = EOC /\ ~ Covered(v, way, c)

\* A directory but the root begins with its dots, and they are nowhere else.
Dotted(slots, d) ==
  /\ Len(slots) >= 2
  /\ slots[1].name = "." /\ slots[1].dir /\ slots[1].first = d
  /\ slots[2].name = ".." /\ slots[2].dir

Shaped(v) ==
  /\ v.slots[kRootCluster] # << >>
  /\ \A d \in DirsOf(v) :
       /\ d # kRootCluster => Dotted(v.slots[d], d)
       /\ \A j \in 1 .. Len(v.slots[d]) :
            v.slots[d][j].name \in Dots => d # kRootCluster /\ j <= 2

\* ".." leads to the directory of the entry, and directories are a tree.
Nested(v, depth) ==
  /\ depth \in [Place -> Nat] /\ depth[kRootCluster] = 0
  /\ \A s \in Slots(v) : At(v, s).dir =>
       /\ v.slots[At(v, s).first][2].first = s[1]
       /\ depth[At(v, s).first] = depth[s[1]] + 1

Sized(v, way) ==
  \A s \in Slots(v) :
    LET room == Len(way[s]) * ENTRIES
    IN  IF At(v, s).dir THEN Len(v.slots[At(v, s).first]) = room ELSE At(v, s).size <= room

\* No entry before that of a file shows its first cluster, deleted ones included.
FirstShown(v) ==
  \A s \in Slots(v) : ~ At(v, s).dir =>
    \A i \in 1 .. s[2] - 1 : v.slots[s[1]][i].dir \/ v.slots[s[1]][i].first # At(v, s).first

\* A descriptor is on a file, and not behind its end.
OnFile(v, o) ==
  \E s \in Slots(v) :
    s[1] = o.parent /\ ~ At(v, s).dir /\ At(v, s).first = o.first /\ o.off <= At(v, s).size

FdType == [first : Cluster, off : Nat, parent : Place]

\* A volume whose entries own the clusters, but for some that have no entry yet.
Sound(v, way, depth, orphans) ==
  v \in Vols /\ Laid(v, way, orphans) /\ Shaped(v) /\ Nested(v, depth) /\ FirstShown(v)

Good(v) == \E way, depth : Sound(v, way, depth, {}) /\ Sized(v, way)

IInv ==
  /\ Good(vol)
  /\ cwd_cluster \in DirsOf(vol)
  /\ ofile \in [Fd -> FdType \cup {NoFile}]
  /\ \A fd \in Fd : ofile[fd] # NoFile => OnFile(vol, ofile[fd])

\* Callers take no liberty, and none opens a file to empty it and to write at its
\* end: modes "w" and "a" (main.cpp) are two.
Careful == Liberties = {} /\ {"TRUNC", "APPEND"} \notin Flags

\* A walk of a chain reaches its end.
WithinGuard == \A o \in Owners : Length(vol, o.e.first) <= GUARD

\* ---- Constants ----

LEMMA Constants ==
  /\ CLUSTERS \in Nat /\ ENTRIES \in Nat /\ ENTRIES >= 2 /\ GUARD \in Nat \ {0}
  /\ Cluster \subseteq Nat /\ \A c \in Cluster : c >= 2
  /\ FREE = 0 /\ EOC = -1 /\ kRootCluster = 0 /\ NONE = -2
  /\ kRootCluster \notin Cluster /\ FREE \notin Cluster /\ EOC \notin Cluster /\ NONE \notin Place
  /\ Name \cap (Dots \cup Bare) = {} /\ Dots \cap Bare = {} /\ UNUSED # DELETED
  /\ IsFiniteSet(Cluster) /\ Cardinality(Cluster) = CLUSTERS
<1>1. CLUSTERS \in Nat /\ ENTRIES \in Nat /\ ENTRIES >= 2 /\ GUARD \in Nat \ {0}
  BY Fat16Assumption
<1>2. Cluster \subseteq Nat /\ \A c \in Cluster : c >= 2
  BY <1>1 DEF Cluster
<1>3. /\ FREE = 0 /\ EOC = -1 /\ kRootCluster = 0 /\ NONE = -2
      /\ kRootCluster \notin Cluster /\ FREE \notin Cluster /\ EOC \notin Cluster /\ NONE \notin Place
  BY <1>1 DEF Cluster, FREE, EOC, kRootCluster, NONE, Place
<1>4. Name \cap (Dots \cup Bare) = {} /\ Dots \cap Bare = {} /\ UNUSED # DELETED
  BY Fat16Assumption DEF Dots, Bare, UNUSED, DELETED
<1>5. IsFiniteSet(Cluster) /\ Cardinality(Cluster) = CLUSTERS
  <2>1. PICK n \in Int : n = CLUSTERS + 1
    BY <1>1
  <2>2. IsFiniteSet(2 .. n) /\ Cardinality(2 .. n) = IF 2 > n THEN 0 ELSE n - 2 + 1
    <3>1. 2 \in Int
      OBVIOUS
    <3> QED BY <3>1, FS_Interval, Zenon
  <2> QED BY <1>1, <2>1, <2>2 DEF Cluster
<1> QED BY <1>1, <1>2, <1>3, <1>4, <1>5

LEMMA LowestIs ==
  ASSUME NEW S, S \subseteq Nat, S # {}
  PROVE  Lowest(S) \in S /\ \A x \in S : Lowest(S) <= x
BY LeastMember DEF Least, Lowest

\* ---- Chains ----

Traced(g, n) == {p \in {<<k, g[k]>> : k \in 1 .. n} : p[2] \in Cluster}

FollowsFrom(v, c, n, g) ==
  /\ g \in [1 .. n -> Link]
  /\ \A k \in 1 .. n : g[k] = IF k = 1 THEN c
                              ELSE IF g[k - 1] \in Cluster THEN v.fat[g[k - 1]] ELSE EOC

\* A function that follows the links is the chain.
LEMMA ChainTrace ==
  ASSUME NEW v, v.fat \in [Cluster -> Link], NEW c \in Link, NEW n \in Nat, NEW g,
         FollowsFrom(v, c, n, g)
  PROVE  Chain(v, c, n) = Traced(g, n)
<1> DEFINE next == [x \in Cluster \cup {FREE, EOC} |-> IF x >= 2 THEN v.fat[x] ELSE EOC]
           Def(h) == [k \in 1 .. n |-> IF k = 1 THEN c ELSE next[h[k - 1]]]
           at[k \in 1 .. n] == IF k = 1 THEN c ELSE next[at[k - 1]]
<1>0. /\ g \in [1 .. n -> Link]
      /\ \A k \in 1 .. n : g[k] = IF k = 1 THEN c
                                  ELSE IF g[k - 1] \in Cluster THEN v.fat[g[k - 1]] ELSE EOC
  BY DEF FollowsFrom
<1>1. \A x \in Link : x >= 2 <=> x \in Cluster
  BY Constants DEF Link
<1>2. \A x \in Link : next[x] = IF x \in Cluster THEN v.fat[x] ELSE EOC
  BY <1>1 DEF Link
<1>3. Chain(v, c, n) = {p \in {<<k, at[k]>> : k \in 1 .. n} : p[2] >= 2}
  BY Zenon DEF Chain
<1> HIDE DEF next
<1>4. g = Def(g)
  <2>1. ASSUME NEW k \in 1 .. n
        PROVE  g[k] = IF k = 1 THEN c ELSE next[g[k - 1]]
    <3>1. CASE k = 1
      BY <1>0, <3>1
    <3>2. CASE k # 1
      <4>1. k - 1 \in 1 .. n
        BY <3>2
      <4>2. g[k - 1] \in Link
        BY <1>0, <4>1
      <4>3. g[k] = IF g[k - 1] \in Cluster THEN v.fat[g[k - 1]] ELSE EOC
        BY <1>0, <3>2
      <4> QED BY <1>2, <3>2, <4>2, <4>3
    <3> QED BY <3>1, <3>2
  <2>2. g = [k \in 1 .. n |-> g[k]]
    BY <1>0
  <2>3. [k \in 1 .. n |-> g[k]] = Def(g)
    BY <2>1
  <2> QED BY <2>2, <2>3
<1>5. at = Def(at)
  BY <1>4, Zenon
<1> HIDE DEF at
<1>6. \A k \in 1 .. n : at[k] = IF k = 1 THEN c ELSE next[at[k - 1]]
  BY <1>5
<1>7. \A k \in 1 .. n : g[k] = IF k = 1 THEN c ELSE next[g[k - 1]]
  BY <1>4
<1> DEFINE S == {k \in Nat : k + 1 <= n => at[k + 1] = g[k + 1]}
<1>8. 0 \in S
  <2> SUFFICES ASSUME 1 <= n
               PROVE  at[1] = g[1]
    OBVIOUS
  <2>1. 1 \in 1 .. n
    OBVIOUS
  <2> QED BY <1>6, <1>7, <2>1
<1>9. ASSUME NEW k \in Nat, k \in S
      PROVE  k + 1 \in S
  <2> SUFFICES ASSUME k + 1 + 1 <= n
               PROVE  at[k + 1 + 1] = g[k + 1 + 1]
    OBVIOUS
  <2>1. PICK h \in 1 .. n : h = k + 1 + 1 /\ h # 1 /\ h - 1 = k + 1
    OBVIOUS
  <2>2. at[k + 1] = g[k + 1]
    BY <1>9
  <2> QED BY <1>6, <1>7, <2>1, <2>2
<1> HIDE DEF S
<1>10. \A k \in Nat : k \in S
  BY <1>8, <1>9, Induction
<1>11. ASSUME NEW k \in 1 .. n
       PROVE  at[k] = g[k]
  <2>1. k - 1 \in Nat /\ (k - 1) + 1 = k
    OBVIOUS
  <2>2. k - 1 \in S
    BY <1>10, <2>1
  <2> QED BY <2>1, <2>2 DEF S
<1>12. \A k \in 1 .. n : at[k] >= 2 <=> g[k] \in Cluster
  BY <1>0, <1>1, <1>11
<1> QED BY <1>3, <1>11, <1>12 DEF Traced

LEMMA WayChain ==
  ASSUME NEW v, v.fat \in [Cluster -> Link], NEW w \in Seq(Cluster), Follows(v, w), NEW n \in Nat
  PROVE  Chain(v, w[1], n) = {<<k, w[k]>> : k \in {k \in 1 .. Len(w) : k <= n}}
<1> DEFINE g == [k \in 1 .. n |-> IF k <= Len(w) THEN w[k] ELSE EOC]
<1>0. Len(w) \in Nat /\ Len(w) >= 1 /\ \A i \in 1 .. Len(w) : w[i] \in Cluster
  BY DEF Follows
<1>1. w[1] \in Cluster /\ w[1] \in Link
  BY <1>0 DEF Link
<1>2. \A k \in 1 .. n : g[k] = IF k <= Len(w) THEN w[k] ELSE EOC
  OBVIOUS
<1>3. \A k \in 1 .. n : (g[k] \in Cluster <=> k <= Len(w)) /\ g[k] \in Link
  BY <1>0, <1>2, Constants DEF Link
<1>4. g \in [1 .. n -> Link]
  BY <1>3
<1> HIDE DEF g
<1>5. ASSUME NEW k \in 1 .. n
      PROVE  g[k] = IF k = 1 THEN w[1]
                    ELSE IF g[k - 1] \in Cluster THEN v.fat[g[k - 1]] ELSE EOC
  <2>1. CASE k = 1
    BY <1>0, <1>2, <2>1
  <2>2. CASE k # 1
    <3>1. PICK m \in 1 .. n : m = k - 1
      BY <2>2
    <3>2. CASE m <= Len(w)
      <4>1. m \in 1 .. Len(w) /\ g[m] = w[m] /\ w[m] \in Cluster /\ m + 1 = k
        BY <1>0, <1>2, <3>1, <3>2
      <4>2. v.fat[w[m]] = IF m < Len(w) THEN w[m + 1] ELSE EOC
        BY <4>1 DEF Follows
      <4>3. k <= Len(w) <=> m < Len(w)
        BY <1>0, <3>1
      <4> QED BY <1>2, <2>2, <3>1, <4>1, <4>2, <4>3
    <3>3. CASE ~ (m <= Len(w))
      <4>1. ~ (k <= Len(w))
        BY <1>0, <3>1, <3>3
      <4> QED BY <1>2, <1>3, <2>2, <3>1, <3>3, <4>1
    <3> QED BY <3>2, <3>3
  <2> QED BY <2>1, <2>2
<1>6. Chain(v, w[1], n) = Traced(g, n)
  <2>1. PICK c \in Link : c = w[1]
    BY <1>1
  <2>2. \A k \in 1 .. n : g[k] = IF k = 1 THEN c
                                 ELSE IF g[k - 1] \in Cluster THEN v.fat[g[k - 1]] ELSE EOC
    BY <1>5, <2>1
  <2>3. FollowsFrom(v, c, n, g)
    BY <1>4, <2>2, Zenon DEF FollowsFrom
  <2>4. Chain(v, c, n) = Traced(g, n)
    BY <2>3, ChainTrace
  <2> QED BY <2>1, <2>4
<1>7. Traced(g, n) = {<<k, w[k]>> : k \in {k \in 1 .. Len(w) : k <= n}}
  <2>1. ASSUME NEW k \in 1 .. n, g[k] \in Cluster
        PROVE  <<k, g[k]>> \in {<<m, w[m]>> : m \in {m \in 1 .. Len(w) : m <= n}}
    <3>1. k \in {m \in 1 .. Len(w) : m <= n} /\ g[k] = w[k]
      BY <1>0, <1>2, <1>3, <2>1
    <3> QED BY <3>1
  <2>2. ASSUME NEW k \in 1 .. Len(w), k <= n
        PROVE  k \in 1 .. n /\ g[k] = w[k] /\ g[k] \in Cluster
    BY <1>0, <1>2, <2>2
  <2> QED BY <2>1, <2>2 DEF Traced
<1> QED BY <1>6, <1>7

\* A chain that starts at no cluster is empty.
LEMMA NoChain ==
  ASSUME NEW v, v.fat \in [Cluster -> Link], NEW c \in Link \ Cluster, NEW n \in Nat
  PROVE  Chain(v, c, n) = {}
<1> DEFINE g == [k \in 1 .. n |-> IF k = 1 THEN c ELSE EOC]
<1>1. \A k \in 1 .. n : g[k] \notin Cluster /\ g[k] \in Link /\ g[k] = IF k = 1 THEN c ELSE EOC
  BY Constants DEF Link
<1>2. g \in [1 .. n -> Link]
  BY <1>1
<1> HIDE DEF g
<1>3. \A k \in 1 .. n : g[k] = IF k = 1 THEN c
                               ELSE IF g[k - 1] \in Cluster THEN v.fat[g[k - 1]] ELSE EOC
  <2> SUFFICES ASSUME NEW k \in 1 .. n, k # 1
               PROVE  g[k] = IF g[k - 1] \in Cluster THEN v.fat[g[k - 1]] ELSE EOC
    BY <1>1
  <2>1. k - 1 \in 1 .. n
    OBVIOUS
  <2> QED BY <1>1, <2>1
<1>4. FollowsFrom(v, c, n, g)
  BY <1>2, <1>3, Zenon DEF FollowsFrom
<1>5. Chain(v, c, n) = Traced(g, n)
  BY <1>4, ChainTrace
<1> QED BY <1>1, <1>5 DEF Traced

\* A sequence of clusters, each once, is no longer than the disk.
LEMMA WayShort ==
  ASSUME NEW w \in Seq(Cluster), Once(w)
  PROVE  Len(w) <= CLUSTERS
<1>1. Len(w) \in Nat /\ CLUSTERS \in Nat
  BY Constants
<1>2. IsFiniteSet(1 .. Len(w)) /\ Cardinality(1 .. Len(w)) = Len(w)
  <2>1. 1 \in Int /\ Len(w) \in Int
    BY <1>1
  <2>2. /\ IsFiniteSet(1 .. Len(w))
        /\ Cardinality(1 .. Len(w)) = IF 1 > Len(w) THEN 0 ELSE Len(w) - 1 + 1
    BY <2>1, FS_Interval, Zenon
  <2> QED BY <1>1, <2>2
<1>3. w \in [1 .. Len(w) -> Cluster]
  OBVIOUS
<1> SUFFICES ASSUME CLUSTERS < Len(w)
             PROVE  FALSE
  BY <1>1
<1>4. \E x, y \in 1 .. Len(w) : x # y /\ w[x] = w[y]
  BY <1>2, <1>3, Constants, FS_PigeonHole
<1> QED BY <1>4 DEF Once

LEMMA WayLength ==
  ASSUME NEW v, v.fat \in [Cluster -> Link], NEW w \in Seq(Cluster), Follows(v, w), Once(w)
  PROVE  /\ Chain(v, w[1], CLUSTERS + 1) = {<<k, w[k]>> : k \in 1 .. Len(w)}
         /\ Length(v, w[1]) = Len(w)
         /\ \A k \in 1 .. Len(w) : Kth(v, w[1], k) = w[k]
<1>1. Len(w) \in Nat /\ CLUSTERS \in Nat /\ Len(w) <= CLUSTERS
  BY Constants, WayShort
<1>2. Chain(v, w[1], CLUSTERS + 1) = {<<k, w[k]>> : k \in 1 .. Len(w)}
  <2>1. Chain(v, w[1], CLUSTERS + 1) = {<<k, w[k]>> : k \in {k \in 1 .. Len(w) : k <= CLUSTERS + 1}}
    BY <1>1, WayChain
  <2>2. {k \in 1 .. Len(w) : k <= CLUSTERS + 1} = 1 .. Len(w)
    BY <1>1
  <2> QED BY <2>1, <2>2
<1>3. Length(v, w[1]) = Len(w)
  <2> DEFINE P == {<<k, w[k]>> : k \in 1 .. Len(w)}
             f == [k \in 1 .. Len(w) |-> <<k, w[k]>>]
  <2>1. IsFiniteSet(1 .. Len(w)) /\ Cardinality(1 .. Len(w)) = Len(w)
    <3>1. 1 \in Int /\ Len(w) \in Int
      BY <1>1
    <3>2. /\ IsFiniteSet(1 .. Len(w))
          /\ Cardinality(1 .. Len(w)) = IF 1 > Len(w) THEN 0 ELSE Len(w) - 1 + 1
      BY <3>1, FS_Interval, Zenon
    <3> QED BY <1>1, <3>2
  <2>2. f \in Bijection(1 .. Len(w), P)
    <3>1. f \in [1 .. Len(w) -> P] /\ \A k \in 1 .. Len(w) : f[k] = <<k, w[k]>>
      OBVIOUS
    <3>2. \A p \in P : \E k \in 1 .. Len(w) : f[k] = p
      BY <3>1
    <3>3. \A k, m \in 1 .. Len(w) : f[k] = f[m] => k = m
      BY <3>1
    <3> HIDE DEF f, P
    <3>4. f \in Injection(1 .. Len(w), P) /\ f \in Surjection(1 .. Len(w), P)
      BY <3>1, <3>2, <3>3, Zenon DEF Injection, IsInjective, Surjection
    <3> QED BY <3>4 DEF Bijection
  <2> HIDE DEF f, P
  <2>3. ExistsBijection(1 .. Len(w), P)
    BY <2>2 DEF ExistsBijection
  <2>4. Cardinality(P) = Len(w)
    BY <2>1, <2>3, FS_Bijection
  <2> QED BY <1>2, <2>4 DEF Length, P
<1>4. ASSUME NEW k \in 1 .. Len(w)
      PROVE  Kth(v, w[1], k) = w[k]
  <2> DEFINE q == CHOOSE p \in Chain(v, w[1], CLUSTERS + 1) : p[1] = k
  <2>1. <<k, w[k]>> \in Chain(v, w[1], CLUSTERS + 1) /\ <<k, w[k]>>[1] = k
    BY <1>2
  <2>2. q \in Chain(v, w[1], CLUSTERS + 1) /\ q[1] = k
    BY <2>1
  <2>3. Kth(v, w[1], k) = q[2]
    BY DEF Kth
  <2> HIDE DEF q
  <2> QED BY <1>2, <2>2, <2>3
<1> QED BY <1>2, <1>3, <1>4

\* ---- Volumes ----

LEMMA VolParts ==
  ASSUME NEW v \in Vols
  PROVE  /\ v.fat \in [Cluster -> Link] /\ v.slots \in [Place -> Listing]
         /\ v.data \in [Cluster -> [Ptr -> {0, 1, OLD}]]
         /\ v = [fat |-> v.fat, slots |-> v.slots, data |-> v.data]
         /\ \A c \in Cluster : v.fat[c] \in Link
         /\ \A d \in Place : v.slots[d] \in Listing
BY DEF Vols

LEMMA ListingParts ==
  ASSUME NEW slots \in Listing
  PROVE  /\ slots \in Seq(SlotType) /\ Len(slots) \in Nat /\ Solid(slots)
         /\ \A j \in 1 .. Len(slots) : slots[j] \in SlotType
BY DEF Listing

LEMMA LiveIs ==
  ASSUME NEW slots \in Listing
  PROVE  /\ Live(slots) = {j \in 1 .. Len(slots) : slots[j].name \notin Bare}
         /\ Vacant(slots) = {j \in 1 .. Len(slots) : slots[j].name \in Bare}
<1> DEFINE unused == {j \in 1 .. Len(slots) : slots[j].name = UNUSED}
<1>1. Len(slots) \in Nat
  BY ListingParts
<1>2. \A i, j \in 1 .. Len(slots) : i < j /\ slots[i].name = UNUSED => slots[j].name = UNUSED
  BY ListingParts DEF Solid
<1>3. Live(slots) = {j \in 1 .. (IF unused = {} THEN Len(slots) ELSE Lowest(unused) - 1) :
                       slots[j].name # DELETED}
  BY Zenon DEF Live
<1>4. unused # {} => Lowest(unused) \in unused /\ \A j \in unused : Lowest(unused) <= j
  <2>1. unused \subseteq Nat
    BY <1>1
  <2> HIDE DEF unused
  <2> QED BY <2>1, LowestIs
<1> DEFINE m == IF unused = {} THEN Len(slots) ELSE Lowest(unused) - 1
<1>5. ASSUME NEW j \in 1 .. Len(slots)
      PROVE  j \in 1 .. m <=> slots[j].name # UNUSED
  <2>1. CASE unused = {}
    BY <2>1
  <2>2. CASE unused # {}
    <3>1. PICK l : l = Lowest(unused)
      OBVIOUS
    <3>2. l \in 1 .. Len(slots) /\ slots[l].name = UNUSED /\ m = l - 1
          /\ (slots[j].name = UNUSED => l <= j)
      BY <1>4, <2>2, <3>1
    <3> HIDE DEF m
    <3>3. CASE l <= j
      <4>1. slots[j].name = UNUSED
        <5>1. CASE l = j
          BY <3>2, <5>1
        <5>2. CASE l # j
          <6>1. l < j
            BY <3>2, <3>3, <5>2
          <6> QED BY <1>2, <3>2, <6>1
        <5> QED BY <5>1, <5>2
      <4>2. j \notin 1 .. m
        BY <3>2, <3>3
      <4> QED BY <4>1, <4>2
    <3>4. CASE ~ (l <= j)
      <4>1. j \in 1 .. m
        BY <3>2, <3>4
      <4> QED BY <3>2, <3>4, <4>1
    <3> QED BY <3>3, <3>4
  <2> QED BY <2>1, <2>2
<1>6. 1 .. m \subseteq 1 .. Len(slots)
  <2>1. CASE unused = {}
    BY <2>1
  <2>2. CASE unused # {}
    <3>1. PICK l : l = Lowest(unused)
      OBVIOUS
    <3>2. l \in 1 .. Len(slots) /\ m = l - 1
      BY <1>4, <2>2, <3>1
    <3> HIDE DEF m, unused
    <3> QED BY <1>1, <3>2
  <2> QED BY <2>1, <2>2
<1>7. Live(slots) = {j \in 1 .. m : slots[j].name # DELETED}
  BY <1>3
<1> HIDE DEF unused, m
<1>8. Live(slots) = {j \in 1 .. Len(slots) : slots[j].name \notin Bare}
  BY <1>5, <1>6, <1>7 DEF Bare
<1>9. Vacant(slots) = {j \in 1 .. Len(slots) : slots[j].name \in Bare}
  BY DEF Vacant, Bare
<1> QED BY <1>8, <1>9

\* What Laid says, one part at a time.
LEMMA LaidParts ==
  ASSUME NEW v, NEW way, NEW orphans, Laid(v, way, orphans)
  PROVE  /\ way \in [Slots(v) -> Seq(Cluster)]
         /\ \A s \in Slots(v) :
              /\ way[s] \in Seq(Cluster) /\ Len(way[s]) \in Nat /\ Len(way[s]) >= 1
              /\ Follows(v, way[s]) /\ way[s][1] = At(v, s).first /\ Once(way[s])
              /\ At(v, s).first \in Cluster
              /\ \A i \in 1 .. Len(way[s]) :
                   /\ way[s][i] \in Cluster
                   /\ v.fat[way[s][i]] = IF i < Len(way[s]) THEN way[s][i + 1] ELSE EOC
                   /\ v.fat[way[s][i]] # FREE
                   /\ v.slots[way[s][i]] # << >> <=> i = 1 /\ At(v, s).dir
<1>1. way \in [Slots(v) -> Seq(Cluster)]
  BY DEF Laid
<1> SUFFICES ASSUME NEW s \in Slots(v)
             PROVE  /\ way[s] \in Seq(Cluster) /\ Len(way[s]) \in Nat /\ Len(way[s]) >= 1
                    /\ Follows(v, way[s]) /\ way[s][1] = At(v, s).first /\ Once(way[s])
                    /\ At(v, s).first \in Cluster
                    /\ \A i \in 1 .. Len(way[s]) :
                         /\ way[s][i] \in Cluster
                         /\ v.fat[way[s][i]] = IF i < Len(way[s]) THEN way[s][i + 1] ELSE EOC
                         /\ v.fat[way[s][i]] # FREE
                         /\ v.slots[way[s][i]] # << >> <=> i = 1 /\ At(v, s).dir
  BY <1>1
<1>2. PICK w : w = way[s]
  OBVIOUS
<1>3. w \in Seq(Cluster) /\ Len(w) \in Nat /\ \A i \in 1 .. Len(w) : w[i] \in Cluster
  BY <1>1, <1>2
<1>4. /\ Follows(v, w) /\ w[1] = At(v, s).first
      /\ \A i \in 1 .. Len(w) : v.slots[w[i]] # << >> <=> i = 1 /\ At(v, s).dir
  BY <1>2, Zenon DEF Laid
<1>5. Once(w)
  <2>1. Apart(v, way)
    BY DEF Laid
  <2>2. \A i, j \in 1 .. Len(way[s]) : way[s][i] = way[s][j] => i = j
    BY <2>1 DEF Apart
  <2> QED BY <1>2, <2>2 DEF Once
<1>6. Len(w) >= 1 /\ \A i \in 1 .. Len(w) : v.fat[w[i]] = IF i < Len(w) THEN w[i + 1] ELSE EOC
  BY <1>4 DEF Follows
<1>7. w[1] \in Cluster
  BY <1>3, <1>6
<1>8. ASSUME NEW i \in 1 .. Len(w)
      PROVE  v.fat[w[i]] # FREE
  <2>1. CASE i < Len(w)
    <3>1. i + 1 \in 1 .. Len(w)
      BY <1>3, <2>1
    <3>2. w[i + 1] \in Cluster
      BY <1>3, <3>1
    <3> QED BY <1>6, <2>1, <3>2, Constants
  <2>2. CASE ~ (i < Len(w))
    <3>1. v.fat[w[i]] = EOC
      BY <1>6, <2>2
    <3> QED BY <3>1, Constants
  <2> QED BY <2>1, <2>2
<1> QED BY <1>2, <1>3, <1>4, <1>5, <1>6, <1>7, <1>8

LEMMA SlotParts ==
  ASSUME NEW v, NEW s \in Slots(v)
  PROVE  /\ s = <<s[1], s[2]>> /\ s[1] \in Place /\ s[2] \in Nat /\ s[1] \in DirsOf(v)
         /\ s[2] \in 1 .. Len(v.slots[s[1]]) /\ At(v, s) = v.slots[s[1]][s[2]]
         /\ At(v, s).name \in Name
BY DEF Slots, At

\* The entries stay laid while their clusters keep their links.
LEMMA LaidKept ==
  ASSUME NEW v, NEW way, NEW orphans, Laid(v, way, orphans), NEW u, NEW others,
         Slots(u) = Slots(v),
         \A s \in Slots(v) : At(u, s).first = At(v, s).first /\ (At(u, s).dir <=> At(v, s).dir),
         \A c \in Cluster : Covered(v, way, c) =>
           u.fat[c] = v.fat[c] /\ (u.slots[c] # << >> <=> v.slots[c] # << >>),
         \A c \in Cluster : u.fat[c] # FREE => c \in others \/ Covered(v, way, c),
         \A c \in others : c \in Cluster /\ u.fat[c] = EOC /\ ~ Covered(v, way, c)
  PROVE  Laid(u, way, others)
<1>1. way \in [Slots(u) -> Seq(Cluster)]
  BY LaidParts
<1>2. ASSUME NEW s \in Slots(u)
      PROVE  /\ Follows(u, way[s]) /\ way[s][1] = At(u, s).first
             /\ \A i \in 1 .. Len(way[s]) : u.slots[way[s][i]] # << >> <=> i = 1 /\ At(u, s).dir
  <2>1. PICK w : w = way[s]
    OBVIOUS
  <2>2. /\ w \in Seq(Cluster) /\ Len(w) \in Nat /\ Len(w) >= 1 /\ Follows(v, w) /\ w[1] = At(v, s).first
        /\ \A i \in 1 .. Len(w) :
             w[i] \in Cluster /\ (v.slots[w[i]] # << >> <=> i = 1 /\ At(v, s).dir)
    BY <2>1, LaidParts
  <2>3. ASSUME NEW i \in 1 .. Len(w)
        PROVE  u.fat[w[i]] = v.fat[w[i]] /\ (u.slots[w[i]] # << >> <=> v.slots[w[i]] # << >>)
    <3>1. Covered(v, way, w[i])
      BY <1>2, <2>1 DEF Covered
    <3> QED BY <2>2, <3>1
  <2>4. Follows(u, w)
    BY <2>2, <2>3 DEF Follows
  <2>5. At(u, s).first = At(v, s).first /\ (At(u, s).dir <=> At(v, s).dir)
    BY <1>2
  <2> QED BY <2>1, <2>2, <2>3, <2>4, <2>5
<1>3. Apart(u, way)
  <2>1. Apart(v, way)
    BY DEF Laid
  <2> QED BY <2>1, Zenon DEF Apart
<1>4. \A c : Covered(u, way, c) <=> Covered(v, way, c)
  BY DEF Covered
<1> QED BY <1>1, <1>2, <1>3, <1>4, Zenon DEF Laid

\* The entry that owns the chain of a directory.
LEMMA DirOwner ==
  ASSUME NEW v, NEW way, NEW depth, NEW orphans, Sound(v, way, depth, orphans),
         NEW d \in DirsOf(v), d # kRootCluster, d \notin orphans
  PROVE  \E s \in Slots(v) : At(v, s).first = d /\ At(v, s).dir
<1>1. d \in Cluster /\ v.fat[d] # FREE /\ v.slots[d] # << >>
  BY DEF DirsOf
<1>2. Covered(v, way, d)
  BY <1>1 DEF Sound, Laid
<1>3. PICK s \in Slots(v) : \E i \in 1 .. Len(way[s]) : d = way[s][i]
  BY <1>2 DEF Covered
<1>4. PICK i \in 1 .. Len(way[s]) : d = way[s][i]
  BY <1>3
<1>5. Laid(v, way, orphans)
  BY DEF Sound
<1>6. i = 1 /\ At(v, s).dir /\ way[s][1] = At(v, s).first
  BY <1>1, <1>4, <1>5, LaidParts
<1> QED BY <1>4, <1>6

\* The cluster of an entry: a directory is one, a file is none.
LEMMA EntryFirst ==
  ASSUME NEW v, NEW way, NEW orphans, Laid(v, way, orphans), NEW s \in Slots(v)
  PROVE  /\ At(v, s).first \in Cluster /\ v.fat[At(v, s).first] # FREE
         /\ At(v, s).dir <=> v.slots[At(v, s).first] # << >>
         /\ At(v, s).dir => At(v, s).first \in DirsOf(v)
         /\ \A t \in Slots(v) : At(v, t).first = At(v, s).first => t = s
<1>1. 1 \in 1 .. Len(way[s]) /\ way[s][1] = At(v, s).first
  BY LaidParts
<1>2. At(v, s).first \in Cluster /\ v.fat[At(v, s).first] # FREE
      /\ (At(v, s).dir <=> v.slots[At(v, s).first] # << >>)
  BY <1>1, LaidParts
<1>3. ASSUME NEW t \in Slots(v), At(v, t).first = At(v, s).first
      PROVE  t = s
  <2>1. 1 \in 1 .. Len(way[t]) /\ way[t][1] = At(v, t).first
    BY LaidParts
  <2>2. Apart(v, way)
    BY DEF Laid
  <2> QED BY <1>1, <1>3, <2>1, <2>2 DEF Apart
<1> QED BY <1>2, <1>3 DEF DirsOf

\* What a cluster is filled with: nothing, or a directory with its dots only.
Fresh(block, c) ==
  \/ block = << >>
  \/ /\ Dotted(block, c)
     /\ \A j \in 1 .. Len(block) : block[j].name \notin Name /\ (block[j].name \in Dots => j <= 2)

\* u is v with the cluster c taken.
Alloc(v, way, depth, orphans, block, c, u) ==
  /\ c \in Cluster /\ v.fat[c] = FREE /\ c \notin orphans
  /\ u.fat = [v.fat EXCEPT ![c] = EOC] /\ u.slots = [v.slots EXCEPT ![c] = block]
  /\ u.data = [v.data EXCEPT ![c] = Zeroed]
  /\ Slots(u) = Slots(v) /\ \A s \in Slots(v) : At(u, s) = At(v, s)
  /\ DirsOf(v) \subseteq DirsOf(u)
  /\ Sound(u, way, depth, orphans \cup {c})

LEMMA AllocSound ==
  ASSUME NEW v, NEW way, NEW depth, NEW orphans, Sound(v, way, depth, orphans),
         FreeClusters(v) # {}, NEW block \in Listing, Fresh(block, Lowest(FreeClusters(v))),
         NEW u, u = Allocated(v, block), NEW c, c = Lowest(FreeClusters(v))
  PROVE  Alloc(v, way, depth, orphans, block, c, u)
<1>1. c \in Cluster /\ v.fat[c] = FREE
  <2>1. FreeClusters(v) \subseteq Nat
    BY Constants DEF FreeClusters
  <2>2. c \in FreeClusters(v)
    BY <2>1, LowestIs
  <2> QED BY <2>2 DEF FreeClusters
<1>2. v \in Vols /\ Laid(v, way, orphans) /\ Shaped(v) /\ Nested(v, depth) /\ FirstShown(v)
  BY DEF Sound
<1>3. /\ v.fat \in [Cluster -> Link] /\ v.slots \in [Place -> Listing]
      /\ v.data \in [Cluster -> [Ptr -> {0, 1, OLD}]]
  BY <1>2, VolParts
<1>4. /\ u.fat = [v.fat EXCEPT ![c] = EOC] /\ u.slots = [v.slots EXCEPT ![c] = block]
      /\ u.data = [v.data EXCEPT ![c] = Zeroed]
      /\ u = [fat |-> u.fat, slots |-> u.slots, data |-> u.data]
  <2>1. u = [v EXCEPT !.fat[c] = EOC, !.data[c] = Zeroed, !.slots[c] = block]
    BY DEF Allocated
  <2>2. v = [fat |-> v.fat, slots |-> v.slots, data |-> v.data]
    BY <1>2, VolParts
  <2> QED BY <2>1, <2>2
<1>5. /\ \A x \in Cluster : u.fat[x] = IF x = c THEN EOC ELSE v.fat[x]
      /\ \A d \in Place : u.slots[d] = IF d = c THEN block ELSE v.slots[d]
      /\ c \in Place /\ kRootCluster \in Place /\ kRootCluster # c
  BY <1>1, <1>3, <1>4, Constants DEF Place
<1>6. u \in Vols
  <2>1. u.fat \in [Cluster -> Link] /\ u.slots \in [Place -> Listing]
    BY <1>1, <1>3, <1>4 DEF Place, Link
  <2>2. Zeroed \in [Ptr -> {0, 1, OLD}]
    BY DEF Zeroed, Ptr
  <2>3. u.data \in [Cluster -> [Ptr -> {0, 1, OLD}]]
    BY <1>1, <1>3, <1>4, <2>2
  <2> QED BY <1>4, <2>1, <2>3, Zenon DEF Vols
<1>7. c \notin DirsOf(v) /\ DirsOf(u) \subseteq DirsOf(v) \cup {c} /\ DirsOf(v) \subseteq DirsOf(u)
  BY <1>1, <1>5, Constants DEF DirsOf, Place
<1>8. \A d \in DirsOf(v) : d \in Place /\ d # c /\ u.slots[d] = v.slots[d]
  BY <1>5, <1>7 DEF DirsOf, Place
<1>9. c \in DirsOf(u) => Fresh(block, c) /\ u.slots[c] = block /\ block # << >>
  BY <1>1, <1>5 DEF DirsOf
<1>10. \A j : c \in DirsOf(u) /\ j \in 1 .. Len(block) => block[j].name \notin Name
  BY <1>9 DEF Fresh
<1>11. Slots(u) = Slots(v)
  <2>1. ASSUME NEW s \in Slots(u)
        PROVE  s \in Slots(v)
    <3>1. /\ s \in Place \X Nat /\ s[1] \in DirsOf(u) /\ s[2] \in 1 .. Len(u.slots[s[1]])
          /\ u.slots[s[1]][s[2]].name \in Name
      BY DEF Slots
    <3>2. s[1] # c
      BY <1>9, <1>10, <3>1
    <3>3. s[1] \in DirsOf(v)
      BY <1>7, <3>1, <3>2
    <3> QED BY <1>8, <3>1, <3>3 DEF Slots
  <2>2. ASSUME NEW s \in Slots(v)
        PROVE  s \in Slots(u)
    <3>1. /\ s \in Place \X Nat /\ s[1] \in DirsOf(v) /\ s[2] \in 1 .. Len(v.slots[s[1]])
          /\ v.slots[s[1]][s[2]].name \in Name
      BY DEF Slots
    <3> QED BY <1>7, <1>8, <3>1 DEF Slots
  <2> QED BY <2>1, <2>2
<1>12. ASSUME NEW s \in Slots(v)
       PROVE  s[1] \in DirsOf(v) /\ u.slots[s[1]] = v.slots[s[1]] /\ At(u, s) = At(v, s)
  <2>1. s[1] \in DirsOf(v)
    BY SlotParts
  <2> QED BY <1>8, <2>1 DEF At
<1>13. c \notin orphans /\ ~ Covered(v, way, c)
  <2>1. c \notin orphans
    BY <1>1, <1>2, Constants DEF Laid
  <2>2. ~ Covered(v, way, c)
    BY <1>1, <1>2, LaidParts DEF Covered
  <2> QED BY <2>1, <2>2
<1>14. Laid(u, way, orphans \cup {c})
  <2>1. \A x \in Cluster : Covered(v, way, x) =>
           u.fat[x] = v.fat[x] /\ (u.slots[x] # << >> <=> v.slots[x] # << >>)
    BY <1>5, <1>13 DEF Place
  <2>2. \A x \in Cluster : u.fat[x] # FREE => x \in orphans \cup {c} \/ Covered(v, way, x)
    BY <1>2, <1>5 DEF Laid
  <2>3. \A x \in orphans \cup {c} : x \in Cluster /\ u.fat[x] = EOC /\ ~ Covered(v, way, x)
    BY <1>1, <1>2, <1>5, <1>13 DEF Laid
  <2>4. \A s \in Slots(v) : At(u, s).first = At(v, s).first /\ (At(u, s).dir <=> At(v, s).dir)
    BY <1>12
  <2> QED BY <1>2, <1>11, <2>1, <2>2, <2>3, <2>4, LaidKept
<1>15. Shaped(u)
  <2>3. u.slots[kRootCluster] # << >>
    BY <1>2, <1>5 DEF Shaped
  <2> SUFFICES ASSUME NEW d \in DirsOf(u)
               PROVE  /\ d # kRootCluster => Dotted(u.slots[d], d)
                      /\ \A j \in 1 .. Len(u.slots[d]) :
                           u.slots[d][j].name \in Dots => d # kRootCluster /\ j <= 2
    BY <2>3 DEF Shaped
  <2>1. CASE d = c
    BY <1>5, <1>9, <2>1 DEF Fresh
  <2>2. CASE d # c
    <3>1. d \in DirsOf(v) /\ u.slots[d] = v.slots[d]
      BY <1>7, <1>8, <2>2
    <3> QED BY <1>2, <3>1 DEF Shaped
  <2> QED BY <2>1, <2>2
<1>16. Nested(u, depth)
  <2>1. depth \in [Place -> Nat] /\ depth[kRootCluster] = 0
    BY <1>2 DEF Nested
  <2>2. ASSUME NEW s \in Slots(u), At(u, s).dir
        PROVE  /\ u.slots[At(u, s).first][2].first = s[1]
               /\ depth[At(u, s).first] = depth[s[1]] + 1
    <3>1. s \in Slots(v) /\ At(u, s) = At(v, s)
      BY <1>11, <1>12
    <3>2. At(v, s).first \in DirsOf(v)
      BY <1>2, <2>2, <3>1, EntryFirst
    <3>3. u.slots[At(v, s).first] = v.slots[At(v, s).first]
      BY <1>8, <3>2
    <3> QED BY <1>2, <2>2, <3>1, <3>3 DEF Nested
  <2> QED BY <2>1, <2>2 DEF Nested
<1>17. FirstShown(u)
  <2> SUFFICES ASSUME NEW s \in Slots(u), ~ At(u, s).dir, NEW i \in 1 .. s[2] - 1
               PROVE  u.slots[s[1]][i].dir \/ u.slots[s[1]][i].first # At(u, s).first
    BY DEF FirstShown
  <2>1. s \in Slots(v) /\ At(u, s) = At(v, s) /\ u.slots[s[1]] = v.slots[s[1]]
    BY <1>11, <1>12
  <2> QED BY <1>2, <2>1 DEF FirstShown
<1>18. Sound(u, way, depth, orphans \cup {c})
  BY <1>6, <1>14, <1>15, <1>16, <1>17 DEF Sound
<1> QED BY <1>1, <1>4, <1>7, <1>11, <1>12, <1>13, <1>18, Zenon DEF Alloc

\* What does not look at the table holds as long as the directories are the same.
LEMMA SoundKept ==
  ASSUME NEW v, NEW way, NEW depth, NEW orphans, Sound(v, way, depth, orphans),
         NEW u, u \in Vols, u.slots = v.slots, NEW others, NEW new, Laid(u, new, others),
         \A c \in Cluster : v.slots[c] # << >> => (u.fat[c] # FREE <=> v.fat[c] # FREE)
  PROVE  /\ DirsOf(u) = DirsOf(v) /\ Slots(u) = Slots(v) /\ \A s \in Slots(v) : At(u, s) = At(v, s)
         /\ Sound(u, new, depth, others)
<1>1. DirsOf(u) = DirsOf(v)
  BY DEF DirsOf
<1>2. Slots(u) = Slots(v)
  BY <1>1, Zenon DEF Slots
<1>3. \A s : At(u, s) = At(v, s)
  BY DEF At
<1>4. Shaped(v) /\ Nested(v, depth) /\ FirstShown(v)
  BY DEF Sound
<1>5. Shaped(u)
  BY <1>1, <1>4, Zenon DEF Shaped
<1>6. Nested(u, depth)
  BY <1>2, <1>3, <1>4 DEF Nested
<1>7. FirstShown(u)
  BY <1>2, <1>3, <1>4 DEF FirstShown
<1> QED BY <1>1, <1>2, <1>3, <1>5, <1>6, <1>7 DEF Sound

\* u is v with the cluster b at the end of the chain z of t.
Linked(v, way, depth, orphans, t, z, b, u) ==
  /\ u.fat = [v.fat EXCEPT ![z[Len(z)]] = b] /\ u.slots = v.slots /\ u.data = v.data
  /\ DirsOf(u) = DirsOf(v) /\ Slots(u) = Slots(v) /\ \A s \in Slots(v) : At(u, s) = At(v, s)
  /\ Sound(u, [way EXCEPT ![t] = Append(z, b)], depth, orphans \ {b})

LEMMA LinkSound ==
  ASSUME NEW v, NEW way, NEW depth, NEW orphans, Sound(v, way, depth, orphans),
         NEW t \in Slots(v), NEW z, z = way[t], NEW b \in orphans, v.slots[b] = << >>,
         NEW u, u = [v EXCEPT !.fat[z[Len(z)]] = b]
  PROVE  Linked(v, way, depth, orphans, t, z, b, u)
<1> DEFINE last == z[Len(z)]
           new == [way EXCEPT ![t] = Append(z, b)]
<1>1. v \in Vols /\ Laid(v, way, orphans)
  BY DEF Sound
<1>2. /\ v.fat \in [Cluster -> Link] /\ v.slots \in [Place -> Listing]
      /\ v.data \in [Cluster -> [Ptr -> {0, 1, OLD}]]
      /\ v = [fat |-> v.fat, slots |-> v.slots, data |-> v.data]
  BY <1>1, VolParts
<1>3. /\ z \in Seq(Cluster) /\ Len(z) \in Nat /\ Len(z) >= 1
      /\ \A i \in 1 .. Len(z) :
           z[i] \in Cluster /\ v.fat[z[i]] = IF i < Len(z) THEN z[i + 1] ELSE EOC
  BY <1>1, LaidParts
<1>4. last \in Cluster /\ Len(z) \in 1 .. Len(z)
  BY <1>3
<1>5. b \in Cluster /\ v.fat[b] = EOC /\ ~ Covered(v, way, b)
  BY <1>1 DEF Laid
<1>6. u.fat = [v.fat EXCEPT ![last] = b] /\ u.slots = v.slots /\ u.data = v.data
      /\ u = [fat |-> u.fat, slots |-> u.slots, data |-> u.data]
  BY <1>2
<1>7. \A x \in Cluster : u.fat[x] = IF x = last THEN b ELSE v.fat[x]
  BY <1>2, <1>4, <1>6
<1>8. u \in Vols
  <2>1. u.fat \in [Cluster -> Link]
    BY <1>2, <1>4, <1>5, <1>6 DEF Link
  <2> QED BY <1>2, <1>6, <2>1 DEF Vols
<1>9. v.fat[last] # FREE /\ b # FREE
  <2>1. v.fat[last] = EOC
    BY <1>3, <1>4
  <2>2. b # FREE
    BY <1>5, Constants
  <2> QED BY <2>1, <2>2, Constants
<1> HIDE DEF last
<1>10. \A c \in Cluster : u.fat[c] # FREE <=> v.fat[c] # FREE
  BY <1>7, <1>9
<1>11. DirsOf(u) = DirsOf(v)
  BY <1>6, <1>10 DEF DirsOf
<1>12. Slots(u) = Slots(v)
  BY <1>6, <1>11, Zenon DEF Slots
<1>13. \A s : At(u, s) = At(v, s)
  BY <1>6 DEF At
<1>14. new \in [Slots(u) -> Seq(Cluster)]
  <2>1. Append(z, b) \in Seq(Cluster)
    BY <1>3, <1>5
  <2>2. way \in [Slots(v) -> Seq(Cluster)]
    BY <1>1, LaidParts
  <2> QED BY <1>12, <2>1, <2>2
<1>15. \A s \in Slots(v) : new[s] = IF s = t THEN Append(z, b) ELSE way[s]
  <2>1. way \in [Slots(v) -> Seq(Cluster)]
    BY <1>1, LaidParts
  <2> QED BY <2>1
<1> HIDE DEF new
<1>16. /\ Len(Append(z, b)) = Len(z) + 1 /\ Append(z, b)[Len(z) + 1] = b
       /\ \A i \in 1 .. Len(z) : Append(z, b)[i] = z[i]
  BY <1>3, <1>5
<1>17. \A s \in Slots(v) : \A i : i \in 1 .. Len(new[s]) <=>
         i \in 1 .. Len(way[s]) \/ (s = t /\ i = Len(z) + 1)
  <2> SUFFICES ASSUME NEW s \in Slots(v), NEW i
               PROVE  i \in 1 .. Len(new[s]) <=> i \in 1 .. Len(way[s]) \/ (s = t /\ i = Len(z) + 1)
    OBVIOUS
  <2>1. CASE s # t
    <3>1. new[s] = way[s]
      BY <1>15, <2>1
    <3> QED BY <2>1, <3>1, Zenon
  <2>2. CASE s = t
    <3>1. PICK n \in Nat : n = Len(z)
      BY <1>3
    <3>2. Len(new[s]) = n + 1 /\ Len(way[s]) = n
      BY <1>15, <1>16, <2>2, <3>1
    <3>3. n >= 1 /\ (i \in 1 .. n + 1 <=> i \in 1 .. n \/ i = n + 1)
      BY <1>3, <3>1
    <3>4. 1 .. Len(new[s]) = 1 .. n + 1 /\ 1 .. Len(way[s]) = 1 .. n /\ Len(z) + 1 = n + 1
      BY <3>1, <3>2
    <3> QED BY <2>2, <3>3, <3>4, Zenon
  <2> QED BY <2>1, <2>2
<1>18. \A s \in Slots(v) : /\ \A i \in 1 .. Len(way[s]) : new[s][i] = way[s][i]
                           /\ s = t => new[s][Len(z) + 1] = b
  BY <1>15, <1>16
<1>19. \A s \in Slots(v) : \A i \in 1 .. Len(way[s]) : way[s][i] # b
  BY <1>5 DEF Covered
<1>20. Apart(v, way)
  BY <1>1 DEF Laid
<1>21. Apart(u, new)
  <2> SUFFICES ASSUME NEW s \in Slots(v), NEW r \in Slots(v), NEW i \in 1 .. Len(new[s]),
                      NEW j \in 1 .. Len(new[r]), new[s][i] = new[r][j]
               PROVE  s = r /\ i = j
    BY <1>12 DEF Apart
  <2>1. CASE i \in 1 .. Len(way[s]) /\ j \in 1 .. Len(way[r])
    BY <1>18, <1>20, <2>1 DEF Apart
  <2>2. CASE i \in 1 .. Len(way[s]) /\ ~ (j \in 1 .. Len(way[r]))
    BY <1>17, <1>18, <1>19, <2>2
  <2>3. CASE ~ (i \in 1 .. Len(way[s])) /\ j \in 1 .. Len(way[r])
    BY <1>17, <1>18, <1>19, <2>3
  <2>4. CASE ~ (i \in 1 .. Len(way[s])) /\ ~ (j \in 1 .. Len(way[r]))
    BY <1>17, <2>4
  <2> QED BY <2>1, <2>2, <2>3, <2>4
<1>22. ASSUME NEW s \in Slots(v)
       PROVE  /\ Follows(u, new[s]) /\ new[s][1] = At(u, s).first
              /\ \A i \in 1 .. Len(new[s]) : u.slots[new[s][i]] # << >> <=> i = 1 /\ At(u, s).dir
  <2>1. PICK w : w = way[s]
    OBVIOUS
  <2>2. /\ w \in Seq(Cluster) /\ Len(w) \in Nat /\ Len(w) >= 1 /\ w[1] = At(v, s).first
        /\ \A i \in 1 .. Len(w) :
             /\ w[i] \in Cluster /\ v.fat[w[i]] = IF i < Len(w) THEN w[i + 1] ELSE EOC
             /\ v.slots[w[i]] # << >> <=> i = 1 /\ At(v, s).dir
    BY <1>1, <2>1, LaidParts
  <2>3. CASE s # t
    <3>1. new[s] = w
      BY <1>15, <2>1, <2>3
    <3>2. ASSUME NEW i \in 1 .. Len(w)
          PROVE  w[i] # last
      BY <1>4, <1>20, <2>1, <2>3 DEF Apart, last
    <3>3. Follows(u, w)
      BY <1>7, <2>2, <3>2 DEF Follows
    <3> QED BY <1>6, <1>13, <2>2, <3>1, <3>3
  <2>4. CASE s = t
    <3>1. PICK y : y = Append(z, b)
      OBVIOUS
    <3>2. new[s] = y /\ w = z /\ Len(y) = Len(z) + 1 /\ y[Len(z) + 1] = b
          /\ \A i \in 1 .. Len(z) : y[i] = z[i]
      BY <1>15, <1>16, <2>1, <2>4, <3>1
    <3>3. ASSUME NEW i \in 1 .. Len(y)
          PROVE  u.fat[y[i]] = IF i < Len(y) THEN y[i + 1] ELSE EOC
      <4>1. CASE i < Len(z)
        <5>1. i \in 1 .. Len(z) /\ i + 1 \in 1 .. Len(z) /\ i < Len(y) /\ i # Len(z)
          BY <1>3, <3>2, <4>1
        <5>2. z[i] # last
          BY <1>4, <1>20, <2>1, <2>4, <3>2, <5>1 DEF Apart, last
        <5> QED BY <1>3, <1>7, <3>2, <4>1, <5>1, <5>2
      <4>2. CASE i = Len(z)
        <5>1. y[i] = last /\ y[i + 1] = b /\ i < Len(y)
          BY <1>3, <1>4, <3>2, <4>2 DEF last
        <5> QED BY <1>4, <1>7, <5>1
      <4>3. CASE i = Len(z) + 1
        <5>1. y[i] = b /\ ~ (i < Len(y))
          BY <1>3, <3>2, <4>3
        <5>2. b # last
          BY <1>4, <1>19 DEF last
        <5> QED BY <1>5, <1>7, <5>1, <5>2
      <4> QED BY <1>3, <3>2, <4>1, <4>2, <4>3
    <3>4. Follows(u, y)
      BY <1>3, <3>2, <3>3 DEF Follows
    <3>5. ASSUME NEW i \in 1 .. Len(y)
          PROVE  u.slots[y[i]] # << >> <=> i = 1 /\ At(u, s).dir
      <4>1. CASE i \in 1 .. Len(z)
        BY <1>6, <1>13, <2>2, <3>2, <4>1
      <4>2. CASE ~ (i \in 1 .. Len(z))
        <5>1. i = Len(z) + 1 /\ i # 1
          BY <1>3, <3>2, <4>2
        <5> QED BY <1>6, <3>2, <5>1
      <4> QED BY <4>1, <4>2
    <3>6. y[1] = At(u, s).first
      BY <1>3, <1>13, <2>2, <3>2
    <3> QED BY <3>2, <3>4, <3>5, <3>6
  <2> QED BY <2>3, <2>4
<1>23. \A x : Covered(u, new, x) <=> Covered(v, way, x) \/ x = b
  <2> SUFFICES ASSUME NEW x
               PROVE  Covered(u, new, x) <=> Covered(v, way, x) \/ x = b
    OBVIOUS
  <2>1. ASSUME NEW s \in Slots(v), NEW i \in 1 .. Len(new[s]), x = new[s][i]
        PROVE  Covered(v, way, x) \/ x = b
    <3>1. CASE i \in 1 .. Len(way[s])
      <4>1. x = way[s][i]
        BY <1>18, <2>1, <3>1
      <4> QED BY <3>1, <4>1 DEF Covered
    <3>2. CASE ~ (i \in 1 .. Len(way[s]))
      <4>1. s = t /\ i = Len(z) + 1
        BY <1>17, <2>1, <3>2, Zenon
      <4> QED BY <1>18, <2>1, <4>1
    <3> QED BY <3>1, <3>2
  <2>2. ASSUME NEW s \in Slots(v), NEW i \in 1 .. Len(way[s]), x = way[s][i]
        PROVE  Covered(u, new, x)
    <3>1. i \in 1 .. Len(new[s]) /\ x = new[s][i]
      BY <1>17, <1>18, <2>2
    <3> QED BY <1>12, <3>1 DEF Covered
  <2>5. (Covered(u, new, x) => Covered(v, way, x) \/ x = b) /\ (Covered(v, way, x) => Covered(u, new, x))
    BY <1>12, <2>1, <2>2 DEF Covered
  <2>3. Len(z) + 1 \in 1 .. Len(new[t]) /\ new[t][Len(z) + 1] = b
    BY <1>17, <1>18
  <2>4. Covered(u, new, b)
    BY <1>12, <2>3 DEF Covered
  <2> QED BY <2>4, <2>5
<1>24. \A x \in Cluster : u.fat[x] # FREE => x \in orphans \ {b} \/ Covered(u, new, x)
  BY <1>1, <1>10, <1>23 DEF Laid
<1>25. \A x \in orphans \ {b} : x \in Cluster /\ u.fat[x] = EOC /\ ~ Covered(u, new, x)
  <2> SUFFICES ASSUME NEW x \in orphans \ {b}
               PROVE  x \in Cluster /\ u.fat[x] = EOC /\ ~ Covered(u, new, x)
    OBVIOUS
  <2>1. x \in Cluster /\ v.fat[x] = EOC /\ ~ Covered(v, way, x)
    BY <1>1 DEF Laid
  <2>2. x # last
    BY <1>4, <2>1 DEF Covered, last
  <2> QED BY <1>7, <1>23, <2>1, <2>2
<1>26. Laid(u, new, orphans \ {b})
  BY <1>12, <1>14, <1>21, <1>22, <1>24, <1>25 DEF Laid
<1>27. Sound(u, new, depth, orphans \ {b})
  <2>1. PICK others, way2 : others = orphans \ {b} /\ way2 = new
    OBVIOUS
  <2>2. Laid(u, way2, others)
    BY <1>26, <2>1
  <2>3. /\ u.slots = v.slots
        /\ \A c \in Cluster : v.slots[c] # << >> => (u.fat[c] # FREE <=> v.fat[c] # FREE)
    BY <1>6, <1>10
  <2>4. Sound(u, way2, depth, others)
    BY <1>8, <2>2, <2>3, SoundKept, ZenonT(60)
  <2> QED BY <2>1, <2>4
<1> QED BY <1>6, <1>11, <1>12, <1>13, <1>27 DEF last, new, Linked

\* What is in use in v is the same in u.
Stays(v, u) ==
  /\ u.slots[kRootCluster] = v.slots[kRootCluster]
  /\ \A c \in Cluster : v.fat[c] # FREE =>
       u.fat[c] # FREE /\ u.slots[c] = v.slots[c] /\ u.data[c] = v.data[c]

\* The chain of t has become longer, after i steps towards the length k.
Grown(v, way, depth, orphans, t, k, i) ==
  {u \in Vols :
     /\ Stays(v, u) /\ DirsOf(u) = DirsOf(v)
     /\ Slots(u) = Slots(v) /\ \A s \in Slots(v) : At(u, s) = At(v, s)
     /\ \E z \in Seq(Cluster) :
          /\ Sound(u, [way EXCEPT ![t] = z], depth, orphans)
          /\ Len(z) >= Len(way[t]) /\ (Len(z) <= k \/ Len(z) = Len(way[t]))
          /\ Len(z) = Len(way[t]) => u = v
          /\ \A j \in 1 .. Len(way[t]) : z[j] = way[t][j]
          /\ \A j \in Len(way[t]) + 1 .. Len(z) : u.data[z[j]] = Zeroed
          /\ Len(z) >= k \/ FreeClusters(u) = {} \/ Len(z) = Len(way[t]) + i}

Longer(u, c, k) ==
  IF Length(u, c) >= k \/ FreeClusters(u) = {} THEN u
  ELSE [Allocated(u, << >>) EXCEPT !.fat[Kth(u, c, Length(u, c))] = Lowest(FreeClusters(u))]

LEMMA GrowStep ==
  ASSUME NEW v, NEW way, NEW depth, NEW orphans, Sound(v, way, depth, orphans),
         NEW t \in Slots(v), NEW k \in Nat, NEW i \in Nat,
         NEW u, u \in Grown(v, way, depth, orphans, t, k, i), NEW c, c = way[t][1]
  PROVE  Longer(u, c, k) \in Grown(v, way, depth, orphans, t, k, i + 1)
<1>1. /\ u \in Vols /\ Stays(v, u) /\ DirsOf(u) = DirsOf(v)
      /\ Slots(u) = Slots(v) /\ \A s \in Slots(v) : At(u, s) = At(v, s)
  BY DEF Grown
<1>2. PICK z \in Seq(Cluster) :
          /\ Sound(u, [way EXCEPT ![t] = z], depth, orphans)
          /\ Len(z) >= Len(way[t]) /\ (Len(z) <= k \/ Len(z) = Len(way[t]))
          /\ Len(z) = Len(way[t]) => u = v
          /\ \A j \in 1 .. Len(way[t]) : z[j] = way[t][j]
          /\ \A j \in Len(way[t]) + 1 .. Len(z) : u.data[z[j]] = Zeroed
          /\ Len(z) >= k \/ FreeClusters(u) = {} \/ Len(z) = Len(way[t]) + i
  BY Zenon DEF Grown
<1>3. PICK new : new = [way EXCEPT ![t] = z]
  OBVIOUS
<1>4. way \in [Slots(v) -> Seq(Cluster)] /\ Len(way[t]) \in Nat /\ Len(way[t]) >= 1 /\ Len(z) \in Nat
  BY LaidParts DEF Sound
<1>5. new[t] = z
  BY <1>3, <1>4
<1>6. Sound(u, new, depth, orphans)
  BY <1>2, <1>3
<1>7. Laid(u, new, orphans)
  BY <1>6 DEF Sound
<1>8. Follows(u, z) /\ Once(z) /\ \A j \in 1 .. Len(z) : z[j] \in Cluster /\ u.fat[z[j]] # FREE
  BY <1>1, <1>5, <1>7, LaidParts
<1>9. u.fat \in [Cluster -> Link]
  BY <1>1, VolParts
<1>10. Length(u, z[1]) = Len(z) /\ \A j \in 1 .. Len(z) : Kth(u, z[1], j) = z[j]
  BY <1>8, <1>9, WayLength
<1>11. z[1] = c /\ Len(z) \in 1 .. Len(z)
  BY <1>2, <1>4
<1>12. Length(u, c) = Len(z) /\ Kth(u, c, Len(z)) = z[Len(z)]
  BY <1>10, <1>11
<1>13. CASE Len(z) >= k \/ FreeClusters(u) = {}
  <2>1. Longer(u, c, k) = u
    BY <1>12, <1>13 DEF Longer
  <2>2. Len(z) >= k \/ FreeClusters(u) = {} \/ Len(z) = Len(way[t]) + (i + 1)
    BY <1>13
  <2>3. u \in Grown(v, way, depth, orphans, t, k, i + 1)
    BY <1>1, <1>2, <2>2, Zenon DEF Grown
  <2> QED BY <2>1, <2>3
<1>14. CASE ~ (Len(z) >= k) /\ FreeClusters(u) # {}
  <2>1. PICK b : b = Lowest(FreeClusters(u))
    OBVIOUS
  <2>2. PICK a, none : a = Allocated(u, none) /\ none = << >>
    OBVIOUS
  <2>3. none \in Listing /\ Fresh(none, Lowest(FreeClusters(u)))
    BY <2>2 DEF Listing, Solid, Fresh
  <2>4. /\ b \in Cluster /\ u.fat[b] = FREE /\ b \notin orphans
        /\ a.fat = [u.fat EXCEPT ![b] = EOC] /\ a.slots = [u.slots EXCEPT ![b] = none]
        /\ a.data = [u.data EXCEPT ![b] = Zeroed]
        /\ Slots(a) = Slots(u) /\ \A s \in Slots(u) : At(a, s) = At(u, s)
        /\ Sound(a, new, depth, orphans \cup {b})
    <3>1. Alloc(u, new, depth, orphans, none, b, a)
      BY <1>6, <1>14, <2>1, <2>2, <2>3, AllocSound
    <3> QED BY <3>1 DEF Alloc
  <2>5. PICK o : o = orphans \cup {b}
    OBVIOUS
  <2>6. PICK w : w = [a EXCEPT !.fat[z[Len(z)]] = b]
    OBVIOUS
  <2>7. Longer(u, c, k) = w
    BY <1>12, <1>14, <2>1, <2>2, <2>6 DEF Longer
  <2>8. u.slots \in [Place -> Listing] /\ u.data \in [Cluster -> [Ptr -> {0, 1, OLD}]] /\ b \in Place
    BY <1>1, <2>4, VolParts DEF Place
  <2>9. b \in o /\ a.slots[b] = << >> /\ t \in Slots(a)
    BY <1>1, <2>2, <2>4, <2>5, <2>8
  <2>10. Sound(a, new, depth, o)
    BY <2>4, <2>5
  <2>11. /\ w.fat = [a.fat EXCEPT ![z[Len(z)]] = b] /\ w.slots = a.slots /\ w.data = a.data
         /\ DirsOf(w) = DirsOf(a) /\ Slots(w) = Slots(a) /\ \A s \in Slots(a) : At(w, s) = At(a, s)
         /\ Sound(w, [new EXCEPT ![t] = Append(z, b)], depth, o \ {b})
    <3>1. Linked(a, new, depth, o, t, z, b, w)
      BY <1>5, <2>6, <2>9, <2>10, LinkSound
    <3> QED BY <3>1, Zenon DEF Linked
  <2>12. PICK y : y = Append(z, b)
    OBVIOUS
  <2>13. y \in Seq(Cluster) /\ Len(y) = Len(z) + 1 /\ y[Len(z) + 1] = b
         /\ \A j \in 1 .. Len(z) : y[j] = z[j]
    BY <1>2, <1>4, <2>4, <2>12
  <2>14. [new EXCEPT ![t] = y] = [way EXCEPT ![t] = y] /\ o \ {b} = orphans
    BY <1>3, <1>4, <2>4, <2>5
  <2>15. Sound(w, [way EXCEPT ![t] = y], depth, orphans)
    BY <2>11, <2>12, <2>14
  <2>16. PICK l \in Cluster : l = z[Len(z)]
    BY <1>8, <1>11
  <2>17. u.fat[l] # FREE
    BY <1>8, <1>11, <2>16
  <2>18. ASSUME NEW x \in Cluster, u.fat[x] # FREE
         PROVE  w.fat[x] # FREE /\ w.slots[x] = u.slots[x] /\ w.data[x] = u.data[x]
    <3>1. x # b /\ x \in Place
      BY <2>4, <2>18 DEF Place
    <3>2. w.slots[x] = u.slots[x] /\ w.data[x] = u.data[x]
      BY <2>4, <2>8, <2>11, <3>1
    <3>3. w.fat = [[u.fat EXCEPT ![b] = EOC] EXCEPT ![l] = b] /\ b # FREE
      BY <2>4, <2>11, <2>16, Constants
    <3>4. w.fat[x] = IF x = l THEN b ELSE u.fat[x]
      BY <1>9, <2>4, <3>1, <3>3
    <3> QED BY <2>18, <3>2, <3>3, <3>4
  <2>19. Stays(v, w)
    <3>1. kRootCluster \in Place /\ kRootCluster # b
      BY <2>4, Constants DEF Place
    <3>2. w.slots[kRootCluster] = u.slots[kRootCluster]
      BY <2>4, <2>8, <2>11, <3>1
    <3> QED BY <1>1, <2>18, <3>2 DEF Stays
  <2>20. DirsOf(w) = DirsOf(v)
    <3>1. DirsOf(a) = DirsOf(u)
      <4>1. \A x \in Cluster : x # b => a.fat[x] = u.fat[x] /\ a.slots[x] = u.slots[x]
        BY <1>9, <2>4, <2>8 DEF Place
      <4> QED BY <2>4, <2>9, <4>1 DEF DirsOf
    <3> QED BY <1>1, <2>11, <3>1
  <2>21. Slots(w) = Slots(v) /\ \A s \in Slots(v) : At(w, s) = At(v, s)
    BY <1>1, <2>4, <2>11
  <2>22. w \in Vols
    BY <2>15 DEF Sound
  <2>23. /\ Len(y) >= Len(way[t]) /\ (Len(y) <= k \/ Len(y) = Len(way[t]))
         /\ Len(y) # Len(way[t])
         /\ \A j \in 1 .. Len(way[t]) : y[j] = way[t][j]
         /\ Len(y) >= k \/ FreeClusters(w) = {} \/ Len(y) = Len(way[t]) + (i + 1)
    <3>1. PICK n, m \in Nat : n = Len(z) /\ m = Len(way[t])
      BY <1>4
    <3>2. n >= m /\ ~ (n >= k) /\ Len(y) = n + 1 /\ n = m + i
      BY <1>2, <1>14, <2>13, <3>1
    <3>3. Len(y) >= m /\ Len(y) <= k /\ Len(y) = m + (i + 1) /\ Len(y) # m
      BY <3>2
    <3>4. \A j \in 1 .. m : j \in 1 .. n
      BY <3>2
    <3>5. \A j \in 1 .. m : y[j] = way[t][j]
      BY <1>2, <2>13, <3>1, <3>4
    <3> QED BY <3>1, <3>3, <3>5
  <2>24. ASSUME NEW j \in Len(way[t]) + 1 .. Len(y)
         PROVE  w.data[y[j]] = Zeroed
    <3>1. CASE j = Len(z) + 1
      BY <2>4, <2>8, <2>11, <2>13, <3>1
    <3>2. CASE j # Len(z) + 1
      <4>1. j \in 1 .. Len(z) /\ j \in Len(way[t]) + 1 .. Len(z)
        <5>1. PICK n, m \in Nat : n = Len(z) /\ m = Len(way[t])
          BY <1>4
        <5>2. j \in m + 1 .. n + 1 /\ j # n + 1
          BY <2>13, <3>2, <5>1
        <5>3. j \in 1 .. n /\ j \in m + 1 .. n
          BY <5>2
        <5> QED BY <5>1, <5>3
      <4>2. y[j] = z[j] /\ z[j] \in Cluster /\ u.fat[z[j]] # FREE /\ u.data[z[j]] = Zeroed
        BY <1>2, <1>8, <2>13, <4>1
      <4> QED BY <2>18, <4>2
    <3> QED BY <3>1, <3>2
  <2>25. w \in Grown(v, way, depth, orphans, t, k, i + 1)
    BY <2>13, <2>15, <2>19, <2>20, <2>21, <2>22, <2>23, <2>24, Zenon DEF Grown
  <2> QED BY <2>7, <2>25
<1> QED BY <1>13, <1>14

LEMMA ExtendedGrown ==
  ASSUME NEW v, NEW way, NEW depth, NEW orphans, Sound(v, way, depth, orphans),
         NEW t \in Slots(v), NEW k \in Nat, NEW c, c = way[t][1]
  PROVE  Extended(v, c, k) \in Grown(v, way, depth, orphans, t, k, k)
<1> DEFINE P(i) == Grown(v, way, depth, orphans, t, k, i)
           R == [i \in 0 .. k |-> P(i)]
           G == [p \in Vols \X (1 .. k) |-> Longer(p[1], c, k)]
           grown[i \in 0 .. k] ==
             IF i = 0 THEN v
             ELSE LET u == grown[i - 1]
                  IN  IF Length(u, c) >= k \/ FreeClusters(u) = {} THEN u
                      ELSE [Allocated(u, << >>) EXCEPT !.fat[Kth(u, c, Length(u, c))] =
                                                         Lowest(FreeClusters(u))]
<1>1. v \in Vols /\ way \in [Slots(v) -> Seq(Cluster)] /\ way[t] \in Seq(Cluster) /\ Len(way[t]) \in Nat
  BY LaidParts DEF Sound
<1>2. v \in P(0)
  <2>1. PICK z \in Seq(Cluster) : z = way[t]
    BY <1>1
  <2>2. [way EXCEPT ![t] = z] = way
    BY <1>1, <2>1
  <2>3. Stays(v, v)
    BY DEF Stays
  <2>4. /\ Sound(v, [way EXCEPT ![t] = z], depth, orphans)
        /\ Len(z) >= Len(way[t]) /\ (Len(z) <= k \/ Len(z) = Len(way[t]))
        /\ Len(z) = Len(way[t]) => v = v
        /\ \A j \in 1 .. Len(way[t]) : z[j] = way[t][j]
        /\ \A j \in Len(way[t]) + 1 .. Len(z) : v.data[z[j]] = Zeroed
        /\ Len(z) >= k \/ FreeClusters(v) = {} \/ Len(z) = Len(way[t]) + 0
    <3>1. \A n \in Nat : n + 1 .. n = {} /\ n >= n /\ n = n + 0
      OBVIOUS
    <3> QED BY <1>1, <2>1, <2>2, <3>1
  <2> QED BY <1>1, <2>3, <2>4, Zenon DEF Grown
<1>3. \A i \in 1 .. k : \A u \in P(i - 1) : Longer(u, c, k) \in P(i)
  <2> SUFFICES ASSUME NEW i \in 1 .. k, NEW u \in P(i - 1)
               PROVE  Longer(u, c, k) \in P(i)
    OBVIOUS
  <2>1. PICK m \in Nat : m = i - 1 /\ i = m + 1
    OBVIOUS
  <2>2. u \in Grown(v, way, depth, orphans, t, k, m)
    BY <2>1
  <2>3. Longer(u, c, k) \in Grown(v, way, depth, orphans, t, k, m + 1)
    BY <2>2, GrowStep
  <2> QED BY <2>1, <2>3
<1>4. Extended(v, c, k) = grown[k]
  BY Zenon DEF Extended
<1>5. \A i : P(i) \subseteq Vols
  BY DEF Grown
<1> HIDE DEF P
<1>6. /\ \A i \in 1 .. k : i - 1 \in 0 .. k /\ i \in 0 .. k /\ R[i - 1] = P(i - 1) /\ R[i] = P(i)
      /\ R[0] = P(0) /\ \A i \in 0 .. k : R[i] = P(i)
  OBVIOUS
<1>7. \A i \in 1 .. k : \A u \in P(i - 1) : G[<<u, i>>] = Longer(u, c, k)
  BY <1>5
<1> HIDE DEF R, G
<1>8. PICK w : IsTrace(w, R, v, k, G)
  <2>1. v \in R[0]
    BY <1>2, <1>6
  <2>2. \A i \in 1 .. k : \A a \in R[i - 1] : G[<<a, i>>] \in R[i]
    <3> SUFFICES ASSUME NEW i \in 1 .. k, NEW a \in R[i - 1]
                 PROVE  G[<<a, i>>] \in R[i]
      OBVIOUS
    <3>1. a \in P(i - 1) /\ R[i] = P(i)
      BY <1>6
    <3> QED BY <1>3, <1>7, <3>1
  <2> QED BY <2>1, <2>2, Trace
<1>9. grown = [i \in 0 .. k |-> IF i = 0 THEN v ELSE Longer(grown[i - 1], c, k)]
  <2> DEFINE Def(g) == [i \in 0 .. k |->
               IF i = 0 THEN v
               ELSE LET u == g[i - 1]
                    IN  IF Length(u, c) >= k \/ FreeClusters(u) = {} THEN u
                        ELSE [Allocated(u, << >>) EXCEPT !.fat[Kth(u, c, Length(u, c))] =
                                                           Lowest(FreeClusters(u))]]
  <2>1. \A g : Def(g) = [i \in 0 .. k |-> IF i = 0 THEN v ELSE Longer(g[i - 1], c, k)]
    BY Zenon DEF Longer
  <2>2. w = Def(w)
    <3>1. ASSUME NEW i \in 0 .. k
          PROVE  w[i] = IF i = 0 THEN v ELSE Longer(w[i - 1], c, k)
      <4>1. CASE i = 0
        BY <1>8, <4>1 DEF IsTrace
      <4>2. CASE i # 0
        <5>1. i \in 1 .. k /\ i - 1 \in 0 .. k
          BY <4>2
        <5>2. w[i - 1] \in P(i - 1) /\ w[i] = G[<<w[i - 1], i>>]
          BY <1>6, <1>8, <5>1 DEF IsTrace
        <5> QED BY <1>7, <4>2, <5>1, <5>2
      <4> QED BY <4>1, <4>2
    <3>2. w = [i \in 0 .. k |-> w[i]]
      BY <1>8 DEF IsTrace
    <3> HIDE DEF Def
    <3>3. [i \in 0 .. k |-> w[i]] = [i \in 0 .. k |-> IF i = 0 THEN v ELSE Longer(w[i - 1], c, k)]
      BY <3>1
    <3> QED BY <2>1, <3>2, <3>3
  <2>3. grown = Def(grown)
    BY <2>2, Zenon
  <2> HIDE DEF grown, Def
  <2> QED BY <2>1, <2>3
<1> HIDE DEF grown
<1> DEFINE Z == {i \in Nat : i <= k => grown[i] \in P(i)}
<1>10. 0 \in Z
  <2>1. 0 \in 0 .. k
    OBVIOUS
  <2> QED BY <1>2, <1>9, <2>1
<1>11. ASSUME NEW i \in Nat, i \in Z
       PROVE  i + 1 \in Z
  <2> SUFFICES ASSUME i + 1 <= k
               PROVE  grown[i + 1] \in P(i + 1)
    OBVIOUS
  <2>1. PICK m \in 1 .. k : m = i + 1 /\ m - 1 = i /\ m \in 0 .. k /\ m # 0
    OBVIOUS
  <2>2. grown[i] \in P(i)
    BY <1>11
  <2>3. grown[m] = Longer(grown[m - 1], c, k)
    BY <1>9, <2>1
  <2> QED BY <1>3, <2>1, <2>2, <2>3
<1> HIDE DEF Z
<1>12. k \in Z
  BY <1>10, <1>11, Induction
<1> QED BY <1>4, <1>12 DEF Z, P

\* ---- Slots ----

\* u is v with the entry e in the slot j of d.
Put(v, d, j, e, u) ==
  /\ u \in Vols /\ u.fat = v.fat /\ u.data = v.data /\ DirsOf(u) = DirsOf(v)
  /\ \A x \in Place : /\ x # d => u.slots[x] = v.slots[x]
                      /\ u.slots[x] # << >> <=> v.slots[x] # << >>
  /\ Len(u.slots[d]) = Len(v.slots[d])
  /\ \A i \in 1 .. Len(v.slots[d]) : u.slots[d][i] = IF i = j THEN e ELSE v.slots[d][i]

LEMMA PutIs ==
  ASSUME NEW v \in Vols, NEW d \in Place, NEW j \in 1 .. Len(v.slots[d]), NEW e \in SlotType,
         e.name = UNUSED => v.slots[d][j].name = UNUSED,
         e.name # UNUSED => \A i \in 1 .. j - 1 : v.slots[d][i].name # UNUSED,
         NEW u, u = [v EXCEPT !.slots[d][j] = e]
  PROVE  Put(v, d, j, e, u)
<1>1. /\ v.fat \in [Cluster -> Link] /\ v.slots \in [Place -> Listing]
      /\ v.data \in [Cluster -> [Ptr -> {0, 1, OLD}]]
      /\ v = [fat |-> v.fat, slots |-> v.slots, data |-> v.data]
  BY VolParts
<1>2. PICK old : old = v.slots[d]
  OBVIOUS
<1>3. old \in Seq(SlotType) /\ Len(old) \in Nat /\ Solid(old) /\ j \in 1 .. Len(old)
  BY <1>1, <1>2, ListingParts
<1>4. PICK new : new = [old EXCEPT ![j] = e]
  OBVIOUS
<1>5. /\ u.fat = v.fat /\ u.data = v.data /\ u.slots = [v.slots EXCEPT ![d] = new]
      /\ u = [fat |-> u.fat, slots |-> u.slots, data |-> u.data]
  BY <1>1, <1>2, <1>4
<1>6. /\ new \in Seq(SlotType) /\ Len(new) = Len(old)
      /\ \A i \in 1 .. Len(old) : new[i] = IF i = j THEN e ELSE old[i]
  BY <1>3, <1>4
<1>7. Solid(new)
  <2> SUFFICES ASSUME NEW i \in 1 .. Len(old), NEW k \in 1 .. Len(old), i < k, new[i].name = UNUSED
               PROVE  new[k].name = UNUSED
    BY <1>6 DEF Solid
  <2>1. old[i].name = UNUSED
    BY <1>2, <1>6
  <2>2. old[k].name = UNUSED
    BY <1>3, <2>1 DEF Solid
  <2>3. CASE k # j
    BY <1>6, <2>2, <2>3
  <2>4. CASE k = j
    <3>1. i \in 1 .. j - 1
      BY <2>4
    <3> QED BY <1>2, <1>6, <2>1, <2>4, <3>1
  <2> QED BY <2>3, <2>4
<1>8. new \in Listing
  BY <1>6, <1>7 DEF Listing
<1>9. u \in Vols
  <2>1. u.slots \in [Place -> Listing]
    BY <1>1, <1>5, <1>8
  <2> QED BY <1>1, <1>5, <2>1 DEF Vols
<1>10. \A x \in Place : u.slots[x] = IF x = d THEN new ELSE v.slots[x]
  BY <1>1, <1>5
<1>11. new # << >> /\ old # << >>
  BY <1>3, <1>6
<1>12. \A x \in Place : /\ x # d => u.slots[x] = v.slots[x]
                        /\ u.slots[x] # << >> <=> v.slots[x] # << >>
  BY <1>2, <1>10, <1>11
<1>13. DirsOf(u) = DirsOf(v)
  BY <1>5, <1>12 DEF DirsOf, Place
<1>14. /\ Len(u.slots[d]) = Len(v.slots[d])
       /\ \A i \in 1 .. Len(v.slots[d]) : u.slots[d][i] = IF i = j THEN e ELSE v.slots[d][i]
  BY <1>2, <1>6, <1>10
<1> QED BY <1>5, <1>9, <1>12, <1>13, <1>14 DEF Put

\* The volume is sound after a change of size, or of the name of a slot not in use.
Reslotted(v, way, depth, orphans, d, j, e, u) ==
  /\ Slots(u) = Slots(v)
  /\ \A s \in Slots(v) : At(u, s) = IF s = <<d, j>> THEN e ELSE At(v, s)
  /\ Sound(u, way, depth, orphans)

LEMMA PutSound ==
  ASSUME NEW v, NEW way, NEW depth, NEW orphans, Sound(v, way, depth, orphans),
         NEW d \in Place, NEW j \in 1 .. Len(v.slots[d]), NEW e, NEW u, Put(v, d, j, e, u),
         e.first = v.slots[d][j].first, e.dir = v.slots[d][j].dir,
         e.name = v.slots[d][j].name \/ (e.name \in Bare /\ v.slots[d][j].name \in Bare)
  PROVE  Reslotted(v, way, depth, orphans, d, j, e, u)
<1>1. /\ u \in Vols /\ u.fat = v.fat /\ DirsOf(u) = DirsOf(v)
      /\ \A x \in Place : /\ x # d => u.slots[x] = v.slots[x]
                          /\ u.slots[x] # << >> <=> v.slots[x] # << >>
      /\ Len(u.slots[d]) = Len(v.slots[d])
      /\ \A i \in 1 .. Len(v.slots[d]) : u.slots[d][i] = IF i = j THEN e ELSE v.slots[d][i]
  BY DEF Put
<1>2. v \in Vols /\ Laid(v, way, orphans) /\ Shaped(v) /\ Nested(v, depth) /\ FirstShown(v)
  BY DEF Sound
<1>3. \A x \in Place : Len(u.slots[x]) = Len(v.slots[x])
  BY <1>1
<1>4. ASSUME NEW x \in Place, NEW i \in 1 .. Len(v.slots[x])
      PROVE  /\ u.slots[x][i].first = v.slots[x][i].first /\ u.slots[x][i].dir = v.slots[x][i].dir
             /\ u.slots[x][i].name = v.slots[x][i].name
                  \/ (u.slots[x][i].name \in Bare /\ v.slots[x][i].name \in Bare)
             /\ u.slots[x][i] = IF <<x, i>> = <<d, j>> THEN e ELSE v.slots[x][i]
  <2>1. CASE x = d /\ i = j
    BY <1>1, <2>1
  <2>2. CASE ~ (x = d /\ i = j)
    BY <1>1, <2>2
  <2> QED BY <2>1, <2>2
<1>5. \A x \in Place : \A i \in 1 .. Len(v.slots[x]) :
        /\ u.slots[x][i].name \in Name <=> v.slots[x][i].name \in Name
        /\ \A n \in Dots : u.slots[x][i].name = n <=> v.slots[x][i].name = n
  <2> SUFFICES ASSUME NEW x \in Place, NEW i \in 1 .. Len(v.slots[x])
               PROVE  /\ u.slots[x][i].name \in Name <=> v.slots[x][i].name \in Name
                      /\ \A n \in Dots : u.slots[x][i].name = n <=> v.slots[x][i].name = n
    OBVIOUS
  <2>1. PICK a, b : a = u.slots[x][i].name /\ b = v.slots[x][i].name
    OBVIOUS
  <2>2. a = b \/ (a \in Bare /\ b \in Bare)
    BY <1>4, <2>1
  <2>3. (a \in Name <=> b \in Name) /\ \A n \in Dots : a = n <=> b = n
    BY <2>2, Constants
  <2> QED BY <2>1, <2>3
<1>6. DirsOf(v) \subseteq Place /\ \A s : s \in Place \X Nat => s[1] \in Place /\ s = <<s[1], s[2]>>
  BY DEF DirsOf, Place
<1>7. Slots(u) = Slots(v)
  BY <1>1, <1>3, <1>5, <1>6 DEF Slots
<1>8. ASSUME NEW s \in Slots(v)
      PROVE  /\ At(u, s).first = At(v, s).first /\ (At(u, s).dir <=> At(v, s).dir)
             /\ At(u, s) = IF s = <<d, j>> THEN e ELSE At(v, s)
  <2>1. s[1] \in Place /\ s[2] \in 1 .. Len(v.slots[s[1]]) /\ s = <<s[1], s[2]>>
    BY SlotParts
  <2> QED BY <1>4, <2>1 DEF At
<1>9. Laid(u, way, orphans)
  <2>1. \A c \in Cluster : Covered(v, way, c) =>
           u.fat[c] = v.fat[c] /\ (u.slots[c] # << >> <=> v.slots[c] # << >>)
    BY <1>1 DEF Place
  <2>2. \A c \in Cluster : u.fat[c] # FREE => c \in orphans \/ Covered(v, way, c)
    BY <1>1, <1>2 DEF Laid
  <2>3. \A c \in orphans : c \in Cluster /\ u.fat[c] = EOC /\ ~ Covered(v, way, c)
    BY <1>1, <1>2 DEF Laid
  <2> QED BY <1>2, <1>7, <1>8, <2>1, <2>2, <2>3, LaidKept
<1>10. Shaped(u)
  <2> SUFFICES ASSUME NEW x \in DirsOf(v)
               PROVE  /\ x # kRootCluster => Dotted(u.slots[x], x)
                      /\ \A i \in 1 .. Len(u.slots[x]) :
                           u.slots[x][i].name \in Dots => x # kRootCluster /\ i <= 2
    <3>1. u.slots[kRootCluster] # << >>
      BY <1>1, <1>2 DEF Shaped, Place
    <3> QED BY <1>1, <3>1 DEF Shaped
  <2>1. x \in Place /\ Len(u.slots[x]) = Len(v.slots[x])
    BY <1>3, <1>6
  <2>2. ASSUME x # kRootCluster
        PROVE  Dotted(u.slots[x], x)
    <3>1. Dotted(v.slots[x], x)
      BY <1>2, <2>2 DEF Shaped
    <3>2. Len(v.slots[x]) \in Nat
      BY <1>2, <2>1, VolParts, ListingParts
    <3>3. 1 \in 1 .. Len(v.slots[x]) /\ 2 \in 1 .. Len(v.slots[x])
      BY <3>1, <3>2 DEF Dotted
    <3>4. "." \in Dots /\ ".." \in Dots
      BY DEF Dots
    <3>5. u.slots[x][1].name = "." /\ u.slots[x][2].name = ".."
      BY <1>5, <2>1, <3>1, <3>3, <3>4 DEF Dotted
    <3>6. /\ u.slots[x][1].dir = v.slots[x][1].dir /\ u.slots[x][1].first = v.slots[x][1].first
          /\ u.slots[x][2].dir = v.slots[x][2].dir
      BY <1>4, <2>1, <3>3
    <3> QED BY <2>1, <3>1, <3>5, <3>6 DEF Dotted
  <2>3. ASSUME NEW i \in 1 .. Len(u.slots[x]), u.slots[x][i].name \in Dots
        PROVE  x # kRootCluster /\ i <= 2
    <3>1. v.slots[x][i].name \in Dots
      BY <1>5, <2>1, <2>3
    <3> QED BY <1>2, <2>1, <3>1 DEF Shaped
  <2> QED BY <2>2, <2>3
<1>11. Nested(u, depth)
  <2>1. depth \in [Place -> Nat] /\ depth[kRootCluster] = 0
    BY <1>2 DEF Nested
  <2>2. ASSUME NEW s \in Slots(v), At(v, s).dir
        PROVE  /\ u.slots[At(v, s).first][2].first = s[1]
               /\ depth[At(v, s).first] = depth[s[1]] + 1
    <3>1. PICK c : c = At(v, s).first
      OBVIOUS
    <3>2. c \in Cluster /\ c \in DirsOf(v)
      BY <1>2, <2>2, <3>1, EntryFirst
    <3>3. c # kRootCluster /\ c \in Place
      BY <3>2, Constants DEF Place
    <3>4. Dotted(v.slots[c], c)
      BY <1>2, <3>2, <3>3 DEF Shaped
    <3>5. Len(v.slots[c]) \in Nat
      BY <1>2, <3>3, VolParts, ListingParts
    <3>6. 2 \in 1 .. Len(v.slots[c])
      BY <3>4, <3>5 DEF Dotted
    <3>7. u.slots[c][2].first = v.slots[c][2].first
      BY <1>4, <3>3, <3>6
    <3> QED BY <1>2, <2>2, <3>1, <3>7 DEF Nested
  <2> QED BY <1>7, <1>8, <2>1, <2>2 DEF Nested
<1>12. FirstShown(u)
  <2> SUFFICES ASSUME NEW s \in Slots(v), ~ At(v, s).dir, NEW i \in 1 .. s[2] - 1
               PROVE  u.slots[s[1]][i].dir \/ u.slots[s[1]][i].first # At(v, s).first
    BY <1>7, <1>8 DEF FirstShown
  <2>1. s[1] \in Place /\ s[2] \in 1 .. Len(v.slots[s[1]])
    BY SlotParts
  <2>2. Len(v.slots[s[1]]) \in Nat
    BY <1>2, <2>1, VolParts, ListingParts
  <2>3. i \in 1 .. Len(v.slots[s[1]])
    BY <2>1, <2>2
  <2>4. v.slots[s[1]][i].dir \/ v.slots[s[1]][i].first # At(v, s).first
    BY <1>2 DEF FirstShown
  <2> QED BY <1>4, <2>1, <2>3, <2>4
<1> QED BY <1>1, <1>7, <1>8, <1>9, <1>10, <1>11, <1>12 DEF Sound, Reslotted

\* u is v with the entry e of the cluster c in the first slot of d that is not in
\* use, be it behind the end of v.
Entered(v, c, d, j, e, u) ==
  /\ d \in DirsOf(v) /\ d # c
  /\ e \in SlotType /\ e.name \in Name /\ e.first = c
  /\ e.dir <=> v.slots[c] # << >>
  /\ e.dir => v.slots[c][2].first = d
  /\ \A s \in Slots(v) : s[1] # c
  /\ u \in Vols /\ u.fat = v.fat
  /\ \A x \in Place : x # d => u.slots[x] = v.slots[x]
  /\ Len(u.slots[d]) >= Len(v.slots[d]) /\ j \in 1 .. Len(u.slots[d]) /\ u.slots[d][j] = e
  /\ \A i \in 1 .. Len(u.slots[d]) : i # j =>
       IF i <= Len(v.slots[d]) THEN u.slots[d][i] = v.slots[d][i] ELSE u.slots[d][i].name = UNUSED
  /\ j <= Len(v.slots[d]) => v.slots[d][j].name \in Bare
  /\ \A i \in 1 .. j - 1 : u.slots[d][i].name \notin Bare

Adopted(v, way, depth, c, d, j, e, u) ==
  /\ DirsOf(u) = DirsOf(v)
  /\ <<d, j>> \notin Slots(v) /\ Slots(u) = Slots(v) \cup {<<d, j>>}
  /\ \A s \in Slots(u) : At(u, s) = IF s = <<d, j>> THEN e ELSE At(v, s)
  /\ Sound(u, [s \in Slots(u) |-> IF s = <<d, j>> THEN <<c>> ELSE way[s]],
           [depth EXCEPT ![c] = depth[d] + 1], {})

LEMMA AdoptSound ==
  ASSUME NEW v, NEW way, NEW depth, NEW c, Sound(v, way, depth, {c}),
         NEW d, NEW j, NEW e, NEW u, Entered(v, c, d, j, e, u)
  PROVE  Adopted(v, way, depth, c, d, j, e, u)
<1> DEFINE new == [s \in Slots(u) |-> IF s = <<d, j>> THEN <<c>> ELSE way[s]]
           deep == [depth EXCEPT ![c] = depth[d] + 1]
<1>1. /\ d \in DirsOf(v) /\ d # c
      /\ e \in SlotType /\ e.name \in Name /\ e.first = c
      /\ e.dir <=> v.slots[c] # << >>
      /\ e.dir => v.slots[c][2].first = d
      /\ \A s \in Slots(v) : s[1] # c
      /\ u \in Vols /\ u.fat = v.fat
  BY DEF Entered
<1>2. /\ \A x \in Place : x # d => u.slots[x] = v.slots[x]
      /\ Len(u.slots[d]) >= Len(v.slots[d]) /\ j \in 1 .. Len(u.slots[d]) /\ u.slots[d][j] = e
      /\ \A i \in 1 .. Len(u.slots[d]) : i # j =>
           IF i <= Len(v.slots[d]) THEN u.slots[d][i] = v.slots[d][i] ELSE u.slots[d][i].name = UNUSED
      /\ j <= Len(v.slots[d]) => v.slots[d][j].name \in Bare
      /\ \A i \in 1 .. j - 1 : u.slots[d][i].name \notin Bare
  BY Zenon DEF Entered
<1>3. v \in Vols /\ Laid(v, way, {c}) /\ Shaped(v) /\ Nested(v, depth) /\ FirstShown(v)
  BY DEF Sound
<1>4. /\ c \in Cluster /\ v.fat[c] = EOC /\ ~ Covered(v, way, c)
      /\ \A s \in Slots(v) : \A i \in 1 .. Len(way[s]) : way[s][i] # c
  <2>1. c \in Cluster /\ v.fat[c] = EOC /\ ~ Covered(v, way, c)
    BY <1>3 DEF Laid
  <2> QED BY <2>1 DEF Covered
<1>5. /\ d \in Place /\ c \in Place /\ kRootCluster \in Place /\ DirsOf(v) \subseteq Place
      /\ Cluster \subseteq Place
  BY <1>1, <1>4 DEF DirsOf, Place
<1>6. Len(v.slots[d]) \in Nat /\ Len(u.slots[d]) \in Nat
  BY <1>1, <1>3, <1>5, VolParts, ListingParts
<1>7. \A x \in Cluster : u.slots[x] # << >> <=> v.slots[x] # << >>
  <2> SUFFICES ASSUME d \in Cluster
               PROVE  u.slots[d] # << >> /\ v.slots[d] # << >>
    BY <1>2, <1>5
  <2>1. v.slots[d] # << >>
    BY <1>1, Constants DEF DirsOf
  <2>2. u.slots[d] # << >>
    BY <1>2, <1>6
  <2> QED BY <2>1, <2>2
<1>8. DirsOf(u) = DirsOf(v)
  BY <1>1, <1>7 DEF DirsOf
<1>9. ASSUME NEW i \in 1 .. Len(u.slots[d]), i # j, u.slots[d][i].name \notin Bare
      PROVE  i \in 1 .. Len(v.slots[d]) /\ u.slots[d][i] = v.slots[d][i]
  <2>1. i <= Len(v.slots[d])
    BY <1>2, <1>9 DEF Bare
  <2> QED BY <1>2, <1>6, <1>9, <2>1
<1>10. ASSUME NEW i \in 1 .. Len(v.slots[d]), v.slots[d][i].name \notin Bare
       PROVE  i # j /\ i \in 1 .. Len(u.slots[d]) /\ u.slots[d][i] = v.slots[d][i]
  <2>1. i \in 1 .. Len(u.slots[d]) /\ i <= Len(v.slots[d])
    BY <1>2, <1>6
  <2>2. i # j
    BY <1>2, <1>10, <2>1
  <2> QED BY <1>2, <2>1, <2>2
<1>11. \A n \in Name \cup Dots : n \notin Bare
  BY Constants
<1>12. <<d, j>> \notin Slots(v)
  <2> SUFFICES ASSUME <<d, j>> \in Slots(v)
               PROVE  FALSE
    OBVIOUS
  <2>1. j \in 1 .. Len(v.slots[d]) /\ v.slots[d][j].name \in Name
    BY DEF Slots
  <2> QED BY <1>2, <1>6, <1>11, <2>1
<1>13. Slots(u) = Slots(v) \cup {<<d, j>>}
  <2>1. ASSUME NEW s \in Slots(u), s # <<d, j>>
        PROVE  s \in Slots(v)
    <3>1. s = <<s[1], s[2]>> /\ s \in Place \X Nat /\ s[1] \in DirsOf(u)
          /\ s[2] \in 1 .. Len(u.slots[s[1]]) /\ u.slots[s[1]][s[2]].name \in Name
      BY DEF Slots
    <3>2. CASE s[1] = d
      <4>1. s[2] # j /\ u.slots[d][s[2]].name \notin Bare /\ s[2] \in 1 .. Len(u.slots[d])
        BY <1>11, <2>1, <3>1, <3>2
      <4>2. s[2] \in 1 .. Len(v.slots[d]) /\ u.slots[d][s[2]] = v.slots[d][s[2]]
        BY <1>9, <4>1
      <4> QED BY <1>8, <3>1, <3>2, <4>2 DEF Slots
    <3>3. CASE s[1] # d
      <4>1. u.slots[s[1]] = v.slots[s[1]]
        BY <1>2, <1>5, <1>8, <3>1, <3>3
      <4> QED BY <1>8, <3>1, <4>1 DEF Slots
    <3> QED BY <3>2, <3>3
  <2>2. ASSUME NEW s \in Slots(v)
        PROVE  s \in Slots(u)
    <3>1. s \in Place \X Nat /\ s[1] \in DirsOf(v)
          /\ s[2] \in 1 .. Len(v.slots[s[1]]) /\ v.slots[s[1]][s[2]].name \in Name
      BY DEF Slots
    <3>2. CASE s[1] = d
      <4>1. s[2] \in 1 .. Len(u.slots[d]) /\ u.slots[d][s[2]] = v.slots[d][s[2]]
        BY <1>10, <1>11, <3>1, <3>2
      <4> QED BY <1>8, <3>1, <3>2, <4>1 DEF Slots
    <3>3. CASE s[1] # d
      <4>1. u.slots[s[1]] = v.slots[s[1]]
        BY <1>2, <1>5, <3>1, <3>3
      <4> QED BY <1>8, <3>1, <4>1 DEF Slots
    <3> QED BY <3>2, <3>3
  <2>3. <<d, j>> \in Slots(u)
    <3>1. j \in Nat /\ d \in Place /\ d \in DirsOf(u) /\ u.slots[d][j].name \in Name
      BY <1>1, <1>2, <1>5, <1>6, <1>8
    <3> QED BY <1>2, <3>1 DEF Slots
  <2> QED BY <2>1, <2>2, <2>3
<1>14. ASSUME NEW s \in Slots(v)
       PROVE  s # <<d, j>> /\ At(u, s) = At(v, s)
  <2>1. s[1] \in Place /\ s[2] \in 1 .. Len(v.slots[s[1]]) /\ v.slots[s[1]][s[2]].name \in Name
    BY SlotParts
  <2>2. CASE s[1] = d
    <3>1. u.slots[d][s[2]] = v.slots[d][s[2]]
      BY <1>10, <1>11, <2>1, <2>2
    <3> QED BY <1>12, <2>2, <3>1 DEF At
  <2>3. CASE s[1] # d
    BY <1>2, <1>12, <2>1, <2>3 DEF At
  <2> QED BY <2>2, <2>3
<1>15. At(u, <<d, j>>) = e
  BY <1>2 DEF At
<1>16. /\ \A s \in Slots(v) : new[s] = way[s]
       /\ new[<<d, j>>] = <<c>>
       /\ new \in [Slots(u) -> Seq(Cluster)]
  <2>1. way \in [Slots(v) -> Seq(Cluster)] /\ <<c>> \in Seq(Cluster)
    BY <1>3, <1>4, LaidParts
  <2> QED BY <1>13, <1>14, <2>1
<1> HIDE DEF new
<1>0. PICK one : one = <<c>>
  OBVIOUS
<1>27. Len(one) = 1 /\ one[1] = c /\ 1 .. Len(one) = {1} /\ new[<<d, j>>] = one
  BY <1>0, <1>16
<1>17. ASSUME NEW s \in Slots(u)
       PROVE  /\ Follows(u, new[s]) /\ new[s][1] = At(u, s).first
              /\ \A i \in 1 .. Len(new[s]) : u.slots[new[s][i]] # << >> <=> i = 1 /\ At(u, s).dir
  <2>1. CASE s \in Slots(v)
    <3>1. PICK w : w = way[s]
      OBVIOUS
    <3>2. /\ Follows(v, w) /\ w[1] = At(v, s).first
          /\ \A i \in 1 .. Len(w) :
               w[i] \in Cluster /\ (v.slots[w[i]] # << >> <=> i = 1 /\ At(v, s).dir)
      BY <1>3, <2>1, <3>1, LaidParts
    <3>3. Follows(u, w)
      BY <1>1, <3>2 DEF Follows
    <3>4. new[s] = w /\ At(u, s) = At(v, s)
      BY <1>14, <1>16, <2>1, <3>1
    <3> QED BY <1>7, <3>2, <3>3, <3>4
  <2>2. CASE s = <<d, j>>
    <3>2. new[s] = one
      BY <1>27, <2>2
    <3>3. Follows(u, one)
      BY <1>1, <1>4, <1>27 DEF Follows
    <3>4. u.slots[c] # << >> <=> e.dir
      BY <1>1, <1>4, <1>7
    <3> QED BY <1>1, <1>15, <1>27, <2>2, <3>2, <3>3, <3>4
  <2> QED BY <1>13, <2>1, <2>2
<1>18. Apart(u, new)
  <2> SUFFICES ASSUME NEW s \in Slots(u), NEW t \in Slots(u), NEW i \in 1 .. Len(new[s]),
                      NEW k \in 1 .. Len(new[t]), new[s][i] = new[t][k]
               PROVE  s = t /\ i = k
    BY DEF Apart
  <2>2. CASE s \in Slots(v) /\ t \in Slots(v)
    BY <1>3, <1>16, <2>2 DEF Laid, Apart
  <2>3. CASE s = <<d, j>> /\ t = <<d, j>>
    BY <1>27, <2>3
  <2>4. CASE s \in Slots(v) /\ t = <<d, j>>
    <3>1. new[t][k] = c
      BY <1>27, <2>4
    <3> QED BY <1>4, <1>16, <2>4, <3>1
  <2>5. CASE s = <<d, j>> /\ t \in Slots(v)
    <3>1. new[s][i] = c
      BY <1>27, <2>5
    <3> QED BY <1>4, <1>16, <2>5, <3>1
  <2> QED BY <1>13, <2>2, <2>3, <2>4, <2>5
<1>19. \A x \in Cluster : u.fat[x] # FREE => Covered(u, new, x)
  <2> SUFFICES ASSUME NEW x \in Cluster, v.fat[x] # FREE
               PROVE  Covered(u, new, x)
    BY <1>1
  <2>1. CASE x = c
    <3>1. <<d, j>> \in Slots(u)
      BY <1>13
    <3> QED BY <1>27, <2>1, <3>1 DEF Covered
  <2>2. CASE x # c
    <3>1. Covered(v, way, x)
      BY <1>3, <2>2 DEF Laid
    <3>2. PICK s \in Slots(v) : \E i \in 1 .. Len(way[s]) : x = way[s][i]
      BY <3>1 DEF Covered
    <3>3. s \in Slots(u) /\ new[s] = way[s]
      BY <1>13, <1>16
    <3> QED BY <3>2, <3>3 DEF Covered
  <2> QED BY <2>1, <2>2
<1>20. Laid(u, new, {})
  BY <1>16, <1>17, <1>18, <1>19 DEF Laid
<1>21. Shaped(u)
  <2> SUFFICES ASSUME NEW x \in DirsOf(v)
               PROVE  /\ x # kRootCluster => Dotted(u.slots[x], x)
                      /\ \A i \in 1 .. Len(u.slots[x]) :
                           u.slots[x][i].name \in Dots => x # kRootCluster /\ i <= 2
    <3>1. u.slots[kRootCluster] # << >>
      <4>1. CASE d = kRootCluster
        BY <1>2, <1>6, <4>1
      <4>2. CASE d # kRootCluster
        BY <1>2, <1>3, <1>5, <4>2 DEF Shaped
      <4> QED BY <4>1, <4>2
    <3> QED BY <1>8, <3>1 DEF Shaped
  <2>1. CASE x # d
    <3>1. u.slots[x] = v.slots[x]
      BY <1>2, <1>5, <2>1
    <3> QED BY <1>3, <3>1 DEF Shaped
  <2>2. CASE x = d
    <3>1. ASSUME d # kRootCluster
          PROVE  Dotted(u.slots[d], d)
      <4>1. Dotted(v.slots[d], d)
        BY <1>1, <1>3, <3>1 DEF Shaped
      <4>2. 1 \in 1 .. Len(v.slots[d]) /\ 2 \in 1 .. Len(v.slots[d]) /\ Len(u.slots[d]) >= 2
        BY <1>2, <1>6, <4>1 DEF Dotted
      <4>3. v.slots[d][1].name \notin Bare /\ v.slots[d][2].name \notin Bare
        BY <1>11, <4>1 DEF Dotted, Dots
      <4>4. u.slots[d][1] = v.slots[d][1] /\ u.slots[d][2] = v.slots[d][2]
        BY <1>10, <4>2, <4>3
      <4> QED BY <4>1, <4>2, <4>4 DEF Dotted
    <3>2. ASSUME NEW i \in 1 .. Len(u.slots[d]), u.slots[d][i].name \in Dots
          PROVE  d # kRootCluster /\ i <= 2
      <4>1. i # j /\ u.slots[d][i].name \notin Bare
        BY <1>1, <1>2, <1>11, <3>2, Constants
      <4>2. i \in 1 .. Len(v.slots[d]) /\ u.slots[d][i] = v.slots[d][i]
        BY <1>9, <4>1
      <4> QED BY <1>1, <1>3, <3>2, <4>2 DEF Shaped
    <3> QED BY <2>2, <3>1, <3>2
  <2> QED BY <2>1, <2>2
<1>22. /\ depth \in [Place -> Nat] /\ depth[kRootCluster] = 0
       /\ deep \in [Place -> Nat] /\ deep[c] = depth[d] + 1
       /\ \A x \in Place : x # c => deep[x] = depth[x]
  <2>1. depth \in [Place -> Nat] /\ depth[kRootCluster] = 0
    BY <1>3 DEF Nested
  <2>2. depth[d] + 1 \in Nat
    BY <1>5, <2>1
  <2> QED BY <1>5, <2>1, <2>2
<1> HIDE DEF deep
<1>23. Nested(u, deep)
  <2>1. deep[kRootCluster] = 0
    BY <1>4, <1>5, <1>22, Constants
  <2>2. ASSUME NEW s \in Slots(u), At(u, s).dir
        PROVE  /\ u.slots[At(u, s).first][2].first = s[1]
               /\ deep[At(u, s).first] = deep[s[1]] + 1
    <3>1. CASE s = <<d, j>>
      <4>1. u.slots[c] = v.slots[c] /\ e.dir
        BY <1>1, <1>2, <1>5, <1>15, <2>2, <3>1
      <4>2. s[1] = d /\ At(u, s).first = c /\ deep[d] = depth[d]
        BY <1>1, <1>5, <1>15, <1>22, <3>1
      <4> QED BY <1>1, <1>22, <4>1, <4>2
    <3>2. CASE s \in Slots(v)
      <4>1. PICK f : f = At(v, s).first
        OBVIOUS
      <4>2. At(u, s) = At(v, s) /\ At(v, s).dir
        BY <1>14, <2>2, <3>2
      <4>3. f \in Cluster /\ f \in DirsOf(v)
        BY <1>3, <3>2, <4>1, <4>2, EntryFirst
      <4>4. f # c
        <5>1. 1 \in 1 .. Len(way[s]) /\ way[s][1] = f
          BY <1>3, <3>2, <4>1, LaidParts
        <5> QED BY <1>4, <3>2, <5>1
      <4>5. v.slots[f][2].first = s[1] /\ depth[f] = depth[s[1]] + 1
        BY <1>3, <3>2, <4>1, <4>2 DEF Nested
      <4>6. s[1] \in Place /\ s[1] # c
        BY <1>1, <3>2, SlotParts
      <4>7. deep[f] = deep[s[1]] + 1
        BY <1>5, <1>22, <4>3, <4>4, <4>5, <4>6
      <4>8. u.slots[f][2] = v.slots[f][2]
        <5>1. CASE f # d
          BY <1>2, <1>5, <4>3, <5>1
        <5>2. CASE f = d
          <6>1. Dotted(v.slots[d], d)
            BY <1>3, <4>3, <5>2, Constants DEF Shaped
          <6>2. 2 \in 1 .. Len(v.slots[d]) /\ v.slots[d][2].name \notin Bare
            BY <1>6, <1>11, <6>1 DEF Dotted, Dots
          <6> QED BY <1>10, <5>2, <6>2
        <5> QED BY <5>1, <5>2
      <4> QED BY <4>1, <4>2, <4>5, <4>7, <4>8
    <3> QED BY <1>13, <3>1, <3>2
  <2> QED BY <1>22, <2>1, <2>2 DEF Nested
<1>24. FirstShown(u)
  <2> SUFFICES ASSUME NEW s \in Slots(u), ~ At(u, s).dir, NEW i \in 1 .. s[2] - 1
               PROVE  u.slots[s[1]][i].dir \/ u.slots[s[1]][i].first # At(u, s).first
    BY DEF FirstShown
  <2>1. CASE s \in Slots(v)
    <3>1. s[1] \in Place /\ s[2] \in 1 .. Len(v.slots[s[1]]) /\ At(u, s) = At(v, s)
          /\ Len(v.slots[s[1]]) \in Nat
      BY <1>3, <1>14, <2>1, SlotParts, VolParts, ListingParts
    <3>2. v.slots[s[1]][i].dir \/ v.slots[s[1]][i].first # At(v, s).first
      BY <1>3, <2>1, <3>1 DEF FirstShown
    <3>3. CASE s[1] # d
      BY <1>2, <3>1, <3>2, <3>3
    <3>4. CASE s[1] = d
      <4>1. CASE i = j
        <5>1. u.slots[s[1]][i].first = c
          BY <1>1, <1>2, <3>4, <4>1
        <5>2. 1 \in 1 .. Len(way[s]) /\ way[s][1] = At(v, s).first
          BY <1>3, <2>1, LaidParts
        <5> QED BY <1>4, <2>1, <3>1, <5>1, <5>2
      <4>2. CASE i # j
        <5>1. i <= Len(v.slots[d]) /\ i \in 1 .. Len(u.slots[d])
          BY <1>2, <1>6, <3>1, <3>4, SMTT(30)
        <5>2. u.slots[d][i] = v.slots[d][i]
          BY <1>2, <4>2, <5>1
        <5> QED BY <3>1, <3>2, <3>4, <5>2
      <4> QED BY <4>1, <4>2
    <3> QED BY <3>3, <3>4
  <2>2. CASE s = <<d, j>>
    <3>1. s[1] = d /\ s[2] = j /\ i \in 1 .. j - 1 /\ At(u, s).first = c
      BY <1>1, <1>15, <2>2
    <3>2. i \in 1 .. Len(u.slots[d]) /\ i # j /\ u.slots[d][i].name \notin Bare
      BY <1>2, <1>6, <3>1
    <3>3. i \in 1 .. Len(v.slots[d]) /\ u.slots[d][i] = v.slots[d][i]
      BY <1>9, <3>2
    <3>4. v.slots[d][i] \in SlotType
      BY <1>3, <1>5, <3>3, VolParts, ListingParts
    <3>5. CASE v.slots[d][i].name \in Name
      <4>1. PICK t : t = <<d, i>>
        OBVIOUS
      <4>2. t \in Slots(v) /\ At(v, t) = v.slots[d][i]
        BY <1>1, <1>5, <3>3, <3>5, <4>1 DEF Slots, At
      <4>3. 1 \in 1 .. Len(way[t]) /\ way[t][1] = At(v, t).first
        BY <1>3, <4>2, LaidParts
      <4> QED BY <1>4, <3>1, <3>3, <4>2, <4>3
    <3>6. CASE v.slots[d][i].name \in Dots
      <4>1. d # kRootCluster /\ i <= 2
        BY <1>1, <1>3, <3>3, <3>6 DEF Shaped
      <4>2. Dotted(v.slots[d], d)
        BY <1>1, <1>3, <4>1 DEF Shaped
      <4>3. i = 1 \/ i = 2
        BY <3>3, <4>1
      <4> QED BY <3>1, <3>3, <4>2, <4>3 DEF Dotted
    <3> QED BY <3>2, <3>3, <3>4, <3>5, <3>6 DEF SlotType
  <2> QED BY <1>13, <2>1, <2>2
<1>25. Sound(u, new, deep, {})
  BY <1>1, <1>20, <1>21, <1>23, <1>24 DEF Sound
<1>26. \A s \in Slots(u) : At(u, s) = IF s = <<d, j>> THEN e ELSE At(v, s)
  BY <1>13, <1>14, <1>15
<1> QED BY <1>8, <1>12, <1>13, <1>25, <1>26 DEF new, deep, Adopted

Clusters(w) == {w[i] : i \in 1 .. Len(w)}

\* u is v with the entry s deleted and its chain free.
Dropped(v, way, depth, s, u) ==
  /\ DirsOf(u) = DirsOf(v) \ {At(v, s).first}
  /\ Slots(u) = Slots(v) \ {s} /\ \A t \in Slots(u) : At(u, t) = At(v, t)
  /\ Sound(u, [t \in Slots(u) |-> way[t]], depth, {})

LEMMA DropSound ==
  ASSUME NEW v, NEW way, NEW depth, Sound(v, way, depth, {}), NEW s \in Slots(v),
         \A t \in Slots(v) : t[1] # At(v, s).first,
         NEW f, f.slots = v.slots,
         \A x \in Cluster : f.fat[x] = IF x \in Clusters(way[s]) THEN FREE ELSE v.fat[x],
         NEW u, Put(f, s[1], s[2], [At(v, s) EXCEPT !.name = DELETED], u)
  PROVE  Dropped(v, way, depth, s, u)
<1> DEFINE new == [t \in Slots(u) |-> way[t]]
           c == At(v, s).first
<1>1. PICK e : e = [At(v, s) EXCEPT !.name = DELETED]
  OBVIOUS
<1>2. /\ u \in Vols /\ u.fat = f.fat
      /\ \A x \in Place : /\ x # s[1] => u.slots[x] = v.slots[x]
                          /\ u.slots[x] # << >> <=> v.slots[x] # << >>
      /\ Len(u.slots[s[1]]) = Len(v.slots[s[1]])
      /\ \A i \in 1 .. Len(v.slots[s[1]]) : u.slots[s[1]][i] = IF i = s[2] THEN e ELSE v.slots[s[1]][i]
  BY <1>1 DEF Put
<1>3. v \in Vols /\ Laid(v, way, {}) /\ Shaped(v) /\ Nested(v, depth) /\ FirstShown(v) /\ Apart(v, way)
  BY DEF Sound, Laid
<1>4. /\ s = <<s[1], s[2]>> /\ s[1] \in Place /\ s[1] \in DirsOf(v)
      /\ s[2] \in 1 .. Len(v.slots[s[1]]) /\ At(v, s) = v.slots[s[1]][s[2]] /\ At(v, s).name \in Name
  BY SlotParts
<1>5. At(v, s) \in SlotType
  BY <1>3, <1>4, VolParts, ListingParts
<1>6. e.name = DELETED /\ e.first = c /\ e.dir = At(v, s).dir
  BY <1>1, <1>5 DEF SlotType
<1>7. ASSUME NEW x \in Place
      PROVE  /\ Len(u.slots[x]) = Len(v.slots[x])
             /\ \A i \in 1 .. Len(v.slots[x]) :
                  /\ u.slots[x][i] = IF <<x, i>> = s THEN e ELSE v.slots[x][i]
                  /\ u.slots[x][i].first = v.slots[x][i].first /\ u.slots[x][i].dir = v.slots[x][i].dir
  <2>1. CASE x = s[1]
    <3>1. Len(u.slots[x]) = Len(v.slots[x])
      BY <1>2, <2>1
    <3>2. ASSUME NEW i \in 1 .. Len(v.slots[x])
          PROVE  u.slots[x][i] = IF <<x, i>> = s THEN e ELSE v.slots[x][i]
      <4>1. <<x, i>> = s <=> i = s[2]
        BY <1>4, <2>1
      <4> QED BY <1>2, <2>1, <3>2, <4>1
    <3>3. s[2] = s[2] /\ v.slots[x][s[2]].first = e.first /\ v.slots[x][s[2]].dir = e.dir
      BY <1>4, <1>6, <2>1
    <3>4. \A i \in 1 .. Len(v.slots[x]) : <<x, i>> = s => i = s[2]
      BY <1>4
    <3> QED BY <3>1, <3>2, <3>3, <3>4
  <2>2. CASE x # s[1]
    BY <1>2, <1>4, <2>2
  <2> QED BY <2>1, <2>2
<1>8. /\ c \in Cluster /\ v.fat[c] # FREE /\ (At(v, s).dir <=> v.slots[c] # << >>)
      /\ \A t \in Slots(v) : At(v, t).first = c => t = s
  BY <1>3, EntryFirst
<1>9. /\ 1 \in 1 .. Len(way[s]) /\ way[s][1] = c
      /\ \A i \in 1 .. Len(way[s]) : v.slots[way[s][i]] # << >> => way[s][i] = c
  BY <1>3, LaidParts
<1>10. c \in Clusters(way[s]) /\ \A x \in Clusters(way[s]) : v.slots[x] # << >> => x = c
  BY <1>9 DEF Clusters
<1>11. Cluster \subseteq Place /\ DirsOf(v) \subseteq Place /\ kRootCluster \in Place /\ kRootCluster # c
  BY <1>8, Constants DEF DirsOf, Place
<1> HIDE DEF c
<1>12. DirsOf(u) = DirsOf(v) \ {c}
  <2>1. ASSUME NEW x \in Cluster
        PROVE  u.fat[x] # FREE /\ u.slots[x] # << >> <=> v.fat[x] # FREE /\ v.slots[x] # << >> /\ x # c
    <3>1. u.slots[x] # << >> <=> v.slots[x] # << >>
      BY <1>2, <1>11
    <3>2. u.fat[x] = IF x \in Clusters(way[s]) THEN FREE ELSE v.fat[x]
      BY <1>2
    <3> QED BY <1>10, <3>1, <3>2
  <2> QED BY <1>11, <2>1 DEF DirsOf
<1>14. DELETED \notin Name /\ DELETED \notin Dots /\ \A n \in Dots : n \notin Name
  BY Constants DEF Bare
<1>15. Slots(u) = Slots(v) \ {s}
  <2>1. ASSUME NEW t \in Slots(u)
        PROVE  t \in Slots(v) /\ t # s
    <3>1. t = <<t[1], t[2]>> /\ t \in Place \X Nat /\ t[1] \in DirsOf(u) /\ t[1] \in Place
          /\ t[2] \in 1 .. Len(u.slots[t[1]]) /\ u.slots[t[1]][t[2]].name \in Name
      BY DEF Slots
    <3>2. t[2] \in 1 .. Len(v.slots[t[1]])
          /\ u.slots[t[1]][t[2]] = IF t = s THEN e ELSE v.slots[t[1]][t[2]]
      BY <1>7, <3>1
    <3>3. t # s
      BY <1>6, <1>14, <3>1, <3>2
    <3> QED BY <1>12, <3>1, <3>2, <3>3 DEF Slots
  <2>2. ASSUME NEW t \in Slots(v), t # s
        PROVE  t \in Slots(u)
    <3>1. t = <<t[1], t[2]>> /\ t \in Place \X Nat /\ t[1] \in DirsOf(v) /\ t[1] \in Place
          /\ t[2] \in 1 .. Len(v.slots[t[1]]) /\ v.slots[t[1]][t[2]].name \in Name
      BY DEF Slots
    <3>2. t[1] # c
      BY DEF c
    <3>3. t[2] \in 1 .. Len(u.slots[t[1]]) /\ u.slots[t[1]][t[2]] = v.slots[t[1]][t[2]]
      BY <1>7, <2>2, <3>1
    <3> QED BY <1>12, <3>1, <3>2, <3>3 DEF Slots
  <2> QED BY <2>1, <2>2
<1>16. ASSUME NEW t \in Slots(u)
       PROVE  t \in Slots(v) /\ t # s /\ At(u, t) = At(v, t)
              /\ t[1] \in Place /\ t[2] \in 1 .. Len(v.slots[t[1]])
  <2>1. t \in Slots(v) /\ t # s
    BY <1>15
  <2>2. t = <<t[1], t[2]>> /\ t[1] \in Place /\ t[2] \in 1 .. Len(v.slots[t[1]])
    BY <2>1, SlotParts
  <2> QED BY <1>7, <2>1, <2>2 DEF At
<1>17. \A t \in Slots(u) : new[t] = way[t]
  OBVIOUS
<1>18. new \in [Slots(u) -> Seq(Cluster)]
  BY <1>3, <1>15, LaidParts
<1> HIDE DEF new
<1>19. ASSUME NEW t \in Slots(u), NEW i \in 1 .. Len(way[t])
       PROVE  way[t][i] \in Cluster /\ way[t][i] \notin Clusters(way[s])
  BY <1>3, <1>16, LaidParts DEF Apart, Clusters
<1>20. ASSUME NEW t \in Slots(u)
       PROVE  /\ Follows(u, new[t]) /\ new[t][1] = At(u, t).first
              /\ \A i \in 1 .. Len(new[t]) : u.slots[new[t][i]] # << >> <=> i = 1 /\ At(u, t).dir
  <2>1. PICK w : w = way[t]
    OBVIOUS
  <2>2. /\ Follows(v, w) /\ w[1] = At(v, t).first
        /\ \A i \in 1 .. Len(w) : w[i] \in Cluster /\ (v.slots[w[i]] # << >> <=> i = 1 /\ At(v, t).dir)
    BY <1>3, <1>16, <2>1, LaidParts
  <2>3. \A i \in 1 .. Len(w) : u.fat[w[i]] = v.fat[w[i]]
    BY <1>2, <1>19, <2>1
  <2>4. Follows(u, w)
    BY <2>2, <2>3 DEF Follows
  <2>5. new[t] = w /\ At(u, t) = At(v, t)
    BY <1>16, <1>17, <2>1
  <2> QED BY <1>2, <1>11, <2>2, <2>4, <2>5
<1>21. Apart(u, new)
  BY <1>3, <1>16, <1>17 DEF Apart
<1>22. ASSUME NEW x \in Cluster, u.fat[x] # FREE
       PROVE  Covered(u, new, x)
  <2>1. x \notin Clusters(way[s]) /\ v.fat[x] # FREE
    BY <1>2, <1>22
  <2>2. Covered(v, way, x)
    BY <1>3, <2>1 DEF Laid
  <2>3. PICK t \in Slots(v) : \E i \in 1 .. Len(way[t]) : x = way[t][i]
    BY <2>2 DEF Covered
  <2>4. t # s
    BY <2>1, <2>3 DEF Clusters
  <2>5. t \in Slots(u) /\ new[t] = way[t]
    BY <1>15, <1>17, <2>4
  <2> QED BY <2>3, <2>5 DEF Covered
<1>23. Laid(u, new, {})
  BY <1>18, <1>20, <1>21, <1>22 DEF Laid
<1>24. ASSUME NEW x \in Place, NEW i \in 1 .. Len(v.slots[x]), v.slots[x][i].name \in Dots
       PROVE  u.slots[x][i] = v.slots[x][i]
  BY <1>4, <1>7, <1>14, <1>24
<1>25. ASSUME NEW x \in DirsOf(v), x # kRootCluster
       PROVE  /\ Dotted(v.slots[x], x) /\ u.slots[x][1] = v.slots[x][1] /\ u.slots[x][2] = v.slots[x][2]
  <2>1. Dotted(v.slots[x], x)
    BY <1>3, <1>25 DEF Shaped
  <2>2. x \in Place /\ Len(v.slots[x]) \in Nat
    BY <1>3, <1>11, VolParts, ListingParts
  <2>3. 1 \in 1 .. Len(v.slots[x]) /\ 2 \in 1 .. Len(v.slots[x])
        /\ v.slots[x][1].name \in Dots /\ v.slots[x][2].name \in Dots
    BY <2>1, <2>2 DEF Dotted, Dots
  <2> QED BY <1>24, <2>1, <2>2, <2>3
<1>26. Shaped(u)
  <2> SUFFICES ASSUME NEW x \in DirsOf(v)
               PROVE  /\ x # kRootCluster => Dotted(u.slots[x], x)
                      /\ \A i \in 1 .. Len(u.slots[x]) :
                           u.slots[x][i].name \in Dots => x # kRootCluster /\ i <= 2
    <3>1. u.slots[kRootCluster] # << >>
      BY <1>2, <1>3 DEF Shaped, Place
    <3> QED BY <1>12, <3>1 DEF Shaped
  <2>1. x \in Place /\ Len(u.slots[x]) = Len(v.slots[x])
    BY <1>7, <1>11
  <2>2. x # kRootCluster => Dotted(u.slots[x], x)
    BY <1>25, <2>1 DEF Dotted
  <2>3. ASSUME NEW i \in 1 .. Len(u.slots[x]), u.slots[x][i].name \in Dots
        PROVE  x # kRootCluster /\ i <= 2
    <3>1. i \in 1 .. Len(v.slots[x]) /\ u.slots[x][i] = IF <<x, i>> = s THEN e ELSE v.slots[x][i]
      BY <1>7, <2>1
    <3>2. u.slots[x][i] = v.slots[x][i]
      BY <1>6, <1>14, <2>3, <3>1
    <3> QED BY <1>3, <2>3, <3>1, <3>2 DEF Shaped
  <2> QED BY <2>2, <2>3
<1>27. Nested(u, depth)
  <2>1. depth \in [Place -> Nat] /\ depth[kRootCluster] = 0
    BY <1>3 DEF Nested
  <2>2. ASSUME NEW t \in Slots(u), At(u, t).dir
        PROVE  /\ u.slots[At(u, t).first][2].first = t[1]
               /\ depth[At(u, t).first] = depth[t[1]] + 1
    <3>1. PICK x : x = At(v, t).first
      OBVIOUS
    <3>2. t \in Slots(v) /\ At(u, t) = At(v, t)
      BY <1>16
    <3>3. x \in Cluster /\ x \in DirsOf(v)
      BY <1>3, <2>2, <3>1, <3>2, EntryFirst
    <3>4. u.slots[x][2] = v.slots[x][2]
      BY <1>25, <3>3, Constants
    <3> QED BY <1>3, <2>2, <3>1, <3>2, <3>4 DEF Nested
  <2> QED BY <2>1, <2>2 DEF Nested
<1>28. FirstShown(u)
  <2> SUFFICES ASSUME NEW t \in Slots(u), ~ At(u, t).dir, NEW i \in 1 .. t[2] - 1
               PROVE  u.slots[t[1]][i].dir \/ u.slots[t[1]][i].first # At(u, t).first
    BY DEF FirstShown
  <2>1. t \in Slots(v) /\ At(u, t) = At(v, t) /\ t[1] \in Place /\ t[2] \in 1 .. Len(v.slots[t[1]])
    BY <1>16
  <2>2. Len(v.slots[t[1]]) \in Nat
    BY <1>3, <2>1, VolParts, ListingParts
  <2>3. i \in 1 .. Len(v.slots[t[1]])
    BY <2>1, <2>2
  <2>4. v.slots[t[1]][i].dir \/ v.slots[t[1]][i].first # At(v, t).first
    BY <1>3, <2>1 DEF FirstShown
  <2> QED BY <1>7, <2>1, <2>3, <2>4
<1>29. Sound(u, new, depth, {})
  BY <1>2, <1>23, <1>26, <1>27, <1>28 DEF Sound
<1> QED BY <1>12, <1>15, <1>16, <1>29 DEF new, c, Dropped

\* u is v with the chain of s cut behind its first cluster.
Cut(v, way, depth, s, u) ==
  /\ DirsOf(u) = DirsOf(v) /\ Slots(u) = Slots(v) /\ \A t \in Slots(v) : At(u, t) = At(v, t)
  /\ Sound(u, [way EXCEPT ![s] = <<At(v, s).first>>], depth, {})

LEMMA CutSound ==
  ASSUME NEW v, NEW way, NEW depth, Sound(v, way, depth, {}), NEW s \in Slots(v), ~ At(v, s).dir,
         NEW u, u \in Vols, u.slots = v.slots,
         \A x \in Cluster : u.fat[x] = IF x = At(v, s).first THEN EOC
                                       ELSE IF x \in Clusters(way[s]) THEN FREE ELSE v.fat[x]
  PROVE  Cut(v, way, depth, s, u)
<1> DEFINE c == At(v, s).first
<1>1. PICK one : one = <<c>>
  OBVIOUS
<1>2. PICK new : new = [way EXCEPT ![s] = one]
  OBVIOUS
<1>3. v \in Vols /\ Laid(v, way, {}) /\ Apart(v, way)
  BY DEF Sound, Laid
<1>4. /\ c \in Cluster
      /\ 1 \in 1 .. Len(way[s]) /\ way[s][1] = c
      /\ \A i \in 1 .. Len(way[s]) : way[s][i] \in Cluster /\ v.slots[way[s][i]] = << >>
  BY <1>3, LaidParts
<1>5. way \in [Slots(v) -> Seq(Cluster)]
  BY <1>3, LaidParts
<1> HIDE DEF c
<1>6. Len(one) = 1 /\ one[1] = c /\ 1 .. Len(one) = {1} /\ one \in Seq(Cluster)
  BY <1>1, <1>4
<1>7. new \in [Slots(v) -> Seq(Cluster)] /\ new[s] = one /\ \A t \in Slots(v) : t # s => new[t] = way[t]
  BY <1>2, <1>5, <1>6
<1>8. \A x \in Cluster : u.fat[x] = IF x = c THEN EOC
                                    ELSE IF x \in Clusters(way[s]) THEN FREE ELSE v.fat[x]
  BY DEF c
<1>9. c \in Clusters(way[s]) /\ \A x \in Clusters(way[s]) : v.slots[x] = << >>
  BY <1>4 DEF Clusters
<1>10. \A x \in Cluster : v.slots[x] # << >> => (u.fat[x] # FREE <=> v.fat[x] # FREE)
  BY <1>8, <1>9
<1>11. DirsOf(u) = DirsOf(v)
  BY <1>10 DEF DirsOf
<1>12. Slots(u) = Slots(v)
  BY <1>11, Zenon DEF Slots
<1>13. \A t : At(u, t) = At(v, t)
  BY DEF At
<1>14. ASSUME NEW t \in Slots(v), t # s, NEW i \in 1 .. Len(way[t])
       PROVE  way[t][i] \in Cluster /\ way[t][i] \notin Clusters(way[s])
  BY <1>3, <1>14, LaidParts DEF Apart, Clusters
<1>15. ASSUME NEW t \in Slots(u)
       PROVE  /\ Follows(u, new[t]) /\ new[t][1] = At(u, t).first
              /\ \A i \in 1 .. Len(new[t]) : u.slots[new[t][i]] # << >> <=> i = 1 /\ At(u, t).dir
  <2>1. CASE t = s
    <3>1. Follows(u, one)
      BY <1>4, <1>6, <1>8 DEF Follows
    <3>2. new[t] = one /\ ~ At(u, t).dir /\ u.slots[c] = << >> /\ At(u, t).first = c
      BY <1>4, <1>7, <1>9, <1>13, <2>1 DEF c
    <3> QED BY <1>6, <3>1, <3>2
  <2>2. CASE t # s
    <3>1. PICK w : w = way[t]
      OBVIOUS
    <3>2. /\ Follows(v, w) /\ w[1] = At(v, t).first
          /\ \A i \in 1 .. Len(w) : w[i] \in Cluster /\ (v.slots[w[i]] # << >> <=> i = 1 /\ At(v, t).dir)
      BY <1>3, <1>12, <3>1, LaidParts
    <3>3. \A i \in 1 .. Len(w) : u.fat[w[i]] = v.fat[w[i]]
      BY <1>8, <1>9, <1>12, <1>14, <2>2, <3>1
    <3>4. Follows(u, w)
      BY <3>2, <3>3 DEF Follows
    <3>5. new[t] = w /\ At(u, t) = At(v, t)
      BY <1>7, <1>12, <1>13, <2>2, <3>1
    <3> QED BY <3>2, <3>4, <3>5
  <2> QED BY <2>1, <2>2
<1>16. \A t \in Slots(v) : \A i \in 1 .. Len(new[t]) :
         i \in 1 .. Len(way[t]) /\ new[t][i] = way[t][i]
  <2> SUFFICES ASSUME NEW t \in Slots(v), NEW i \in 1 .. Len(new[t])
               PROVE  i \in 1 .. Len(way[t]) /\ new[t][i] = way[t][i]
    OBVIOUS
  <2>1. CASE t = s
    <3>1. i = 1
      BY <1>6, <1>7, <2>1
    <3> QED BY <1>4, <1>6, <1>7, <2>1, <3>1
  <2>2. CASE t # s
    BY <1>7, <2>2
  <2> QED BY <2>1, <2>2
<1>17. Apart(u, new)
  <2> SUFFICES ASSUME NEW t \in Slots(v), NEW r \in Slots(v), NEW i \in 1 .. Len(new[t]),
                      NEW j \in 1 .. Len(new[r]), new[t][i] = new[r][j]
               PROVE  t = r /\ i = j
    BY <1>12 DEF Apart
  <2>1. i \in 1 .. Len(way[t]) /\ j \in 1 .. Len(way[r]) /\ way[t][i] = way[r][j]
    BY <1>16
  <2> QED BY <1>3, <2>1 DEF Apart
<1>18. ASSUME NEW x \in Cluster, u.fat[x] # FREE
       PROVE  Covered(u, new, x)
  <2>1. CASE x = c
    BY <1>6, <1>7, <1>12, <2>1 DEF Covered
  <2>2. CASE x # c
    <3>1. x \notin Clusters(way[s]) /\ v.fat[x] # FREE
      BY <1>8, <1>18, <2>2
    <3>2. Covered(v, way, x)
      BY <1>3, <3>1 DEF Laid
    <3>3. PICK t \in Slots(v) : \E i \in 1 .. Len(way[t]) : x = way[t][i]
      BY <3>2 DEF Covered
    <3>4. t # s
      BY <3>1, <3>3 DEF Clusters
    <3>5. new[t] = way[t]
      BY <1>7, <3>4
    <3> QED BY <1>12, <3>3, <3>5 DEF Covered
  <2> QED BY <2>1, <2>2
<1>19. Laid(u, new, {})
  BY <1>7, <1>12, <1>15, <1>17, <1>18 DEF Laid
<1>20. Sound(u, new, depth, {})
  BY <1>10, <1>19, SoundKept
<1> QED BY <1>1, <1>2, <1>11, <1>12, <1>13, <1>20 DEF Cut, c

Freed(v, w, u) ==
  /\ u \in Vols /\ u.slots = v.slots /\ u.data = v.data
  /\ \A x \in Cluster : u.fat[x] = IF x \in Clusters(w) THEN FREE ELSE v.fat[x]

\* The walk that frees a chain reaches its end.
LEMMA FreeIs ==
  ASSUME NEW v, v \in Vols, NEW w \in Seq(Cluster), Follows(v, w), Len(w) <= GUARD,
         NEW u, u = free_cluster_chain(v, w[1])
  PROVE  Freed(v, w, u)
<1>1. /\ v.fat \in [Cluster -> Link] /\ v = [fat |-> v.fat, slots |-> v.slots, data |-> v.data]
  BY VolParts
<1>2. GUARD \in Nat /\ Len(w) \in Nat
  BY Constants
<1>3. Chain(v, w[1], GUARD) = {<<k, w[k]>> : k \in {k \in 1 .. Len(w) : k <= GUARD}}
  BY <1>1, <1>2, WayChain
<1>4. {k \in 1 .. Len(w) : k <= GUARD} = 1 .. Len(w)
  BY <1>2
<1>5. {p[2] : p \in Chain(v, w[1], GUARD)} = Clusters(w)
  <2>1. Chain(v, w[1], GUARD) = {<<k, w[k]>> : k \in 1 .. Len(w)}
    BY <1>3, <1>4
  <2> DEFINE P == Chain(v, w[1], GUARD)
  <2>2. \A k \in 1 .. Len(w) : <<k, w[k]>> \in P /\ <<k, w[k]>>[2] = w[k]
    BY <2>1
  <2>3. \A p \in P : \E k \in 1 .. Len(w) : p[2] = w[k]
    BY <2>1
  <2> HIDE DEF P
  <2>4. {p[2] : p \in P} = {w[k] : k \in 1 .. Len(w)}
    <3>1. ASSUME NEW k \in 1 .. Len(w)
          PROVE  \E p \in P : w[k] = p[2]
      <4>1. <<k, w[k]>> \in P /\ w[k] = <<k, w[k]>>[2]
        BY <2>2
      <4> QED BY <4>1, Zenon
    <3>2. \A x : x \in {p[2] : p \in P} => x \in {w[k] : k \in 1 .. Len(w)}
      BY <2>3
    <3>3. \A x : x \in {w[k] : k \in 1 .. Len(w)} => x \in {p[2] : p \in P}
      BY <3>1
    <3> QED BY <3>2, <3>3
  <2> QED BY <2>4 DEF Clusters, P
<1>6. u = [v EXCEPT !.fat = [x \in Cluster |-> IF x \in Clusters(w) THEN FREE ELSE v.fat[x]]]
  BY <1>5 DEF free_cluster_chain
<1>7. /\ u.fat = [x \in Cluster |-> IF x \in Clusters(w) THEN FREE ELSE v.fat[x]]
      /\ u.slots = v.slots /\ u.data = v.data
      /\ u = [fat |-> u.fat, slots |-> u.slots, data |-> u.data]
  BY <1>1, <1>6
<1>8. u.fat \in [Cluster -> Link]
  BY <1>1, <1>7 DEF Link
<1>9. u \in Vols
  BY <1>7, <1>8 DEF Vols
<1> QED BY <1>7, <1>9 DEF Freed

LEMMA FreeNone ==
  ASSUME NEW v, v \in Vols, NEW c \in Link \ Cluster, NEW u, u = free_cluster_chain(v, c)
  PROVE  u = v
<1>1. /\ v.fat \in [Cluster -> Link] /\ v = [fat |-> v.fat, slots |-> v.slots, data |-> v.data]
  BY VolParts
<1>2. Chain(v, c, GUARD) = {}
  BY <1>1, Constants, NoChain
<1>3. u = [v EXCEPT !.fat = [x \in Cluster |-> v.fat[x]]]
  BY <1>2 DEF free_cluster_chain
<1>4. [x \in Cluster |-> v.fat[x]] = v.fat
  BY <1>1
<1> QED BY <1>1, <1>3, <1>4

\* O_TRUNC: the first cluster becomes the end of its chain, and the others are free.
Ended(v, c) == [v EXCEPT !.fat[c] = EOC]

Truncated(v, w, c, u) ==
  /\ u \in Vols /\ u.slots = v.slots /\ u.data = v.data
  /\ \A x \in Cluster : u.fat[x] = IF x = c THEN EOC
                                   ELSE IF x \in Clusters(w) THEN FREE ELSE v.fat[x]

LEMMA TruncIs ==
  ASSUME NEW v, v \in Vols, NEW w \in Seq(Cluster), Follows(v, w), Once(w), Len(w) <= GUARD,
         NEW c, c = w[1], NEW u, u = free_cluster_chain(Ended(v, c), v.fat[c])
  PROVE  Truncated(v, w, c, u)
<1>1. /\ v.fat \in [Cluster -> Link] /\ v = [fat |-> v.fat, slots |-> v.slots, data |-> v.data]
  BY VolParts
<1>2. /\ Len(w) \in Nat /\ Len(w) >= 1 /\ GUARD \in Nat
      /\ \A i \in 1 .. Len(w) :
           w[i] \in Cluster /\ v.fat[w[i]] = IF i < Len(w) THEN w[i + 1] ELSE EOC
  <2>1. Len(w) \in Nat /\ \A i \in 1 .. Len(w) : w[i] \in Cluster
    OBVIOUS
  <2>2. GUARD \in Nat
    BY Constants
  <2> QED BY <2>1, <2>2 DEF Follows
<1>3. c \in Cluster /\ 1 \in 1 .. Len(w)
  BY <1>2
<1>4. PICK f : f = Ended(v, c)
  OBVIOUS
<1>5. /\ f.fat = [v.fat EXCEPT ![c] = EOC] /\ f.slots = v.slots /\ f.data = v.data
      /\ f = [fat |-> f.fat, slots |-> f.slots, data |-> f.data]
  BY <1>1, <1>4 DEF Ended
<1>6. f \in Vols
  <2>1. f.fat \in [Cluster -> Link]
    BY <1>1, <1>3, <1>5 DEF Link
  <2> QED BY <1>5, <2>1 DEF Vols
<1>7. \A x \in Cluster : f.fat[x] = IF x = c THEN EOC ELSE v.fat[x]
  BY <1>1, <1>3, <1>5
<1>8. CASE Len(w) = 1
  <2>1. v.fat[c] = EOC
    BY <1>2, <1>3, <1>8
  <2>2. v.fat[c] \in Link \ Cluster
    BY <2>1, Constants DEF Link
  <2>3. u = f
    BY <1>4, <1>6, <2>2, FreeNone
  <2>4. \A x : x \in Clusters(w) => x = c
    BY <1>8 DEF Clusters
  <2> QED BY <1>5, <1>6, <1>7, <2>3, <2>4 DEF Truncated
<1>9. CASE Len(w) # 1
  <2>1. PICK n \in Nat \ {0} : n = Len(w) - 1 /\ Len(w) = n + 1
    <3>1. Len(w) - 1 \in Nat \ {0} /\ Len(w) = (Len(w) - 1) + 1
      BY <1>2, <1>9
    <3> QED BY <3>1
  <2>2. PICK y : y = [i \in 1 .. n |-> w[i + 1]]
    OBVIOUS
  <2>3. \A i \in 1 .. n : i + 1 \in 1 .. Len(w) /\ w[i + 1] \in Cluster /\ y[i] = w[i + 1]
    BY <1>2, <2>1, <2>2
  <2>4. y \in Seq(Cluster) /\ Len(y) = n
    BY <2>2, <2>3
  <2>5. ASSUME NEW i \in 1 .. n
        PROVE  y[i] # c /\ f.fat[y[i]] = IF i < n THEN y[i + 1] ELSE EOC
    <3>1. w[i + 1] # c
      <4>1. i + 1 \in 1 .. Len(w) /\ i + 1 # 1
        BY <2>3
      <4>2. w[i + 1] # w[1]
        BY <1>3, <4>1, Zenon DEF Once
      <4> QED BY <4>2
    <3>2. v.fat[w[i + 1]] = IF i + 1 < Len(w) THEN w[(i + 1) + 1] ELSE EOC
      BY <1>2, <2>3
    <3>3. i + 1 < Len(w) <=> i < n
      BY <2>1
    <3>4. i < n => y[i + 1] = w[(i + 1) + 1]
      BY <2>3
    <3> QED BY <1>7, <2>3, <3>1, <3>2, <3>3, <3>4
  <2>6. Follows(f, y)
    BY <2>1, <2>4, <2>5 DEF Follows
  <2>7. v.fat[c] = y[1]
    BY <1>2, <1>3, <2>1, <2>3
  <2>8. Len(y) <= GUARD
    BY <1>2, <2>1, <2>4
  <2>9. /\ u \in Vols /\ u.slots = f.slots /\ u.data = f.data
        /\ \A x \in Cluster : u.fat[x] = IF x \in Clusters(y) THEN FREE ELSE f.fat[x]
    <3>1. u = free_cluster_chain(f, y[1])
      BY <1>4, <2>7
    <3>2. y \in Seq(Cluster)
      BY <2>4
    <3>3. Freed(f, y, u)
      BY <1>6, <2>6, <2>8, <3>1, <3>2, FreeIs
    <3> QED BY <3>3 DEF Freed
  <2>10. \A x : x \in Clusters(w) <=> x = c \/ x \in Clusters(y)
    <3>1. ASSUME NEW i \in 1 .. Len(w)
          PROVE  w[i] = c \/ w[i] \in Clusters(y)
      <4>1. CASE i = 1
        BY <4>1
      <4>2. CASE i # 1
        <5>1. i - 1 \in 1 .. n /\ (i - 1) + 1 = i
          BY <2>1, <4>2
        <5>2. w[i] = y[i - 1]
          BY <2>3, <5>1
        <5> QED BY <2>4, <5>1, <5>2 DEF Clusters
      <4> QED BY <4>1, <4>2
    <3>2. \A i \in 1 .. n : y[i] \in Clusters(w)
      BY <2>3 DEF Clusters
    <3>3. c \in Clusters(w)
      BY <1>3 DEF Clusters
    <3> QED BY <2>4, <3>1, <3>2, <3>3 DEF Clusters
  <2>11. c \notin Clusters(y)
    BY <2>4, <2>5 DEF Clusters
  <2> QED BY <1>5, <1>7, <2>9, <2>10, <2>11 DEF Truncated
<1> QED BY <1>8, <1>9

\* ---- Paths ----

\* What is found of a name: nothing, or an entry of that name in the directory.
Find(d, n, dirs, e) ==
  \/ e = NoEntry
  \/ /\ e.first # NONE /\ (dirs => e.dir)
     /\ e.dir => e.first \in DirsOf(vol)
     /\ n \in Dots => e.dir
     /\ \E j \in 1 .. Len(vol.slots[d]) : e = vol.slots[d][j] /\ e.name = n

LEMMA FoundIs ==
  ASSUME Good(vol), NEW d \in DirsOf(vol), NEW n \in Part, NEW dirs \in BOOLEAN
  PROVE  Find(d, n, dirs, Found(d, n, dirs))
<1> DEFINE slots == vol.slots[d]
           named == {j \in Live(slots) : slots[j].name = n /\ (dirs => slots[j].dir)}
<1>1. Found(d, n, dirs) = IF named = {} THEN NoEntry ELSE slots[Lowest(named)]
  BY DEF Found
<1>2. CASE named = {}
  BY <1>1, <1>2 DEF Find
<1>3. CASE named # {}
  <2>1. PICK way, depth : Sound(vol, way, depth, {})
    BY DEF Good
  <2>2. vol \in Vols /\ Laid(vol, way, {}) /\ Shaped(vol) /\ Nested(vol, depth)
    BY <2>1 DEF Sound
  <2>3. d \in Place
    BY DEF DirsOf, Place
  <2>4. slots \in Listing /\ Len(slots) \in Nat
    BY <2>2, <2>3, VolParts, ListingParts
  <2>5. named = {j \in 1 .. Len(slots) : slots[j].name \notin Bare /\ slots[j].name = n /\ (dirs => slots[j].dir)}
    BY <2>4, LiveIs
  <2>6. named \subseteq Nat
    BY <2>4, <2>5
  <2>7. PICK j \in named : j = Lowest(named)
    BY <1>3, <2>6, LowestIs
  <2>8. PICK e : e = slots[j]
    OBVIOUS
  <2>9. Found(d, n, dirs) = e /\ j \in 1 .. Len(slots) /\ e.name = n /\ (dirs => e.dir)
    BY <1>1, <1>3, <2>5, <2>7, <2>8
  <2>10. e \in SlotType
    BY <2>4, <2>8, <2>9, ListingParts
  <2> HIDE DEF named
  <2>11. e.first \in Place /\ e.first # NONE
    BY <2>10, Constants DEF SlotType
  <2>12. CASE n \in Name
    <3>1. PICK s : s = <<d, j>>
      OBVIOUS
    <3>2. s \in Slots(vol) /\ At(vol, s) = e
      BY <2>3, <2>4, <2>8, <2>9, <2>12, <3>1 DEF Slots, At
    <3>3. e.dir => e.first \in DirsOf(vol)
      BY <2>2, <3>2, EntryFirst
    <3>4. n \notin Dots
      BY <2>12, Constants
    <3> QED BY <2>8, <2>9, <2>11, <3>3, <3>4 DEF Find
  <2>13. CASE n \in Dots
    <3>1. d # kRootCluster /\ j <= 2
      BY <2>2, <2>8, <2>9, <2>13 DEF Shaped
    <3>2. Dotted(slots, d) /\ (j = 1 \/ j = 2)
      BY <2>2, <2>9, <3>1 DEF Shaped
    <3>3. CASE j = 1
      <4>1. e.dir /\ e.first = d
        BY <2>8, <3>2, <3>3 DEF Dotted
      <4> QED BY <2>8, <2>9, <2>11, <4>1 DEF Find
    <3>4. CASE j = 2
      <4>1. e.dir
        BY <2>8, <3>2, <3>4 DEF Dotted
      <4>2. PICK s \in Slots(vol) : At(vol, s).first = d /\ At(vol, s).dir
        BY <2>1, <3>1, DirOwner
      <4>3. e.first = s[1] /\ s[1] \in DirsOf(vol)
        BY <2>2, <2>8, <3>4, <4>2, SlotParts DEF Nested
      <4> QED BY <2>8, <2>9, <2>11, <4>1, <4>3 DEF Find
    <3> QED BY <3>2, <3>3, <3>4
  <2> QED BY <2>12, <2>13 DEF Part, Dots
<1> QED BY <1>2, <1>3

\* One part of a path.
Hop(d, n) == IF d = NONE THEN NONE ELSE Found(d, n, TRUE).first

\* A function that goes down the parts of a path leads where the path leads.
LEMMA ThroughOf ==
  ASSUME NEW parts, Len(parts) \in Nat, NEW from, NEW w,
         w = [k \in 0 .. Len(parts) |-> w[k]], w[0] = from,
         \A k \in 1 .. Len(parts) : w[k] = Hop(w[k - 1], parts[k])
  PROVE  Through(parts, from) = w[Len(parts)]
<1> DEFINE n == Len(parts)
           at[k \in 0 .. Len(parts)] ==
             IF k = 0 THEN from
             ELSE LET d == at[k - 1] IN IF d = NONE THEN NONE ELSE Found(d, parts[k], TRUE).first
           Def(g) == [k \in 0 .. Len(parts) |->
             IF k = 0 THEN from
             ELSE LET d == g[k - 1] IN IF d = NONE THEN NONE ELSE Found(d, parts[k], TRUE).first]
<1>1. Through(parts, from) = at[Len(parts)]
  BY Zenon DEF Through
<1>2. \A g : Def(g) = [k \in 0 .. n |-> IF k = 0 THEN from ELSE Hop(g[k - 1], parts[k])]
  BY Zenon DEF Hop
<1>3. w = Def(w)
  <2>1. ASSUME NEW k \in 0 .. n
        PROVE  w[k] = IF k = 0 THEN from ELSE Hop(w[k - 1], parts[k])
    <3>1. CASE k = 0
      BY <3>1
    <3>2. CASE k # 0
      <4>1. k \in 1 .. n
        BY <3>2
      <4> QED BY <3>2, <4>1
    <3> QED BY <3>1, <3>2
  <2> HIDE DEF Def
  <2>2. [k \in 0 .. n |-> w[k]] = [k \in 0 .. n |-> IF k = 0 THEN from ELSE Hop(w[k - 1], parts[k])]
    BY <2>1
  <2> QED BY <1>2, <2>2
<1>4. at = Def(at)
  BY <1>3, Zenon
<1> HIDE DEF at, Def
<1>5. at = [k \in 0 .. n |-> IF k = 0 THEN from ELSE Hop(at[k - 1], parts[k])]
  BY <1>2, <1>4
<1> DEFINE Z == {k \in Nat : k <= n => at[k] = w[k]}
<1>6. 0 \in Z
  <2>1. 0 \in 0 .. n
    OBVIOUS
  <2> QED BY <1>5, <2>1
<1>7. ASSUME NEW k \in Nat, k \in Z
      PROVE  k + 1 \in Z
  <2> SUFFICES ASSUME k + 1 <= n
               PROVE  at[k + 1] = w[k + 1]
    OBVIOUS
  <2>1. PICK m \in 1 .. n : m = k + 1 /\ m - 1 = k /\ m \in 0 .. n /\ m # 0
    OBVIOUS
  <2>2. at[k] = w[k]
    BY <1>7
  <2>3. at[m] = Hop(at[m - 1], parts[m])
    BY <1>5, <2>1
  <2> QED BY <2>1, <2>2, <2>3
<1> HIDE DEF Z
<1>8. n \in Z
  BY <1>6, <1>7, Induction
<1> QED BY <1>1, <1>8 DEF Z

LEMMA HopIs ==
  ASSUME Good(vol), NEW d \in DirsOf(vol) \cup {NONE}, NEW n \in Part
  PROVE  Hop(d, n) \in DirsOf(vol) \cup {NONE}
<1>1. CASE d = NONE
  BY <1>1 DEF Hop
<1>2. CASE d # NONE
  <2>1. Find(d, n, TRUE, Found(d, n, TRUE))
    BY <1>2, FoundIs
  <2>2. NoEntry.first = NONE
    BY DEF NoEntry, Entry
  <2> QED BY <1>2, <2>1, <2>2 DEF Hop, Find
<1> QED BY <1>1, <1>2

\* The directories that a path goes through.
Trail(w, parts, from) ==
  /\ w = [k \in 0 .. Len(parts) |-> w[k]] /\ w[0] = from
  /\ \A k \in 0 .. Len(parts) : w[k] \in DirsOf(vol) \cup {NONE}
  /\ \A k \in 1 .. Len(parts) : w[k] = Hop(w[k - 1], parts[k])
  /\ Through(parts, from) = w[Len(parts)]

LEMMA ThroughTrail ==
  ASSUME Good(vol), NEW parts \in Seq(Part), NEW from \in DirsOf(vol) \cup {NONE}
  PROVE  \E w : Trail(w, parts, from)
<1> DEFINE n == Len(parts)
           D == DirsOf(vol) \cup {NONE}
           R == [k \in 0 .. n |-> D]
           G == [p \in D \X (1 .. n) |-> Hop(p[1], parts[p[2]])]
<1>1. n \in Nat /\ \A k \in 1 .. n : parts[k] \in Part
  OBVIOUS
<1>2. \A k \in 1 .. n : \A a \in D : Hop(a, parts[k]) \in D
  BY <1>1, HopIs
<1> HIDE DEF D
<1>3. /\ \A k \in 1 .. n : R[k - 1] = D /\ R[k] = D
      /\ \A k \in 0 .. n : R[k] = D
      /\ \A k \in 1 .. n : \A a \in D : G[<<a, k>>] = Hop(a, parts[k])
  BY <1>1
<1>4. 0 \in 0 .. n /\ from \in D
  BY <1>1 DEF D
<1> HIDE DEF R, G
<1>5. PICK w : IsTrace(w, R, from, n, G)
  <2>1. from \in R[0]
    BY <1>3, <1>4
  <2>2. \A k \in 1 .. n : \A a \in R[k - 1] : G[<<a, k>>] \in R[k]
    <3> SUFFICES ASSUME NEW k \in 1 .. n, NEW a \in R[k - 1]
                 PROVE  G[<<a, k>>] \in R[k]
      OBVIOUS
    <3>1. a \in D /\ R[k] = D
      BY <1>3
    <3> QED BY <1>2, <1>3, <3>1
  <2> QED BY <1>1, <2>1, <2>2, Trace
<1>6. /\ w = [k \in 0 .. n |-> w[k]] /\ w[0] = from
      /\ \A k \in 0 .. n : w[k] \in R[k]
      /\ \A k \in 1 .. n : w[k] = G[<<w[k - 1], k>>]
  BY <1>5, Zenon DEF IsTrace
<1>7. \A k \in 0 .. n : w[k] \in D
  BY <1>3, <1>6
<1>8. ASSUME NEW k \in 1 .. n
      PROVE  w[k] = Hop(w[k - 1], parts[k])
  <2>1. k - 1 \in 0 .. n
    OBVIOUS
  <2>2. w[k - 1] \in D
    BY <1>7, <2>1
  <2> QED BY <1>3, <1>6, <2>2
<1>9. Through(parts, from) = w[Len(parts)]
  BY <1>1, <1>6, <1>8, ThroughOf
<1> QED BY <1>6, <1>7, <1>8, <1>9 DEF Trail, D

LEMMA ThroughIs ==
  ASSUME Good(vol), NEW parts \in Seq(Part), NEW from \in DirsOf(vol) \cup {NONE}
  PROVE  Through(parts, from) \in DirsOf(vol) \cup {NONE}
<1>1. PICK w : Trail(w, parts, from)
  BY ThroughTrail
<1>2. Len(parts) \in 0 .. Len(parts)
  OBVIOUS
<1> QED BY <1>1, <1>2 DEF Trail

\* Where a path leads.
Leads(path) ==
  /\ Parent(path) \in DirsOf(vol) \cup {NONE}
  /\ path.parts = << >> => Target(path) \in DirsOf(vol) /\ Parent(path) = Target(path)
                           /\ basename(path) = UNUSED
  /\ path.parts # << >> =>
       /\ basename(path) \in Part
       /\ Target(path) = TargetEntry(path).first
       /\ Exists(path) => /\ Parent(path) \in DirsOf(vol)
                          /\ TargetEntry(path) # NoEntry
                          /\ Find(Parent(path), basename(path), FALSE, TargetEntry(path))

LEMMA PathLeads ==
  ASSUME Good(vol), cwd_cluster \in DirsOf(vol), NEW path \in Paths
  PROVE  Leads(path)
<1>1. path.parts \in Seq(Part)
  BY Fat16Assumption
<1>2. Start(path) \in DirsOf(vol)
  BY DEF Start, DirsOf
<1>3. NONE \notin DirsOf(vol)
  BY Constants DEF DirsOf, Place
<1>4. CASE path.parts = << >>
  <2>1. Parent(path) = Start(path) /\ Target(path) = Start(path) /\ basename(path) = UNUSED
    BY <1>4 DEF Parent, Target, basename
  <2> QED BY <1>2, <1>4, <2>1 DEF Leads
<1>5. CASE path.parts # << >>
  <2>1. PICK parts : parts = path.parts
    OBVIOUS
  <2>2. parts \in Seq(Part) /\ Len(parts) \in Nat \ {0}
    BY <1>1, <1>5, <2>1
  <2>3. basename(path) \in Part
    BY <1>5, <2>1, <2>2 DEF basename
  <2>4. PICK p : p = SubSeq(parts, 1, Len(parts) - 1)
    OBVIOUS
  <2>5. p \in Seq(Part)
    BY <2>2, <2>4
  <2>6. Parent(path) = Through(p, Start(path))
    BY <1>5, <2>1, <2>4 DEF Parent
  <2>7. Parent(path) \in DirsOf(vol) \cup {NONE}
    BY <1>2, <2>5, <2>6, ThroughIs
  <2>8. Target(path) = TargetEntry(path).first
    BY <1>5 DEF Target
  <2>9. ASSUME Exists(path)
        PROVE  /\ Parent(path) \in DirsOf(vol)
               /\ TargetEntry(path) # NoEntry
               /\ Find(Parent(path), basename(path), FALSE, TargetEntry(path))
    <3>1. NoEntry.first = NONE
      BY DEF NoEntry, Entry
    <3>2. TargetEntry(path).first # NONE
      BY <2>8, <2>9 DEF Exists
    <3>3. Parent(path) # NONE /\ TargetEntry(path) # NoEntry
          /\ TargetEntry(path) = Found(Parent(path), basename(path), FALSE)
      BY <3>1, <3>2 DEF TargetEntry
    <3>4. Find(Parent(path), basename(path), FALSE, TargetEntry(path))
      BY <2>3, <2>7, <3>3, FoundIs
    <3> QED BY <2>7, <3>3, <3>4
  <2> QED BY <1>5, <2>3, <2>7, <2>8, <2>9 DEF Leads
<1> QED BY <1>4, <1>5

\* ---- New entries ----

LEMMA NewBlockIs ==
  ASSUME NEW entries \in Seq(SlotType), Len(entries) <= ENTRIES,
         \A i \in 1 .. Len(entries) : entries[i].name # UNUSED, NEW b, b = NewBlock(entries)
  PROVE  /\ b \in Listing /\ Len(b) = ENTRIES
         /\ \A i \in 1 .. ENTRIES : IF i <= Len(entries) THEN b[i] = entries[i] ELSE b[i].name = UNUSED
<1>1. ENTRIES \in Nat /\ Len(entries) \in Nat
  BY Constants
<1>2. PICK n \in Nat : n = ENTRIES - Len(entries)
  BY <1>1
<1>3. PICK r : r = [j \in 1 .. n |-> Unused]
  OBVIOUS
<1>4. Unused \in SlotType /\ Unused.name = UNUSED
  <2>1. 0 \in Place /\ UNUSED \in Bare /\ 0 \in Nat
    BY DEF Place, kRootCluster, Bare
  <2> QED BY <2>1 DEF Unused, Entry, SlotType
<1>5. r \in Seq(SlotType) /\ Len(r) = n /\ \A j \in 1 .. n : r[j] = Unused
  BY <1>3, <1>4
<1>6. b = entries \o r
  BY <1>2, <1>3 DEF NewBlock
<1>7. /\ b \in Seq(SlotType) /\ Len(b) = Len(entries) + n
      /\ \A i \in 1 .. Len(entries) + n :
           b[i] = IF i <= Len(entries) THEN entries[i] ELSE r[i - Len(entries)]
  <2>1. r \in Seq(SlotType) /\ Len(r) = n
    BY <1>5
  <2>2. /\ b \in Seq(SlotType) /\ Len(b) = Len(entries) + Len(r)
        /\ \A i \in 1 .. Len(entries) + Len(r) :
             b[i] = IF i <= Len(entries) THEN entries[i] ELSE r[i - Len(entries)]
    BY <1>6, <2>1, ConcatProperties
  <2> QED BY <2>1, <2>2
<1>8. Len(entries) + n = ENTRIES
  BY <1>1, <1>2
<1>9. \A i \in 1 .. ENTRIES : IF i <= Len(entries) THEN b[i] = entries[i] ELSE b[i].name = UNUSED
  <2> SUFFICES ASSUME NEW i \in 1 .. ENTRIES, ~ (i <= Len(entries))
               PROVE  b[i].name = UNUSED
    BY <1>7, <1>8
  <2>1. i - Len(entries) \in 1 .. n
    BY <1>1, <1>8
  <2>2. r[i - Len(entries)] = Unused
    BY <1>5, <2>1
  <2> QED BY <1>4, <1>7, <1>8, <2>2
<1>10. Solid(b)
  <2> SUFFICES ASSUME NEW i \in 1 .. Len(b), NEW k \in 1 .. Len(b), i < k, b[i].name = UNUSED
               PROVE  b[k].name = UNUSED
    BY DEF Solid
  <2>1. i \in 1 .. ENTRIES /\ k \in 1 .. ENTRIES
    BY <1>7, <1>8
  <2>2. ~ (i <= Len(entries))
    BY <1>1, <1>9, <2>1
  <2>3. ~ (k <= Len(entries))
    BY <1>1, <2>1, <2>2
  <2> QED BY <1>9, <2>1, <2>3
<1> QED BY <1>7, <1>8, <1>9, <1>10 DEF Listing

\* u is v with the entry e in d.
Joined(v, d, e, u) ==
  /\ Good(u) /\ DirsOf(u) = DirsOf(v)
  /\ \E j \in Nat :
       /\ <<d, j>> \notin Slots(v) /\ Slots(u) = Slots(v) \cup {<<d, j>>}
       /\ At(u, <<d, j>>) = e
       /\ \A s \in Slots(v) : At(u, s) = At(v, s)

\* The entry e of the cluster c may go into d.
MayJoin(v, c, d, e) ==
  /\ d \in DirsOf(v) /\ d # c
  /\ e \in SlotType /\ e.name \in Name /\ e.first = c /\ e.size = 0
  /\ e.dir <=> v.slots[c] # << >>
  /\ e.dir => v.slots[c][2].first = d /\ Len(v.slots[c]) = ENTRIES
  /\ \A s \in Slots(v) : s[1] # c

LEMMA EnteredSized ==
  ASSUME NEW v, NEW way, NEW depth, NEW c, Sound(v, way, depth, {c}),
         NEW d, NEW j, NEW e, NEW u, Entered(v, c, d, j, e, u), MayJoin(v, c, d, e),
         \A s \in Slots(v) :
           LET room == Len(way[s]) * ENTRIES
           IN  IF At(v, s).dir THEN Len(u.slots[At(v, s).first]) = room ELSE At(v, s).size <= room
  PROVE  Joined(v, d, e, u)
<1> DEFINE new == [s \in Slots(u) |-> IF s = <<d, j>> THEN <<c>> ELSE way[s]]
           deep == [depth EXCEPT ![c] = depth[d] + 1]
<1>1. Adopted(v, way, depth, c, d, j, e, u)
  BY AdoptSound
<1>2. /\ DirsOf(u) = DirsOf(v) /\ <<d, j>> \notin Slots(v) /\ Slots(u) = Slots(v) \cup {<<d, j>>}
      /\ \A s \in Slots(u) : At(u, s) = IF s = <<d, j>> THEN e ELSE At(v, s)
      /\ Sound(u, new, deep, {})
  BY <1>1, Zenon DEF Adopted
<1>3. PICK one : one = <<c>>
  OBVIOUS
<1>4. new[<<d, j>>] = one /\ \A s \in Slots(v) : new[s] = way[s]
  BY <1>2, <1>3
<1> HIDE DEF new, deep
<1>5. Len(one) = 1 /\ ENTRIES \in Nat
  BY <1>3, Constants
<1>6. /\ e.first = c /\ e.size = 0 /\ d # c /\ j \in Nat
      /\ e.dir => Len(u.slots[c]) = ENTRIES
  <2>1. e.first = c /\ e.size = 0 /\ d # c /\ (e.dir => Len(v.slots[c]) = ENTRIES)
    BY DEF MayJoin
  <2>2. c \in Place
    BY DEF Sound, Laid, Place
  <2>3. u.slots[c] = v.slots[c] /\ j \in 1 .. Len(u.slots[d]) /\ d \in DirsOf(v) /\ u \in Vols
    BY <2>1, <2>2, Zenon DEF Entered
  <2>4. Len(u.slots[d]) \in Nat
    <3>1. d \in Place
      BY <2>3 DEF DirsOf, Place
    <3> QED BY <2>3, <3>1, VolParts, ListingParts
  <2> QED BY <2>1, <2>3, <2>4
<1>7. Sized(u, new)
  <2> SUFFICES ASSUME NEW s \in Slots(u)
               PROVE  LET room == Len(new[s]) * ENTRIES
                      IN  IF At(u, s).dir THEN Len(u.slots[At(u, s).first]) = room
                          ELSE At(u, s).size <= room
    BY DEF Sized
  <2>1. CASE s = <<d, j>>
    <3>1. Len(new[s]) * ENTRIES = ENTRIES /\ At(u, s) = e
      <4>1. Len(new[s]) = 1
        BY <1>4, <1>5, <2>1
      <4>2. 1 * ENTRIES = ENTRIES
        BY <1>5
      <4> QED BY <1>2, <2>1, <4>1, <4>2
    <3> QED BY <1>5, <1>6, <3>1
  <2>2. CASE s \in Slots(v)
    <3>1. new[s] = way[s] /\ At(u, s) = At(v, s)
      BY <1>2, <1>4, <2>2
    <3> QED BY <2>2, <3>1
  <2> QED BY <1>2, <2>1, <2>2
<1>8. Good(u)
  BY <1>2, <1>7 DEF Good
<1> QED BY <1>2, <1>6, <1>8 DEF Joined

LEMMA JoinVacant ==
  ASSUME NEW v, NEW way, NEW depth, NEW c, Sound(v, way, depth, {c}), Sized(v, way),
         NEW d, NEW e, MayJoin(v, c, d, e), Vacant(v.slots[d]) # {},
         NEW u, u = append_dir_entry(v, d, e)
  PROVE  Joined(v, d, e, u)
<1>1. v \in Vols /\ Laid(v, way, {c})
  BY DEF Sound
<1>2. /\ d \in DirsOf(v) /\ d # c /\ e \in SlotType /\ e.name \in Name /\ e.first = c
      /\ (e.dir <=> v.slots[c] # << >>) /\ (e.dir => v.slots[c][2].first = d)
      /\ \A s \in Slots(v) : s[1] # c
  BY DEF MayJoin
<1>3. d \in Place
  BY <1>2 DEF DirsOf, Place
<1>4. v.slots[d] \in Listing /\ Len(v.slots[d]) \in Nat
  BY <1>1, <1>3, VolParts, ListingParts
<1>5. PICK j : j = Lowest(Vacant(v.slots[d]))
  OBVIOUS
<1>6. Vacant(v.slots[d]) = {i \in 1 .. Len(v.slots[d]) : v.slots[d][i].name \in Bare}
  BY <1>4, LiveIs
<1>7. j \in Vacant(v.slots[d]) /\ \A i \in Vacant(v.slots[d]) : j <= i
  <2>1. Vacant(v.slots[d]) \subseteq Nat
    BY <1>4, <1>6
  <2> QED BY <1>5, <2>1, LowestIs
<1>8. j \in 1 .. Len(v.slots[d]) /\ v.slots[d][j].name \in Bare
  BY <1>6, <1>7
<1>9. ASSUME NEW i \in 1 .. j - 1
      PROVE  i \in 1 .. Len(v.slots[d]) /\ i # j /\ v.slots[d][i].name \notin Bare
  <2>1. i \in 1 .. Len(v.slots[d]) /\ ~ (j <= i) /\ i # j
    BY <1>4, <1>8
  <2> QED BY <1>6, <1>7, <2>1
<1>10. Put(v, d, j, e, u)
  <2>1. u = [v EXCEPT !.slots[d][j] = e]
    BY <1>5, Zenon DEF append_dir_entry
  <2>2. e.name # UNUSED
    BY <1>2, Constants DEF Bare
  <2>3. \A i \in 1 .. j - 1 : v.slots[d][i].name # UNUSED
    BY <1>9 DEF Bare
  <2> QED BY <1>1, <1>2, <1>3, <1>8, <2>1, <2>2, <2>3, PutIs
<1>11. /\ u \in Vols /\ u.fat = v.fat
       /\ \A x \in Place : x # d => u.slots[x] = v.slots[x]
       /\ Len(u.slots[d]) = Len(v.slots[d])
       /\ \A i \in 1 .. Len(v.slots[d]) : u.slots[d][i] = IF i = j THEN e ELSE v.slots[d][i]
  BY <1>10, Zenon DEF Put
<1>12. /\ Len(u.slots[d]) >= Len(v.slots[d]) /\ j \in 1 .. Len(u.slots[d]) /\ u.slots[d][j] = e
       /\ \A i \in 1 .. Len(u.slots[d]) : i # j => i <= Len(v.slots[d]) /\ u.slots[d][i] = v.slots[d][i]
       /\ \A i \in 1 .. j - 1 : u.slots[d][i].name \notin Bare
  BY <1>4, <1>8, <1>9, <1>11
<1>13. Entered(v, c, d, j, e, u)
  BY <1>2, <1>8, <1>11, <1>12, Zenon DEF Entered
<1>14. ASSUME NEW s \in Slots(v)
       PROVE  LET room == Len(way[s]) * ENTRIES
              IN  IF At(v, s).dir THEN Len(u.slots[At(v, s).first]) = room ELSE At(v, s).size <= room
  <2>1. At(v, s).first \in Place
    BY <1>1, EntryFirst DEF Place
  <2>2. Len(u.slots[At(v, s).first]) = Len(v.slots[At(v, s).first])
    BY <1>11, <2>1
  <2> QED BY <2>2 DEF Sized
<1> QED BY <1>13, <1>14, EnteredSized

LEMMA JoinLonger ==
  ASSUME NEW v, NEW way, NEW depth, NEW c, Sound(v, way, depth, {c}), Sized(v, way),
         NEW d, NEW e, MayJoin(v, c, d, e), Vacant(v.slots[d]) = {},
         d # kRootCluster, FreeClusters(v) # {},
         NEW u, u = append_dir_entry(v, d, e)
  PROVE  Joined(v, d, e, u)
<1>1. v \in Vols /\ Laid(v, way, {c})
  BY DEF Sound
<1>2. /\ d \in DirsOf(v) /\ d # c /\ e \in SlotType /\ e.name \in Name /\ e.first = c
      /\ (e.dir <=> v.slots[c] # << >>) /\ (e.dir => v.slots[c][2].first = d)
      /\ \A s \in Slots(v) : s[1] # c
  BY DEF MayJoin
<1>3. d \in Cluster /\ d \in Place /\ v.fat[d] # FREE /\ c \in Cluster /\ v.fat[c] # FREE
  <2>1. c \in Cluster /\ v.fat[c] = EOC
    BY <1>1 DEF Laid
  <2> QED BY <1>2, <2>1, Constants DEF DirsOf, Place
<1>4. PICK old : old = v.slots[d]
  OBVIOUS
<1>5. old \in Listing /\ old \in Seq(SlotType) /\ Len(old) \in Nat
  BY <1>1, <1>3, <1>4, VolParts, ListingParts
<1>6. \A i \in 1 .. Len(old) : old[i].name \notin Bare
  BY <1>4, <1>5, LiveIs
<1>7. PICK t \in Slots(v) : At(v, t).first = d /\ At(v, t).dir
  BY <1>2, DirOwner
<1>8. PICK y, n : y = way[t] /\ n = Len(y)
  OBVIOUS
<1>9. y \in Seq(Cluster) /\ n \in Nat /\ n >= 1 /\ y[1] = d /\ Follows(v, y) /\ Once(y)
  BY <1>1, <1>7, <1>8, LaidParts
<1>10. Length(v, d) = n
  <2>1. v.fat \in [Cluster -> Link]
    BY <1>1, VolParts
  <2>2. Length(v, y[1]) = Len(y)
    BY <1>9, <2>1, WayLength
  <2> QED BY <1>8, <1>9, <2>2
<1>11. PICK k \in Nat : k = n + 1
  BY <1>9
<1>12. PICK g : g = Extended(v, d, k)
  OBVIOUS
<1>13. g \in Grown(v, way, depth, {c}, t, k, k)
  BY <1>8, <1>9, <1>12, ExtendedGrown
<1>14. /\ g \in Vols /\ Stays(v, g) /\ DirsOf(g) = DirsOf(v)
       /\ Slots(g) = Slots(v) /\ \A s \in Slots(v) : At(g, s) = At(v, s)
  BY <1>13 DEF Grown
<1>15. PICK z \in Seq(Cluster) :
          /\ Sound(g, [way EXCEPT ![t] = z], depth, {c})
          /\ Len(z) >= Len(way[t]) /\ (Len(z) <= k \/ Len(z) = Len(way[t]))
          /\ Len(z) = Len(way[t]) => g = v
          /\ Len(z) >= k \/ FreeClusters(g) = {} \/ Len(z) = Len(way[t]) + k
  BY <1>13, Zenon DEF Grown
<1>16. Len(z) = n + 1
  <2>1. Len(z) \in Nat
    OBVIOUS
  <2>2. Len(z) # n
    <3> SUFFICES ASSUME Len(z) = n
                 PROVE  FALSE
      OBVIOUS
    <3>1. FreeClusters(g) # {}
      BY <1>8, <1>15
    <3> QED BY <1>8, <1>9, <1>11, <1>15, <3>1
  <2> QED BY <1>8, <1>9, <1>11, <1>15, <2>1, <2>2
<1>17. PICK new : new = [way EXCEPT ![t] = z]
  OBVIOUS
<1>18. Sound(g, new, depth, {c}) /\ new[t] = z /\ \A s \in Slots(v) : s # t => new[s] = way[s]
  BY <1>1, <1>15, <1>17, LaidParts
<1>19. /\ g.slots[d] = old /\ g.slots[c] = v.slots[c]
       /\ g.slots \in [Place -> Listing]
       /\ g = [fat |-> g.fat, slots |-> g.slots, data |-> g.data]
  BY <1>3, <1>4, <1>14, VolParts DEF Stays
<1>20. PICK one : one = <<e>>
  OBVIOUS
<1>21. one \in Seq(SlotType) /\ Len(one) = 1 /\ one[1] = e
  BY <1>2, <1>20
<1>22. e.name # UNUSED /\ e.name \notin Bare
  BY <1>2, Constants DEF Bare
<1>23. PICK b : b = NewBlock(one)
  OBVIOUS
<1>24. ENTRIES \in Nat /\ ENTRIES >= 2
  BY Constants
<1>25. /\ b \in Seq(SlotType) /\ Len(b) = ENTRIES
       /\ \A i \in 1 .. ENTRIES : IF i = 1 THEN b[i] = e ELSE b[i].name = UNUSED
  <2>1. Len(one) <= ENTRIES /\ \A i \in 1 .. Len(one) : one[i].name # UNUSED
    BY <1>21, <1>22, <1>24
  <2>2. /\ b \in Listing /\ Len(b) = ENTRIES
        /\ \A i \in 1 .. ENTRIES : IF i <= Len(one) THEN b[i] = one[i] ELSE b[i].name = UNUSED
    BY <1>21, <1>23, <2>1, NewBlockIs
  <2>3. \A i \in 1 .. ENTRIES : i <= Len(one) <=> i = 1
    BY <1>21
  <2> QED BY <1>21, <2>2, <2>3, ListingParts
<1>26. PICK l : l = old \o b
  OBVIOUS
<1>27. PICK m \in Nat : m = Len(old)
  BY <1>5
<1>28. /\ l \in Seq(SlotType) /\ Len(l) = m + ENTRIES
       /\ \A i \in 1 .. m + ENTRIES : l[i] = IF i <= m THEN old[i] ELSE b[i - m]
  BY <1>5, <1>25, <1>26, <1>27, ConcatProperties
<1>29. \A i \in 1 .. m + ENTRIES : ~ (i <= m) => IF i = m + 1 THEN l[i] = e ELSE l[i].name = UNUSED
  <2> SUFFICES ASSUME NEW i \in 1 .. m + ENTRIES, ~ (i <= m)
               PROVE  IF i = m + 1 THEN l[i] = e ELSE l[i].name = UNUSED
    OBVIOUS
  <2>1. PICK h \in 1 .. ENTRIES : h = i - m
    BY <1>24
  <2>2. l[i] = b[h] /\ (h = 1 <=> i = m + 1)
    BY <1>28, <2>1
  <2> QED BY <1>25, <2>2
<1>30. Solid(l)
  <2> SUFFICES ASSUME NEW i \in 1 .. Len(l), NEW h \in 1 .. Len(l), i < h, l[i].name = UNUSED
               PROVE  l[h].name = UNUSED
    BY DEF Solid
  <2>1. i \in 1 .. m + ENTRIES /\ h \in 1 .. m + ENTRIES
    BY <1>28
  <2>2. ~ (i <= m)
    <3> SUFFICES ASSUME i <= m
                 PROVE  FALSE
      OBVIOUS
    <3>1. i \in 1 .. Len(old) /\ l[i] = old[i]
      BY <1>27, <1>28, <2>1
    <3> QED BY <1>6, <3>1 DEF Bare
  <2>3. i # m + 1
    BY <1>22, <1>29, <2>1, <2>2
  <2>4. ~ (h <= m) /\ h # m + 1
    BY <2>1, <2>2, <2>3
  <2> QED BY <1>29, <2>1, <2>4
<1>31. l \in Listing
  BY <1>28, <1>30 DEF Listing
<1>32. u = [g EXCEPT !.slots[d] = l]
  BY <1>10, <1>11, <1>12, <1>19, <1>20, <1>23, <1>26 DEF append_dir_entry
<1>33. /\ u.fat = g.fat /\ u.slots = [g.slots EXCEPT ![d] = l] /\ u.data = g.data
       /\ u = [fat |-> u.fat, slots |-> u.slots, data |-> u.data]
  BY <1>19, <1>32
<1>34. u.slots[d] = l /\ \A x \in Place : x # d => u.slots[x] = g.slots[x]
  BY <1>3, <1>19, <1>33
<1>35. u \in Vols
  <2>1. u.slots \in [Place -> Listing]
    BY <1>19, <1>31, <1>33
  <2>2. u.fat \in [Cluster -> Link] /\ u.data \in [Cluster -> [Ptr -> {0, 1, OLD}]]
    BY <1>14, <1>33, VolParts
  <2> QED BY <1>33, <2>1, <2>2 DEF Vols
<1>36. PICK j \in Nat : j = m + 1
  OBVIOUS
<1>37. /\ Len(u.slots[d]) >= Len(g.slots[d]) /\ j \in 1 .. Len(u.slots[d]) /\ u.slots[d][j] = e
       /\ \A i \in 1 .. Len(u.slots[d]) : i # j =>
            IF i <= Len(g.slots[d]) THEN u.slots[d][i] = g.slots[d][i] ELSE u.slots[d][i].name = UNUSED
       /\ ~ (j <= Len(g.slots[d]))
       /\ \A i \in 1 .. j - 1 : u.slots[d][i].name \notin Bare
  <2>1. Len(l) = m + ENTRIES /\ m + ENTRIES >= m + 1 /\ Len(g.slots[d]) = m
    BY <1>19, <1>24, <1>27, <1>28
  <2>2. l[j] = e /\ j \in 1 .. Len(l) /\ ~ (j <= m)
    BY <1>24, <1>29, <1>36, <2>1
  <2>3. \A i \in 1 .. Len(l) : i # j => IF i <= m THEN l[i] = old[i] ELSE l[i].name = UNUSED
    BY <1>28, <1>29, <1>36, <2>1
  <2>4. ASSUME NEW i \in 1 .. j - 1
        PROVE  l[i].name \notin Bare
    <3>1. i \in 1 .. Len(old) /\ i <= m /\ i \in 1 .. m + ENTRIES
      BY <1>24, <1>27, <1>36
    <3> QED BY <1>6, <1>28, <3>1
  <2>5. Len(u.slots[d]) >= Len(g.slots[d])
    BY <1>34, <2>1, <1>24
  <2> QED BY <1>19, <1>34, <2>1, <2>2, <2>3, <2>4, <2>5
<1>38. MayJoin(g, c, d, e)
  BY <1>14, <1>19, Zenon DEF MayJoin
<1>39. Entered(g, c, d, j, e, u)
  <2>1. /\ d \in DirsOf(g) /\ (e.dir <=> g.slots[c] # << >>) /\ (e.dir => g.slots[c][2].first = d)
        /\ \A s \in Slots(g) : s[1] # c
    BY <1>2, <1>14, <1>19
  <2> QED BY <1>2, <1>33, <1>34, <1>35, <1>37, <2>1, Zenon DEF Entered
<1>40. ASSUME NEW s \in Slots(g)
       PROVE  LET room == Len(new[s]) * ENTRIES
              IN  IF At(g, s).dir THEN Len(u.slots[At(g, s).first]) = room ELSE At(g, s).size <= room
  <2>1. s \in Slots(v) /\ At(g, s) = At(v, s)
    BY <1>14
  <2>2. CASE s = t
    <3>1. Len(old) = n * ENTRIES
      BY <1>4, <1>7, <1>8 DEF Sized
    <3>2. n * ENTRIES + ENTRIES = (n + 1) * ENTRIES
      BY <1>9, <1>24
    <3>3. Len(u.slots[d]) = (n + 1) * ENTRIES
      BY <1>27, <1>28, <1>34, <3>1, <3>2
    <3> QED BY <1>7, <1>16, <1>18, <2>1, <2>2, <3>3
  <2>3. CASE s # t
    <3>1. At(v, s).first \in Cluster /\ At(v, s).first # d
      BY <1>1, <1>7, <2>1, <2>3, EntryFirst
    <3>2. v.fat[At(v, s).first] # FREE
      BY <1>1, <2>1, EntryFirst
    <3>3. u.slots[At(v, s).first] = v.slots[At(v, s).first]
      BY <1>14, <1>34, <3>1, <3>2 DEF Stays, Place
    <3> QED BY <1>18, <2>1, <2>3, <3>3 DEF Sized
  <2> QED BY <2>2, <2>3
<1>41. Joined(g, d, e, u)
  BY <1>18, <1>38, <1>39, <1>40, EnteredSized
<1> QED BY <1>14, <1>41 DEF Joined

\* ---- Steps ----

\* What a call does to the entries: it keeps them all,
Alike(v, u) ==
  /\ Slots(u) = Slots(v)
  /\ \A s \in Slots(v) : /\ At(u, s).name = At(v, s).name /\ At(u, s).dir = At(v, s).dir
                         /\ At(u, s).first = At(v, s).first

\* adds one, under what is kept of a name that its directory does not have,
Gains(v, u, s) ==
  /\ s \notin Slots(v) /\ Slots(u) = Slots(v) \cup {s} /\ \A t \in Slots(v) : At(u, t) = At(v, t)
  /\ s[1] \in DirsOf(v)
  /\ \E n \in Name : At(u, s).name = Short[n] /\ \A t \in Slots(v) : t[1] = s[1] => At(v, t).name # n

\* or takes one away that has nothing in it;
Loses(v, u, s) ==
  /\ s \in Slots(v) /\ Slots(u) = Slots(v) \ {s} /\ \A t \in Slots(u) : At(u, t) = At(v, t)
  /\ DirsOf(u) = DirsOf(v) \ {At(v, s).first}
  /\ \A t \in Slots(v) : t[1] # At(v, s).first

\* or none is left.
Outcome(v, u) ==
  Alike(v, u) \/ (\E s : Gains(v, u, s)) \/ (\E s : Loses(v, u, s)) \/ Slots(u) = {}

LEMMA SlotTyped ==
  ASSUME NEW v, Good(v), NEW s \in Slots(v)
  PROVE  At(v, s) \in SlotType /\ At(v, s).dir \in BOOLEAN
<1>1. s[1] \in Place /\ s[2] \in 1 .. Len(v.slots[s[1]]) /\ At(v, s) = v.slots[s[1]][s[2]]
  BY SlotParts
<1>2. At(v, s) \in SlotType
  BY <1>1, VolParts, ListingParts DEF Good, Sound
<1> QED BY <1>2 DEF SlotType

LEMMA NotFound ==
  ASSUME Good(vol), NEW d \in DirsOf(vol), NEW n \in Name, Found(d, n, FALSE).first = NONE
  PROVE  \A t \in Slots(vol) : t[1] = d => At(vol, t).name # n
<1> SUFFICES ASSUME NEW t \in Slots(vol), t[1] = d, At(vol, t).name = n
             PROVE  FALSE
  OBVIOUS
<1>1. PICK slots : slots = vol.slots[d]
  OBVIOUS
<1>2. slots \in Listing /\ Len(slots) \in Nat /\ \A j \in 1 .. Len(slots) : slots[j] \in SlotType
  <2>1. d \in Place /\ vol \in Vols
    BY DEF DirsOf, Place, Good, Sound
  <2> QED BY <1>1, <2>1, VolParts, ListingParts
<1>3. PICK named : named = {i \in Live(slots) : slots[i].name = n}
  OBVIOUS
<1>4. named \subseteq 1 .. Len(slots) /\ t[2] \in named
  <2>1. Live(slots) = {i \in 1 .. Len(slots) : slots[i].name \notin Bare}
    BY <1>2, LiveIs
  <2>2. n \notin Bare
    BY Constants
  <2>3. t[2] \in 1 .. Len(slots) /\ slots[t[2]].name = n
    BY <1>1, SlotParts
  <2> QED BY <1>3, <2>1, <2>2, <2>3
<1>5. Found(d, n, FALSE) = slots[Lowest(named)]
  <2>1. Found(d, n, FALSE) = IF named = {} THEN NoEntry ELSE slots[Lowest(named)]
    BY <1>1, <1>3 DEF Found
  <2> QED BY <1>4, <2>1
<1>6. Lowest(named) \in named
  <2>1. named \subseteq Nat
    BY <1>2, <1>4
  <2> QED BY <1>4, <2>1, LowestIs
<1>7. slots[Lowest(named)].first \in Place
  BY <1>2, <1>4, <1>6 DEF SlotType
<1> QED BY <1>5, <1>7, Constants

\* A step that leaves the descriptors and the entries of open files.
LEMMA StepKeeps ==
  ASSUME IInv, NEW u, u = vol', Good(u), cwd_cluster' \in DirsOf(u), ofile' = ofile,
         \A s \in Slots(vol) : OpenOn(At(vol, s).first) # {} => s \in Slots(u) /\ At(u, s) = At(vol, s)
  PROVE  IInv'
<1>1. ofile' \in [Fd -> FdType \cup {NoFile}]
  BY DEF IInv
<1>2. ASSUME NEW fd \in Fd, ofile[fd] # NoFile
      PROVE  OnFile(u, ofile[fd])
  <2>1. PICK s \in Slots(vol) : s[1] = ofile[fd].parent /\ ~ At(vol, s).dir
                                /\ At(vol, s).first = ofile[fd].first /\ ofile[fd].off <= At(vol, s).size
    BY <1>2 DEF IInv, OnFile
  <2>2. fd \in OpenOn(At(vol, s).first)
    BY <1>2, <2>1 DEF OpenOn
  <2>3. s \in Slots(u) /\ At(u, s) = At(vol, s)
    BY <2>2
  <2> QED BY <2>1, <2>3 DEF OnFile
<1> QED BY <1>1, <1>2 DEF IInv

\* What Enter needs of the block of the new entry.
Filled(path, dir, block, c) ==
  /\ block \in Listing /\ Fresh(block, c)
  /\ dir <=> block # << >>
  /\ dir => block[2].first = Parent(path) /\ Len(block) = ENTRIES

LEMMA EnterKeeps ==
  ASSUME IInv, Careful, NEW path \in Paths, NEW dir \in BOOLEAN, NEW block, NEW c,
         c = Lowest(FreeClusters(vol)), Filled(path, dir, block, c), Enter(path, dir, block)
  PROVE  IInv' /\ Outcome(vol, vol')
<1>1. PICK d : d = Parent(path)
  OBVIOUS
<1>2. PICK made : made = Allocated(vol, block)
  OBVIOUS
<1>3. PICK e : e = Entry(Kept(basename(path)), dir, c)
  OBVIOUS
<1>4. PICK u : u = vol'
  OBVIOUS
<1>5. /\ d # NONE /\ ~ Exists(path) /\ (basename(path) \in Dots => Takes("dot names"))
      /\ FreeClusters(vol) # {} /\ CanAppend(made, d)
      /\ u = append_dir_entry(made, d, e)
      /\ cwd_cluster' = cwd_cluster /\ ofile' = ofile
  BY <1>1, <1>2, <1>3, <1>4, Zenon DEF Enter, Dots
<1>6. Good(vol) /\ cwd_cluster \in DirsOf(vol)
  BY DEF IInv
<1>7. Leads(path)
  BY <1>6, PathLeads
<1>8. basename(path) \in Part /\ d \in DirsOf(vol) /\ path.parts # << >>
  <2>1. path.parts # << >>
    <3> SUFFICES ASSUME path.parts = << >>
                 PROVE  FALSE
      OBVIOUS
    <3>1. Target(path) \in DirsOf(vol)
      BY <1>7 DEF Leads
    <3>2. NONE \notin DirsOf(vol)
      BY Constants DEF DirsOf, Place
    <3> QED BY <1>5, <3>1, <3>2 DEF Exists
  <2> QED BY <1>1, <1>5, <1>7, <2>1 DEF Leads
<1>9. /\ basename(path) \in Name /\ Kept(basename(path)) = Short[basename(path)]
      /\ Kept(basename(path)) \in Name
  <2>1. basename(path) \notin Dots
    BY <1>5 DEF Careful, Takes
  <2>2. basename(path) \in Name
    BY <1>8, <2>1 DEF Part, Dots
  <2> QED BY <2>2, Fat16Assumption DEF Kept
<1>10. PICK way, depth : Sound(vol, way, depth, {}) /\ Sized(vol, way)
  BY <1>6 DEF Good
<1>11. block \in Listing /\ Fresh(block, c) /\ (dir <=> block # << >>)
       /\ (dir => block[2].first = d /\ Len(block) = ENTRIES)
  BY <1>1 DEF Filled
<1>12. Alloc(vol, way, depth, {}, block, c, made)
  BY <1>2, <1>5, <1>10, <1>11, AllocSound
<1>13. /\ c \in Cluster /\ vol.fat[c] = FREE
       /\ made.slots = [vol.slots EXCEPT ![c] = block]
       /\ Slots(made) = Slots(vol) /\ \A s \in Slots(vol) : At(made, s) = At(vol, s)
       /\ DirsOf(vol) \subseteq DirsOf(made)
       /\ Sound(made, way, depth, {} \cup {c})
  BY <1>12, Zenon DEF Alloc
<1>14. Sound(made, way, depth, {c})
  <2>1. {} \cup {c} = {c}
    OBVIOUS
  <2> QED BY <1>13, <2>1
<1>15. vol.slots \in [Place -> Listing]
  BY <1>10, VolParts DEF Sound
<1>16. made.slots[c] = block /\ \A x \in Place : x # c => made.slots[x] = vol.slots[x]
  BY <1>13, <1>15 DEF Place
<1>17. c \notin DirsOf(vol)
  BY <1>13, Constants DEF DirsOf
<1>18. /\ e \in SlotType /\ e.name \in Name /\ e.first = c /\ e.size = 0 /\ e.dir = dir
  <2>1. c \in Place /\ 0 \in Nat
    BY <1>13 DEF Place
  <2>2. e = [name |-> Kept(basename(path)), dir |-> dir, first |-> c, size |-> 0]
    BY <1>3 DEF Entry
  <2>3. PICK n : n = Kept(basename(path))
    OBVIOUS
  <2> QED BY <1>9, <2>1, <2>2, <2>3 DEF SlotType
<1>19. MayJoin(made, c, d, e)
  <2>1. \A s \in Slots(made) : s[1] # c
    BY <1>13, <1>17, SlotParts
  <2>2. d \in DirsOf(made) /\ d # c
    BY <1>8, <1>13, <1>17
  <2> QED BY <1>11, <1>16, <1>18, <2>1, <2>2 DEF MayJoin
<1>20. Sized(made, way)
  <2> SUFFICES ASSUME NEW s \in Slots(vol)
               PROVE  LET room == Len(way[s]) * ENTRIES
                      IN  IF At(vol, s).dir THEN Len(made.slots[At(vol, s).first]) = room
                          ELSE At(vol, s).size <= room
    BY <1>13 DEF Sized
  <2>1. At(vol, s).first \in Cluster /\ vol.fat[At(vol, s).first] # FREE
    BY <1>10, EntryFirst DEF Sound
  <2>2. made.slots[At(vol, s).first] = vol.slots[At(vol, s).first]
    BY <1>13, <1>16, <2>1 DEF Place
  <2> QED BY <1>10, <2>2 DEF Sized
<1>21. Joined(made, d, e, u)
  <2>1. CASE Vacant(made.slots[d]) # {}
    BY <1>5, <1>14, <1>19, <1>20, <2>1, JoinVacant
  <2>2. CASE Vacant(made.slots[d]) = {}
    <3>1. d # kRootCluster /\ FreeClusters(made) # {}
      BY <1>5, <2>2 DEF CanAppend
    <3> QED BY <1>5, <1>14, <1>19, <1>20, <2>2, <3>1, JoinLonger
  <2> QED BY <2>1, <2>2
<1>22. PICK j \in Nat :
         /\ Good(u) /\ DirsOf(u) = DirsOf(made)
         /\ <<d, j>> \notin Slots(made) /\ Slots(u) = Slots(made) \cup {<<d, j>>}
         /\ At(u, <<d, j>>) = e
         /\ \A s \in Slots(made) : At(u, s) = At(made, s)
  BY <1>21, Zenon DEF Joined
<1>23. cwd_cluster' \in DirsOf(u)
  BY <1>5, <1>6, <1>13, <1>22
<1>24. \A s \in Slots(vol) : s \in Slots(u) /\ At(u, s) = At(vol, s)
  BY <1>13, <1>22
<1>25. Outcome(vol, u)
  <2>1. PICK s : s = <<d, j>>
    OBVIOUS
  <2>2. /\ s \notin Slots(vol) /\ Slots(u) = Slots(vol) \cup {s} /\ s[1] = d
        /\ \A t \in Slots(vol) : At(u, t) = At(vol, t)
    BY <1>13, <1>22, <2>1
  <2>3. PICK n : n = basename(path)
    OBVIOUS
  <2>4. n \in Name /\ At(u, s).name = Short[n]
    <3>1. At(u, s) = e
      BY <1>22, <2>1
    <3>2. e.name = Kept(n)
      BY <1>3, <2>3 DEF Entry
    <3> QED BY <1>9, <2>3, <3>1, <3>2
  <2>5. Found(d, n, FALSE).first = NONE
    <3>1. Target(path) = NONE /\ Target(path) = TargetEntry(path).first
      BY <1>5, <1>8 DEF Exists, Target
    <3> QED BY <1>1, <1>5, <2>3, <3>1 DEF TargetEntry
  <2>6. \A t \in Slots(vol) : t[1] = d => At(vol, t).name # n
    BY <1>6, <1>8, <2>4, <2>5, NotFound
  <2>7. Gains(vol, u, s)
    BY <1>8, <2>2, <2>4, <2>6 DEF Gains
  <2> QED BY <2>7 DEF Outcome
<1>26. IInv'
  BY <1>4, <1>5, <1>22, <1>23, <1>24, StepKeeps
<1> QED BY <1>4, <1>25, <1>26

LEMMA CreateKeeps ==
  ASSUME IInv, Careful, NEW path \in Paths, Create(path)
  PROVE  IInv' /\ Outcome(vol, vol')
<1>1. PICK c : c = Lowest(FreeClusters(vol))
  OBVIOUS
<1>2. PICK block : block = << >>
  OBVIOUS
<1>3. Enter(path, FALSE, block)
  BY <1>2 DEF Create
<1>4. Filled(path, FALSE, block, c)
  <2>1. block \in Listing
    BY <1>2 DEF Listing, Solid
  <2> QED BY <1>2, <2>1 DEF Filled, Fresh
<1> QED BY <1>1, <1>3, <1>4, EnterKeeps

LEMMA MkdirKeeps ==
  ASSUME IInv, Careful, NEW path \in Paths, Mkdir(path)
  PROVE  IInv' /\ Outcome(vol, vol')
<1>1. PICK c : c = Lowest(FreeClusters(vol))
  OBVIOUS
<1>2. PICK dots : dots = <<Entry(".", TRUE, c), Entry("..", TRUE, Parent(path))>>
  OBVIOUS
<1>3. PICK block : block = NewBlock(dots)
  OBVIOUS
<1>4. Enter(path, TRUE, block)
  BY <1>1, <1>2, <1>3, Zenon DEF Mkdir
<1>5. Parent(path) \in Place /\ c \in Place
  <2>1. Good(vol) /\ cwd_cluster \in DirsOf(vol)
    BY DEF IInv
  <2>2. Leads(path)
    BY <2>1, PathLeads
  <2>3. Parent(path) # NONE /\ FreeClusters(vol) # {}
    BY <1>4 DEF Enter
  <2>4. Parent(path) \in DirsOf(vol)
    BY <2>2, <2>3 DEF Leads
  <2>5. FreeClusters(vol) \subseteq Nat
    BY Constants DEF FreeClusters
  <2>6. c \in FreeClusters(vol)
    BY <1>1, <2>3, <2>5, LowestIs
  <2> QED BY <2>4, <2>6 DEF DirsOf, Place, FreeClusters
<1>6. PICK a, b : a = Entry(".", TRUE, c) /\ b = Entry("..", TRUE, Parent(path))
  OBVIOUS
<1>7. /\ a \in SlotType /\ a.name = "." /\ a.dir /\ a.first = c
      /\ b \in SlotType /\ b.name = ".." /\ b.dir /\ b.first = Parent(path)
  <2>1. "." \in Dots /\ ".." \in Dots /\ 0 \in Nat /\ TRUE \in BOOLEAN
    BY DEF Dots
  <2> QED BY <1>5, <1>6, <2>1 DEF SlotType, Entry
<1>8. dots \in Seq(SlotType) /\ Len(dots) = 2 /\ dots[1] = a /\ dots[2] = b
  <2>1. dots = <<a, b>>
    BY <1>2, <1>6
  <2>2. a \in SlotType /\ b \in SlotType
    BY <1>7
  <2> QED BY <2>1, <2>2
<1>9. ENTRIES \in Nat /\ ENTRIES >= 2
  BY Constants
<1>10. \A i \in 1 .. 2 : dots[i].name \in Dots
  BY <1>7, <1>8 DEF Dots
<1>11. /\ block \in Listing /\ Len(block) = ENTRIES
       /\ \A i \in 1 .. ENTRIES : IF i <= 2 THEN block[i] = dots[i] ELSE block[i].name = UNUSED
  <2>1. \A i \in 1 .. Len(dots) : dots[i].name # UNUSED
    BY <1>8, <1>10, Constants DEF Bare
  <2>2. /\ block \in Listing /\ Len(block) = ENTRIES
        /\ \A i \in 1 .. ENTRIES : IF i <= Len(dots) THEN block[i] = dots[i] ELSE block[i].name = UNUSED
    BY <1>3, <1>8, <1>9, <2>1, NewBlockIs
  <2> QED BY <1>8, <2>2
<1>12. block[1] = a /\ block[2] = b
  BY <1>8, <1>9, <1>11
<1>13. Dotted(block, c)
  BY <1>7, <1>9, <1>11, <1>12 DEF Dotted
<1>14. ASSUME NEW j \in 1 .. Len(block)
       PROVE  block[j].name \notin Name /\ (block[j].name \in Dots => j <= 2)
  <2>1. CASE j <= 2
    <3>1. j \in 1 .. 2 /\ block[j] = dots[j]
      BY <1>11, <2>1
    <3> QED BY <1>10, <2>1, <3>1, Constants
  <2>2. CASE ~ (j <= 2)
    <3>1. block[j].name = UNUSED
      BY <1>11, <2>2
    <3> QED BY <3>1, Constants DEF Bare
  <2> QED BY <2>1, <2>2
<1>15. Filled(path, TRUE, block, c)
  <2>1. block # << >>
    BY <1>9, <1>11
  <2> QED BY <1>7, <1>11, <1>12, <1>13, <1>14, <2>1 DEF Filled, Fresh
<1> QED BY <1>1, <1>4, <1>15, EnterKeeps

\* ---- The tree from the root ----

\* The directories on the way to one are as many clusters as it is deep.
LEMMA DepthWay ==
  ASSUME NEW v, NEW way, NEW depth, Sound(v, way, depth, {})
  PROVE  \A d \in DirsOf(v) : depth[d] <= CLUSTERS /\ depth[d] \in Nat
<1>1. v \in Vols /\ Laid(v, way, {}) /\ Nested(v, depth)
  BY DEF Sound
<1>2. \A d \in DirsOf(v) : depth[d] \in Nat
  BY <1>1 DEF Nested, DirsOf, Place
<1> DEFINE Deep(w, n) == w \in Seq(Cluster) /\ Len(w) = n /\ \A i \in 1 .. n : depth[w[i]] = i
           Z == {n \in Nat : \A d \in DirsOf(v) : depth[d] = n => \E w : Deep(w, n)}
<1>3. 0 \in Z
  <2>1. PICK none : none = << >>
    OBVIOUS
  <2>2. Deep(none, 0)
    BY <2>1
  <2> QED BY <2>2
<1>4. ASSUME NEW n \in Nat, n \in Z
      PROVE  n + 1 \in Z
  <2> SUFFICES ASSUME NEW d \in DirsOf(v), depth[d] = n + 1
               PROVE  \E w : Deep(w, n + 1)
    OBVIOUS
  <2>1. d # kRootCluster
    BY <1>1 DEF Nested
  <2>2. PICK s \in Slots(v) : At(v, s).first = d /\ At(v, s).dir
    BY <2>1, DirOwner
  <2>3. depth[d] = depth[s[1]] + 1
    BY <1>1, <2>2 DEF Nested
  <2>4. s[1] \in DirsOf(v)
    BY <2>2, SlotParts
  <2>5. depth[s[1]] = n
    BY <1>2, <2>3, <2>4
  <2>6. PICK w : Deep(w, n)
    BY <1>4, <2>4, <2>5
  <2>7. d \in Cluster
    BY <2>1 DEF DirsOf
  <2>8. PICK z : z = Append(w, d)
    OBVIOUS
  <2>9. /\ z \in Seq(Cluster) /\ Len(z) = n + 1
        /\ \A i \in 1 .. n + 1 : z[i] = IF i <= n THEN w[i] ELSE d
    BY <2>6, <2>7, <2>8
  <2>10. ASSUME NEW i \in 1 .. n + 1
         PROVE  depth[z[i]] = i
    <3>1. CASE i <= n
      <4>1. i \in 1 .. n /\ z[i] = w[i]
        BY <2>9, <3>1
      <4> QED BY <2>6, <4>1
    <3>2. CASE ~ (i <= n)
      <4>1. i = n + 1 /\ z[i] = d
        BY <2>9, <3>2
      <4> QED BY <4>1
    <3> QED BY <3>1, <3>2
  <2>11. Deep(z, n + 1)
    BY <2>9, <2>10
  <2> QED BY <2>11
<1> HIDE DEF Z
<1>5. \A n \in Nat : n \in Z
  BY <1>3, <1>4, Induction
<1>6. ASSUME NEW d \in DirsOf(v)
      PROVE  depth[d] <= CLUSTERS
  <2>1. PICK n \in Nat : n = depth[d]
    BY <1>2
  <2>2. PICK w : Deep(w, n)
    BY <1>5, <2>1 DEF Z
  <2>3. Once(w)
    BY <2>2 DEF Once
  <2>4. Len(w) <= CLUSTERS
    BY <2>2, <2>3, WayShort
  <2> QED BY <2>1, <2>2, <2>4
<1> QED BY <1>2, <1>6

LEMMA OwnersInIs ==
  ASSUME Good(vol), NEW d \in DirsOf(vol)
  PROVE  OwnersIn(d) = {j \in 1 .. Len(vol.slots[d]) : <<d, j>> \in Slots(vol)}
<1>1. PICK slots : slots = vol.slots[d]
  OBVIOUS
<1>2. vol \in Vols /\ Shaped(vol) /\ d \in Place
  BY DEF Good, Sound, DirsOf, Place
<1>3. slots \in Listing /\ Len(slots) \in Nat /\ \A j \in 1 .. Len(slots) : slots[j] \in SlotType
  BY <1>1, <1>2, VolParts, ListingParts
<1>4. \A j \in 1 .. Len(slots) : slots[j].name \in Name \cup Dots \cup Bare
  BY <1>3 DEF SlotType
<1>5. \A j \in 1 .. Len(slots) : slots[j].name \in Dots => d # kRootCluster
  BY <1>1, <1>2 DEF Shaped
<1>6. OwnersIn(d) = {j \in Live(slots) : d # kRootCluster => slots[j].name \notin Dots}
  BY <1>1 DEF OwnersIn, Dots
<1>7. Live(slots) = {j \in 1 .. Len(slots) : slots[j].name \notin Bare}
  BY <1>3, LiveIs
<1>8. \A j \in 1 .. Len(slots) : <<d, j>> \in Slots(vol) <=> slots[j].name \in Name
  BY <1>1, <1>2, <1>3 DEF Slots
<1>9. \A j \in 1 .. Len(slots) : j \in OwnersIn(d) <=> slots[j].name \in Name
  BY <1>4, <1>5, <1>6, <1>7, Constants
<1> QED BY <1>1, <1>6, <1>7, <1>8, <1>9

\* The walk from the root finds every directory, once it is as long as the disk.
LEMMA DirsIs ==
  ASSUME Good(vol)
  PROVE  Dirs = DirsOf(vol)
<1>1. PICK way, depth : Sound(vol, way, depth, {})
  BY DEF Good
<1>2. vol \in Vols /\ Laid(vol, way, {}) /\ Nested(vol, depth)
  BY <1>1 DEF Sound
<1>3. \A d \in DirsOf(vol) : depth[d] <= CLUSTERS /\ depth[d] \in Nat
  BY <1>1, DepthWay
<1> DEFINE n == CLUSTERS
           Below(d) == {vol.slots[d][j].first : j \in {j \in OwnersIn(d) : vol.slots[d][j].dir}}
           More(X) == UNION {{d} \cup Below(d) : d \in X}
           at[k \in 0 .. CLUSTERS] ==
             IF k = 0 THEN {kRootCluster} ELSE UNION {{d} \cup Below(d) : d \in at[k - 1]}
           Def(g) == [k \in 0 .. CLUSTERS |->
             IF k = 0 THEN {kRootCluster} ELSE UNION {{d} \cup Below(d) : d \in g[k - 1]}]
           Upto(k) == {d \in DirsOf(vol) : depth[d] <= k}
           w == [k \in 0 .. n |-> Upto(k)]
<1>4. Dirs = at[CLUSTERS]
  BY Zenon DEF Dirs
<1>5. \A g : Def(g) = [k \in 0 .. n |-> IF k = 0 THEN {kRootCluster} ELSE More(g[k - 1])]
  BY Zenon
<1>6. \A d \in DirsOf(vol) : \A c : c \in Below(d) <=>
        \E s \in Slots(vol) : s[1] = d /\ At(vol, s).dir /\ At(vol, s).first = c
  <2> SUFFICES ASSUME NEW d \in DirsOf(vol), NEW c
               PROVE  c \in Below(d) <=>
                        \E s \in Slots(vol) : s[1] = d /\ At(vol, s).dir /\ At(vol, s).first = c
    OBVIOUS
  <2>1. OwnersIn(d) = {j \in 1 .. Len(vol.slots[d]) : <<d, j>> \in Slots(vol)}
    BY OwnersInIs
  <2>2. ASSUME c \in Below(d)
        PROVE  \E s \in Slots(vol) : s[1] = d /\ At(vol, s).dir /\ At(vol, s).first = c
    <3>1. PICK j \in OwnersIn(d) : vol.slots[d][j].dir /\ c = vol.slots[d][j].first
      BY <2>2
    <3>2. PICK s : s = <<d, j>>
      OBVIOUS
    <3>3. s \in Slots(vol) /\ s[1] = d /\ At(vol, s) = vol.slots[d][j]
      BY <2>1, <3>1, <3>2 DEF At
    <3> QED BY <3>1, <3>3
  <2>3. ASSUME NEW s \in Slots(vol), s[1] = d, At(vol, s).dir, At(vol, s).first = c
        PROVE  c \in Below(d)
    <3>1. PICK j : j = s[2]
      OBVIOUS
    <3>2. j \in 1 .. Len(vol.slots[d]) /\ <<d, j>> \in Slots(vol) /\ At(vol, s) = vol.slots[d][j]
      BY <2>3, <3>1, SlotParts
    <3> QED BY <2>1, <2>3, <3>2
  <2> QED BY <2>2, <2>3
<1> HIDE DEF Below
<1>7. kRootCluster \in DirsOf(vol) /\ depth[kRootCluster] = 0
  BY <1>2 DEF DirsOf, Nested
<1>8. ASSUME NEW s \in Slots(vol), At(vol, s).dir
      PROVE  /\ s[1] \in DirsOf(vol) /\ At(vol, s).first \in DirsOf(vol)
             /\ depth[At(vol, s).first] = depth[s[1]] + 1
  BY <1>2, <1>8, SlotParts, EntryFirst DEF Nested
<1>9. ASSUME NEW d \in DirsOf(vol), d # kRootCluster
      PROVE  \E s \in Slots(vol) : At(vol, s).dir /\ At(vol, s).first = d
  BY <1>1, <1>9, DirOwner
<1>10. Upto(0) = {kRootCluster}
  <2>1. ASSUME NEW d \in Upto(0), d # kRootCluster
        PROVE  FALSE
    <3>1. d \in DirsOf(vol) /\ depth[d] = 0
      BY <1>3
    <3>2. PICK s \in Slots(vol) : At(vol, s).dir /\ At(vol, s).first = d
      BY <1>9, <2>1, <3>1
    <3>3. s[1] \in DirsOf(vol) /\ depth[d] = depth[s[1]] + 1
      BY <1>8, <3>2
    <3>4. depth[s[1]] \in Nat
      BY <1>3, <3>3
    <3> QED BY <3>1, <3>3, <3>4
  <2>2. kRootCluster \in Upto(0)
    BY <1>7
  <2> QED BY <2>1, <2>2
<1>11. ASSUME NEW k \in Nat
       PROVE  Upto(k + 1) = More(Upto(k))
  <2>1. ASSUME NEW d \in Upto(k + 1)
        PROVE  d \in More(Upto(k))
    <3>1. d \in DirsOf(vol) /\ depth[d] <= k + 1 /\ depth[d] \in Nat
      BY <1>3
    <3>2. CASE depth[d] <= k
      <4>1. d \in Upto(k)
        BY <3>1, <3>2
      <4> QED BY <4>1
    <3>3. CASE ~ (depth[d] <= k)
      <4>1. d # kRootCluster
        BY <1>7, <3>3
      <4>2. PICK s \in Slots(vol) : At(vol, s).dir /\ At(vol, s).first = d
        BY <1>9, <3>1, <4>1
      <4>3. s[1] \in DirsOf(vol) /\ depth[d] = depth[s[1]] + 1 /\ depth[s[1]] \in Nat
        BY <1>3, <1>8, <4>2
      <4>4. s[1] \in Upto(k)
        BY <3>1, <4>3
      <4>5. d \in Below(s[1])
        BY <1>6, <4>2, <4>3
      <4> QED BY <4>4, <4>5
    <3> QED BY <3>2, <3>3
  <2>2. ASSUME NEW x \in Upto(k), NEW d \in {x} \cup Below(x)
        PROVE  d \in Upto(k + 1)
    <3>1. x \in DirsOf(vol) /\ depth[x] \in Nat /\ depth[x] <= k
      BY <1>3
    <3>2. CASE d = x
      BY <3>1, <3>2
    <3>3. CASE d \in Below(x)
      <4>1. PICK s \in Slots(vol) : s[1] = x /\ At(vol, s).dir /\ At(vol, s).first = d
        BY <1>6, <3>1, <3>3
      <4>2. d \in DirsOf(vol) /\ depth[d] = depth[x] + 1
        BY <1>8, <4>1
      <4> QED BY <3>1, <4>2
    <3> QED BY <3>2, <3>3
  <2>3. Upto(k + 1) \subseteq More(Upto(k))
    BY <2>1
  <2>4. More(Upto(k)) \subseteq Upto(k + 1)
    BY <2>2
  <2> QED BY <2>3, <2>4
<1>12. n \in Nat
  BY Constants
<1>13. \A k \in 0 .. n : w[k] = Upto(k)
  OBVIOUS
<1> HIDE DEF More, Upto
<1>14. w = Def(w)
  <2>1. ASSUME NEW k \in 0 .. n
        PROVE  Upto(k) = IF k = 0 THEN {kRootCluster} ELSE More(w[k - 1])
    <3>1. CASE k = 0
      BY <1>10, <3>1
    <3>2. CASE k # 0
      <4>1. PICK m \in Nat : m = k - 1 /\ m + 1 = k /\ m \in 0 .. n
        BY <1>12, <3>2
      <4>2. w[m] = Upto(m)
        BY <4>1
      <4> QED BY <1>11, <3>2, <4>1, <4>2
    <3> QED BY <3>1, <3>2
  <2> HIDE DEF Def
  <2>2. w = [k \in 0 .. n |-> IF k = 0 THEN {kRootCluster} ELSE More(w[k - 1])]
    BY <1>13, <2>1
  <2> QED BY <1>5, <2>2
<1>15. at = Def(at)
  BY <1>14, Zenon
<1> HIDE DEF at, Def, w
<1>16. at = [k \in 0 .. n |-> IF k = 0 THEN {kRootCluster} ELSE More(at[k - 1])]
  BY <1>5, <1>15
<1> DEFINE Z == {k \in Nat : k <= n => at[k] = Upto(k)}
<1>17. 0 \in Z
  <2>1. 0 \in 0 .. n
    BY <1>12
  <2> QED BY <1>10, <1>16, <2>1
<1>18. ASSUME NEW k \in Nat, k \in Z
       PROVE  k + 1 \in Z
  <2> SUFFICES ASSUME k + 1 <= n
               PROVE  at[k + 1] = Upto(k + 1)
    OBVIOUS
  <2>1. PICK m \in Nat : m = k + 1 /\ m - 1 = k /\ m \in 0 .. n /\ m # 0
    BY <1>12
  <2>2. at[k] = Upto(k)
    BY <1>12, <1>18
  <2>3. at[m] = More(at[m - 1])
    BY <1>16, <2>1
  <2> QED BY <1>11, <2>1, <2>2, <2>3
<1> HIDE DEF Z
<1>19. n \in Z
  BY <1>12, <1>17, <1>18, Induction
<1>20. at[n] = Upto(n)
  BY <1>12, <1>19 DEF Z
<1>21. Upto(n) = DirsOf(vol)
  BY <1>3 DEF Upto
<1> QED BY <1>4, <1>20, <1>21

\* The record that Owners has of an entry.
Owned(s) == [in |-> s[1], at |-> s[2], e |-> At(vol, s)]

LEMMA OwnersIs ==
  ASSUME Good(vol)
  PROVE  Owners = {Owned(s) : s \in Slots(vol)}
<1>1. ASSUME NEW o \in Owners
      PROVE  \E s \in Slots(vol) : o = Owned(s)
  <2>1. PICK d \in DirsOf(vol) : \E j \in OwnersIn(d) : o = [in |-> d, at |-> j, e |-> vol.slots[d][j]]
    BY DirsIs DEF Owners
  <2>2. PICK j \in OwnersIn(d) : o = [in |-> d, at |-> j, e |-> vol.slots[d][j]]
    BY <2>1
  <2>3. PICK s : s = <<d, j>>
    OBVIOUS
  <2>4. s \in Slots(vol)
    BY <2>3, OwnersInIs
  <2>5. o = Owned(s)
    BY <2>2, <2>3 DEF Owned, At
  <2> QED BY <2>4, <2>5
<1>2. ASSUME NEW s \in Slots(vol)
      PROVE  Owned(s) \in Owners
  <2>1. PICK d, j : d = s[1] /\ j = s[2]
    OBVIOUS
  <2>2. /\ s = <<d, j>> /\ d \in DirsOf(vol) /\ j \in 1 .. Len(vol.slots[d])
        /\ At(vol, s) = vol.slots[d][j]
    BY <2>1, SlotParts
  <2>3. j \in OwnersIn(d)
    BY <2>2, OwnersInIs
  <2>4. Owned(s) = [in |-> d, at |-> j, e |-> vol.slots[d][j]]
    BY <2>1, <2>2 DEF Owned
  <2> QED BY <2>2, <2>3, <2>4, DirsIs DEF Owners
<1> QED BY <1>1, <1>2

LEMMA GuardIs ==
  ASSUME Good(vol), WithinGuard
  PROVE  \A s \in Slots(vol) : Length(vol, At(vol, s).first) <= GUARD
<1> SUFFICES ASSUME NEW s \in Slots(vol)
             PROVE  Length(vol, At(vol, s).first) <= GUARD
  OBVIOUS
<1>1. Owned(s) \in Owners
  BY OwnersIs
<1>2. Owned(s).e = At(vol, s)
  BY DEF Owned
<1> QED BY <1>1, <1>2 DEF WithinGuard

\* ---- Entries that go ----

\* The slot where a name is found is the first that has it, in use or not.
FirstNamed(d, n, j) ==
  /\ j \in 1 .. Len(vol.slots[d]) /\ vol.slots[d][j].name = n
  /\ j = Lowest({i \in 1 .. Len(vol.slots[d]) : vol.slots[d][i].name = n})

LEMMA FoundSlot ==
  ASSUME Good(vol), NEW d \in DirsOf(vol), NEW n \in Name, NEW e, e = Found(d, n, FALSE), e # NoEntry
  PROVE  \E j \in Nat : e = vol.slots[d][j] /\ FirstNamed(d, n, j) /\ <<d, j>> \in Slots(vol)
<1>1. PICK slots : slots = vol.slots[d]
  OBVIOUS
<1>2. d \in Place /\ slots \in Listing /\ Len(slots) \in Nat
  <2>1. d \in Place /\ vol \in Vols
    BY DEF DirsOf, Place, Good, Sound
  <2> QED BY <1>1, <2>1, VolParts, ListingParts
<1>3. PICK named : named = {i \in Live(slots) : slots[i].name = n}
  OBVIOUS
<1>4. named = {i \in 1 .. Len(slots) : slots[i].name = n}
  <2>1. n \notin Bare
    BY Constants
  <2>2. Live(slots) = {i \in 1 .. Len(slots) : slots[i].name \notin Bare}
    BY <1>2, LiveIs
  <2> QED BY <1>3, <2>1, <2>2
<1>5. Found(d, n, FALSE) = IF named = {} THEN NoEntry ELSE slots[Lowest(named)]
  BY <1>1, <1>3 DEF Found
<1>6. named # {} /\ e = slots[Lowest(named)]
  BY <1>5
<1>7. PICK j : j = Lowest(named)
  OBVIOUS
<1>8. j \in named
  <2>1. named \subseteq Nat
    BY <1>2, <1>4
  <2> QED BY <1>6, <1>7, <2>1, LowestIs
<1>9. j \in 1 .. Len(slots) /\ slots[j].name = n /\ j \in Nat
  BY <1>4, <1>8
<1>10. FirstNamed(d, n, j)
  BY <1>1, <1>4, <1>7, <1>9 DEF FirstNamed
<1>11. <<d, j>> \in Slots(vol)
  BY <1>1, <1>2, <1>9 DEF Slots
<1> QED BY <1>1, <1>6, <1>7, <1>9, <1>10, <1>11

\* u is v without the entry s.
Removed(v, s, u) ==
  /\ Good(u) /\ DirsOf(u) = DirsOf(v) \ {At(v, s).first}
  /\ Slots(u) = Slots(v) \ {s} /\ \A t \in Slots(u) : At(u, t) = At(v, t)

LEMMA RemoveSound ==
  ASSUME NEW v, Good(v), NEW s \in Slots(v), Length(v, At(v, s).first) <= GUARD,
         \A t \in Slots(v) : t[1] # At(v, s).first,
         s[2] = Lowest({i \in 1 .. Len(v.slots[s[1]]) : v.slots[s[1]][i].name = At(v, s).name}),
         NEW u, u = remove_dir_entry(free_cluster_chain(v, At(v, s).first), s[1], At(v, s).name)
  PROVE  Removed(v, s, u)
<1>1. PICK way, depth : Sound(v, way, depth, {}) /\ Sized(v, way)
  BY DEF Good
<1>2. v \in Vols /\ Laid(v, way, {})
  BY <1>1 DEF Sound
<1>3. PICK w : w = way[s]
  OBVIOUS
<1>4. w \in Seq(Cluster) /\ Follows(v, w) /\ Once(w) /\ w[1] = At(v, s).first /\ w[1] \in Cluster
  BY <1>2, <1>3, LaidParts
<1>5. Len(w) <= GUARD
  <2>1. v.fat \in [Cluster -> Link]
    BY <1>2, VolParts
  <2>2. Length(v, w[1]) = Len(w)
    BY <1>4, <2>1, WayLength
  <2> QED BY <1>4, <2>2
<1>6. PICK f : f = free_cluster_chain(v, w[1])
  OBVIOUS
<1>7. Freed(v, w, f)
  BY <1>2, <1>4, <1>5, <1>6, FreeIs
<1>8. /\ f \in Vols /\ f.slots = v.slots
      /\ \A x \in Cluster : f.fat[x] = IF x \in Clusters(w) THEN FREE ELSE v.fat[x]
  BY <1>7, Zenon DEF Freed
<1>9. PICK d, j : d = s[1] /\ j = s[2]
  OBVIOUS
<1>10. d \in Place /\ j \in 1 .. Len(v.slots[d]) /\ At(v, s) = v.slots[d][j] /\ At(v, s).name \in Name
  BY <1>9, SlotParts
<1>11. PICK e : e = [At(v, s) EXCEPT !.name = DELETED]
  OBVIOUS
<1>12. v.slots[d] \in Listing /\ At(v, s) \in SlotType /\ Len(v.slots[d]) \in Nat
  BY <1>2, <1>10, VolParts, ListingParts
<1>13. e \in SlotType /\ e.name = DELETED
  <2>1. DELETED \in Bare
    BY DEF Bare
  <2> QED BY <1>11, <1>12, <2>1 DEF SlotType
<1>14. Put(f, d, j, e, u)
  <2>1. PICK n : n = At(v, s).name
    OBVIOUS
  <2>2. j \in {i \in 1 .. Len(f.slots[d]) : f.slots[d][i].name = n}
    BY <1>8, <1>10, <2>1
  <2>3. u = [f EXCEPT !.slots[d][j].name = DELETED]
    <3>1. u = remove_dir_entry(f, d, n)
      BY <1>4, <1>6, <1>9, <2>1
    <3>2. j = Lowest({i \in 1 .. Len(f.slots[d]) : f.slots[d][i].name = n})
      BY <1>8, <1>9, <2>1
    <3> QED BY <2>2, <3>1, <3>2 DEF remove_dir_entry
  <2>4. u = [f EXCEPT !.slots[d][j] = e]
    BY <1>8, <1>10, <1>11, <2>3
  <2>5. e.name # UNUSED
    BY <1>13, Constants
  <2>6. \A i \in 1 .. j - 1 : f.slots[d][i].name # UNUSED
    <3> SUFFICES ASSUME NEW i \in 1 .. j - 1, v.slots[d][i].name = UNUSED
                 PROVE  FALSE
      BY <1>8
    <3>1. i \in 1 .. Len(v.slots[d]) /\ i < j
      BY <1>10, <1>12
    <3>2. v.slots[d][j].name = UNUSED
      BY <1>10, <1>12, <3>1 DEF Listing, Solid
    <3> QED BY <1>10, <3>2, Constants DEF Bare
  <2>7. j \in 1 .. Len(f.slots[d])
    BY <1>8, <1>10
  <2> QED BY <1>8, <1>10, <1>13, <2>4, <2>5, <2>6, <2>7, PutIs
<1>15. Dropped(v, way, depth, s, u)
  BY <1>1, <1>3, <1>8, <1>9, <1>11, <1>14, DropSound
<1>16. PICK new : new = [t \in Slots(u) |-> way[t]]
  OBVIOUS
<1>17. /\ DirsOf(u) = DirsOf(v) \ {At(v, s).first}
       /\ Slots(u) = Slots(v) \ {s} /\ \A t \in Slots(u) : At(u, t) = At(v, t)
       /\ Sound(u, new, depth, {})
  BY <1>15, <1>16, Zenon DEF Dropped
<1>18. Sized(u, new)
  <2> SUFFICES ASSUME NEW t \in Slots(u)
               PROVE  LET room == Len(new[t]) * ENTRIES
                      IN  IF At(u, t).dir THEN Len(u.slots[At(u, t).first]) = room
                          ELSE At(u, t).size <= room
    BY DEF Sized
  <2>1. t \in Slots(v) /\ At(u, t) = At(v, t) /\ new[t] = way[t]
    BY <1>16, <1>17
  <2>2. At(v, t).first \in Place
    BY <1>2, <2>1, EntryFirst DEF Place
  <2>3. Len(u.slots[At(v, t).first]) = Len(v.slots[At(v, t).first])
    <3>1. /\ \A x \in Place : x # d => u.slots[x] = f.slots[x]
          /\ Len(u.slots[d]) = Len(f.slots[d])
      BY <1>14, Zenon DEF Put
    <3> QED BY <1>8, <2>2, <3>1
  <2> QED BY <1>1, <2>1, <2>3 DEF Sized
<1> QED BY <1>17, <1>18 DEF Removed, Good

\* The name of "/" is that of a slot never used: the first of those is marked.
LEMMA MarkSound ==
  ASSUME NEW v, Good(v), NEW d \in Place, NEW u, u = remove_dir_entry(v, d, UNUSED)
  PROVE  /\ Good(u) /\ DirsOf(u) = DirsOf(v)
         /\ Slots(u) = Slots(v) /\ \A s \in Slots(v) : At(u, s) = At(v, s)
<1>1. PICK named : named = {i \in 1 .. Len(v.slots[d]) : v.slots[d][i].name = UNUSED}
  OBVIOUS
<1>2. CASE named = {}
  <2>1. u = v
    BY <1>1, <1>2 DEF remove_dir_entry
  <2> QED BY <2>1
<1>3. CASE named # {}
  <2>1. PICK way, depth : Sound(v, way, depth, {}) /\ Sized(v, way)
    BY DEF Good
  <2>2. v \in Vols /\ Laid(v, way, {})
    BY <2>1 DEF Sound
  <2>3. v.slots[d] \in Listing /\ Len(v.slots[d]) \in Nat
    BY <2>2, VolParts, ListingParts
  <2>4. PICK j : j = Lowest(named)
    OBVIOUS
  <2>5. j \in named /\ \A i \in named : j <= i
    <3>1. named \subseteq Nat
      BY <1>1, <2>3
    <3> QED BY <1>3, <2>4, <3>1, LowestIs
  <2>6. j \in 1 .. Len(v.slots[d]) /\ v.slots[d][j].name = UNUSED /\ v.slots[d][j] \in SlotType
    BY <1>1, <2>3, <2>5, ListingParts
  <2>7. PICK e : e = [v.slots[d][j] EXCEPT !.name = DELETED]
    OBVIOUS
  <2>8. /\ e \in SlotType /\ e.name = DELETED
        /\ e.first = v.slots[d][j].first /\ e.dir = v.slots[d][j].dir
    <3>1. DELETED \in Bare
      BY DEF Bare
    <3> QED BY <2>6, <2>7, <3>1 DEF SlotType
  <2>9. Put(v, d, j, e, u)
    <3>1. u = [v EXCEPT !.slots[d][j].name = DELETED]
      BY <1>1, <1>3, <2>4 DEF remove_dir_entry
    <3>2. u = [v EXCEPT !.slots[d][j] = e]
      BY <2>7, <3>1
    <3>3. e.name # UNUSED
      BY <2>8, Constants
    <3>4. \A i \in 1 .. j - 1 : v.slots[d][i].name # UNUSED
      <4> SUFFICES ASSUME NEW i \in 1 .. j - 1, v.slots[d][i].name = UNUSED
                   PROVE  FALSE
        OBVIOUS
      <4>1. i \in 1 .. Len(v.slots[d]) /\ ~ (j <= i)
        BY <2>3, <2>6
      <4> QED BY <1>1, <2>5, <4>1
    <3> QED BY <2>2, <2>6, <2>8, <3>2, <3>3, <3>4, PutIs
  <2>10. Reslotted(v, way, depth, {}, d, j, e, u)
    <3>1. e.name \in Bare /\ v.slots[d][j].name \in Bare
      BY <2>6, <2>8 DEF Bare
    <3> QED BY <2>1, <2>6, <2>8, <2>9, <3>1, PutSound
  <2>11. /\ Slots(u) = Slots(v)
         /\ \A s \in Slots(v) : At(u, s) = IF s = <<d, j>> THEN e ELSE At(v, s)
         /\ Sound(u, way, depth, {})
    BY <2>10, Zenon DEF Reslotted
  <2>12. <<d, j>> \notin Slots(v)
    BY <2>6, Constants DEF Slots, Bare
  <2>13. \A s \in Slots(v) : At(u, s) = At(v, s)
    BY <2>11, <2>12
  <2>14. /\ DirsOf(u) = DirsOf(v)
         /\ \A x \in Place : x # d => u.slots[x] = v.slots[x]
         /\ Len(u.slots[d]) = Len(v.slots[d])
    BY <2>9, Zenon DEF Put
  <2>15. Sized(u, way)
    <3> SUFFICES ASSUME NEW t \in Slots(v)
                 PROVE  LET room == Len(way[t]) * ENTRIES
                        IN  IF At(v, t).dir THEN Len(u.slots[At(v, t).first]) = room
                            ELSE At(v, t).size <= room
      BY <2>11, <2>13 DEF Sized
    <3>1. At(v, t).first \in Place
      BY <2>2, EntryFirst DEF Place
    <3>2. Len(u.slots[At(v, t).first]) = Len(v.slots[At(v, t).first])
      BY <2>14, <3>1
    <3> QED BY <2>1, <3>2 DEF Sized
  <2>16. Good(u)
    BY <2>11, <2>15 DEF Good
  <2> QED BY <2>11, <2>13, <2>14, <2>16
<1> QED BY <1>2, <1>3

\* The entry that a path leads to.
IsTarget(path, s) ==
  /\ s \in Slots(vol) /\ s[1] = Parent(path)
  /\ At(vol, s) = TargetEntry(path) /\ At(vol, s).name = basename(path)
  /\ Target(path) = At(vol, s).first
  /\ s[2] = Lowest({i \in 1 .. Len(vol.slots[s[1]]) : vol.slots[s[1]][i].name = At(vol, s).name})

LEMMA TargetSlot ==
  ASSUME Good(vol), cwd_cluster \in DirsOf(vol), NEW path \in Paths,
         path.parts # << >>, Exists(path), basename(path) \in Name
  PROVE  \E s : IsTarget(path, s)
<1>1. /\ Target(path) = TargetEntry(path).first
      /\ Parent(path) \in DirsOf(vol) /\ TargetEntry(path) # NoEntry
  BY PathLeads DEF Leads
<1>2. PICK d, n, e : d = Parent(path) /\ n = basename(path) /\ e = TargetEntry(path)
  OBVIOUS
<1>3. e = Found(d, n, FALSE) /\ e # NoEntry /\ d \in DirsOf(vol) /\ n \in Name
  BY <1>1, <1>2 DEF TargetEntry
<1>4. PICK j \in Nat : e = vol.slots[d][j] /\ FirstNamed(d, n, j) /\ <<d, j>> \in Slots(vol)
  BY <1>3, FoundSlot
<1>5. PICK s : s = <<d, j>>
  OBVIOUS
<1>6. s[1] = d /\ s[2] = j /\ At(vol, s) = e /\ s \in Slots(vol) /\ e.name = n
  BY <1>4, <1>5 DEF At, FirstNamed
<1>7. j = Lowest({i \in 1 .. Len(vol.slots[d]) : vol.slots[d][i].name = n})
  BY <1>4 DEF FirstNamed
<1>8. IsTarget(path, s)
  BY <1>1, <1>2, <1>6, <1>7 DEF IsTarget
<1> QED BY <1>8

\* The entry that a path leads to goes, with its chain.
LEMMA RemoveKeeps ==
  ASSUME IInv, WithinGuard, NEW path \in Paths, path.parts # << >>, Exists(path),
         basename(path) \in Name, OpenOn(Target(path)) = {}, Target(path) # cwd_cluster,
         \A t \in Slots(vol) : t[1] # Target(path),
         vol' = remove_dir_entry(free_cluster_chain(vol, Target(path)), Parent(path), basename(path)),
         cwd_cluster' = cwd_cluster, ofile' = ofile
  PROVE  IInv' /\ Outcome(vol, vol')
<1>1. Good(vol) /\ cwd_cluster \in DirsOf(vol)
  BY DEF IInv
<1>2. PICK s : IsTarget(path, s)
  BY <1>1, TargetSlot
<1>3. PICK u : u = vol'
  OBVIOUS
<1>4. PICK v : v = vol
  OBVIOUS
<1>5. /\ s \in Slots(v) /\ s[1] = Parent(path) /\ At(v, s).name = basename(path)
      /\ Target(path) = At(v, s).first
      /\ s[2] = Lowest({i \in 1 .. Len(v.slots[s[1]]) : v.slots[s[1]][i].name = At(v, s).name})
  BY <1>2, <1>4 DEF IsTarget
<1>6. Removed(v, s, u)
  <2>1. u = remove_dir_entry(free_cluster_chain(v, At(v, s).first), s[1], At(v, s).name)
    BY <1>3, <1>4, <1>5
  <2>2. Good(v) /\ Length(v, At(v, s).first) <= GUARD
    BY <1>1, <1>4, <1>5, GuardIs
  <2>3. \A t \in Slots(v) : t[1] # At(v, s).first
    BY <1>4, <1>5
  <2> QED BY <1>5, <2>1, <2>2, <2>3, RemoveSound
<1>7. /\ Good(u) /\ DirsOf(u) = DirsOf(vol) \ {Target(path)}
      /\ Slots(u) = Slots(vol) \ {s} /\ \A t \in Slots(u) : At(u, t) = At(vol, t)
  BY <1>4, <1>5, <1>6 DEF Removed
<1>8. cwd_cluster' \in DirsOf(u)
  BY <1>1, <1>7
<1>9. ASSUME NEW t \in Slots(vol), OpenOn(At(vol, t).first) # {}
      PROVE  t \in Slots(u) /\ At(u, t) = At(vol, t)
  <2>1. t # s
    BY <1>4, <1>5, <1>9
  <2> QED BY <1>7, <2>1
<1>10. Outcome(vol, u)
  <2>1. At(vol, s).first = Target(path) /\ s \in Slots(vol)
    BY <1>4, <1>5
  <2>2. Loses(vol, u, s)
    BY <1>7, <2>1 DEF Loses
  <2> QED BY <2>2 DEF Outcome
<1>11. IInv'
  BY <1>3, <1>7, <1>8, <1>9, StepKeeps
<1> QED BY <1>3, <1>10, <1>11

\* A slot of "/" is marked.
LEMMA MarkKeeps ==
  ASSUME IInv, NEW d \in DirsOf(vol), vol' = remove_dir_entry(vol, d, UNUSED),
         cwd_cluster' = cwd_cluster, ofile' = ofile
  PROVE  IInv' /\ Outcome(vol, vol')
<1>1. Good(vol) /\ cwd_cluster \in DirsOf(vol) /\ d \in Place
  BY DEF IInv, DirsOf, Place
<1>2. PICK u : u = vol'
  OBVIOUS
<1>3. /\ Good(u) /\ DirsOf(u) = DirsOf(vol)
      /\ Slots(u) = Slots(vol) /\ \A s \in Slots(vol) : At(u, s) = At(vol, s)
  <2>1. PICK v : v = vol
    OBVIOUS
  <2>2. Good(v) /\ u = remove_dir_entry(v, d, UNUSED)
    BY <1>1, <1>2, <2>1
  <2>3. /\ Good(u) /\ DirsOf(u) = DirsOf(v)
        /\ Slots(u) = Slots(v) /\ \A s \in Slots(v) : At(u, s) = At(v, s)
    BY <1>1, <2>2, MarkSound
  <2> QED BY <2>1, <2>3
<1>4. IInv'
  BY <1>1, <1>2, <1>3, StepKeeps
<1> QED BY <1>2, <1>3, <1>4 DEF Outcome, Alike

LEMMA DeleteKeeps ==
  ASSUME IInv, Careful, WithinGuard, NEW path \in Paths, Delete(path)
  PROVE  IInv' /\ Outcome(vol, vol')
<1>1. Good(vol) /\ cwd_cluster \in DirsOf(vol)
  BY DEF IInv
<1>2. Leads(path)
  BY <1>1, PathLeads
<1>3. cwd_cluster' = cwd_cluster /\ ofile' = ofile
  BY DEF Delete
<1>4. CASE path.parts = << >>
  <2>1. Parent(path) \in DirsOf(vol) /\ basename(path) = UNUSED
    BY <1>2, <1>4 DEF Leads
  <2>2. vol' = remove_dir_entry(vol, Parent(path), UNUSED)
    BY <1>4, <2>1 DEF Delete
  <2> QED BY <1>3, <2>1, <2>2, MarkKeeps
<1>5. CASE path.parts # << >>
  <2>1. /\ Exists(path) /\ ~ TargetEntry(path).dir /\ OpenOn(Target(path)) = {}
        /\ vol' = remove_dir_entry(free_cluster_chain(vol, Target(path)), Parent(path), basename(path))
    BY <1>5 DEF Delete, Careful, Takes
  <2>2. basename(path) \in Name
    <3>1. basename(path) \in Part /\ (basename(path) \in Dots => TargetEntry(path).dir)
      BY <1>2, <1>5, <2>1 DEF Leads, Find
    <3> QED BY <2>1, <3>1 DEF Part, Dots
  <2>3. PICK s : IsTarget(path, s)
    BY <1>1, <1>5, <2>1, <2>2, TargetSlot
  <2>4. s \in Slots(vol) /\ ~ At(vol, s).dir /\ Target(path) = At(vol, s).first
    BY <2>1, <2>3 DEF IsTarget
  <2>5. PICK way, depth : Sound(vol, way, depth, {})
    BY <1>1 DEF Good
  <2>6. Target(path) \in Cluster /\ vol.slots[Target(path)] = << >>
    BY <2>4, <2>5, EntryFirst DEF Sound
  <2>7. Target(path) \notin DirsOf(vol)
    BY <2>6, Constants DEF DirsOf
  <2>8. \A t \in Slots(vol) : t[1] # Target(path)
    BY <2>7, SlotParts
  <2> QED BY <1>1, <1>3, <1>5, <2>1, <2>2, <2>7, <2>8, RemoveKeeps
<1> QED BY <1>4, <1>5

LEMMA RmdirKeeps ==
  ASSUME IInv, Careful, WithinGuard, NEW path \in Paths, Rmdir(path)
  PROVE  IInv' /\ Outcome(vol, vol')
<1>1. Good(vol) /\ cwd_cluster \in DirsOf(vol)
  BY DEF IInv
<1>2. Leads(path)
  BY <1>1, PathLeads
<1>3. /\ Exists(path) /\ IsEmpty(Target(path))
      /\ (Target(path) = cwd_cluster => Target(path) = kRootCluster)
      /\ OpenOn(Target(path)) = {} /\ basename(path) \notin Dots
      /\ vol' = remove_dir_entry(free_cluster_chain(vol, Target(path)), Parent(path), basename(path))
      /\ cwd_cluster' = cwd_cluster /\ ofile' = ofile
  BY DEF Rmdir, Careful, Takes, Dots
<1>4. PICK way, depth : Sound(vol, way, depth, {})
  BY <1>1 DEF Good
<1>5. CASE path.parts = << >>
  <2>1. Parent(path) \in DirsOf(vol) /\ basename(path) = UNUSED
    BY <1>2, <1>5 DEF Leads
  <2>2. Target(path) = kRootCluster
    BY <1>3, <1>5 DEF Target, Start
  <2>3. PICK v, c : v = vol /\ c = Target(path)
    OBVIOUS
  <2>4. free_cluster_chain(v, c) = v
    <3>1. c \in Link \ Cluster
      BY <2>2, <2>3, Constants DEF Link
    <3>2. v \in Vols
      BY <1>4, <2>3 DEF Sound
    <3> QED BY <3>1, <3>2, FreeNone
  <2>5. vol' = remove_dir_entry(vol, Parent(path), UNUSED)
    BY <1>3, <2>1, <2>3, <2>4
  <2> QED BY <1>3, <2>1, <2>5, MarkKeeps
<1>6. CASE path.parts # << >>
  <2>1. basename(path) \in Name
    BY <1>2, <1>3, <1>6 DEF Leads, Part, Dots
  <2>2. PICK s : IsTarget(path, s)
    BY <1>1, <1>3, <1>6, <2>1, TargetSlot
  <2>3. s \in Slots(vol) /\ Target(path) = At(vol, s).first
    BY <2>2 DEF IsTarget
  <2>4. PICK c : c = Target(path)
    OBVIOUS
  <2>5. c \in Cluster
    BY <1>4, <2>3, <2>4, EntryFirst DEF Sound
  <2>6. c # cwd_cluster
    BY <1>3, <2>4, <2>5, Constants
  <2>7. ASSUME NEW t \in Slots(vol), t[1] = c
        PROVE  FALSE
    <3>1. /\ c \in DirsOf(vol) /\ t[2] \in 1 .. Len(vol.slots[c])
          /\ vol.slots[c][t[2]].name \in Name
      BY <2>7, SlotParts
    <3>2. vol.slots[c] # << >> /\ vol.slots[c] \in Listing
      <4>1. vol \in Vols /\ c \in Place
        BY <1>4, <2>5 DEF Sound, Place
      <4>2. vol.slots[c] # << >>
        BY <2>5, <3>1, Constants DEF DirsOf
      <4> QED BY <4>1, <4>2, VolParts
    <3>3. t[2] \in Live(vol.slots[c])
      <4>1. vol.slots[c][t[2]].name \notin Bare
        BY <3>1, Constants
      <4> QED BY <3>1, <3>2, <4>1, LiveIs
    <3>4. vol.slots[c][t[2]].name \in Dots
      BY <1>3, <2>4, <3>2, <3>3 DEF IsEmpty, Dots
    <3> QED BY <3>1, <3>4, Constants
  <2> QED BY <1>3, <1>6, <2>1, <2>4, <2>6, <2>7, RemoveKeeps
<1> QED BY <1>5, <1>6

\* ---- The current directory and descriptors ----

LEMMA ChdirKeeps ==
  ASSUME IInv, Careful, NEW path \in Paths, Chdir(path)
  PROVE  IInv'
<1>1. Good(vol) /\ cwd_cluster \in DirsOf(vol)
  BY DEF IInv
<1>2. Leads(path)
  BY <1>1, PathLeads
<1>3. /\ Exists(path) /\ (path.parts # << >> => TargetEntry(path).dir)
      /\ cwd_cluster' = Target(path) /\ vol' = vol /\ ofile' = ofile
  BY DEF Chdir, Careful, Takes
<1>4. Target(path) \in DirsOf(vol)
  BY <1>2, <1>3 DEF Leads, Find
<1>5. PICK u : u = vol'
  OBVIOUS
<1>6. Good(u) /\ cwd_cluster' \in DirsOf(u)
  BY <1>1, <1>3, <1>4, <1>5
<1>7. \A s \in Slots(vol) : s \in Slots(u) /\ At(u, s) = At(vol, s)
  BY <1>3, <1>5
<1> QED BY <1>3, <1>5, <1>6, <1>7, StepKeeps

LEMMA MountKeeps ==
  ASSUME IInv, Mount
  PROVE  IInv'
<1>1. vol' = vol /\ ofile' = ofile /\ cwd_cluster' = kRootCluster
  BY DEF Mount
<1>2. PICK u : u = vol'
  OBVIOUS
<1>3. Good(u) /\ cwd_cluster' \in DirsOf(u)
  BY <1>1, <1>2 DEF IInv, DirsOf
<1>4. \A s \in Slots(vol) : s \in Slots(u) /\ At(u, s) = At(vol, s)
  BY <1>1, <1>2
<1> QED BY <1>1, <1>2, <1>3, <1>4, StepKeeps

\* A formatted volume has no entries.
LEMMA FormattedGood ==
  ASSUME NEW v, v \in Vols, NEW u, u = Formatted(v)
  PROVE  Good(u) /\ DirsOf(u) = {kRootCluster} /\ Slots(u) = {}
<1>1. PICK block : block = NewBlock(<< >>)
  OBVIOUS
<1>2. /\ block \in Listing /\ Len(block) = ENTRIES
      /\ \A i \in 1 .. ENTRIES : block[i].name = UNUSED
  <2>1. PICK none : none = << >>
    OBVIOUS
  <2>2. none \in Seq(SlotType) /\ Len(none) = 0
    BY <2>1
  <2>3. Len(none) <= ENTRIES /\ \A i \in 1 .. Len(none) : none[i].name # UNUSED
    BY <2>2, Constants
  <2>4. /\ block \in Listing /\ Len(block) = ENTRIES
        /\ \A i \in 1 .. ENTRIES : IF i <= Len(none) THEN block[i] = none[i] ELSE block[i].name = UNUSED
    <3>1. block = NewBlock(none)
      BY <1>1, <2>1
    <3> QED BY <2>2, <2>3, <3>1, NewBlockIs
  <2> QED BY <2>2, <2>4
<1>3. PICK fat : fat = [c \in Cluster |-> FREE]
  OBVIOUS
<1>4. /\ v.slots \in [Place -> Listing] /\ v.data \in [Cluster -> [Ptr -> {0, 1, OLD}]]
      /\ v = [fat |-> v.fat, slots |-> v.slots, data |-> v.data]
  BY VolParts
<1>5. u = [v EXCEPT !.fat = fat, !.slots[kRootCluster] = block]
  BY <1>1, <1>3 DEF Formatted
<1>6. /\ u.fat = fat /\ u.slots = [v.slots EXCEPT ![kRootCluster] = block] /\ u.data = v.data
      /\ u = [fat |-> u.fat, slots |-> u.slots, data |-> u.data]
  BY <1>4, <1>5
<1>7. u \in Vols
  <2>1. u.fat \in [Cluster -> Link]
    BY <1>3, <1>6 DEF Link
  <2>2. u.slots \in [Place -> Listing]
    BY <1>2, <1>4, <1>6
  <2> QED BY <1>4, <1>6, <2>1, <2>2 DEF Vols
<1>8. DirsOf(u) = {kRootCluster}
  BY <1>3, <1>6 DEF DirsOf
<1>9. u.slots[kRootCluster] = block
  BY <1>4, <1>6 DEF Place
<1>10. Slots(u) = {}
  <2> SUFFICES ASSUME NEW s \in Slots(u)
               PROVE  FALSE
    OBVIOUS
  <2>1. s[1] = kRootCluster /\ s[2] \in 1 .. Len(block) /\ block[s[2]].name \in Name
    BY <1>8, <1>9 DEF Slots
  <2> QED BY <1>2, <2>1, Constants DEF Bare
<1>11. PICK way : way = [s \in Slots(u) |-> << >>]
  OBVIOUS
<1>12. PICK depth : depth = [x \in Place |-> 0]
  OBVIOUS
<1>13. Laid(u, way, {})
  <2>1. way \in [Slots(u) -> Seq(Cluster)]
    BY <1>10, <1>11
  <2>2. \A c \in Cluster : u.fat[c] = FREE
    BY <1>3, <1>6
  <2> QED BY <1>10, <2>1, <2>2 DEF Laid, Apart
<1>14. Shaped(u)
  <2>1. \A j \in 1 .. Len(block) : block[j].name \notin Dots
    BY <1>2, Constants DEF Bare
  <2>2. block # << >>
    <3>1. Len(block) # 0
      BY <1>2, Constants
    <3> QED BY <3>1
  <2> QED BY <1>8, <1>9, <2>1, <2>2 DEF Shaped
<1>15. Nested(u, depth)
  BY <1>10, <1>12 DEF Nested, Place
<1>16. FirstShown(u) /\ Sized(u, way)
  BY <1>10 DEF FirstShown, Sized
<1>17. Sound(u, way, depth, {})
  BY <1>7, <1>13, <1>14, <1>15, <1>16 DEF Sound
<1> QED BY <1>8, <1>10, <1>16, <1>17 DEF Good

LEMMA FormatKeeps ==
  ASSUME IInv, Careful, Format
  PROVE  IInv' /\ Outcome(vol, vol')
<1>1. /\ FreeFds = Fd /\ vol' = Formatted(vol)
      /\ ofile' = ofile /\ cwd_cluster' = kRootCluster
  BY DEF Format, Careful, Takes
<1>2. PICK u : u = vol'
  OBVIOUS
<1>3. Good(u) /\ DirsOf(u) = {kRootCluster} /\ Slots(u) = {}
  <2>1. PICK v : v = vol
    OBVIOUS
  <2>2. v \in Vols
    BY <2>1 DEF IInv, Good, Sound
  <2> QED BY <1>1, <1>2, <2>1, <2>2, FormattedGood
<1>4. \A c : OpenOn(c) = {}
  BY <1>1 DEF FreeFds, OpenOn
<1>5. \A t \in Slots(vol) : OpenOn(At(vol, t).first) # {} => t \in Slots(u) /\ At(u, t) = At(vol, t)
  BY <1>4
<1>6. IInv'
  BY <1>1, <1>2, <1>3, <1>5, StepKeeps
<1> QED BY <1>2, <1>3, <1>6 DEF Outcome

LEMMA InitHolds ==
  ASSUME Init
  PROVE  IInv /\ Slots(vol) = {}
<1>1. PICK v : v = [fat |-> [c \in Cluster |-> FREE],
                    slots |-> [d \in Cluster \cup {kRootCluster} |-> << >>],
                    data |-> [c \in Cluster |-> Zeroed]]
  OBVIOUS
<1>2. v \in Vols
  <2>1. PICK fat, slots, data : /\ fat = [c \in Cluster |-> FREE]
                                /\ slots = [d \in Cluster \cup {kRootCluster} |-> << >>]
                                /\ data = [c \in Cluster |-> Zeroed]
    OBVIOUS
  <2>2. fat \in [Cluster -> Link]
    BY <2>1 DEF Link
  <2>3. << >> \in Listing
    <3>1. PICK none : none = << >>
      OBVIOUS
    <3>2. none \in Seq(SlotType) /\ Len(none) = 0
      BY <3>1
    <3>3. Solid(none)
      BY <3>2 DEF Solid
    <3> QED BY <3>1, <3>2, <3>3 DEF Listing
  <2>4. slots \in [Place -> Listing]
    BY <2>1, <2>3 DEF Place
  <2>5. Zeroed \in [Ptr -> {0, 1, OLD}]
    BY DEF Zeroed, Ptr
  <2>6. data \in [Cluster -> [Ptr -> {0, 1, OLD}]]
    BY <2>1, <2>5
  <2>7. v = [fat |-> fat, slots |-> slots, data |-> data]
    BY <1>1, <2>1
  <2> QED BY <2>2, <2>4, <2>6, <2>7 DEF Vols
<1>3. PICK u : u = vol
  OBVIOUS
<1>4. u = Formatted(v) /\ cwd_cluster = kRootCluster /\ ofile = [fd \in Fd |-> NoFile]
  BY <1>1, <1>3, Zenon DEF Init
<1>5. Good(u) /\ DirsOf(u) = {kRootCluster} /\ Slots(u) = {}
  BY <1>2, <1>4, FormattedGood
<1> QED BY <1>3, <1>4, <1>5 DEF IInv

LEMMA CloseKeeps ==
  ASSUME IInv, NEW fd \in Fd, Close(fd)
  PROVE  IInv'
<1>1. ofile' = [ofile EXCEPT ![fd] = NoFile] /\ vol' = vol /\ cwd_cluster' = cwd_cluster
  BY DEF Close
<1>2. ofile' \in [Fd -> FdType \cup {NoFile}]
  BY <1>1 DEF IInv
<1>3. ASSUME NEW x \in Fd, ofile'[x] # NoFile
      PROVE  OnFile(vol, ofile'[x])
  <2>1. ofile[x] # NoFile /\ ofile'[x] = ofile[x]
    BY <1>1, <1>3 DEF IInv
  <2> QED BY <2>1 DEF IInv
<1> QED BY <1>1, <1>2, <1>3 DEF IInv

LEMMA LowestOf ==
  ASSUME NEW S, S \subseteq Nat, NEW x \in S, \A y \in S : x <= y
  PROVE  Lowest(S) = x
<1>1. PICK l : l = Lowest(S)
  OBVIOUS
<1>2. l \in S /\ \A y \in S : l <= y
  BY <1>1, LowestIs
<1>3. l <= x /\ x <= l /\ l \in Nat /\ x \in Nat
  BY <1>2
<1> QED BY <1>1, <1>3

\* The entry of a file is the first that shows its first cluster.
FirstCarrier(v, s) ==
  /\ Carrying(v.slots[s[1]], At(v, s).first) # {}
  /\ Lowest(Carrying(v.slots[s[1]], At(v, s).first)) = s[2]
  /\ get_file_size(v, s[1], At(v, s).first) = At(v, s).size

LEMMA CarrierIs ==
  ASSUME NEW v, NEW way, NEW depth, NEW orphans, Sound(v, way, depth, orphans),
         NEW s \in Slots(v), ~ At(v, s).dir
  PROVE  FirstCarrier(v, s)
<1>1. PICK d, j, c, slots : d = s[1] /\ j = s[2] /\ c = At(v, s).first /\ slots = v.slots[s[1]]
  OBVIOUS
<1>2. /\ d \in Place /\ j \in 1 .. Len(slots) /\ At(v, s) = slots[j] /\ slots[j].name \in Name
      /\ slots = v.slots[d]
  BY <1>1, SlotParts
<1>3. slots \in Listing /\ Len(slots) \in Nat
  BY <1>2, VolParts, ListingParts DEF Sound
<1>4. PICK at : at = Carrying(slots, c)
  OBVIOUS
<1>5. at = {i \in 1 .. Len(slots) : slots[i].first = c /\ ~ slots[i].dir}
  BY <1>4 DEF Carrying
<1>6. j \in at
  BY <1>1, <1>2, <1>5
<1>7. ASSUME NEW i \in at
      PROVE  j <= i
  <2> SUFFICES ASSUME ~ (j <= i)
               PROVE  FALSE
    OBVIOUS
  <2>1. i \in 1 .. Len(slots) /\ slots[i].first = c /\ ~ slots[i].dir
    BY <1>5
  <2>2. i \in 1 .. j - 1
    BY <1>2, <1>3, <2>1
  <2> QED BY <1>1, <2>1, <2>2 DEF Sound, FirstShown
<1>8. at \subseteq Nat
  BY <1>3, <1>5
<1>9. Lowest(at) = j
  BY <1>6, <1>7, <1>8, LowestOf
<1>10. j \in Live(slots)
  BY <1>2, <1>3, LiveIs, Constants
<1>11. PICK shown : shown = at \cap Live(slots)
  OBVIOUS
<1>12. Lowest(shown) = j /\ shown # {}
  <2>1. shown \subseteq Nat /\ j \in shown /\ \A i \in shown : j <= i
    BY <1>6, <1>7, <1>8, <1>10, <1>11
  <2> QED BY <2>1, LowestOf
<1>13. get_file_size(v, d, c) = slots[j].size
  <2>1. get_file_size(v, d, c) = IF shown = {} THEN 0 ELSE slots[Lowest(shown)].size
    BY <1>2, <1>4, <1>11, Zenon DEF get_file_size
  <2> QED BY <1>12, <2>1
<1> QED BY <1>1, <1>2, <1>4, <1>6, <1>9, <1>13 DEF FirstCarrier

LEMMA ReadKeeps ==
  ASSUME IInv, NEW fd \in Fd, NEW len \in Lengths, Read(fd, len)
  PROVE  IInv'
<1>1. PICK o : o = ofile[fd]
  OBVIOUS
<1>2. PICK left : left = get_file_size(vol, o.parent, o.first) - o.off
  OBVIOUS
<1>3. PICK chained : chained = Length(vol, o.first) * ENTRIES - o.off
  OBVIOUS
<1>4. PICK m : m = Lowest({len, left, chained})
  OBVIOUS
<1>5. /\ o # NoFile /\ left > 0 /\ chained > 0
      /\ ofile' = [ofile EXCEPT ![fd].off = @ + m]
      /\ vol' = vol /\ cwd_cluster' = cwd_cluster
  BY <1>1, <1>2, <1>3, <1>4, Zenon DEF Read
<1>6. ofile \in [Fd -> FdType \cup {NoFile}] /\ Good(vol)
  BY DEF IInv
<1>7. o \in FdType
  BY <1>1, <1>5, <1>6
<1>8. OnFile(vol, o)
  BY <1>1, <1>5 DEF IInv
<1>9. PICK s \in Slots(vol) : s[1] = o.parent /\ ~ At(vol, s).dir /\ At(vol, s).first = o.first
                              /\ o.off <= At(vol, s).size
  BY <1>8 DEF OnFile
<1>10. PICK way, depth : Sound(vol, way, depth, {})
  BY <1>6 DEF Good
<1>11. get_file_size(vol, o.parent, o.first) = At(vol, s).size
  <2>1. FirstCarrier(vol, s)
    BY <1>9, <1>10, CarrierIs
  <2> QED BY <1>9, <2>1 DEF FirstCarrier
<1>12. PICK size : size = At(vol, s).size
  OBVIOUS
<1>13. size \in Nat /\ o.off \in Nat /\ left \in Nat
  <2>1. At(vol, s) \in SlotType
    <3>1. s[1] \in Place /\ s[2] \in 1 .. Len(vol.slots[s[1]]) /\ At(vol, s) = vol.slots[s[1]][s[2]]
      BY SlotParts
    <3> QED BY <1>10, <3>1, VolParts, ListingParts DEF Sound
  <2>2. size \in Nat /\ o.off \in Nat
    BY <1>7, <1>12, <2>1 DEF SlotType, FdType
  <2> QED BY <1>2, <1>5, <1>11, <1>12, <2>2
<1>14. chained \in Nat
  <2>1. PICK c, w : c = o.first /\ w = way[s]
    OBVIOUS
  <2>2. vol \in Vols /\ Laid(vol, way, {})
    BY <1>10 DEF Sound
  <2>3. w \in Seq(Cluster) /\ Follows(vol, w) /\ Once(w) /\ w[1] = c /\ Len(w) \in Nat
    BY <1>9, <2>1, <2>2, LaidParts
  <2>4. vol.fat \in [Cluster -> Link]
    BY <2>2, VolParts
  <2>5. Length(vol, c) = Len(w)
    BY <2>3, <2>4, WayLength
  <2>6. PICK n \in Nat : n = Length(vol, c)
    BY <2>3, <2>5
  <2>7. PICK e \in Nat : e = ENTRIES
    BY Constants
  <2>8. n * e \in Nat
    OBVIOUS
  <2>9. chained = n * e - o.off
    BY <1>3, <2>1, <2>6, <2>7
  <2>10. PICK p \in Nat : p = n * e
    BY <2>8
  <2> QED BY <1>5, <1>13, <2>9, <2>10
<1>15. m \in Nat /\ m <= left
  <2>1. {len, left, chained} \subseteq Nat /\ left \in {len, left, chained}
    BY <1>13, <1>14, Fat16Assumption
  <2> QED BY <1>4, <2>1, LowestIs
<1>16. PICK new : new = [o EXCEPT !.off = @ + m]
  OBVIOUS
<1>17. ofile' = [ofile EXCEPT ![fd] = new]
  BY <1>1, <1>5, <1>6, <1>16
<1>18. new \in FdType /\ new.parent = o.parent /\ new.first = o.first /\ new.off = o.off + m
  BY <1>7, <1>13, <1>15, <1>16 DEF FdType
<1>19. OnFile(vol, new)
  <2>1. left = size - o.off
    BY <1>2, <1>11, <1>12
  <2>2. new.off <= size
    BY <1>13, <1>15, <1>18, <2>1
  <2> QED BY <1>9, <1>12, <1>18, <2>2 DEF OnFile
<1>20. ofile' \in [Fd -> FdType \cup {NoFile}]
  BY <1>6, <1>17, <1>18
<1>21. ASSUME NEW x \in Fd, ofile'[x] # NoFile
       PROVE  OnFile(vol, ofile'[x])
  <2>1. CASE x = fd
    BY <1>6, <1>17, <1>19, <2>1
  <2>2. CASE x # fd
    <3>1. ofile'[x] = ofile[x]
      BY <1>6, <1>17, <2>2
    <3> QED BY <1>21, <3>1 DEF IInv
  <2> QED BY <2>1, <2>2
<1> QED BY <1>5, <1>6, <1>20, <1>21 DEF IInv

\* ---- Files ----

\* u is v with another size in the entry s.
Resized(v, way, depth, s, size, u) ==
  /\ u.fat = v.fat /\ u.data = v.data /\ u \in Vols
  /\ DirsOf(u) = DirsOf(v) /\ Slots(u) = Slots(v)
  /\ \A t \in Slots(v) : At(u, t) = IF t = s THEN [At(v, s) EXCEPT !.size = size] ELSE At(v, t)
  /\ \A x \in Place : Len(u.slots[x]) = Len(v.slots[x])
  /\ Sound(u, way, depth, {})

LEMMA SizeSound ==
  ASSUME NEW v, NEW way, NEW depth, Sound(v, way, depth, {}), NEW s \in Slots(v), ~ At(v, s).dir,
         NEW size \in Nat, NEW u, u = update_file_size(v, s[1], At(v, s).first, size)
  PROVE  Resized(v, way, depth, s, size, u)
<1>1. PICK d, j, e : d = s[1] /\ j = s[2] /\ e = [At(v, s) EXCEPT !.size = size]
  OBVIOUS
<1>2. v \in Vols
  BY DEF Sound
<1>3. /\ d \in Place /\ j \in 1 .. Len(v.slots[d]) /\ At(v, s) = v.slots[d][j]
      /\ At(v, s).name \in Name /\ s = <<d, j>>
  BY <1>1, SlotParts
<1>4. v.slots[d] \in Listing /\ Len(v.slots[d]) \in Nat /\ v.slots[d][j] \in SlotType
  BY <1>2, <1>3, VolParts, ListingParts
<1>5. /\ e \in SlotType /\ e.name = v.slots[d][j].name
      /\ e.first = v.slots[d][j].first /\ e.dir = v.slots[d][j].dir
  BY <1>1, <1>3, <1>4 DEF SlotType
<1>6. FirstCarrier(v, s)
  BY CarrierIs
<1>7. u = [v EXCEPT !.slots[d][j].size = size]
  <2>1. PICK at : at = Carrying(v.slots[d], At(v, s).first)
    OBVIOUS
  <2>2. at # {} /\ Lowest(at) = j
    BY <1>1, <1>6, <2>1 DEF FirstCarrier
  <2>3. u = IF at = {} THEN v ELSE [v EXCEPT !.slots[d][Lowest(at)].size = size]
    BY <1>1, <2>1 DEF update_file_size
  <2> QED BY <2>2, <2>3
<1>8. u = [v EXCEPT !.slots[d][j] = e]
  BY <1>1, <1>3, <1>7
<1>9. Put(v, d, j, e, u)
  <2>1. e.name # UNUSED
    BY <1>3, <1>5, Constants DEF Bare
  <2>2. \A i \in 1 .. j - 1 : v.slots[d][i].name # UNUSED
    <3> SUFFICES ASSUME NEW i \in 1 .. j - 1, v.slots[d][i].name = UNUSED
                 PROVE  FALSE
      OBVIOUS
    <3>1. i \in 1 .. Len(v.slots[d]) /\ i < j
      BY <1>3, <1>4
    <3>2. v.slots[d][j].name = UNUSED
      BY <1>3, <1>4, <3>1 DEF Listing, Solid
    <3> QED BY <1>5, <2>1, <3>2
  <2> QED BY <1>2, <1>3, <1>5, <1>8, <2>1, <2>2, PutIs
<1>10. Reslotted(v, way, depth, {}, d, j, e, u)
  BY <1>3, <1>5, <1>9, PutSound
<1>11. /\ Slots(u) = Slots(v)
       /\ \A t \in Slots(v) : At(u, t) = IF t = <<d, j>> THEN e ELSE At(v, t)
       /\ Sound(u, way, depth, {})
  BY <1>10, Zenon DEF Reslotted
<1>12. /\ u \in Vols /\ u.fat = v.fat /\ u.data = v.data /\ DirsOf(u) = DirsOf(v)
       /\ \A x \in Place : x # d => u.slots[x] = v.slots[x]
       /\ Len(u.slots[d]) = Len(v.slots[d])
  BY <1>9, Zenon DEF Put
<1>13. \A x \in Place : Len(u.slots[x]) = Len(v.slots[x])
  BY <1>12
<1> QED BY <1>1, <1>3, <1>11, <1>12, <1>13 DEF Resized

LEMMA OneBlock ==
  \A n \in Nat : 1 * n = n /\ 0 <= n
OBVIOUS

LEMMA OnePut ==
  ASSUME NEW D, NEW E, NEW f \in [D -> E], NEW x, NEW e \in E
  PROVE  [f EXCEPT ![x] = e] \in [D -> E]
OBVIOUS

LEMMA VolOf ==
  ASSUME NEW v, v = [fat |-> v.fat, slots |-> v.slots, data |-> v.data],
         v.fat \in [Cluster -> Link], v.slots \in [Place -> Listing],
         v.data \in [Cluster -> [Ptr -> {0, 1, OLD}]]
  PROVE  v \in Vols
BY DEF Vols

\* u is v with the file s emptied.
Emptied(v, s, u) ==
  /\ Good(u) /\ DirsOf(u) = DirsOf(v) /\ Slots(u) = Slots(v)
  /\ \A t \in Slots(v) : At(u, t) = IF t = s THEN [At(v, s) EXCEPT !.size = 0] ELSE At(v, t)

LEMMA EmptySound ==
  ASSUME NEW v, Good(v), NEW s \in Slots(v), ~ At(v, s).dir, NEW c, c = At(v, s).first,
         Length(v, c) <= GUARD,
         NEW cut, cut = free_cluster_chain(Ended(v, c), v.fat[c]),
         NEW old, old = [cut EXCEPT !.data[c] = [i \in 0 .. ENTRIES - 1 |-> IF @[i] = 0 THEN 0 ELSE OLD]],
         NEW u, u = update_file_size(old, s[1], c, 0)
  PROVE  Emptied(v, s, u)
<1>1. PICK way, depth : Sound(v, way, depth, {}) /\ Sized(v, way)
  BY DEF Good
<1>2. v \in Vols /\ Laid(v, way, {})
  BY <1>1 DEF Sound
<1>3. PICK w : w = way[s]
  OBVIOUS
<1>4. w \in Seq(Cluster) /\ Follows(v, w) /\ Once(w) /\ w[1] = c /\ c \in Cluster /\ Len(w) \in Nat
  <2>1. /\ way[s] \in Seq(Cluster) /\ Len(way[s]) \in Nat /\ Follows(v, way[s])
        /\ way[s][1] = At(v, s).first /\ Once(way[s]) /\ At(v, s).first \in Cluster
    BY <1>2, LaidParts, ZenonT(60)
  <2> QED BY <1>3, <2>1, Zenon
<1>5. Len(w) <= GUARD
  <2>1. v.fat \in [Cluster -> Link]
    BY <1>2, VolParts
  <2>2. Length(v, w[1]) = Len(w)
    BY <1>4, <2>1, WayLength
  <2> QED BY <1>4, <2>2
<1>6. /\ cut \in Vols /\ cut.slots = v.slots
      /\ \A x \in Cluster : cut.fat[x] = IF x = c THEN EOC
                                         ELSE IF x \in Clusters(w) THEN FREE ELSE v.fat[x]
  <2>1. c = w[1]
    BY <1>4
  <2>2. Truncated(v, w, c, cut)
    BY <1>2, <1>4, <1>5, <2>1, TruncIs
  <2> QED BY <2>2, Zenon DEF Truncated
<1>7. PICK words : words = [i \in 0 .. ENTRIES - 1 |-> IF cut.data[c][i] = 0 THEN 0 ELSE OLD]
  OBVIOUS
<1>8. /\ cut.data \in [Cluster -> [Ptr -> {0, 1, OLD}]]
      /\ cut.fat \in [Cluster -> Link] /\ cut.slots \in [Place -> Listing]
      /\ cut = [fat |-> cut.fat, slots |-> cut.slots, data |-> cut.data]
  BY <1>6, VolParts
<1>9. words \in [Ptr -> {0, 1, OLD}]
  BY <1>7 DEF Ptr
<1>10. old = [cut EXCEPT !.data = [cut.data EXCEPT ![c] = words]]
  BY <1>7
<1>11. /\ old.fat = cut.fat /\ old.slots = cut.slots /\ old.data = [cut.data EXCEPT ![c] = words]
       /\ old = [fat |-> old.fat, slots |-> old.slots, data |-> old.data]
  BY <1>8, <1>10
<1>12. old \in Vols
  <2>1. [cut.data EXCEPT ![c] = words] \in [Cluster -> [Ptr -> {0, 1, OLD}]]
    BY <1>8, <1>9, OnePut, Zenon
  <2>2. old.data \in [Cluster -> [Ptr -> {0, 1, OLD}]]
    BY <1>11, <2>1, Zenon
  <2>3. old.fat \in [Cluster -> Link] /\ old.slots \in [Place -> Listing]
    BY <1>8, <1>11, Zenon
  <2> QED BY <1>11, <2>2, <2>3, VolOf, Zenon
<1>13. Cut(v, way, depth, s, old)
  <2>1. \A x \in Cluster : old.fat[x] = IF x = At(v, s).first THEN EOC
                                        ELSE IF x \in Clusters(way[s]) THEN FREE ELSE v.fat[x]
    <3>1. At(v, s).first = c /\ way[s] = w /\ old.fat = cut.fat
      BY <1>3, <1>11
    <3>2. \A x \in Cluster : old.fat[x] = IF x = c THEN EOC
                                           ELSE IF x \in Clusters(w) THEN FREE ELSE v.fat[x]
      BY <1>6, <3>1
    <3> QED BY <3>1, <3>2
  <2>2. old.slots = v.slots
    BY <1>6, <1>11
  <2> QED BY <1>1, <1>12, <2>1, <2>2, CutSound
<1>14. PICK one, new : one = <<c>> /\ new = [way EXCEPT ![s] = one]
  OBVIOUS
<1>15. /\ DirsOf(old) = DirsOf(v) /\ Slots(old) = Slots(v) /\ \A t \in Slots(v) : At(old, t) = At(v, t)
       /\ Sound(old, new, depth, {})
  BY <1>13, <1>14, Zenon DEF Cut
<1>16. Len(one) = 1 /\ new[s] = one /\ \A t \in Slots(v) : t # s => new[t] = way[t]
  BY <1>2, <1>14, LaidParts
<1>17. Resized(old, new, depth, s, 0, u)
  <2>1. s \in Slots(old) /\ ~ At(old, s).dir /\ At(old, s).first = c
    BY <1>15
  <2> QED BY <1>15, <2>1, SizeSound
<1>18. /\ DirsOf(u) = DirsOf(old) /\ Slots(u) = Slots(old)
       /\ \A t \in Slots(old) : At(u, t) = IF t = s THEN [At(old, s) EXCEPT !.size = 0] ELSE At(old, t)
       /\ \A x \in Place : Len(u.slots[x]) = Len(old.slots[x])
       /\ Sound(u, new, depth, {})
  BY <1>17, Zenon DEF Resized
<1>19. DirsOf(u) = DirsOf(v) /\ Slots(u) = Slots(v)
       /\ \A t \in Slots(v) : At(u, t) = IF t = s THEN [At(v, s) EXCEPT !.size = 0] ELSE At(v, t)
  <2>1. DirsOf(u) = DirsOf(v) /\ Slots(u) = Slots(v) /\ At(old, s) = At(v, s)
    BY <1>15, <1>18
  <2>2. ASSUME NEW t \in Slots(v)
        PROVE  At(u, t) = IF t = s THEN [At(v, s) EXCEPT !.size = 0] ELSE At(v, t)
    <3>1. At(old, t) = At(v, t) /\ t \in Slots(old)
      BY <1>15
    <3>2. At(u, t) = IF t = s THEN [At(old, s) EXCEPT !.size = 0] ELSE At(old, t)
      BY <1>18, <3>1
    <3> QED BY <2>1, <3>1, <3>2
  <2> QED BY <2>1, <2>2
<1>20. At(v, s) \in SlotType
  <2>1. s[1] \in Place /\ s[2] \in 1 .. Len(v.slots[s[1]]) /\ At(v, s) = v.slots[s[1]][s[2]]
    BY SlotParts
  <2> QED BY <1>2, <2>1, VolParts, ListingParts
<1>21. Sized(u, new)
  <2> SUFFICES ASSUME NEW t \in Slots(v)
               PROVE  LET room == Len(new[t]) * ENTRIES
                      IN  IF At(u, t).dir THEN Len(u.slots[At(u, t).first]) = room
                          ELSE At(u, t).size <= room
    BY <1>19 DEF Sized
  <2>1. CASE t = s
    <3>1. ~ At(u, t).dir /\ At(u, t).size = 0
      BY <1>19, <1>20, <2>1 DEF SlotType
    <3>2. Len(new[t]) * ENTRIES = ENTRIES /\ 0 <= ENTRIES
      <4>1. PICK n \in Nat : n = ENTRIES
        BY Constants
      <4>2. 1 * n = n /\ 0 <= n
        BY OneBlock
      <4>3. Len(new[t]) = 1
        BY <1>16, <2>1
      <4> QED BY <4>1, <4>2, <4>3
    <3> QED BY <3>1, <3>2
  <2>2. CASE t # s
    <3>1. new[t] = way[t] /\ At(u, t) = At(v, t)
      BY <1>16, <1>19, <2>2
    <3>2. At(v, t).first \in Place
      BY <1>2, EntryFirst DEF Place
    <3>3. old.slots = v.slots
      BY <1>6, <1>11
    <3>4. Len(u.slots[At(v, t).first]) = Len(v.slots[At(v, t).first])
      BY <1>18, <3>2, <3>3
    <3>5. PICK room : room = Len(way[t]) * ENTRIES
      OBVIOUS
    <3>6. IF At(v, t).dir THEN Len(v.slots[At(v, t).first]) = room ELSE At(v, t).size <= room
      BY <1>1, <3>5 DEF Sized
    <3> QED BY <3>1, <3>4, <3>5, <3>6
  <2> QED BY <2>1, <2>2
<1> QED BY <1>18, <1>19, <1>21 DEF Emptied, Good

LEMMA OnFileStays ==
  ASSUME IInv, NEW u,
         \A t \in Slots(vol) : OpenOn(At(vol, t).first) # {} => t \in Slots(u) /\ At(u, t) = At(vol, t),
         NEW fd \in Fd, ofile[fd] # NoFile
  PROVE  OnFile(u, ofile[fd])
<1>1. PICK s \in Slots(vol) : s[1] = ofile[fd].parent /\ ~ At(vol, s).dir
                              /\ At(vol, s).first = ofile[fd].first /\ ofile[fd].off <= At(vol, s).size
  BY DEF IInv, OnFile
<1>2. fd \in OpenOn(At(vol, s).first)
  BY <1>1 DEF OpenOn
<1>3. s \in Slots(u) /\ At(u, s) = At(vol, s)
  BY <1>2
<1> QED BY <1>1, <1>3 DEF OnFile

\* A file gets a descriptor, or none is left.
LEMMA OpenedKeeps ==
  ASSUME IInv, NEW u, u = vol', Good(u), DirsOf(u) = DirsOf(vol), cwd_cluster' = cwd_cluster,
         \A t \in Slots(vol) : OpenOn(At(vol, t).first) # {} => t \in Slots(u) /\ At(u, t) = At(vol, t),
         NEW new \in FdType, OnFile(u, new),
         ofile' = IF FreeFds = {} THEN ofile ELSE [ofile EXCEPT ![Lowest(FreeFds)] = new]
  PROVE  IInv'
<1>1. ofile \in [Fd -> FdType \cup {NoFile}] /\ cwd_cluster \in DirsOf(vol)
  BY DEF IInv
<1>2. PICK x : x = Lowest(FreeFds)
  OBVIOUS
<1>3. ofile' \in [Fd -> FdType \cup {NoFile}]
  BY <1>1
<1>4. ASSUME NEW fd \in Fd, ofile'[fd] # NoFile
      PROVE  OnFile(u, ofile'[fd])
  <2>1. CASE FreeFds # {} /\ fd = x
    <3>1. ofile'[fd] = new
      BY <1>1, <1>2, <2>1
    <3> QED BY <3>1
  <2>2. CASE ~ (FreeFds # {} /\ fd = x)
    <3>1. ofile'[fd] = ofile[fd]
      BY <1>1, <1>2, <2>2
    <3> QED BY <1>4, <3>1, OnFileStays
  <2> QED BY <2>1, <2>2
<1> QED BY <1>1, <1>3, <1>4 DEF IInv

LEMMA OpenKeeps ==
  ASSUME IInv, Careful, WithinGuard, NEW path \in Paths, NEW flags \in Flags, Open(path, flags)
  PROVE  IInv' /\ Outcome(vol, vol')
<1>1. PICK e : e = TargetEntry(path)
  OBVIOUS
<1>2. PICK v : v = vol
  OBVIOUS
<1>3. PICK c : c = e.first
  OBVIOUS
<1>4. PICK cut : cut = free_cluster_chain(Ended(v, c), v.fat[c])
  OBVIOUS
<1>5. PICK old : old = [cut EXCEPT !.data[c] = [i \in 0 .. ENTRIES - 1 |-> IF @[i] = 0 THEN 0 ELSE OLD]]
  OBVIOUS
<1>6. PICK new : new = [first |-> c, parent |-> Parent(path),
                        off |-> IF "APPEND" \in flags THEN e.size ELSE 0]
  OBVIOUS
<1>7. PICK u : u = vol'
  OBVIOUS
<1>8. /\ path.parts # << >> /\ Exists(path) /\ ~ e.dir
      /\ "TRUNC" \in flags /\ OpenOn(c) # {} => Takes("trunc")
      /\ u = IF "TRUNC" \in flags THEN update_file_size(old, Parent(path), c, 0) ELSE v
      /\ ofile' = IF FreeFds = {} THEN ofile ELSE [ofile EXCEPT ![Lowest(FreeFds)] = new]
      /\ cwd_cluster' = cwd_cluster
  BY <1>1, <1>2, <1>3, <1>4, <1>5, <1>6, <1>7, Zenon DEF Open, Ended
<1>9. Good(vol) /\ cwd_cluster \in DirsOf(vol)
  BY DEF IInv
<1>10. basename(path) \in Name
  <2>1. Leads(path)
    BY <1>9, PathLeads
  <2>2. basename(path) \in Part /\ (basename(path) \in Dots => e.dir)
    BY <1>1, <1>8, <2>1 DEF Leads, Find
  <2> QED BY <1>8, <2>2 DEF Part, Dots
<1>11. PICK s : IsTarget(path, s)
  BY <1>8, <1>9, <1>10, TargetSlot
<1>12. /\ s \in Slots(vol) /\ s[1] = Parent(path) /\ At(vol, s) = e
       /\ ~ At(vol, s).dir /\ At(vol, s).first = c
  BY <1>1, <1>3, <1>8, <1>11 DEF IsTarget
<1>13. c \in Cluster /\ Parent(path) \in Place /\ e.size \in Nat
  <2>1. PICK way, depth : Sound(vol, way, depth, {})
    BY <1>9 DEF Good
  <2>2. c \in Cluster
    BY <1>12, <2>1, EntryFirst DEF Sound
  <2>3. s[1] \in Place /\ s[2] \in 1 .. Len(vol.slots[s[1]]) /\ At(vol, s) = vol.slots[s[1]][s[2]]
    BY <1>12, SlotParts
  <2>4. At(vol, s) \in SlotType
    BY <2>1, <2>3, VolParts, ListingParts DEF Sound
  <2> QED BY <1>12, <2>2, <2>3, <2>4 DEF SlotType
<1>14. /\ new \in FdType /\ new.first = c /\ new.parent = Parent(path)
       /\ new.off = IF "APPEND" \in flags THEN e.size ELSE 0
  <2>1. (IF "APPEND" \in flags THEN e.size ELSE 0) \in Nat
    BY <1>13
  <2>2. PICK off \in Nat : off = IF "APPEND" \in flags THEN e.size ELSE 0
    BY <2>1
  <2>3. new = [first |-> c, parent |-> Parent(path), off |-> off]
    BY <1>6, <2>2
  <2> QED BY <1>13, <2>2, <2>3 DEF FdType
<1>15. CASE "TRUNC" \in flags
  <2>1. "APPEND" \notin flags
    <3>1. flags \subseteq {"TRUNC", "APPEND"}
      BY Fat16Assumption
    <3>2. flags # {"TRUNC", "APPEND"}
      BY DEF Careful
    <3> QED BY <1>15, <3>1, <3>2
  <2>2. OpenOn(c) = {}
    BY <1>8, <1>15 DEF Careful, Takes
  <2>3. Emptied(v, s, u)
    <3>1. Good(v) /\ Length(v, c) <= GUARD
      BY <1>2, <1>9, <1>12, GuardIs
    <3>2. s \in Slots(v) /\ ~ At(v, s).dir /\ c = At(v, s).first
      BY <1>2, <1>12
    <3>3. u = update_file_size(old, s[1], c, 0)
      BY <1>8, <1>12, <1>15
    <3> QED BY <1>4, <1>5, <3>1, <3>2, <3>3, EmptySound
  <2>4. /\ Good(u) /\ DirsOf(u) = DirsOf(vol) /\ Slots(u) = Slots(vol)
        /\ \A t \in Slots(vol) : At(u, t) = IF t = s THEN [At(vol, s) EXCEPT !.size = 0] ELSE At(vol, t)
    BY <1>2, <2>3, Zenon DEF Emptied
  <2>5. \A t \in Slots(vol) : OpenOn(At(vol, t).first) # {} => t \in Slots(u) /\ At(u, t) = At(vol, t)
    BY <1>12, <2>2, <2>4
  <2>6. OnFile(u, new)
    <3>1. PICK g : g = [At(vol, s) EXCEPT !.size = 0]
      OBVIOUS
    <3>2. At(vol, s) \in SlotType
      BY <1>9, <1>12, SlotTyped
    <3>3. ~ g.dir /\ g.first = c /\ g.size = 0
      BY <1>12, <3>1, <3>2 DEF SlotType
    <3>4. s \in Slots(u) /\ At(u, s) = g
      BY <1>12, <2>4, <3>1
    <3>5. new.off <= At(u, s).size
      BY <1>14, <2>1, <3>3, <3>4
    <3> QED BY <1>12, <1>14, <3>3, <3>4, <3>5 DEF OnFile
  <2>7. Outcome(vol, u)
    <3>1. At(vol, s) \in SlotType
      BY <1>9, <1>12, SlotTyped
    <3>2. PICK g : g = [At(vol, s) EXCEPT !.size = 0]
      OBVIOUS
    <3>3. g.name = At(vol, s).name /\ g.dir = At(vol, s).dir /\ g.first = At(vol, s).first
      BY <3>1, <3>2 DEF SlotType
    <3>4. Alike(vol, u)
      BY <2>4, <3>2, <3>3 DEF Alike
    <3> QED BY <3>4 DEF Outcome
  <2>8. IInv'
    BY <1>7, <1>8, <1>14, <2>4, <2>5, <2>6, OpenedKeeps
  <2> QED BY <1>7, <2>7, <2>8
<1>16. CASE "TRUNC" \notin flags
  <2>1. u = vol
    BY <1>2, <1>8, <1>16
  <2>2. OnFile(u, new)
    <3>1. new.off <= At(vol, s).size
      BY <1>12, <1>13, <1>14
    <3> QED BY <1>12, <1>14, <2>1, <3>1 DEF OnFile
  <2>3. IInv'
    BY <1>7, <1>8, <1>9, <1>14, <2>1, <2>2, OpenedKeeps
  <2> QED BY <1>7, <2>1, <2>3 DEF Outcome, Alike
<1> QED BY <1>15, <1>16

\* The words of files play no part in what is sound.
LEMMA WordsSound ==
  ASSUME NEW v, NEW way, NEW depth, Sound(v, way, depth, {}), Sized(v, way),
         NEW data \in [Cluster -> [Ptr -> {0, 1, OLD}]], NEW u, u = [v EXCEPT !.data = data]
  PROVE  /\ DirsOf(u) = DirsOf(v) /\ Slots(u) = Slots(v) /\ \A s \in Slots(v) : At(u, s) = At(v, s)
         /\ Sound(u, way, depth, {}) /\ Sized(u, way) /\ u.fat = v.fat /\ u.slots = v.slots
<1>1. v \in Vols /\ Laid(v, way, {})
  BY DEF Sound
<1>2. /\ v.fat \in [Cluster -> Link] /\ v.slots \in [Place -> Listing]
      /\ v = [fat |-> v.fat, slots |-> v.slots, data |-> v.data]
  BY <1>1, VolParts
<1>3. /\ u.fat = v.fat /\ u.slots = v.slots /\ u.data = data
      /\ u = [fat |-> u.fat, slots |-> u.slots, data |-> u.data]
  BY <1>2
<1>4. u \in Vols
  BY <1>2, <1>3 DEF Vols
<1>5. Slots(u) = Slots(v) /\ \A s \in Slots(v) : At(u, s) = At(v, s)
  BY <1>3 DEF Slots, DirsOf, At
<1>6. Laid(u, way, {})
  <2>1. \A s \in Slots(v) : At(u, s).first = At(v, s).first /\ (At(u, s).dir <=> At(v, s).dir)
    BY <1>5
  <2>2. \A c \in Cluster : Covered(v, way, c) =>
          u.fat[c] = v.fat[c] /\ (u.slots[c] # << >> <=> v.slots[c] # << >>)
    BY <1>3
  <2>3. \A c \in Cluster : u.fat[c] # FREE => c \in {} \/ Covered(v, way, c)
    BY <1>1, <1>3 DEF Laid
  <2>4. \A c \in {} : c \in Cluster /\ u.fat[c] = EOC /\ ~ Covered(v, way, c)
    OBVIOUS
  <2> QED BY <1>1, <1>5, <2>1, <2>2, <2>3, <2>4, LaidKept
<1>7. /\ DirsOf(u) = DirsOf(v) /\ Slots(u) = Slots(v) /\ \A s \in Slots(v) : At(u, s) = At(v, s)
      /\ Sound(u, way, depth, {})
  <2>1. \A c \in Cluster : v.slots[c] # << >> => (u.fat[c] # FREE <=> v.fat[c] # FREE)
    BY <1>3
  <2>2. PICK none : none = {}
    OBVIOUS
  <2>3. u.slots = v.slots /\ Sound(v, way, depth, none) /\ Laid(u, way, none)
    BY <1>3, <1>6, <2>2
  <2>4. /\ DirsOf(u) = DirsOf(v) /\ Slots(u) = Slots(v) /\ \A s \in Slots(v) : At(u, s) = At(v, s)
        /\ Sound(u, way, depth, none)
    BY <1>4, <2>1, <2>3, SoundKept
  <2> QED BY <2>2, <2>4
<1>8. Sized(u, way)
  BY <1>3, <1>5 DEF Sized
<1> QED BY <1>3, <1>7, <1>8

LEMMA Longest ==
  \A m, n, e \in Nat : m <= n => m * e <= n * e
<1> SUFFICES ASSUME NEW m \in Nat, NEW n \in Nat, NEW e \in Nat, m <= n
             PROVE  m * e <= n * e
  OBVIOUS
<1>1. PICK d \in Nat : n = m + d
  <2>1. n - m \in Nat /\ n = m + (n - m)
    OBVIOUS
  <2> QED BY <2>1
<1>2. n * e = m * e + d * e /\ d * e >= 0
  BY <1>1
<1> QED BY <1>2

\* A chain that grew holds what it held.
Roomy(v, way, depth, s, z, u) ==
  /\ z \in Seq(Cluster) /\ Len(z) >= Len(way[s])
  /\ Sound(u, [way EXCEPT ![s] = z], depth, {}) /\ Sized(u, [way EXCEPT ![s] = z])
  /\ DirsOf(u) = DirsOf(v) /\ Slots(u) = Slots(v) /\ \A t \in Slots(v) : At(u, t) = At(v, t)

LEMMA GrownSized ==
  ASSUME NEW v, NEW way, NEW depth, Sound(v, way, depth, {}), Sized(v, way),
         NEW s \in Slots(v), ~ At(v, s).dir, NEW k \in Nat, NEW i,
         NEW u, u \in Grown(v, way, depth, {}, s, k, i)
  PROVE  \E z : Roomy(v, way, depth, s, z, u)
<1>1. v \in Vols /\ Laid(v, way, {})
  BY DEF Sound
<1>2. /\ u \in Vols /\ Stays(v, u) /\ DirsOf(u) = DirsOf(v)
      /\ Slots(u) = Slots(v) /\ \A t \in Slots(v) : At(u, t) = At(v, t)
  BY DEF Grown
<1>3. PICK z \in Seq(Cluster) :
        Sound(u, [way EXCEPT ![s] = z], depth, {}) /\ Len(z) >= Len(way[s])
  BY Zenon DEF Grown
<1>4. PICK new : new = [way EXCEPT ![s] = z]
  OBVIOUS
<1>5. new[s] = z /\ \A t \in Slots(v) : t # s => new[t] = way[t]
  BY <1>1, <1>4, LaidParts
<1>6. Sized(u, new)
  <2> SUFFICES ASSUME NEW t \in Slots(v)
               PROVE  LET room == Len(new[t]) * ENTRIES
                      IN  IF At(v, t).dir THEN Len(u.slots[At(v, t).first]) = room
                          ELSE At(v, t).size <= room
    BY <1>2 DEF Sized
  <2>1. CASE t = s
    <3>1. PICK m, n, e : m = Len(way[s]) /\ n = Len(z) /\ e = ENTRIES
      OBVIOUS
    <3>2. m \in Nat /\ n \in Nat /\ e \in Nat /\ m <= n
      BY <1>1, <1>3, <3>1, LaidParts, Constants
    <3>3. PICK p, q : p = m * e /\ q = n * e
      OBVIOUS
    <3>4. p <= q /\ p \in Int /\ q \in Int
      BY <3>2, <3>3, Longest
    <3>5. At(v, s).size <= p
      BY <3>1, <3>3 DEF Sized
    <3>6. At(v, s).size \in Nat
      <4>1. s[1] \in Place /\ s[2] \in 1 .. Len(v.slots[s[1]]) /\ At(v, s) = v.slots[s[1]][s[2]]
        BY SlotParts
      <4>2. At(v, s) \in SlotType
        BY <1>1, <4>1, VolParts, ListingParts
      <4> QED BY <4>2 DEF SlotType
    <3>7. At(v, s).size <= q
      BY <3>4, <3>5, <3>6
    <3>8. Len(new[t]) * ENTRIES = q
      BY <1>5, <2>1, <3>1, <3>3
    <3> QED BY <2>1, <3>7, <3>8
  <2>2. CASE t # s
    <3>1. At(v, t).first \in Cluster /\ v.fat[At(v, t).first] # FREE
      BY <1>1, EntryFirst
    <3>2. u.slots[At(v, t).first] = v.slots[At(v, t).first]
      BY <1>2, <3>1 DEF Stays
    <3> QED BY <1>5, <2>2, <3>2 DEF Sized
  <2> QED BY <2>1, <2>2
<1>7. Roomy(v, way, depth, s, z, u)
  BY <1>2, <1>3, <1>4, <1>6, Zenon DEF Roomy
<1> QED BY <1>7

\* u is v after a write to the file s that ends at end.
Wrote(v, s, end, u) ==
  /\ Good(u) /\ DirsOf(u) = DirsOf(v) /\ Slots(u) = Slots(v)
  /\ \A t \in Slots(v) : t # s => At(u, t) = At(v, t)
  /\ ~ At(u, s).dir /\ At(u, s).first = At(v, s).first /\ At(u, s).name = At(v, s).name
  /\ At(v, s).size \in Nat /\ At(u, s).size \in Nat
  /\ At(v, s).size <= At(u, s).size /\ end <= At(u, s).size

\* Where a write stops: not before it starts, nor behind the end of the chain.
LEMMA EndIs ==
  ASSUME NEW off \in Nat, NEW len \in Nat, NEW room \in Nat, off <= room,
         NEW end, end = IF room > off THEN Lowest({off + len, room}) ELSE off
  PROVE  end \in Nat /\ off <= end /\ end <= room
<1>1. CASE room > off
  <2>1. PICK S : S = {off + len, room}
    OBVIOUS
  <2>2. S \subseteq Nat /\ S # {} /\ room \in S
    BY <2>1
  <2>3. PICK m : m = Lowest(S)
    OBVIOUS
  <2>4. m \in S /\ m <= room
    BY <2>2, <2>3, LowestIs
  <2>5. end = m
    BY <1>1, <2>1, <2>3
  <2>6. m \in Nat /\ off <= m
    BY <1>1, <2>1, <2>4
  <2> QED BY <2>4, <2>5, <2>6
<1>2. CASE ~ (room > off)
  BY <1>2
<1> QED BY <1>1, <1>2

\* What Write computes: the volume g with the chain of c longer, w with the words in
\* it, and u with the size in the entry.
Writes(v, d, c, off, len, k, g, room, end, data, w, u) ==
  /\ g = Extended(v, c, k) /\ room = Length(g, c) * ENTRIES
  /\ end = IF room > off THEN Lowest({off + len, room}) ELSE off
  /\ g \in Vols => data \in [Cluster -> [Ptr -> {0, 1, OLD}]]
  /\ w = [g EXCEPT !.data = data]
  /\ u = IF end > get_file_size(g, d, c) THEN update_file_size(w, d, c, end) ELSE w

LEMMA WriteSound ==
  ASSUME NEW v, Good(v), NEW s \in Slots(v), ~ At(v, s).dir, NEW c, c = At(v, s).first,
         NEW off \in Nat, off <= At(v, s).size, NEW len \in Nat, NEW k \in Nat, NEW d, d = s[1],
         NEW g, NEW room, NEW end, NEW data, NEW w, NEW u,
         Writes(v, d, c, off, len, k, g, room, end, data, w, u)
  PROVE  Wrote(v, s, end, u) /\ end \in Nat
<1>0. /\ g = Extended(v, c, k) /\ room = Length(g, c) * ENTRIES
      /\ end = IF room > off THEN Lowest({off + len, room}) ELSE off
      /\ g \in Vols => data \in [Cluster -> [Ptr -> {0, 1, OLD}]]
      /\ w = [g EXCEPT !.data = data]
      /\ u = IF end > get_file_size(g, s[1], c) THEN update_file_size(w, s[1], c, end) ELSE w
  BY Zenon DEF Writes
<1>1. PICK way, depth : Sound(v, way, depth, {}) /\ Sized(v, way)
  BY DEF Good
<1>2. c = way[s][1]
  BY <1>1, LaidParts DEF Sound
<1>3. g \in Grown(v, way, depth, {}, s, k, k)
  BY <1>0, <1>1, <1>2, ExtendedGrown
<1>4. PICK z : Roomy(v, way, depth, s, z, g)
  BY <1>1, <1>3, GrownSized
<1>5. PICK new : new = [way EXCEPT ![s] = z]
  OBVIOUS
<1>6. /\ Sound(g, new, depth, {}) /\ Sized(g, new)
      /\ DirsOf(g) = DirsOf(v) /\ Slots(g) = Slots(v) /\ \A t \in Slots(v) : At(g, t) = At(v, t)
  BY <1>4, <1>5, Zenon DEF Roomy
<1>7. g \in Vols /\ Laid(g, new, {}) /\ At(g, s) = At(v, s)
  BY <1>6 DEF Sound
<1>8. /\ DirsOf(w) = DirsOf(g) /\ Slots(w) = Slots(g) /\ \A t \in Slots(g) : At(w, t) = At(g, t)
      /\ Sound(w, new, depth, {}) /\ Sized(w, new)
  <2>1. data \in [Cluster -> [Ptr -> {0, 1, OLD}]]
    BY <1>0, <1>7
  <2> QED BY <1>0, <1>6, <2>1, WordsSound
<1>9. PICK size : size = At(v, s).size
  OBVIOUS
<1>10. size \in Nat /\ At(v, s) \in SlotType
  <2>1. s[1] \in Place /\ s[2] \in 1 .. Len(v.slots[s[1]]) /\ At(v, s) = v.slots[s[1]][s[2]]
    BY SlotParts
  <2>2. At(v, s) \in SlotType
    <3>1. v \in Vols
      BY <1>1 DEF Sound
    <3>2. v.slots[s[1]] \in Listing
      BY <2>1, <3>1, VolParts
    <3> QED BY <2>1, <3>2, ListingParts
  <2> QED BY <1>9, <2>2 DEF SlotType
<1>11. get_file_size(g, s[1], c) = size
  <2>1. s \in Slots(g) /\ ~ At(g, s).dir
    BY <1>6
  <2>2. FirstCarrier(g, s)
    BY <1>6, <2>1, CarrierIs
  <2> QED BY <1>7, <1>9, <2>2 DEF FirstCarrier
<1>12. room = Len(new[s]) * ENTRIES /\ room \in Nat
  <2>1. PICK y : y = new[s]
    OBVIOUS
  <2>2. s \in Slots(g)
    BY <1>6
  <2>3. y \in Seq(Cluster) /\ Follows(g, y) /\ Once(y) /\ y[1] = c /\ Len(y) \in Nat
    BY <1>7, <2>1, <2>2, LaidParts
  <2>4. g.fat \in [Cluster -> Link]
    BY <1>7, VolParts
  <2>5. Length(g, c) = Len(y)
    BY <2>3, <2>4, WayLength
  <2>6. PICK n, e \in Nat : n = Len(y) /\ e = ENTRIES
    BY <2>3, Constants
  <2>7. n * e \in Nat
    BY <2>6, OneBlock
  <2> QED BY <1>0, <2>1, <2>5, <2>6, <2>7
<1>13. size <= room
  <2>1. s \in Slots(g) /\ ~ At(g, s).dir /\ At(g, s).size = size
    BY <1>6, <1>9
  <2> QED BY <1>6, <1>12, <2>1 DEF Sized
<1>14. end \in Nat /\ off <= end /\ end <= room
  <2>1. off <= room
    BY <1>9, <1>10, <1>12, <1>13
  <2> QED BY <1>0, <1>12, <2>1, EndIs
<1>15. CASE end > size
  <2>1. u = update_file_size(w, s[1], c, end)
    BY <1>0, <1>11, <1>15
  <2>2. s \in Slots(w) /\ At(w, s) = At(v, s)
    BY <1>6, <1>8
  <2>3. Resized(w, new, depth, s, end, u)
    BY <1>8, <1>14, <2>1, <2>2, SizeSound
  <2>4. PICK e : e = [At(w, s) EXCEPT !.size = end]
    OBVIOUS
  <2>5. ~ e.dir /\ e.first = c /\ e.size = end /\ e.name = At(v, s).name
    <3>1. At(w, s) = At(v, s)
      BY <1>6, <1>8
    <3> QED BY <1>10, <2>2, <2>4, <3>1 DEF SlotType
  <2>6. /\ DirsOf(u) = DirsOf(w) /\ Slots(u) = Slots(w)
        /\ \A t \in Slots(w) : At(u, t) = IF t = s THEN e ELSE At(w, t)
        /\ \A x \in Place : Len(u.slots[x]) = Len(w.slots[x])
        /\ Sound(u, new, depth, {})
    BY <2>3, <2>4, Zenon DEF Resized
  <2>7. /\ DirsOf(u) = DirsOf(v) /\ Slots(u) = Slots(v)
        /\ \A t \in Slots(v) : At(u, t) = IF t = s THEN e ELSE At(v, t)
    <3>1. DirsOf(u) = DirsOf(v) /\ Slots(w) = Slots(v) /\ Slots(u) = Slots(v)
      BY <1>6, <1>8, <2>6
    <3>2. \A t \in Slots(v) : At(w, t) = At(v, t)
      BY <1>6, <1>8
    <3>3. \A t \in Slots(v) : At(u, t) = IF t = s THEN e ELSE At(w, t)
      BY <2>6, <3>1
    <3> QED BY <3>1, <3>2, <3>3
  <2>8. Sized(u, new)
    <3> SUFFICES ASSUME NEW t \in Slots(v)
                 PROVE  LET y == Len(new[t]) * ENTRIES
                        IN  IF At(u, t).dir THEN Len(u.slots[At(u, t).first]) = y
                            ELSE At(u, t).size <= y
      BY <2>7 DEF Sized
    <3>1. CASE t = s
      <4>1. At(u, t) = e
        BY <2>7, <3>1
      <4> QED BY <1>12, <1>14, <2>5, <3>1, <4>1
    <3>2. CASE t # s
      <4>1. At(u, t) = At(v, t) /\ At(w, t) = At(v, t) /\ t \in Slots(w)
        BY <1>6, <1>8, <2>7, <3>2
      <4>2. At(w, t).first \in Place
        BY <1>8, <4>1, EntryFirst DEF Place, Sound
      <4>3. Len(u.slots[At(w, t).first]) = Len(w.slots[At(w, t).first])
        BY <2>6, <4>2
      <4> QED BY <1>8, <4>1, <4>3 DEF Sized
    <3> QED BY <3>1, <3>2
  <2>9. Good(u)
    BY <2>6, <2>8 DEF Good
  <2>10. At(u, s) = e
    BY <2>7
  <2>11. size <= end
    BY <1>10, <1>14, <1>15
  <2>12. /\ \A t \in Slots(v) : t # s => At(u, t) = At(v, t)
         /\ ~ At(u, s).dir /\ At(u, s).first = At(v, s).first /\ At(u, s).name = At(v, s).name
         /\ At(v, s).size \in Nat /\ At(u, s).size \in Nat
         /\ At(v, s).size <= At(u, s).size /\ end <= At(u, s).size
    BY <1>9, <1>10, <1>14, <2>5, <2>7, <2>10, <2>11
  <2> QED BY <1>14, <2>7, <2>9, <2>12, Zenon DEF Wrote
<1>16. CASE ~ (end > size)
  <2>1. u = w
    BY <1>0, <1>11, <1>16
  <2>2. DirsOf(u) = DirsOf(v) /\ Slots(u) = Slots(v) /\ \A t \in Slots(v) : At(u, t) = At(v, t)
    BY <1>6, <1>8, <2>1
  <2>3. Good(u)
    BY <1>8, <2>1 DEF Good
  <2>4. end <= size
    BY <1>10, <1>14, <1>16
  <2>5. /\ \A t \in Slots(v) : t # s => At(u, t) = At(v, t)
        /\ ~ At(u, s).dir /\ At(u, s).first = At(v, s).first /\ At(u, s).name = At(v, s).name
        /\ At(v, s).size \in Nat /\ At(u, s).size \in Nat
        /\ At(v, s).size <= At(u, s).size /\ end <= At(u, s).size
    BY <1>9, <1>10, <2>2, <2>4
  <2> QED BY <1>14, <2>2, <2>3, <2>5, Zenon DEF Wrote
<1> QED BY <1>15, <1>16

LEMMA WriteKeeps ==
  ASSUME IInv, NEW fd \in Fd, NEW len \in Lengths, Write(fd, len)
  PROVE  IInv' /\ Outcome(vol, vol')
<1>1. PICK o, v : o = ofile[fd] /\ v = vol
  OBVIOUS
<1>2. PICK c : c = o.first
  OBVIOUS
<1>3. PICK last : last = IF len = 0 THEN o.off ELSE o.off + len - 1
  OBVIOUS
<1>4. PICK k : k = (last \div ENTRIES) + 1
  OBVIOUS
<1>5. PICK g : g = Extended(v, c, k)
  OBVIOUS
<1>6. PICK room : room = Length(g, c) * ENTRIES
  OBVIOUS
<1>7. PICK end : end = IF room > o.off THEN Lowest({o.off + len, room}) ELSE o.off
  OBVIOUS
<1> DEFINE Written(x, i) ==
      \E p \in Chain(g, c, CLUSTERS + 1) : p[2] = x /\ (p[1] - 1) * ENTRIES + i \in o.off .. end - 1
<1>8. PICK data : data = [x \in Cluster |-> [i \in 0 .. ENTRIES - 1 |->
                            IF Written(x, i) THEN 1 ELSE g.data[x][i]]]
  OBVIOUS
<1>9. PICK w : w = [g EXCEPT !.data = data]
  OBVIOUS
<1>10. PICK u : u = vol'
  OBVIOUS
<1>11. /\ o # NoFile
       /\ u = IF end > get_file_size(g, o.parent, c) THEN update_file_size(w, o.parent, c, end) ELSE w
       /\ ofile' = [ofile EXCEPT ![fd].off = end]
       /\ cwd_cluster' = cwd_cluster
  <2>1. w = [g EXCEPT !.data = [x \in Cluster |-> [i \in 0 .. ENTRIES - 1 |->
                                  IF Written(x, i) THEN 1 ELSE @[x][i]]]]
    BY <1>8, <1>9, Zenon
  <2> QED BY <1>1, <1>2, <1>3, <1>4, <1>5, <1>6, <1>7, <1>10, <2>1, ZenonT(60) DEF Write
<1>12. g \in Vols => data \in [Cluster -> [Ptr -> {0, 1, OLD}]]
  <2> SUFFICES ASSUME g \in Vols
               PROVE  data \in [Cluster -> [Ptr -> {0, 1, OLD}]]
    OBVIOUS
  <2>1. g.data \in [Cluster -> [Ptr -> {0, 1, OLD}]]
    BY VolParts
  <2> HIDE DEF Written
  <2>2. \A x \in Cluster, i \in Ptr : (IF Written(x, i) THEN 1 ELSE g.data[x][i]) \in {0, 1, OLD}
    BY <2>1
  <2> QED BY <1>8, <2>2 DEF Ptr
<1> HIDE DEF Written
<1>13. ofile \in [Fd -> FdType \cup {NoFile}] /\ Good(v) /\ cwd_cluster \in DirsOf(v)
  BY <1>1 DEF IInv
<1>14. o \in FdType /\ o.off \in Nat
  <2>1. o \in FdType
    BY <1>1, <1>11, <1>13
  <2> QED BY <2>1 DEF FdType
<1>15. OnFile(v, o)
  BY <1>1, <1>11 DEF IInv
<1>16. PICK s \in Slots(v) : s[1] = o.parent /\ ~ At(v, s).dir /\ At(v, s).first = c /\ o.off <= At(v, s).size
  BY <1>2, <1>15 DEF OnFile
<1>17. k \in Nat
  <2>1. PICK m \in Nat : m = last
    BY <1>3, <1>14, Fat16Assumption
  <2>2. PICK e \in Nat \ {0} : e = ENTRIES
    BY Constants
  <2>3. m \div e \in Nat
    OBVIOUS
  <2> QED BY <1>4, <2>1, <2>2, <2>3
<1>18. Wrote(v, s, end, u) /\ end \in Nat
  <2>1. len \in Nat
    BY Fat16Assumption
  <2>2. PICK off \in Nat : off = o.off
    BY <1>14
  <2>3. PICK d : d = o.parent
    OBVIOUS
  <2>4. Writes(v, d, c, off, len, k, g, room, end, data, w, u)
    BY <1>5, <1>6, <1>7, <1>9, <1>11, <1>12, <2>2, <2>3, Zenon DEF Writes
  <2>5. off <= At(v, s).size /\ d = s[1] /\ ~ At(v, s).dir /\ c = At(v, s).first
    BY <1>16, <2>2, <2>3
  <2> QED BY <1>13, <1>17, <2>1, <2>4, <2>5, WriteSound
<1>19. /\ Good(u) /\ DirsOf(u) = DirsOf(v) /\ Slots(u) = Slots(v)
       /\ \A t \in Slots(v) : t # s => At(u, t) = At(v, t)
       /\ ~ At(u, s).dir /\ At(u, s).first = At(v, s).first /\ At(u, s).name = At(v, s).name
       /\ At(v, s).size \in Nat /\ At(u, s).size \in Nat
       /\ At(v, s).size <= At(u, s).size /\ end <= At(u, s).size
  BY <1>18, Zenon DEF Wrote
<1>20. PICK new : new = [o EXCEPT !.off = end]
  OBVIOUS
<1>21. ofile' = [ofile EXCEPT ![fd] = new]
  BY <1>1, <1>11, <1>13, <1>20
<1>22. new \in FdType /\ new.parent = o.parent /\ new.first = o.first /\ new.off = end
  BY <1>14, <1>18, <1>20 DEF FdType
<1>23. OnFile(u, new)
  BY <1>2, <1>16, <1>19, <1>22 DEF OnFile
<1>24. ofile' \in [Fd -> FdType \cup {NoFile}]
  BY <1>13, <1>21, <1>22
<1>25. ASSUME NEW x \in Fd, ofile'[x] # NoFile
       PROVE  OnFile(u, ofile'[x])
  <2>1. CASE x = fd
    BY <1>13, <1>21, <1>23, <2>1
  <2>2. CASE x # fd
    <3>1. ofile'[x] = ofile[x] /\ ofile[x] # NoFile
      BY <1>13, <1>21, <1>25, <2>2
    <3>2. PICK f : f = ofile[x]
      OBVIOUS
    <3>3. OnFile(v, f) /\ f.off \in Nat
      <4>1. f \in FdType
        BY <1>13, <3>1, <3>2
      <4> QED BY <1>1, <3>1, <3>2, <4>1 DEF IInv, FdType
    <3>4. PICK t \in Slots(v) : t[1] = f.parent /\ ~ At(v, t).dir /\ At(v, t).first = f.first
                                /\ f.off <= At(v, t).size
      BY <3>3 DEF OnFile
    <3>5. ~ At(u, t).dir /\ At(u, t).first = f.first /\ f.off <= At(u, t).size
      <4>1. CASE t = s
        BY <1>19, <3>3, <3>4, <4>1
      <4>2. CASE t # s
        BY <1>19, <3>4, <4>2
      <4> QED BY <4>1, <4>2
    <3>6. OnFile(u, f)
      BY <1>19, <3>4, <3>5 DEF OnFile
    <3> QED BY <3>1, <3>2, <3>6
  <2> QED BY <2>1, <2>2
<1>26. Outcome(vol, u)
  <2>1. At(u, s).dir = At(v, s).dir
    <3>1. Good(u) /\ s \in Slots(u)
      BY <1>19
    <3>2. At(u, s).dir \in BOOLEAN /\ At(v, s).dir \in BOOLEAN
      BY <1>13, <3>1, SlotTyped
    <3> QED BY <1>16, <1>19, <3>2
  <2>2. Alike(v, u)
    BY <1>19, <2>1 DEF Alike
  <2> QED BY <1>1, <2>2 DEF Outcome
<1>27. IInv'
  BY <1>10, <1>11, <1>13, <1>19, <1>24, <1>25 DEF IInv
<1> QED BY <1>10, <1>26, <1>27

\* ---- The specification ----

LEMMA Unchanged ==
  ASSUME vol' = vol
  PROVE  Outcome(vol, vol')
<1>1. Alike(vol, vol)
  BY DEF Alike
<1> QED BY <1>1 DEF Outcome

LEMMA NextKeeps ==
  ASSUME IInv, Careful, WithinGuard, [Next]_vars
  PROVE  IInv' /\ Outcome(vol, vol')
<1>1. CASE UNCHANGED vars
  <2>1. IInv'
    BY <1>1 DEF vars, IInv
  <2> QED BY <1>1, <2>1, Unchanged DEF vars
<1>2. CASE Next
  <2>1. ASSUME NEW path \in Paths, Create(path)
        PROVE  IInv' /\ Outcome(vol, vol')
    BY <2>1, CreateKeeps
  <2>2. ASSUME NEW path \in Paths, Mkdir(path)
        PROVE  IInv' /\ Outcome(vol, vol')
    BY <2>2, MkdirKeeps
  <2>3. ASSUME NEW path \in Paths, Delete(path)
        PROVE  IInv' /\ Outcome(vol, vol')
    BY <2>3, DeleteKeeps
  <2>4. ASSUME NEW path \in Paths, Rmdir(path)
        PROVE  IInv' /\ Outcome(vol, vol')
    BY <2>4, RmdirKeeps
  <2>5. ASSUME NEW path \in Paths, Chdir(path)
        PROVE  IInv' /\ Outcome(vol, vol')
    BY <2>5, ChdirKeeps, Unchanged DEF Chdir
  <2>6. ASSUME NEW path \in Paths, NEW flags \in Flags, Open(path, flags)
        PROVE  IInv' /\ Outcome(vol, vol')
    BY <2>6, OpenKeeps
  <2>7. ASSUME NEW fd \in Fd, Close(fd)
        PROVE  IInv' /\ Outcome(vol, vol')
    BY <2>7, CloseKeeps, Unchanged DEF Close
  <2>8. ASSUME NEW fd \in Fd, NEW len \in Lengths, Read(fd, len)
        PROVE  IInv' /\ Outcome(vol, vol')
    BY <2>8, ReadKeeps, Unchanged DEF Read
  <2>9. ASSUME NEW fd \in Fd, NEW len \in Lengths, Write(fd, len)
        PROVE  IInv' /\ Outcome(vol, vol')
    BY <2>9, WriteKeeps
  <2>10. ASSUME Mount
         PROVE  IInv' /\ Outcome(vol, vol')
    BY <2>10, MountKeeps, Unchanged DEF Mount
  <2> QED BY <1>2, <2>1, <2>2, <2>3, <2>4, <2>5, <2>6, <2>7, <2>8, <2>9,
             FormatKeeps, <2>10 DEF Next
<1> QED BY <1>1, <1>2

\* ---- What the invariant says of the volume ----

\* The chain of an entry, as the model walks it.
LEMMA ChainIs ==
  ASSUME NEW v, NEW way, v \in Vols, Laid(v, way, {}), NEW s \in Slots(v), NEW c, c = At(v, s).first
  PROVE  /\ Chain(v, c, CLUSTERS + 1) = {<<k, way[s][k]>> : k \in 1 .. Len(way[s])}
         /\ Length(v, c) = Len(way[s])
<1>1. PICK w : w = way[s]
  OBVIOUS
<1>2. w \in Seq(Cluster) /\ Follows(v, w) /\ Once(w) /\ w[1] = c
  BY <1>1, LaidParts
<1>3. v.fat \in [Cluster -> Link]
  BY VolParts
<1>4. Chain(v, c, CLUSTERS + 1) = {<<k, w[k]>> : k \in 1 .. Len(w)} /\ Length(v, c) = Len(w)
  BY <1>2, <1>3, WayLength
<1> QED BY <1>1, <1>4

LEMMA OwnedParts ==
  ASSUME Good(vol), NEW o \in Owners
  PROVE  \E s \in Slots(vol) : o = Owned(s) /\ o.in = s[1] /\ o.at = s[2] /\ o.e = At(vol, s)
<1>1. PICK s \in Slots(vol) : o = Owned(s)
  BY OwnersIs
<1> QED BY <1>1 DEF Owned

LEMMA OwnedHold ==
  ASSUME Good(vol)
  PROVE  ClustersOwned
<1>1. PICK way, depth : Sound(vol, way, depth, {})
  BY DEF Good
<1>2. vol \in Vols /\ Laid(vol, way, {})
  BY <1>1 DEF Sound
<1> DEFINE used == Cluster \ FreeClusters(vol)
           held == UNION {{<<o, p[1], p[2]>> : p \in Chain(vol, o.e.first, CLUSTERS + 1)} : o \in Owners}
           Is(h, s, i) == i \in 1 .. Len(way[s]) /\ h = <<Owned(s), i, way[s][i]>>
<1>3. ASSUME NEW h \in held
      PROVE  \E s \in Slots(vol), i \in Nat : Is(h, s, i)
  <2>1. PICK o \in Owners : h \in {<<o, p[1], p[2]>> : p \in Chain(vol, o.e.first, CLUSTERS + 1)}
    BY <1>3
  <2>2. PICK s \in Slots(vol) : o = Owned(s) /\ o.e = At(vol, s)
    BY <1>1, OwnedParts DEF Good
  <2>3. Chain(vol, o.e.first, CLUSTERS + 1) = {<<k, way[s][k]>> : k \in 1 .. Len(way[s])}
    <3>1. PICK c : c = At(vol, s).first
      OBVIOUS
    <3>2. Chain(vol, c, CLUSTERS + 1) = {<<k, way[s][k]>> : k \in 1 .. Len(way[s])}
      BY <1>2, <3>1, ChainIs
    <3> QED BY <2>2, <3>1, <3>2
  <2>4. PICK p \in Chain(vol, o.e.first, CLUSTERS + 1) : h = <<o, p[1], p[2]>>
    BY <2>1
  <2>5. PICK i \in 1 .. Len(way[s]) : p = <<i, way[s][i]>>
    BY <2>3, <2>4
  <2>6. h = <<Owned(s), i, way[s][i]>> /\ i \in Nat
    BY <2>2, <2>4, <2>5
  <2> QED BY <2>5, <2>6
<1>4. ASSUME NEW s \in Slots(vol), NEW i \in 1 .. Len(way[s])
      PROVE  <<Owned(s), i, way[s][i]>> \in held
  <2>1. PICK o : o = Owned(s)
    OBVIOUS
  <2>2. o \in Owners /\ o.e = At(vol, s)
    BY <1>1, <2>1, OwnersIs DEF Good, Owned
  <2>3. Chain(vol, o.e.first, CLUSTERS + 1) = {<<k, way[s][k]>> : k \in 1 .. Len(way[s])}
    <3>1. PICK c : c = At(vol, s).first
      OBVIOUS
    <3>2. Chain(vol, c, CLUSTERS + 1) = {<<k, way[s][k]>> : k \in 1 .. Len(way[s])}
      BY <1>2, <3>1, ChainIs
    <3> QED BY <2>2, <3>1, <3>2
  <2>4. PICK p : p = <<i, way[s][i]>>
    OBVIOUS
  <2>5. p \in Chain(vol, o.e.first, CLUSTERS + 1) /\ p[1] = i /\ p[2] = way[s][i]
    BY <2>3, <2>4
  <2> QED BY <2>1, <2>2, <2>5
<1> HIDE DEF held
<1>5. \A c : c \in used <=> c \in Cluster /\ vol.fat[c] # FREE
  BY DEF FreeClusters
<1> HIDE DEF used
<1>6. ASSUME NEW h \in held
      PROVE  h[3] \in used
  <2>1. PICK s \in Slots(vol), i \in Nat : Is(h, s, i)
    BY <1>3
  <2>2. h[3] = way[s][i] /\ i \in 1 .. Len(way[s])
    BY <2>1
  <2> QED BY <1>2, <1>5, <2>2, LaidParts
<1>7. ASSUME NEW c \in used
      PROVE  \E h \in held : h[3] = c
  <2>1. Covered(vol, way, c)
    BY <1>2, <1>5 DEF Laid
  <2>2. PICK s \in Slots(vol) : \E i \in 1 .. Len(way[s]) : c = way[s][i]
    BY <2>1 DEF Covered
  <2>3. PICK i \in 1 .. Len(way[s]) : c = way[s][i]
    BY <2>2
  <2>4. PICK h : h = <<Owned(s), i, way[s][i]>>
    OBVIOUS
  <2>5. h \in held /\ h[3] = c
    BY <1>4, <2>3, <2>4
  <2> QED BY <2>5
<1>8. ASSUME NEW h \in held, NEW g \in held, h[3] = g[3]
      PROVE  h = g
  <2>1. PICK s \in Slots(vol), i \in Nat : Is(h, s, i)
    BY <1>3
  <2>2. PICK t \in Slots(vol), j \in Nat : Is(g, t, j)
    BY <1>3
  <2>3. way[s][i] = way[t][j] /\ i \in 1 .. Len(way[s]) /\ j \in 1 .. Len(way[t])
    BY <1>8, <2>1, <2>2
  <2>4. s = t /\ i = j
    BY <1>2, <2>3 DEF Laid, Apart
  <2> QED BY <2>1, <2>2, <2>4
<1>9. {h[3] : h \in held} = used
  <2>1. \A c \in used : c \in {h[3] : h \in held}
    BY <1>7
  <2> QED BY <1>6, <2>1
<1>10. Cardinality(held) = Cardinality(used)
  <2>1. PICK g : g = [c \in used |-> CHOOSE h \in held : h[3] = c]
    OBVIOUS
  <2>2. \A c \in used : g[c] \in held /\ g[c][3] = c
    BY <1>7, <2>1
  <2>3. g \in Bijection(used, held)
    <3>1. g \in [used -> held]
      BY <2>1, <2>2
    <3>2. \A b, c \in used : g[b] = g[c] => b = c
      BY <2>2
    <3>3. ASSUME NEW h \in held
          PROVE  \E c \in used : g[c] = h
      <4>1. h[3] \in used
        BY <1>6
      <4>2. g[h[3]] = h
        BY <1>8, <2>2, <4>1
      <4> QED BY <4>1, <4>2
    <3> QED BY <3>1, <3>2, <3>3 DEF Bijection, Injection, Surjection, IsInjective
  <2>4. ExistsBijection(used, held)
    BY <2>3 DEF ExistsBijection
  <2>5. IsFiniteSet(used)
    <3>1. used \subseteq Cluster
      BY <1>5
    <3> QED BY <3>1, Constants, FS_Subset
  <2> QED BY <2>4, <2>5, FS_Bijection
<1>11. ClustersOwned <=> {h[3] : h \in held} = used /\ Cardinality(held) = Cardinality(used)
  BY Zenon DEF ClustersOwned, held, used
<1> QED BY <1>9, <1>10, <1>11

LEMMA SizesHold ==
  ASSUME Good(vol)
  PROVE  SizeWithinChain
<1>1. PICK way, depth : Sound(vol, way, depth, {}) /\ Sized(vol, way)
  BY DEF Good
<1>2. vol \in Vols /\ Laid(vol, way, {})
  BY <1>1 DEF Sound
<1> SUFFICES ASSUME NEW o \in Owners
             PROVE  LET room == Length(vol, o.e.first) * ENTRIES
                    IN  IF o.e.dir THEN Len(vol.slots[o.e.first]) = room ELSE o.e.size <= room
  BY Zenon DEF SizeWithinChain
<1>3. PICK s \in Slots(vol) : o.e = At(vol, s)
  BY OwnedParts
<1>4. Length(vol, o.e.first) = Len(way[s])
  <2>1. PICK c : c = At(vol, s).first
    OBVIOUS
  <2>2. Length(vol, c) = Len(way[s])
    BY <1>2, <2>1, ChainIs
  <2> QED BY <1>3, <2>1, <2>2
<1> QED BY <1>1, <1>3, <1>4 DEF Sized

LEMMA EntriesHold ==
  ASSUME Good(vol)
  PROVE  SizeKeptInEntry
<1> SUFFICES ASSUME NEW o \in Files
             PROVE  Lowest(Carrying(vol.slots[o.in], o.e.first)) = o.at
  BY Zenon DEF SizeKeptInEntry
<1>1. o \in Owners /\ ~ o.e.dir
  BY DEF Files
<1>2. PICK s \in Slots(vol) : o.in = s[1] /\ o.at = s[2] /\ o.e = At(vol, s)
  BY <1>1, OwnedParts
<1>3. PICK way, depth : Sound(vol, way, depth, {})
  BY DEF Good
<1>4. FirstCarrier(vol, s)
  BY <1>1, <1>2, <1>3, CarrierIs
<1> QED BY <1>2, <1>4 DEF FirstCarrier

LEMMA OpenHold ==
  ASSUME IInv
  PROVE  OpenFilesLive
<1> SUFFICES ASSUME NEW fd \in Fd \ FreeFds
             PROVE  \E o \in Files : o.in = ofile[fd].parent /\ o.e.first = ofile[fd].first
  BY Zenon DEF OpenFilesLive
<1>1. OnFile(vol, ofile[fd]) /\ Good(vol)
  BY DEF FreeFds, IInv
<1>2. PICK s \in Slots(vol) : s[1] = ofile[fd].parent /\ ~ At(vol, s).dir /\ At(vol, s).first = ofile[fd].first
  BY <1>1 DEF OnFile
<1>3. Owned(s) \in Owners
  BY <1>1, OwnersIs
<1>4. PICK o : o = Owned(s)
  OBVIOUS
<1>5. o.in = s[1] /\ o.e = At(vol, s)
  BY <1>4 DEF Owned
<1>6. o \in Files
  BY <1>2, <1>3, <1>4, <1>5 DEF Files
<1> QED BY <1>2, <1>5, <1>6

\* The name n is in the slot j of d and in no other.
OnlyAt(d, n, j) ==
  \A i \in 1 .. Len(vol.slots[d]) : vol.slots[d][i].name = n <=> i = j

\* A name that one slot of the directory has is found there.
LEMMA FoundOne ==
  ASSUME Good(vol), NEW d \in DirsOf(vol), NEW n, n \notin Bare, NEW j \in 1 .. Len(vol.slots[d]),
         OnlyAt(d, n, j)
  PROVE  Found(d, n, FALSE) = vol.slots[d][j]
<1>1. PICK slots : slots = vol.slots[d]
  OBVIOUS
<1>2. slots \in Listing
  BY <1>1, VolParts DEF Good, Sound, DirsOf, Place
<1>3. PICK named : named = {i \in Live(slots) : slots[i].name = n}
  OBVIOUS
<1>4. named = {j}
  BY <1>1, <1>2, <1>3, LiveIs DEF OnlyAt
<1>5. Lowest(named) = j
  <2>1. j \in Nat
    BY <1>1, <1>2, ListingParts
  <2>2. named \subseteq Nat /\ j \in named /\ \A i \in named : j <= i
    BY <1>4, <2>1
  <2> QED BY <2>2, LowestOf
<1>6. Found(d, n, FALSE) = IF named = {} THEN NoEntry ELSE slots[Lowest(named)]
  BY <1>1, <1>3 DEF Found
<1> QED BY <1>1, <1>4, <1>5, <1>6

LEMMA DotsHold ==
  ASSUME Good(vol)
  PROVE  DotsLead
<1>1. PICK way, depth : Sound(vol, way, depth, {})
  BY DEF Good
<1>2. vol \in Vols /\ Laid(vol, way, {}) /\ Shaped(vol) /\ Nested(vol, depth)
  BY <1>1 DEF Sound
<1>3. ASSUME NEW n \in Dots
      PROVE  Found(kRootCluster, n, FALSE) = NoEntry
  <2>1. PICK slots : slots = vol.slots[kRootCluster]
    OBVIOUS
  <2>2. slots \in Listing
    BY <1>2, <2>1, VolParts DEF Place
  <2>3. \A j \in 1 .. Len(slots) : slots[j].name \notin Dots
    BY <1>2, <2>1 DEF Shaped, DirsOf
  <2>4. {j \in Live(slots) : slots[j].name = n} = {}
    BY <2>2, <2>3, LiveIs
  <2> QED BY <2>1, <2>4 DEF Found
<1>4. ASSUME NEW o \in Owners \ Files
      PROVE  /\ Found(o.e.first, ".", FALSE).first = o.e.first
             /\ Found(o.e.first, "..", FALSE).first = o.in
  <2>1. PICK s \in Slots(vol) : o.in = s[1] /\ o.e = At(vol, s)
    BY <1>4, OwnedParts
  <2>2. At(vol, s).dir
    BY <1>4, <2>1 DEF Files
  <2>3. PICK d : d = At(vol, s).first
    OBVIOUS
  <2>4. d \in DirsOf(vol) /\ d # kRootCluster
    BY <1>2, <2>2, <2>3, EntryFirst, Constants
  <2>5. /\ Len(vol.slots[d]) >= 2
        /\ vol.slots[d][1].name = "." /\ vol.slots[d][1].first = d
        /\ vol.slots[d][2].name = ".."
        /\ \A j \in 1 .. Len(vol.slots[d]) : vol.slots[d][j].name \in Dots => j <= 2
    BY <1>2, <2>4 DEF Shaped, Dotted
  <2>6. vol.slots[d][2].first = s[1]
    BY <1>2, <2>2, <2>3 DEF Nested
  <2>7. PICK one, two : one = "." /\ two = ".."
    OBVIOUS
  <2>8. one \in Dots /\ two \in Dots /\ one # two /\ one \notin Bare /\ two \notin Bare
    BY <2>7, Constants DEF Dots
  <2>9. Len(vol.slots[d]) \in Nat
    BY <1>2, <2>4, VolParts, ListingParts DEF DirsOf, Place
  <2>10. ASSUME NEW i \in 1 .. Len(vol.slots[d])
         PROVE  /\ vol.slots[d][i].name = one <=> i = 1
                /\ vol.slots[d][i].name = two <=> i = 2
    <3>1. CASE i <= 2
      <4>1. i = 1 \/ i = 2
        BY <3>1
      <4> QED BY <2>5, <2>7, <2>8, <4>1
    <3>2. CASE ~ (i <= 2)
      <4>1. vol.slots[d][i].name \notin Dots
        BY <2>5, <3>2
      <4> QED BY <2>8, <2>9, <3>2, <4>1
    <3> QED BY <3>1, <3>2
  <2>11. 1 \in 1 .. Len(vol.slots[d]) /\ 2 \in 1 .. Len(vol.slots[d])
    BY <2>5, <2>9
  <2>12. Found(d, one, FALSE) = vol.slots[d][1]
    <3>1. OnlyAt(d, one, 1)
      BY <2>10 DEF OnlyAt
    <3> QED BY <2>4, <2>8, <2>11, <3>1, FoundOne
  <2>13. Found(d, two, FALSE) = vol.slots[d][2]
    <3>1. OnlyAt(d, two, 2)
      BY <2>10 DEF OnlyAt
    <3> QED BY <2>4, <2>8, <2>11, <3>1, FoundOne
  <2> QED BY <2>1, <2>3, <2>5, <2>6, <2>7, <2>12, <2>13
<1>5. {Found(kRootCluster, n, FALSE) : n \in {".", ".."}} = {NoEntry}
  <2>1. \A n \in {".", ".."} : Found(kRootCluster, n, FALSE) = NoEntry
    BY <1>3 DEF Dots
  <2> QED BY <2>1
<1> QED BY <1>4, <1>5 DEF DotsLead

\* ---- Names ----

\* Callers whose names are as short as entries keep them.
PlainNames == \A n \in Name : Short[n] = n

\* A directory has each name once.
Distinct(v) ==
  \A s, t \in Slots(v) : s[1] = t[1] /\ At(v, s).name = At(v, t).name => s = t

LEMMA DistinctKept ==
  ASSUME NEW v, NEW u, Distinct(v), Outcome(v, u), PlainNames
  PROVE  Distinct(u)
<1>1. CASE Alike(v, u)
  BY <1>1 DEF Alike, Distinct
<1>2. ASSUME NEW s, Gains(v, u, s)
      PROVE  Distinct(u)
  <2>1. /\ Slots(u) = Slots(v) \cup {s} /\ \A t \in Slots(v) : At(u, t) = At(v, t)
        /\ \A t \in Slots(v) : t[1] = s[1] => At(v, t).name # At(u, s).name
    BY <1>2 DEF Gains, PlainNames
  <2> QED BY <2>1 DEF Distinct
<1>3. ASSUME NEW s, Loses(v, u, s)
      PROVE  Distinct(u)
  BY <1>3 DEF Loses, Distinct
<1>4. CASE Slots(u) = {}
  BY <1>4 DEF Distinct
<1> QED BY <1>1, <1>2, <1>3, <1>4 DEF Outcome

\* What is found of a name is the entry that has it.
LEMMA FoundEntry ==
  ASSUME Good(vol), Distinct(vol), NEW s \in Slots(vol), NEW dirs \in BOOLEAN, dirs => At(vol, s).dir
  PROVE  Found(s[1], At(vol, s).name, dirs) = At(vol, s)
<1>1. PICK d, n, j : d = s[1] /\ n = At(vol, s).name /\ j = s[2]
  OBVIOUS
<1>2. PICK slots : slots = vol.slots[d]
  OBVIOUS
<1>3. /\ d \in DirsOf(vol) /\ d \in Place /\ j \in 1 .. Len(slots) /\ j \in Nat
      /\ slots[j] = At(vol, s) /\ slots[j].name = n /\ n \in Name
  BY <1>1, <1>2, SlotParts
<1>4. slots \in Listing /\ Len(slots) \in Nat
  <2>1. vol \in Vols
    BY DEF Good, Sound
  <2> QED BY <1>2, <1>3, <2>1, VolParts, ListingParts
<1>5. PICK named : named = {i \in Live(slots) : slots[i].name = n /\ (dirs => slots[i].dir)}
  OBVIOUS
<1>6. Live(slots) = {i \in 1 .. Len(slots) : slots[i].name \notin Bare} /\ n \notin Bare
  BY <1>3, <1>4, LiveIs, Constants
<1>7. j \in named
  BY <1>3, <1>5, <1>6
<1>8. ASSUME NEW i \in named
      PROVE  i = j
  <2>1. i \in 1 .. Len(slots) /\ i \in Nat /\ slots[i].name = n
    BY <1>4, <1>5, <1>6
  <2>2. PICK t : t = <<d, i>>
    OBVIOUS
  <2>3. t \in Slots(vol) /\ t[1] = d /\ t[2] = i /\ At(vol, t).name = n
    BY <1>2, <1>3, <2>1, <2>2 DEF Slots, At
  <2>4. t = s
    BY <1>1, <2>3 DEF Distinct
  <2> QED BY <1>1, <2>3, <2>4
<1>9. Lowest(named) = j
  <2>1. named \subseteq Nat /\ \A i \in named : j <= i
    BY <1>3, <1>8
  <2> QED BY <1>7, <2>1, LowestOf
<1>10. Found(d, n, dirs) = IF named = {} THEN NoEntry ELSE slots[Lowest(named)]
  BY <1>2, <1>5 DEF Found
<1> QED BY <1>1, <1>3, <1>7, <1>9, <1>10

\* ---- The path of the current directory ----

\* Callers whose absolute paths have no dots, which cd keeps as they are.
PlainPaths == \A p \in Paths : p.abs => p.parts \in Seq(Name)

\* The slot s of d has the name n and leads to the directory c.
IsLink(v, s, d, n, c) ==
  s \in Slots(v) /\ s[1] = d /\ At(v, s).name = n /\ At(v, s).dir /\ At(v, s).first = c

\* The names of path lead from the root to c.
IsChain(v, w, path, c) ==
  /\ w = [k \in 0 .. Len(path) |-> w[k]] /\ w[0] = kRootCluster /\ w[Len(path)] = c
  /\ \A k \in 1 .. Len(path) : \E s : IsLink(v, s, w[k - 1], path[k], w[k])

LeadsTo(v, path, c) == path \in Seq(Name) /\ \E w : IsChain(v, w, path, c)

LEMMA LeadsNowhere ==
  ASSUME NEW v
  PROVE  LeadsTo(v, << >>, kRootCluster)
<1>1. PICK path : path = << >>
  OBVIOUS
<1>2. path \in Seq(Name) /\ Len(path) = 0 /\ 1 .. 0 = {}
  BY <1>1
<1>3. PICK w : w = [k \in 0 .. 0 |-> kRootCluster]
  OBVIOUS
<1>4. IsChain(v, w, path, kRootCluster)
  BY <1>2, <1>3 DEF IsChain
<1> QED BY <1>1, <1>2, <1>4 DEF LeadsTo

LEMMA LeadsUp ==
  ASSUME NEW v, Good(v), NEW path, NEW s \in Slots(v), At(v, s).dir,
         LeadsTo(v, path, At(v, s).first)
  PROVE  LeadsTo(v, SubSeq(path, 1, Len(path) - 1), s[1])
<1>1. PICK w : IsChain(v, w, path, At(v, s).first)
  BY DEF LeadsTo
<1>2. PICK way, depth : Sound(v, way, depth, {})
  BY DEF Good
<1>3. At(v, s).first # kRootCluster
  BY <1>2, EntryFirst, Constants DEF Sound
<1>4. path \in Seq(Name) /\ Len(path) \in Nat /\ Len(path) # 0
  BY <1>1, <1>3 DEF LeadsTo, IsChain
<1>5. PICK n \in Nat : Len(path) = n + 1
  <2>1. Len(path) - 1 \in Nat
    BY <1>4
  <2> QED BY <1>4, <2>1
<1>6. PICK front : front = SubSeq(path, 1, n)
  OBVIOUS
<1>7. front \in Seq(Name) /\ Len(front) = n /\ \A k \in 1 .. n : front[k] = path[k]
  BY <1>4, <1>5, <1>6
<1>8. PICK y : y = [k \in 0 .. n |-> w[k]]
  OBVIOUS
<1>9. PICK t : IsLink(v, t, w[n], path[n + 1], At(v, s).first)
  <2>1. n + 1 \in 1 .. Len(path) /\ n + 1 - 1 = n
    BY <1>5
  <2> QED BY <1>1, <1>5, <2>1 DEF IsChain
<1>10. t = s
  BY <1>2, <1>9, EntryFirst DEF IsLink, Sound
<1>11. w[n] = s[1]
  BY <1>9, <1>10 DEF IsLink
<1>12. IsChain(v, y, front, s[1])
  <2>1. y = [k \in 0 .. Len(front) |-> y[k]] /\ y[0] = kRootCluster /\ y[Len(front)] = s[1]
    BY <1>1, <1>7, <1>8, <1>11 DEF IsChain
  <2>2. ASSUME NEW k \in 1 .. Len(front)
        PROVE  \E x : IsLink(v, x, y[k - 1], front[k], y[k])
    <3>1. k \in 1 .. Len(path) /\ y[k - 1] = w[k - 1] /\ y[k] = w[k] /\ front[k] = path[k]
      BY <1>5, <1>7, <1>8
    <3> QED BY <1>1, <3>1 DEF IsChain
  <2> QED BY <2>1, <2>2 DEF IsChain
<1>13. Len(path) - 1 = n
  BY <1>5
<1> QED BY <1>6, <1>7, <1>12, <1>13 DEF LeadsTo

LEMMA LeadsDown ==
  ASSUME NEW v, NEW path, NEW d, LeadsTo(v, path, d), NEW n \in Name, NEW s, NEW c, IsLink(v, s, d, n, c)
  PROVE  LeadsTo(v, Append(path, n), c)
<1>1. PICK w : IsChain(v, w, path, d)
  BY DEF LeadsTo
<1>2. PICK m \in Nat : m = Len(path)
  BY DEF LeadsTo
<1>3. PICK longer : longer = Append(path, n)
  OBVIOUS
<1>4. PICK y : y = [k \in 0 .. m + 1 |-> IF k = m + 1 THEN c ELSE w[k]]
  OBVIOUS
<1>5. /\ longer \in Seq(Name) /\ Len(longer) = m + 1 /\ longer[m + 1] = n
      /\ \A k \in 1 .. m : longer[k] = path[k]
  BY <1>2, <1>3 DEF LeadsTo
<1>6. /\ w[0] = kRootCluster /\ w[m] = d
      /\ \A k \in 1 .. m : \E x : IsLink(v, x, w[k - 1], path[k], w[k])
  BY <1>1, <1>2 DEF IsChain
<1>7. y = [k \in 0 .. Len(longer) |-> y[k]] /\ y[0] = kRootCluster /\ y[Len(longer)] = c
  BY <1>4, <1>5, <1>6
<1>8. ASSUME NEW k \in 1 .. Len(longer)
      PROVE  \E x : IsLink(v, x, y[k - 1], longer[k], y[k])
  <2>1. CASE k = m + 1
    <3>1. y[k - 1] = d /\ longer[k] = n /\ y[k] = c
      BY <1>4, <1>5, <1>6, <2>1
    <3> QED BY <3>1
  <2>2. CASE k # m + 1
    <3>1. k \in 1 .. m /\ y[k - 1] = w[k - 1] /\ y[k] = w[k] /\ longer[k] = path[k]
      BY <1>4, <1>5, <2>2
    <3> QED BY <1>6, <3>1
  <2> QED BY <2>1, <2>2
<1>9. IsChain(v, y, longer, c)
  BY <1>7, <1>8 DEF IsChain
<1> QED BY <1>3, <1>5, <1>9 DEF LeadsTo

LEMMA ChainWalked ==
  ASSUME Good(vol), Distinct(vol), NEW path, NEW c, LeadsTo(vol, path, c)
  PROVE  Through(path, kRootCluster) = c
<1>1. PICK w : IsChain(vol, w, path, c)
  BY DEF LeadsTo
<1>2. /\ w = [k \in 0 .. Len(path) |-> w[k]] /\ w[0] = kRootCluster /\ w[Len(path)] = c
      /\ Len(path) \in Nat
  BY <1>1 DEF IsChain, LeadsTo
<1>3. ASSUME NEW k \in 1 .. Len(path)
      PROVE  w[k] = Hop(w[k - 1], path[k])
  <2>1. PICK s : IsLink(vol, s, w[k - 1], path[k], w[k])
    BY <1>1, <1>3 DEF IsChain
  <2>2. s \in Slots(vol) /\ At(vol, s).dir
    BY <2>1 DEF IsLink
  <2>3. PICK d, n : d = s[1] /\ n = At(vol, s).name
    OBVIOUS
  <2>4. Found(d, n, TRUE) = At(vol, s)
    BY <2>2, <2>3, FoundEntry
  <2>5. w[k - 1] = d /\ path[k] = n /\ w[k] = At(vol, s).first
    BY <2>1, <2>3 DEF IsLink
  <2>6. d # NONE
    BY <2>2, <2>3, SlotParts, Constants
  <2>7. Hop(d, n) = At(vol, s).first
    BY <2>4, <2>6 DEF Hop
  <2> QED BY <2>5, <2>7
<1> QED BY <1>2, <1>3, ThroughOf

\* What a directory's dots lead to.
DotLink(d, n, s, c) ==
  /\ s \in Slots(vol) /\ At(vol, s).dir /\ At(vol, s).first = d
  /\ c = IF n = "." THEN d ELSE s[1]

\* A name that is found among the directories of d is a link.
LEMMA NameStep ==
  ASSUME Good(vol), NEW d \in DirsOf(vol), NEW n \in Name, NEW dirs \in BOOLEAN,
         NEW e, e = Found(d, n, dirs), e.first # NONE, e.dir
  PROVE  \E s : IsLink(vol, s, d, n, e.first)
<1>1. Find(d, n, dirs, e)
  BY FoundIs DEF Part
<1>2. NoEntry.first = NONE
  BY DEF NoEntry, Entry
<1>3. PICK j \in 1 .. Len(vol.slots[d]) : e = vol.slots[d][j] /\ e.name = n
  BY <1>1, <1>2 DEF Find
<1>4. PICK s : s = <<d, j>>
  OBVIOUS
<1>5. s \in Slots(vol) /\ At(vol, s) = e
  <2>1. d \in Place /\ vol \in Vols
    BY DEF DirsOf, Place, Good, Sound
  <2>2. Len(vol.slots[d]) \in Nat
    BY <2>1, VolParts, ListingParts
  <2> QED BY <1>3, <1>4, <2>1, <2>2 DEF Slots, At
<1> QED BY <1>3, <1>4, <1>5 DEF IsLink

LEMMA DotStep ==
  ASSUME Good(vol), NEW d \in DirsOf(vol), NEW n \in Dots, NEW dirs \in BOOLEAN,
         NEW e, e = Found(d, n, dirs), e.first # NONE
  PROVE  \E s : DotLink(d, n, s, e.first)
<1>1. Find(d, n, dirs, e)
  BY FoundIs DEF Part, Dots
<1>2. NoEntry.first = NONE
  BY DEF NoEntry, Entry
<1>3. PICK j \in 1 .. Len(vol.slots[d]) : e = vol.slots[d][j] /\ e.name = n
  BY <1>1, <1>2 DEF Find
<1>4. PICK way, depth : Sound(vol, way, depth, {})
  BY DEF Good
<1>5. vol \in Vols /\ Laid(vol, way, {}) /\ Shaped(vol) /\ Nested(vol, depth)
  BY <1>4 DEF Sound
<1>6. d # kRootCluster /\ j <= 2
  BY <1>3, <1>5 DEF Shaped
<1>7. Dotted(vol.slots[d], d) /\ (j = 1 \/ j = 2)
  <2>1. Len(vol.slots[d]) \in Nat
    BY <1>5, VolParts, ListingParts DEF DirsOf, Place
  <2> QED BY <1>3, <1>5, <1>6, <2>1 DEF Shaped
<1>8. PICK s \in Slots(vol) : At(vol, s).first = d /\ At(vol, s).dir
  BY <1>4, <1>6, DirOwner
<1>9. CASE j = 1
  <2>1. n = "." /\ e.first = d
    BY <1>3, <1>7, <1>9 DEF Dotted
  <2> QED BY <1>8, <2>1 DEF DotLink
<1>10. CASE j = 2
  <2>1. n = ".." /\ e.first = s[1]
    BY <1>3, <1>5, <1>7, <1>8, <1>10 DEF Dotted, Nested
  <2> QED BY <1>8, <2>1 DEF DotLink
<1> QED BY <1>7, <1>9, <1>10

\* One part of a path leads from d to the directory c.
Goes(d, n, c) ==
  \/ n \in Name /\ \E s : IsLink(vol, s, d, n, c)
  \/ n \in Dots /\ \E s : DotLink(d, n, s, c)

LEMMA PartGoes ==
  ASSUME Good(vol), NEW d \in DirsOf(vol), NEW n \in Part, NEW dirs \in BOOLEAN,
         NEW e, e = Found(d, n, dirs), e.first # NONE, e.dir
  PROVE  Goes(d, n, e.first)
<1>1. CASE n \in Name
  BY <1>1, NameStep DEF Goes
<1>2. CASE n \in Dots
  BY <1>2, DotStep DEF Goes
<1> QED BY <1>1, <1>2 DEF Part, Dots

\* A path that leads somewhere passes through directories only.
LEMMA NoneStays ==
  ASSUME Good(vol), NEW parts, Len(parts) \in Nat, NEW from, NEW w, Trail(w, parts, from),
         w[Len(parts)] # NONE
  PROVE  \A k \in 0 .. Len(parts) : w[k] \in DirsOf(vol)
<1> DEFINE n == Len(parts)
           Z == {k \in Nat : k <= n => w[n - k] # NONE}
<1>1. 0 \in Z
  OBVIOUS
<1>2. ASSUME NEW k \in Nat, k \in Z
      PROVE  k + 1 \in Z
  <2> SUFFICES ASSUME k + 1 <= n, w[n - (k + 1)] = NONE
               PROVE  FALSE
    OBVIOUS
  <2>1. PICK m \in Int : m = n - k
    OBVIOUS
  <2>2. m \in 1 .. n /\ m - 1 = n - (k + 1)
    BY <2>1
  <2>3. w[m] = Hop(w[m - 1], parts[m])
    BY <2>2 DEF Trail
  <2>4. w[m] = NONE
    BY <2>2, <2>3 DEF Hop
  <2> QED BY <1>2, <2>1, <2>4
<1> HIDE DEF Z
<1>3. Nat \subseteq Z
  BY <1>1, <1>2, Induction
<1> SUFFICES ASSUME NEW k \in 0 .. n
             PROVE  w[k] \in DirsOf(vol)
  OBVIOUS
<1>4. n - k \in Z /\ n - (n - k) = k /\ n - k <= n
  BY <1>3
<1>5. w[k] # NONE
  BY <1>4 DEF Z
<1> QED BY <1>5 DEF Trail

\* The directories that a path to a directory goes through, from c to d.
IsRoute(w, parts, c, d) ==
  /\ w = [k \in 0 .. Len(parts) |-> w[k]] /\ w[0] = c /\ w[Len(parts)] = d
  /\ \A k \in 1 .. Len(parts) : Goes(w[k - 1], parts[k], w[k])

LEMMA TargetRoute ==
  ASSUME Good(vol), cwd_cluster \in DirsOf(vol), NEW path \in Paths, path.parts # << >>,
         Exists(path), TargetEntry(path).dir
  PROVE  \E w : IsRoute(w, path.parts, Start(path), Target(path))
<1>1. PICK parts, from, to : parts = path.parts /\ from = Start(path) /\ to = Target(path)
  OBVIOUS
<1>2. PICK n \in Nat : n + 1 = Len(parts)
  <2>1. Len(parts) \in Nat \ {0}
    BY <1>1, Fat16Assumption
  <2>2. PICK m : m = Len(parts) - 1
    OBVIOUS
  <2>3. m \in Nat /\ m + 1 = Len(parts)
    BY <2>1, <2>2
  <2> QED BY <2>3
<1>3. PICK front : front = SubSeq(parts, 1, n)
  OBVIOUS
<1>4. parts \in Seq(Part) /\ \A k \in 1 .. n + 1 : parts[k] \in Part
  BY <1>1, <1>2, Fat16Assumption
<1>5. front \in Seq(Part) /\ Len(front) = n /\ \A k \in 1 .. n : front[k] = parts[k]
  BY <1>2, <1>3, <1>4
<1>6. from \in DirsOf(vol)
  BY <1>1 DEF Start, DirsOf
<1>7. PICK t : Trail(t, front, from)
  BY <1>5, <1>6, ThroughTrail
<1>8. Parent(path) = t[n] /\ basename(path) = parts[n + 1]
  <2>1. Len(parts) - 1 = n
    BY <1>2
  <2>2. Parent(path) = Through(front, from)
    BY <1>1, <1>3, <2>1 DEF Parent
  <2> QED BY <1>1, <1>2, <1>5, <1>7, <2>2 DEF Trail, basename
<1>9. /\ t[n] \in DirsOf(vol) /\ t[n] # NONE
      /\ to = TargetEntry(path).first /\ to # NONE
      /\ TargetEntry(path) = Found(t[n], parts[n + 1], FALSE)
  <2>1. Leads(path)
    BY PathLeads
  <2>2. t[n] \in DirsOf(vol)
    BY <1>8, <2>1 DEF Leads
  <2>3. t[n] # NONE
    BY <2>2, Constants DEF DirsOf, Place
  <2> QED BY <1>1, <1>8, <2>2, <2>3 DEF Target, Exists, TargetEntry
<1>10. \A k \in 0 .. n : t[k] \in DirsOf(vol)
  BY <1>5, <1>7, <1>9, NoneStays
<1>11. PICK w : w = [k \in 0 .. n + 1 |-> IF k = n + 1 THEN to ELSE t[k]]
  OBVIOUS
<1>12. ASSUME NEW k \in 1 .. n + 1
       PROVE  Goes(w[k - 1], parts[k], w[k])
  <2>1. CASE k = n + 1
    <3>1. w[k - 1] = t[n] /\ w[k] = to
      BY <1>11, <2>1
    <3>2. parts[n + 1] \in Part
      BY <1>4
    <3>3. Goes(t[n], parts[n + 1], to)
      BY <1>9, <3>2, PartGoes
    <3> QED BY <2>1, <3>1, <3>3
  <2>2. CASE k # n + 1
    <3>1. k \in 1 .. n /\ w[k - 1] = t[k - 1] /\ w[k] = t[k]
      BY <1>11, <2>2
    <3>2. t[k] = Hop(t[k - 1], parts[k])
      BY <1>5, <1>7, <3>1 DEF Trail
    <3>3. t[k - 1] \in DirsOf(vol) /\ t[k] \in DirsOf(vol) /\ NONE \notin DirsOf(vol)
      <4>1. k - 1 \in 0 .. n /\ k \in 0 .. n
        BY <3>1
      <4> QED BY <1>10, <4>1, Constants DEF DirsOf, Place
    <3>4. PICK e : e = Found(t[k - 1], parts[k], TRUE)
      OBVIOUS
    <3>5. t[k] = e.first /\ e.first # NONE
      BY <3>2, <3>3, <3>4 DEF Hop
    <3>6. parts[k] \in Part
      BY <1>4
    <3>7. e.dir
      <4>1. Find(t[k - 1], parts[k], TRUE, e)
        BY <3>3, <3>4, <3>6, FoundIs
      <4>2. NoEntry.first = NONE
        BY DEF NoEntry, Entry
      <4> QED BY <3>5, <4>1, <4>2 DEF Find
    <3>8. Goes(t[k - 1], parts[k], e.first)
      BY <3>3, <3>4, <3>5, <3>6, <3>7, PartGoes
    <3> QED BY <3>1, <3>5, <3>8
  <2> QED BY <2>1, <2>2
<1>13. w = [k \in 0 .. n + 1 |-> w[k]] /\ w[0] = from /\ w[n + 1] = to
  <2>1. t[0] = from
    BY <1>7 DEF Trail
  <2> QED BY <1>11, <2>1
<1>14. IsRoute(w, parts, from, to)
  BY <1>2, <1>12, <1>13 DEF IsRoute
<1> QED BY <1>1, <1>14

\* What a relative path makes of the path of the current directory.
Turn(at, n) ==
  CASE n = "." -> at
    [] n = ".." -> SubSeq(at, 1, Len(at) - 1)
    [] OTHER -> Append(at, n)

LEMMA PathTrace ==
  ASSUME NEW path, path.parts \in Seq(Part), cwd_path \in Seq(Name), ~ path.abs,
         Target(path) # kRootCluster
  PROVE  \E at : /\ at[0] = cwd_path
                 /\ \A k \in 1 .. Len(path.parts) : at[k] = Turn(at[k - 1], path.parts[k])
                 /\ PathAfter(path) = at[Len(path.parts)]
<1> DEFINE n == Len(path.parts)
           at[k \in 0 .. Len(path.parts)] ==
             IF k = 0 THEN cwd_path
             ELSE CASE path.parts[k] = "." -> at[k - 1]
                    [] path.parts[k] = ".." -> SubSeq(at[k - 1], 1, Len(at[k - 1]) - 1)
                    [] OTHER -> Append(at[k - 1], path.parts[k])
           Def(g) == [k \in 0 .. Len(path.parts) |->
             IF k = 0 THEN cwd_path
             ELSE CASE path.parts[k] = "." -> g[k - 1]
                    [] path.parts[k] = ".." -> SubSeq(g[k - 1], 1, Len(g[k - 1]) - 1)
                    [] OTHER -> Append(g[k - 1], path.parts[k])]
           G == [x \in Seq(Name) \X (1 .. n) |-> Turn(x[1], path.parts[x[2]])]
<1>1. PathAfter(path) = at[n]
  BY DEF PathAfter
<1>2. n \in Nat
  OBVIOUS
<1>3. ASSUME NEW p \in Seq(Name), NEW k \in 1 .. n
      PROVE  Turn(p, path.parts[k]) \in Seq(Name)
  <2>1. path.parts[k] \in Part
    OBVIOUS
  <2>2. SubSeq(p, 1, Len(p) - 1) \in Seq(Name)
    <3>1. CASE Len(p) = 0
      <4>1. SubSeq(p, 1, Len(p) - 1) = << >> /\ << >> \in Seq(Name)
        BY <3>1
      <4> QED BY <4>1
    <3>2. CASE Len(p) # 0
      BY <3>2
    <3> QED BY <3>1, <3>2
  <2>3. path.parts[k] \in Name => Append(p, path.parts[k]) \in Seq(Name)
    OBVIOUS
  <2> QED BY <2>1, <2>2, <2>3 DEF Turn, Part
<1>4. G \in [Seq(Name) \X (1 .. n) -> Seq(Name)]
  BY <1>3
<1>5. \A x \in Seq(Name), k \in 1 .. n : G[<<x, k>>] = Turn(x, path.parts[k])
  OBVIOUS
<1>6. \A g : Def(g) = [k \in 0 .. n |-> IF k = 0 THEN cwd_path ELSE Turn(g[k - 1], path.parts[k])]
  BY Zenon DEF Turn
<1> HIDE DEF G
<1>7. PICK w : IsOrbit(w, Seq(Name), cwd_path, n, G)
  BY <1>2, <1>4, Orbit
<1>8. w = Def(w)
  <2>1. \A k \in 1 .. n : w[k - 1] \in Seq(Name)
    BY <1>2, <1>7 DEF IsOrbit
  <2>2. \A k \in 1 .. n : w[k] = Turn(w[k - 1], path.parts[k])
    BY <1>5, <1>7, <2>1 DEF IsOrbit
  <2>3. \A k \in 0 .. n : w[k] = IF k = 0 THEN cwd_path ELSE Turn(w[k - 1], path.parts[k])
    <3> SUFFICES ASSUME NEW k \in 0 .. n, k # 0
                 PROVE  w[k] = Turn(w[k - 1], path.parts[k])
      BY <1>7 DEF IsOrbit
    <3>1. k \in 1 .. n
      OBVIOUS
    <3> QED BY <2>2, <3>1
  <2>4. w = [k \in 0 .. n |-> w[k]]
    BY <1>7 DEF IsOrbit
  <2> HIDE DEF Def
  <2>5. [k \in 0 .. n |-> w[k]] = [k \in 0 .. n |-> IF k = 0 THEN cwd_path ELSE Turn(w[k - 1], path.parts[k])]
    BY <2>3
  <2> QED BY <1>6, <2>4, <2>5
<1>9. at = Def(at)
  BY <1>8, Zenon
<1> HIDE DEF at, Def
<1>10. at[0] = cwd_path /\ \A k \in 1 .. n : at[k] = Turn(at[k - 1], path.parts[k])
  <2>1. at = [k \in 0 .. n |-> IF k = 0 THEN cwd_path ELSE Turn(at[k - 1], path.parts[k])]
    BY <1>6, <1>9
  <2>2. \A k \in 1 .. n : k \in 0 .. n /\ k # 0
    BY <1>2
  <2>3. 0 \in 0 .. n
    BY <1>2
  <2> QED BY <2>1, <2>2, <2>3
<1> QED BY <1>1, <1>10

\* One part of a relative path, and what it makes of the path so far.
LEMMA TurnLeads ==
  ASSUME Good(vol), NEW at, NEW d, LeadsTo(vol, at, d), NEW n, NEW c, Goes(d, n, c)
  PROVE  LeadsTo(vol, Turn(at, n), c)
<1>1. ASSUME n \in Name, NEW s, IsLink(vol, s, d, n, c)
      PROVE  LeadsTo(vol, Turn(at, n), c)
  <2>1. n # "." /\ n # ".."
    BY <1>1, Constants DEF Dots
  <2> QED BY <1>1, <2>1, LeadsDown DEF Turn
<1>2. ASSUME n \in Dots, NEW s, DotLink(d, n, s, c)
      PROVE  LeadsTo(vol, Turn(at, n), c)
  <2>1. CASE n = "."
    BY <1>2, <2>1 DEF Turn, DotLink
  <2>2. CASE n # "."
    <3>1. n = ".." /\ Turn(at, n) = SubSeq(at, 1, Len(at) - 1)
      BY <1>2, <2>2 DEF Dots, Turn
    <3>2. s \in Slots(vol) /\ At(vol, s).dir /\ LeadsTo(vol, at, At(vol, s).first) /\ c = s[1]
      BY <1>2, <2>2 DEF DotLink
    <3> QED BY <3>1, <3>2, LeadsUp
  <2> QED BY <2>1, <2>2
<1> QED BY <1>1, <1>2 DEF Goes

\* cd: the new path leads to the new directory.
LEMMA ChdirLeads ==
  ASSUME IInv, Careful, PlainPaths, LeadsTo(vol, cwd_path, cwd_cluster), NEW path \in Paths, Chdir(path)
  PROVE  LeadsTo(vol, PathAfter(path), Target(path))
<1>1. Good(vol) /\ cwd_cluster \in DirsOf(vol) /\ cwd_path \in Seq(Name)
  BY DEF IInv, LeadsTo
<1>2. PICK parts, from, to : parts = path.parts /\ from = Start(path) /\ to = Target(path)
  OBVIOUS
<1>3. parts \in Seq(Part) /\ Len(parts) \in Nat
  BY <1>2, Fat16Assumption
<1>4. CASE to = kRootCluster
  <2>1. PathAfter(path) = << >>
    BY <1>2, <1>4 DEF PathAfter
  <2> QED BY <1>2, <1>4, <2>1, LeadsNowhere
<1>5. CASE to # kRootCluster /\ parts = << >>
  <2>1. to = from /\ ~ path.abs /\ from = cwd_cluster
    BY <1>2, <1>5 DEF Target, Start
  <2>2. PICK at : at[0] = cwd_path /\ PathAfter(path) = at[Len(parts)]
    BY <1>1, <1>2, <1>3, <1>5, <2>1, PathTrace
  <2>3. Len(parts) = 0
    BY <1>5
  <2> QED BY <1>2, <2>1, <2>2, <2>3
<1>6. CASE to # kRootCluster /\ parts # << >>
  <2>1. PICK w : IsRoute(w, parts, from, to)
    BY <1>1, <1>2, <1>6, TargetRoute DEF Chdir, Careful, Takes
  <2>2. /\ w = [k \in 0 .. Len(parts) |-> w[k]] /\ w[0] = from /\ w[Len(parts)] = to
        /\ \A k \in 1 .. Len(parts) : Goes(w[k - 1], parts[k], w[k])
    BY <2>1, Zenon DEF IsRoute
  <2>3. CASE path.abs
    <3>1. PathAfter(path) = parts /\ parts \in Seq(Name) /\ from = kRootCluster
      BY <1>2, <1>6, <2>3 DEF PathAfter, PlainPaths, Start
    <3>2. ASSUME NEW k \in 1 .. Len(parts)
          PROVE  \E s : IsLink(vol, s, w[k - 1], parts[k], w[k])
      <4>1. parts[k] \in Name
        BY <3>1
      <4>2. parts[k] \notin Dots
        BY <4>1, Constants
      <4> QED BY <2>2, <4>2 DEF Goes
    <3>3. IsChain(vol, w, parts, to)
      BY <2>2, <3>1, <3>2, Zenon DEF IsChain
    <3> QED BY <1>2, <3>1, <3>3 DEF LeadsTo
  <2>4. CASE ~ path.abs
    <3>1. PICK at : /\ at[0] = cwd_path /\ PathAfter(path) = at[Len(parts)]
                    /\ \A k \in 1 .. Len(parts) : at[k] = Turn(at[k - 1], parts[k])
      BY <1>1, <1>2, <1>3, <1>6, <2>4, PathTrace
    <3> DEFINE Z == {k \in Nat : k <= Len(parts) => LeadsTo(vol, at[k], w[k])}
    <3>2. 0 \in Z
      <4>1. from = cwd_cluster
        BY <1>2, <2>4 DEF Start
      <4> QED BY <2>2, <3>1, <4>1
    <3>3. ASSUME NEW k \in Nat, k \in Z
          PROVE  k + 1 \in Z
      <4> SUFFICES ASSUME k + 1 <= Len(parts)
                   PROVE  LeadsTo(vol, at[k + 1], w[k + 1])
        OBVIOUS
      <4>1. PICK m : m = k + 1
        OBVIOUS
      <4>2. m \in 1 .. Len(parts) /\ m - 1 = k
        BY <1>3, <4>1
      <4>3. LeadsTo(vol, at[k], w[k])
        BY <1>3, <3>3
      <4>4. Goes(w[k], parts[m], w[m]) /\ at[m] = Turn(at[k], parts[m])
        BY <2>2, <3>1, <4>2
      <4>5. LeadsTo(vol, at[m], w[m])
        BY <1>1, <4>3, <4>4, TurnLeads
      <4> QED BY <4>1, <4>5
    <3> HIDE DEF Z
    <3>4. Len(parts) \in Z
      BY <1>3, <3>2, <3>3, Induction
    <3>5. LeadsTo(vol, at[Len(parts)], w[Len(parts)])
      BY <1>3, <3>4 DEF Z
    <3> QED BY <1>2, <2>2, <3>1, <3>5
  <2> QED BY <2>3, <2>4
<1> QED BY <1>4, <1>5, <1>6

\* A call that leaves the current directory leaves the path to it.
LEMMA LeadsStays ==
  ASSUME NEW v, NEW u, Good(v), Good(u), Outcome(v, u), NEW path, NEW c \in DirsOf(u), LeadsTo(v, path, c)
  PROVE  LeadsTo(u, path, c)
<1>1. PICK w : IsChain(v, w, path, c)
  BY DEF LeadsTo
<1>2. /\ w = [k \in 0 .. Len(path) |-> w[k]] /\ w[0] = kRootCluster /\ w[Len(path)] = c
      /\ Len(path) \in Nat /\ path \in Seq(Name)
  BY <1>1 DEF IsChain, LeadsTo
<1>3. ASSUME \A k \in 1 .. Len(path) : \E s : IsLink(u, s, w[k - 1], path[k], w[k])
      PROVE  LeadsTo(u, path, c)
  <2>1. IsChain(u, w, path, c)
    BY <1>2, <1>3, Zenon DEF IsChain
  <2> QED BY <1>2, <2>1 DEF LeadsTo
<1>4. CASE Alike(v, u)
  <2>1. \A s, d, n, x : IsLink(v, s, d, n, x) => IsLink(u, s, d, n, x)
    BY <1>4 DEF Alike, IsLink
  <2> QED BY <1>1, <1>3, <2>1 DEF IsChain
<1>5. ASSUME NEW t, Gains(v, u, t)
      PROVE  LeadsTo(u, path, c)
  <2>1. \A s, d, n, x : IsLink(v, s, d, n, x) => IsLink(u, s, d, n, x)
    BY <1>5 DEF Gains, IsLink
  <2> QED BY <1>1, <1>3, <2>1 DEF IsChain
<1>6. ASSUME NEW t, Loses(v, u, t)
      PROVE  LeadsTo(u, path, c)
  <2>1. t \in Slots(v) /\ DirsOf(u) = DirsOf(v) \ {At(v, t).first} /\ \A s \in Slots(v) : s[1] # At(v, t).first
    BY <1>6, Zenon DEF Loses
  <2>2. ASSUME NEW k \in 1 .. Len(path)
        PROVE  \E s : IsLink(u, s, w[k - 1], path[k], w[k])
    <3>1. PICK s : IsLink(v, s, w[k - 1], path[k], w[k])
      BY <1>1 DEF IsChain
    <3>2. CASE s = t
      <4>1. CASE k = Len(path)
        BY <1>2, <2>1, <3>1, <3>2, <4>1 DEF IsLink
      <4>2. CASE k # Len(path)
        <5>1. PICK m : m = k + 1
          OBVIOUS
        <5>2. m \in 1 .. Len(path) /\ m - 1 = k
          BY <1>2, <4>2, <5>1
        <5>3. PICK z : IsLink(v, z, w[k], path[m], w[m])
          BY <1>1, <5>2 DEF IsChain
        <5> QED BY <2>1, <3>1, <3>2, <5>3 DEF IsLink
      <4> QED BY <4>1, <4>2
    <3>3. CASE s # t
      <4>1. IsLink(u, s, w[k - 1], path[k], w[k])
        BY <1>6, <3>1, <3>3 DEF Loses, IsLink
      <4> QED BY <4>1
    <3> QED BY <3>2, <3>3
  <2> QED BY <1>3, <2>2
<1>7. CASE Slots(u) = {}
  <2>1. c = kRootCluster
    <3> SUFFICES ASSUME c # kRootCluster
                 PROVE  FALSE
      OBVIOUS
    <3>1. PICK way, depth : Sound(u, way, depth, {})
      BY DEF Good
    <3> QED BY <1>7, <3>1, DirOwner
  <2>2. Len(path) = 0
    <3> SUFFICES ASSUME Len(path) # 0
                 PROVE  FALSE
      OBVIOUS
    <3>1. Len(path) \in 1 .. Len(path)
      BY <1>2
    <3>2. PICK s : s \in Slots(v) /\ At(v, s).first = c
      BY <1>1, <1>2, <3>1 DEF IsChain, IsLink
    <3>3. PICK way, depth : Sound(v, way, depth, {})
      BY DEF Good
    <3> QED BY <2>1, <3>2, <3>3, EntryFirst, Constants DEF Sound
  <2>3. path = << >>
    BY <1>2, <2>2
  <2> QED BY <2>1, <2>3, LeadsNowhere
<1> QED BY <1>4, <1>5, <1>6, <1>7 DEF Outcome

\* Only cd, format and mount write cwd_path, and each writes cwd_cluster too.
LEMMA PathKept ==
  ASSUME IInv, Careful, WithinGuard, PlainPaths, LeadsTo(vol, cwd_path, cwd_cluster), [Next]_vars
  PROVE  LeadsTo(vol', cwd_path', cwd_cluster')
<1>1. IInv' /\ Outcome(vol, vol')
  BY NextKeeps
<1>2. PICK u, p, c : u = vol' /\ p = cwd_path' /\ c = cwd_cluster'
  OBVIOUS
<1>3. Good(vol) /\ Good(u) /\ c \in DirsOf(u) /\ Outcome(vol, u)
  BY <1>1, <1>2 DEF IInv
<1>4. CASE UNCHANGED <<cwd_cluster, cwd_path>>
  <2>1. LeadsTo(vol, p, c)
    BY <1>2, <1>4
  <2>2. LeadsTo(u, p, c)
    BY <1>3, <2>1, LeadsStays
  <2> QED BY <1>2, <2>2
<1>5. ASSUME NEW path \in Paths, Chdir(path)
      PROVE  LeadsTo(u, p, c)
  <2>1. u = vol /\ p = PathAfter(path) /\ c = Target(path)
    BY <1>2, <1>5 DEF Chdir
  <2> QED BY <1>5, <2>1, ChdirLeads
<1>6. CASE Format \/ Mount
  <2>1. p = << >> /\ c = kRootCluster
    BY <1>2, <1>6 DEF Format, Mount
  <2> QED BY <1>2, <2>1, LeadsNowhere
<1>7. CASE UNCHANGED vars
  BY <1>4, <1>7 DEF vars
<1>8. CASE Next
  <2>1. ASSUME NEW path \in Paths,
               Create(path) \/ Mkdir(path) \/ Delete(path) \/ Rmdir(path) \/ \E flags \in Flags : Open(path, flags)
        PROVE  UNCHANGED <<cwd_cluster, cwd_path>>
    BY <2>1, Zenon DEF Create, Mkdir, Enter, Delete, Rmdir, Open
  <2>2. ASSUME NEW fd \in Fd, Close(fd) \/ \E len \in Lengths : Read(fd, len) \/ Write(fd, len)
        PROVE  UNCHANGED <<cwd_cluster, cwd_path>>
    BY <2>2, Zenon DEF Close, Read, Write
  <2> QED BY <1>2, <1>4, <1>5, <1>6, <1>8, <2>1, <2>2, Zenon DEF Next
<1> QED BY <1>7, <1>8


\* ---- The tree of directories ----

\* The name of an entry, with its directory.
Pair(v, s) == <<s[1], At(v, s).name>>

\* The names ns and the kinds ks of the nodes that the entries of v stand for.
IsView(v, ns, ks) ==
  /\ ns = [p \in {Pair(v, s) : s \in Slots(v)} |-> ns[p]]
  /\ \A s \in Slots(v) : ns[Pair(v, s)] = At(v, s).first
  /\ ks = [c \in {kRootCluster} \cup {At(v, s).first : s \in Slots(v)} |-> ks[c]]
  /\ ks[kRootCluster] = TRUE
  /\ \A s \in Slots(v) : ks[At(v, s).first] = At(v, s).dir

\* The names and the kinds that the variables of the tree stand for.
Nms == [p \in {<<o.in, o.e.name>> : o \in Owners} |-> Found(p[1], p[2], FALSE).first]
Knd == [c \in Nodes |-> vol.slots[c] # << >>]

LEMMA ViewIs ==
  Good(vol) /\ Distinct(vol) => IsView(vol, Nms, Knd)
<1> SUFFICES ASSUME Good(vol), Distinct(vol)
             PROVE  IsView(vol, Nms, Knd)
  OBVIOUS
<1>1. PICK way, depth : Sound(vol, way, depth, {})
  BY DEF Good
<1>2. Laid(vol, way, {}) /\ Shaped(vol)
  BY <1>1 DEF Sound
<1>3. \A s \in Slots(vol) : \E o \in Owners : o.in = s[1] /\ o.e = At(vol, s)
  <2> SUFFICES ASSUME NEW s \in Slots(vol)
               PROVE  \E o \in Owners : o.in = s[1] /\ o.e = At(vol, s)
    OBVIOUS
  <2>1. PICK o : o = Owned(s)
    OBVIOUS
  <2>2. o \in Owners
    BY <2>1, OwnersIs
  <2> QED BY <2>1, <2>2 DEF Owned
<1>4. \A o \in Owners : \E s \in Slots(vol) : o.in = s[1] /\ o.e = At(vol, s)
  BY OwnedParts
<1>5. {<<o.in, o.e.name>> : o \in Owners} = {Pair(vol, s) : s \in Slots(vol)}
  <2>1. ASSUME NEW o \in Owners
        PROVE  \E s \in Slots(vol) : <<o.in, o.e.name>> = Pair(vol, s)
    BY <1>4 DEF Pair
  <2>2. ASSUME NEW s \in Slots(vol)
        PROVE  \E o \in Owners : <<o.in, o.e.name>> = Pair(vol, s)
    BY <1>3 DEF Pair
  <2> QED BY <2>1, <2>2
<1>6. {o.e.first : o \in Owners} = {At(vol, s).first : s \in Slots(vol)}
  <2>1. ASSUME NEW o \in Owners
        PROVE  \E s \in Slots(vol) : o.e.first = At(vol, s).first
    BY <1>4
  <2>2. ASSUME NEW s \in Slots(vol)
        PROVE  \E o \in Owners : o.e.first = At(vol, s).first
    BY <1>3
  <2> QED BY <2>1, <2>2
<1>7. ASSUME NEW s \in Slots(vol)
      PROVE  Nms[Pair(vol, s)] = At(vol, s).first
  <2>1. PICK d, n : d = s[1] /\ n = At(vol, s).name
    OBVIOUS
  <2>2. Found(d, n, FALSE) = At(vol, s)
    BY <2>1, FoundEntry
  <2>3. Nms[<<d, n>>] = Found(d, n, FALSE).first
    <3>1. <<d, n>> \in {Pair(vol, t) : t \in Slots(vol)}
      BY <2>1 DEF Pair
    <3> QED BY <1>5, <3>1 DEF Nms
  <2> QED BY <2>1, <2>2, <2>3 DEF Pair
<1>8. Nms = [p \in {Pair(vol, s) : s \in Slots(vol)} |-> Nms[p]]
  BY <1>5 DEF Nms
<1>9. Nodes = {kRootCluster} \cup {At(vol, s).first : s \in Slots(vol)}
  BY <1>6 DEF Nodes
<1>10. /\ Knd = [c \in {kRootCluster} \cup {At(vol, s).first : s \in Slots(vol)} |-> Knd[c]]
       /\ Knd[kRootCluster] = TRUE
  BY <1>2, <1>9 DEF Knd, Shaped
<1>11. ASSUME NEW s \in Slots(vol)
       PROVE  Knd[At(vol, s).first] = At(vol, s).dir
  <2>1. PICK c, b : c = At(vol, s).first /\ b = At(vol, s).dir
    OBVIOUS
  <2>2. b <=> vol.slots[c] # << >>
    BY <1>2, <2>1, EntryFirst
  <2>3. b \in BOOLEAN
    BY <2>1, SlotTyped
  <2>4. Knd[c] = (vol.slots[c] # << >>)
    BY <1>9, <2>1 DEF Knd
  <2> QED BY <2>1, <2>2, <2>3, <2>4
<1> QED BY <1>7, <1>8, <1>10, <1>11 DEF IsView

LEMMA ViewIsNext ==
  (Good(vol) /\ Distinct(vol) => IsView(vol, Nms, Knd))'
BY ViewIs, PTL

LEMMA AlikeView ==
  ASSUME NEW v, NEW u, Alike(v, u), NEW ns, NEW ks, NEW nt, NEW kt, IsView(v, ns, ks), IsView(u, nt, kt)
  PROVE  nt = ns /\ kt = ks
<1>0. /\ \A s \in Slots(v) : ns[Pair(v, s)] = At(v, s).first /\ ks[At(v, s).first] = At(v, s).dir
      /\ \A s \in Slots(u) : nt[Pair(u, s)] = At(u, s).first /\ kt[At(u, s).first] = At(u, s).dir
      /\ ks[kRootCluster] = TRUE /\ kt[kRootCluster] = TRUE
  BY Zenon DEF IsView
<1>1. /\ Slots(u) = Slots(v)
      /\ \A s \in Slots(v) : /\ Pair(u, s) = Pair(v, s) /\ At(u, s).first = At(v, s).first
                             /\ At(u, s).dir = At(v, s).dir
  BY DEF Alike, Pair
<1>2. PICK D : D = {Pair(v, s) : s \in Slots(v)}
  OBVIOUS
<1>3. D = {Pair(u, s) : s \in Slots(u)}
  BY <1>1, <1>2
<1>4. ns = [p \in D |-> ns[p]] /\ nt = [p \in D |-> nt[p]]
  BY <1>2, <1>3 DEF IsView
<1>5. \A p \in D : nt[p] = ns[p]
  <2>1. \A s \in Slots(v) : nt[Pair(v, s)] = ns[Pair(v, s)]
    BY <1>0, <1>1, Zenon
  <2> QED BY <1>2, <2>1
<1>6. PICK N : N = {kRootCluster} \cup {At(v, s).first : s \in Slots(v)}
  OBVIOUS
<1>7. N = {kRootCluster} \cup {At(u, s).first : s \in Slots(u)}
  BY <1>1, <1>6
<1>8. ks = [c \in N |-> ks[c]] /\ kt = [c \in N |-> kt[c]]
  BY <1>6, <1>7 DEF IsView
<1>9. \A c \in N : kt[c] = ks[c]
  <2>1. ASSUME NEW s \in Slots(v)
        PROVE  kt[At(v, s).first] = ks[At(v, s).first]
    <3>1. kt[At(u, s).first] = At(u, s).dir
      BY <1>0, <1>1
    <3>2. ks[At(v, s).first] = At(v, s).dir
      BY <1>0
    <3> QED BY <1>1, <3>1, <3>2
  <2> QED BY <1>0, <1>6, <2>1
<1> QED BY <1>4, <1>5, <1>8, <1>9

LEMMA GainsNamed ==
  ASSUME NEW v, NEW u, Good(v), Good(u), PlainNames, NEW t, Gains(v, u, t),
         NEW ns, NEW ks, NEW nt, NEW kt, IsView(v, ns, ks), IsView(u, nt, kt)
  PROVE  Tree!Named(ns, ks, nt, kt)
<1>0. /\ \A s \in Slots(v) : ns[Pair(v, s)] = At(v, s).first /\ ks[At(v, s).first] = At(v, s).dir
      /\ \A s \in Slots(u) : nt[Pair(u, s)] = At(u, s).first /\ kt[At(u, s).first] = At(u, s).dir
      /\ ks[kRootCluster] = TRUE /\ kt[kRootCluster] = TRUE
  BY Zenon DEF IsView
<1>1. PICK n \in Name : At(u, t).name = Short[n] /\ \A s \in Slots(v) : s[1] = t[1] => At(v, s).name # n
  BY DEF Gains
<1>2. PICK d, c, k, P : d = t[1] /\ c = At(u, t).first /\ k = At(u, t).dir /\ P = <<d, n>>
  OBVIOUS
<1>3. /\ t \notin Slots(v) /\ Slots(u) = Slots(v) \cup {t} /\ d \in DirsOf(v)
      /\ \A s \in Slots(v) : At(u, s) = At(v, s) /\ Pair(u, s) = Pair(v, s)
      /\ Pair(u, t) = P
  BY <1>1, <1>2, Zenon DEF Gains, Pair, PlainNames
<1>4. \A s \in Slots(v) : Pair(v, s) # P
  BY <1>1, <1>2 DEF Pair
<1>5. PICK D, N : D = {Pair(v, s) : s \in Slots(v)} /\ N = {kRootCluster} \cup {At(v, s).first : s \in Slots(v)}
  OBVIOUS
<1>6. /\ D \cup {P} = {Pair(u, s) : s \in Slots(u)}
      /\ N \cup {c} = {kRootCluster} \cup {At(u, s).first : s \in Slots(u)}
  BY <1>2, <1>3, <1>5
<1>7. P \notin D
  BY <1>4, <1>5
<1>8. c \notin N
  <2>1. PICK way, depth : Sound(u, way, depth, {})
    BY DEF Good
  <2>2. Laid(u, way, {}) /\ t \in Slots(u)
    BY <1>3, <2>1 DEF Sound
  <2>3. c \in Cluster /\ \A s \in Slots(u) : At(u, s).first = c => s = t
    BY <1>2, <2>2, EntryFirst
  <2> QED BY <1>3, <1>5, <2>3, Constants
<1>9. DOMAIN ns = D /\ DOMAIN nt = D \cup {P} /\ DOMAIN ks = N /\ DOMAIN kt = N \cup {c}
  BY <1>5, <1>6 DEF IsView
<1>10. nt = [p \in D \cup {P} |-> IF p = P THEN nt[P] ELSE ns[p]] /\ nt[P] = c
  <2>1. nt = [p \in D \cup {P} |-> nt[p]]
    BY <1>6 DEF IsView
  <2>2. \A s \in Slots(v) : nt[Pair(v, s)] = ns[Pair(v, s)]
    BY <1>0, <1>3, Zenon
  <2>3. \A p \in D : nt[p] = ns[p]
    BY <1>5, <2>2
  <2>4. nt[P] = c
    BY <1>0, <1>2, <1>3
  <2> QED BY <2>1, <2>3, <2>4
<1>11. kt = [i \in N \cup {c} |-> IF i = c THEN k ELSE ks[i]] /\ k \in BOOLEAN
  <2>1. kt = [i \in N \cup {c} |-> kt[i]]
    BY <1>6 DEF IsView
  <2>2. ASSUME NEW s \in Slots(v)
        PROVE  kt[At(v, s).first] = ks[At(v, s).first]
    <3>1. kt[At(u, s).first] = At(u, s).dir
      BY <1>0, <1>3
    <3>2. ks[At(v, s).first] = At(v, s).dir
      BY <1>0
    <3> QED BY <1>3, <3>1, <3>2
  <2>3. \A i \in N : kt[i] = ks[i]
    BY <1>0, <1>5, <2>2
  <2>4. kt[c] = k
    BY <1>0, <1>2, <1>3
  <2>5. k \in BOOLEAN
    BY <1>2, <1>3, SlotTyped
  <2> QED BY <2>1, <2>3, <2>4, <2>5
<1>12. d \in N /\ ks[d] = TRUE
  <2>1. CASE d = kRootCluster
    BY <1>0, <1>5, <2>1
  <2>2. CASE d # kRootCluster
    <3>1. PICK way, depth : Sound(v, way, depth, {})
      BY DEF Good
    <3>2. PICK s \in Slots(v) : At(v, s).first = d /\ At(v, s).dir
      BY <1>3, <2>2, <3>1, DirOwner
    <3>3. At(v, s).dir = TRUE
      BY <3>2, SlotTyped
    <3> QED BY <1>0, <1>5, <3>2, <3>3
  <2> QED BY <2>1, <2>2
<1>13. P \in DOMAIN nt \ DOMAIN ns /\ P[1] = d /\ P[2] = n
  BY <1>2, <1>7, <1>9
<1> QED BY <1>8, <1>9, <1>10, <1>11, <1>12, <1>13, Zenon DEF Tree!Named

LEMMA LosesRemoved ==
  ASSUME NEW v, NEW u, Good(v), Good(u), Distinct(v), NEW t, Loses(v, u, t),
         NEW ns, NEW ks, NEW nt, NEW kt, IsView(v, ns, ks), IsView(u, nt, kt)
  PROVE  Tree!Removed(ns, ks, nt, kt)
<1>0. /\ \A s \in Slots(v) : ns[Pair(v, s)] = At(v, s).first /\ ks[At(v, s).first] = At(v, s).dir
      /\ \A s \in Slots(u) : nt[Pair(u, s)] = At(u, s).first /\ kt[At(u, s).first] = At(u, s).dir
      /\ ks[kRootCluster] = TRUE /\ kt[kRootCluster] = TRUE
  BY Zenon DEF IsView
<1>1. PICK P : P = Pair(v, t)
  OBVIOUS
<1>2. /\ t \in Slots(v) /\ Slots(u) = Slots(v) \ {t}
      /\ \A s \in Slots(u) : At(u, s) = At(v, s) /\ Pair(u, s) = Pair(v, s)
      /\ \A s \in Slots(v) : s[1] # At(v, t).first
  BY DEF Loses, Pair
<1>3. \A s \in Slots(v) : Pair(v, s) = P => s = t
  BY <1>1, <1>2 DEF Distinct, Pair
<1>4. PICK D : D = {Pair(v, s) : s \in Slots(v)}
  OBVIOUS
<1>5. D \ {P} = {Pair(u, s) : s \in Slots(u)}
  BY <1>1, <1>2, <1>3, <1>4
<1>6. DOMAIN ns = D /\ DOMAIN nt = D \ {P} /\ P \in D
  BY <1>1, <1>2, <1>4, <1>5 DEF IsView
<1>7. nt = [p \in D \ {P} |-> ns[p]]
  <2>1. nt = [p \in D \ {P} |-> nt[p]]
    BY <1>5 DEF IsView
  <2>2. \A s \in Slots(u) : nt[Pair(u, s)] = ns[Pair(u, s)]
    BY <1>0, <1>2, Zenon
  <2>3. \A p \in D \ {P} : nt[p] = ns[p]
    BY <1>5, <2>2
  <2> QED BY <2>1, <2>3
<1>8. \A n \in Name : <<ns[P], n>> \notin DOMAIN ns
  <2> SUFFICES ASSUME NEW s \in Slots(v), NEW n, <<ns[P], n>> = Pair(v, s)
               PROVE  FALSE
    BY <1>4, <1>6
  <2>1. ns[P] = At(v, t).first
    BY <1>0, <1>1, <1>2
  <2>2. s[1] = ns[P]
    BY DEF Pair
  <2> QED BY <1>2, <2>1, <2>2
<1>9. kt = [i \in Tree!Existing(nt) |-> ks[i]]
  <2>1. PICK N : N = {kRootCluster} \cup {At(u, s).first : s \in Slots(u)}
    OBVIOUS
  <2>2. Tree!Existing(nt) = N
    <3>1. {nt[p] : p \in DOMAIN nt} = {At(u, s).first : s \in Slots(u)}
      <4>1. ASSUME NEW p \in DOMAIN nt
            PROVE  \E s \in Slots(u) : nt[p] = At(u, s).first
        BY <1>0, <1>5, <1>6
      <4>2. ASSUME NEW s \in Slots(u)
            PROVE  \E p \in DOMAIN nt : nt[p] = At(u, s).first
        BY <1>0, <1>5, <1>6
      <4> QED BY <4>1, <4>2
    <3> QED BY <2>1, <3>1 DEF Tree!Existing
  <2>3. kt = [i \in N |-> kt[i]]
    BY <2>1 DEF IsView
  <2>4. \A i \in N : kt[i] = ks[i]
    <3>1. \A s \in Slots(u) : kt[At(u, s).first] = ks[At(u, s).first]
      BY <1>0, <1>2, Zenon
    <3> QED BY <1>0, <2>1, <3>1
  <2> QED BY <2>2, <2>3, <2>4
<1>10. P \in DOMAIN ns \ DOMAIN nt
  BY <1>6
<1> QED BY <1>6, <1>7, <1>8, <1>9, <1>10, Zenon DEF Tree!Removed

LEMMA EmptyFresh ==
  ASSUME NEW u, Slots(u) = {}, NEW nt, NEW kt, IsView(u, nt, kt)
  PROVE  Tree!Fresh(nt, kt)
<1>1. {Pair(u, s) : s \in Slots(u)} = {} /\ {At(u, s).first : s \in Slots(u)} = {}
  OBVIOUS
<1>2. nt = [p \in {} |-> nt[p]] /\ DOMAIN nt = {}
  BY <1>1 DEF IsView
<1>3. Tree!Existing(nt) = {kRootCluster}
  BY <1>2 DEF Tree!Existing
<1>4. kt = [c \in {kRootCluster} |-> TRUE]
  BY <1>1 DEF IsView
<1> QED BY <1>2, <1>3, <1>4 DEF Tree!Fresh

\* ---- Theorems ----

LEMMA InvHolds ==
  ASSUME Careful
  PROVE  Spec /\ []WithinGuard => []IInv
<1>1. Init => IInv
  BY InitHolds
<1>2. IInv /\ WithinGuard /\ [Next]_vars => IInv'
  BY NextKeeps
<1> QED BY <1>1, <1>2, PTL DEF Spec

LEMMA DistinctInv ==
  ASSUME Careful, PlainNames
  PROVE  Spec /\ []WithinGuard => [](IInv /\ Distinct(vol))
<1>1. Init => IInv /\ Distinct(vol)
  BY InitHolds DEF Distinct
<1>2. IInv /\ Distinct(vol) /\ WithinGuard /\ [Next]_vars => (IInv /\ Distinct(vol))'
  <2> SUFFICES ASSUME IInv, Distinct(vol), WithinGuard, [Next]_vars
               PROVE  IInv' /\ Distinct(vol')
    OBVIOUS
  <2>1. IInv' /\ Outcome(vol, vol')
    BY NextKeeps
  <2>2. PICK u : u = vol'
    OBVIOUS
  <2>3. Distinct(u)
    BY <2>1, <2>2, DistinctKept
  <2> QED BY <2>1, <2>2, <2>3
<1> QED BY <1>1, <1>2, PTL DEF Spec

\* A chain has each of its clusters once, so it is no longer than the disk.
LEMMA NoLonger ==
  ASSUME IInv, GUARD >= CLUSTERS
  PROVE  WithinGuard
<1> SUFFICES ASSUME NEW o \in Owners
             PROVE  Length(vol, o.e.first) <= GUARD
  BY DEF WithinGuard
<1>1. Good(vol)
  BY DEF IInv
<1>2. PICK s \in Slots(vol) : o.e = At(vol, s)
  BY <1>1, OwnedParts
<1>3. PICK way, depth : Sound(vol, way, depth, {})
  BY <1>1 DEF Good
<1>4. PICK c, w : c = At(vol, s).first /\ w = way[s]
  OBVIOUS
<1>5. vol \in Vols /\ Laid(vol, way, {})
  BY <1>3 DEF Sound
<1>6. Length(vol, c) = Len(w)
  BY <1>4, <1>5, ChainIs
<1>7. w \in Seq(Cluster) /\ Once(w) /\ Len(w) \in Nat
  BY <1>4, <1>5, LaidParts
<1>8. Len(w) <= CLUSTERS
  BY <1>7, WayShort
<1>9. Len(w) <= GUARD
  BY <1>7, <1>8, Constants
<1> QED BY <1>2, <1>4, <1>6, <1>9

\* Where a walk may visit as many clusters as the disk has, it reaches the end of
\* every chain: what the theorems below ask of a run holds of all.
THEOREM GuardSuffices ==
  Careful /\ GUARD >= CLUSTERS => (Spec => []WithinGuard)
<1> SUFFICES ASSUME Careful, GUARD >= CLUSTERS
             PROVE  Spec => []WithinGuard
  OBVIOUS
<1>1. Init => IInv
  BY InitHolds
<1>2. IInv /\ [Next]_vars => IInv'
  BY NextKeeps, NoLonger
<1>3. IInv => WithinGuard
  BY NoLonger
<1> QED BY <1>1, <1>2, <1>3, PTL DEF Spec

\* The chains of the entries (fat16_fs.cpp, alloc_cluster and free_cluster_chain)
\* take up the clusters that are not free, each once, on a disk of any size.
THEOREM ChainsApart ==
  Careful => (Spec /\ []WithinGuard => []ClustersOwned)
<1> SUFFICES ASSUME Careful
             PROVE  Spec /\ []WithinGuard => []ClustersOwned
  OBVIOUS
<1>1. IInv => ClustersOwned
  BY OwnedHold DEF IInv
<1>2. Spec /\ []WithinGuard => []IInv
  BY InvHolds
<1> QED BY <1>1, <1>2, PTL

\* No file is longer than its chain, and a directory has the slots of its own.
THEOREM SizesFit ==
  Careful => (Spec /\ []WithinGuard => []SizeWithinChain)
<1> SUFFICES ASSUME Careful
             PROVE  Spec /\ []WithinGuard => []SizeWithinChain
  OBVIOUS
<1>1. IInv => SizeWithinChain
  BY SizesHold DEF IInv
<1>2. Spec /\ []WithinGuard => []IInv
  BY InvHolds
<1> QED BY <1>1, <1>2, PTL

\* update_file_size finds the entry of the file before any deleted one that still
\* shows the same cluster.
THEOREM SizesFound ==
  Careful => (Spec /\ []WithinGuard => []SizeKeptInEntry)
<1> SUFFICES ASSUME Careful
             PROVE  Spec /\ []WithinGuard => []SizeKeptInEntry
  OBVIOUS
<1>1. IInv => SizeKeptInEntry
  BY EntriesHold DEF IInv
<1>2. Spec /\ []WithinGuard => []IInv
  BY InvHolds
<1> QED BY <1>1, <1>2, PTL

\* "." and ".." of a directory lead to it and to the directory with its entry.
THEOREM DotsTrue ==
  Careful => (Spec /\ []WithinGuard => []DotsLead)
<1> SUFFICES ASSUME Careful
             PROVE  Spec /\ []WithinGuard => []DotsLead
  OBVIOUS
<1>1. IInv => DotsLead
  BY DotsHold DEF IInv
<1>2. Spec /\ []WithinGuard => []IInv
  BY InvHolds
<1> QED BY <1>1, <1>2, PTL

\* An open descriptor has the entry of its file in open_parent_.
THEOREM DescriptorsLive ==
  Careful => (Spec /\ []WithinGuard => []OpenFilesLive)
<1> SUFFICES ASSUME Careful
             PROVE  Spec /\ []WithinGuard => []OpenFilesLive
  OBVIOUS
<1>1. IInv => OpenFilesLive
  BY OpenHold
<1>2. Spec /\ []WithinGuard => []IInv
  BY InvHolds
<1> QED BY <1>1, <1>2, PTL

\* An entry's name is in its directory once, which makes the names a function.
THEOREM NamesOnce ==
  Careful /\ PlainNames => (Spec /\ []WithinGuard => []NamesUnique)
<1> SUFFICES ASSUME Careful, PlainNames
             PROVE  Spec /\ []WithinGuard => []NamesUnique
  OBVIOUS
<1>1. IInv /\ Distinct(vol) => NamesUnique
  <2> SUFFICES ASSUME IInv, Distinct(vol), NEW o \in Owners, NEW q \in Owners, o.in = q.in, o.e.name = q.e.name
               PROVE  o = q
    BY Zenon DEF NamesUnique
  <2>1. Good(vol)
    BY DEF IInv
  <2>2. PICK s \in Slots(vol) : o = Owned(s) /\ o.in = s[1] /\ o.e = At(vol, s)
    BY <2>1, OwnedParts
  <2>3. PICK t \in Slots(vol) : q = Owned(t) /\ q.in = t[1] /\ q.e = At(vol, t)
    BY <2>1, OwnedParts
  <2>4. s = t
    BY <2>2, <2>3 DEF Distinct
  <2> QED BY <2>2, <2>3, <2>4
<1>2. Spec /\ []WithinGuard => [](IInv /\ Distinct(vol))
  BY DistinctInv
<1> QED BY <1>1, <1>2, PTL

\* fs_chdir (fat16_fs.cpp) keeps the path of the current directory beside its
\* cluster: what pwd prints leads to it.
THEOREM PwdTrue ==
  Careful /\ PlainNames /\ PlainPaths => (Spec /\ []WithinGuard => []PwdNamesCwd)
<1> DEFINE Led == LeadsTo(vol, cwd_path, cwd_cluster)
<1> SUFFICES ASSUME Careful, PlainNames, PlainPaths
             PROVE  Spec /\ []WithinGuard => []PwdNamesCwd
  OBVIOUS
<1>1. Init => Led
  BY LeadsNowhere DEF Init
<1>2. IInv /\ Led /\ WithinGuard /\ [Next]_vars => Led'
  BY PathKept
<1>3. IInv /\ Distinct(vol) /\ Led => PwdNamesCwd
  BY ChainWalked DEF IInv, PwdNamesCwd
<1>4. Spec /\ []WithinGuard => [](IInv /\ Distinct(vol))
  BY DistinctInv
<1> HIDE DEF Led
<1> QED BY <1>1, <1>2, <1>3, <1>4, PTL DEF Spec

\* The entries and their chains implement names and the nodes they name: format
\* and each call of the engine map to a step of the tree of directories, or to none.
THEOREM EntriesImplementTree ==
  Careful /\ PlainNames => (Spec /\ []WithinGuard => ImplementsTree)
<1> DEFINE Inv == IInv /\ Distinct(vol)
<1> SUFFICES ASSUME Careful, PlainNames
             PROVE  Spec /\ []WithinGuard => ImplementsTree
  OBVIOUS
<1>1. Init => Tree!Init
  <2> SUFFICES ASSUME Init
               PROVE  Tree!Init
    OBVIOUS
  <2>1. IInv /\ Slots(vol) = {}
    BY InitHolds
  <2>2. IsView(vol, Nms, Knd)
    BY <2>1, ViewIs DEF IInv, Distinct
  <2>3. PICK ns, ks : ns = Nms /\ ks = Knd
    OBVIOUS
  <2>4. Tree!Fresh(ns, ks)
    BY <2>1, <2>2, <2>3, EmptyFresh
  <2>5. Tree!Fresh(Nms, Knd)
    BY <2>3, <2>4
  <2> QED BY <2>5 DEF Tree!Init, Nms, Knd
<1>2. Inv /\ Inv' /\ WithinGuard /\ [Next]_vars => [Tree!Next]_(Tree!vars)
  <2> SUFFICES ASSUME Inv, Inv', WithinGuard, [Next]_vars
               PROVE  [Tree!Next]_(Tree!vars)
    OBVIOUS
  <2>1. PICK u : u = vol'
    OBVIOUS
  <2>2. Good(vol) /\ Distinct(vol) /\ Good(u) /\ Distinct(u) /\ Outcome(vol, u)
    BY <2>1, NextKeeps DEF IInv
  <2>3. PICK ns, ks, nt, kt : ns = Nms /\ ks = Knd /\ nt = Nms' /\ kt = Knd'
    OBVIOUS
  <2>4. IsView(vol, ns, ks)
    BY <2>2, <2>3, ViewIs
  <2>5. IsView(u, nt, kt)
    BY <2>1, <2>2, <2>3, ViewIsNext
  <2>6. ASSUME Tree!Changed(ns, ks, nt, kt)
        PROVE  Tree!Next
    <3>1. Tree!Changed(Nms, Knd, Nms', Knd')
      BY <2>3, <2>6
    <3> QED BY <3>1 DEF Tree!Next, Nms, Knd
  <2>7. ASSUME nt = ns, kt = ks
        PROVE  UNCHANGED Tree!vars
    <3>1. Nms' = Nms /\ Knd' = Knd
      BY <2>3, <2>7
    <3> QED BY <3>1 DEF Tree!vars, Nms, Knd
  <2>8. CASE Alike(vol, u)
    BY <2>4, <2>5, <2>7, <2>8, AlikeView
  <2>9. ASSUME NEW t, Gains(vol, u, t)
        PROVE  Tree!Next
    BY <2>2, <2>4, <2>5, <2>6, <2>9, GainsNamed DEF Tree!Changed
  <2>10. ASSUME NEW t, Loses(vol, u, t)
         PROVE  Tree!Next
    BY <2>2, <2>4, <2>5, <2>6, <2>10, LosesRemoved DEF Tree!Changed
  <2>11. ASSUME Slots(u) = {}
         PROVE  Tree!Next
    BY <2>5, <2>6, <2>11, EmptyFresh DEF Tree!Changed
  <2> QED BY <2>2, <2>8, <2>9, <2>10, <2>11 DEF Outcome
<1>3. Spec /\ []WithinGuard => []Inv
  BY DistinctInv
<1> HIDE DEF Inv
<1> QED BY <1>1, <1>2, <1>3, PTL DEF Spec, ImplementsTree, Tree!Spec
===============================================================================
