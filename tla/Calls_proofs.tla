----------------------------- MODULE Calls_proofs -----------------------------
(***************************************************************************)
(* Proofs about the calls that users and commands make of an engine.       *)
(*                                                                         *)
(* The open file table (OpenFileTable), of every size and for any number   *)
(* of users: the types, that no two descriptors share an entry, and that   *)
(* an entry is in use exactly while a descriptor refers to it.             *)
(*                                                                         *)
(* The commands that make several calls (Commands), for any names, paths,  *)
(* arguments and contents: what a command leaves open and unsaved when it  *)
(* is over, that success of a list of arguments is about all of them, that *)
(* cp and mv keep what the source has wherever the program is killed, and  *)
(* that nothing but the targets of a command is touched.                   *)
(***************************************************************************)
EXTENDS OpenFileTable, Commands, Stepwise, FiniteSetTheorems, SequenceTheorems, TLAPS

\* ---- The open file table ----

\* The three are inductive together: a fresh entry is unreferenced because its
\* count is 0, and a cleared one because its only descriptor has gone.
IInv == TypeOK /\ NoSharedEntry /\ CountIsReferences

\* The lowest member of a set of numbers is one of its members.
LEMMA LowestIsMember ==
  ASSUME NEW S, S \subseteq Nat, S # {}
  PROVE  Lowest(S) \in S
<1> DEFINE R == OpToRel(<, Nat)
<1>1. IsWellFoundedOn(R, Nat)
  BY NatLessThanWellFounded
<1> HIDE DEF R
<1>2. PICK i \in S : \A j \in S : ~ (<<j, i>> \in R)
  BY <1>1, WFMin
<1>3. ASSUME NEW j \in S
      PROVE  i <= j
  <2>1. i \in Nat /\ j \in Nat
    OBVIOUS
  <2>2. R = {p \in Nat \X Nat : p[1] < p[2]}
    BY DEF R, OpToRel
  <2>3. j < i => <<j, i>> \in R
    BY <2>1, <2>2
  <2> QED BY <1>2, <2>1, <2>3
<1> QED BY <1>3 DEF Lowest

LEMMA InitIInv == Init => IInv
BY OpenFileTableAssumption
   DEF Init, IInv, TypeOK, NoSharedEntry, CountIsReferences, Entry, Cleared,
       ValidUserFd, SysIndex

LEMMA AllocKeeps ==
  ASSUME IInv, NEW u \in User, NEW inode \in Inode, NEW flags \in Flag,
         AllocFd(u, inode, flags)
  PROVE  IInv'
<1> DEFINE fd == Lowest(FreeFds(u))
           i == Lowest(FreeEntries)
<1>1. fd \in Fd /\ user_table[u][fd] = -1
  <2>1. FreeFds(u) # {} /\ FreeFds(u) \subseteq Nat
    BY OpenFileTableAssumption DEF AllocFd, FreeFds, Fd
  <2> QED BY <2>1, LowestIsMember DEF FreeFds
<1>2. i \in SysIndex /\ sys_table[i].f_count = 0
  <2>1. FreeEntries # {} /\ FreeEntries \subseteq Nat
    BY OpenFileTableAssumption DEF AllocFd, FreeEntries, SysIndex
  <2> QED BY <2>1, LowestIsMember DEF FreeEntries
<1>3. /\ sys_table' = [sys_table EXCEPT ![i] =
                         [f_flag |-> flags, f_count |-> 1,
                          f_inode_no |-> inode, f_offset |-> 0]]
      /\ user_table' = [user_table EXCEPT ![u][fd] = i]
      /\ ret' = fd
  BY DEF AllocFd
<1> HIDE DEF fd, i
<1>4. TypeOK'
  BY <1>1, <1>2, <1>3, OpenFileTableAssumption DEF IInv, TypeOK, Entry
<1>5. \A v \in User, gd \in Fd : user_table[v][gd] # i
  BY <1>2 DEF IInv, CountIsReferences, TypeOK, Entry
<1>6. /\ user_table'[u][fd] = i
      /\ \A v \in User, gd \in Fd :
           <<v, gd>> # <<u, fd>> => user_table'[v][gd] = user_table[v][gd]
  BY <1>1, <1>3 DEF IInv, TypeOK
<1>7. NoSharedEntry'
  <2> SUFFICES ASSUME NEW v \in User, NEW w \in User, NEW gd \in Fd, NEW hd \in Fd,
                      ValidUserFd(v, gd)', user_table'[v][gd] = user_table'[w][hd]
               PROVE  <<v, gd>> = <<w, hd>>
    BY DEF NoSharedEntry
  <2>1. CASE <<v, gd>> = <<u, fd>>
    BY <1>5, <1>6, <2>1
  <2>2. CASE <<w, hd>> = <<u, fd>>
    BY <1>5, <1>6, <2>2
  <2>3. CASE <<v, gd>> # <<u, fd>> /\ <<w, hd>> # <<u, fd>>
    BY <1>6, <2>3 DEF IInv, NoSharedEntry, ValidUserFd
  <2> QED BY <2>1, <2>2, <2>3
<1>8. CountIsReferences'
  <2> SUFFICES ASSUME NEW j \in SysIndex
               PROVE  sys_table'[j].f_count = 1
                        <=> \E v \in User, gd \in Fd : user_table'[v][gd] = j
    BY DEF CountIsReferences
  <2>1. CASE j = i
    BY <1>1, <1>2, <1>3, <1>6, <2>1 DEF IInv, TypeOK
  <2>2. CASE j # i
    <3>1. sys_table'[j] = sys_table[j]
      BY <1>2, <1>3, <2>2 DEF IInv, TypeOK
    <3>2. \A v \in User, gd \in Fd : user_table'[v][gd] = j <=> user_table[v][gd] = j
      <4>1. j # -1 /\ user_table[u][fd] = -1
        BY <1>1, OpenFileTableAssumption DEF SysIndex
      <4> QED BY <1>6, <2>2, <4>1
    <3> QED BY <3>1, <3>2 DEF IInv, CountIsReferences
  <2> QED BY <2>1, <2>2
<1> QED BY <1>4, <1>7, <1>8 DEF IInv

LEMMA FreeKeeps ==
  ASSUME IInv, NEW u \in User, NEW fd \in Fd, FreeFd(u, fd)
  PROVE  IInv'
<1> DEFINE i == user_table[u][fd]
<1>1. i \in SysIndex /\ sys_table[i].f_count = 1
  BY DEF FreeFd, ValidUserFd, IInv, CountIsReferences
<1>2. /\ sys_table' = [sys_table EXCEPT ![i] = Cleared]
      /\ user_table' = [user_table EXCEPT ![u][fd] = -1] /\ ret' = 0
  BY <1>1 DEF FreeFd, Unreference
<1>3. \A v \in User, gd \in Fd : user_table[v][gd] = i => <<v, gd>> = <<u, fd>>
  BY <1>1 DEF IInv, NoSharedEntry, ValidUserFd
<1> HIDE DEF i
<1>4. TypeOK'
  BY <1>1, <1>2, OpenFileTableAssumption DEF IInv, TypeOK, Entry, Cleared, Fd
<1>5. /\ user_table'[u][fd] = -1
      /\ \A v \in User, gd \in Fd :
           <<v, gd>> # <<u, fd>> => user_table'[v][gd] = user_table[v][gd]
  BY <1>2 DEF IInv, TypeOK
<1>6. -1 \notin SysIndex
  BY OpenFileTableAssumption DEF SysIndex
<1>7. NoSharedEntry'
  <2> SUFFICES ASSUME NEW v \in User, NEW w \in User, NEW gd \in Fd, NEW hd \in Fd,
                      ValidUserFd(v, gd)', user_table'[v][gd] = user_table'[w][hd]
               PROVE  <<v, gd>> = <<w, hd>>
    BY DEF NoSharedEntry
  <2>1. <<v, gd>> # <<u, fd>> /\ <<w, hd>> # <<u, fd>>
    BY <1>5, <1>6 DEF ValidUserFd
  <2> QED BY <1>5, <2>1 DEF IInv, NoSharedEntry, ValidUserFd
<1>8. CountIsReferences'
  <2> SUFFICES ASSUME NEW j \in SysIndex
               PROVE  sys_table'[j].f_count = 1
                        <=> \E v \in User, gd \in Fd : user_table'[v][gd] = j
    BY DEF CountIsReferences
  <2>1. CASE j = i
    <3>1. sys_table'[j].f_count = 0
      BY <1>1, <1>2, <2>1 DEF IInv, TypeOK, Cleared
    <3>2. \A v \in User, gd \in Fd : user_table'[v][gd] # j
      BY <1>3, <1>5, <1>6, <2>1
    <3> QED BY <3>1, <3>2
  <2>2. CASE j # i
    <3>1. sys_table'[j] = sys_table[j]
      BY <1>1, <1>2, <2>2 DEF IInv, TypeOK
    <3>2. user_table[u][fd] # j
      BY <2>2 DEF i
    <3>3. \A v \in User, gd \in Fd : user_table'[v][gd] = j <=> user_table[v][gd] = j
      BY <1>5, <1>6, <3>2
    <3> QED BY <3>1, <3>3 DEF IInv, CountIsReferences
  <2> QED BY <2>1, <2>2
<1> QED BY <1>4, <1>7, <1>8 DEF IInv

LEMMA SetOffsetKeeps ==
  ASSUME IInv, NEW u \in User, NEW fd \in Fd, NEW offset \in Offset,
         SetOffset(u, fd, offset)
  PROVE  IInv'
<1> DEFINE i == user_table[u][fd]
<1>1. /\ i \in SysIndex /\ user_table' = user_table /\ ret' = ret
      /\ sys_table' = [sys_table EXCEPT ![i].f_offset = offset]
  BY DEF SetOffset, ValidUserFd
<1> HIDE DEF i
<1>2. TypeOK'
  BY <1>1 DEF IInv, TypeOK, Entry
<1>3. \A j \in SysIndex : sys_table'[j].f_count = sys_table[j].f_count
  BY <1>1 DEF IInv, TypeOK, Entry
<1>4. NoSharedEntry' /\ CountIsReferences'
  BY <1>1, <1>3 DEF IInv, NoSharedEntry, CountIsReferences, ValidUserFd
<1> QED BY <1>2, <1>4 DEF IInv

LEMMA CloseAllKeeps ==
  ASSUME IInv, NEW u \in User, CloseAll(u)
  PROVE  IInv'
<1> DEFINE Mine(i) == \E fd \in Fd : user_table[u][fd] = i
<1>1. \A i \in SysIndex :
         sys_table'[i] = IF Mine(i) THEN Cleared ELSE sys_table[i]
  BY DEF CloseAll, Unreference, IInv, CountIsReferences
<1>2. /\ user_table' = [user_table EXCEPT ![u] = [fd \in Fd |-> -1]] /\ ret' = ret
      /\ sys_table' = [i \in SysIndex |-> sys_table'[i]]
  BY DEF CloseAll
<1>3. /\ \A fd \in Fd : user_table'[u][fd] = -1
      /\ \A v \in User \ {u} : user_table'[v] = user_table[v]
  BY <1>2 DEF IInv, TypeOK
<1>4. -1 \notin SysIndex
  BY OpenFileTableAssumption DEF SysIndex
<1>5. TypeOK'
  <2>1. \A i \in SysIndex : sys_table'[i] \in Entry
    BY <1>1, OpenFileTableAssumption DEF IInv, TypeOK, Entry, Cleared
  <2>2. user_table' \in [User -> [Fd -> SysIndex \cup {-1}]]
    BY <1>2 DEF IInv, TypeOK
  <2> QED BY <1>2, <2>1, <2>2 DEF IInv, TypeOK
<1>6. NoSharedEntry'
  <2> SUFFICES ASSUME NEW v \in User, NEW w \in User, NEW gd \in Fd, NEW hd \in Fd,
                      ValidUserFd(v, gd)', user_table'[v][gd] = user_table'[w][hd]
               PROVE  <<v, gd>> = <<w, hd>>
    BY DEF NoSharedEntry
  <2>1. v # u /\ w # u
    BY <1>3, <1>4 DEF ValidUserFd
  <2> QED BY <1>3, <2>1 DEF IInv, NoSharedEntry, ValidUserFd
<1>7. CountIsReferences'
  <2> SUFFICES ASSUME NEW j \in SysIndex
               PROVE  sys_table'[j].f_count = 1
                        <=> \E v \in User, gd \in Fd : user_table'[v][gd] = j
    BY DEF CountIsReferences
  <2>1. CASE Mine(j)
    <3>1. sys_table'[j].f_count = 0
      BY <1>1, <2>1 DEF Cleared
    <3>2. \A v \in User \ {u}, gd \in Fd : user_table[v][gd] # j
      BY <2>1 DEF IInv, NoSharedEntry, ValidUserFd
    <3>3. \A v \in User, gd \in Fd : user_table'[v][gd] # j
      BY <1>3, <1>4, <3>2
    <3> QED BY <3>1, <3>3
  <2>2. CASE ~Mine(j)
    <3>1. sys_table'[j] = sys_table[j]
      BY <1>1, <2>2
    <3>2. \A v \in User, gd \in Fd : user_table'[v][gd] = j <=> user_table[v][gd] = j
      BY <1>3, <1>4, <2>2
    <3> QED BY <3>1, <3>2 DEF IInv, CountIsReferences
  <2> QED BY <2>1, <2>2
<1> QED BY <1>5, <1>6, <1>7 DEF IInv

LEMMA NextIInv == IInv /\ [Next]_vars => IInv'
<1> SUFFICES ASSUME IInv, [Next]_vars PROVE IInv'
  OBVIOUS
<1>1. ASSUME UNCHANGED <<sys_table, user_table>>, ret' \in Fd \cup {-1}
      PROVE  IInv'
  BY <1>1 DEF IInv, TypeOK, NoSharedEntry, CountIsReferences, ValidUserFd
<1>2. CASE UNCHANGED vars
  BY <1>1, <1>2 DEF vars, IInv, TypeOK
<1>3. ASSUME NEW u \in User, AllocRefused(u)
      PROVE  IInv'
  BY <1>1, <1>3 DEF AllocRefused
<1>4. ASSUME NEW u \in User, NEW fd \in Fd, FreeBadFd(u, fd)
      PROVE  IInv'
  BY <1>1, <1>4 DEF FreeBadFd
<1> QED BY <1>2, <1>3, <1>4, AllocKeeps, FreeKeeps, SetOffsetKeeps, CloseAllKeeps DEF Next

LEMMA TableInvariant == Spec => []IInv
BY InitIInv, NextIInv, PTL DEF Spec

\* Descriptors index the system table, and counts never leave 0 .. 1.
THEOREM TableTypes == Spec => []TypeOK
<1>1. IInv => TypeOK
  BY DEF IInv
<1> QED BY <1>1, TableInvariant, PTL

\* No two descriptors, of one user or of two, stand for one entry.
THEOREM TableEntriesUnshared == Spec => []NoSharedEntry
<1>1. IInv => NoSharedEntry
  BY DEF IInv
<1> QED BY <1>1, TableInvariant, PTL

\* No entry is leaked, none is cleared while a descriptor still refers to it.
THEOREM TableCounts == Spec => []CountIsReferences
<1>1. IInv => CountIsReferences
  BY DEF IInv
<1> QED BY <1>1, TableInvariant, PTL

-----------------------------------------------------------------------------
(* The two tables implement the map of descriptors. *)

\* The open descriptors index the entries in use one to one, so as many are
\* open as the system has entries exactly when no entry is free.
LEMMA OpenRefsCount ==
  ASSUME IInv
  PROVE  /\ IsFiniteSet(OpenRefs)
         /\ Cardinality(OpenRefs) \in Nat /\ Cardinality(OpenRefs) <= SYS_OPEN_FILE
         /\ Cardinality(OpenRefs) = SYS_OPEN_FILE <=> FreeEntries = {}
<1> DEFINE index == [r \in OpenRefs |-> user_table[r[1]][r[2]]]
<1>1. IsFiniteSet(SysIndex) /\ Cardinality(SysIndex) = SYS_OPEN_FILE
  BY FS_Interval, OpenFileTableAssumption DEF SysIndex
<1>2. \A r \in OpenRefs : r = <<r[1], r[2]>> /\ r[1] \in User /\ r[2] \in Fd
                          /\ user_table[r[1]][r[2]] \in SysIndex
  BY DEF OpenRefs, ValidUserFd
<1>3. index \in Injection(OpenRefs, SysIndex)
  <2>1. index \in [OpenRefs -> SysIndex]
    BY <1>2
  <2>2. ASSUME NEW r \in OpenRefs, NEW s \in OpenRefs, index[r] = index[s]
        PROVE  r = s
    <3>1. ValidUserFd(r[1], r[2]) /\ user_table[r[1]][r[2]] = user_table[s[1]][s[2]]
      BY <2>2 DEF OpenRefs
    <3>2. <<r[1], r[2]>> = <<s[1], s[2]>>
      BY <1>2, <3>1 DEF IInv, NoSharedEntry
    <3> QED BY <1>2, <3>2
  <2> QED BY <2>1, <2>2 DEF Injection, IsInjective
<1>4. index \in Surjection(OpenRefs, SysIndex) <=> FreeEntries = {}
  <2>1. \A i \in SysIndex :
           (\E r \in OpenRefs : index[r] = i) <=> \E u \in User, fd \in Fd : user_table[u][fd] = i
    <3> SUFFICES ASSUME NEW i \in SysIndex
                 PROVE  (\E r \in OpenRefs : index[r] = i)
                           <=> \E u \in User, fd \in Fd : user_table[u][fd] = i
      OBVIOUS
    <3>1. ASSUME NEW u \in User, NEW fd \in Fd, user_table[u][fd] = i
          PROVE  \E r \in OpenRefs : index[r] = i
      <4>1. <<u, fd>> \in OpenRefs
        BY <3>1 DEF OpenRefs, ValidUserFd
      <4> QED BY <3>1, <4>1
    <3> QED BY <1>2, <3>1
  <2>2. \A i \in SysIndex : sys_table[i].f_count \in {0, 1}
    BY DEF IInv, TypeOK, Entry
  <2>3. FreeEntries = {} <=> \A i \in SysIndex : \E r \in OpenRefs : index[r] = i
    BY <2>1, <2>2 DEF IInv, CountIsReferences, FreeEntries
  <2>4. index \in [OpenRefs -> SysIndex]
    BY <1>2
  <2> HIDE DEF index
  <2> QED BY <2>3, <2>4 DEF Surjection
<1> HIDE DEF index
<1>5. /\ IsFiniteSet(OpenRefs) /\ Cardinality(OpenRefs) <= Cardinality(SysIndex)
      /\ Cardinality(OpenRefs) = Cardinality(SysIndex) <=> index \in Surjection(OpenRefs, SysIndex)
  BY <1>1, <1>3, FS_Injection
<1> QED BY <1>1, <1>4, <1>5, FS_CardinalityType

\* The abstract module counts with its own instance of FiniteSets.
LEMMA SameCardinality == \A S : Fds!Cardinality(S) = Cardinality(S)
BY Zenon DEF Fds!Cardinality, Cardinality, Fds!IsFiniteSet, IsFiniteSet

LEMMA AllocIsOpen ==
  ASSUME IInv, NEW u \in User, NEW inode \in Inode, NEW flags \in Flag,
         AllocFd(u, inode, flags)
  PROVE  \E fd \in Fd : Fds!Open(u, inode, flags, fd)
<1> DEFINE fd == Lowest(FreeFds(u))
           i == Lowest(FreeEntries)
<1>1. fd \in Fd /\ user_table[u][fd] = -1
  <2>1. FreeFds(u) # {} /\ FreeFds(u) \subseteq Nat
    BY OpenFileTableAssumption DEF AllocFd, FreeFds, Fd
  <2> QED BY <2>1, LowestIsMember DEF FreeFds
<1>2. i \in SysIndex /\ sys_table[i].f_count = 0 /\ FreeEntries # {}
  <2>1. FreeEntries # {} /\ FreeEntries \subseteq Nat
    BY OpenFileTableAssumption DEF AllocFd, FreeEntries, SysIndex
  <2> QED BY <2>1, LowestIsMember DEF FreeEntries
<1>3. /\ sys_table' = [sys_table EXCEPT ![i] =
                         [f_flag |-> flags, f_count |-> 1,
                          f_inode_no |-> inode, f_offset |-> 0]]
      /\ user_table' = [user_table EXCEPT ![u][fd] = i]
      /\ ret' = fd
  BY DEF AllocFd
<1> HIDE DEF fd, i
<1>4. PICK k \in Fd : k = fd
  BY <1>1
<1>5. PICK m \in SysIndex : m = i
  BY <1>2
<1>6. \A v \in User, gd \in Fd : user_table[v][gd] # m
  BY <1>2, <1>5 DEF IInv, CountIsReferences, TypeOK, Entry
<1>7. /\ user_table'[u][k] = m
      /\ \A v \in User, gd \in Fd :
           <<v, gd>> # <<u, k>> => user_table'[v][gd] = user_table[v][gd]
  BY <1>1, <1>3, <1>4, <1>5 DEF IInv, TypeOK
<1>8. <<u, k>> \notin OpenRefs
  BY <1>1, <1>4, OpenFileTableAssumption DEF OpenRefs, ValidUserFd, SysIndex
<1>9. \A r \in OpenRefs : r = <<r[1], r[2]>> /\ r[1] \in User /\ r[2] \in Fd
                          /\ user_table[r[1]][r[2]] \in SysIndex
  BY DEF OpenRefs, ValidUserFd
<1>10. OpenRefs' = OpenRefs \cup {<<u, k>>}
  <2>1. ASSUME NEW v \in User, NEW gd \in Fd
        PROVE  <<v, gd>> \in OpenRefs' <=> <<v, gd>> \in OpenRefs \cup {<<u, k>>}
    BY <1>7 DEF OpenRefs, ValidUserFd
  <2>2. OpenRefs \subseteq User \X Fd /\ OpenRefs' \subseteq User \X Fd
    BY DEF OpenRefs
  <2> QED BY <2>1, <2>2
<1>11. FileOf(<<u, k>>)' = Fds!NewFile(inode, flags)
  BY <1>3, <1>5, <1>7 DEF FileOf, Fds!NewFile, IInv, TypeOK
<1>12. ASSUME NEW r \in OpenRefs
       PROVE  FileOf(r)' = FileOf(r)
  <2>1. r # <<u, k>>
    BY <1>8
  <2>2. user_table'[r[1]][r[2]] = user_table[r[1]][r[2]]
    BY <1>7, <1>9, <2>1
  <2>3. sys_table'[user_table[r[1]][r[2]]] = sys_table[user_table[r[1]][r[2]]]
    BY <1>3, <1>5, <1>6, <1>9 DEF IInv, TypeOK
  <2> QED BY <2>2, <2>3 DEF FileOf
<1>13. Cardinality(OpenRefs) < SYS_OPEN_FILE
  BY <1>2, OpenRefsCount, OpenFileTableAssumption
<1>14. Fds!Open(u, inode, flags, k)
  <2> DEFINE files == [r \in OpenRefs |-> FileOf(r)]
             New == [r \in DOMAIN files \cup {<<u, k>>} |->
                       IF r = <<u, k>> THEN Fds!NewFile(inode, flags) ELSE files[r]]
  <2>1. files' = [r \in OpenRefs \cup {<<u, k>>} |-> FileOf(r)']
    BY <1>10
  <2>2. \A r \in OpenRefs \cup {<<u, k>>} : FileOf(r)' = New[r]
    BY <1>8, <1>11, <1>12
  <2>3. DOMAIN files = OpenRefs
    OBVIOUS
  <2>4. files' = New
    <3>1. New = [r \in OpenRefs \cup {<<u, k>>} |-> New[r]]
      BY <2>3
    <3> HIDE DEF New
    <3> QED BY <2>1, <2>2, <3>1
  <2>5. ret' = k /\ <<u, k>> \notin DOMAIN files /\ Cardinality(DOMAIN files) < SYS_OPEN_FILE
    BY <1>3, <1>4, <1>8, <1>13, <2>3
  <2> QED BY <2>4, <2>5, SameCardinality DEF Fds!Open
<1> QED BY <1>14

LEMMA FreeIsClose ==
  ASSUME IInv, NEW u \in User, NEW fd \in Fd, FreeFd(u, fd)
  PROVE  Fds!Close(u, fd)
<1> DEFINE i == user_table[u][fd]
<1>1. i \in SysIndex /\ user_table' = [user_table EXCEPT ![u][fd] = -1] /\ ret' = 0
      /\ \A j \in SysIndex \ {i} : sys_table'[j] = sys_table[j]
  BY DEF FreeFd, ValidUserFd, IInv, TypeOK
<1>2. \A v \in User, gd \in Fd : user_table[v][gd] = i => <<v, gd>> = <<u, fd>>
  BY <1>1 DEF IInv, NoSharedEntry, ValidUserFd
<1> HIDE DEF i
<1>3. /\ user_table'[u][fd] = -1
      /\ \A v \in User, gd \in Fd :
           <<v, gd>> # <<u, fd>> => user_table'[v][gd] = user_table[v][gd]
  BY <1>1 DEF IInv, TypeOK
<1>4. -1 \notin SysIndex
  BY OpenFileTableAssumption DEF SysIndex
<1>5. \A r \in OpenRefs : r = <<r[1], r[2]>> /\ r[1] \in User /\ r[2] \in Fd
                          /\ user_table[r[1]][r[2]] \in SysIndex
  BY DEF OpenRefs, ValidUserFd
<1>6. <<u, fd>> \in OpenRefs
  BY <1>1 DEF OpenRefs, ValidUserFd, i
<1>7. OpenRefs' = OpenRefs \ {<<u, fd>>}
  <2>1. ASSUME NEW v \in User, NEW gd \in Fd
        PROVE  <<v, gd>> \in OpenRefs' <=> <<v, gd>> \in OpenRefs \ {<<u, fd>>}
    BY <1>3, <1>4 DEF OpenRefs, ValidUserFd
  <2>2. OpenRefs \subseteq User \X Fd /\ OpenRefs' \subseteq User \X Fd
    BY DEF OpenRefs
  <2> QED BY <2>1, <2>2
<1>8. ASSUME NEW r \in OpenRefs, r # <<u, fd>>
      PROVE  FileOf(r)' = FileOf(r)
  <2>1. user_table'[r[1]][r[2]] = user_table[r[1]][r[2]]
    BY <1>3, <1>5, <1>8
  <2>2. user_table[r[1]][r[2]] # i
    BY <1>2, <1>5, <1>8
  <2> QED BY <1>1, <1>5, <2>1, <2>2 DEF FileOf
<1> QED BY <1>1, <1>6, <1>7, <1>8 DEF Fds!Close

LEMMA SetOffsetIsSeek ==
  ASSUME IInv, NEW u \in User, NEW fd \in Fd, NEW offset \in Offset,
         SetOffset(u, fd, offset)
  PROVE  Fds!Seek(u, fd, offset)
<1> DEFINE i == user_table[u][fd]
           files == [r \in OpenRefs |-> FileOf(r)]
<1>1. /\ i \in SysIndex /\ user_table' = user_table /\ ret' = ret
      /\ sys_table' = [sys_table EXCEPT ![i].f_offset = offset]
  BY DEF SetOffset, ValidUserFd
<1>2. \A v \in User, gd \in Fd : user_table[v][gd] = i => <<v, gd>> = <<u, fd>>
  BY <1>1 DEF IInv, NoSharedEntry, ValidUserFd
<1>3. \A r \in OpenRefs : r = <<r[1], r[2]>> /\ r[1] \in User /\ r[2] \in Fd
                          /\ user_table[r[1]][r[2]] \in SysIndex
  BY DEF OpenRefs, ValidUserFd
<1>4. <<u, fd>> \in OpenRefs /\ OpenRefs' = OpenRefs
  BY <1>1 DEF OpenRefs, ValidUserFd
<1>5. FileOf(<<u, fd>>)' = [FileOf(<<u, fd>>) EXCEPT !.f_offset = offset]
  BY <1>1 DEF FileOf, IInv, TypeOK, Entry
<1>6. ASSUME NEW r \in OpenRefs, r # <<u, fd>>
      PROVE  FileOf(r)' = FileOf(r)
  <2>1. user_table[r[1]][r[2]] # i
    BY <1>2, <1>3, <1>6
  <2> HIDE DEF i
  <2> QED BY <1>1, <1>3, <2>1 DEF FileOf, IInv, TypeOK
<1>7. files' = [files EXCEPT ![<<u, fd>>].f_offset = offset]
  <2>1. files' = [r \in OpenRefs |-> FileOf(r)']
    BY <1>4
  <2> HIDE DEF i
  <2> QED BY <1>4, <1>5, <1>6, <2>1
<1> QED BY <1>1, <1>4, <1>7 DEF Fds!Seek

LEMMA CloseAllIsCloseAll ==
  ASSUME IInv, NEW u \in User, CloseAll(u)
  PROVE  Fds!CloseAll(u)
<1> DEFINE Mine(i) == \E fd \in Fd : user_table[u][fd] = i
<1>1. \A i \in SysIndex : ~Mine(i) => sys_table'[i] = sys_table[i]
  BY DEF CloseAll
<1>2. /\ user_table' = [user_table EXCEPT ![u] = [fd \in Fd |-> -1]] /\ ret' = ret
  BY DEF CloseAll
<1>3. /\ \A fd \in Fd : user_table'[u][fd] = -1
      /\ \A v \in User \ {u} : user_table'[v] = user_table[v]
  BY <1>2 DEF IInv, TypeOK
<1>4. -1 \notin SysIndex
  BY OpenFileTableAssumption DEF SysIndex
<1>5. \A r \in OpenRefs : r = <<r[1], r[2]>> /\ r[1] \in User /\ r[2] \in Fd
                          /\ user_table[r[1]][r[2]] \in SysIndex
  BY DEF OpenRefs, ValidUserFd
<1>6. OpenRefs' = {s \in OpenRefs : s[1] # u}
  <2>1. ASSUME NEW v \in User, NEW gd \in Fd
        PROVE  <<v, gd>> \in OpenRefs' <=> <<v, gd>> \in OpenRefs /\ v # u
    BY <1>3, <1>4 DEF OpenRefs, ValidUserFd
  <2>2. OpenRefs \subseteq User \X Fd /\ OpenRefs' \subseteq User \X Fd
    BY DEF OpenRefs
  <2> QED BY <2>1, <2>2
<1>7. ASSUME NEW r \in OpenRefs, r[1] # u
      PROVE  FileOf(r)' = FileOf(r)
  <2>1. user_table'[r[1]][r[2]] = user_table[r[1]][r[2]]
    BY <1>3, <1>5, <1>7
  <2>2. ~Mine(user_table[r[1]][r[2]])
    <3> SUFFICES ASSUME NEW fd \in Fd, user_table[u][fd] = user_table[r[1]][r[2]]
                 PROVE  FALSE
      OBVIOUS
    <3>1. <<u, fd>> = <<r[1], r[2]>>
      BY <1>5 DEF IInv, NoSharedEntry, ValidUserFd
    <3> QED BY <1>7, <3>1
  <2> QED BY <1>1, <1>5, <2>1, <2>2 DEF FileOf
<1> QED BY <1>2, <1>6, <1>7 DEF Fds!CloseAll

\* The two tables implement the map of descriptors to open files: an open takes
\* a descriptor nobody has, a close or a seek touches that descriptor only, and
\* an open is refused only when the user's descriptors or the entries run out.
THEOREM TableImplementsFds == Spec => ImplementsFds
<1>1. Init => Fds!Init
  <2> SUFFICES ASSUME Init PROVE Fds!Init
    OBVIOUS
  <2>1. OpenRefs = {} /\ ret = -1
    BY OpenFileTableAssumption DEF Init, OpenRefs, ValidUserFd, SysIndex
  <2> QED BY <2>1 DEF Fds!Init
<1>2. IInv /\ [Next]_vars => [Fds!Next]_(Fds!fdVars)
  <2> SUFFICES ASSUME IInv, [Next]_vars
               PROVE  [Fds!Next]_(Fds!fdVars)
    OBVIOUS
  <2>1. ASSUME UNCHANGED <<sys_table, user_table>>
        PROVE  /\ OpenRefs' = OpenRefs
               /\ [r \in OpenRefs |-> FileOf(r)]' = [r \in OpenRefs |-> FileOf(r)]
    BY <2>1 DEF OpenRefs, ValidUserFd, FileOf
  <2>2. CASE UNCHANGED vars
    BY <2>1, <2>2 DEF vars, Fds!fdVars
  <2>3. ASSUME NEW u \in User, NEW inode \in Inode, NEW flags \in Flag,
               AllocFd(u, inode, flags)
        PROVE  Fds!Next
    BY <2>3, AllocIsOpen DEF Fds!Next
  <2>4. ASSUME NEW u \in User, AllocRefused(u)
        PROVE  Fds!Next
    <3>1. Fds!OpenRefused(u)
      <4>1. FreeFds(u) = {} => Fds!OpenFds(u) = Fd
        BY DEF FreeFds, Fds!OpenFds, OpenRefs, ValidUserFd, IInv, TypeOK
      <4>2. FreeEntries = {} => Cardinality(OpenRefs) = SYS_OPEN_FILE
        BY OpenRefsCount
      <4> DEFINE files == [r \in OpenRefs |-> FileOf(r)]
      <4>3. DOMAIN files = OpenRefs
        OBVIOUS
      <4>4. files' = files /\ ret' = -1
        BY <2>1, <2>4 DEF AllocRefused
      <4>5. FreeFds(u) = {} \/ FreeEntries = {}
        BY <2>4 DEF AllocRefused
      <4>6. Fds!OpenFds(u) = Fd \/ Cardinality(DOMAIN files) = SYS_OPEN_FILE
        BY <4>1, <4>2, <4>3, <4>5
      <4> QED BY <4>4, <4>6, SameCardinality DEF Fds!OpenRefused
    <3> QED BY <3>1 DEF Fds!Next
  <2>5. ASSUME NEW u \in User, NEW fd \in Fd, FreeFd(u, fd)
        PROVE  Fds!Next
    BY <2>5, FreeIsClose DEF Fds!Next
  <2>6. ASSUME NEW u \in User, NEW fd \in Fd, FreeBadFd(u, fd)
        PROVE  Fds!Next
    <3>1. Fds!CloseBad(u, fd)
      BY <2>1, <2>6 DEF FreeBadFd, Fds!CloseBad, OpenRefs
    <3> QED BY <3>1 DEF Fds!Next
  <2>7. ASSUME NEW u \in User, NEW fd \in Fd, NEW offset \in Offset,
               SetOffset(u, fd, offset)
        PROVE  Fds!Next
    BY <2>7, SetOffsetIsSeek DEF Fds!Next
  <2>8. ASSUME NEW u \in User, CloseAll(u)
        PROVE  Fds!Next
    BY <2>8, CloseAllIsCloseAll DEF Fds!Next
  <2> QED BY <2>2, <2>3, <2>4, <2>5, <2>6, <2>7, <2>8 DEF Next
<1> QED BY <1>1, <1>2, TableInvariant, PTL DEF Spec, ImplementsFds, Fds!Spec

-----------------------------------------------------------------------------
\* ---- The commands ----

\* ---- Volumes ----

Keys == Ino \X Name
Paths == Seq(Name) \ {<< >>}
InodeKinds == {"free", "dir", "file", "link"}
Node == [kind : InodeKinds, data : Seq(Block), target : Seq(Name)]
Entries == UNION {[D -> Ino] : D \in SUBSET Keys}
Counts == [Ino -> Nat]
Shapes == [entry : Entries, inode : [Ino -> Node], blks : Counts, spare : Counts,
           locked : SUBSET Ino]

Volume(E, I, b, s, L) == [entry |-> E, inode |-> I, blks |-> b, spare |-> s, locked |-> L]

\* Entries are in directories and lead to inodes in use, no entry leads to the
\* root, only files have data, and a directory has one name.
Volumes ==
  {f \in Shapes :
     /\ \A e \in DOMAIN f.entry :
          /\ f.inode[e[1]].kind = "dir" /\ f.entry[e] # root
          /\ f.inode[f.entry[e]].kind # "free"
     /\ f.inode[root].kind = "dir"
     /\ \A i \in Ino : f.inode[i].kind # "file" => f.inode[i].data = << >>
     /\ \A e, x \in DOMAIN f.entry :
          f.entry[e] = f.entry[x] /\ f.inode[f.entry[e]].kind = "dir" => e = x}

Nodes == Ino \cup {NONE}

LEMMA InodeNumbers ==
  /\ INODES \in Nat \ {0} /\ NOFILE \in Nat \ {0} /\ HOPS \in Nat \ {0} /\ BLOCKS \in Nat
  /\ DIR_ENTRIES_PER_BLK - 1 \in Nat /\ DIR_ENTRIES_PER_BLK - 2 \in Nat
  /\ Ino \subseteq Nat /\ root \in Ino /\ NONE \notin Ino /\ IsFiniteSet(Ino)
<1>1. INODES \in Nat \ {0} /\ NOFILE \in Nat \ {0} /\ HOPS \in Nat \ {0} /\ BLOCKS \in Nat
  BY CommandsAssumption
<1>2. IsFiniteSet(0 .. INODES - 1)
  BY <1>1, FS_Interval
<1>3. DIR_ENTRIES_PER_BLK - 1 \in Nat /\ DIR_ENTRIES_PER_BLK - 2 \in Nat
  BY CommandsAssumption
<1> QED BY <1>1, <1>2, <1>3 DEF Ino, root, NONE

LEMMA VolumeTypes ==
  ASSUME NEW f \in Volumes
  PROVE  /\ f = Volume(f.entry, f.inode, f.blks, f.spare, f.locked)
         /\ f.entry \in [DOMAIN f.entry -> Ino] /\ DOMAIN f.entry \subseteq Keys
         /\ f.entry \in Entries /\ f.inode \in [Ino -> Node] /\ f.locked \subseteq Ino
         /\ f.blks \in Counts /\ f.spare \in Counts
<1>1. f \in Shapes
  BY DEF Volumes
<1>2. PICK D \in SUBSET Keys : f.entry \in [D -> Ino]
  BY <1>1 DEF Entries, Shapes
<1> QED BY <1>1, <1>2 DEF Shapes, Volume

LEMMA VolumeShape ==
  ASSUME NEW E \in Entries, NEW I \in [Ino -> Node], NEW b \in Counts, NEW s \in Counts,
         NEW L \in SUBSET Ino
  PROVE  LET h == Volume(E, I, b, s, L)
         IN  /\ h \in Shapes /\ h.entry = E /\ h.inode = I /\ h.blks = b /\ h.spare = s
             /\ h.locked = L
BY DEF Volume, Shapes

\* ---- Finding names ----

Look(f, i, n) == IF <<i, n>> \in DOMAIN f.entry THEN f.entry[<<i, n>>] ELSE NONE

Lookups(f, p) == [x \in Nodes \X (1 .. Len(p)) |-> Look(f, x[1], p[x[2]])]

LEMMA LookType ==
  ASSUME NEW f \in Volumes, NEW i, NEW n
  PROVE  Look(f, i, n) \in Nodes
BY VolumeTypes DEF Look, Nodes

LEMMA NameiRuns ==
  ASSUME NEW f \in Volumes, NEW p \in Seq(Name)
  PROVE  \E w : IsOrbit(w, Nodes, root, Len(p), Lookups(f, p)) /\ namei(f, p) = w[Len(p)]
<1> DEFINE n == Len(p)
           walk[k \in 0 .. n] ==
             IF k = 0 THEN root
             ELSE IF <<walk[k - 1], p[k]>> \in DOMAIN f.entry
                  THEN f.entry[<<walk[k - 1], p[k]>>]
             ELSE NONE
           Def(g) == [k \in 0 .. n |->
             IF k = 0 THEN root
             ELSE IF <<g[k - 1], p[k]>> \in DOMAIN f.entry THEN f.entry[<<g[k - 1], p[k]>>]
             ELSE NONE]
           G == Lookups(f, p)
<1>1. namei(f, p) = walk[n]
  BY DEF namei
<1>2. n \in Nat /\ root \in Nodes
  BY InodeNumbers DEF Nodes
<1>3. /\ G \in [Nodes \X (1 .. n) -> Nodes]
      /\ \A a \in Nodes, k \in 1 .. n : G[<<a, k>>] = Look(f, a, p[k])
  BY LookType DEF Lookups
<1> HIDE DEF G, n
<1>4. PICK w : IsOrbit(w, Nodes, root, n, G)
  BY <1>2, <1>3, Orbit
<1>5. \A k \in 1 .. n : w[k - 1] \in Nodes
  <2>1. \A k \in 1 .. n : k - 1 \in 0 .. n
    BY <1>2
  <2> QED BY <1>4, <2>1 DEF IsOrbit
<1>6. w = Def(w)
  <2>1. \A k \in 1 .. n : w[k] = Look(f, w[k - 1], p[k])
    BY <1>3, <1>4, <1>5 DEF IsOrbit
  <2>2. w = [k \in 0 .. n |-> w[k]] /\ w[0] = root
    BY <1>4 DEF IsOrbit
  <2>3. \A k \in 0 .. n : k # 0 => k \in 1 .. n
    BY <1>2
  <2> QED BY <2>1, <2>2, <2>3 DEF Look
<1>7. walk = Def(walk)
  BY <1>6, Zenon
<1> HIDE DEF walk
<1>8. IsOrbit(walk, Nodes, root, n, G)
  <2>1. walk = [k \in 0 .. n |-> walk[k]] /\ walk[0] = root
    BY <1>2, <1>7
  <2>2. ASSUME NEW k \in 1 .. n, walk[k - 1] \in Nodes
        PROVE  walk[k] = G[<<walk[k - 1], k>>]
    <3>1. k \in 0 .. n /\ k # 0
      BY <1>2
    <3>2. walk[k] = IF <<walk[k - 1], p[k]>> \in DOMAIN f.entry
                    THEN f.entry[<<walk[k - 1], p[k]>>] ELSE NONE
      BY <1>7, <3>1
    <3>3. G[<<walk[k - 1], k>>] = Look(f, walk[k - 1], p[k])
      BY <1>3, <2>2
    <3> QED BY <3>2, <3>3 DEF Look
  <2> QED BY <1>2, <1>3, <2>1, <2>2, LoopIsOrbit
<1> QED BY <1>1, <1>8 DEF G, n

LEMMA FrontAndLast ==
  ASSUME NEW A, NEW p \in Seq(A), p # << >>
  PROVE  /\ Len(p) \in Nat \ {0}
         /\ Front(p) \in Seq(A) /\ Len(Front(p)) = Len(p) - 1
         /\ Last(p) = p[Len(p)] /\ p[Len(p)] \in A
         /\ \A k \in 1 .. Len(p) - 1 : Front(p)[k] = p[k]
         /\ p = Append(Front(p), Last(p))
<1> DEFINE n == Len(p)
<1>1. n \in Nat \ {0} /\ p[n] \in A
  OBVIOUS
<1>2. /\ Front(p) \in Seq(A) /\ Len(Front(p)) = n - 1
      /\ \A k \in 1 .. n - 1 : Front(p)[k] = p[k]
  <2>1. \A k \in 1 .. n - 1 : p[k] \in A
    OBVIOUS
  <2>2. Front(p) = SubSeq(p, 1, n - 1)
    BY DEF Front
  <2> HIDE DEF n
  <2>3. /\ SubSeq(p, 1, n - 1) \in Seq(A)
        /\ Len(SubSeq(p, 1, n - 1)) = IF 1 <= n - 1 THEN (n - 1) - 1 + 1 ELSE 0
        /\ \A k \in 1 .. (n - 1) - 1 + 1 : SubSeq(p, 1, n - 1)[k] = p[1 + k - 1]
    BY <1>1, <2>1, SubSeqProperties
  <2> QED BY <1>1, <2>2, <2>3
<1> HIDE DEF n
<1>3. p = Append(Front(p), p[n])
  BY <1>1, <1>2 DEF n
<1> QED BY <1>1, <1>2, <1>3 DEF Last, n

\* The last step of a walk.
LEMMA NameiStep ==
  ASSUME NEW f \in Volumes
  PROVE  /\ namei(f, << >>) = root
         /\ \A p \in Paths :
              /\ Front(p) \in Seq(Name) /\ Len(Front(p)) = Len(p) - 1 /\ Last(p) \in Name
              /\ p = Append(Front(p), Last(p))
              /\ namei(f, p) = Look(f, namei(f, Front(p)), Last(p))
         /\ \A p \in Seq(Name) : namei(f, p) \in Nodes
<1>1. namei(f, << >>) = root
  <2>1. << >> \in Seq(Name) /\ Len(<< >>) = 0
    OBVIOUS
  <2> QED BY <2>1, NameiRuns DEF IsOrbit
<1>2. ASSUME NEW p \in Seq(Name)
      PROVE  namei(f, p) \in Nodes
  <2>1. Len(p) \in 0 .. Len(p)
    OBVIOUS
  <2> QED BY <2>1, NameiRuns DEF IsOrbit
<1>3. ASSUME NEW p \in Paths
      PROVE  /\ Front(p) \in Seq(Name) /\ Len(Front(p)) = Len(p) - 1 /\ Last(p) \in Name
             /\ p = Append(Front(p), Last(p))
             /\ namei(f, p) = Look(f, namei(f, Front(p)), Last(p))
  <2> DEFINE n == Len(p)
             q == Front(p)
  <2>1. n \in Nat \ {0} /\ p \in Seq(Name)
    BY DEF Paths
  <2>2. /\ q \in Seq(Name) /\ Len(q) = n - 1 /\ Last(p) = p[n] /\ p[n] \in Name
        /\ \A k \in 1 .. n - 1 : q[k] = p[k]
        /\ p = Append(q, Last(p))
    BY <2>1, FrontAndLast
  <2>3. PICK w : IsOrbit(w, Nodes, root, n, Lookups(f, p)) /\ namei(f, p) = w[n]
    BY <2>1, NameiRuns
  <2>4. PICK v : IsOrbit(v, Nodes, root, n - 1, Lookups(f, q)) /\ namei(f, q) = v[n - 1]
    BY <2>2, NameiRuns
  <2> HIDE DEF q, n
  <2> DEFINE S == {k \in Nat : k <= n - 1 => v[k] = w[k]}
  <2>5. 0 \in S
    BY <2>3, <2>4 DEF IsOrbit
  <2>6. ASSUME NEW k \in Nat, k \in S
        PROVE  k + 1 \in S
    <3> SUFFICES ASSUME k + 1 <= n - 1
                 PROVE  v[k + 1] = w[k + 1]
      OBVIOUS
    <3>1. /\ k \in 0 .. n /\ k + 1 \in 1 .. n /\ k + 1 \in 1 .. n - 1 /\ (k + 1) - 1 = k
          /\ v[k] = w[k]
      BY <2>1, <2>6
    <3>2. w[k] \in Nodes
      BY <2>3, <3>1 DEF IsOrbit
    <3>3. Len(p) = n /\ Len(q) = n - 1
      BY <2>2 DEF n
    <3>4. w[k + 1] = Lookups(f, p)[<<w[k], k + 1>>] /\ v[k + 1] = Lookups(f, q)[<<w[k], k + 1>>]
      BY <2>3, <2>4, <3>1 DEF IsOrbit
    <3>5. w[k + 1] = Look(f, w[k], p[k + 1]) /\ v[k + 1] = Look(f, w[k], q[k + 1])
      BY <3>1, <3>2, <3>3, <3>4 DEF Lookups
    <3> QED BY <2>2, <3>1, <3>5
  <2> HIDE DEF S
  <2>7. n - 1 \in S
    BY <2>1, <2>5, <2>6, Induction
  <2>8. v[n - 1] = w[n - 1] /\ n - 1 \in 0 .. n /\ n \in 1 .. n
    BY <2>1, <2>7 DEF S
  <2>9. w[n - 1] \in Nodes /\ w[n] = Lookups(f, p)[<<w[n - 1], n>>]
    BY <2>3, <2>8 DEF IsOrbit
  <2>10. w[n] = Look(f, w[n - 1], p[n])
    BY <2>8, <2>9 DEF Lookups, n
  <2> QED BY <2>2, <2>3, <2>4, <2>8, <2>10 DEF q, n
<1> QED BY <1>1, <1>2, <1>3

Used(f) == {i \in Ino : f.inode[i].kind # "free"}

LEMMA NoKeyBelow ==
  ASSUME NEW f \in Volumes, NEW i \in Nodes, NEW n, i = NONE \/ f.inode[i].kind # "dir"
  PROVE  Look(f, i, n) = NONE
<1>1. ASSUME <<i, n>> \in DOMAIN f.entry
      PROVE  FALSE
  <2>1. <<i, n>> \in Keys
    BY <1>1, VolumeTypes
  <2>2. i \in Ino
    BY <2>1 DEF Keys
  <2>3. f.inode[<<i, n>>[1]].kind = "dir"
    BY <1>1 DEF Volumes
  <2> QED BY <2>2, <2>3, InodeNumbers
<1> QED BY <1>1 DEF Look

LEMMA NameiUsed ==
  ASSUME NEW f \in Volumes, NEW p \in Seq(Name)
  PROVE  namei(f, p) \in Used(f) \cup {NONE}
<1>1. CASE p = << >>
  BY <1>1, NameiStep, InodeNumbers DEF Volumes, Used
<1>2. CASE p # << >>
  <2> DEFINE e == <<namei(f, Front(p)), Last(p)>>
  <2>1. namei(f, p) = IF e \in DOMAIN f.entry THEN f.entry[e] ELSE NONE
    BY <1>2, NameiStep DEF Paths, Look
  <2> HIDE DEF e
  <2>2. e \in DOMAIN f.entry => f.entry[e] \in Ino
    BY VolumeTypes
  <2>3. e \in DOMAIN f.entry => f.inode[f.entry[e]].kind # "free"
    BY DEF Volumes
  <2> QED BY <2>1, <2>2, <2>3 DEF Used
<1> QED BY <1>1, <1>2

\* Induction over paths, for the predicate "is in S".
LEMMA PathInduction ==
  ASSUME NEW S, << >> \in S, \A p \in Paths : Front(p) \in S => p \in S
  PROVE  Seq(Name) \subseteq S
<1> DEFINE N == {n \in Nat : \A p \in Seq(Name) : Len(p) = n => p \in S}
<1>1. 0 \in N
  <2>1. \A p \in Seq(Name) : Len(p) = 0 => p = << >>
    OBVIOUS
  <2> QED BY <2>1
<1>2. ASSUME NEW n \in Nat, n \in N
      PROVE  n + 1 \in N
  <2> SUFFICES ASSUME NEW p \in Seq(Name), Len(p) = n + 1
               PROVE  p \in S
    OBVIOUS
  <2>1. p # << >>
    OBVIOUS
  <2>2. Front(p) \in Seq(Name) /\ Len(Front(p)) = n
    BY <2>1, FrontAndLast
  <2> QED BY <1>2, <2>1, <2>2 DEF Paths
<1> HIDE DEF N
<1>3. Nat \subseteq N
  BY <1>1, <1>2, Induction
<1> QED BY <1>3 DEF N

\* ---- Following links ----

Follow(f, i) == IF kind(f, i) = "link" THEN namei(f, f.inode[i].target) ELSE i

Follows(f) == [x \in Nodes \X (1 .. HOPS) |-> Follow(f, x[1])]

\* Where the hops begin, and what each of them does.
IsChain(w, f, p) ==
  /\ w \in [0 .. HOPS -> Used(f) \cup {NONE}] /\ w[0] = namei(f, p)
  /\ \A k \in 1 .. HOPS : w[k] = Follow(f, w[k - 1])
  /\ namei_follow(f, p) = IF kind(f, w[HOPS]) = "link" THEN NONE ELSE w[HOPS]

LEMMA KindOf ==
  ASSUME NEW f \in Volumes
  PROVE  /\ kind(f, NONE) = "none"
         /\ \A i \in Ino : kind(f, i) = f.inode[i].kind /\ kind(f, i) \in InodeKinds
         /\ \A i \in Nodes : kind(f, i) \in {"dir", "file", "link"} => i \in Used(f)
         /\ \A i \in Ino : f.inode[i].target \in Seq(Name) /\ f.inode[i].data \in Seq(Block)
<1>1. \A i \in Ino : f.inode[i] \in Node /\ i # NONE
  BY VolumeTypes, InodeNumbers
<1> QED BY <1>1 DEF kind, Node, Nodes, Used, InodeKinds

LEMMA FollowType ==
  ASSUME NEW f \in Volumes, NEW i \in Used(f) \cup {NONE}
  PROVE  Follow(f, i) \in Used(f) \cup {NONE}
<1>1. kind(f, i) = "link" => i \in Ino
  BY KindOf DEF Used
<1>2. kind(f, i) = "link" => f.inode[i].target \in Seq(Name)
  BY <1>1, KindOf
<1> QED BY <1>2, NameiUsed DEF Follow

LEMMA FollowRuns ==
  ASSUME NEW f \in Volumes, NEW p \in Seq(Name)
  PROVE  \E w : IsChain(w, f, p)
<1> DEFINE n == HOPS
           c == namei(f, p)
           A == Used(f) \cup {NONE}
           hop[k \in 0 .. n] ==
             IF k = 0 THEN c
             ELSE IF kind(f, hop[k - 1]) = "link" THEN namei(f, f.inode[hop[k - 1]].target)
             ELSE hop[k - 1]
           Def(g) == [k \in 0 .. n |->
             IF k = 0 THEN c
             ELSE IF kind(f, g[k - 1]) = "link" THEN namei(f, f.inode[g[k - 1]].target)
             ELSE g[k - 1]]
           G == [x \in A \X (1 .. n) |-> Follow(f, x[1])]
<1>1. namei_follow(f, p) = IF kind(f, hop[n]) = "link" THEN NONE ELSE hop[n]
  BY DEF namei_follow
<1>2. n \in Nat /\ c \in A
  BY InodeNumbers, NameiUsed
<1>3. /\ G \in [A \X (1 .. n) -> A]
      /\ \A a \in A, k \in 1 .. n : G[<<a, k>>] = Follow(f, a)
  BY FollowType
<1> HIDE DEF G, n, A, c
<1>4. PICK w : IsOrbit(w, A, c, n, G)
  BY <1>2, <1>3, Orbit
<1>5. \A k \in 1 .. n : w[k - 1] \in A
  <2>1. \A k \in 1 .. n : k - 1 \in 0 .. n
    BY <1>2
  <2> QED BY <1>4, <2>1 DEF IsOrbit
<1>6. w = Def(w)
  <2>1. \A k \in 1 .. n : w[k] = Follow(f, w[k - 1])
    BY <1>3, <1>4, <1>5 DEF IsOrbit
  <2>2. w = [k \in 0 .. n |-> w[k]] /\ w[0] = c
    BY <1>4 DEF IsOrbit
  <2>3. \A k \in 0 .. n : k # 0 => k \in 1 .. n
    BY <1>2
  <2> QED BY <2>1, <2>2, <2>3 DEF Follow
<1>7. hop = Def(hop)
  BY <1>6, Zenon
<1> HIDE DEF hop
<1>8. \A k \in 1 .. n : hop[k] = Follow(f, hop[k - 1])
  <2> TAKE k \in 1 .. n
  <2>1. k \in 0 .. n /\ k # 0
    BY <1>2
  <2> QED BY <1>7, <2>1 DEF Follow
<1>9. hop = [k \in 0 .. n |-> hop[k]] /\ hop[0] = c
  BY <1>2, <1>7
<1>10. IsOrbit(hop, A, c, n, G)
  BY <1>2, <1>3, <1>8, <1>9, LoopIsOrbit
<1>11. hop \in [0 .. n -> A]
  BY <1>10 DEF IsOrbit
<1> QED BY <1>1, <1>8, <1>9, <1>11 DEF IsChain, n, A, c

\* ---- Names that stay ----

NamesGrow(f, g) ==
  \A e \in DOMAIN f.entry : e \in DOMAIN g.entry /\ g.entry[e] = f.entry[e]

Grows(f, g) == NamesGrow(f, g) /\ \A i \in Used(f) : g.inode[i] = f.inode[i]

LEMMA GrowsNamei ==
  ASSUME NEW f \in Volumes, NEW g \in Volumes, NamesGrow(f, g), NEW p \in Seq(Name)
  PROVE  namei(f, p) # NONE => namei(g, p) = namei(f, p)
<1> DEFINE S == {q \in Seq(Name) : namei(f, q) # NONE => namei(g, q) = namei(f, q)}
<1>1. << >> \in S
  BY NameiStep
<1>2. ASSUME NEW q \in Paths, Front(q) \in S
      PROVE  q \in S
  <2> SUFFICES ASSUME namei(f, q) # NONE
               PROVE  namei(g, q) = namei(f, q)
    BY DEF Paths
  <2> DEFINE i == namei(f, Front(q))
             e == <<i, Last(q)>>
  <2>1. namei(f, q) = Look(f, i, Last(q)) /\ i \in Nodes
    BY NameiStep
  <2>2. i # NONE
    BY <2>1, NoKeyBelow
  <2>3. namei(g, q) = Look(g, i, Last(q))
    BY <1>2, <2>2, NameiStep
  <2> QED BY <2>1, <2>3 DEF Look, NamesGrow
<1> HIDE DEF S
<1>3. p \in S
  BY <1>1, <1>2, PathInduction
<1> QED BY <1>3 DEF S

LEMMA GrowsFollow ==
  ASSUME NEW f \in Volumes, NEW g \in Volumes, Grows(f, g), NEW p \in Seq(Name)
  PROVE  namei_follow(f, p) # NONE => namei_follow(g, p) = namei_follow(f, p)
<1>1. PICK w : IsChain(w, f, p)
  BY FollowRuns
<1>2. PICK v : IsChain(v, g, p)
  BY FollowRuns
<1> DEFINE S == {k \in Nat : k <= HOPS => w[k] = NONE \/ v[k] = w[k]}
<1>3. 0 \in S
  BY <1>1, <1>2, GrowsNamei DEF IsChain, Grows
<1>4. ASSUME NEW k \in Nat, k \in S
      PROVE  k + 1 \in S
  <2> SUFFICES ASSUME k + 1 <= HOPS
               PROVE  w[k + 1] = NONE \/ v[k + 1] = w[k + 1]
    OBVIOUS
  <2>1. k \in 0 .. HOPS /\ k + 1 \in 1 .. HOPS /\ (k + 1) - 1 = k /\ HOPS \in Nat
    BY InodeNumbers
  <2>2. w[k] \in Used(f) \cup {NONE} /\ w[k + 1] = Follow(f, w[k]) /\ v[k + 1] = Follow(g, v[k])
    BY <1>1, <1>2, <2>1 DEF IsChain
  <2>3. CASE w[k] = NONE
    BY <2>2, <2>3, KindOf DEF Follow
  <2>4. CASE w[k] # NONE
    <3>1. v[k] = w[k] /\ w[k] \in Used(f)
      BY <1>4, <2>1, <2>2, <2>4
    <3>2. w[k] \in Ino /\ g.inode[w[k]] = f.inode[w[k]]
      BY <3>1 DEF Used, Grows
    <3>3. kind(f, w[k]) = f.inode[w[k]].kind /\ kind(g, w[k]) = f.inode[w[k]].kind
          /\ f.inode[w[k]].target \in Seq(Name)
      BY <3>2, KindOf
    <3>4. CASE kind(f, w[k]) = "link"
      <4>1. w[k + 1] = namei(f, f.inode[w[k]].target) /\ v[k + 1] = namei(g, f.inode[w[k]].target)
        BY <2>2, <3>1, <3>2, <3>3, <3>4 DEF Follow
      <4> QED BY <3>3, <4>1, GrowsNamei DEF Grows
    <3>5. CASE kind(f, w[k]) # "link"
      BY <2>2, <3>1, <3>3, <3>5 DEF Follow
    <3> QED BY <3>4, <3>5
  <2> QED BY <2>3, <2>4
<1> HIDE DEF S
<1>5. HOPS \in S /\ HOPS \in Nat /\ HOPS \in 0 .. HOPS
  BY <1>3, <1>4, Induction, InodeNumbers
<1>6. w[HOPS] = NONE \/ v[HOPS] = w[HOPS]
  BY <1>5 DEF S
<1>7. w[HOPS] \in Used(f) \cup {NONE}
  BY <1>1, <1>5 DEF IsChain
<1>8. CASE w[HOPS] = NONE
  BY <1>1, <1>8, KindOf DEF IsChain
<1>9. CASE w[HOPS] # NONE
  <2>1. w[HOPS] \in Ino /\ g.inode[w[HOPS]] = f.inode[w[HOPS]]
    BY <1>7, <1>9 DEF Used, Grows
  <2>2. kind(f, w[HOPS]) = kind(g, w[HOPS])
    BY <2>1, KindOf
  <2> QED BY <1>1, <1>2, <1>6, <1>9, <2>2 DEF IsChain
<1> QED BY <1>8, <1>9

\* ---- A name that is new ----

KeyOf(f, p) == <<namei(f, Front(p)), Last(p)>>

WithNode(I, i, node) == [I EXCEPT ![i] = node]

WithEntry(E, e, i) == [x \in DOMAIN E \cup {e} |-> IF x = e THEN i ELSE E[x]]

Added(f, p, i, node, b, s) ==
  Volume(WithEntry(f.entry, KeyOf(f, p), i), [f.inode EXCEPT ![i] = node], b, s, f.locked)

IsAdded(f, g, p, i, node) == \E b \in Counts, s \in Counts : g = Added(f, p, i, node, b, s)

\* A node for an inode that is free, or for a file or link the name of which is another.
Enters(f, i, node) ==
  /\ i \in Ino /\ node \in Node /\ node.kind # "free"
  /\ node.kind # "file" => node.data = << >>
  /\ i \in Used(f) => node = f.inode[i] /\ node.kind # "dir"

LEMMA AddedVolume ==
  ASSUME NEW f \in Volumes, NEW p \in Paths, IsVacant(f, p), NEW i, NEW node, Enters(f, i, node),
         NEW g, IsAdded(f, g, p, i, node)
  PROVE  /\ g \in Volumes /\ Grows(f, g) /\ namei(g, p) = i /\ g.locked = f.locked
         /\ g.entry = WithEntry(f.entry, KeyOf(f, p), i)
         /\ g.inode = WithNode(f.inode, i, node)
<1>0. PICK b \in Counts, s \in Counts : g = Added(f, p, i, node, b, s)
  BY DEF IsAdded
<1> DEFINE d == namei(f, Front(p))
           e == <<d, Last(p)>>
           E == [x \in DOMAIN f.entry \cup {e} |-> IF x = e THEN i ELSE f.entry[x]]
           I == [f.inode EXCEPT ![i] = node]
<1>1. Front(p) \in Seq(Name) /\ Last(p) \in Name /\ d \in Nodes /\ namei(f, p) = Look(f, d, Last(p))
  BY NameiStep
<1>2. d \in Ino /\ f.inode[d].kind = "dir"
  <2>1. kind(f, d) = "dir"
    BY DEF IsVacant
  <2> HIDE DEF d
  <2> QED BY <1>1, <2>1, KindOf DEF Used
<1>3. e \notin DOMAIN f.entry
  <2>1. Look(f, d, Last(p)) = NONE
    BY <1>1 DEF IsVacant
  <2> HIDE DEF d
  <2>2. e \in DOMAIN f.entry => f.entry[e] \in Ino
    BY VolumeTypes
  <2> QED BY <2>1, <2>2, InodeNumbers DEF Look
<1>4. e \in Keys /\ e[1] = d
  <2> HIDE DEF d
  <2> QED BY <1>1, <1>2 DEF Keys
<1>5. g = Volume(E, I, b, s, f.locked)
  BY <1>0 DEF Added, WithEntry, KeyOf
<1> HIDE DEF e, d
<1>6. /\ f.entry \in [DOMAIN f.entry -> Ino] /\ DOMAIN f.entry \subseteq Keys
      /\ f.inode \in [Ino -> Node] /\ f.locked \subseteq Ino
  BY VolumeTypes
<1>7. DOMAIN E = DOMAIN f.entry \cup {e} /\ E[e] = i
      /\ \A x \in DOMAIN f.entry : x # e /\ E[x] = f.entry[x]
  BY <1>3
<1>8. I \in [Ino -> Node] /\ I[i] = node /\ \A j \in Ino : j # i => I[j] = f.inode[j]
  BY <1>6 DEF Enters
<1> HIDE DEF E, I
<1>9. E \in Entries
  <2>1. E = [x \in DOMAIN E |-> E[x]] /\ \A x \in DOMAIN E : E[x] \in Ino
    <3>1. \A x \in DOMAIN E : E[x] \in Ino
      BY <1>6, <1>7 DEF Enters
    <3> QED BY <3>1 DEF E
  <2>2. DOMAIN E \subseteq Keys /\ E \in [DOMAIN E -> Ino]
    BY <1>4, <1>6, <1>7, <2>1
  <2> QED BY <2>2 DEF Entries
<1>10. i # root
  BY InodeNumbers DEF Enters, Used, Volumes
<1>11. \A j \in Used(f) : I[j] = f.inode[j]
  BY <1>8 DEF Enters, Used
<1>12. \A x \in DOMAIN E : I[x[1]].kind = "dir" /\ E[x] # root /\ I[E[x]].kind # "free"
  <2>1. ASSUME NEW x \in DOMAIN f.entry
        PROVE  I[x[1]].kind = "dir" /\ E[x] # root /\ I[E[x]].kind # "free"
    <3>1. x \in Keys /\ f.entry[x] \in Ino
      BY <1>6
    <3>2. x[1] \in Ino
      BY <3>1 DEF Keys
    <3>3. f.inode[x[1]].kind = "dir" /\ f.entry[x] # root /\ f.inode[f.entry[x]].kind # "free"
      BY DEF Volumes
    <3>4. x[1] \in Used(f) /\ f.entry[x] \in Used(f)
      BY <3>1, <3>2, <3>3 DEF Used
    <3> QED BY <1>7, <1>11, <3>3, <3>4
  <2>2. d \in Used(f)
    BY <1>2 DEF Used
  <2>3. I[e[1]].kind = "dir" /\ E[e] # root /\ I[E[e]].kind # "free"
    BY <1>2, <1>4, <1>7, <1>8, <1>10, <1>11, <2>2 DEF Enters
  <2> QED BY <1>7, <2>1, <2>3
<1>13. I[root].kind = "dir"
  BY <1>8, <1>10, InodeNumbers DEF Volumes
<1>14. \A j \in Ino : I[j].kind # "file" => I[j].data = << >>
  BY <1>8 DEF Volumes, Enters
<1>15. ASSUME NEW x \in DOMAIN E, NEW y \in DOMAIN E, E[x] = E[y], I[E[x]].kind = "dir"
       PROVE  x = y
  <2>1. ASSUME NEW z \in DOMAIN f.entry
        PROVE  E[z] \in Used(f)
    BY <1>6, <1>7, <2>1 DEF Used, Volumes
  <2>2. CASE x \in DOMAIN f.entry /\ y \in DOMAIN f.entry
    <3>1. f.entry[x] = f.entry[y] /\ f.inode[f.entry[x]].kind = "dir"
      BY <1>7, <1>11, <1>15, <2>1, <2>2
    <3> QED BY <2>2, <3>1 DEF Volumes
  <2>3. CASE x = e /\ y \in DOMAIN f.entry
    BY <1>7, <1>8, <1>15, <2>1, <2>3 DEF Enters
  <2>4. CASE y = e /\ x \in DOMAIN f.entry
    BY <1>7, <1>8, <1>15, <2>1, <2>4 DEF Enters
  <2> QED BY <1>7, <2>2, <2>3, <2>4
<1> DEFINE h == Volume(E, I, b, s, f.locked)
<1>19. h \in Shapes /\ h.entry = E /\ h.inode = I /\ h.locked = f.locked
  BY <1>6, <1>8, <1>9, VolumeShape
<1> HIDE DEF h
<1>16. h \in Volumes
  BY <1>12, <1>13, <1>14, <1>15, <1>19 DEF Volumes
<1>17. Grows(f, h)
  BY <1>7, <1>11, <1>19 DEF Grows, NamesGrow
<1>18. namei(h, p) = i
  <2>1. namei(h, Front(p)) = d
    BY <1>1, <1>2, <1>16, <1>17, GrowsNamei, InodeNumbers DEF Grows, d
  <2>2. namei(h, p) = Look(h, d, Last(p))
    BY <1>16, <2>1, NameiStep
  <2> QED BY <1>7, <1>19, <2>2 DEF Look, e
<1> QED BY <1>5, <1>16, <1>17, <1>18, <1>19 DEF I, E, h, e, d, KeyOf, WithEntry, WithNode

\* Inodes that are made: without data.
NewNodes == {node \in Node : node.kind # "free" /\ node.data = << >>}

\* What changes a volume by a new name, and by an inode that no name leads to.
IsMade(f, g, p, node) ==
  \E i \in Ino \ Used(f) : CanEnter(f, p) /\ IsAdded(f, g, p, i, node)

IsLeaked(f, g, node) ==
  \E i \in Ino \ Used(f), b \in Counts, s \in Counts :
    g = Volume(f.entry, [f.inode EXCEPT ![i] = node], b, s, f.locked)

LEMMA EntryNamei ==
  ASSUME NEW f, NEW g, g.entry = f.entry, NEW p
  PROVE  namei(g, p) = namei(f, p)
BY DEF namei

LEMMA AllotIs ==
  ASSUME NEW f \in Volumes, NEW i \in Ino, NEW node
  PROVE  \E b \in Counts, s \in Counts :
           Allot(f, i, node) = Volume(f.entry, [f.inode EXCEPT ![i] = node], b, s, f.locked)
<1> DEFINE dots == node.kind = "dir" /\ Room(f) > 0
           m == IF dots \/ node.kind = "link" THEN 1 ELSE 0
           n == IF dots THEN DIR_ENTRIES_PER_BLK - 2 ELSE 0
           I == [f.inode EXCEPT ![i] = node]
           b == [f.blks EXCEPT ![i] = m]
           s == [f.spare EXCEPT ![i] = n]
<1>1. m \in Nat /\ n \in Nat
  BY InodeNumbers
<1>2. Allot(f, i, node) = [f EXCEPT !.inode[i] = node, !.blks[i] = m, !.spare[i] = n]
  BY DEF Allot
<1> HIDE DEF m, n
<1>3. f = Volume(f.entry, f.inode, f.blks, f.spare, f.locked) /\ f.blks \in Counts /\ f.spare \in Counts
  BY VolumeTypes
<1>4. b \in Counts /\ s \in Counts
  BY <1>1, <1>3 DEF Counts
<1> DEFINE f1 == [f EXCEPT !.inode[i] = node]
           f2 == [f1 EXCEPT !.blks[i] = m]
           f3 == [f2 EXCEPT !.spare[i] = n]
<1>5. f1 = Volume(f.entry, I, f.blks, f.spare, f.locked)
  BY <1>3 DEF Volume
<1> HIDE DEF I, f1
<1>6. f2 = Volume(f.entry, I, b, f.spare, f.locked)
  BY <1>5 DEF Volume
<1> HIDE DEF b, f2
<1>7. f3 = Volume(f.entry, I, b, s, f.locked)
  BY <1>6 DEF Volume
<1>8. [f EXCEPT !.inode[i] = node, !.blks[i] = m, !.spare[i] = n] = f3
  BY DEF f1, f2, f3
<1> QED BY <1>2, <1>4, <1>7, <1>8 DEF I

\* The slot for the name, in a block that is there or in a new one.
LEMMA EnterIs ==
  ASSUME NEW f, f = Volume(f.entry, f.inode, f.blks, f.spare, f.locked), f.blks \in Counts,
         f.spare \in Counts, NEW p, NEW i, namei(f, Front(p)) \in Ino
  PROVE  \E c \in Counts, t \in Counts :
           Enter(f, p, i) =
             Volume(WithEntry(f.entry, KeyOf(f, p), i), f.inode, c, t, f.locked)
<1> DEFINE d == namei(f, Front(p))
           e == KeyOf(f, p)
           E == f.entry
           I == f.inode
           b == f.blks
           s == f.spare
           L == f.locked
           N == [x \in DOMAIN E \cup {e} |-> IF x = e THEN i ELSE E[x]]
           entered == [f EXCEPT !.entry = [x \in DOMAIN @ \cup {e} |-> IF x = e THEN i ELSE @[x]]]
<1>1. Enter(f, p, i) =
        IF f.spare[d] > 0 THEN [entered EXCEPT !.spare[d] = @ - 1]
        ELSE [entered EXCEPT !.blks[d] = @ + 1, !.spare[d] = DIR_ENTRIES_PER_BLK - 1]
  BY DEF Enter, KeyOf
<1>2. f.entry = E /\ f.inode = I /\ f.blks = b /\ f.spare = s /\ f.locked = L
  OBVIOUS
<1> HIDE DEF d, e
<1>3. entered = Volume(N, I, b, s, L)
  <2>1. entered = [f EXCEPT !.entry = N]
    OBVIOUS
  <2> HIDE DEF N, entered
  <2> QED BY <2>1 DEF Volume
<1> HIDE DEF N, entered
<1>4. d \in Ino /\ s[d] \in Nat /\ b[d] \in Nat
  BY DEF Counts, d
<1>7. b \in Counts /\ s \in Counts
  OBVIOUS
<1> HIDE DEF E, I, b, s, L
<1>5. CASE f.spare[d] > 0
  <2> DEFINE t == [s EXCEPT ![d] = s[d] - 1]
  <2>1. t \in Counts
    BY <1>2, <1>4, <1>5, <1>7 DEF Counts
  <2>2. Enter(f, p, i) = [entered EXCEPT !.spare[d] = @ - 1]
    BY <1>1, <1>5
  <2>3. [entered EXCEPT !.spare[d] = @ - 1] = Volume(N, I, b, t, L)
    BY <1>3 DEF Volume
  <2> HIDE DEF t
  <2> QED BY <1>7, <2>1, <2>2, <2>3 DEF N, e, E, I, L, WithEntry
<1>6. CASE ~ (f.spare[d] > 0)
  <2> DEFINE c == [b EXCEPT ![d] = b[d] + 1]
             t == [s EXCEPT ![d] = DIR_ENTRIES_PER_BLK - 1]
  <2>1. c \in Counts /\ t \in Counts
    BY <1>4, <1>7, InodeNumbers DEF Counts
  <2>2. Enter(f, p, i) = [entered EXCEPT !.blks[d] = @ + 1, !.spare[d] = DIR_ENTRIES_PER_BLK - 1]
    BY <1>1, <1>6
  <2> DEFINE f1 == [entered EXCEPT !.blks[d] = @ + 1]
             f2 == [f1 EXCEPT !.spare[d] = DIR_ENTRIES_PER_BLK - 1]
  <2>4. f1 = Volume(N, I, c, s, L)
    BY <1>3 DEF Volume
  <2>5. [entered EXCEPT !.blks[d] = @ + 1, !.spare[d] = DIR_ENTRIES_PER_BLK - 1] = f2
    OBVIOUS
  <2> HIDE DEF c, f1
  <2>6. f2 = Volume(N, I, c, t, L)
    BY <2>4 DEF Volume
  <2>3. [entered EXCEPT !.blks[d] = @ + 1, !.spare[d] = DIR_ENTRIES_PER_BLK - 1] = Volume(N, I, c, t, L)
    BY <2>5, <2>6
  <2> HIDE DEF t, f2
  <2> QED BY <2>1, <2>2, <2>3 DEF N, e, E, I, L, WithEntry
<1> QED BY <1>5, <1>6

LEMMA DirNode ==
  ASSUME NEW f \in Volumes, NEW p \in Paths, IsVacant(f, p)
  PROVE  namei(f, Front(p)) \in Ino
<1>1. namei(f, Front(p)) \in Nodes /\ kind(f, namei(f, Front(p))) = "dir"
  BY NameiStep DEF IsVacant
<1> QED BY <1>1, KindOf DEF Used

LEMMA MakeIs ==
  ASSUME NEW f \in Volumes, NEW p \in Paths, NEW node \in NewNodes
  PROVE  LET g == Make(f, p, node)
         IN  \/ g = f \/ IsMade(f, g, p, node)
             \/ node.kind = "dir" /\ IsLeaked(f, g, node) /\ ~ (Room(g) > 0)
<1> DEFINE free == {i \in Ino : kind(f, i) = "free"}
           i == CHOOSE j \in free : \A k \in free : j <= k
           made == Allot(f, i, node)
           g == Make(f, p, node)
<1> SUFFICES ASSUME CanEnter(f, p), free # {}, ~ (node.kind = "link" /\ Room(f) = 0)
             PROVE  \/ g = f \/ IsMade(f, g, p, node)
                    \/ node.kind = "dir" /\ IsLeaked(f, g, node) /\ ~ (Room(g) > 0)
  BY DEF Make
<1>1. i = Least(free) /\ free \subseteq Nat
  BY InodeNumbers DEF Least
<1>4. g = IF HasSlot(made, p) THEN Enter(made, p, i) ELSE IF node.kind = "dir" THEN made ELSE f
  BY DEF Make
<1> HIDE DEF i, g
<1>2. i \in free
  BY <1>1, LeastMember
<1>3. i \in Ino \ Used(f)
  BY <1>2, KindOf DEF Used
<1>5. PICK b \in Counts, s \in Counts :
        made = Volume(f.entry, [f.inode EXCEPT ![i] = node], b, s, f.locked)
  BY <1>3, AllotIs
<1> HIDE DEF made
<1>6. CASE HasSlot(made, p)
  <2>1. made.entry = f.entry
    BY <1>5 DEF Volume
  <2>2. namei(made, Front(p)) = namei(f, Front(p)) /\ KeyOf(made, p) = KeyOf(f, p)
    BY <2>1, EntryNamei DEF KeyOf
  <2>3. namei(f, Front(p)) \in Ino
    BY DirNode DEF CanEnter
  <2> DEFINE I == [f.inode EXCEPT ![i] = node]
  <2>6. /\ made = Volume(made.entry, made.inode, made.blks, made.spare, made.locked)
        /\ made.blks \in Counts /\ made.spare \in Counts
        /\ made.entry = f.entry /\ made.inode = I /\ made.locked = f.locked
    BY <1>5 DEF Volume
  <2> HIDE DEF I
  <2>4. PICK c \in Counts, t \in Counts :
          Enter(made, p, i) =
            Volume(WithEntry(made.entry, KeyOf(made, p), i), made.inode, c, t, made.locked)
    BY <2>2, <2>3, <2>6, EnterIs
  <2>5. g = Added(f, p, i, node, c, t)
    BY <1>4, <1>6, <2>2, <2>4, <2>6 DEF Added, I
  <2> QED BY <1>3, <2>5 DEF IsMade, IsAdded
<1>7. CASE ~ HasSlot(made, p)
  <2>1. ~ (Room(made) > 0)
    BY <1>7 DEF HasSlot
  <2> QED BY <1>3, <1>4, <1>5, <1>7, <2>1 DEF IsLeaked
<1> QED BY <1>6, <1>7

LEMMA MadeVolume ==
  ASSUME NEW f \in Volumes, NEW p \in Paths, NEW node \in NewNodes, NEW g, IsMade(f, g, p, node)
  PROVE  /\ g \in Volumes /\ Grows(f, g) /\ IsVacant(f, p) /\ g.locked = f.locked
         /\ \E i \in Ino \ Used(f) :
              /\ namei(g, p) = i /\ g.inode = WithNode(f.inode, i, node)
              /\ g.entry = WithEntry(f.entry, KeyOf(f, p), i)
<1>1. PICK i \in Ino \ Used(f) : CanEnter(f, p) /\ IsAdded(f, g, p, i, node)
  BY DEF IsMade
<1>2. Enters(f, i, node) /\ IsVacant(f, p)
  BY <1>1 DEF Enters, NewNodes, CanEnter
<1> QED BY <1>1, <1>2, AddedVolume

\* An inode that no name leads to changes no name.
LEMMA LeakedVolume ==
  ASSUME NEW f \in Volumes, NEW node \in NewNodes, NEW g, IsLeaked(f, g, node)
  PROVE  g \in Volumes /\ Grows(f, g) /\ g.locked = f.locked /\ g.entry = f.entry
<1>1. PICK i \in Ino \ Used(f), b \in Counts, s \in Counts :
        g = Volume(f.entry, [f.inode EXCEPT ![i] = node], b, s, f.locked)
  BY DEF IsLeaked
<1> DEFINE I == [f.inode EXCEPT ![i] = node]
<1>2. /\ f.entry \in [DOMAIN f.entry -> Ino] /\ DOMAIN f.entry \subseteq Keys
      /\ f.entry \in Entries /\ f.inode \in [Ino -> Node] /\ f.locked \subseteq Ino
  BY VolumeTypes
<1>3. I \in [Ino -> Node] /\ I[i] = node /\ \A j \in Ino : j # i => I[j] = f.inode[j]
  BY <1>2 DEF NewNodes
<1> HIDE DEF I
<1>4. g \in Shapes /\ g.entry = f.entry /\ g.inode = I /\ g.locked = f.locked
  BY <1>1, <1>2, <1>3, VolumeShape DEF I
<1>5. \A j \in Used(f) : I[j] = f.inode[j] /\ j \in Ino
  BY <1>1, <1>3 DEF Used
<1>6. \A e \in DOMAIN f.entry :
        /\ e[1] \in Used(f) /\ f.entry[e] \in Used(f)
        /\ f.inode[e[1]].kind = "dir" /\ f.entry[e] # root /\ f.inode[f.entry[e]].kind # "free"
  <2> TAKE e \in DOMAIN f.entry
  <2>1. e[1] \in Ino /\ f.entry[e] \in Ino
    BY <1>2 DEF Keys
  <2>2. f.inode[e[1]].kind = "dir" /\ f.entry[e] # root /\ f.inode[f.entry[e]].kind # "free"
    BY DEF Volumes
  <2> QED BY <2>1, <2>2 DEF Used
<1>7. I[root].kind = "dir"
  <2>1. f.inode[root].kind = "dir" /\ root \in Used(f)
    BY InodeNumbers DEF Volumes, Used
  <2> QED BY <1>5, <2>1
<1>8. \A j \in Ino : I[j].kind # "file" => I[j].data = << >>
  <2>1. \A j \in Ino : f.inode[j].kind # "file" => f.inode[j].data = << >>
    BY DEF Volumes
  <2>2. node.data = << >>
    BY DEF NewNodes
  <2> QED BY <1>1, <1>3, <2>1, <2>2
<1>9. \A e, x \in DOMAIN f.entry :
        f.entry[e] = f.entry[x] /\ I[f.entry[e]].kind = "dir" => e = x
  BY <1>5, <1>6 DEF Volumes
<1>10. g \in Volumes
  BY <1>4, <1>5, <1>6, <1>7, <1>8, <1>9 DEF Volumes
<1> QED BY <1>4, <1>5, <1>10 DEF Grows, NamesGrow

\* ---- A name that goes ----

\* What may be unlinked: a file, a link, or a directory that has nothing in it.
IsBare(f, i) == kind(f, i) # "dir" \/ \A n \in Name : <<i, n>> \notin DOMAIN f.entry

IsUnlinked(f, g, p) ==
  /\ DOMAIN g.entry = DOMAIN f.entry \ {KeyOf(f, p)}
  /\ \A x \in DOMAIN g.entry : g.entry[x] = f.entry[x]
  /\ \A j \in Ino : j # namei(f, p) => g.inode[j] = f.inode[j]
  /\ namei(f, p) \in Used(g) => g.inode[namei(f, p)] = f.inode[namei(f, p)]
  /\ (\E x \in DOMAIN g.entry : g.entry[x] = namei(f, p)) => namei(f, p) \in Used(g)

LEMMA KeyIs ==
  ASSUME NEW f \in Volumes, NEW p \in Paths, namei(f, p) # NONE
  PROVE  /\ KeyOf(f, p) \in DOMAIN f.entry /\ f.entry[KeyOf(f, p)] = namei(f, p)
         /\ namei(f, p) \in Used(f) /\ namei(f, p) # root
<1>1. KeyOf(f, p) \in DOMAIN f.entry /\ f.entry[KeyOf(f, p)] = namei(f, p)
  BY NameiStep DEF Look, KeyOf
<1>2. f.entry[KeyOf(f, p)] # root
  BY <1>1 DEF Volumes
<1>3. p \in Seq(Name)
  BY DEF Paths
<1> QED BY <1>1, <1>2, <1>3, NameiUsed

LEMMA FreeNode == Free \in Node /\ Free.kind = "free" /\ Free.data = << >>
BY DEF Free, Node, InodeKinds

LEMMA UnlinkVolume ==
  ASSUME NEW f \in Volumes, NEW p \in Paths, namei(f, p) # NONE, IsBare(f, namei(f, p))
  PROVE  Unlink(f, p) \in Volumes /\ IsUnlinked(f, Unlink(f, p), p)
<1> DEFINE e == KeyOf(f, p)
           i == namei(f, p)
           rest == [x \in DOMAIN f.entry \ {e} |-> f.entry[x]]
           named == \E x \in DOMAIN rest : rest[x] = i
           I == IF named THEN f.inode ELSE [f.inode EXCEPT ![i] = Free]
           L == IF named THEN f.locked ELSE f.locked \ {i}
<1>1. e \in DOMAIN f.entry /\ f.entry[e] = i /\ i \in Used(f) /\ i # root
  BY KeyIs
<1>2. PICK b \in Counts, s \in Counts : Unlink(f, p) = Volume(rest, I, b, s, L)
  <2> DEFINE d == namei(f, Front(p))
             m == f.spare[d] + 1
             t == [f.spare EXCEPT ![d] = m]
             f1 == [f EXCEPT !.entry = rest]
             f2 == [f1 EXCEPT !.spare[d] = @ + 1]
             f3 == [f2 EXCEPT !.inode[i] = Free]
             f4 == [f3 EXCEPT !.blks[i] = 0]
             f5 == [f4 EXCEPT !.spare[i] = 0]
             f6 == [f5 EXCEPT !.locked = @ \ {i}]
  <2>1. Unlink(f, p) = IF named THEN f2 ELSE f6
    BY <1>1 DEF Unlink, KeyOf
  <2>2. /\ f = Volume(f.entry, f.inode, f.blks, f.spare, f.locked)
        /\ f.blks \in Counts /\ f.spare \in Counts
    BY VolumeTypes
  <2>3. d \in Ino
    <3>1. KeyOf(f, p) \in Keys
      BY <1>1, VolumeTypes
    <3> QED BY <3>1 DEF KeyOf, Keys
  <2> HIDE DEF d
  <2>4. m \in Nat
    BY <2>2, <2>3 DEF Counts
  <2>5. f1 = Volume(rest, f.inode, f.blks, f.spare, f.locked)
    <3> HIDE DEF rest
    <3> QED BY <2>2 DEF Volume
  <2> HIDE DEF rest, f1, named, i
  <2>6. f2 = Volume(rest, f.inode, f.blks, t, f.locked)
    BY <2>5 DEF Volume
  <2>7. t \in Counts
    BY <2>2, <2>4 DEF Counts
  <2> HIDE DEF m, t, f2
  <2>8. CASE named
    BY <2>1, <2>2, <2>6, <2>7, <2>8 DEF I, L
  <2>9. CASE ~ named
    <3> DEFINE J == [f.inode EXCEPT ![i] = Free]
               b == [f.blks EXCEPT ![i] = 0]
               s == [t EXCEPT ![i] = 0]
               M == f.locked \ {i}
    <3>1. b \in Counts /\ s \in Counts
      BY <2>2, <2>7 DEF Counts
    <3>2. f3 = Volume(rest, J, f.blks, t, f.locked)
      BY <2>6 DEF Volume
    <3> HIDE DEF J, f3
    <3>3. f4 = Volume(rest, J, b, t, f.locked)
      BY <3>2 DEF Volume
    <3> HIDE DEF b, f4
    <3>4. f5 = Volume(rest, J, b, s, f.locked)
      BY <3>3 DEF Volume
    <3> HIDE DEF s, f5
    <3>5. f6 = Volume(rest, J, b, s, M)
      BY <3>4 DEF Volume
    <3> HIDE DEF f6
    <3>6. I = J /\ L = M
      BY <2>9 DEF I, J
    <3> QED BY <2>1, <2>9, <3>1, <3>5, <3>6
  <2> QED BY <2>8, <2>9
<1> DEFINE h == Volume(rest, I, b, s, L)
<1> HIDE DEF i, e
<1>3. /\ f.entry \in [DOMAIN f.entry -> Ino] /\ DOMAIN f.entry \subseteq Keys
      /\ f.inode \in [Ino -> Node] /\ f.locked \subseteq Ino
  BY VolumeTypes
<1>4. DOMAIN rest = DOMAIN f.entry \ {e} /\ \A x \in DOMAIN rest : rest[x] = f.entry[x]
  OBVIOUS
<1>5. rest \in Entries
  <2>1. rest \in [DOMAIN f.entry \ {e} -> Ino]
    BY <1>3
  <2> HIDE DEF rest
  <2> QED BY <1>3, <2>1 DEF Entries
<1> HIDE DEF rest
<1>6. /\ I \in [Ino -> Node] /\ \A j \in Ino : j # i => I[j] = f.inode[j]
      /\ I[i] = IF named THEN f.inode[i] ELSE Free
  BY <1>1, <1>3, FreeNode DEF Used
<1>7. L \subseteq Ino
  BY <1>3
<1>8. \A x \in DOMAIN rest : I[x[1]].kind = "dir" /\ rest[x] # root /\ I[rest[x]].kind # "free"
  <2> TAKE x \in DOMAIN rest
  <2>1. x \in DOMAIN f.entry /\ x \in Keys /\ rest[x] = f.entry[x] /\ f.entry[x] \in Ino
    BY <1>3, <1>4
  <2>2. x[1] \in Ino /\ x[2] \in Name /\ x = <<x[1], x[2]>>
    BY <2>1 DEF Keys
  <2>3. f.inode[x[1]].kind = "dir" /\ f.entry[x] # root /\ f.inode[f.entry[x]].kind # "free"
    BY <2>1 DEF Volumes
  <2>4. x[1] # i
    <3> SUFFICES ASSUME x[1] = i
                 PROVE  FALSE
      OBVIOUS
    <3>1. kind(f, i) = "dir"
      BY <2>2, <2>3, KindOf
    <3> QED BY <2>1, <2>2, <3>1 DEF IsBare, i
  <2>5. rest[x] = i => named
    OBVIOUS
  <2> HIDE DEF named, I
  <2> QED BY <1>6, <2>1, <2>2, <2>3, <2>4, <2>5
<1>9. I[root].kind = "dir"
  BY <1>1, <1>6, InodeNumbers DEF Volumes
<1>10. \A j \in Ino : I[j].kind # "file" => I[j].data = << >>
  <2> HIDE DEF I, named
  <2> QED BY <1>6, FreeNode DEF Volumes
<1>11. \A x, y \in DOMAIN rest : rest[x] = rest[y] /\ I[rest[x]].kind = "dir" => x = y
  <2> TAKE x, y \in DOMAIN rest
  <2>1. x \in DOMAIN f.entry /\ y \in DOMAIN f.entry /\ rest[x] = f.entry[x] /\ rest[y] = f.entry[y]
        /\ f.entry[x] \in Ino
    BY <1>3, <1>4
  <2>2. I[rest[x]].kind = "dir" => f.inode[f.entry[x]].kind = "dir"
    <3> HIDE DEF I, named
    <3> QED BY <1>6, <2>1, FreeNode
  <2> QED BY <2>1, <2>2 DEF Volumes
<1>12. h \in Volumes
  <2>1. h \in Shapes /\ h.entry = rest /\ h.inode = I
    BY <1>5, <1>6, <1>7, VolumeShape
  <2> HIDE DEF h, I, L
  <2> QED BY <1>8, <1>9, <1>10, <1>11, <2>1 DEF Volumes
<1>13. IsUnlinked(f, h, p)
  <2>1. h.entry = rest /\ h.inode = I
    BY DEF Volume
  <2>2. i \in Used(h) => named
    <3>1. i \in Used(h) => I[i].kind # "free"
      BY <2>1 DEF Used
    <3> HIDE DEF h, I, named
    <3> QED BY <1>6, <3>1, FreeNode
  <2>3. named => i \in Used(h)
    <3>1. named => I[i] = f.inode[i]
      BY <1>6
    <3>2. i \in Ino /\ f.inode[i].kind # "free"
      BY <1>1 DEF Used
    <3> HIDE DEF h, I, named
    <3> QED BY <2>1, <3>1, <3>2 DEF Used
  <2>4. named => I[i] = f.inode[i]
    BY <1>6
  <2>5. named = \E x \in DOMAIN rest : rest[x] = i
    OBVIOUS
  <2> HIDE DEF h, I, named
  <2> QED BY <1>4, <1>6, <2>1, <2>2, <2>3, <2>4, <2>5 DEF IsUnlinked, e, i
<1> QED BY <1>2, <1>12, <1>13

LEMMA UnlinkedNames ==
  ASSUME NEW f \in Volumes, NEW g \in Volumes, NEW p \in Paths, namei(f, p) # NONE,
         IsBare(f, namei(f, p)), IsUnlinked(f, g, p)
  PROVE  /\ Grows(g, f) /\ namei(g, p) = NONE /\ g # f
         /\ \A q \in Seq(Name) :
              namei(g, q) # namei(f, q) => q \in Paths /\ KeyOf(f, q) = KeyOf(f, p)
<1> DEFINE e == KeyOf(f, p)
           i == namei(f, p)
<1>1. e \in DOMAIN f.entry /\ f.entry[e] = i /\ i \in Used(f) /\ i # root
  BY KeyIs
<1>2. Grows(g, f)
  <2>1. NamesGrow(g, f)
    BY DEF IsUnlinked, NamesGrow
  <2>2. \A j \in Used(g) : f.inode[j] = g.inode[j]
    BY DEF IsUnlinked, Used
  <2> QED BY <2>1, <2>2 DEF Grows
<1>3. e \notin DOMAIN g.entry
  BY DEF IsUnlinked
<1>4. g # f
  BY <1>1, <1>3
<1>5. namei(g, p) = NONE
  <2>1. Front(p) \in Seq(Name) /\ namei(g, Front(p)) \in Nodes
    BY NameiStep
  <2>2. CASE namei(g, Front(p)) = NONE
    BY <2>2, NameiStep, NoKeyBelow
  <2>3. CASE namei(g, Front(p)) # NONE
    <3>1. namei(g, Front(p)) = namei(f, Front(p))
      BY <1>2, <2>1, <2>3, GrowsNamei DEF Grows
    <3> QED BY <1>3, <3>1, NameiStep DEF Look, KeyOf
  <2> QED BY <2>2, <2>3
<1> DEFINE S == {q \in Seq(Name) :
                   namei(g, q) # namei(f, q) => q \in Paths /\ KeyOf(f, q) = e}
<1>6. << >> \in S
  BY NameiStep
<1>7. ASSUME NEW q \in Paths, Front(q) \in S
      PROVE  q \in S
  <2> DEFINE r == Front(q)
             d == namei(f, r)
  <2>1. r \in Seq(Name) /\ d \in Nodes /\ Last(q) \in Name /\ q \in Seq(Name)
        /\ namei(f, q) = Look(f, d, Last(q)) /\ namei(g, q) = Look(g, namei(g, r), Last(q))
    BY NameiStep DEF Paths
  <2>2. CASE namei(g, r) = d
    <3>1. KeyOf(f, q) = <<d, Last(q)>>
      BY DEF KeyOf
    <3>2. CASE KeyOf(f, q) = e
      BY <2>1, <3>2
    <3>3. CASE KeyOf(f, q) # e
      <4>1. Look(g, d, Last(q)) = Look(f, d, Last(q))
        <5> HIDE DEF d
        <5> QED BY <3>1, <3>3 DEF IsUnlinked, Look
      <4> QED BY <2>1, <2>2, <4>1
    <3> QED BY <3>2, <3>3
  <2>3. CASE namei(g, r) # d
    <3>1. r \in Paths /\ KeyOf(f, r) = e
      BY <1>7, <2>3
    <3>2. d = i
      <4>1. d = Look(f, namei(f, Front(r)), Last(r))
        BY <3>1, NameiStep
      <4> QED BY <1>1, <3>1, <4>1 DEF Look, KeyOf
    <3>3. namei(f, q) = NONE
      <4>1. CASE kind(f, i) # "dir"
        <5>1. f.inode[i].kind # "dir"
          BY <1>1, <4>1, KindOf DEF Used
        <5> HIDE DEF d, i
        <5> QED BY <2>1, <3>2, <5>1, NoKeyBelow
      <4>2. CASE \A n \in Name : <<i, n>> \notin DOMAIN f.entry
        <5> HIDE DEF d, i
        <5> QED BY <2>1, <3>2, <4>2 DEF Look
      <4> QED BY <4>1, <4>2 DEF IsBare
    <3>4. namei(g, q) = NONE
      BY <1>2, <2>1, <3>3, GrowsNamei DEF Grows
    <3> QED BY <2>1, <3>3, <3>4
  <2> QED BY <2>2, <2>3
<1> HIDE DEF S
<1>8. Seq(Name) \subseteq S
  BY <1>6, <1>7, PathInduction
<1>9. \A q \in Seq(Name) :
        namei(g, q) # namei(f, q) => q \in Paths /\ KeyOf(f, q) = KeyOf(f, p)
  BY <1>8 DEF S
<1> QED BY <1>2, <1>4, <1>5, <1>9

\* ---- Data that changes ----

SameTree(f, g) ==
  /\ g.entry = f.entry /\ g.blks = f.blks /\ g.spare = f.spare /\ g.locked = f.locked
  /\ \A j \in Ino : g.inode[j].kind = f.inode[j].kind /\ g.inode[j].target = f.inode[j].target

WithData(f, i, c) == [f EXCEPT !.inode[i].data = c]

\* The file i holds c now, and nothing else is different.
Holds(f, g, i, c) ==
  /\ g \in Volumes /\ SameTree(f, g) /\ g.inode[i].data = c
  /\ \A j \in Ino : j # i => g.inode[j] = f.inode[j]

LEMMA DataVolume ==
  ASSUME NEW f \in Volumes, NEW i \in Ino, f.inode[i].kind = "file", NEW c \in Seq(Block)
  PROVE  Holds(f, WithData(f, i, c), i, c)
<1> DEFINE g == WithData(f, i, c)
           I == [f.inode EXCEPT ![i].data = c]
           h == Volume(f.entry, I, f.blks, f.spare, f.locked)
<1>1. /\ f = Volume(f.entry, f.inode, f.blks, f.spare, f.locked)
      /\ f.entry \in Entries /\ f.inode \in [Ino -> Node] /\ f.locked \subseteq Ino
      /\ f.blks \in Counts /\ f.spare \in Counts
  BY VolumeTypes
<1>2. g = h
  BY <1>1, SMTT(30) DEF WithData, Volume
<1>3. /\ I \in [Ino -> Node] /\ \A j \in Ino : j # i => I[j] = f.inode[j]
      /\ I[i] = [f.inode[i] EXCEPT !.data = c]
  BY <1>1 DEF Node
<1>4. I[i].kind = "file" /\ I[i].target = f.inode[i].target /\ I[i].data = c
  BY <1>1, <1>3 DEF Node
<1> HIDE DEF I
<1>5. \A j \in Ino : I[j].kind = f.inode[j].kind /\ I[j].target = f.inode[j].target
  BY <1>3, <1>4
<1>6. /\ h \in Shapes /\ h.entry = f.entry /\ h.inode = I /\ h.blks = f.blks
      /\ h.spare = f.spare /\ h.locked = f.locked
  BY <1>1, <1>3, VolumeShape
<1>7. h \in Volumes
  <2>2. \A e \in DOMAIN f.entry : e[1] \in Ino /\ f.entry[e] \in Ino
    BY VolumeTypes DEF Keys
  <2> HIDE DEF h
  <2>3. \A e \in DOMAIN h.entry :
          /\ h.inode[e[1]].kind = "dir" /\ h.entry[e] # root /\ h.inode[h.entry[e]].kind # "free"
    BY <1>5, <1>6, <2>2 DEF Volumes
  <2>4. h.inode[root].kind = "dir"
    BY <1>5, <1>6, InodeNumbers DEF Volumes
  <2>5. \A j \in Ino : h.inode[j].kind # "file" => h.inode[j].data = << >>
    <3>1. \A j \in Ino : f.inode[j].kind # "file" => f.inode[j].data = << >>
      BY DEF Volumes
    <3> QED BY <1>3, <1>4, <1>6, <3>1
  <2>6. \A e, x \in DOMAIN h.entry :
          h.entry[e] = h.entry[x] /\ h.inode[h.entry[e]].kind = "dir" => e = x
    BY <1>5, <1>6, <2>2 DEF Volumes
  <2> QED BY <1>6, <2>3, <2>4, <2>5, <2>6 DEF Volumes
<1>8. SameTree(f, h)
  BY <1>5, <1>6 DEF SameTree
<1> HIDE DEF h, g
<1>9. g.inode[i].data = c /\ \A j \in Ino : j # i => g.inode[j] = f.inode[j]
  BY <1>2, <1>3, <1>4, <1>6
<1> QED BY <1>2, <1>7, <1>8, <1>9 DEF Holds, g

LEMMA SameTreeIs ==
  /\ \A f : SameTree(f, f)
  /\ \A f, g : SameTree(f, g) => SameTree(g, f)
  /\ \A f, g, h : SameTree(f, g) /\ SameTree(g, h) => SameTree(f, h)
BY DEF SameTree

LEMMA SameTreeNames ==
  ASSUME NEW f \in Volumes, NEW g \in Volumes, SameTree(f, g)
  PROVE  NamesOf(g) = NamesOf(f)
<1>1. /\ f = Volume(f.entry, f.inode, f.blks, f.spare, f.locked) /\ f.inode \in [Ino -> Node]
      /\ g = Volume(g.entry, g.inode, g.blks, g.spare, g.locked) /\ g.inode \in [Ino -> Node]
  BY VolumeTypes
<1> DEFINE I(h) == [i \in Ino |-> [h.inode[i] EXCEPT !.data = << >>]]
<1>2. \A h : h = Volume(h.entry, h.inode, h.blks, h.spare, h.locked) =>
             NamesOf(h) = Volume(h.entry, I(h), h.blks, h.spare, h.locked)
  <2> TAKE h
  <2>1. NamesOf(h) = [h EXCEPT !.inode = I(h)]
    BY DEF NamesOf
  <2> HIDE DEF I
  <2> QED BY <2>1 DEF Volume
<1>3. I(f) = I(g)
  <2> SUFFICES ASSUME NEW i \in Ino
               PROVE  [f.inode[i] EXCEPT !.data = << >>] = [g.inode[i] EXCEPT !.data = << >>]
    OBVIOUS
  <2>1. /\ f.inode[i] \in Node /\ g.inode[i] \in Node
        /\ g.inode[i].kind = f.inode[i].kind /\ g.inode[i].target = f.inode[i].target
    BY <1>1 DEF SameTree
  <2> QED BY <2>1 DEF Node
<1> HIDE DEF I
<1> QED BY <1>1, <1>2, <1>3 DEF SameTree

LEMMA SameTreeNamei ==
  ASSUME NEW f, NEW g, SameTree(f, g), NEW p
  PROVE  namei(g, p) = namei(f, p)
BY DEF SameTree, namei

LEMMA SameTreeFollow ==
  ASSUME NEW f \in Volumes, NEW g \in Volumes, SameTree(f, g), NEW p \in Seq(Name)
  PROVE  namei_follow(g, p) = namei_follow(f, p)
<1>1. PICK w : IsChain(w, f, p)
  BY FollowRuns
<1>2. PICK v : IsChain(v, g, p)
  BY FollowRuns
<1>3. \A i \in Used(f) \cup {NONE} : kind(g, i) = kind(f, i) /\ Follow(g, i) = Follow(f, i)
  <2>1. \A i \in Ino : kind(g, i) = kind(f, i)
    BY KindOf DEF SameTree
  <2>2. \A i \in Used(f) \cup {NONE} : kind(g, i) = kind(f, i)
    BY <2>1, KindOf DEF Used
  <2>3. \A i \in Used(f) \cup {NONE} : kind(f, i) = "link" => i \in Ino
    BY KindOf DEF Used
  <2>4. \A i \in Ino : namei(g, g.inode[i].target) = namei(f, f.inode[i].target)
    <3> TAKE i \in Ino
    <3>1. g.inode[i].target = f.inode[i].target
      BY DEF SameTree
    <3> QED BY <3>1, SameTreeNamei
  <2> QED BY <2>2, <2>3, <2>4 DEF Follow
<1> DEFINE S == {k \in Nat : k <= HOPS => v[k] = w[k]}
<1>4. 0 \in S
  BY <1>1, <1>2, SameTreeNamei DEF IsChain
<1>5. ASSUME NEW k \in Nat, k \in S
      PROVE  k + 1 \in S
  <2> SUFFICES ASSUME k + 1 <= HOPS
               PROVE  v[k + 1] = w[k + 1]
    OBVIOUS
  <2>1. k \in 0 .. HOPS /\ k + 1 \in 1 .. HOPS /\ (k + 1) - 1 = k /\ HOPS \in Nat /\ v[k] = w[k]
    BY <1>5, InodeNumbers
  <2>2. w[k] \in Used(f) \cup {NONE} /\ w[k + 1] = Follow(f, w[k]) /\ v[k + 1] = Follow(g, v[k])
    BY <1>1, <1>2, <2>1 DEF IsChain
  <2> QED BY <1>3, <2>1, <2>2
<1> HIDE DEF S
<1>6. HOPS \in S /\ HOPS \in Nat /\ HOPS \in 0 .. HOPS
  BY <1>4, <1>5, Induction, InodeNumbers
<1>7. v[HOPS] = w[HOPS] /\ w[HOPS] \in Used(f) \cup {NONE}
  BY <1>1, <1>6 DEF S, IsChain
<1> QED BY <1>1, <1>2, <1>3, <1>7 DEF IsChain

\* ---- A directory has one path ----

LEMMA OnePath ==
  ASSUME NEW f \in Volumes, NEW p \in Seq(Name), NEW q \in Seq(Name),
         namei(f, p) = namei(f, q), kind(f, namei(f, p)) = "dir"
  PROVE  p = q
<1> DEFINE S == {a \in Seq(Name) : \A b \in Seq(Name) :
                   namei(f, a) = namei(f, b) /\ kind(f, namei(f, a)) = "dir" => a = b}
<1>1. ASSUME NEW a \in Paths, namei(f, a) # NONE
      PROVE  /\ KeyOf(f, a) \in DOMAIN f.entry /\ f.entry[KeyOf(f, a)] = namei(f, a)
             /\ namei(f, a) # root /\ namei(f, a) \in Ino
             /\ namei(f, Front(a)) \in Nodes /\ Front(a) \in Seq(Name)
             /\ kind(f, namei(f, Front(a))) = "dir" /\ a = Append(Front(a), Last(a))
  <2>1. /\ KeyOf(f, a) \in DOMAIN f.entry /\ f.entry[KeyOf(f, a)] = namei(f, a)
        /\ namei(f, a) # root /\ namei(f, a) \in Ino
    BY <1>1, KeyIs DEF Used
  <2>2. KeyOf(f, a) \in Keys /\ f.inode[KeyOf(f, a)[1]].kind = "dir"
    BY <2>1, VolumeTypes DEF Volumes
  <2>3. namei(f, Front(a)) \in Ino /\ f.inode[namei(f, Front(a))].kind = "dir"
    BY <2>2 DEF KeyOf, Keys
  <2> QED BY <2>1, <2>3, NameiStep, KindOf
<1>2. kind(f, NONE) # "dir"
  BY KindOf
<1>3. << >> \in S
  <2>1. \A b \in Seq(Name) : b # << >> /\ namei(f, b) = root => FALSE
    BY <1>1, InodeNumbers DEF Paths
  <2> QED BY <2>1, NameiStep
<1>4. ASSUME NEW a \in Paths, Front(a) \in S
      PROVE  a \in S
  <2> SUFFICES ASSUME NEW b \in Seq(Name), namei(f, a) = namei(f, b),
                      kind(f, namei(f, a)) = "dir"
               PROVE  a = b
    BY DEF Paths
  <2>1. namei(f, a) # NONE
    BY <1>2
  <2>2. b # << >>
    BY <1>1, <2>1, NameiStep
  <2>3. b \in Paths
    BY <2>2 DEF Paths
  <2>4. f.inode[namei(f, a)].kind = "dir"
    BY <1>1, <2>1, KindOf
  <2>5. KeyOf(f, a) = KeyOf(f, b)
    <3>1. \A e, x \in DOMAIN f.entry :
            f.entry[e] = f.entry[x] /\ f.inode[f.entry[e]].kind = "dir" => e = x
      BY DEF Volumes
    <3>2. /\ KeyOf(f, a) \in DOMAIN f.entry /\ f.entry[KeyOf(f, a)] = namei(f, a)
          /\ KeyOf(f, b) \in DOMAIN f.entry /\ f.entry[KeyOf(f, b)] = namei(f, b)
      BY <1>1, <2>1, <2>3
    <3> QED BY <2>4, <3>1, <3>2, Zenon
  <2>6. namei(f, Front(a)) = namei(f, Front(b)) /\ Last(a) = Last(b)
    BY <2>5 DEF KeyOf
  <2>7. Front(a) = Front(b)
    BY <1>1, <1>4, <2>1, <2>3, <2>6
  <2> QED BY <1>1, <2>1, <2>3, <2>6, <2>7
<1> HIDE DEF S
<1>5. p \in S
  BY <1>3, <1>4, PathInduction
<1> QED BY <1>5 DEF S

\* ---- Room on the disk ----

Lengths(f) == [x \in Nat \X (1 .. INODES) |-> x[1] + Len(f.inode[x[2] - 1].data) + f.blks[x[2] - 1]]

LEMMA RoomRuns ==
  ASSUME NEW f \in Volumes
  PROVE  \E w \in [0 .. INODES -> Nat] :
           /\ w[0] = 0 /\ Room(f) = BLOCKS - w[INODES]
           /\ \A k \in 1 .. INODES : w[k] = w[k - 1] + Len(f.inode[k - 1].data) + f.blks[k - 1]
<1> DEFINE n == INODES
           used[k \in 0 .. n] ==
             IF k = 0 THEN 0 ELSE used[k - 1] + Len(f.inode[k - 1].data) + f.blks[k - 1]
           Def(g) == [k \in 0 .. n |->
             IF k = 0 THEN 0 ELSE g[k - 1] + Len(f.inode[k - 1].data) + f.blks[k - 1]]
           G == Lengths(f)
<1>1. Room(f) = BLOCKS - used[n]
  BY DEF Room
<1>2. n \in Nat /\ 0 \in Nat
  BY InodeNumbers
<1>3. \A k \in 1 .. n : Len(f.inode[k - 1].data) \in Nat /\ f.blks[k - 1] \in Nat
  <2> TAKE k \in 1 .. n
  <2>1. k - 1 \in Ino
    BY <1>2 DEF Ino
  <2>2. f.blks \in Counts
    BY VolumeTypes
  <2> QED BY <2>1, <2>2, KindOf DEF Counts
<1>4. /\ G \in [Nat \X (1 .. n) -> Nat]
      /\ \A a \in Nat, k \in 1 .. n : G[<<a, k>>] = a + Len(f.inode[k - 1].data) + f.blks[k - 1]
  <2>1. \A a \in Nat, k \in 1 .. n : a + Len(f.inode[k - 1].data) + f.blks[k - 1] \in Nat
    <3> TAKE a \in Nat, k \in 1 .. n
    <3> DEFINE l == Len(f.inode[k - 1].data)
               m == f.blks[k - 1]
    <3>1. l \in Nat /\ m \in Nat
      BY <1>3
    <3> HIDE DEF l, m
    <3>2. a + l + m \in Nat
      BY <3>1
    <3> QED BY <3>2 DEF l, m
  <2> QED BY <2>1, ZenonT(30) DEF Lengths
<1> HIDE DEF G, n
<1>5. PICK w : IsOrbit(w, Nat, 0, n, G)
  BY <1>2, <1>4, Orbit
<1>6. \A k \in 1 .. n : w[k - 1] \in Nat
  <2>1. \A k \in 1 .. n : k - 1 \in 0 .. n
    BY <1>2
  <2> QED BY <1>5, <2>1 DEF IsOrbit
<1>7. w = Def(w)
  <2>1. \A k \in 1 .. n : w[k] = w[k - 1] + Len(f.inode[k - 1].data) + f.blks[k - 1]
    BY <1>4, <1>5, <1>6 DEF IsOrbit
  <2>2. w = [k \in 0 .. n |-> w[k]] /\ w[0] = 0
    BY <1>5 DEF IsOrbit
  <2>3. \A k \in 0 .. n : k # 0 => k \in 1 .. n
    BY <1>2
  <2> QED BY <2>1, <2>2, <2>3
<1>8. used = Def(used)
  BY <1>7, Zenon
<1> HIDE DEF used
<1>9. \A k \in 1 .. n : used[k] = used[k - 1] + Len(f.inode[k - 1].data) + f.blks[k - 1]
  <2> TAKE k \in 1 .. n
  <2>1. k \in 0 .. n /\ k # 0
    BY <1>2
  <2> QED BY <1>8, <2>1
<1>10. used = [k \in 0 .. n |-> used[k]] /\ used[0] = 0
  BY <1>2, <1>8
<1>11. IsOrbit(used, Nat, 0, n, G)
  BY <1>2, <1>4, <1>9, <1>10, LoopIsOrbit, ZenonT(60)
<1>12. used \in [0 .. n -> Nat]
  BY <1>11 DEF IsOrbit
<1> QED BY <1>1, <1>9, <1>10, <1>12 DEF n

\* One file has c more blocks, the others are as long as they were.
LEMMA RoomTaken ==
  ASSUME NEW f \in Volumes, NEW g \in Volumes, NEW i \in Ino, NEW c \in Nat,
         g.blks = f.blks, Len(g.inode[i].data) = Len(f.inode[i].data) + c,
         \A j \in Ino : j # i => Len(g.inode[j].data) = Len(f.inode[j].data)
  PROVE  Room(f) \in Int /\ Room(g) = Room(f) - c
<1>1. PICK w \in [0 .. INODES -> Nat] :
        /\ w[0] = 0 /\ Room(f) = BLOCKS - w[INODES]
        /\ \A k \in 1 .. INODES : w[k] = w[k - 1] + Len(f.inode[k - 1].data) + f.blks[k - 1]
  BY RoomRuns
<1>2. PICK v \in [0 .. INODES -> Nat] :
        /\ v[0] = 0 /\ Room(g) = BLOCKS - v[INODES]
        /\ \A k \in 1 .. INODES : v[k] = v[k - 1] + Len(g.inode[k - 1].data) + g.blks[k - 1]
  BY RoomRuns
<1>3. INODES \in Nat /\ i \in Nat /\ i <= INODES - 1 /\ BLOCKS \in Nat
  BY InodeNumbers DEF Ino
<1> DEFINE S == {k \in Nat : k <= INODES => v[k] = w[k] + (IF k > i THEN c ELSE 0)}
<1>4. 0 \in S
  BY <1>1, <1>2, <1>3
<1>5. ASSUME NEW k \in Nat, k \in S
      PROVE  k + 1 \in S
  <2> SUFFICES ASSUME k + 1 <= INODES
               PROVE  v[k + 1] = w[k + 1] + (IF k + 1 > i THEN c ELSE 0)
    OBVIOUS
  <2>1. k \in 0 .. INODES /\ k + 1 \in 1 .. INODES /\ (k + 1) - 1 = k /\ k \in Ino
    BY <1>3 DEF Ino
  <2>2. v[k] = w[k] + (IF k > i THEN c ELSE 0) /\ w[k] \in Nat
    BY <1>3, <1>5, <2>1
  <2> DEFINE m == f.blks[k]
  <2>3. /\ v[k + 1] = v[k] + Len(g.inode[k].data) + m
        /\ w[k + 1] = w[k] + Len(f.inode[k].data) + m
    BY <1>1, <1>2, <2>1
  <2>4. Len(f.inode[k].data) \in Nat /\ m \in Nat
    BY <2>1, KindOf, VolumeTypes DEF Counts
  <2> HIDE DEF m
  <2>5. CASE k = i
    <3>1. ~ (k > i) /\ k + 1 > i
      BY <1>3, <2>5
    <3>2. Len(g.inode[k].data) = Len(f.inode[k].data) + c
      BY <2>5
    <3> DEFINE l == Len(f.inode[k].data)
               x == w[k]
    <3>3. v[k] = x /\ v[k + 1] = x + (l + c) + m /\ w[k + 1] = x + l + m
      BY <2>2, <2>3, <3>1, <3>2
    <3>4. x \in Nat /\ l \in Nat
      BY <2>2, <2>4
    <3> HIDE DEF l, x
    <3>5. x + (l + c) + m = (x + l + m) + c /\ x + l + m \in Nat
      BY <2>4, <3>4
    <3>6. v[k + 1] = w[k + 1] + c /\ w[k + 1] \in Nat
      BY <3>3, <3>5, Zenon
    <3> QED BY <3>1, <3>6
  <2>6. CASE k # i
    <3>1. Len(g.inode[k].data) = Len(f.inode[k].data)
      BY <2>1, <2>6
    <3>2. k > i <=> k + 1 > i
      BY <1>3, <2>6
    <3> DEFINE a == IF k > i THEN c ELSE 0
    <3>3. a \in Nat /\ a = IF k + 1 > i THEN c ELSE 0
      BY <3>2
    <3> HIDE DEF a
    <3>4. v[k + 1] = (w[k] + a) + Len(f.inode[k].data) + m
      BY <2>2, <2>3, <3>1 DEF a
    <3>5. v[k + 1] = w[k + 1] + a
      <4> DEFINE x == w[k]
                 y == Len(f.inode[k].data)
      <4>1. x \in Nat /\ y \in Nat /\ m \in Nat /\ a \in Nat
        BY <2>2, <2>4, <3>3
      <4>2. v[k + 1] = ((x + a) + y) + m /\ w[k + 1] = (x + y) + m
        BY <2>3, <3>4
      <4> HIDE DEF x, y
      <4>3. ((x + a) + y) + m = ((x + y) + m) + a
        BY <4>1
      <4> QED BY <4>2, <4>3, Zenon
    <3> QED BY <3>3, <3>5
  <2> QED BY <2>5, <2>6
<1> HIDE DEF S
<1>6. INODES \in S
  BY <1>3, <1>4, <1>5, Induction
<1>7. v[INODES] = w[INODES] + c
  BY <1>3, <1>6 DEF S
<1>8. w[INODES] \in Nat
  BY <1>3
<1> DEFINE x == w[INODES]
<1>9. Room(f) = BLOCKS - x /\ Room(g) = BLOCKS - (x + c)
  BY <1>1, <1>2, <1>7
<1> HIDE DEF x
<1>10. BLOCKS - x \in Int /\ BLOCKS - (x + c) = (BLOCKS - x) - c
  BY <1>3, <1>8 DEF x
<1> QED BY <1>9, <1>10, Zenon

\* ---- The calls of the engine ----

LEMMA PathTypes ==
  /\ Path \subseteq Paths /\ Paths \subseteq Seq(Name) /\ IsFiniteSet(Name)
  /\ File \in NewNodes /\ Dir \in NewNodes /\ \A p \in Seq(Name) : Link(p) \in NewNodes
  /\ File.kind = "file" /\ Dir.kind = "dir"
<1>1. Path \subseteq Paths /\ Paths \subseteq Seq(Name) /\ IsFiniteSet(Name)
  BY CommandsAssumption DEF Paths
<1>2. << >> \in Seq(Block) /\ << >> \in Seq(Name)
  OBVIOUS
<1>3. /\ File = [kind |-> "file", data |-> << >>, target |-> << >>]
      /\ Dir = [kind |-> "dir", data |-> << >>, target |-> << >>]
      /\ \A p \in Seq(Name) : Link(p) = [kind |-> "link", data |-> << >>, target |-> p]
  <2>1. File = [kind |-> "file", data |-> << >>, target |-> << >>]
    BY DEF File, Free
  <2>2. Dir = [kind |-> "dir", data |-> << >>, target |-> << >>]
    BY DEF Dir, Free
  <2>3. ASSUME NEW p \in Seq(Name)
        PROVE  Link(p) = [kind |-> "link", data |-> << >>, target |-> p]
    <3> DEFINE n == [Free EXCEPT !.kind = "link"]
    <3>1. n = [kind |-> "link", data |-> << >>, target |-> << >>]
      BY DEF Free
    <3>2. Link(p) = [n EXCEPT !.target = p]
      BY DEF Link, Free
    <3> HIDE DEF n
    <3> QED BY <3>1, <3>2
  <2> QED BY <2>1, <2>2, <2>3
<1>4. \A k \in {"file", "dir", "link"}, p \in Seq(Name) :
        [kind |-> k, data |-> << >>, target |-> p] \in NewNodes
  BY <1>2 DEF NewNodes, Node, InodeKinds
<1> QED BY <1>1, <1>2, <1>3, <1>4

LEMMA MakeVolume ==
  ASSUME NEW f \in Volumes, NEW p \in Paths, NEW node \in NewNodes
  PROVE  /\ Make(f, p, node) \in Volumes /\ Grows(f, Make(f, p, node))
         /\ Make(f, p, node).locked = f.locked
         /\ Make(f, p, node) # f =>
              \/ IsMade(f, Make(f, p, node), p, node) /\ namei(Make(f, p, node), p) # NONE
              \/ /\ node.kind = "dir" /\ IsLeaked(f, Make(f, p, node), node)
                 /\ ~ (Room(Make(f, p, node)) > 0)
<1> DEFINE g == Make(f, p, node)
<1>0. \/ g = f \/ IsMade(f, g, p, node)
      \/ node.kind = "dir" /\ IsLeaked(f, g, node) /\ ~ (Room(g) > 0)
  BY MakeIs
<1> HIDE DEF g
<1>1. CASE g = f
  BY <1>1 DEF Grows, NamesGrow, g
<1>2. CASE IsMade(f, g, p, node)
  <2>1. /\ g \in Volumes /\ Grows(f, g) /\ g.locked = f.locked
        /\ \E i \in Ino \ Used(f) : namei(g, p) = i
    BY <1>2, MadeVolume
  <2>2. namei(g, p) # NONE
    BY <2>1, InodeNumbers
  <2> QED BY <1>2, <2>1, <2>2 DEF g
<1>3. CASE node.kind = "dir" /\ IsLeaked(f, g, node) /\ ~ (Room(g) > 0)
  BY <1>3, LeakedVolume DEF g
<1> QED BY <1>0, <1>1, <1>2, <1>3

\* Nothing happens, or a name goes.
Removes(f, g, p) ==
  \/ g = f
  \/ /\ namei(f, p) # NONE /\ IsBare(f, namei(f, p)) /\ IsUnlinked(f, g, p)
     /\ CanRemove(f, p)

LEMMA DeleteVolume ==
  ASSUME NEW f \in Volumes, NEW p \in Paths
  PROVE  /\ fs_delete(f, p) \in Volumes /\ Removes(f, fs_delete(f, p), p)
         /\ (CanRemove(f, p) /\ kind(f, namei(f, p)) # "dir") => fs_delete(f, p) # f
<1>1. CASE CanRemove(f, p) /\ kind(f, namei(f, p)) # "dir"
  <2>1. fs_delete(f, p) = Unlink(f, p) /\ IsBare(f, namei(f, p)) /\ namei(f, p) # NONE
    BY <1>1 DEF fs_delete, IsBare, CanRemove
  <2>2. Unlink(f, p) \in Volumes /\ IsUnlinked(f, Unlink(f, p), p)
    BY <2>1, UnlinkVolume
  <2>3. Unlink(f, p) # f
    BY <2>1, <2>2, UnlinkedNames
  <2> QED BY <1>1, <2>1, <2>2, <2>3 DEF Removes
<1>2. CASE ~ (CanRemove(f, p) /\ kind(f, namei(f, p)) # "dir")
  BY <1>2 DEF fs_delete, Removes
<1> QED BY <1>1, <1>2

LEMMA RmdirVolume ==
  ASSUME NEW f \in Volumes, NEW p \in Paths
  PROVE  fs_rmdir(f, p) \in Volumes /\ Removes(f, fs_rmdir(f, p), p)
<1>1. CASE CanRemove(f, p) /\ kind(f, namei(f, p)) = "dir" /\ Children(f, p) = {}
  <2>1. fs_rmdir(f, p) = Unlink(f, p) /\ IsBare(f, namei(f, p)) /\ namei(f, p) # NONE
    BY <1>1 DEF fs_rmdir, IsBare, CanRemove, Children
  <2>2. Unlink(f, p) \in Volumes /\ IsUnlinked(f, Unlink(f, p), p)
    BY <2>1, UnlinkVolume
  <2> QED BY <1>1, <2>1, <2>2 DEF Removes
<1>2. CASE ~ (CanRemove(f, p) /\ kind(f, namei(f, p)) = "dir" /\ Children(f, p) = {})
  BY <1>2 DEF fs_rmdir, Removes
<1> QED BY <1>1, <1>2

LEMMA RemovesNames ==
  ASSUME NEW f \in Volumes, NEW g \in Volumes, NEW p \in Paths, Removes(f, g, p)
  PROVE  /\ Grows(g, f)
         /\ g # f => namei(g, p) = NONE
<1>1. CASE g = f
  BY <1>1 DEF Grows, NamesGrow
<1>2. CASE namei(f, p) # NONE /\ IsBare(f, namei(f, p)) /\ IsUnlinked(f, g, p)
  BY <1>2, UnlinkedNames
<1> QED BY <1>1, <1>2 DEF Removes

LEMMA FollowNode ==
  ASSUME NEW f \in Volumes, NEW p \in Seq(Name)
  PROVE  /\ namei_follow(f, p) \in Used(f) \cup {NONE} /\ namei_follow(f, p) \in Nodes
         /\ kind(f, namei_follow(f, p)) # "link"
<1>1. PICK w : IsChain(w, f, p)
  BY FollowRuns
<1>2. HOPS \in 0 .. HOPS
  BY InodeNumbers
<1>3. namei_follow(f, p) \in Used(f) \cup {NONE}
  BY <1>1, <1>2 DEF IsChain
<1>4. kind(f, NONE) # "link"
  BY KindOf
<1>5. kind(f, namei_follow(f, p)) # "link"
  BY <1>1, <1>4 DEF IsChain
<1> QED BY <1>3, <1>5 DEF Used, Nodes

\* A file is emptied, or nothing happens.
LEMMA EmptiedVolume ==
  ASSUME NEW f \in Volumes, NEW p \in Seq(Name)
  PROVE  LET g == Emptied(f, p)
             i == namei_follow(f, p)
         IN  /\ g \in Volumes /\ SameTree(f, g)
             /\ \A j \in Ino : j # i => g.inode[j] = f.inode[j]
             /\ kind(f, i) = "file" => g.inode[i].data = << >>
             /\ kind(f, i) # "file" => g = f
<1>1. CASE kind(f, namei_follow(f, p)) = "file"
  <2>1. namei_follow(f, p) \in Used(f)
    BY <1>1, FollowNode, KindOf
  <2>2. PICK i \in Ino : i = namei_follow(f, p) /\ f.inode[i].kind = "file"
    BY <1>1, <2>1, KindOf DEF Used
  <2>3. Emptied(f, p) = WithData(f, i, << >>)
    BY <1>1, <2>2 DEF Emptied, WithData
  <2>4. << >> \in Seq(Block)
    OBVIOUS
  <2>5. Holds(f, WithData(f, i, << >>), i, << >>)
    BY <2>2, <2>4, DataVolume
  <2> QED BY <1>1, <2>2, <2>3, <2>5 DEF Holds
<1>2. CASE kind(f, namei_follow(f, p)) # "file"
  BY <1>2 DEF Emptied, SameTree
<1> QED BY <1>1, <1>2

LEMMA WriteVolume ==
  ASSUME NEW f \in Volumes, NEW i \in Ino, kind(f, i) = "file", NEW pos \in Nat, NEW b \in Block
  PROVE  LET g == fs_write(f, i, pos, b)
         IN  /\ g \in Volumes /\ SameTree(f, g)
             /\ \A j \in Ino : j # i => g.inode[j] = f.inode[j]
             /\ pos = Len(f.inode[i].data) /\ Room(f) > 0 =>
                  g.inode[i].data = Append(f.inode[i].data, b)
<1> DEFINE g == fs_write(f, i, pos, b)
           data == f.inode[i].data
<1>1. f.inode[i].kind = "file" /\ data \in Seq(Block)
  BY KindOf
<1>2. CASE pos < Len(data)
  <2> DEFINE c == [data EXCEPT ![pos + 1] = b]
  <2>1. c \in Seq(Block)
    <3> HIDE DEF data
    <3>1. Len(data) \in Nat /\ data \in [1 .. Len(data) -> Block]
      BY <1>1
    <3>2. c \in [1 .. Len(data) -> Block]
      BY <1>2, <3>1
    <3> QED BY <3>1, <3>2
  <2>2. g = WithData(f, i, c)
    BY <1>2 DEF fs_write, WithData
  <2>3. pos # Len(data)
    BY <1>1, <1>2
  <2> HIDE DEF c, g, data
  <2>4. Holds(f, WithData(f, i, c), i, c)
    BY <1>1, <2>1, DataVolume
  <2> QED BY <2>2, <2>3, <2>4 DEF Holds, g, data
<1>3. CASE ~ (pos < Len(data)) /\ Room(f) > 0
  <2> DEFINE c == Append(data, b)
  <2>1. c \in Seq(Block)
    BY <1>1
  <2>2. g = WithData(f, i, c)
    BY <1>3 DEF fs_write, WithData
  <2> HIDE DEF c, g
  <2>3. Holds(f, WithData(f, i, c), i, c)
    BY <1>1, <2>1, DataVolume
  <2> QED BY <2>2, <2>3 DEF Holds, c, g
<1>4. CASE ~ (pos < Len(data)) /\ ~ (Room(f) > 0)
  <2>1. g = f
    BY <1>4 DEF fs_write
  <2> HIDE DEF g
  <2> QED BY <1>4, <2>1 DEF SameTree, g
<1> QED BY <1>2, <1>3, <1>4

\* A further name of a file or a link.
LEMMA EnterVolume ==
  ASSUME NEW f \in Volumes, NEW q \in Paths, IsVacant(f, q), NEW i \in Nodes,
         kind(f, i) \in {"file", "link"}
  PROVE  Enter(f, q, i) \in Volumes
<1>1. i \in Used(f) /\ i \in Ino /\ f.inode[i].kind \in {"file", "link"}
  BY KindOf DEF Used
<1>2. Enters(f, i, f.inode[i])
  <2>1. f.inode[i] \in Node
    BY <1>1, VolumeTypes
  <2> QED BY <1>1, <2>1 DEF Enters, Volumes
<1> DEFINE g == Enter(f, q, i)
<1>3. IsAdded(f, g, q, i, f.inode[i])
  <2>1. /\ f = Volume(f.entry, f.inode, f.blks, f.spare, f.locked)
        /\ f.blks \in Counts /\ f.spare \in Counts /\ f.inode \in [Ino -> Node]
    BY VolumeTypes
  <2>2. namei(f, Front(q)) \in Ino
    BY DirNode
  <2>3. PICK c \in Counts, t \in Counts :
          g = Volume(WithEntry(f.entry, KeyOf(f, q), i), f.inode, c, t, f.locked)
    BY <2>1, <2>2, EnterIs
  <2>4. [f.inode EXCEPT ![i] = f.inode[i]] = f.inode
    BY <1>1, <2>1
  <2> HIDE DEF g
  <2>5. g = Added(f, q, i, f.inode[i], c, t)
    BY <2>3, <2>4 DEF Added
  <2> QED BY <2>5 DEF IsAdded
<1> HIDE DEF g
<1>4. g \in Volumes
  BY <1>2, <1>3, AddedVolume
<1> QED BY <1>4 DEF g

LEMMA LockVolume ==
  ASSUME NEW f \in Volumes, NEW L \in SUBSET Ino
  PROVE  [f EXCEPT !.locked = L] \in Volumes
<1> DEFINE h == Volume(f.entry, f.inode, f.blks, f.spare, L)
<1>1. /\ f = Volume(f.entry, f.inode, f.blks, f.spare, f.locked)
      /\ f.entry \in Entries /\ f.inode \in [Ino -> Node]
      /\ f.blks \in Counts /\ f.spare \in Counts
  BY VolumeTypes
<1>2. [f EXCEPT !.locked = L] = h
  BY <1>1 DEF Volume
<1>3. h \in Shapes /\ h.entry = f.entry /\ h.inode = f.inode
  BY <1>1, VolumeShape
<1> HIDE DEF h
<1>4. h \in Volumes
  BY <1>3 DEF Volumes
<1> QED BY <1>2, <1>4

LEMMA FreshIsVolume == FreshVolume \in Volumes
<1> DEFINE I == [i \in Ino |-> IF i = root THEN Dir ELSE Free]
<1>1. Dir \in Node /\ Dir.kind = "dir" /\ Dir.data = << >>
  BY PathTypes DEF NewNodes
<1>2. /\ I \in [Ino -> Node] /\ I[root].kind = "dir"
      /\ \A i \in Ino : I[i].data = << >>
  BY <1>1, FreeNode, InodeNumbers
<1> HIDE DEF I
<1> DEFINE E == [e \in {} |-> root]
           b == [i \in Ino |-> IF i = root THEN 1 ELSE 0]
           s == [i \in Ino |-> IF i = root THEN DIR_ENTRIES_PER_BLK - 2 ELSE 0]
<1>3. FreshVolume = Volume(E, I, b, s, {})
  BY DEF FreshVolume, Volume, I
<1>4. E \in [{} -> Ino] /\ DOMAIN E = {}
  BY InodeNumbers
<1>5. E \in Entries
  BY <1>4 DEF Entries
<1>6. b \in Counts /\ s \in Counts
  BY InodeNumbers DEF Counts
<1> HIDE DEF E, b, s
<1> DEFINE h == Volume(E, I, b, s, {})
<1>7. h \in Shapes /\ h.entry = E /\ h.inode = I
  BY <1>2, <1>5, <1>6, VolumeShape
<1> HIDE DEF h
<1>8. h \in Volumes
  BY <1>2, <1>4, <1>7 DEF Volumes
<1> QED BY <1>3, <1>8 DEF h

\* ---- Commands that run ----

CopyCmds ==
  [op : {"cp", "mv"},
   pc : {"source", "create", "dest", "copy", "close", "delete", "done"},
   src : Path, dst : Path, want : SUBSET Seq(Block), saved : SUBSET SUBSET Seq(Block),
   s : Nodes, d : Nodes,
   rpos : Nat, wpos : Nat, rc : {0, -1}]

ToDo == [what : {"touch", "rm", "rm_r", "mkdir", "rmdir", "stat"}, path : Paths,
         must : BOOLEAN]

ListCmds ==
  [op : {"touch", "rm", "rm_r", "mkdir", "mkdir_p"}, pc : {"list", "done"},
   args : Seq(Path), rest : Seq(Path), todo : Seq(ToDo), rc : {0, -1}]

\* The descriptors of the users and of the command.
Kept == Cardinality(held)

OfCommand == IF cmd.pc \in {"create", "dest"} THEN 1
             ELSE IF cmd.pc \in {"copy", "close"} THEN 2 ELSE 0

CmdInv ==
  /\ fs \in Volumes /\ (\A f \in host : f \in Volumes /\ SameTree(fs, f))
  /\ held \in SUBSET Ino
  /\ cmd = Idle \/ cmd \in CopyCmds \/ cmd \in ListCmds
  /\ fds = Kept + OfCommand
  /\ cmd.pc \in {"create", "dest", "copy", "close", "delete"} => cmd.s \in Ino
  /\ cmd.pc \in {"copy", "close"} => cmd.d \in Ino /\ kind(fs, cmd.d) = "file"

Frame == UNCHANGED <<fds, held, cmd>>

\* A save begins, or the tree stays as the image has it.
HostMoves == host' = {} \/ (host' = host /\ SameTree(fs, fs'))

LEMMA IdleIs == Idle.op = "idle" /\ Idle.pc = "idle"
BY DEF Idle

LEMMA KeptIs ==
  ASSUME CmdInv
  PROVE  /\ Kept \in Nat /\ IsFiniteSet(held)
         /\ held' = held => Kept' = Kept
<1>1. held \in SUBSET Ino /\ IsFiniteSet(Ino)
  BY InodeNumbers DEF CmdInv
<1>2. IsFiniteSet(held)
  BY <1>1, FS_Subset
<1> QED BY <1>2, FS_CardinalityType DEF Kept

LEMMA HostStep ==
  ASSUME CmdInv, HostMoves
  PROVE  \A f \in host' : f \in Volumes /\ SameTree(fs', f)
BY SameTreeIs DEF CmdInv, HostMoves

LEMMA SyncedMoves == (Synced => HostMoves) /\ (sync => HostMoves)
BY SameTreeIs DEF Synced, sync, HostMoves

LEMMA PromptInv ==
  ASSUME CmdInv, Prompt
  PROVE  CmdInv'
<1>1. /\ fs \in Volumes /\ held \in SUBSET Ino /\ Kept \in Nat /\ IsFiniteSet(held)
      /\ fds = Kept + 0 /\ cmd = Idle /\ OfCommand = 0
  <2>1. cmd = Idle
    BY DEF Prompt
  <2>2. cmd.pc = "idle"
    BY <2>1, IdleIs
  <2>3. OfCommand = 0
    BY <2>2 DEF OfCommand
  <2> QED BY <2>1, <2>3, KeptIs DEF CmdInv
\* What is left to show of a step that stays at the prompt.
<1>2. ASSUME fs' \in Volumes, HostMoves, cmd' = cmd, held' \in SUBSET Ino, fds' = Kept' + 0
      PROVE  CmdInv'
  <2>1. cmd' = Idle
    BY <1>1, <1>2
  <2>2. cmd'.pc = "idle"
    BY <2>1, IdleIs
  <2>3. OfCommand' = 0
    BY <2>2 DEF OfCommand
  <2>4. fds' = Kept' + OfCommand'
    BY <1>2, <2>3, Zenon
  <2> QED BY <1>2, <2>1, <2>2, <2>4, HostStep DEF CmdInv
<1>11. ASSUME fs' \in Volumes, HostMoves, Frame
       PROVE  CmdInv'
  <2>1. Kept' = Kept /\ held' \in SUBSET Ino
    BY <1>1, <1>11, KeptIs DEF Frame
  <2> QED BY <1>1, <1>2, <1>11, <2>1 DEF Frame
<1>3. ASSUME NEW p \in Path, NEW w \in BOOLEAN, open(p, w)
      PROVE  CmdInv'
  <2> DEFINE i == namei_follow(fs, p)
  <2>1. /\ kind(fs, i) = "file" /\ i \notin held /\ host' = host /\ cmd' = cmd
        /\ fs' = Emptied(fs, p) \/ fs' = fs
        /\ \/ fds' = fds + 1 /\ held' = held \cup {i}
           \/ fds' = fds /\ held' = held
    BY <1>3 DEF open
  <2>2. fs' \in Volumes /\ SameTree(fs, fs')
    <3>1. p \in Seq(Name)
      BY PathTypes
    <3> QED BY <1>1, <2>1, <3>1, EmptiedVolume, SameTreeIs
  <2>3. i \in Ino
    <3>1. i \in Nodes
      BY <1>1, FollowNode, PathTypes
    <3> QED BY <1>1, <2>1, <3>1, KindOf DEF Used
  <2> HIDE DEF i
  <2>4. held' \in SUBSET Ino /\ fds' = Kept' + 0
    <3>1. CASE fds' = fds + 1 /\ held' = held \cup {i}
      <4>1. Kept' = Kept + 1
        BY <1>1, <2>1, <3>1, FS_AddElement DEF Kept
      <4> QED BY <1>1, <2>3, <3>1, <4>1
    <3>2. CASE fds' = fds /\ held' = held
      BY <1>1, <3>2, KeptIs
    <3> QED BY <2>1, <3>1, <3>2
  <2> QED BY <1>2, <2>1, <2>2, <2>4 DEF HostMoves
<1>12. ASSUME NEW i \in held, NEW pos \in 0 .. LENGTH - 1, NEW b \in Block, write(i, pos, b)
       PROVE  CmdInv'
  <2>1. kind(fs, i) = "file" /\ fs' = fs_write(fs, i, pos, b) /\ host' = host /\ Frame
    BY <1>12 DEF write, Frame
  <2>2. i \in Ino /\ pos \in Nat
    BY <1>1
  <2>3. fs' \in Volumes /\ SameTree(fs, fs')
    BY <1>1, <2>1, <2>2, WriteVolume
  <2> QED BY <1>11, <2>1, <2>3 DEF HostMoves
<1>13. ASSUME NEW i \in held, close(i)
       PROVE  CmdInv'
  <2>1. fds' = fds - 1 /\ held' = held \ {i} /\ sync /\ fs' = fs /\ cmd' = cmd
    BY <1>13 DEF close
  <2>2. Kept' = Kept - 1
    BY <1>1, <2>1, FS_RemoveElement DEF Kept
  <2>3. fds' = Kept' + 0
    BY <1>1, <2>1, <2>2
  <2> QED BY <1>1, <1>2, <2>1, <2>3, SyncedMoves
<1>4. ASSUME NEW p \in Path, NEW q \in Path, ln(p, q)
      PROVE  CmdInv'
  <2>1. /\ IsVacant(fs, q) /\ kind(fs, namei(fs, p)) \in {"file", "link"}
        /\ fs' = Enter(fs, q, namei(fs, p)) /\ sync /\ Frame
    BY <1>4 DEF ln, Frame
  <2>2. namei(fs, p) \in Nodes
    BY <1>1, NameiStep, PathTypes
  <2>3. fs' \in Volumes
    BY <1>1, <2>1, <2>2, EnterVolume, PathTypes
  <2> QED BY <1>11, <2>1, <2>3, SyncedMoves
<1>5. ASSUME NEW p \in Path, NEW q \in Path, ln_s(p, q)
      PROVE  CmdInv'
  <2>1. fs' = Make(fs, q, Link(p)) /\ Synced /\ Frame
    BY <1>5 DEF ln_s, Frame
  <2>2. fs' \in Volumes
    BY <1>1, <2>1, MakeVolume, PathTypes
  <2> QED BY <1>11, <2>1, <2>2, SyncedMoves
<1>6. ASSUME NEW p \in Path, chmod(p)
      PROVE  CmdInv'
  <2> DEFINE L == IF namei(fs, p) \in fs.locked THEN fs.locked \ {namei(fs, p)}
                  ELSE fs.locked \cup {namei(fs, p)}
  <2>1. fs' = [fs EXCEPT !.locked = L] /\ sync /\ Frame
    BY <1>6 DEF chmod, Frame
  <2>2. kind(fs, namei(fs, p)) = "dir"
    BY <1>6 DEF chmod
  <2>3. namei(fs, p) \in Ino
    BY <1>1, <2>2, NameiStep, KindOf, PathTypes DEF Used
  <2>4. L \in SUBSET Ino
    BY <1>1, <2>3, VolumeTypes
  <2> HIDE DEF L
  <2>5. fs' \in Volumes
    BY <1>1, <2>1, <2>4, LockVolume
  <2> QED BY <1>11, <2>1, <2>5, SyncedMoves
\* What is left to show of a command that begins.
<1>7. ASSUME UNCHANGED <<fs, host, fds, held>>, cmd' \in CopyCmds \cup ListCmds,
             cmd'.pc \in {"source", "list"}
      PROVE  CmdInv'
  <2>1. OfCommand' = 0 /\ Kept' = Kept
    BY <1>7, KeptIs DEF OfCommand
  <2>2. fds' = Kept' + OfCommand'
    BY <1>1, <1>7, <2>1, Zenon
  <2>3. HostMoves
    BY <1>7, SameTreeIs DEF HostMoves
  <2> QED BY <1>1, <1>7, <2>2, <2>3, HostStep DEF CmdInv
<1>8. ASSUME NEW op \in {"cp", "mv"}, NEW p \in Path, NEW q \in Path, Begin_copy(op, p, q),
             UNCHANGED <<fs, host, fds, held>>
      PROVE  CmdInv'
  <2>1. /\ Content(fs, p) \in SUBSET Seq(Block)
        /\ {Content(f, p) : f \in host} \in SUBSET SUBSET Seq(Block)
    <3>1. \A f \in Volumes : Content(f, p) \in SUBSET Seq(Block)
      BY KindOf DEF Content
    <3> QED BY <1>1, <3>1 DEF CmdInv
  <2>2. cmd' = [op |-> op, pc |-> "source", src |-> p, dst |-> q, want |-> Content(fs, p),
                saved |-> {Content(f, p) : f \in host}, s |-> NONE, d |-> NONE,
                rpos |-> 0, wpos |-> 0, rc |-> 0]
    BY <1>8 DEF Begin_copy
  <2>3. cmd' \in CopyCmds /\ cmd'.pc = "source"
    BY <2>1, <2>2 DEF CopyCmds, Nodes
  <2> QED BY <1>7, <1>8, <2>3
<1>9. ASSUME NEW op \in {"touch", "rm", "rm_r", "mkdir", "mkdir_p"}, NEW ps \in Seq(Path),
             Begin_list(op, ps), UNCHANGED <<fs, host, fds, held>>
      PROVE  CmdInv'
  <2>1. cmd' = [op |-> op, pc |-> "list", args |-> ps, rest |-> ps, todo |-> << >>, rc |-> 0]
    BY <1>9 DEF Begin_list
  <2>2. cmd' \in ListCmds /\ cmd'.pc = "list"
    <3>1. << >> \in Seq(ToDo)
      BY EmptySeq
    <3> QED BY <2>1, <3>1 DEF ListCmds
  <2> QED BY <1>7, <1>9, <2>2
<1>10. /\ \A ps \in Args : ps \in Seq(Path)
       /\ \A p \in Path : <<p>> \in Seq(Path)
  BY CommandsAssumption
<1> QED BY <1>3, <1>4, <1>5, <1>6, <1>8, <1>9, <1>10, <1>12, <1>13 DEF Prompt

\* ---- Each step keeps the types, the descriptors and what was saved ----

\* Where a command stands, by its pc.
LEMMA CmdKinds ==
  ASSUME CmdInv
  PROVE  /\ cmd.pc \in {"source", "create", "dest", "copy", "close", "delete"} => cmd \in CopyCmds
         /\ cmd.pc = "list" => cmd \in ListCmds
         /\ cmd.pc = "idle" <=> cmd = Idle
         /\ cmd \in CopyCmds => cmd.src \in Paths /\ cmd.dst \in Paths
BY IdleIs, PathTypes DEF CmdInv, CopyCmds, ListCmds

LEMMA NextCmd ==
  ASSUME CmdInv, fs' \in Volumes, held' = held, cmd' \in CopyCmds \/ cmd' \in ListCmds,
         cmd'.pc \notin {"copy", "close"}, HostMoves,
         fds' = Kept + (IF cmd'.pc \in {"create", "dest"} THEN 1 ELSE 0),
         cmd'.pc \in {"create", "dest", "delete"} => cmd'.s \in Ino
  PROVE  CmdInv'
<1>1. OfCommand' = IF cmd'.pc \in {"create", "dest"} THEN 1 ELSE 0
  BY DEF OfCommand
<1>2. Kept' = Kept
  BY KeptIs
<1>3. fds' = Kept' + OfCommand'
  BY <1>1, <1>2, Zenon
<1>4. held' \in SUBSET Ino
  BY DEF CmdInv
<1> QED BY <1>3, <1>4, HostStep DEF CmdInv

LEMMA OpenSourceInv ==
  ASSUME CmdInv, OpenSource
  PROVE  CmdInv'
<1> DEFINE i == namei_follow(fs, cmd.src)
<1>1. /\ fs \in Volumes /\ HostMoves /\ cmd \in CopyCmds /\ Kept \in Nat /\ fds = Kept + 0
      /\ cmd.src \in Seq(Name) /\ UNCHANGED <<fs, host, held>>
  BY CmdKinds, PathTypes, KeptIs, SameTreeIs DEF OpenSource, CmdInv, OfCommand, HostMoves
<1>2. CASE kind(fs, i) = "file" /\ fds < NOFILE
  <2>1. fds' = fds + 1 /\ cmd' = [cmd EXCEPT !.pc = "create", !.s = i]
    BY <1>2 DEF OpenSource
  <2>2. i \in Used(fs)
    BY <1>1, <1>2, FollowNode, KindOf
  <2> HIDE DEF i
  <2>3. i \in Ino /\ i \in Nodes
    BY <2>2 DEF Used, Nodes
  <2>4. cmd' \in CopyCmds /\ cmd'.pc = "create" /\ cmd'.s = i
    BY <1>1, <2>1, <2>3 DEF CopyCmds
  <2>5. fds' = Kept + 1
    BY <1>1, <2>1
  <2> QED BY <1>1, <2>3, <2>4, <2>5, NextCmd
<1>3. CASE ~ (kind(fs, i) = "file" /\ fds < NOFILE)
  <2>1. fds' = fds /\ cmd' = [cmd EXCEPT !.pc = "done", !.rc = -1]
    BY <1>3 DEF OpenSource, Done
  <2>2. cmd' \in CopyCmds /\ cmd'.pc = "done"
    BY <1>1, <2>1 DEF CopyCmds
  <2> QED BY <1>1, <2>1, <2>2, NextCmd
<1> QED BY <1>2, <1>3

LEMMA CreateDestInv ==
  ASSUME CmdInv, CreateDest
  PROVE  CmdInv'
<1>1. /\ fs \in Volumes /\ cmd \in CopyCmds /\ Kept \in Nat /\ fds = Kept + 1
      /\ cmd.dst \in Paths /\ cmd.s \in Ino
  BY CmdKinds, KeptIs DEF CreateDest, CmdInv, OfCommand
<1>2. /\ fs' = Make(fs, cmd.dst, File) /\ Synced /\ fds' = fds /\ held' = held
      /\ cmd' = [cmd EXCEPT !.pc = "dest"]
  BY DEF CreateDest
<1>3. fs' \in Volumes /\ HostMoves
  BY <1>1, <1>2, MakeVolume, PathTypes, SyncedMoves
<1>4. cmd' \in CopyCmds /\ cmd'.pc = "dest" /\ cmd'.s = cmd.s
  BY <1>1, <1>2 DEF CopyCmds
<1> QED BY <1>1, <1>2, <1>3, <1>4, NextCmd

LEMMA OpenDestInv ==
  ASSUME CmdInv, OpenDest
  PROVE  CmdInv'
<1> DEFINE i == namei_follow(fs, cmd.dst)
<1>1. /\ fs \in Volumes /\ cmd \in CopyCmds /\ Kept \in Nat /\ fds = Kept + 1
      /\ held \in SUBSET Ino /\ cmd.dst \in Seq(Name) /\ cmd.s \in Ino
  BY CmdKinds, PathTypes, KeptIs DEF OpenDest, CmdInv, OfCommand
<1>2. fs' = Emptied(fs, cmd.dst) /\ held' = held /\ Kept' = Kept
  BY KeptIs DEF OpenDest
<1>3. fs' \in Volumes /\ SameTree(fs, fs')
  BY <1>1, <1>2, EmptiedVolume
<1>4. CASE kind(fs, i) = "file" /\ fds < NOFILE
  <2>1. fds' = fds + 1 /\ cmd' = [cmd EXCEPT !.pc = "copy", !.d = i] /\ host' = host
    BY <1>4 DEF OpenDest
  <2>2. i \in Used(fs)
    BY <1>1, <1>4, FollowNode, KindOf
  <2> HIDE DEF i
  <2>3. i \in Ino /\ i \in Nodes
    BY <2>2 DEF Used, Nodes
  <2>4. cmd' \in CopyCmds /\ cmd'.pc = "copy" /\ cmd'.s = cmd.s /\ cmd'.d = i
    BY <1>1, <2>1, <2>3 DEF CopyCmds
  <2>5. kind(fs', i) = "file"
    BY <1>1, <1>3, <1>4, <2>3, KindOf DEF SameTree
  <2>6. OfCommand' = 2 /\ HostMoves
    BY <1>3, <2>1, <2>4 DEF OfCommand, HostMoves
  <2>7. fds' = Kept' + 2
    BY <1>1, <1>2, <2>1
  <2>8. fds' = Kept' + OfCommand'
    BY <2>6, <2>7, Zenon
  <2> QED BY <1>1, <1>2, <1>3, <2>3, <2>4, <2>5, <2>6, <2>8, HostStep DEF CmdInv
<1>5. CASE ~ (kind(fs, i) = "file" /\ fds < NOFILE)
  <2>1. fds' = fds - 1 /\ cmd' = [cmd EXCEPT !.pc = "done", !.rc = -1] /\ HostMoves
    BY <1>5, SyncedMoves DEF OpenDest, Done
  <2>2. cmd' \in CopyCmds /\ cmd'.pc = "done"
    BY <1>1, <2>1 DEF CopyCmds
  <2>3. fds' = Kept + 0
    BY <1>1, <2>1
  <2> QED BY <1>2, <1>3, <2>1, <2>2, <2>3, NextCmd
<1> QED BY <1>4, <1>5

\* What a round of the loop does.
LEMMA CopyIs ==
  ASSUME CmdInv, Copy
  PROVE  LET data == fs.inode[cmd.s].data
         IN  \/ /\ cmd.rpos >= Len(data) /\ fs' = fs /\ cmd' = [cmd EXCEPT !.pc = "close"]
             \/ /\ cmd.rpos < Len(data) /\ cmd.rpos + 1 \in 1 .. Len(data)
                /\ fs' = fs_write(fs, cmd.d, cmd.wpos, data[cmd.rpos + 1])
                /\ data[cmd.rpos + 1] \in Block
                /\ cmd' = [cmd EXCEPT !.rpos = @ + 1,
                                      !.wpos = IF @ < Len(fs'.inode[cmd.d].data)
                                               THEN @ + 1 ELSE @]
<1> DEFINE data == fs.inode[cmd.s].data
<1>1. fs \in Volumes /\ cmd \in CopyCmds /\ cmd.s \in Ino
  BY CmdKinds DEF Copy, CmdInv
<1>2. data \in Seq(Block) /\ cmd.rpos \in Nat
  BY <1>1, KindOf DEF CopyCmds
<1>3. CASE cmd.rpos >= Len(data)
  BY <1>3 DEF Copy
<1>4. CASE ~ (cmd.rpos >= Len(data))
  <2>1. /\ fs' = fs_write(fs, cmd.d, cmd.wpos, data[cmd.rpos + 1])
        /\ cmd' = [cmd EXCEPT !.rpos = @ + 1,
                              !.wpos = IF @ < Len(fs'.inode[cmd.d].data) THEN @ + 1 ELSE @]
    BY <1>4 DEF Copy
  <2> HIDE DEF data
  <2>2. cmd.rpos < Len(data) /\ cmd.rpos + 1 \in 1 .. Len(data)
    BY <1>2, <1>4
  <2>3. data[cmd.rpos + 1] \in Block
    BY <1>2, <2>2
  <2> QED BY <2>1, <2>2, <2>3 DEF data
<1> QED BY <1>3, <1>4

LEMMA CopyInv ==
  ASSUME CmdInv, Copy
  PROVE  CmdInv'
<1>1. /\ fs \in Volumes /\ cmd \in CopyCmds /\ fds = Kept + 2 /\ held \in SUBSET Ino
      /\ cmd.s \in Ino /\ cmd.d \in Ino /\ kind(fs, cmd.d) = "file" /\ cmd.pc = "copy"
  BY CmdKinds DEF Copy, CmdInv, OfCommand
<1>2. UNCHANGED <<host, fds, held, Kept>>
  BY KeptIs DEF Copy
<1> DEFINE data == fs.inode[cmd.s].data
<1>3. CASE cmd.rpos >= Len(data) /\ fs' = fs /\ cmd' = [cmd EXCEPT !.pc = "close"]
  <2>1. cmd' \in CopyCmds /\ cmd'.pc = "close" /\ cmd'.s = cmd.s /\ cmd'.d = cmd.d
    BY <1>1, <1>3 DEF CopyCmds
  <2>2. OfCommand' = 2 /\ HostMoves
    BY <1>2, <1>3, <2>1, SameTreeIs DEF OfCommand, HostMoves
  <2>3. fds' = Kept' + OfCommand'
    BY <1>1, <1>2, <2>2, Zenon
  <2> QED BY <1>1, <1>2, <1>3, <2>1, <2>2, <2>3, HostStep DEF CmdInv
<1>4. CASE /\ fs' = fs_write(fs, cmd.d, cmd.wpos, data[cmd.rpos + 1])
           /\ data[cmd.rpos + 1] \in Block
           /\ cmd' = [cmd EXCEPT !.rpos = @ + 1,
                                 !.wpos = IF @ < Len(fs'.inode[cmd.d].data) THEN @ + 1 ELSE @]
  <2>1. cmd.rpos \in Nat /\ cmd.wpos \in Nat
    BY <1>1 DEF CopyCmds
  <2>2. cmd' \in CopyCmds /\ cmd'.pc = "copy" /\ cmd'.s = cmd.s /\ cmd'.d = cmd.d
    <3> DEFINE w == IF cmd.wpos < Len(fs'.inode[cmd.d].data) THEN cmd.wpos + 1 ELSE cmd.wpos
               r == cmd.rpos + 1
    <3>1. w \in Nat /\ r \in Nat
      BY <2>1
    <3>2. cmd' = [cmd EXCEPT !.rpos = r, !.wpos = w]
      BY <1>4, Zenon
    <3> HIDE DEF w, r
    <3> QED BY <1>1, <3>1, <3>2 DEF CopyCmds
  <2>3. OfCommand' = 2
    BY <2>2 DEF OfCommand
  <2>4. fds' = Kept' + OfCommand'
    BY <1>1, <1>2, <2>3, Zenon
  <2> HIDE DEF data
  <2>5. fs' \in Volumes /\ SameTree(fs, fs')
    BY <1>1, <1>4, <2>1, WriteVolume
  <2>6. kind(fs', cmd.d) = "file"
    BY <1>1, <2>5, KindOf DEF SameTree
  <2>7. HostMoves
    BY <1>2, <2>5 DEF HostMoves
  <2> QED BY <1>1, <1>2, <2>2, <2>4, <2>5, <2>6, <2>7, HostStep DEF CmdInv
<1> QED BY <1>3, <1>4, CopyIs

LEMMA CloseBothInv ==
  ASSUME CmdInv, CloseBoth
  PROVE  CmdInv'
<1>1. /\ fs \in Volumes /\ cmd \in CopyCmds /\ Kept \in Nat /\ fds = Kept + 2 /\ cmd.s \in Ino
  BY CmdKinds, KeptIs DEF CloseBoth, CmdInv, OfCommand
<1>2. fds' = fds - 2 /\ HostMoves /\ fs' = fs /\ held' = held
  BY SyncedMoves DEF CloseBoth
<1>3. cmd' = [cmd EXCEPT !.pc = "delete"] \/ cmd' = [cmd EXCEPT !.pc = "done", !.rc = 0]
  BY DEF CloseBoth, Done
<1>4. cmd' \in CopyCmds /\ cmd'.pc \in {"delete", "done"} /\ cmd'.s = cmd.s
  <2>1. CASE cmd' = [cmd EXCEPT !.pc = "delete"]
    BY <1>1, <2>1 DEF CopyCmds
  <2>2. CASE cmd' = [cmd EXCEPT !.pc = "done", !.rc = 0]
    BY <1>1, <2>2 DEF CopyCmds
  <2> QED BY <1>3, <2>1, <2>2
<1>5. fds' = Kept + 0
  BY <1>1, <1>2
<1> QED BY <1>1, <1>2, <1>4, <1>5, NextCmd

LEMMA DeleteSourceInv ==
  ASSUME CmdInv, DeleteSource
  PROVE  CmdInv'
<1>1. /\ fs \in Volumes /\ cmd \in CopyCmds /\ Kept \in Nat /\ fds = Kept + 0
      /\ cmd.src \in Paths
  BY CmdKinds, KeptIs DEF DeleteSource, CmdInv, OfCommand
<1>2. /\ fs' = fs_delete(fs, cmd.src) /\ Synced /\ fds' = fds /\ held' = held
      /\ cmd' = [cmd EXCEPT !.pc = "done", !.rc = 0]
  BY DEF DeleteSource, Done
<1>3. fs' \in Volumes /\ HostMoves
  BY <1>1, <1>2, DeleteVolume, SyncedMoves
<1>4. cmd' \in CopyCmds /\ cmd'.pc = "done"
  BY <1>1, <1>2 DEF CopyCmds
<1> QED BY <1>1, <1>2, <1>3, <1>4, NextCmd

\* ---- Commands with arguments ----

LEMMA PrefixIs ==
  ASSUME NEW A, NEW s \in Seq(A), NEW t \in Seq(A)
  PROVE  IsPrefix(s, t) <=> Len(s) <= Len(t) /\ \A k \in 1 .. Len(s) : s[k] = t[k]
<1> DEFINE m == Len(s)
<1>1. m \in Nat /\ Len(t) \in Nat
  OBVIOUS
<1>2. \A u \in Seq(A) : m <= Len(u) =>
        /\ SubSeq(u, 1, m) \in Seq(A) /\ Len(SubSeq(u, 1, m)) = m
        /\ \A k \in 1 .. m : SubSeq(u, 1, m)[k] = u[k]
  <2> TAKE u \in Seq(A)
  <2> HAVE m <= Len(u)
  <2>1. \A k \in 1 .. m : u[k] \in A
    BY <1>1
  <2> HIDE DEF m
  <2>2. /\ SubSeq(u, 1, m) \in Seq(A)
        /\ Len(SubSeq(u, 1, m)) = IF 1 <= m THEN m - 1 + 1 ELSE 0
        /\ \A k \in 1 .. m - 1 + 1 : SubSeq(u, 1, m)[k] = u[1 + k - 1]
    BY <1>1, <2>1, SubSeqProperties
  <2> QED BY <1>1, <2>2
<1>3. IsPrefix(s, t) <=> m <= Len(t) /\ SubSeq(s, 1, m) = SubSeq(t, 1, m)
  BY DEF IsPrefix
<1> HIDE DEF m
<1>4. m <= Len(t) => (SubSeq(s, 1, m) = SubSeq(t, 1, m) <=> \A k \in 1 .. m : s[k] = t[k])
  <2> HAVE m <= Len(t)
  <2>1. /\ SubSeq(s, 1, m) \in Seq(A) /\ Len(SubSeq(s, 1, m)) = m
        /\ \A k \in 1 .. m : SubSeq(s, 1, m)[k] = s[k]
    BY <1>1, <1>2 DEF m
  <2>2. /\ SubSeq(t, 1, m) \in Seq(A) /\ Len(SubSeq(t, 1, m)) = m
        /\ \A k \in 1 .. m : SubSeq(t, 1, m)[k] = t[k]
    BY <1>1, <1>2
  <2> DEFINE a == SubSeq(s, 1, m)
             b == SubSeq(t, 1, m)
  <2> HIDE DEF a, b
  <2>3. a \in Seq(A) /\ b \in Seq(A) /\ Len(a) = m /\ Len(b) = m
        /\ \A k \in 1 .. m : a[k] = s[k] /\ b[k] = t[k]
    BY <2>1, <2>2 DEF a, b
  <2>4. a = b <=> \A k \in 1 .. m : a[k] = b[k]
    BY <1>1, <2>3
  <2>5. a = b <=> \A k \in 1 .. m : s[k] = t[k]
    BY <2>3, <2>4
  <2> QED BY <2>5 DEF a, b
<1> QED BY <1>3, <1>4 DEF m

Removing(op) == op \in {"rm", "rm_r"}

Whats(op) == CASE op = "touch" -> {"touch"}
               [] op = "rm" -> {"rm"}
               [] op = "rm_r" -> {"rm_r", "rmdir"}
               [] op = "mkdir" -> {"mkdir"}
               [] op = "mkdir_p" -> {"mkdir", "stat"}

\* What is done for the argument a is done at it, on the way to it or below it.
Near(op, p, a) == p = a \/ (op = "mkdir_p" /\ IsPrefix(p, a)) \/ (op = "rm_r" /\ IsPrefix(a, p))

\* The argument that is dealt with.
At == Len(cmd.args) - Len(cmd.rest)

IsDone(p) == namei(fs, p) = NONE <=> Removing(cmd.op)

\* mkdir says that it made a directory when no block was left for its entry.
NoRoom == cmd.op = "mkdir" /\ ~ (Room(fs) > 0)

\* Of todo, all is part of the argument, and the last decides.
OfArgument(todo) ==
  /\ \A k \in 1 .. Len(todo) :
       todo[k].what \in Whats(cmd.op) /\ Near(cmd.op, todo[k].path, cmd.args[At])
  /\ todo # << >> => /\ todo[Len(todo)].path = cmd.args[At] /\ todo[Len(todo)].must
                     /\ cmd.op = "mkdir_p" => todo[Len(todo)].what = "stat"

ListInv ==
  cmd \in ListCmds =>
    /\ At \in 0 .. Len(cmd.args)
    /\ \A k \in 1 .. Len(cmd.rest) : cmd.rest[k] = cmd.args[At + k]
    /\ cmd.rc = 0 =>
         NoRoom \/ \A i \in 1 .. At : i # At \/ cmd.todo = << >> => IsDone(cmd.args[i])
    /\ cmd.op = "mkdir" => Len(cmd.args) = 1
    /\ cmd.todo # << >> => At # 0
    /\ OfArgument(cmd.todo)
    /\ cmd.pc = "done" => cmd.rest = << >> /\ cmd.todo = << >>

\* The volume after a call for the item, and what its success means.
Effect(item, ok) ==
  /\ item.what \in {"touch", "mkdir"} =>
       /\ Grows(fs, fs')
       /\ ok => namei(fs', item.path) # NONE \/ (item.what = "mkdir" /\ ~ (Room(fs') > 0))
  /\ item.what \in {"rm", "rm_r", "rmdir"} =>
       Grows(fs', fs) /\ (ok => namei(fs', item.path) = NONE)
  /\ item.what = "stat" => fs' = fs /\ (ok => namei(fs', item.path) # NONE)

LEMMA DoItemIs ==
  ASSUME CmdInv, DoItem
  PROVE  LET item == Head(cmd.todo)
         IN  /\ cmd \in ListCmds /\ cmd.pc = "list" /\ cmd.todo # << >> /\ item \in ToDo
             /\ fs' \in Volumes /\ HostMoves /\ UNCHANGED <<fds, held>>
             /\ \/ \E ok \in BOOLEAN : Outcome(ok, item) /\ Effect(item, ok)
                \/ item.what = "rm_r" /\ Descend(item.path)
<1> DEFINE item == Head(cmd.todo)
           p == item.path
<1>1. /\ fs \in Volumes /\ cmd \in ListCmds /\ cmd.pc = "list" /\ cmd.todo # << >>
      /\ UNCHANGED <<fds, held>>
  BY CmdKinds DEF DoItem, CmdInv
<1>2. item \in ToDo
  <2>1. cmd.todo \in Seq(ToDo)
    BY <1>1 DEF ListCmds
  <2> QED BY <1>1, <2>1
<1>3. p \in Paths
  <2> HIDE DEF item
  <2> QED BY <1>2 DEF ToDo
<1>4. \/ item.what = "touch" /\ Call(Make(fs, p, File), item)
      \/ item.what = "mkdir" /\ Call(Make(fs, p, Dir), item)
      \/ item.what = "rm" /\ Call(fs_delete(fs, p), item)
      \/ item.what = "rm_r" /\ Call(fs_delete(fs, p), item)
      \/ item.what = "rm_r" /\ Descend(p)
      \/ item.what = "rmdir" /\ Call(fs_rmdir(fs, p), item)
      \/ item.what = "stat" /\ Outcome(namei(fs, p) # NONE, item) /\ UNCHANGED <<fs, host>>
  BY DEF DoItem
<1> HIDE DEF item
<1>5. ASSUME NEW node \in {File, Dir}, item.what \in {"touch", "mkdir"}, Call(Make(fs, p, node), item),
             node = Dir => item.what = "mkdir"
      PROVE  /\ fs' \in Volumes /\ HostMoves
             /\ \E ok \in BOOLEAN : Outcome(ok, item) /\ Effect(item, ok)
  <2>1. fs' = Make(fs, p, node) /\ Synced /\ Outcome(fs' # fs, item)
    BY <1>5 DEF Call
  <2>2. /\ fs' \in Volumes /\ Grows(fs, fs')
        /\ fs' # fs => namei(fs', p) # NONE \/ (node.kind = "dir" /\ ~ (Room(fs') > 0))
    BY <1>1, <1>3, <2>1, MakeVolume, PathTypes
  <2>3. HostMoves
    BY <2>1, SyncedMoves
  <2>5. node.kind = "dir" => item.what = "mkdir"
    BY <1>5, PathTypes
  <2>4. Effect(item, fs' # fs)
    BY <1>5, <2>2, <2>5 DEF Effect
  <2> QED BY <2>1, <2>2, <2>3, <2>4
<1>6. ASSUME NEW g \in {fs_delete(fs, p), fs_rmdir(fs, p)}, item.what \in {"rm", "rm_r", "rmdir"},
             Call(g, item)
      PROVE  /\ fs' \in Volumes /\ HostMoves
             /\ \E ok \in BOOLEAN : Outcome(ok, item) /\ Effect(item, ok)
  <2>1. fs' = g /\ Synced /\ Outcome(fs' # fs, item)
    BY <1>6 DEF Call
  <2>2. fs' \in Volumes /\ Removes(fs, fs', p)
    BY <1>1, <1>3, <2>1, DeleteVolume, RmdirVolume
  <2>3. Grows(fs', fs) /\ (fs' # fs => namei(fs', p) = NONE)
    BY <1>1, <1>3, <2>2, RemovesNames
  <2>4. HostMoves
    BY <2>1, SyncedMoves
  <2>5. Effect(item, fs' # fs)
    BY <1>6, <2>3 DEF Effect
  <2> QED BY <2>1, <2>2, <2>4, <2>5
<1>7. CASE item.what = "rm_r" /\ Descend(p)
  BY <1>1, <1>2, <1>7, SameTreeIs DEF Descend, item, HostMoves
<1>8. CASE item.what = "stat" /\ Outcome(namei(fs, p) # NONE, item) /\ UNCHANGED <<fs, host>>
  <2>1. Effect(item, namei(fs, p) # NONE)
    BY <1>8 DEF Effect
  <2>2. HostMoves /\ fs' \in Volumes
    BY <1>1, <1>8, SameTreeIs DEF HostMoves
  <2> QED BY <1>1, <1>2, <1>8, <2>1, <2>2 DEF item
<1>9. File # Dir
  BY PathTypes
<1> QED BY <1>1, <1>2, <1>4, <1>5, <1>6, <1>7, <1>8, <1>9 DEF item

LEMMA SeqIs ==
  ASSUME NEW A, NEW s \in Seq(A)
  PROVE  Len(s) \in Nat /\ \A i \in 1 .. Len(s) : s[i] \in A
OBVIOUS

LEMMA TailIs ==
  ASSUME NEW A, NEW s \in Seq(A), s # << >>
  PROVE  /\ Len(s) \in Nat \ {0} /\ Head(s) = s[1] /\ Head(s) \in A
         /\ Tail(s) \in Seq(A) /\ Len(Tail(s)) = Len(s) - 1
         /\ \A k \in 1 .. Len(s) - 1 : Tail(s)[k] = s[k + 1]
         /\ Tail(s) = << >> <=> Len(s) = 1
         /\ Tail(s) # << >> => Tail(s)[Len(Tail(s))] = s[Len(s)]
<1>1. /\ Len(s) \in Nat \ {0} /\ Head(s) = s[1] /\ Head(s) \in A
      /\ Tail(s) \in Seq(A) /\ Len(Tail(s)) = Len(s) - 1
      /\ \A k \in 1 .. Len(s) - 1 : Tail(s)[k] = s[k + 1]
  OBVIOUS
<1> DEFINE t == Tail(s)
           n == Len(s)
<1> HIDE DEF t, n
<1>2. t \in Seq(A) /\ Len(t) = n - 1 /\ n \in Nat \ {0} /\ \A k \in 1 .. n - 1 : t[k] = s[k + 1]
  BY <1>1 DEF t, n
<1>3. t = << >> <=> Len(t) = 0
  BY <1>2
<1>4. t # << >> => n - 1 \in 1 .. n - 1
  BY <1>2, <1>3
<1> QED BY <1>1, <1>2, <1>3, <1>4 DEF t, n

\* A step of a command with arguments that does something or nothing for the first item.
LEMMA OutcomeList ==
  ASSUME CmdInv, ListInv, cmd \in ListCmds, cmd.pc = "list", cmd.todo # << >>,
         fs' \in Volumes, NEW ok \in BOOLEAN, Outcome(ok, Head(cmd.todo)), Effect(Head(cmd.todo), ok)
  PROVE  cmd' \in ListCmds /\ cmd'.pc = "list" /\ ListInv'
<1> DEFINE todo == cmd.todo
           item == Head(todo)
           n == At
           a == cmd.args[n]
<1>1. /\ fs \in Volumes /\ cmd.op \in {"touch", "rm", "rm_r", "mkdir", "mkdir_p"}
      /\ cmd.args \in Seq(Path) /\ cmd.rest \in Seq(Path) /\ todo \in Seq(ToDo) /\ cmd.rc \in {0, -1}
  BY DEF CmdInv, ListCmds
<1>2. /\ n \in 0 .. Len(cmd.args) /\ n # 0
      /\ \A k \in 1 .. Len(cmd.rest) : cmd.rest[k] = cmd.args[n + k]
      /\ cmd.rc = 0 => NoRoom \/ \A i \in 1 .. n : i # n => IsDone(cmd.args[i])
      /\ cmd.op = "mkdir" => Len(cmd.args) = 1
      /\ OfArgument(todo)
  BY DEF ListInv
<1>3. n \in Nat /\ n \in 1 .. n /\ n <= Len(cmd.args) /\ Len(cmd.args) \in Nat
  <2>1. Len(cmd.args) \in Nat
    BY <1>1, SeqIs
  <2> HIDE DEF n
  <2> QED BY <1>2, <2>1
<1>4. /\ Len(todo) \in Nat \ {0} /\ item = todo[1] /\ item \in ToDo
      /\ Tail(todo) \in Seq(ToDo) /\ Len(Tail(todo)) = Len(todo) - 1
      /\ \A k \in 1 .. Len(todo) - 1 : Tail(todo)[k] = todo[k + 1]
      /\ Tail(todo) = << >> <=> Len(todo) = 1
      /\ Tail(todo) # << >> => Tail(todo)[Len(Tail(todo))] = todo[Len(todo)]
  BY <1>1, TailIs
<1> HIDE DEF n, a, todo, item
<1>12. cmd.rc = 0 => \A i \in 1 .. n : i # n => IsDone(cmd.args[i])
  <2>1. ASSUME cmd.op = "mkdir"
        PROVE  n = 1
    <3>1. Len(cmd.args) = 1
      BY <1>2, <2>1
    <3> QED BY <1>3, <3>1
  <2> QED BY <1>2, <2>1 DEF NoRoom
<1>5. item.what \in Whats(cmd.op)
  <2>1. 1 \in 1 .. Len(todo)
    BY <1>4
  <2> QED BY <1>2, <1>4, <2>1 DEF OfArgument
<1>6. ASSUME NEW q \in Path, IsDone(q)
      PROVE  namei(fs', q) = NONE <=> Removing(cmd.op)
  <2>1. q \in Seq(Name) /\ (namei(fs, q) = NONE <=> Removing(cmd.op))
    BY <1>6, PathTypes DEF IsDone
  <2>2. CASE cmd.op \in {"rm", "rm_r"}
    <3>1. item.what \in {"rm", "rm_r", "rmdir"}
      BY <1>5, <2>2 DEF Whats
    <3>2. Grows(fs', fs)
      BY <3>1 DEF Effect, item, todo
    <3> QED BY <1>1, <2>1, <2>2, <3>2, GrowsNamei DEF Grows, Removing
  <2>3. CASE cmd.op \in {"touch", "mkdir", "mkdir_p"}
    <3>1. item.what \in {"touch", "mkdir", "stat"}
      BY <1>5, <2>3 DEF Whats
    <3>2. Grows(fs, fs') \/ fs' = fs
      BY <3>1 DEF Effect, item, todo
    <3> QED BY <1>1, <2>1, <2>3, <3>2, GrowsNamei DEF Grows, Removing
  <2> QED BY <1>1, <2>2, <2>3
<1>7. \A i \in 1 .. n : cmd.args[i] \in Path
  <2>1. \A i \in 1 .. n : i \in 1 .. Len(cmd.args)
    BY <1>3
  <2> QED BY <1>1, <2>1, SeqIs
\* The last item decides.
<1>8. ASSUME Tail(todo) = << >>, ok
      PROVE  (namei(fs', a) = NONE <=> Removing(cmd.op)) \/ (cmd.op = "mkdir" /\ ~ (Room(fs') > 0))
  <2>1. item.path = a /\ (cmd.op = "mkdir_p" => item.what = "stat")
    BY <1>2, <1>4, <1>8 DEF OfArgument, a, n, todo
  <2>2. CASE cmd.op \in {"rm", "rm_r"}
    <3>1. item.what \in {"rm", "rm_r", "rmdir"}
      BY <1>5, <2>2 DEF Whats
    <3> QED BY <1>8, <2>1, <2>2, <3>1 DEF Effect, item, todo, Removing
  <2>3. CASE cmd.op \in {"touch", "mkdir", "mkdir_p"}
    <3>1. item.what \in {"touch", "mkdir", "stat"} /\ (item.what = "mkdir" => cmd.op = "mkdir")
      BY <1>5, <2>1, <2>3 DEF Whats
    <3> QED BY <1>8, <2>1, <2>3, <3>1 DEF Effect, item, todo, Removing
  <2> QED BY <1>1, <2>2, <2>3
<1>9. ASSUME NEW t \in Seq(ToDo), NEW r \in {0, -1}, cmd' = [cmd EXCEPT !.todo = t, !.rc = r],
             OfArgument(t),
             r = 0 => /\ cmd.rc = 0
                      /\ t = << >> => \/ namei(fs', a) = NONE <=> Removing(cmd.op)
                                      \/ cmd.op = "mkdir" /\ ~ (Room(fs') > 0)
      PROVE  cmd' \in ListCmds /\ cmd'.pc = "list" /\ ListInv'
  <2>1. /\ cmd' \in ListCmds /\ cmd'.pc = "list" /\ cmd'.op = cmd.op /\ cmd'.args = cmd.args
        /\ cmd'.rest = cmd.rest /\ cmd'.todo = t /\ cmd'.rc = r
    BY <1>9 DEF ListCmds
  <2>2. At' = n
    BY <2>1 DEF At, n
  <2>3. \A q : IsDone(q)' <=> (namei(fs', q) = NONE <=> Removing(cmd.op))
    BY <2>1 DEF IsDone
  <2>4. OfArgument(t)'
    BY <1>9, <2>1, <2>2 DEF OfArgument, n
  <2>5. r = 0 => NoRoom' \/ \A i \in 1 .. n : i # n \/ t = << >> => IsDone(cmd.args[i])'
    <3> SUFFICES ASSUME r = 0, ~ NoRoom', NEW i \in 1 .. n, i # n \/ t = << >>
                 PROVE  namei(fs', cmd.args[i]) = NONE <=> Removing(cmd.op)
      BY <2>1, <2>3
    <3>1. CASE i # n
      BY <1>6, <1>7, <1>9, <1>12, <3>1
    <3>2. CASE i = n
      <4>1. ~ (cmd.op = "mkdir" /\ ~ (Room(fs') > 0))
        BY <2>1 DEF NoRoom
      <4> QED BY <1>9, <3>2, <4>1 DEF a
    <3> QED BY <3>1, <3>2
  <2> QED BY <1>2, <1>9, <2>1, <2>2, <2>4, <2>5 DEF ListInv
<1>10. CASE ok \/ ~ item.must
  <2>1. cmd' = [cmd EXCEPT !.todo = Tail(todo)]
    BY <1>10 DEF Outcome, item, todo
  <2>2. cmd' = [cmd EXCEPT !.todo = Tail(todo), !.rc = cmd.rc]
    BY <1>1, <2>1 DEF ListCmds
  <2>3. OfArgument(Tail(todo))
    <3>1. \A k \in 1 .. Len(todo) - 1 : k + 1 \in 1 .. Len(todo)
      BY <1>4
    <3> QED BY <1>2, <1>4, <3>1 DEF OfArgument
  <2>4. Tail(todo) = << >> => ok
    <3>1. Tail(todo) = << >> => item.must
      BY <1>2, <1>4 DEF OfArgument, todo
    <3> QED BY <1>10, <3>1
  <2> QED BY <1>1, <1>4, <1>8, <1>9, <2>2, <2>3, <2>4
<1>11. CASE ~ (ok \/ ~ item.must)
  <2> DEFINE e == << >>
  <2>1. cmd' = [cmd EXCEPT !.todo = e, !.rc = -1]
    BY <1>11 DEF Outcome, item, todo
  <2>2. e \in Seq(ToDo) /\ OfArgument(e)
    BY EmptySeq DEF OfArgument
  <2> HIDE DEF e
  <2>3. -1 \in {0, -1} /\ -1 # 0
    OBVIOUS
  <2> QED BY <1>9, <2>1, <2>2, <2>3
<1> QED BY <1>10, <1>11

LEMMA JoinIs ==
  ASSUME NEW A, NEW s \in Seq(A), NEW t \in Seq(A)
  PROVE  /\ s \o t \in Seq(A) /\ Len(s \o t) = Len(s) + Len(t)
         /\ \A k \in 1 .. Len(s \o t) : (s \o t)[k] = IF k <= Len(s) THEN s[k] ELSE t[k - Len(s)]
OBVIOUS

\* A directory is put off until what is in it is done.
LEMMA DescendList ==
  ASSUME CmdInv, ListInv, cmd \in ListCmds, cmd.pc = "list", cmd.todo # << >>,
         Head(cmd.todo).what = "rm_r", Descend(Head(cmd.todo).path)
  PROVE  cmd' \in ListCmds /\ cmd'.pc = "list" /\ ListInv'
<1> DEFINE todo == cmd.todo
           item == Head(todo)
           p == item.path
           a == cmd.args[At]
<1>1. /\ fs \in Volumes /\ cmd.op \in {"touch", "rm", "rm_r", "mkdir", "mkdir_p"}
      /\ cmd.args \in Seq(Path) /\ todo \in Seq(ToDo) /\ cmd.rc \in {0, -1}
  BY DEF CmdInv, ListCmds
<1>2. /\ At \in 0 .. Len(cmd.args) /\ At # 0 /\ OfArgument(todo)
      /\ \A k \in 1 .. Len(cmd.rest) : cmd.rest[k] = cmd.args[At + k]
      /\ cmd.rc = 0 => NoRoom \/ \A i \in 1 .. At : i # At => IsDone(cmd.args[i])
  BY DEF ListInv
<1>3. /\ Len(todo) \in Nat \ {0} /\ item = todo[1] /\ item \in ToDo
      /\ Tail(todo) \in Seq(ToDo) /\ Len(Tail(todo)) = Len(todo) - 1
      /\ \A k \in 1 .. Len(todo) - 1 : Tail(todo)[k] = todo[k + 1]
      /\ Tail(todo) = << >> <=> Len(todo) = 1
      /\ Tail(todo) # << >> => Tail(todo)[Len(Tail(todo))] = todo[Len(todo)]
  BY <1>1, TailIs
<1>4. item.what = "rm_r"
  OBVIOUS
<1>5. PICK order \in SetToSeqs(Children(fs, p)) :
        /\ cmd' = [cmd EXCEPT !.todo =
                     [k \in DOMAIN order |-> Item("rm_r", ChildPath(p, order[k]), TRUE)]
                       \o <<Item("rmdir", p, TRUE)>> \o Tail(@)]
        /\ fs' = fs
  BY DEF Descend
<1> HIDE DEF item, todo, a
<1>6. p \in Paths /\ p \in Seq(Name)
  BY <1>3, PathTypes DEF ToDo
<1>7. cmd.op = "rm_r"
  <2>1. 1 \in 1 .. Len(todo)
    BY <1>3
  <2>2. item.what \in Whats(cmd.op)
    BY <1>2, <1>3, <2>1 DEF OfArgument
  <2> QED BY <1>1, <1>4, <2>2 DEF Whats
<1>8. a \in Seq(Name) /\ IsPrefix(a, p)
  <2>1. Len(cmd.args) \in Nat /\ At \in 1 .. Len(cmd.args)
    BY <1>1, <1>2, SeqIs
  <2>2. a \in Seq(Name)
    BY <1>1, <2>1, SeqIs, PathTypes DEF a
  <2>3. 1 \in 1 .. Len(todo)
    BY <1>3
  <2>4. Near(cmd.op, p, a)
    BY <1>2, <1>3, <2>3 DEF OfArgument, a
  <2>5. IsPrefix(p, p)
    BY <1>6, PrefixIs
  <2> QED BY <1>7, <2>2, <2>4, <2>5 DEF Near
<1> DEFINE n == Len(order)
           C == [k \in DOMAIN order |-> Item("rm_r", ChildPath(p, order[k]), TRUE)]
           D == <<Item("rmdir", p, TRUE)>>
           t == (C \o D) \o Tail(todo)
<1>9. order \in Seq(Name)
  <2> DEFINE S == Children(fs, p)
  <2>1. S \subseteq Name /\ Cardinality(S) \in Nat
    BY PathTypes, FS_Subset, FS_CardinalityType DEF Children
  <2> HIDE DEF S
  <2>2. order \in [1 .. Cardinality(S) -> S]
    BY DEF SetToSeqs, S
  <2>3. order \in Seq(S)
    BY <2>1, <2>2
  <2> QED BY <2>1, <2>3
<1>10. n \in Nat /\ DOMAIN order = 1 .. n /\ \A k \in 1 .. n : order[k] \in Name
  BY <1>9
<1> HIDE DEF n
<1>11. \A k \in 1 .. n : ChildPath(p, order[k]) \in Paths /\ IsPrefix(a, ChildPath(p, order[k]))
  <2> TAKE k \in 1 .. n
  <2> DEFINE q == Append(p, order[k])
  <2>1. /\ q \in Seq(Name) /\ Len(q) = Len(p) + 1 /\ Len(p) \in Nat
        /\ \A j \in 1 .. Len(p) : q[j] = p[j]
    BY <1>6, <1>10
  <2>2. q = ChildPath(p, order[k])
    BY DEF ChildPath
  <2> HIDE DEF q
  <2>3. q # << >>
    BY <2>1
  <2>4. Len(a) <= Len(p) /\ Len(a) \in Nat /\ \A j \in 1 .. Len(a) : a[j] = p[j]
    BY <1>6, <1>8, PrefixIs
  <2>5. IsPrefix(a, q)
    <3>1. Len(a) <= Len(q) /\ \A j \in 1 .. Len(a) : a[j] = q[j]
      BY <2>1, <2>4
    <3> QED BY <1>8, <2>1, <3>1, PrefixIs
  <2> QED BY <2>1, <2>2, <2>3, <2>5 DEF Paths
<1>12. C \in Seq(ToDo) /\ Len(C) = n
       /\ \A k \in 1 .. n : C[k].what = "rm_r" /\ IsPrefix(a, C[k].path)
  <2>1. \A k \in 1 .. n : /\ C[k] = Item("rm_r", ChildPath(p, order[k]), TRUE)
                          /\ C[k] \in ToDo /\ C[k].what = "rm_r"
                          /\ C[k].path = ChildPath(p, order[k])
    BY <1>10, <1>11 DEF Item, ToDo
  <2>2. C \in [1 .. n -> ToDo]
    <3>1. C = [k \in 1 .. n |-> C[k]]
      BY <1>10
    <3> HIDE DEF C
    <3> QED BY <2>1, <3>1
  <2> HIDE DEF C
  <2>3. C \in Seq(ToDo) /\ Len(C) = n
    BY <1>10, <2>2
  <2> QED BY <1>11, <2>1, <2>3
<1>13. D \in Seq(ToDo) /\ Len(D) = 1 /\ D[1].what = "rmdir" /\ D[1].path = p /\ D[1].must
  BY <1>6 DEF Item, ToDo
<1>14. cmd' = [cmd EXCEPT !.todo = t]
  BY <1>5 DEF todo
<1> HIDE DEF C, D
<1> DEFINE b == C \o D
<1>15. /\ b \in Seq(ToDo) /\ Len(b) = n + 1
       /\ \A k \in 1 .. n + 1 : b[k] = IF k <= n THEN C[k] ELSE D[k - n]
  <2>1. C \in Seq(ToDo) /\ D \in Seq(ToDo) /\ Len(C) = n /\ Len(D) = 1
    BY <1>12, <1>13
  <2>2. /\ b \in Seq(ToDo) /\ Len(b) = Len(C) + Len(D)
        /\ \A k \in 1 .. Len(b) : b[k] = IF k <= Len(C) THEN C[k] ELSE D[k - Len(C)]
    BY <2>1, JoinIs, Zenon
  <2> HIDE DEF b
  <2> QED BY <2>1, <2>2
<1>16. \A k \in 1 .. n + 1 : b[k].what \in {"rm_r", "rmdir"} /\ IsPrefix(a, b[k].path)
  <2> TAKE k \in 1 .. n + 1
  <2>1. CASE k <= n
    <3>1. k \in 1 .. n
      BY <1>10, <2>1
    <3> QED BY <1>12, <1>15, <3>1, <2>1
  <2>2. CASE k > n
    <3>1. k = n + 1 /\ ~ (k <= n) /\ k - n = 1
      BY <1>10, <2>2
    <3> QED BY <1>8, <1>13, <1>15, <3>1
  <2>3. k <= n \/ k > n
    BY <1>10
  <2> QED BY <2>1, <2>2, <2>3
<1>17. b[n + 1] = D[1]
  <2>1. n + 1 \in 1 .. n + 1 /\ ~ (n + 1 <= n) /\ (n + 1) - n = 1
    BY <1>10
  <2> QED BY <1>15, <2>1
<1> HIDE DEF b
<1> DEFINE m == Len(Tail(todo))
<1>18. m \in Nat /\ m = Len(todo) - 1
  BY <1>3
<1>19. /\ t = b \o Tail(todo) /\ t \in Seq(ToDo) /\ Len(t) = n + 1 + m
       /\ \A k \in 1 .. n + 1 + m : t[k] = IF k <= n + 1 THEN b[k] ELSE Tail(todo)[k - (n + 1)]
  <2>1. t = b \o Tail(todo)
    BY DEF b
  <2> DEFINE z == Tail(todo)
  <2>2. z \in Seq(ToDo) /\ Len(z) = m
    BY <1>3
  <2> HIDE DEF z, t, m
  <2>3. /\ b \o z \in Seq(ToDo) /\ Len(b \o z) = Len(b) + Len(z)
        /\ \A k \in 1 .. Len(b \o z) : (b \o z)[k] = IF k <= Len(b) THEN b[k] ELSE z[k - Len(b)]
    BY <1>15, <2>2, JoinIs
  <2>4. t = b \o z
    BY <2>1 DEF z
  <2>5. t \in Seq(ToDo) /\ Len(t) = n + 1 + m
    BY <1>15, <2>2, <2>3, <2>4
  <2>6. \A k \in 1 .. n + 1 + m : t[k] = IF k <= n + 1 THEN b[k] ELSE z[k - (n + 1)]
    BY <1>15, <2>2, <2>3, <2>4, Zenon
  <2> QED BY <2>1, <2>5, <2>6 DEF z
<1> HIDE DEF t, m
<1>20. OfArgument(t)
  <2>1. ASSUME NEW k \in 1 .. n + 1 + m
        PROVE  t[k].what \in Whats(cmd.op) /\ Near(cmd.op, t[k].path, a)
    <3>1. CASE k <= n + 1
      <4>1. k \in 1 .. n + 1
        BY <1>10, <1>18, <3>1
      <4>2. t[k] = b[k]
        BY <1>19, <3>1
      <4> QED BY <1>7, <1>16, <4>1, <4>2 DEF Whats, Near
    <3>2. CASE k > n + 1
      <4>1. k - (n + 1) \in 1 .. Len(todo) - 1 /\ (k - (n + 1)) + 1 \in 1 .. Len(todo)
            /\ ~ (k <= n + 1)
        BY <1>10, <1>18, <3>2
      <4>2. t[k] = todo[(k - (n + 1)) + 1]
        BY <1>3, <1>19, <4>1
      <4> QED BY <1>2, <4>1, <4>2 DEF OfArgument, a
    <3> QED BY <1>10, <3>1, <3>2
  <2>2. t[Len(t)].path = a /\ t[Len(t)].must
    <3>1. CASE Tail(todo) = << >>
      <4>1. m = 0 /\ Len(t) = n + 1 /\ Len(t) \in 1 .. n + 1 + m /\ Len(todo) = 1
        BY <1>3, <1>10, <1>18, <1>19, <3>1
      <4>2. t[Len(t)] = b[n + 1]
        <5>1. n + 1 <= n + 1
          BY <1>10
        <5> QED BY <1>19, <4>1, <5>1
      <4>3. p = a
        BY <1>2, <1>3, <4>1 DEF OfArgument, a, todo
      <4> QED BY <1>13, <1>17, <4>2, <4>3
    <3>2. CASE Tail(todo) # << >>
      <4>1. m # 0
        BY <1>3, <1>18, <3>2
      <4>2. Len(t) \in 1 .. n + 1 + m /\ ~ (Len(t) <= n + 1) /\ Len(t) - (n + 1) = m
        <5>1. Len(t) = n + 1 + m
          BY <1>19
        <5>2. n \in Nat /\ m \in Nat
          BY <1>10, <1>18
        <5> QED BY <4>1, <5>1, <5>2
      <4>3. t[Len(t)] = todo[Len(todo)]
        BY <1>3, <1>19, <3>2, <4>2 DEF m
      <4>4. todo # << >>
        BY DEF todo
      <4> QED BY <1>2, <4>3, <4>4 DEF OfArgument, a
    <3> QED BY <3>1, <3>2
  <2> QED BY <1>7, <1>19, <2>1, <2>2 DEF OfArgument, a
<1>21. ASSUME NEW u \in Seq(ToDo), u = t
       PROVE  cmd' \in ListCmds /\ cmd'.pc = "list" /\ ListInv'
  <2>1. /\ cmd' \in ListCmds /\ cmd'.pc = "list" /\ cmd'.op = cmd.op /\ cmd'.args = cmd.args
        /\ cmd'.rest = cmd.rest /\ cmd'.todo = u /\ cmd'.rc = cmd.rc
    BY <1>14, <1>21 DEF ListCmds
  <2>2. At' = At
    BY <2>1 DEF At
  <2>3. \A q : IsDone(q)' <=> IsDone(q)
    BY <1>5, <2>1 DEF IsDone
  <2>4. OfArgument(u)
    BY <1>20, <1>21
  <2>5. OfArgument(u)'
    BY <2>1, <2>2, <2>4 DEF OfArgument
  <2>6. u # << >>
    BY <1>10, <1>18, <1>19, <1>21
  <2>7. cmd.rc = 0 => \A i \in 1 .. At : i # At => IsDone(cmd.args[i])'
    BY <1>2, <1>7, <2>1, <2>3 DEF NoRoom
  <2> QED BY <1>2, <1>7, <2>1, <2>2, <2>5, <2>6, <2>7 DEF ListInv
<1> QED BY <1>19, <1>21

LEMMA StartOf ==
  ASSUME NEW p \in Paths, NEW k \in 1 .. Len(p)
  PROVE  SubSeq(p, 1, k) \in Paths /\ IsPrefix(SubSeq(p, 1, k), p)
<1> DEFINE n == Len(p)
           q == SubSeq(p, 1, k)
<1>1. p \in Seq(Name) /\ n \in Nat /\ k \in 1 .. n
  BY DEF Paths
<1>2. \A j \in 1 .. n : p[j] \in Name
  BY <1>1, SeqIs
<1> HIDE DEF n
<1>3. \A j \in 1 .. k : p[j] \in Name
  BY <1>1, <1>2
<1>4. /\ q \in Seq(Name)
      /\ Len(q) = IF 1 <= k THEN k - 1 + 1 ELSE 0
      /\ \A j \in 1 .. k - 1 + 1 : q[j] = p[1 + j - 1]
  BY <1>1, <1>3, SubSeqProperties
<1> HIDE DEF q
<1>5. Len(q) = k /\ \A j \in 1 .. k : q[j] = p[j]
  BY <1>1, <1>4
<1>6. q # << >>
  BY <1>1, <1>5
<1>7. IsPrefix(q, p)
  <2>1. Len(q) <= n /\ \A j \in 1 .. Len(q) : q[j] = p[j]
    BY <1>1, <1>5
  <2> QED BY <1>1, <1>4, <2>1, PrefixIs DEF n
<1> QED BY <1>4, <1>6, <1>7 DEF q, Paths

LEMMA ItemsAre ==
  ASSUME NEW op \in {"touch", "rm", "rm_r", "mkdir", "mkdir_p"}, NEW p \in Paths
  PROVE  LET todo == Items(op, p)
         IN  /\ todo \in Seq(ToDo) /\ Len(todo) \in Nat \ {0}
             /\ \A k \in 1 .. Len(todo) : todo[k].what \in Whats(op) /\ Near(op, todo[k].path, p)
             /\ todo[Len(todo)].path = p /\ todo[Len(todo)].must
             /\ op = "mkdir_p" => todo[Len(todo)].what = "stat"
<1> DEFINE todo == Items(op, p)
<1>1. CASE op # "mkdir_p"
  <2>1. todo = <<Item(op, p, TRUE)>>
    BY <1>1 DEF Items
  <2>2. Item(op, p, TRUE) \in ToDo /\ Item(op, p, TRUE).what = op
        /\ Item(op, p, TRUE).path = p /\ Item(op, p, TRUE).must
    BY <1>1 DEF Item, ToDo
  <2> DEFINE x == Item(op, p, TRUE)
  <2> HIDE DEF x, todo
  <2>5. x \in ToDo
    BY <2>2 DEF x
  <2>6. todo = <<x>>
    BY <2>1 DEF x
  <2>3. todo \in Seq(ToDo) /\ Len(todo) = 1 /\ todo[1] = x
    BY <2>5, <2>6
  <2>4. op \in Whats(op) /\ Near(op, p, p)
    BY <1>1 DEF Whats, Near
  <2>7. x.what = op /\ x.path = p /\ x.must
    BY <2>2 DEF x
  <2>8. \A k \in 1 .. Len(todo) : todo[k] = x
    BY <2>3
  <2>9. todo[Len(todo)] = x
    BY <2>3
  <2>10. \A k \in 1 .. Len(todo) : todo[k].what \in Whats(op) /\ Near(op, todo[k].path, p)
    BY <2>4, <2>7, <2>8
  <2> QED BY <1>1, <2>3, <2>7, <2>9, <2>10 DEF todo
<1>2. CASE op = "mkdir_p"
  <2> DEFINE n == Len(p)
             C == [k \in 1 .. n |-> Item("mkdir", SubSeq(p, 1, k), FALSE)]
             D == <<Item("stat", p, TRUE)>>
  <2>1. todo = C \o D
    BY <1>2 DEF Items
  <2>2. n \in Nat /\ p \in Seq(Name)
    BY DEF Paths
  <2>3. \A k \in 1 .. n : /\ C[k] \in ToDo /\ C[k].what = "mkdir"
                          /\ C[k].path = SubSeq(p, 1, k)
    BY StartOf DEF Item, ToDo
  <2>4. \A k \in 1 .. n : IsPrefix(C[k].path, p)
    BY <2>3, StartOf
  <2>5. C \in [1 .. n -> ToDo]
    <3>1. C = [k \in 1 .. n |-> C[k]]
      OBVIOUS
    <3> HIDE DEF C
    <3> QED BY <2>3, <3>1
  <2>6. D \in Seq(ToDo) /\ Len(D) = 1 /\ D[1].what = "stat" /\ D[1].path = p /\ D[1].must
    BY DEF Item, ToDo
  <2> HIDE DEF n, C, D, todo
  <2>7. C \in Seq(ToDo) /\ Len(C) = n
    BY <2>2, <2>5
  <2>8. /\ todo \in Seq(ToDo) /\ Len(todo) = n + 1
        /\ \A k \in 1 .. n + 1 : todo[k] = IF k <= n THEN C[k] ELSE D[k - n]
    BY <2>1, <2>6, <2>7, JoinIs, SMTT(30)
  <2>9. \A k \in 1 .. n : /\ todo[k].what = "mkdir" /\ IsPrefix(todo[k].path, p)
    <3> TAKE k \in 1 .. n
    <3>1. k \in 1 .. n + 1 /\ k <= n
      BY <2>2
    <3> QED BY <2>3, <2>4, <2>8, <3>1
  <2>10. todo[n + 1] = D[1]
    <3>1. n + 1 \in 1 .. n + 1 /\ ~ (n + 1 <= n) /\ (n + 1) - n = 1
      BY <2>2
    <3> QED BY <2>8, <3>1
  <2>11. \A k \in 1 .. n + 1 : k \in 1 .. n \/ k = n + 1
    BY <2>2
  <2>12. {"mkdir", "stat"} \subseteq Whats(op)
    BY <1>2 DEF Whats
  <2>13. \A k \in 1 .. n + 1 : todo[k].what \in Whats(op) /\ Near(op, todo[k].path, p)
    BY <1>2, <2>6, <2>9, <2>10, <2>11, <2>12 DEF Near
  <2> QED BY <2>2, <2>6, <2>8, <2>10, <2>13 DEF todo
<1> QED BY <1>1, <1>2

LEMMA NextArgList ==
  ASSUME CmdInv, ListInv, NextArg
  PROVE  cmd \in ListCmds /\ cmd' \in ListCmds /\ ListInv'
<1> DEFINE rest == cmd.rest
           n == At
<1>1. /\ cmd \in ListCmds /\ cmd.op \in {"touch", "rm", "rm_r", "mkdir", "mkdir_p"}
      /\ cmd.args \in Seq(Path) /\ rest \in Seq(Path) /\ cmd.rc \in {0, -1} /\ fs' = fs
      /\ cmd.pc = "list" /\ cmd.todo = << >>
  BY CmdKinds DEF NextArg, CmdInv, ListCmds
<1>2. /\ n \in 0 .. Len(cmd.args)
      /\ \A k \in 1 .. Len(rest) : rest[k] = cmd.args[n + k]
      /\ cmd.rc = 0 => NoRoom \/ \A i \in 1 .. n : IsDone(cmd.args[i])
      /\ cmd.op = "mkdir" => Len(cmd.args) = 1
      /\ OfArgument(cmd.todo)
  BY <1>1 DEF ListInv
<1>3. CASE rest = << >>
  <2>1. cmd' = [cmd EXCEPT !.pc = "done", !.rc = cmd.rc]
    BY <1>3 DEF NextArg, Done
  <2>2. /\ cmd' \in ListCmds /\ cmd'.pc = "done" /\ cmd'.op = cmd.op /\ cmd'.args = cmd.args
        /\ cmd'.rest = rest /\ cmd'.todo = cmd.todo /\ cmd'.rc = cmd.rc
    BY <1>1, <2>1 DEF ListCmds
  <2>3. At' = n
    BY <2>2 DEF At
  <2>4. \A q : IsDone(q)' <=> IsDone(q)
    BY <1>1, <2>2 DEF IsDone
  <2>5. OfArgument(cmd.todo)'
    BY <1>2, <2>2, <2>3 DEF OfArgument
  <2>6. cmd.rc = 0 => NoRoom' \/ \A i \in 1 .. n : IsDone(cmd.args[i])'
    BY <1>1, <1>2, <2>2, <2>4 DEF NoRoom
  <2> HIDE DEF n, rest
  <2>7. cmd'.todo = << >> /\ cmd'.rest = << >>
    BY <1>1, <1>3, <2>2
  <2> QED BY <1>1, <1>2, <1>3, <2>2, <2>3, <2>5, <2>6, <2>7 DEF ListInv
<1>4. CASE rest # << >>
  <2> DEFINE p == Head(rest)
  <2>1. cmd' = [cmd EXCEPT !.todo = Items(cmd.op, p), !.rest = Tail(rest)]
    BY <1>4 DEF NextArg
  <2>2. /\ Len(rest) \in Nat \ {0} /\ p = rest[1] /\ p \in Path
        /\ Tail(rest) \in Seq(Path) /\ Len(Tail(rest)) = Len(rest) - 1
        /\ \A k \in 1 .. Len(rest) - 1 : Tail(rest)[k] = rest[k + 1]
    BY <1>1, <1>4, TailIs
  <2>3. p \in Paths
    BY <2>2, PathTypes
  <2> HIDE DEF p
  <2>4. PICK u \in Seq(ToDo) :
          /\ u = Items(cmd.op, p) /\ Len(u) \in Nat \ {0}
          /\ \A k \in 1 .. Len(u) : u[k].what \in Whats(cmd.op) /\ Near(cmd.op, u[k].path, p)
          /\ u[Len(u)].path = p /\ u[Len(u)].must
          /\ cmd.op = "mkdir_p" => u[Len(u)].what = "stat"
    <3> DEFINE u == Items(cmd.op, p)
    <3>1. /\ u \in Seq(ToDo) /\ Len(u) \in Nat \ {0}
          /\ \A k \in 1 .. Len(u) : u[k].what \in Whats(cmd.op) /\ Near(cmd.op, u[k].path, p)
          /\ u[Len(u)].path = p /\ u[Len(u)].must
          /\ cmd.op = "mkdir_p" => u[Len(u)].what = "stat"
      BY <1>1, <2>3, ItemsAre
    <3>2. u = Items(cmd.op, p)
      OBVIOUS
    <3> HIDE DEF u
    <3> QED BY <3>1, <3>2
  <2>5. PICK r \in Seq(Path) : r = Tail(rest)
    BY <2>2
  <2>6. cmd' = [cmd EXCEPT !.todo = u, !.rest = r]
    BY <2>1, <2>4, <2>5, Zenon
  <2>7. /\ cmd' \in ListCmds /\ cmd'.pc = "list" /\ cmd'.op = cmd.op /\ cmd'.args = cmd.args
        /\ cmd'.rest = r /\ cmd'.todo = u /\ cmd'.rc = cmd.rc
    BY <1>1, <2>6 DEF ListCmds
  <2>8. Len(cmd.args) \in Nat /\ n = Len(cmd.args) - Len(rest)
    BY <1>1, SeqIs DEF At
  <2>9. At' = Len(cmd.args) - Len(r)
    BY <2>7 DEF At
  <2> HIDE DEF n, rest
  <2>10. At' = n + 1 /\ n + 1 \in 0 .. Len(cmd.args) /\ n + 1 # 0 /\ n \in Nat
    <3>1. Len(r) = Len(rest) - 1 /\ Len(rest) \in Nat \ {0}
      BY <2>2, <2>5
    <3>2. At' = Len(cmd.args) - Len(rest) + 1
      BY <2>8, <2>9, <3>1
    <3> QED BY <1>2, <2>8, <3>1, <3>2
  <2>11. p = cmd.args[n + 1]
    <3>1. 1 \in 1 .. Len(rest)
      BY <2>2
    <3> QED BY <1>2, <2>2, <3>1
  <2>12. \A k \in 1 .. Len(r) : r[k] = cmd.args[(n + 1) + k]
    <3> TAKE k \in 1 .. Len(r)
    <3>1. k \in 1 .. Len(rest) - 1 /\ k + 1 \in 1 .. Len(rest) /\ n + (k + 1) = (n + 1) + k
      <4>1. Len(r) = Len(rest) - 1 /\ Len(rest) \in Nat \ {0}
        BY <2>2, <2>5
      <4> QED BY <2>10, <4>1
    <3>2. r[k] = rest[k + 1]
      BY <2>2, <2>5, <3>1
    <3>3. rest[k + 1] = cmd.args[n + (k + 1)]
      BY <1>2, <3>1
    <3> QED BY <3>1, <3>2, <3>3
  <2>13. \A q : IsDone(q)' <=> IsDone(q)
    BY <1>1, <2>7 DEF IsDone
  <2>25. NoRoom' <=> NoRoom
    BY <1>1, <2>7 DEF NoRoom
  <2>14. cmd.rc = 0 => NoRoom' \/ \A i \in 1 .. n + 1 : i # n + 1 => IsDone(cmd.args[i])'
    <3> SUFFICES ASSUME cmd.rc = 0, ~ NoRoom, NEW i \in 1 .. n + 1, i # n + 1
                 PROVE  IsDone(cmd.args[i])'
      BY <2>25
    <3>1. i \in 1 .. n
      BY <2>10
    <3>2. IsDone(cmd.args[i])
      BY <1>2, <3>1
    <3> QED BY <2>7, <2>13, <3>2
  <2>15. u # << >>
    BY <2>4
  <2>16. OfArgument(u)'
    BY <2>4, <2>7, <2>10, <2>11 DEF OfArgument
  <2> DEFINE m == n + 1
  <2>17. At' = m /\ m \in 0 .. Len(cmd.args) /\ m # 0
    BY <2>10
  <2>18. \A k \in 1 .. Len(r) : r[k] = cmd.args[m + k]
    BY <2>12
  <2>19. cmd.rc = 0 => NoRoom' \/ \A i \in 1 .. m : i # m => IsDone(cmd.args[i])'
    BY <2>14
  <2> HIDE DEF m
  <2>20. At' \in 0 .. Len(cmd'.args) /\ \A k \in 1 .. Len(cmd'.rest) : cmd'.rest[k] = cmd'.args[At' + k]
    BY <2>7, <2>17, <2>18, Zenon
  <2>21. cmd'.rc = 0 => NoRoom' \/ \A i \in 1 .. At' : i # At' => IsDone(cmd.args[i])'
    BY <2>7, <2>17, <2>19, Zenon
  <2>22. OfArgument(cmd.todo)'
    BY <2>7, <2>16, Zenon
  <2>23. cmd'.todo # << >> /\ cmd'.pc # "done" /\ At' # 0
    BY <2>7, <2>15, <2>17
  <2>24. (cmd.rc = 0 =>
            NoRoom \/ \A i \in 1 .. At : i # At \/ cmd.todo = << >> => IsDone(cmd.args[i]))'
    BY <2>21, <2>23
  <2> QED BY <1>1, <1>2, <2>7, <2>20, <2>22, <2>23, <2>24 DEF ListInv
<1> QED BY <1>3, <1>4

\* ---- What every step keeps ----

CopySteps == OpenSource \/ CreateDest \/ OpenDest \/ Copy \/ CloseBoth \/ DeleteSource

\* A copy stays the same copy.
LEMMA CopyStays ==
  ASSUME CmdInv, CopySteps
  PROVE  /\ cmd \in CopyCmds /\ cmd'.op = cmd.op /\ cmd'.src = cmd.src /\ cmd'.dst = cmd.dst
         /\ cmd'.want = cmd.want /\ cmd'.saved = cmd.saved
<1>1. cmd \in CopyCmds
  BY CmdKinds DEF CopySteps, OpenSource, CreateDest, OpenDest, Copy, CloseBoth, DeleteSource
<1> DEFINE Stays == /\ cmd'.op = cmd.op /\ cmd'.src = cmd.src /\ cmd'.dst = cmd.dst
                    /\ cmd'.want = cmd.want /\ cmd'.saved = cmd.saved
<1>2. ASSUME NEW rc, Done(rc)
      PROVE  Stays
  BY <1>1, <1>2 DEF Done, CopyCmds
<1>3. ASSUME NEW pc, NEW i,
             \/ cmd' = [cmd EXCEPT !.pc = pc] \/ cmd' = [cmd EXCEPT !.pc = pc, !.s = i]
             \/ cmd' = [cmd EXCEPT !.pc = pc, !.d = i]
      PROVE  Stays
  BY <1>1, <1>3 DEF CopyCmds
<1>4. ASSUME NEW r, NEW w, cmd' = [cmd EXCEPT !.rpos = r, !.wpos = w]
      PROVE  Stays
  BY <1>1, <1>4 DEF CopyCmds
<1> SUFFICES Stays
  BY <1>1
<1> HIDE DEF Stays
<1>5. CASE OpenSource
  BY <1>2, <1>3, <1>5 DEF OpenSource
<1>6. CASE CreateDest
  BY <1>3, <1>6 DEF CreateDest
<1>7. CASE OpenDest
  BY <1>2, <1>3, <1>7 DEF OpenDest
<1>8. CASE Copy
  <2>1. \/ cmd' = [cmd EXCEPT !.pc = "close"]
        \/ \E r, w : cmd' = [cmd EXCEPT !.rpos = r, !.wpos = w]
    BY <1>8, Zenon DEF Copy
  <2> QED BY <1>3, <1>4, <2>1
<1>9. CASE CloseBoth
  BY <1>2, <1>3, <1>9 DEF CloseBoth
<1>10. CASE DeleteSource
  BY <1>2, <1>10 DEF DeleteSource
<1> QED BY <1>5, <1>6, <1>7, <1>8, <1>9, <1>10 DEF CopySteps

LEMMA PromptList ==
  ASSUME CmdInv, Prompt
  PROVE  ListInv'
<1>1. cmd = Idle
  BY DEF Prompt
<1>2. \A c : c = Idle \/ c.op \in {"cp", "mv"} => c \notin ListCmds
  BY IdleIs DEF ListCmds
<1>3. ASSUME cmd' = cmd
      PROVE  ListInv'
  BY <1>1, <1>2, <1>3 DEF ListInv
<1>4. ASSUME NEW op \in {"cp", "mv"}, NEW p, NEW q, Begin_copy(op, p, q)
      PROVE  ListInv'
  BY <1>2, <1>4 DEF ListInv, Begin_copy
<1>5. ASSUME NEW op, NEW ps \in Seq(Path), Begin_list(op, ps),
             op = "mkdir" => Len(ps) = 1
      PROVE  ListInv'
  <2> DEFINE e == << >>
  <2> HIDE DEF e
  <2>1. cmd' = [op |-> op, pc |-> "list", args |-> ps, rest |-> ps, todo |-> e, rc |-> 0]
    BY <1>5 DEF Begin_list, e
  <2>2. /\ cmd'.pc = "list" /\ cmd'.args = ps /\ cmd'.rest = ps /\ cmd'.todo = e /\ cmd'.op = op
    BY <2>1
  <2>3. Len(ps) \in Nat /\ At' = Len(ps) - Len(ps)
    BY <2>2 DEF At
  <2>4. At' = 0 /\ 0 \in 0 .. Len(ps) /\ \A i \in 1 .. 0 : FALSE
    BY <2>3
  <2>5. \A k \in 1 .. Len(ps) : ps[k] = ps[0 + k]
    OBVIOUS
  <2>6. At' \in 0 .. Len(cmd'.args)
        /\ \A k \in 1 .. Len(cmd'.rest) : cmd'.rest[k] = cmd'.args[At' + k]
    BY <2>2, <2>4, <2>5, Zenon
  <2>7. e = << >> /\ \A k \in 1 .. Len(e) : FALSE
    BY EmptySeq DEF e
  <2>8. OfArgument(cmd.todo)'
    BY <2>2, <2>7 DEF OfArgument
  <2>9. (cmd.rc = 0 => NoRoom \/ \A i \in 1 .. At : i # At \/ cmd.todo = << >> => IsDone(cmd.args[i]))'
    BY <2>4
  <2>10. cmd'.todo = << >> /\ cmd'.pc # "done"
    BY <2>2, <2>7
  <2> QED BY <1>5, <2>2, <2>6, <2>8, <2>9, <2>10 DEF ListInv
<1>6. /\ \A ps \in Args : ps \in Seq(Path)
      /\ \A p \in Path : <<p>> \in Seq(Path) /\ Len(<<p>>) = 1
  BY CommandsAssumption
<1>7. Prompt =>
        \/ cmd' = cmd
        \/ \E op \in {"cp", "mv"}, p, q \in Path : Begin_copy(op, p, q)
        \/ \E op \in {"touch", "rm", "rm_r", "mkdir", "mkdir_p"}, ps \in Seq(Path) :
             Begin_list(op, ps) /\ (op = "mkdir" => Len(ps) = 1)
  <2>1. ASSUME Prompt
        PROVE  \/ cmd' = cmd
               \/ \E op \in {"cp", "mv"}, p, q \in Path : Begin_copy(op, p, q)
               \/ \E op \in {"touch", "rm", "rm_r"}, ps \in Args : Begin_list(op, ps)
               \/ \E op \in {"mkdir", "mkdir_p"}, p \in Path : Begin_list(op, <<p>>)
    BY <2>1 DEF Prompt, ln, ln_s, chmod, open, write, close
  <2> QED BY <1>6, <2>1
<1> QED BY <1>3, <1>4, <1>5, <1>7

LEMMA BackInv ==
  ASSUME CmdInv, Return \/ Crash
  PROVE  CmdInv' /\ ListInv'
<1>1. cmd' = Idle /\ held' \in SUBSET Ino /\ fds' = Kept' + 0
  <2>1. CASE Return
    <3>1. fds = Kept + 0
      BY <2>1 DEF Return, CmdInv, OfCommand
    <3> QED BY <2>1, <3>1, KeptIs DEF Return, CmdInv
  <2>2. CASE Crash
    <3>1. Kept' = 0
      BY <2>2, FS_EmptySet DEF Crash, Kept
    <3> QED BY <2>2, <3>1 DEF Crash
  <2> QED BY <2>1, <2>2
<1>2. fs' \in Volumes /\ \A f \in host' : f \in Volumes /\ SameTree(fs', f)
  <2>1. CASE Return
    BY <2>1 DEF Return, CmdInv
  <2>2. CASE fs' \in host /\ host' = host
    <3>1. \A f \in host : f \in Volumes /\ SameTree(fs, f)
      BY DEF CmdInv
    <3>2. SameTree(fs', fs)
      BY <2>2, <3>1, SameTreeIs
    <3> QED BY <2>2, <3>1, <3>2, SameTreeIs
  <2>3. CASE host = {} /\ fs' = FreshVolume /\ host' = host
    BY <2>3, FreshIsVolume
  <2> QED BY <2>1, <2>2, <2>3 DEF Crash
<1>3. cmd'.pc = "idle" /\ cmd' \notin ListCmds
  BY <1>1, IdleIs DEF ListCmds
<1>4. OfCommand' = 0
  BY <1>3 DEF OfCommand
<1>5. fds' = Kept' + OfCommand'
  BY <1>1, <1>4, Zenon
<1> QED BY <1>1, <1>2, <1>3, <1>5 DEF CmdInv, ListInv

LEMMA SaveInv ==
  ASSUME CmdInv, ListInv, save_to_file
  PROVE  CmdInv' /\ ListInv'
<1>1. UNCHANGED <<fs, fds, held, cmd>> /\ host' = {fs}
  BY DEF save_to_file
<1>2. CmdInv'
  BY <1>1, SameTreeIs DEF CmdInv, OfCommand, Kept
<1>3. ListInv'
  BY <1>1 DEF ListInv, At, OfArgument, IsDone, NoRoom
<1> QED BY <1>2, <1>3

LEMMA DoItemInv ==
  ASSUME CmdInv, ListInv, DoItem
  PROVE  CmdInv' /\ ListInv'
<1> DEFINE item == Head(cmd.todo)
<1>1. /\ cmd \in ListCmds /\ cmd.pc = "list" /\ cmd.todo # << >> /\ item \in ToDo
      /\ fs' \in Volumes /\ HostMoves /\ UNCHANGED <<fds, held>>
      /\ \/ \E ok \in BOOLEAN : Outcome(ok, item) /\ Effect(item, ok)
         \/ item.what = "rm_r" /\ Descend(item.path)
  BY DoItemIs
<1>2. cmd' \in ListCmds /\ cmd'.pc = "list" /\ ListInv'
  BY <1>1, OutcomeList, DescendList
<1>3. fds = Kept + 0
  BY <1>1 DEF CmdInv, OfCommand
<1>4. fds' = Kept + 0
  BY <1>1, <1>3
<1> QED BY <1>1, <1>2, <1>4, NextCmd

LEMMA NextArgInv ==
  ASSUME CmdInv, ListInv, NextArg
  PROVE  CmdInv' /\ ListInv'
<1>1. cmd \in ListCmds /\ cmd' \in ListCmds /\ ListInv'
  BY NextArgList
<1>2. cmd.pc = "list" /\ UNCHANGED <<fs, host, fds, held>>
  BY DEF NextArg
<1>3. fds = Kept + 0 /\ fs \in Volumes /\ HostMoves
  BY <1>2, SameTreeIs DEF CmdInv, OfCommand, HostMoves
<1>4. cmd'.pc \in {"list", "done"}
  BY <1>1 DEF ListCmds
<1> QED BY <1>1, <1>2, <1>3, <1>4, NextCmd

LEMMA CommandsSteps ==
  ASSUME CmdInv, ListInv, [CommandsNext]_commands_vars
  PROVE  CmdInv' /\ ListInv'
<1>1. CASE Prompt
  BY <1>1, PromptInv, PromptList
<1>2. CASE CopySteps
  <2>1. CmdInv'
    BY <1>2, OpenSourceInv, CreateDestInv, OpenDestInv, CopyInv, CloseBothInv, DeleteSourceInv
       DEF CopySteps
  <2>2. cmd'.op \in {"cp", "mv"}
    BY <1>2, CopyStays DEF CopyCmds
  <2> QED BY <2>1, <2>2 DEF ListInv, ListCmds
<1>3. CASE NextArg
  BY <1>3, NextArgInv
<1>4. CASE DoItem
  BY <1>4, DoItemInv
<1>5. CASE Return \/ Crash
  BY <1>5, BackInv
<1>6. CASE UNCHANGED commands_vars
  <2>1. UNCHANGED <<fs, host, fds, held, cmd>>
    BY <1>6 DEF commands_vars
  <2>2. CmdInv'
    BY <2>1 DEF CmdInv, Kept, OfCommand
  <2>3. ListInv'
    BY <2>1 DEF ListInv, At, OfArgument, IsDone, NoRoom
  <2> QED BY <2>2, <2>3
<1>7. CASE save_to_file
  BY <1>7, SaveInv
<1> QED BY <1>1, <1>2, <1>3, <1>4, <1>5, <1>6, <1>7 DEF CommandsNext, Program, CopySteps

LEMMA CommandsStart == CommandsInit => CmdInv /\ ListInv
<1> SUFFICES ASSUME CommandsInit
             PROVE  CmdInv /\ ListInv
  OBVIOUS
<1>1. fs \in Volumes /\ host = {} /\ fds = 0 /\ held = {} /\ cmd = Idle /\ cmd.pc = "idle"
      /\ cmd.op = "idle" /\ Kept = 0
  BY FreshIsVolume, IdleIs, FS_EmptySet DEF CommandsInit, Kept
<1>2. OfCommand = 0
  BY <1>1 DEF OfCommand
<1>3. CmdInv
  BY <1>1, <1>2 DEF CmdInv
<1> QED BY <1>1, <1>3 DEF ListInv, ListCmds

\* Whatever the commands do, and wherever they are killed, a command that is over
\* holds no descriptor, and all that an image that is whole may lack is what users
\* wrote into files since.
THEOREM CommandsNothingLeftOpen == CommandsSpec => []NothingLeftOpen
<1>1. CmdInv => NothingLeftOpen
  <2> SUFFICES ASSUME CmdInv, cmd.pc \in {"idle", "done"}
               PROVE  /\ fds = Cardinality(held)
                      /\ \A f \in host : NamesOf(f) = NamesOf(fs)
    BY DEF NothingLeftOpen
  <2>1. OfCommand = 0
    BY DEF OfCommand
  <2>2. fds = Cardinality(held)
    BY <2>1, KeptIs DEF CmdInv, Kept
  <2>3. \A f \in host : NamesOf(f) = NamesOf(fs)
    BY SameTreeNames DEF CmdInv
  <2> QED BY <2>2, <2>3
<1> QED BY <1>1, CommandsStart, CommandsSteps, PTL DEF CommandsSpec

\* Success of touch, rm, rm -r, mkdir or mkdir -p is about every argument there is,
\* however many there are and whatever the steps for the others did, in memory and
\* in the image: the one exception is a mkdir that found no block for the entry.
THEOREM CommandsDoneForAll == CommandsSpec => []DoneForAll
<1>1. CmdInv /\ ListInv => DoneForAll
  <2> SUFFICES ASSUME CmdInv, ListInv, cmd.pc = "done", cmd.op \notin {"cp", "mv"}, cmd.rc = 0,
                      ~ (cmd.op = "mkdir" /\ Room(fs) <= 0),
                      NEW i \in DOMAIN cmd.args, NEW f \in {fs} \cup host
               PROVE  namei(f, cmd.args[i]) = NONE <=> (cmd.op \in {"rm", "rm_r"})
    BY DEF DoneForAll
  <2>1. cmd \in ListCmds
    BY IdleIs DEF CmdInv, CopyCmds
  <2>2. cmd.args \in Seq(Path) /\ i \in 1 .. Len(cmd.args) /\ Len(cmd.args) \in Nat
    BY <2>1, SeqIs DEF ListCmds
  <2>3. cmd.rest = << >> /\ cmd.todo = << >>
    BY <2>1 DEF ListInv
  <2>4. At = Len(cmd.args)
    BY <2>2, <2>3 DEF At
  <2>5. ~ NoRoom
    <3>1. Room(fs) \in Int
      <4>1. PICK w \in [0 .. INODES -> Nat] : Room(fs) = BLOCKS - w[INODES]
        BY RoomRuns DEF CmdInv
      <4> QED BY <4>1, InodeNumbers
    <3> QED BY <3>1 DEF NoRoom
  <2>6. IsDone(cmd.args[i])
    BY <2>1, <2>2, <2>3, <2>4, <2>5 DEF ListInv
  <2>7. namei(f, cmd.args[i]) = namei(fs, cmd.args[i])
    BY SameTreeNamei DEF CmdInv
  <2> QED BY <2>6, <2>7 DEF IsDone, Removing
<1> QED BY <1>1, CommandsStart, CommandsSteps, PTL DEF CommandsSpec

\* ---- Where links end ----

LEMMA ChainStep ==
  ASSUME NEW f, NEW p, NEW w, IsChain(w, f, p), NEW k \in 0 .. HOPS - 1
  PROVE  w[k + 1] = Follow(f, w[k])
<1>1. k + 1 \in 1 .. HOPS /\ (k + 1) - 1 = k
  BY InodeNumbers
<1> QED BY <1>1 DEF IsChain

\* A chain ends at the first that is no link.
LEMMA ChainRests ==
  ASSUME NEW f, NEW p, NEW w, IsChain(w, f, p), NEW h \in 0 .. HOPS, kind(f, w[h]) # "link"
  PROVE  w[HOPS] = w[h] /\ namei_follow(f, p) = w[h]
<1> DEFINE S == {k \in Nat : h + k <= HOPS => w[h + k] = w[h]}
<1>1. HOPS \in Nat /\ h \in Nat /\ h <= HOPS
  BY InodeNumbers
<1>2. 0 \in S
  <2>1. h + 0 = h
    BY <1>1
  <2> QED BY <2>1
<1>3. ASSUME NEW k \in Nat, k \in S
      PROVE  k + 1 \in S
  <2> SUFFICES ASSUME h + (k + 1) <= HOPS
               PROVE  w[h + (k + 1)] = w[h]
    OBVIOUS
  <2>1. h + k \in 0 .. HOPS - 1 /\ h + k <= HOPS /\ (h + k) + 1 = h + (k + 1)
    BY <1>1
  <2>2. w[h + k] = w[h]
    BY <1>3, <2>1
  <2>3. w[(h + k) + 1] = Follow(f, w[h + k])
    BY <2>1, ChainStep
  <2> QED BY <2>1, <2>2, <2>3 DEF Follow
<1> HIDE DEF S
<1>4. HOPS - h \in S
  <2>1. HOPS - h \in Nat
    BY <1>1
  <2> QED BY <1>2, <1>3, <2>1, Induction
<1>5. w[HOPS] = w[h]
  <2>1. h + (HOPS - h) = HOPS
    BY <1>1
  <2> QED BY <1>1, <1>4, <2>1 DEF S
<1> QED BY <1>5 DEF IsChain

\* A name that is no link is where it leads to.
LEMMA NoHop ==
  ASSUME NEW f \in Volumes, NEW p \in Seq(Name), kind(f, namei(f, p)) # "link"
  PROVE  namei_follow(f, p) = namei(f, p)
<1>1. PICK w : IsChain(w, f, p)
  BY FollowRuns
<1>2. 0 \in 0 .. HOPS /\ w[0] = namei(f, p)
  BY <1>1, InodeNumbers DEF IsChain
<1> QED BY <1>1, <1>2, ChainRests

\* Two paths one of which passes where the other begins lead to the same file.
LEMMA ChainsMeet ==
  ASSUME NEW f \in Volumes, NEW p, NEW q, NEW w, NEW v, IsChain(w, f, p), IsChain(v, f, q),
         NEW h \in 0 .. HOPS, w[h] = v[0], kind(f, namei_follow(f, p)) = "file"
  PROVE  namei_follow(f, q) = namei_follow(f, p)
<1> DEFINE S == {k \in Nat : h + k <= HOPS => v[k] = w[h + k]}
<1>1. HOPS \in Nat /\ h \in Nat /\ h <= HOPS
  BY InodeNumbers
<1>2. 0 \in S
  <2>1. h + 0 = h
    BY <1>1
  <2> QED BY <2>1
<1>3. ASSUME NEW k \in Nat, k \in S
      PROVE  k + 1 \in S
  <2> SUFFICES ASSUME h + (k + 1) <= HOPS
               PROVE  v[k + 1] = w[h + (k + 1)]
    OBVIOUS
  <2>1. h + k \in 0 .. HOPS - 1 /\ h + k <= HOPS /\ (h + k) + 1 = h + (k + 1) /\ k \in 0 .. HOPS - 1
    BY <1>1
  <2>2. v[k] = w[h + k]
    BY <1>3, <2>1
  <2>3. w[(h + k) + 1] = Follow(f, w[h + k]) /\ v[k + 1] = Follow(f, v[k])
    BY <2>1, ChainStep
  <2> QED BY <2>1, <2>2, <2>3
<1> HIDE DEF S
<1>4. HOPS - h \in S /\ HOPS - h \in 0 .. HOPS /\ HOPS - h \in Nat
  <2>1. HOPS - h \in 0 .. HOPS /\ HOPS - h \in Nat
    BY <1>1
  <2> QED BY <1>2, <1>3, <2>1, Induction
<1>5. v[HOPS - h] = w[HOPS]
  <2>1. h + (HOPS - h) = HOPS
    BY <1>1
  <2> QED BY <1>1, <1>4, <2>1 DEF S
<1>6. namei_follow(f, p) = w[HOPS] /\ kind(f, w[HOPS]) = "file"
  <2>1. kind(f, NONE) = "none"
    BY KindOf
  <2> QED BY <2>1 DEF IsChain
<1> QED BY <1>4, <1>5, <1>6, ChainRests

\* The name of a file or link that goes takes no other file from a path.
LEMMA UnlinkFollow ==
  ASSUME NEW f \in Volumes, NEW g \in Volumes, NEW p \in Paths, namei(f, p) # NONE,
         kind(f, namei(f, p)) # "dir", IsUnlinked(f, g, p), NEW q \in Seq(Name),
         kind(f, namei_follow(f, q)) = "file", namei_follow(f, p) # namei_follow(f, q)
  PROVE  /\ namei_follow(g, q) = namei_follow(f, q)
         /\ namei_follow(f, q) \in Ino
         /\ g.inode[namei_follow(f, q)] = f.inode[namei_follow(f, q)]
<1> DEFINE z == namei(f, p)
           d == namei_follow(f, q)
<1>1. p \in Seq(Name)
  BY PathTypes
<1>2. PICK w : IsChain(w, f, q)
  BY FollowRuns
<1>3. PICK v : IsChain(v, f, p)
  BY <1>1, FollowRuns
<1>4. PICK u : IsChain(u, g, q)
  BY FollowRuns
<1>5. v[0] = z /\ w[0] = namei(f, q) /\ u[0] = namei(g, q)
  BY <1>2, <1>3, <1>4 DEF IsChain
<1>6. \A h \in 0 .. HOPS : w[h] # z
  BY <1>2, <1>3, <1>5, ChainsMeet
<1>7. ASSUME NEW r \in Seq(Name), namei(f, r) # z
      PROVE  namei(g, r) = namei(f, r)
  <2> SUFFICES ASSUME namei(g, r) # namei(f, r)
               PROVE  FALSE
    OBVIOUS
  <2>1. r \in Paths /\ KeyOf(f, r) = KeyOf(f, p)
    BY UnlinkedNames DEF IsBare
  <2>2. namei(f, r) = Look(f, namei(f, Front(r)), Last(r))
        /\ namei(f, p) = Look(f, namei(f, Front(p)), Last(p))
    BY <1>1, <2>1, NameiStep
  <2>3. namei(f, r) = namei(f, p)
    BY <2>1, <2>2 DEF Look, KeyOf
  <2> QED BY <1>7, <2>3
<1>8. \A j \in Ino : j # z => g.inode[j] = f.inode[j]
  BY DEF IsUnlinked
<1> DEFINE S == {k \in Nat : k <= HOPS => u[k] = w[k]}
<1> HIDE DEF z, d
<1>9. HOPS \in Nat /\ 0 \in 0 .. HOPS /\ HOPS \in 0 .. HOPS
  BY InodeNumbers
<1>10. 0 \in S
  BY <1>5, <1>6, <1>7, <1>9
<1>11. ASSUME NEW k \in Nat, k \in S
       PROVE  k + 1 \in S
  <2> SUFFICES ASSUME k + 1 <= HOPS
               PROVE  u[k + 1] = w[k + 1]
    OBVIOUS
  <2>1. k \in 0 .. HOPS - 1 /\ k \in 0 .. HOPS /\ k + 1 \in 0 .. HOPS /\ k <= HOPS
    BY <1>9
  <2>2. u[k] = w[k] /\ w[k] # z /\ w[k + 1] # z /\ w[k] \in Used(f) \cup {NONE}
    BY <1>2, <1>6, <1>11, <2>1 DEF IsChain
  <2>3. w[k + 1] = Follow(f, w[k]) /\ u[k + 1] = Follow(g, w[k])
    BY <1>2, <1>4, <2>1, <2>2, ChainStep
  <2>4. CASE w[k] = NONE
    BY <2>3, <2>4, KindOf DEF Follow
  <2>5. CASE w[k] # NONE
    <3>1. w[k] \in Ino /\ g.inode[w[k]] = f.inode[w[k]]
      BY <1>8, <2>2, <2>5 DEF Used
    <3>2. kind(g, w[k]) = kind(f, w[k]) /\ f.inode[w[k]].target \in Seq(Name)
      BY <3>1, KindOf
    <3>3. CASE kind(f, w[k]) = "link"
      <4>1. w[k + 1] = namei(f, f.inode[w[k]].target) /\ u[k + 1] = namei(g, f.inode[w[k]].target)
        BY <2>3, <3>1, <3>2, <3>3 DEF Follow
      <4> QED BY <1>7, <2>2, <3>2, <4>1
    <3>4. CASE kind(f, w[k]) # "link"
      BY <2>3, <3>2, <3>4 DEF Follow
    <3> QED BY <3>3, <3>4
  <2> QED BY <2>4, <2>5
<1> HIDE DEF S
<1>12. HOPS \in S
  BY <1>9, <1>10, <1>11, Induction
<1>13. u[HOPS] = w[HOPS]
  BY <1>9, <1>12 DEF S
<1>14. d = w[HOPS]
  <2>1. kind(f, NONE) = "none"
    BY KindOf
  <2> QED BY <1>2, <2>1 DEF IsChain, d
<1>15. d \in Ino /\ g.inode[d] = f.inode[d]
  <2>1. d \in Used(f)
    BY FollowNode, KindOf DEF d
  <2> QED BY <1>6, <1>8, <1>9, <1>14, <2>1 DEF Used
<1>16. kind(g, d) = "file"
  BY <1>15, KindOf DEF d
<1> QED BY <1>4, <1>13, <1>14, <1>15, <1>16 DEF IsChain, d

LEMMA ContentIs ==
  ASSUME NEW f \in Volumes, NEW p \in Seq(Name), kind(f, namei_follow(f, p)) = "file"
  PROVE  Content(f, p) = {f.inode[namei_follow(f, p)].data} /\ namei_follow(f, p) \in Ino
<1>1. namei_follow(f, p) \in Ino
  BY FollowNode, KindOf DEF Used
<1> QED BY <1>1 DEF Content

\* ---- What a copy has done so far ----

\* What copies are ready for.
Careful == Liberties \cap {"self", "full"} = {}

\* Nothing is in the way of a copy from the inode i, and nothing of it is done.  It
\* fits into the volume g, where the destination has its name.
Ready(f, g, c, i) ==
  /\ i = namei_follow(f, c.src) /\ kind(f, i) = "file" /\ c.want = {f.inode[i].data}
  /\ namei_follow(f, c.dst) # i
  /\ Len(f.inode[i].data) <= Room(Emptied(g, c.dst))
  /\ c.op = "mv" /\ "locked" \notin Liberties => namei(f, Front(c.src)) \notin f.locked
  /\ c.rpos = 0 /\ c.wpos = 0

\* The destination has the source up to where both positions are, and there is
\* room for the rest.
Filling(f, c) ==
  LET from == f.inode[c.s].data
      into == f.inode[c.d].data
  IN  /\ c.s = namei_follow(f, c.src) /\ kind(f, c.s) = "file" /\ c.want = {from}
      /\ c.d = namei_follow(f, c.dst) /\ kind(f, c.d) = "file" /\ c.d # c.s
      /\ c.op = "mv" /\ "locked" \notin Liberties => namei(f, Front(c.src)) \notin f.locked
      /\ c.rpos = Len(into) /\ c.wpos = Len(into) /\ Len(into) <= Len(from)
      /\ \A k \in 1 .. Len(into) : into[k] = from[k]
      /\ Len(from) - Len(into) <= Room(f)

\* What the outcome of a copy means.
Finished(f, c) ==
  IF c.rc = 0
  THEN /\ Content(f, c.dst) = c.want
       /\ IF c.op = "mv" THEN "locked" \notin Liberties => namei(f, c.src) = NONE
          ELSE Content(f, c.src) = c.want
  ELSE Content(f, c.src) = c.want

DataInv ==
  cmd \in CopyCmds =>
    /\ cmd.pc = "source" =>
         /\ cmd.want = Content(fs, cmd.src)
         /\ kind(fs, namei_follow(fs, cmd.src)) = "file" =>
              Ready(fs, Make(fs, cmd.dst, File), cmd, namei_follow(fs, cmd.src))
    /\ cmd.pc = "create" => Ready(fs, Make(fs, cmd.dst, File), cmd, cmd.s)
    /\ cmd.pc = "dest" => Ready(fs, fs, cmd, cmd.s)
    /\ cmd.pc \in {"copy", "close", "delete"} => Filling(fs, cmd)
    /\ cmd.pc \in {"close", "delete"} => fs.inode[cmd.d].data = fs.inode[cmd.s].data
    /\ cmd.pc = "delete" => cmd.op = "mv"
    /\ cmd.pc = "done" => Finished(fs, cmd)

\* Two commands that are the same copy.
SameCopy(c, b) ==
  b.op = c.op /\ b.src = c.src /\ b.dst = c.dst /\ b.want = c.want /\ b.saved = c.saved

LEMMA LeadsFrom ==
  ASSUME NEW f \in Volumes, NEW p \in Paths, namei_follow(f, p) # NONE
  PROVE  namei(f, p) # NONE /\ namei(f, Front(p)) # NONE
<1>1. p \in Seq(Name)
  BY PathTypes
<1>2. namei(f, p) # NONE
  <2>1. kind(f, NONE) # "link"
    BY KindOf
  <2> QED BY <1>1, <2>1, NoHop
<1>3. namei(f, p) = Look(f, namei(f, Front(p)), Last(p)) /\ namei(f, Front(p)) \in Nodes
  BY NameiStep
<1> QED BY <1>2, <1>3, NoKeyBelow

LEMMA ReadyTypes ==
  ASSUME NEW f \in Volumes, NEW g, NEW c, c.src \in Paths, c.dst \in Paths, NEW i,
         Ready(f, g, c, i)
  PROVE  /\ i \in Used(f) /\ i \in Ino /\ i # NONE /\ c.src \in Seq(Name) /\ c.dst \in Seq(Name)
         /\ namei(f, Front(c.src)) # NONE /\ Front(c.src) \in Seq(Name)
         /\ f.inode[i].kind = "file" /\ f.inode[i].data \in Seq(Block) /\ Len(f.inode[i].data) \in Nat
<1>1. c.src \in Seq(Name) /\ c.dst \in Seq(Name) /\ Front(c.src) \in Seq(Name)
  BY PathTypes, NameiStep
<1>2. i = namei_follow(f, c.src) /\ kind(f, i) = "file"
  BY DEF Ready
<1>3. i \in Used(f) /\ i \in Ino /\ i # NONE
  BY <1>1, <1>2, FollowNode, KindOf, InodeNumbers DEF Used
<1>4. f.inode[i].kind = "file" /\ f.inode[i].data \in Seq(Block)
  BY <1>2, <1>3, KindOf
<1>5. Len(f.inode[i].data) \in Nat
  BY <1>4, SeqIs
<1> QED BY <1>1, <1>2, <1>3, <1>4, <1>5, LeadsFrom

IsNewNode(f, g, p, node, i) ==
  namei(g, p) = i /\ g.inode[i] = node /\ \A k \in Ino : k # i => g.inode[k] = f.inode[k]

LEMMA MadeNode ==
  ASSUME NEW f \in Volumes, NEW p \in Paths, NEW node \in NewNodes, NEW g, IsMade(f, g, p, node)
  PROVE  \E i \in Ino \ Used(f) : IsNewNode(f, g, p, node, i)
<1>1. PICK i \in Ino \ Used(f) : namei(g, p) = i /\ g.inode = WithNode(f.inode, i, node)
  BY MadeVolume
<1>2. g.inode[i] = node /\ \A k \in Ino : k # i => g.inode[k] = f.inode[k]
  BY <1>1, VolumeTypes DEF WithNode
<1> QED BY <1>1, <1>2 DEF IsNewNode

\* The destination is made, or was there.
LEMMA MadeReady ==
  ASSUME NEW f \in Volumes, NEW c, c.src \in Paths, c.dst \in Paths, NEW i,
         Ready(f, Make(f, c.dst, File), c, i),
         NEW b, SameCopy(c, b), b.rpos = 0, b.wpos = 0
  PROVE  Ready(Make(f, c.dst, File), Make(f, c.dst, File), b, i)
<1> DEFINE g == Make(f, c.dst, File)
           q == c.dst
           n == Len(f.inode[i].data)
<1>1. /\ i \in Used(f) /\ i \in Ino /\ i # NONE /\ c.src \in Seq(Name) /\ q \in Seq(Name) /\ q \in Paths
      /\ namei(f, Front(c.src)) # NONE /\ Front(c.src) \in Seq(Name) /\ n \in Nat
  BY ReadyTypes
<1>2. /\ i = namei_follow(f, c.src) /\ kind(f, i) = "file" /\ c.want = {f.inode[i].data}
      /\ namei_follow(f, q) # i /\ n <= Room(Emptied(g, q))
      /\ c.op = "mv" /\ "locked" \notin Liberties => namei(f, Front(c.src)) \notin f.locked
  BY DEF Ready
<1>3. /\ g \in Volumes /\ Grows(f, g) /\ g.locked = f.locked
      /\ g # f => IsMade(f, g, q, File)
  BY <1>1, MakeVolume, PathTypes
<1> HIDE DEF g, n
<1>4. CASE g = f
  BY <1>2, <1>4 DEF Ready, SameCopy, n, g
<1>5. CASE g # f
  <2>1. PICK j \in Ino \ Used(f) : IsNewNode(f, g, q, File, j)
    BY <1>1, <1>3, <1>5, MadeNode, PathTypes
  <2>2. /\ namei(g, q) = j /\ g.inode[j] = File
        /\ \A k \in Ino : k # j => g.inode[k] = f.inode[k]
    BY <2>1 DEF IsNewNode
  <2>3. i # j /\ g.inode[i] = f.inode[i]
    BY <1>1, <2>1, <2>2
  <2>4. kind(g, i) = "file" /\ kind(g, j) = "file"
    BY <1>1, <1>2, <1>3, <2>1, <2>2, <2>3, KindOf, PathTypes
  <2>5. namei_follow(g, c.src) = i
    BY <1>1, <1>2, <1>3, GrowsFollow
  <2>6. namei_follow(g, q) = j
    BY <1>1, <1>3, <2>2, <2>4, NoHop
  <2>7. namei(g, Front(c.src)) = namei(f, Front(c.src))
    BY <1>1, <1>3, GrowsNamei DEF Grows
  <2> QED BY <1>2, <1>3, <2>3, <2>4, <2>5, <2>6, <2>7 DEF Ready, SameCopy, n, g
<1> QED BY <1>4, <1>5

\* The destination is emptied: that leaves the source alone.
LEMMA EmptiedReady ==
  ASSUME NEW f \in Volumes, NEW c, c.src \in Paths, c.dst \in Paths, NEW i, Ready(f, f, c, i)
  PROVE  /\ Content(Emptied(f, c.dst), c.src) = c.want
         /\ \A b : (/\ kind(f, namei_follow(f, c.dst)) = "file" /\ SameCopy(c, b)
                    /\ b.s = i /\ b.d = namei_follow(f, c.dst) /\ b.rpos = 0 /\ b.wpos = 0)
                      => Filling(Emptied(f, c.dst), b)
<1> DEFINE g == Emptied(f, c.dst)
           d == namei_follow(f, c.dst)
           n == Len(f.inode[i].data)
<1>1. /\ i \in Used(f) /\ i \in Ino /\ c.src \in Seq(Name) /\ c.dst \in Seq(Name) /\ n \in Nat
  BY ReadyTypes
<1>2. /\ i = namei_follow(f, c.src) /\ kind(f, i) = "file" /\ c.want = {f.inode[i].data}
      /\ d # i /\ n <= Room(g)
      /\ c.op = "mv" /\ "locked" \notin Liberties => namei(f, Front(c.src)) \notin f.locked
  BY DEF Ready
<1>3. /\ g \in Volumes /\ SameTree(f, g)
      /\ \A j \in Ino : j # d => g.inode[j] = f.inode[j]
      /\ kind(f, d) = "file" => g.inode[d].data = << >>
  BY <1>1, EmptiedVolume
<1> HIDE DEF g, d
<1>4. g.inode[i] = f.inode[i] /\ kind(g, i) = "file" /\ namei_follow(g, c.src) = i
  BY <1>1, <1>2, <1>3, KindOf, SameTreeFollow
<1>5. Content(g, c.src) = c.want
  BY <1>1, <1>2, <1>3, <1>4, ContentIs
<1>6. ASSUME NEW b, kind(f, d) = "file", SameCopy(c, b), b.s = i, b.d = d, b.rpos = 0, b.wpos = 0
      PROVE  Filling(g, b)
  <2>1. d \in Ino
    BY <1>1, <1>6, FollowNode, KindOf DEF Used, d
  <2>2. kind(g, d) = "file" /\ namei_follow(g, c.dst) = d
    BY <1>1, <1>3, <1>6, <2>1, KindOf, SameTreeFollow, SMTT(30) DEF SameTree, d
  <2>3. namei(g, Front(c.src)) = namei(f, Front(c.src)) /\ g.locked = f.locked
    BY <1>3, SameTreeNamei DEF SameTree
  <2>4. Len(g.inode[d].data) = 0
    BY <1>3, <1>6
  <2> DEFINE m == Len(g.inode[d].data)
  <2> HIDE DEF m, n
  <2>5. m = 0 /\ b.rpos = m /\ b.wpos = m /\ m <= n /\ \A k \in 1 .. m : FALSE
    BY <1>1, <1>6, <2>4 DEF m
  <2>6. n - m <= Room(g)
    BY <1>1, <1>2, <2>5
  <2>7. Len(g.inode[i].data) = n
    BY <1>4 DEF n
  <2> QED BY <1>2, <1>4, <1>6, <2>2, <2>3, <2>5, <2>6, <2>7 DEF Filling, SameCopy, m
<1> QED BY <1>5, <1>6 DEF g, d

LEMMA FillingTypes ==
  ASSUME NEW f \in Volumes, NEW c, c.src \in Paths, c.dst \in Paths, Filling(f, c)
  PROVE  /\ c.src \in Seq(Name) /\ c.dst \in Seq(Name) /\ c.s \in Ino /\ c.d \in Ino
         /\ f.inode[c.s].data \in Seq(Block) /\ f.inode[c.d].data \in Seq(Block)
         /\ Len(f.inode[c.s].data) \in Nat /\ Len(f.inode[c.d].data) \in Nat
         /\ Content(f, c.src) = c.want /\ Content(f, c.dst) = {f.inode[c.d].data}
<1>1. c.src \in Seq(Name) /\ c.dst \in Seq(Name)
  BY PathTypes
<1>2. /\ c.s = namei_follow(f, c.src) /\ kind(f, c.s) = "file" /\ c.want = {f.inode[c.s].data}
      /\ c.d = namei_follow(f, c.dst) /\ kind(f, c.d) = "file"
  BY DEF Filling
<1>3. /\ c.s \in Ino /\ c.d \in Ino
      /\ Content(f, c.src) = c.want /\ Content(f, c.dst) = {f.inode[c.d].data}
  BY <1>1, <1>2, ContentIs
<1>4. f.inode[c.s].data \in Seq(Block) /\ f.inode[c.d].data \in Seq(Block)
  BY <1>3, KindOf
<1> QED BY <1>1, <1>3, <1>4, SeqIs

LEMMA RoomInt ==
  ASSUME NEW f \in Volumes
  PROVE  Room(f) \in Int
<1>1. \A j \in Ino : Len(f.inode[j].data) = Len(f.inode[j].data)
  OBVIOUS
<1>2. root \in Ino /\ f.inode[root].data \in Seq(Block)
  BY InodeNumbers, KindOf
<1>3. Len(f.inode[root].data) = Len(f.inode[root].data) + 0
  BY <1>2, SeqIs
<1> QED BY <1>1, <1>2, <1>3, RoomTaken

\* A round of the loop finds room for its block.
LEMMA WrittenFilling ==
  ASSUME NEW f \in Volumes, NEW c, c.src \in Paths, c.dst \in Paths, Filling(f, c),
         c.rpos < Len(f.inode[c.s].data)
  PROVE  LET g == fs_write(f, c.d, c.wpos, f.inode[c.s].data[c.rpos + 1])
         IN  /\ c.wpos < Len(g.inode[c.d].data) /\ c.rpos \in Nat /\ c.wpos \in Nat
             /\ \A b : (/\ SameCopy(c, b) /\ b.s = c.s /\ b.d = c.d
                        /\ b.rpos = c.rpos + 1 /\ b.wpos = c.wpos + 1)
                          => Filling(g, b)
<1> DEFINE from == f.inode[c.s].data
           into == f.inode[c.d].data
           n == Len(from)
           m == Len(into)
           x == from[c.rpos + 1]
           g == fs_write(f, c.d, c.wpos, x)
<1>1. /\ c.src \in Seq(Name) /\ c.dst \in Seq(Name) /\ c.s \in Ino /\ c.d \in Ino
      /\ from \in Seq(Block) /\ into \in Seq(Block) /\ n \in Nat /\ m \in Nat
  BY FillingTypes
<1>2. /\ c.s = namei_follow(f, c.src) /\ kind(f, c.s) = "file" /\ c.want = {from}
      /\ c.d = namei_follow(f, c.dst) /\ kind(f, c.d) = "file" /\ c.d # c.s
      /\ c.op = "mv" /\ "locked" \notin Liberties => namei(f, Front(c.src)) \notin f.locked
      /\ c.rpos = m /\ c.wpos = m /\ m <= n
      /\ \A k \in 1 .. m : into[k] = from[k]
      /\ n - m <= Room(f)
  BY DEF Filling
<1>3. m < n /\ m + 1 \in 1 .. n
  <2>1. m < n /\ m \in Nat /\ n \in Nat
    BY <1>1, <1>2
  <2> HIDE DEF m, n
  <2> QED BY <2>1
<1>4. x = from[m + 1] /\ x \in Block
  BY <1>1, <1>2, <1>3, SeqIs
<1> HIDE DEF n, m, x
<1>5. Room(f) \in Int
  BY RoomInt
<1>6. Room(f) > 0
  BY <1>1, <1>2, <1>3, <1>5
<1>7. /\ g \in Volumes /\ SameTree(f, g)
      /\ \A j \in Ino : j # c.d => g.inode[j] = f.inode[j]
      /\ g.inode[c.d].data = Append(into, x)
  <2>1. c.wpos \in Nat /\ c.wpos = Len(f.inode[c.d].data)
    BY <1>1, <1>2 DEF m
  <2>2. c.d \in Ino /\ kind(f, c.d) = "file" /\ x \in Block
    BY <1>1, <1>2, <1>4
  <2> DEFINE i == c.d
             pos == c.wpos
  <2> HIDE DEF i, pos
  <2>3. /\ i \in Ino /\ kind(f, i) = "file" /\ pos \in Nat /\ pos = Len(f.inode[i].data)
    BY <2>1, <2>2 DEF i, pos
  <2>4. /\ fs_write(f, i, pos, x) \in Volumes /\ SameTree(f, fs_write(f, i, pos, x))
        /\ \A j \in Ino : j # i => fs_write(f, i, pos, x).inode[j] = f.inode[j]
        /\ fs_write(f, i, pos, x).inode[i].data = Append(f.inode[i].data, x)
    BY <1>6, <2>2, <2>3, WriteVolume, ZenonT(60)
  <2> QED BY <2>4 DEF i, pos
<1> HIDE DEF g
<1>8. /\ Append(into, x) \in Seq(Block) /\ Len(Append(into, x)) = m + 1
      /\ Append(into, x)[m + 1] = x /\ \A k \in 1 .. m : Append(into, x)[k] = into[k]
  <2> HIDE DEF into
  <2> QED BY <1>1, <1>4 DEF m
<1> DEFINE z == g.inode[c.d].data
<1>9. Len(z) = m + 1 /\ \A k \in 1 .. m + 1 : z[k] = from[k]
  <2>1. \A k \in 1 .. m + 1 : k \in 1 .. m \/ k = m + 1
    BY <1>1
  <2> QED BY <1>2, <1>4, <1>7, <1>8, <2>1
<1>10. Room(g) = Room(f) - 1
  <2>1. Len(z) = Len(f.inode[c.d].data) + 1
    BY <1>9 DEF m
  <2>2. \A j \in Ino : j # c.d => Len(g.inode[j].data) = Len(f.inode[j].data)
    BY <1>7
  <2>3. 1 \in Nat /\ g.blks = f.blks
    BY <1>7 DEF SameTree
  <2> QED BY <1>1, <1>7, <2>1, <2>2, <2>3, RoomTaken
<1>11. g.inode[c.s] = f.inode[c.s] /\ g.inode[c.s].data = from
  BY <1>1, <1>2, <1>7
<1>12. kind(g, c.s) = "file" /\ kind(g, c.d) = "file"
  <2>1. /\ kind(f, c.s) = "file" /\ kind(f, c.d) = "file" /\ g \in Volumes /\ SameTree(f, g)
        /\ c.s \in Ino /\ c.d \in Ino
    BY <1>1, <1>2, <1>7
  <2>2. f.inode[c.s].kind = "file" /\ f.inode[c.d].kind = "file"
    BY <2>1, KindOf
  <2>3. g.inode[c.s].kind = "file" /\ g.inode[c.d].kind = "file"
    BY <2>1, <2>2 DEF SameTree
  <2> QED BY <2>1, <2>3, KindOf
<1>13. namei_follow(g, c.src) = c.s /\ namei_follow(g, c.dst) = c.d
  BY <1>1, <1>2, <1>7, SameTreeFollow
<1>14. namei(g, Front(c.src)) = namei(f, Front(c.src)) /\ g.locked = f.locked
  BY <1>7, SameTreeNamei DEF SameTree
<1>15. n - (m + 1) <= Room(g) /\ m + 1 <= n /\ m < m + 1
  BY <1>1, <1>2, <1>3, <1>5, <1>10
<1>16. ASSUME NEW b, SameCopy(c, b), b.s = c.s, b.d = c.d, b.rpos = c.rpos + 1, b.wpos = c.wpos + 1
       PROVE  Filling(g, b)
  <2> DEFINE l == m + 1
  <2>1. b.rpos = l /\ b.wpos = l /\ Len(z) = l /\ l <= n /\ \A k \in 1 .. l : z[k] = from[k]
    BY <1>2, <1>9, <1>15, <1>16
  <2>2. n - l <= Room(g)
    BY <1>15
  <2>3. Len(g.inode[c.s].data) = n
    BY <1>11 DEF n
  <2> HIDE DEF l
  <2> QED BY <1>2, <1>11, <1>12, <1>13, <1>14, <1>16, <2>1, <2>2, <2>3 DEF Filling, SameCopy
<1>17. c.wpos < Len(z) /\ c.rpos \in Nat /\ c.wpos \in Nat
  BY <1>1, <1>2, <1>9, <1>15
<1> QED BY <1>16, <1>17 DEF g, x

\* The source of a mv is gone, if it may be, and the destination has what was in it.
LEMMA DeletedCopy ==
  ASSUME NEW f \in Volumes, NEW c, c.src \in Paths, c.dst \in Paths, Filling(f, c), c.op = "mv",
         f.inode[c.d].data = f.inode[c.s].data
  PROVE  LET g == fs_delete(f, c.src)
         IN  Content(g, c.dst) = c.want /\ ("locked" \notin Liberties => namei(g, c.src) = NONE)
<1> DEFINE g == fs_delete(f, c.src)
<1>1. /\ c.src \in Seq(Name) /\ c.dst \in Seq(Name) /\ c.s \in Ino /\ c.d \in Ino
      /\ Content(f, c.dst) = {f.inode[c.d].data}
  BY FillingTypes
<1>2. /\ c.s = namei_follow(f, c.src) /\ kind(f, c.s) = "file" /\ c.want = {f.inode[c.s].data}
      /\ c.d = namei_follow(f, c.dst) /\ kind(f, c.d) = "file" /\ c.d # c.s
      /\ "locked" \notin Liberties => namei(f, Front(c.src)) \notin f.locked
  BY DEF Filling
<1>3. namei(f, c.src) # NONE
  BY <1>1, <1>2, InodeNumbers, LeadsFrom
<1>4. kind(f, namei(f, c.src)) # "dir"
  BY <1>1, <1>2, NoHop
<1>5. CASE ~ CanRemove(f, c.src)
  <2>1. g = f
    BY <1>5 DEF fs_delete
  <2>2. "locked" \in Liberties
    BY <1>2, <1>3, <1>5 DEF CanRemove
  <2> QED BY <1>1, <1>2, <2>1, <2>2
<1>6. CASE CanRemove(f, c.src)
  <2>1. g \in Volumes /\ Removes(f, g, c.src) /\ g # f
    BY <1>4, <1>6, DeleteVolume
  <2> HIDE DEF g
  <2>2. namei(g, c.src) = NONE /\ IsUnlinked(f, g, c.src)
    BY <2>1, RemovesNames DEF Removes
  <2>3. namei_follow(g, c.dst) = c.d /\ g.inode[c.d] = f.inode[c.d]
    BY <1>1, <1>2, <1>3, <1>4, <2>1, <2>2, UnlinkFollow
  <2>4. kind(g, c.d) = "file"
    BY <1>1, <1>2, <2>1, <2>3, KindOf
  <2>5. Content(g, c.dst) = {g.inode[c.d].data}
    BY <1>1, <2>1, <2>3, <2>4, ContentIs
  <2> QED BY <1>2, <2>2, <2>3, <2>5 DEF g
<1> QED BY <1>5, <1>6

\* The fields of a copy stay, whatever the step.
LEMMA CopySame ==
  ASSUME CmdInv, CopySteps
  PROVE  cmd \in CopyCmds /\ cmd.src \in Paths /\ cmd.dst \in Paths /\ SameCopy(cmd, cmd')
<1>1. cmd \in CopyCmds /\ SameCopy(cmd, cmd')
  BY CopyStays DEF SameCopy
<1> QED BY <1>1, CmdKinds

LEMMA BeginReady ==
  ASSUME Careful, fs \in Volumes, NEW op, NEW p \in Paths, NEW q \in Paths, Begin_copy(op, p, q),
         fs' = fs
  PROVE  DataInv'
<1> DEFINE i == namei_follow(fs, p)
<1>1. cmd' = [op |-> op, pc |-> "source", src |-> p, dst |-> q, want |-> Content(fs, p),
              saved |-> {Content(f, p) : f \in host}, s |-> NONE, d |-> NONE,
              rpos |-> 0, wpos |-> 0, rc |-> 0]
  BY DEF Begin_copy
<1>2. /\ cmd'.op = op /\ cmd'.pc = "source" /\ cmd'.src = p /\ cmd'.dst = q
      /\ cmd'.want = Content(fs, p) /\ cmd'.rpos = 0 /\ cmd'.wpos = 0
  BY <1>1
<1>3. p \in Seq(Name) /\ q \in Seq(Name)
  BY PathTypes
<1>4. ASSUME kind(fs, i) = "file"
      PROVE  Ready(fs, Make(fs, q, File), cmd', i)
  <2>1. Content(fs, p) = {fs.inode[i].data} /\ i \in Ino
    BY <1>3, <1>4, ContentIs
  <2>2. namei_follow(fs, q) # i
    <3>1. i # NONE
      BY <2>1, InodeNumbers
    <3> QED BY <3>1 DEF Begin_copy, Careful
  <2>3. Len(fs.inode[i].data) <= Room(Emptied(Make(fs, q, File), q))
    <3>1. ~ (Len(fs.inode[i].data) > Room(Emptied(Make(fs, q, File), q)))
      BY <2>1 DEF Begin_copy, Careful
    <3>2. Room(Emptied(Make(fs, q, File), q)) \in Int
      <4>1. Make(fs, q, File) \in Volumes
        BY MakeVolume, PathTypes
      <4> QED BY <1>3, <4>1, EmptiedVolume, RoomInt
    <3>3. Len(fs.inode[i].data) \in Nat
      BY <2>1, KindOf, SeqIs
    <3> QED BY <3>1, <3>2, <3>3
  <2>4. op = "mv" /\ "locked" \notin Liberties => namei(fs, Front(p)) \notin fs.locked
    BY DEF Begin_copy, Careful
  <2> HIDE DEF i
  <2> QED BY <1>2, <1>4, <2>1, <2>2, <2>3, <2>4 DEF Ready, i
<1> HIDE DEF i
<1> QED BY <1>2, <1>4 DEF DataInv, i

LEMMA OpenSourceData ==
  ASSUME CmdInv, DataInv, OpenSource
  PROVE  DataInv'
<1>1. /\ cmd \in CopyCmds /\ cmd.src \in Paths /\ cmd.dst \in Paths /\ SameCopy(cmd, cmd')
      /\ cmd.pc = "source" /\ fs' = fs
  BY CopySame DEF CopySteps, OpenSource
<1> DEFINE i == namei_follow(fs, cmd.src)
<1>2. CASE kind(fs, i) = "file" /\ fds < NOFILE
  <2>1. cmd' = [cmd EXCEPT !.pc = "create", !.s = i]
    BY <1>2 DEF OpenSource
  <2>2. Ready(fs, Make(fs, cmd.dst, File), cmd, i)
    BY <1>1, <1>2 DEF DataInv
  <2> HIDE DEF i
  <2>3. cmd'.pc = "create" /\ cmd'.s = i /\ cmd'.rpos = cmd.rpos /\ cmd'.wpos = cmd.wpos
    BY <1>1, <2>1 DEF CopyCmds
  <2>4. Ready(fs', Make(fs', cmd'.dst, File), cmd', cmd'.s)
    BY <1>1, <2>2, <2>3 DEF Ready, SameCopy
  <2> QED BY <2>3, <2>4 DEF DataInv
<1>3. CASE ~ (kind(fs, i) = "file" /\ fds < NOFILE)
  <2>1. cmd' = [cmd EXCEPT !.pc = "done", !.rc = -1]
    BY <1>3 DEF OpenSource, Done
  <2>2. cmd'.pc = "done" /\ cmd'.rc = -1
    BY <1>1, <2>1 DEF CopyCmds
  <2>3. Content(fs, cmd.src) = cmd.want
    BY <1>1 DEF DataInv
  <2>4. Finished(fs', cmd')
    BY <1>1, <2>2, <2>3 DEF Finished, SameCopy
  <2> QED BY <2>2, <2>4 DEF DataInv
<1> QED BY <1>2, <1>3

LEMMA CreateDestData ==
  ASSUME CmdInv, DataInv, CreateDest
  PROVE  DataInv'
<1>1. /\ cmd \in CopyCmds /\ cmd.src \in Paths /\ cmd.dst \in Paths /\ SameCopy(cmd, cmd')
      /\ cmd.pc = "create" /\ fs \in Volumes /\ fs' = Make(fs, cmd.dst, File)
      /\ cmd' = [cmd EXCEPT !.pc = "dest"]
  BY CopySame DEF CopySteps, CreateDest, CmdInv
<1>2. Ready(fs, Make(fs, cmd.dst, File), cmd, cmd.s)
  BY <1>1 DEF DataInv
<1>3. cmd'.pc = "dest" /\ cmd'.s = cmd.s /\ cmd'.rpos = 0 /\ cmd'.wpos = 0
  BY <1>1, <1>2 DEF CopyCmds, Ready
<1>4. Ready(fs', fs', cmd', cmd'.s)
  BY <1>1, <1>2, <1>3, MadeReady
<1> QED BY <1>3, <1>4 DEF DataInv

LEMMA OpenDestData ==
  ASSUME CmdInv, DataInv, OpenDest
  PROVE  DataInv'
<1>1. /\ cmd \in CopyCmds /\ cmd.src \in Paths /\ cmd.dst \in Paths /\ SameCopy(cmd, cmd')
      /\ cmd.pc = "dest" /\ fs \in Volumes /\ fs' = Emptied(fs, cmd.dst)
  BY CopySame DEF CopySteps, OpenDest, CmdInv
<1>2. Ready(fs, fs, cmd, cmd.s)
  BY <1>1 DEF DataInv
<1>3. /\ Content(fs', cmd.src) = cmd.want
      /\ \A b : (/\ kind(fs, namei_follow(fs, cmd.dst)) = "file" /\ SameCopy(cmd, b)
                 /\ b.s = cmd.s /\ b.d = namei_follow(fs, cmd.dst) /\ b.rpos = 0 /\ b.wpos = 0)
                   => Filling(fs', b)
  BY <1>1, <1>2, EmptiedReady
<1> DEFINE i == namei_follow(fs, cmd.dst)
<1>4. CASE kind(fs, i) = "file" /\ fds < NOFILE
  <2>1. cmd' = [cmd EXCEPT !.pc = "copy", !.d = i]
    BY <1>4 DEF OpenDest
  <2> HIDE DEF i
  <2>2. /\ cmd'.pc = "copy" /\ cmd'.s = cmd.s /\ cmd'.d = i
        /\ cmd'.rpos = 0 /\ cmd'.wpos = 0
    BY <1>1, <1>2, <2>1 DEF CopyCmds, Ready
  <2>3. Filling(fs', cmd')
    BY <1>1, <1>3, <1>4, <2>2 DEF i
  <2> QED BY <2>2, <2>3 DEF DataInv
<1>5. CASE ~ (kind(fs, i) = "file" /\ fds < NOFILE)
  <2>1. cmd' = [cmd EXCEPT !.pc = "done", !.rc = -1]
    BY <1>5 DEF OpenDest, Done
  <2>2. cmd'.pc = "done" /\ cmd'.rc = -1
    BY <1>1, <2>1 DEF CopyCmds
  <2>3. Finished(fs', cmd')
    BY <1>1, <1>3, <2>2 DEF Finished, SameCopy
  <2> QED BY <2>2, <2>3 DEF DataInv
<1> QED BY <1>4, <1>5

LEMMA CopyData ==
  ASSUME CmdInv, DataInv, Copy
  PROVE  DataInv'
<1>1. /\ cmd \in CopyCmds /\ cmd.src \in Paths /\ cmd.dst \in Paths /\ SameCopy(cmd, cmd')
      /\ cmd.pc = "copy" /\ fs \in Volumes
  BY CopySame DEF CopySteps, Copy, CmdInv
<1>2. Filling(fs, cmd)
  BY <1>1 DEF DataInv
<1> DEFINE from == fs.inode[cmd.s].data
           into == fs.inode[cmd.d].data
<1>3. CASE cmd.rpos >= Len(from) /\ fs' = fs /\ cmd' = [cmd EXCEPT !.pc = "close"]
  <2>1. /\ cmd'.pc = "close" /\ cmd'.s = cmd.s /\ cmd'.d = cmd.d
        /\ cmd'.rpos = cmd.rpos /\ cmd'.wpos = cmd.wpos
    BY <1>1, <1>3 DEF CopyCmds
  <2>2. Filling(fs', cmd')
    BY <1>1, <1>2, <1>3, <2>1, ZenonT(60) DEF Filling, SameCopy
  <2>3. from \in Seq(Block) /\ into \in Seq(Block) /\ Len(from) \in Nat /\ Len(into) \in Nat
    BY <1>1, <1>2, FillingTypes
  <2>4. cmd.rpos = Len(into) /\ Len(into) <= Len(from) /\ \A k \in 1 .. Len(into) : into[k] = from[k]
    BY <1>2 DEF Filling
  <2>5. into = from
    <3> HIDE DEF into, from
    <3>1. Len(into) = Len(from)
      BY <1>3, <2>3, <2>4
    <3> QED BY <2>3, <2>4, <3>1
  <2>6. fs'.inode[cmd'.d].data = fs'.inode[cmd'.s].data
    BY <1>3, <2>1, <2>5
  <2> QED BY <2>1, <2>2, <2>6 DEF DataInv
<1>4. CASE /\ cmd.rpos < Len(from)
           /\ fs' = fs_write(fs, cmd.d, cmd.wpos, from[cmd.rpos + 1])
           /\ cmd' = [cmd EXCEPT !.rpos = @ + 1,
                                 !.wpos = IF @ < Len(fs'.inode[cmd.d].data) THEN @ + 1 ELSE @]
  <2>1. /\ cmd.wpos < Len(fs'.inode[cmd.d].data) /\ cmd.rpos \in Nat /\ cmd.wpos \in Nat
        /\ \A b : (/\ SameCopy(cmd, b) /\ b.s = cmd.s /\ b.d = cmd.d
                   /\ b.rpos = cmd.rpos + 1 /\ b.wpos = cmd.wpos + 1)
                     => Filling(fs', b)
    BY <1>1, <1>2, <1>4, WrittenFilling
  <2> DEFINE r == cmd.rpos + 1
             w == cmd.wpos + 1
  <2>2. cmd' = [cmd EXCEPT !.rpos = r, !.wpos = w]
    BY <1>4, <2>1
  <2> HIDE DEF r, w
  <2>3. /\ cmd'.pc = "copy" /\ cmd'.s = cmd.s /\ cmd'.d = cmd.d /\ cmd'.rpos = r /\ cmd'.wpos = w
    BY <1>1, <2>2 DEF CopyCmds
  <2>4. Filling(fs', cmd')
    BY <1>1, <2>1, <2>3 DEF r, w
  <2> QED BY <2>3, <2>4 DEF DataInv
<1> QED BY <1>3, <1>4, CopyIs

LEMMA CloseBothData ==
  ASSUME CmdInv, DataInv, CloseBoth
  PROVE  DataInv'
<1>1. /\ cmd \in CopyCmds /\ cmd.src \in Paths /\ cmd.dst \in Paths /\ SameCopy(cmd, cmd')
      /\ cmd.pc = "close" /\ fs \in Volumes /\ fs' = fs
  BY CopySame DEF CopySteps, CloseBoth, CmdInv
<1>2. Filling(fs, cmd) /\ fs.inode[cmd.d].data = fs.inode[cmd.s].data
  BY <1>1 DEF DataInv
<1>3. CASE cmd.op = "mv"
  <2>1. cmd' = [cmd EXCEPT !.pc = "delete"]
    BY <1>3 DEF CloseBoth
  <2>2. /\ cmd'.pc = "delete" /\ cmd'.s = cmd.s /\ cmd'.d = cmd.d
        /\ cmd'.rpos = cmd.rpos /\ cmd'.wpos = cmd.wpos
    BY <1>1, <2>1 DEF CopyCmds
  <2>3. Filling(fs', cmd')
    BY <1>1, <1>2, <2>2 DEF Filling, SameCopy
  <2>4. fs'.inode[cmd'.d].data = fs'.inode[cmd'.s].data
    BY <1>1, <1>2, <2>2
  <2>5. cmd'.op = "mv"
    BY <1>1, <1>3 DEF SameCopy
  <2> QED BY <2>2, <2>3, <2>4, <2>5 DEF DataInv
<1>4. CASE cmd.op # "mv"
  <2>1. cmd' = [cmd EXCEPT !.pc = "done", !.rc = 0]
    BY <1>4 DEF CloseBoth, Done
  <2>2. cmd'.pc = "done" /\ cmd'.rc = 0
    BY <1>1, <2>1 DEF CopyCmds
  <2>3. Content(fs, cmd.src) = cmd.want /\ Content(fs, cmd.dst) = {fs.inode[cmd.d].data}
    BY <1>1, <1>2, FillingTypes
  <2>4. Content(fs, cmd.dst) = cmd.want
    BY <1>2, <2>3 DEF Filling
  <2>5. Finished(fs', cmd')
    BY <1>1, <1>4, <2>2, <2>3, <2>4 DEF Finished, SameCopy
  <2> QED BY <2>2, <2>5 DEF DataInv
<1> QED BY <1>3, <1>4

LEMMA DeleteSourceData ==
  ASSUME CmdInv, DataInv, DeleteSource
  PROVE  DataInv'
<1>1. /\ cmd \in CopyCmds /\ cmd.src \in Paths /\ cmd.dst \in Paths /\ SameCopy(cmd, cmd')
      /\ cmd.pc = "delete" /\ fs \in Volumes /\ fs' = fs_delete(fs, cmd.src)
      /\ cmd' = [cmd EXCEPT !.pc = "done", !.rc = 0]
  BY CopySame DEF CopySteps, DeleteSource, CmdInv, Done
<1>2. Filling(fs, cmd) /\ fs.inode[cmd.d].data = fs.inode[cmd.s].data /\ cmd.op = "mv"
  BY <1>1 DEF DataInv
<1>3. /\ Content(fs', cmd.dst) = cmd.want
      /\ "locked" \notin Liberties => namei(fs', cmd.src) = NONE
  BY <1>1, <1>2, DeletedCopy
<1>4. cmd'.pc = "done" /\ cmd'.rc = 0
  BY <1>1 DEF CopyCmds
<1>5. Finished(fs', cmd')
  BY <1>1, <1>2, <1>3, <1>4 DEF Finished, SameCopy
<1> QED BY <1>4, <1>5 DEF DataInv

LEMMA DataSteps ==
  ASSUME Careful, CmdInv, ListInv, DataInv, [CommandsNext]_commands_vars
  PROVE  DataInv'
<1>1. CASE Prompt
  <2>1. cmd = Idle /\ fs \in Volumes
    BY <1>1 DEF Prompt, CmdInv
  <2>2. \A c : c = Idle \/ c.op \in {"touch", "rm", "rm_r", "mkdir", "mkdir_p"} => c \notin CopyCmds
    BY IdleIs DEF CopyCmds
  <2>3. CASE cmd' = cmd
    BY <2>1, <2>2, <2>3 DEF DataInv
  <2>4. CASE \E op \in {"cp", "mv"}, p, q \in Path : Begin_copy(op, p, q) /\ fs' = fs
    BY <2>1, <2>4, BeginReady, PathTypes
  <2>5. CASE \E op \in {"touch", "rm", "rm_r", "mkdir", "mkdir_p"} : \E ps : Begin_list(op, ps)
    <3>1. cmd'.op \in {"touch", "rm", "rm_r", "mkdir", "mkdir_p"}
      BY <2>5 DEF Begin_list
    <3> QED BY <2>2, <3>1 DEF DataInv
  <2>6. \/ cmd' = cmd
        \/ \E op \in {"cp", "mv"}, p, q \in Path : Begin_copy(op, p, q) /\ fs' = fs
        \/ \E op \in {"touch", "rm", "rm_r", "mkdir", "mkdir_p"} : \E ps : Begin_list(op, ps)
    BY <1>1 DEF Prompt, ln, ln_s, chmod, open, write, close
  <2> QED BY <2>3, <2>4, <2>5, <2>6
<1>2. CASE CopySteps
  BY <1>2, OpenSourceData, CreateDestData, OpenDestData, CopyData, CloseBothData, DeleteSourceData
     DEF CopySteps
<1>3. CASE NextArg \/ DoItem
  <2>1. cmd' \in ListCmds
    BY <1>3, NextArgList, DoItemIs, OutcomeList, DescendList
  <2> QED BY <2>1 DEF DataInv, ListCmds, CopyCmds
<1>4. CASE Return \/ Crash
  <2>1. cmd' = Idle
    BY <1>4 DEF Return, Crash
  <2> QED BY <2>1, IdleIs DEF DataInv, CopyCmds
<1>5. CASE save_to_file \/ UNCHANGED commands_vars
  <2>1. fs' = fs /\ cmd' = cmd
    BY <1>5 DEF save_to_file, commands_vars
  <2> QED BY <2>1 DEF DataInv
<1> QED BY <1>1, <1>2, <1>3, <1>4, <1>5 DEF CommandsNext, Program, CopySteps

LEMMA DataStart == CommandsInit => DataInv
BY IdleIs DEF CommandsInit, DataInv, CopyCmds

\* What was in the source is there, in memory.
LEMMA KeptInMemory ==
  ASSUME CmdInv, DataInv, cmd \in CopyCmds
  PROVE  Content(fs, cmd.src) = cmd.want \/ (cmd.op = "mv" /\ Content(fs, cmd.dst) = cmd.want)
<1>1. cmd.src \in Paths /\ cmd.dst \in Paths /\ fs \in Volumes /\ cmd.src \in Seq(Name)
  <2>1. cmd.src \in Paths /\ cmd.dst \in Paths /\ fs \in Volumes
    BY CmdKinds DEF CmdInv
  <2> QED BY <2>1, PathTypes
<1>2. CASE cmd.pc = "source"
  BY <1>2 DEF DataInv
<1>3. CASE cmd.pc \in {"create", "dest"}
  <2>1. \E g : Ready(fs, g, cmd, cmd.s)
    BY <1>3 DEF DataInv
  <2> QED BY <1>1, <2>1, ContentIs DEF Ready
<1>4. CASE cmd.pc \in {"copy", "close", "delete"}
  <2>1. Filling(fs, cmd)
    BY <1>4 DEF DataInv
  <2> QED BY <1>1, <2>1, FillingTypes
<1>5. CASE cmd.pc = "done"
  <2>1. Finished(fs, cmd)
    BY <1>5 DEF DataInv
  <2> QED BY <2>1 DEF Finished
<1> QED BY <1>2, <1>3, <1>4, <1>5 DEF CopyCmds

\* ---- What the image has of a copy ----

\* The volume f has the source as it was saved before the copy c or as it was in
\* memory, or it has it at the destination of a mv.
Keeps(f, c) ==
  \/ Content(f, c.src) \in c.saved \cup {c.want}
  \/ c.op = "mv" /\ Content(f, c.dst) = c.want

SavedInv ==
  cmd \in CopyCmds =>
    /\ \A f \in host : Keeps(f, cmd)
    /\ cmd.pc = "delete" \/ (cmd.pc = "done" /\ cmd.rc = 0) => host \subseteq {fs}

LEMMA BeginSaved ==
  ASSUME NEW op, NEW p, NEW q, Begin_copy(op, p, q), host' = host
  PROVE  SavedInv'
<1>1. cmd' = [op |-> op, pc |-> "source", src |-> p, dst |-> q, want |-> Content(fs, p),
              saved |-> {Content(f, p) : f \in host}, s |-> NONE, d |-> NONE,
              rpos |-> 0, wpos |-> 0, rc |-> 0]
  BY DEF Begin_copy
<1>2. cmd'.pc = "source" /\ cmd'.src = p /\ cmd'.saved = {Content(f, p) : f \in host}
  BY <1>1
<1>3. \A f \in host' : Keeps(f, cmd')
  BY <1>2 DEF Keeps
<1> QED BY <1>2, <1>3 DEF SavedInv

\* A copy leaves the image alone, or begins to save.
LEMMA CopySaved ==
  ASSUME CmdInv, SavedInv, CopySteps
  PROVE  SavedInv'
<1>1. cmd \in CopyCmds /\ SameCopy(cmd, cmd')
  BY CopySame
<1>2. \A f \in host : Keeps(f, cmd)
  BY <1>1 DEF SavedInv
<1>3. host' = host \/ host' = {}
  BY DEF CopySteps, OpenSource, CreateDest, OpenDest, Copy, CloseBoth, DeleteSource, Synced, sync
<1>4. \A f \in host' : Keeps(f, cmd')
  BY <1>1, <1>2, <1>3 DEF Keeps, SameCopy
<1>5. ASSUME cmd'.pc = "delete" \/ (cmd'.pc = "done" /\ cmd'.rc = 0)
      PROVE  host' \subseteq {fs'}
  <2>1. CASE OpenSource \/ CreateDest \/ OpenDest \/ Copy
    <3>1. \/ \E i : cmd' = [cmd EXCEPT !.pc = "create", !.s = i]
          \/ cmd' = [cmd EXCEPT !.pc = "dest"]
          \/ \E i : cmd' = [cmd EXCEPT !.pc = "copy", !.d = i]
          \/ cmd' = [cmd EXCEPT !.pc = "close"]
          \/ cmd.pc = "copy" /\ \E r, w : cmd' = [cmd EXCEPT !.rpos = r, !.wpos = w]
          \/ cmd' = [cmd EXCEPT !.pc = "done", !.rc = -1]
      BY <2>1, Zenon DEF OpenSource, CreateDest, OpenDest, Copy, Done
    <3>2. cmd'.pc \in {"create", "dest", "copy", "close"} \/ (cmd'.pc = "done" /\ cmd'.rc = -1)
      BY <1>1, <3>1 DEF CopyCmds
    <3> QED BY <1>5, <3>2
  <2>2. CASE CloseBoth
    BY <2>2 DEF CloseBoth, sync
  <2>3. CASE DeleteSource
    <3>1. host \subseteq {fs} /\ (host' = {} \/ (fs' = fs /\ host' = host))
      BY <1>1, <2>3 DEF DeleteSource, Synced, sync, SavedInv
    <3> QED BY <3>1
  <2> QED BY <2>1, <2>2, <2>3 DEF CopySteps
<1> QED BY <1>4, <1>5 DEF SavedInv

LEMMA SavedSteps ==
  ASSUME CmdInv, ListInv, DataInv, SavedInv, [CommandsNext]_commands_vars
  PROVE  SavedInv'
<1>1. CASE Prompt
  <2>1. cmd = Idle
    BY <1>1 DEF Prompt
  <2>2. \A c : c = Idle \/ c.op \in {"touch", "rm", "rm_r", "mkdir", "mkdir_p"} => c \notin CopyCmds
    BY IdleIs DEF CopyCmds
  <2>3. \/ cmd' = cmd
        \/ \E op \in {"cp", "mv"}, p, q \in Path : Begin_copy(op, p, q) /\ host' = host
        \/ \E op \in {"touch", "rm", "rm_r", "mkdir", "mkdir_p"} : \E ps : Begin_list(op, ps)
    BY <1>1 DEF Prompt, ln, ln_s, chmod, open, write, close
  <2>4. CASE cmd' = cmd
    BY <2>1, <2>2, <2>4 DEF SavedInv
  <2>5. CASE \E op \in {"cp", "mv"}, p, q \in Path : Begin_copy(op, p, q) /\ host' = host
    BY <2>5, BeginSaved
  <2>6. CASE \E op \in {"touch", "rm", "rm_r", "mkdir", "mkdir_p"} : \E ps : Begin_list(op, ps)
    <3>1. cmd'.op \in {"touch", "rm", "rm_r", "mkdir", "mkdir_p"}
      BY <2>6 DEF Begin_list
    <3> QED BY <2>2, <3>1 DEF SavedInv
  <2> QED BY <2>3, <2>4, <2>5, <2>6
<1>2. CASE CopySteps
  BY <1>2, CopySaved
<1>3. CASE NextArg \/ DoItem
  <2>1. cmd' \in ListCmds
    BY <1>3, NextArgList, DoItemIs, OutcomeList, DescendList
  <2> QED BY <2>1 DEF SavedInv, ListCmds, CopyCmds
<1>4. CASE Return \/ Crash
  <2>1. cmd' = Idle
    BY <1>4 DEF Return, Crash
  <2> QED BY <2>1, IdleIs DEF SavedInv, CopyCmds
<1>5. CASE save_to_file
  <2>1. fs' = fs /\ cmd' = cmd /\ host' = {fs}
    BY <1>5 DEF save_to_file
  <2>2. cmd \in CopyCmds => Keeps(fs, cmd)
    BY KeptInMemory DEF Keeps
  <2> QED BY <2>1, <2>2 DEF SavedInv
<1>6. CASE UNCHANGED commands_vars
  BY <1>6 DEF SavedInv, commands_vars
<1> QED BY <1>1, <1>2, <1>3, <1>4, <1>5, <1>6 DEF CommandsNext, Program, CopySteps

LEMMA SavedStart == CommandsInit => SavedInv
BY IdleIs DEF CommandsInit, SavedInv, CopyCmds

\* What the invariants say of every state, with PTL left to join the steps.
LEMMA CopiesAlways == Careful => (CommandsSpec => [](CmdInv /\ DataInv /\ SavedInv))
<1> SUFFICES ASSUME Careful
             PROVE  CommandsSpec => [](CmdInv /\ DataInv /\ SavedInv)
  OBVIOUS
<1>1. CommandsInit => CmdInv /\ ListInv /\ DataInv /\ SavedInv
  BY CommandsStart, DataStart, SavedStart
<1>2. CmdInv /\ ListInv /\ DataInv /\ SavedInv /\ [CommandsNext]_commands_vars
        => (CmdInv /\ ListInv /\ DataInv /\ SavedInv)'
  BY CommandsSteps, DataSteps, SavedSteps
<1> QED BY <1>1, <1>2, PTL DEF CommandsSpec

\* A cp or mv that callers are careful with keeps what the source had in it: at
\* every step it is whole in memory, and a program killed then finds in a whole
\* image that, or the source as it was saved last.
THEOREM CommandsCopyKeepsData == Careful => (CommandsSpec => []CopyKeepsData)
<1>1. CmdInv /\ DataInv /\ SavedInv => CopyKeepsData
  <2> SUFFICES ASSUME CmdInv, DataInv, SavedInv, Copying
               PROVE  CopyKeepsData
    BY DEF CopyKeepsData
  <2>1. cmd \in CopyCmds
    BY IdleIs DEF Copying, CmdInv, ListCmds
  <2>2. Content(fs, cmd.src) = cmd.want \/ (cmd.op = "mv" /\ Content(fs, cmd.dst) = cmd.want)
    BY <2>1, KeptInMemory
  <2>3. \A f \in host : Keeps(f, cmd)
    BY <2>1 DEF SavedInv
  <2> QED BY <2>2, <2>3 DEF CopyKeepsData, Keeps
<1> QED BY <1>1, CopiesAlways, PTL

\* With such callers, who do not move what they may not remove, success of cp and
\* mv means what it says.
THEOREM CommandsCopyExact ==
  Careful /\ "locked" \notin Liberties => (CommandsSpec => []CopyExact)
<1> SUFFICES ASSUME Careful, "locked" \notin Liberties
             PROVE  CommandsSpec => []CopyExact
  OBVIOUS
<1>1. CmdInv /\ DataInv /\ SavedInv => CopyExact
  <2> SUFFICES ASSUME CmdInv, DataInv, SavedInv, cmd.pc = "done", cmd.op \in {"cp", "mv"}, cmd.rc = 0,
                      NEW f \in {fs} \cup host
               PROVE  Content(f, cmd.dst) = cmd.want /\ (cmd.op = "mv" => namei(f, cmd.src) = NONE)
    BY DEF CopyExact
  <2>1. cmd \in CopyCmds
    BY IdleIs DEF CmdInv, ListCmds
  <2>2. Finished(fs, cmd) /\ f = fs
    BY <2>1 DEF DataInv, SavedInv
  <2> QED BY <2>2 DEF Finished
<1> QED BY <1>1, CopiesAlways, PTL

\* ---- What a step leaves alone ----

\* Only q leads to something else.
OneName(f, g, q) == \A p \in Seq(Name) : namei(f, p) # namei(g, p) => p = q

LEMMA KeyPath ==
  ASSUME NEW f \in Volumes, NEW p \in Paths, NEW q \in Paths, KeyOf(f, p) = KeyOf(f, q),
         kind(f, namei(f, Front(q))) = "dir"
  PROVE  p = q
<1>1. /\ Front(p) \in Seq(Name) /\ Front(q) \in Seq(Name)
      /\ p = Append(Front(p), Last(p)) /\ q = Append(Front(q), Last(q))
  BY NameiStep
<1>2. namei(f, Front(p)) = namei(f, Front(q)) /\ Last(p) = Last(q)
  BY DEF KeyOf
<1>3. Front(p) = Front(q)
  BY <1>1, <1>2, OnePath
<1> QED BY <1>1, <1>2, <1>3

LEMMA OneNameGoes ==
  ASSUME NEW f \in Volumes, NEW g \in Volumes, NEW q \in Paths, namei(f, q) # NONE,
         IsBare(f, namei(f, q)), IsUnlinked(f, g, q)
  PROVE  OneName(f, g, q)
<1> SUFFICES ASSUME NEW p \in Seq(Name), namei(f, p) # namei(g, p)
             PROVE  p = q
  BY DEF OneName
<1>1. p \in Paths /\ KeyOf(f, p) = KeyOf(f, q)
  BY UnlinkedNames
<1>2. KeyOf(f, q) \in DOMAIN f.entry
  BY KeyIs
<1>3. KeyOf(f, q)[1] = namei(f, Front(q)) /\ KeyOf(f, q)[1] \in Ino
  BY <1>2, VolumeTypes DEF KeyOf, Keys
<1>4. f.inode[KeyOf(f, q)[1]].kind = "dir"
  BY <1>2 DEF Volumes
<1>5. kind(f, namei(f, Front(q))) = "dir"
  BY <1>3, <1>4, KindOf
<1> QED BY <1>1, <1>5, KeyPath

\* A name that is made is a name that can go again.
LEMMA OneNameComes ==
  ASSUME NEW f \in Volumes, NEW g, NEW q \in Paths, NEW node \in NewNodes, IsMade(f, g, q, node)
  PROVE  OneName(f, g, q)
<1> DEFINE e == KeyOf(f, q)
<1>1. PICK i \in Ino \ Used(f) :
        /\ namei(g, q) = i /\ g.inode = WithNode(f.inode, i, node)
        /\ g.entry = WithEntry(f.entry, KeyOf(f, q), i)
  BY MadeVolume
<1>2. /\ g \in Volumes /\ Grows(f, g) /\ kind(f, namei(f, Front(q))) = "dir" /\ namei(g, q) = i
      /\ \A k \in Ino : k # i => g.inode[k] = f.inode[k]
  <2>1. g \in Volumes /\ Grows(f, g) /\ IsVacant(f, q)
    BY MadeVolume
  <2>2. \A k \in Ino : k # i => g.inode[k] = f.inode[k]
    BY <1>1, VolumeTypes DEF WithNode
  <2> QED BY <1>1, <2>1, <2>2 DEF IsVacant
<1>3. namei(f, Front(q)) \in Ino /\ namei(f, Front(q)) \in Used(f) /\ Front(q) \in Seq(Name)
      /\ namei(f, Front(q)) # NONE /\ q \in Seq(Name)
  BY <1>2, NameiStep, KindOf, InodeNumbers, PathTypes DEF Used
<1>4. g.entry = [x \in DOMAIN f.entry \cup {e} |-> IF x = e THEN i ELSE f.entry[x]]
  BY <1>1 DEF WithEntry
<1>5. KeyOf(g, q) = e
  BY <1>2, <1>3, GrowsNamei DEF KeyOf, Grows
<1> HIDE DEF e
<1>6. e \notin DOMAIN f.entry
  <2>1. namei(f, q) = NONE
    BY MadeVolume DEF IsVacant
  <2>2. namei(f, q) = Look(f, namei(f, Front(q)), Last(q))
    BY NameiStep
  <2>3. <<namei(f, Front(q)), Last(q)>> \in DOMAIN f.entry =>
          f.entry[<<namei(f, Front(q)), Last(q)>>] \in Ino
    BY VolumeTypes
  <2> QED BY <2>1, <2>2, <2>3, InodeNumbers DEF Look, KeyOf, e
<1>7. DOMAIN f.entry = DOMAIN g.entry \ {e} /\ \A x \in DOMAIN f.entry : f.entry[x] = g.entry[x]
  BY <1>4, <1>6
<1>8. \A x \in DOMAIN f.entry : f.entry[x] # i /\ x[1] # i
  BY <1>1, VolumeTypes DEF Volumes, Used, Keys
<1>9. IsUnlinked(g, f, q)
  BY <1>1, <1>2, <1>5, <1>7, <1>8 DEF IsUnlinked
<1>10. IsBare(g, namei(g, q))
  <2>1. \A n \in Name : <<i, n>> \notin DOMAIN g.entry
    <3>1. e[1] # i
      BY <1>1, <1>3 DEF e, KeyOf
    <3> QED BY <1>4, <1>8, <3>1
  <2> QED BY <1>2, <2>1 DEF IsBare
<1>11. OneName(g, f, q)
  BY <1>1, <1>2, <1>9, <1>10, InodeNumbers, OneNameGoes
<1> QED BY <1>11 DEF OneName

LEMMA GrowsContent ==
  ASSUME NEW f \in Volumes, NEW g \in Volumes, Grows(f, g), NEW p \in Seq(Name), Content(f, p) # {}
  PROVE  Content(g, p) = Content(f, p)
<1> DEFINE i == namei_follow(f, p)
<1>1. kind(f, i) = "file" /\ i \in Ino /\ i \in Used(f)
  <2>1. kind(f, i) = "file"
    BY DEF Content
  <2> QED BY <2>1, FollowNode, KindOf DEF Used
<1>2. Content(f, p) = {f.inode[i].data}
  BY <1>1, ContentIs
<1>3. namei_follow(g, p) = i
  BY <1>1, InodeNumbers, GrowsFollow
<1> HIDE DEF i
<1>4. g.inode[i] = f.inode[i]
  BY <1>1 DEF Grows
<1>5. kind(g, i) = "file"
  BY <1>1, <1>4, KindOf
<1> QED BY <1>2, <1>3, <1>4, <1>5, ContentIs

LEMMA DataContent ==
  ASSUME NEW f \in Volumes, NEW g \in Volumes, SameTree(f, g), NEW d,
         \A j \in Ino : j # d => g.inode[j] = f.inode[j], NEW p \in Seq(Name)
  PROVE  namei_follow(f, p) # d => Content(g, p) = Content(f, p)
<1> DEFINE i == namei_follow(f, p)
<1>1. namei_follow(g, p) = i
  BY SameTreeFollow
<1>2. \A j \in Ino : kind(g, j) = kind(f, j)
  BY KindOf DEF SameTree
<1> QED BY <1>1, <1>2 DEF Content

DestInv ==
  cmd \in CopyCmds =>
    /\ cmd.pc = "copy" => cmd.d = namei_follow(fs, cmd.dst)
    /\ cmd.pc = "delete" => cmd.op = "mv"

\* What OnlyTargets says of a step.
OnlyTouches ==
  cmd # Idle /\ cmd' # Idle /\ fs' # fs =>
    /\ \A p \in Path :
         namei(fs, p) # namei(fs', p) =>
           \E t \in Targets :
             p = t \/ (cmd.op = "mkdir_p" /\ IsPrefix(p, t)) \/ (cmd.op = "rm_r" /\ IsPrefix(t, p))
    /\ \A p \in Path :
         (Content(fs, p) # Content(fs', p) /\ {} \notin {Content(fs, p), Content(fs', p)})
           => cmd.op \in {"cp", "mv"} /\ namei_follow(fs, p) = namei_follow(fs, cmd.dst)

LEMMA CopyTouches ==
  ASSUME CmdInv, DestInv, CopySteps
  PROVE  OnlyTouches
<1>1. /\ cmd \in CopyCmds /\ cmd.src \in Paths /\ cmd.dst \in Paths /\ fs \in Volumes
      /\ cmd.op \in {"cp", "mv"} /\ cmd.dst \in Seq(Name) /\ Path \subseteq Seq(Name)
  <2>1. cmd \in CopyCmds /\ fs \in Volumes /\ cmd.src \in Paths /\ cmd.dst \in Paths
    BY CopySame DEF CmdInv
  <2> QED BY <2>1, PathTypes DEF CopyCmds
<1>2. cmd.dst \in Targets /\ (cmd.op = "mv" => cmd.src \in Targets)
  BY <1>1 DEF Targets
<1>3. CASE OpenSource \/ CloseBoth
  BY <1>3 DEF OpenSource, CloseBoth, OnlyTouches
<1>4. CASE CreateDest
  <2>1. fs' = Make(fs, cmd.dst, File)
    BY <1>4 DEF CreateDest
  <2>2. fs' \in Volumes /\ Grows(fs, fs') /\ (fs' # fs => IsMade(fs, fs', cmd.dst, File))
    BY <1>1, <2>1, MakeVolume, PathTypes
  <2>3. fs' # fs => OneName(fs, fs', cmd.dst)
    BY <1>1, <2>2, OneNameComes, PathTypes
  <2>4. \A p \in Path : Content(fs, p) # {} => Content(fs', p) = Content(fs, p)
    BY <1>1, <2>2, GrowsContent
  <2> QED BY <1>1, <1>2, <2>3, <2>4 DEF OnlyTouches, OneName
<1>5. ASSUME fs' \in Volumes, SameTree(fs, fs'),
             \A j \in Ino : j # namei_follow(fs, cmd.dst) => fs'.inode[j] = fs.inode[j]
      PROVE  OnlyTouches
  <2>1. \A p \in Path : namei(fs', p) = namei(fs, p)
    BY <1>5, SameTreeNamei
  <2>2. \A p \in Path : namei_follow(fs, p) # namei_follow(fs, cmd.dst) => Content(fs', p) = Content(fs, p)
    BY <1>1, <1>5, DataContent
  <2> QED BY <1>1, <2>1, <2>2 DEF OnlyTouches
<1>6. CASE OpenDest
  <2>1. fs' = Emptied(fs, cmd.dst)
    BY <1>6 DEF OpenDest
  <2> QED BY <1>1, <1>5, <2>1, EmptiedVolume
<1>7. CASE Copy
  <2>1. cmd.pc = "copy" /\ cmd.d = namei_follow(fs, cmd.dst) /\ cmd.d \in Ino /\ kind(fs, cmd.d) = "file"
        /\ cmd.wpos \in Nat
    BY <1>1, <1>7 DEF Copy, CmdInv, DestInv, CopyCmds
  <2>2. CASE fs' = fs
    BY <2>2 DEF OnlyTouches
  <2>3. CASE \E b \in Block : fs' = fs_write(fs, cmd.d, cmd.wpos, b)
    <3>1. /\ fs' \in Volumes /\ SameTree(fs, fs')
          /\ \A j \in Ino : j # cmd.d => fs'.inode[j] = fs.inode[j]
      BY <1>1, <2>1, <2>3, WriteVolume
    <3> QED BY <1>5, <2>1, <3>1
  <2> QED BY <1>7, <2>2, <2>3, CopyIs
<1>8. CASE DeleteSource
  <2>1. fs' = fs_delete(fs, cmd.src) /\ cmd.op = "mv"
    BY <1>1, <1>8 DEF DeleteSource, DestInv
  <2>2. fs' \in Volumes /\ Removes(fs, fs', cmd.src)
    BY <1>1, <2>1, DeleteVolume
  <2>3. fs' # fs => OneName(fs, fs', cmd.src)
    BY <1>1, <2>2, OneNameGoes DEF Removes
  <2>4. Grows(fs', fs)
    BY <1>1, <2>2, RemovesNames
  <2>5. \A p \in Path : Content(fs', p) # {} => Content(fs, p) = Content(fs', p)
    BY <1>1, <2>2, <2>4, GrowsContent
  <2> QED BY <1>1, <1>2, <2>1, <2>3, <2>5 DEF OnlyTouches, OneName
<1> QED BY <1>3, <1>4, <1>6, <1>7, <1>8 DEF CopySteps

\* A call for an item changes no name but the path of the item.
LEMMA DoItemNames ==
  ASSUME CmdInv, DoItem, fs' # fs
  PROVE  OneName(fs, fs', Head(cmd.todo).path)
<1> DEFINE item == Head(cmd.todo)
           p == item.path
<1>1. cmd \in ListCmds /\ item \in ToDo /\ fs \in Volumes
  BY DoItemIs DEF CmdInv
<1>2. \/ Call(Make(fs, p, File), item) \/ Call(Make(fs, p, Dir), item)
      \/ Call(fs_delete(fs, p), item) \/ Call(fs_rmdir(fs, p), item)
      \/ Descend(p) \/ UNCHANGED <<fs, host>>
  BY DEF DoItem
<1> HIDE DEF item
<1>3. p \in Paths
  BY <1>1 DEF ToDo
<1>4. \/ \E node \in {File, Dir} : fs' = Make(fs, p, node)
      \/ fs' = fs_delete(fs, p) \/ fs' = fs_rmdir(fs, p)
  BY <1>2 DEF Call, Descend
<1>5. CASE \E node \in {File, Dir} : fs' = Make(fs, p, node)
  <2>1. PICK node \in {File, Dir} : fs' = Make(fs, p, node)
    BY <1>5
  <2>2. node \in NewNodes
    BY PathTypes
  <2>3. CASE IsMade(fs, fs', p, node)
    BY <1>1, <1>3, <2>2, <2>3, OneNameComes DEF item
  <2>4. CASE IsLeaked(fs, fs', node)
    <3>1. fs'.entry = fs.entry
      BY <1>1, <2>2, <2>4, LeakedVolume
    <3> QED BY <3>1, EntryNamei DEF OneName
  <2> QED BY <1>1, <1>3, <2>1, <2>2, <2>3, <2>4, MakeVolume
<1>6. CASE fs' = fs_delete(fs, p) \/ fs' = fs_rmdir(fs, p)
  <2>1. fs' \in Volumes /\ Removes(fs, fs', p)
    BY <1>1, <1>3, <1>6, DeleteVolume, RmdirVolume
  <2> QED BY <1>1, <1>3, <2>1, OneNameGoes DEF Removes, item
<1> QED BY <1>4, <1>5, <1>6

LEMMA ItemTouches ==
  ASSUME CmdInv, ListInv, DoItem
  PROVE  OnlyTouches
<1> DEFINE item == Head(cmd.todo)
           a == cmd.args[At]
<1> SUFFICES ASSUME fs' # fs
             PROVE  OnlyTouches
  BY DEF OnlyTouches
<1>1. /\ cmd \in ListCmds /\ cmd.todo # << >> /\ item \in ToDo /\ fs \in Volumes /\ fs' \in Volumes
      /\ \/ \E ok \in BOOLEAN : Outcome(ok, item) /\ Effect(item, ok)
         \/ item.what = "rm_r" /\ Descend(item.path)
  BY DoItemIs DEF CmdInv
<1>2. cmd.todo \in Seq(ToDo) /\ cmd.args \in Seq(Path)
      /\ cmd.op \in {"touch", "rm", "rm_r", "mkdir", "mkdir_p"}
  BY <1>1 DEF ListCmds
<1>3. Near(cmd.op, item.path, a)
  <2>1. item = cmd.todo[1] /\ 1 \in 1 .. Len(cmd.todo)
    BY <1>1, <1>2, TailIs
  <2>2. OfArgument(cmd.todo)
    BY <1>1 DEF ListInv
  <2> QED BY <2>1, <2>2 DEF OfArgument
<1>4. a \in Targets
  <2>1. At \in 0 .. Len(cmd.args) /\ At # 0 /\ Len(cmd.args) \in Nat
    BY <1>1, <1>2, SeqIs DEF ListInv
  <2>2. At \in DOMAIN cmd.args
    <3>1. At \in 1 .. Len(cmd.args)
      BY <2>1
    <3> QED BY <1>2, <3>1
  <2>3. Targets = {cmd.args[i] : i \in DOMAIN cmd.args}
    BY <1>2 DEF Targets
  <2> QED BY <2>2, <2>3
<1>5. Grows(fs, fs') \/ Grows(fs', fs)
  BY <1>1 DEF Effect, Descend, ToDo
<1>6. Path \subseteq Seq(Name)
  BY PathTypes
<1>7. \A p \in Path : Content(fs, p) # {} /\ Content(fs', p) # {} => Content(fs, p) = Content(fs', p)
  <2> TAKE p \in Path
  <2>1. p \in Seq(Name)
    BY <1>6
  <2> QED BY <1>1, <1>5, <2>1, GrowsContent
<1>8. OneName(fs, fs', item.path)
  BY DoItemNames
<1> HIDE DEF a, item
<1>9. \A p \in Path : namei(fs, p) # namei(fs', p) => Near(cmd.op, p, a)
  BY <1>3, <1>6, <1>8 DEF OneName
<1> QED BY <1>4, <1>7, <1>9 DEF OnlyTouches, Near

LEMMA DestSteps ==
  ASSUME CmdInv, ListInv, DestInv, [CommandsNext]_commands_vars
  PROVE  DestInv'
<1>1. CASE Prompt
  <2>1. \A c : c = Idle \/ c.pc \in {"source", "list"} => c.pc \notin {"copy", "delete"}
    BY IdleIs
  <2>2. cmd' = Idle \/ cmd'.pc \in {"source", "list"}
    <3>1. \/ cmd' = Idle
          \/ \E op, p, q : Begin_copy(op, p, q)
          \/ \E op, ps : Begin_list(op, ps)
      BY <1>1 DEF Prompt, ln, ln_s, chmod, open, write, close
    <3> QED BY <3>1 DEF Begin_copy, Begin_list
  <2> QED BY <2>1, <2>2 DEF DestInv
<1>2. CASE OpenSource \/ CreateDest
  <2>1. cmd \in CopyCmds
    BY <1>2, CopySame DEF CopySteps
  <2>2. \E pc \in {"create", "dest", "done"} :
          \/ cmd' = [cmd EXCEPT !.pc = pc] \/ \E r : cmd' = [cmd EXCEPT !.pc = pc, !.rc = r]
          \/ \E i : cmd' = [cmd EXCEPT !.pc = pc, !.s = i]
    BY <1>2, Zenon DEF OpenSource, CreateDest, Done
  <2>3. cmd'.pc \in {"create", "dest", "done"}
    BY <2>1, <2>2 DEF CopyCmds
  <2> QED BY <2>3 DEF DestInv
<1>3. CASE OpenDest
  <2>1. /\ cmd \in CopyCmds /\ cmd.dst \in Seq(Name) /\ SameCopy(cmd, cmd') /\ fs \in Volumes
        /\ fs' = Emptied(fs, cmd.dst)
    BY <1>3, CopySame, PathTypes DEF CopySteps, CmdInv, OpenDest
  <2>2. namei_follow(fs', cmd.dst) = namei_follow(fs, cmd.dst)
    BY <2>1, EmptiedVolume, SameTreeFollow
  <2> DEFINE i == namei_follow(fs, cmd.dst)
  <2>3. cmd' = [cmd EXCEPT !.pc = "copy", !.d = i] \/ cmd' = [cmd EXCEPT !.pc = "done", !.rc = -1]
    BY <1>3 DEF OpenDest, Done
  <2> HIDE DEF i
  <2>4. (cmd'.pc = "copy" /\ cmd'.d = i) \/ cmd'.pc = "done"
    BY <2>1, <2>3 DEF CopyCmds
  <2> QED BY <2>1, <2>2, <2>4 DEF DestInv, SameCopy, i
<1>4. CASE Copy
  <2>1. /\ cmd \in CopyCmds /\ cmd.dst \in Seq(Name) /\ SameCopy(cmd, cmd') /\ fs \in Volumes
        /\ cmd.d = namei_follow(fs, cmd.dst) /\ cmd.d \in Ino /\ kind(fs, cmd.d) = "file"
        /\ cmd.wpos \in Nat
    BY <1>4, CopySame, PathTypes DEF CopySteps, CmdInv, Copy, DestInv, CopyCmds
  <2>2. SameTree(fs, fs')
    <3>1. CASE fs' = fs
      BY <3>1 DEF SameTree
    <3>2. CASE \E b \in Block : fs' = fs_write(fs, cmd.d, cmd.wpos, b)
      BY <2>1, <3>2, WriteVolume
    <3> QED BY <1>4, <3>1, <3>2, CopyIs
  <2>3. fs' \in Volumes
    BY <1>4, CopyInv DEF CmdInv
  <2>4. namei_follow(fs', cmd.dst) = cmd.d
    BY <2>1, <2>2, <2>3, SameTreeFollow
  <2>5. cmd'.d = cmd.d /\ cmd'.pc \in {"copy", "close"}
    <3>1. cmd.pc = "copy"
      BY <1>4 DEF Copy
    <3>2. cmd' = [cmd EXCEPT !.pc = "close"] \/ \E r, w : cmd' = [cmd EXCEPT !.rpos = r, !.wpos = w]
      BY <1>4, Zenon DEF Copy
    <3> QED BY <2>1, <3>1, <3>2 DEF CopyCmds
  <2> QED BY <2>1, <2>4, <2>5 DEF DestInv, SameCopy
<1>5. CASE CloseBoth \/ DeleteSource
  <2>1. cmd \in CopyCmds /\ SameCopy(cmd, cmd')
    BY <1>5, CopySame DEF CopySteps
  <2>2. \/ cmd.op = "mv" /\ cmd' = [cmd EXCEPT !.pc = "delete"]
        \/ cmd' = [cmd EXCEPT !.pc = "done", !.rc = 0]
    BY <1>5 DEF CloseBoth, DeleteSource, Done
  <2>3. cmd'.pc = "done" \/ (cmd.op = "mv" /\ cmd'.pc = "delete")
    BY <2>1, <2>2 DEF CopyCmds
  <2> QED BY <2>1, <2>3 DEF DestInv, SameCopy
<1>6. CASE NextArg \/ DoItem
  <2>1. cmd' \in ListCmds
    BY <1>6, NextArgList, DoItemIs, OutcomeList, DescendList
  <2> QED BY <2>1 DEF DestInv, ListCmds, CopyCmds
<1>7. CASE Return \/ Crash
  <2>1. cmd' = Idle
    BY <1>7 DEF Return, Crash
  <2> QED BY <2>1, IdleIs DEF DestInv
<1>8. CASE save_to_file \/ UNCHANGED commands_vars
  <2>1. fs' = fs /\ cmd' = cmd
    BY <1>8 DEF save_to_file, commands_vars
  <2> QED BY <2>1 DEF DestInv
<1> QED BY <1>1, <1>2, <1>3, <1>4, <1>5, <1>6, <1>7, <1>8 DEF CommandsNext, Program

\* No command changes a name that is not its target, on the way to it (mkdir -p)
\* or below it (rm -r), nor what another file has in it.
THEOREM CommandsOnlyTargets == CommandsSpec => OnlyTargets
<1>1. CommandsInit => DestInv
  BY IdleIs DEF CommandsInit, DestInv
<1>2. CmdInv /\ ListInv /\ DestInv /\ [CommandsNext]_commands_vars => [OnlyTouches]_commands_vars
  <2> SUFFICES ASSUME CmdInv, ListInv, DestInv, CommandsNext
               PROVE  OnlyTouches
    OBVIOUS
  <2>1. CASE Prompt \/ Return \/ save_to_file \/ Crash
    BY <2>1 DEF Prompt, Return, save_to_file, Crash, OnlyTouches
  <2>2. CASE CopySteps
    BY <2>2, CopyTouches
  <2>3. CASE NextArg
    BY <2>3 DEF NextArg, OnlyTouches
  <2>4. CASE DoItem
    BY <2>4, ItemTouches
  <2> QED BY <2>1, <2>2, <2>3, <2>4 DEF CommandsNext, Program, CopySteps
<1>3. CmdInv /\ ListInv /\ DestInv /\ [CommandsNext]_commands_vars => (CmdInv /\ ListInv /\ DestInv)'
  BY CommandsSteps, DestSteps
<1> QED BY <1>1, <1>2, <1>3, CommandsStart, PTL DEF CommandsSpec, OnlyTargets, OnlyTouches
===============================================================================
