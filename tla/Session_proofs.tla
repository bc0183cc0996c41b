----------------------------- MODULE Session_proofs -----------------------------
(***************************************************************************)
(* Proofs about a session at the prompt.                                   *)
(*                                                                         *)
(* Its input (CliInput), for any number of lines and pages: what is run is *)
(* one whole line that was typed, and lines are run in the order in which  *)
(* they were typed.  A signal in the middle of a line that is not followed *)
(* at once is left out ("midline").                                        *)
(*                                                                         *)
(* Its commands (Shell), for any names and any sequence of commands: what  *)
(* memory and the files say of the users and the log agrees at the prompt; *)
(* the log, run again, gives the tree that is there; a pattern stands for  *)
(* names of the directory it names; a directory of /home belongs to one    *)
(* account.                                                                *)
(***************************************************************************)
EXTENDS CliInput, Shell, Stepwise, FiniteSetTheorems, SequenceTheorems, TLAPS

Careful == "midline" \notin Liberties

\* ---- The inductive invariant ----

Reading == caller = "line" /\ pc \in {"read_char", "read"}

\* All that was typed and not used yet: the part of a line that read_line has,
\* the buffer, and what read(2) will return.
stream == (IF Reading THEN out ELSE << >>) \o (inbuf \o queue)

\* What the pager still has in the buffer may have been canceled.
Skip == IF caller = "line" THEN 0 ELSE Len(inbuf)

\* In the middle of a line that the pager has begun to throw away.
InRest == caller = "rest" /\ pc # "EINTR"

\* What read_line has is about to be dropped.
Canceled == caller = "line" /\ pc = "EINTR"

Pieces == [line : Nat, first : BOOLEAN, eol : BOOLEAN]
Fates == {"waiting", "run", "dropped", "wrong"}

Types ==
  /\ tty \in BOOLEAN
  /\ kind \in Seq(Kinds)
  /\ fate \in Seq(Fates) /\ Len(fate) = Len(kind)
  /\ edit \in 0 .. Len(kind)
  /\ queue \in Seq(Pieces) /\ inbuf \in Seq(Pieces) /\ out \in Seq(Pieces)
  /\ caller \in {"line", "pager", "rest"}
  /\ pc \in {"read_char", "read", "EINTR", "run", "exiting", "done"}

\* The end of the input is not in the buffers, which a terminal fills with one
\* piece at a time; only a terminal has a pager.
Buffers ==
  /\ \A i \in 1 .. Len(inbuf) : inbuf[i] # Eof
  /\ \A i \in 1 .. Len(out) : out[i] # Eof
  /\ tty => Len(inbuf) <= 1
  /\ pc \in {"read", "EINTR"} \/ (tty /\ pc \in {"run", "exiting", "done"}) => inbuf = << >>
  /\ caller # "line" => tty /\ pc \in {"read_char", "read", "EINTR"}
  /\ Reading /\ out # << >> => Len(out) = 1 /\ ~ out[1].eol

\* The lines in the stream go up, and the two pieces of a line are next to each
\* other, in their order.
Ordered(s) ==
  /\ \A i \in 1 .. Len(s) :
       s[i] = Eof \/ (s[i].line \in Line /\ (s[i].first \/ s[i].eol))
  /\ \A i, j \in 1 .. Len(s) :
       i < j /\ s[i] # Eof /\ s[j] # Eof =>
         s[i].line < s[j].line
         \/ (j = i + 1 /\ s[i].line = s[j].line /\ ~ s[i].eol /\ ~ s[j].first)
  /\ \A i \in 2 .. Len(s) : ~ s[i].first => s[i - 1].line = s[i].line

\* The stream begins with the beginning of a line, and ends in the line that is
\* being typed.
Anchored(s) ==
  /\ s # << >> /\ ~ s[1].first => InRest
  /\ edit # 0 => IF s = << >> THEN InRest ELSE s[Len(s)] = Piece(edit, TRUE, FALSE)

\* After a part of a line come its rest, or the end of the input, or nothing yet.
Followed(s) ==
  \A i \in 1 .. Len(s) :
    i > Skip /\ ~ s[i].eol =>
      IF i < Len(s) THEN s[i + 1] = Eof \/ s[i + 1].line = s[i].line ELSE edit = s[i].line

\* The lines that wait are those of the stream, or were just canceled.
Waiting(s) ==
  /\ \A i \in 1 .. Len(s) :
       i > Skip /\ s[i] # Eof /\ s[i].first => fate[s[i].line] = "waiting"
  /\ \A k \in Line : fate[k] = "waiting" =>
       \/ \E i \in 1 .. Len(s) : s[i].line = k
       \/ Canceled /\ \E i \in 1 .. Len(out) : out[i].line = k
  /\ Canceled =>
       \A i \in 1 .. Len(out) :
         out[i].line \in Line /\ \A j \in 1 .. Len(s) : s[j].line # out[i].line

IInv ==
  /\ Types /\ Buffers
  /\ Ordered(stream) /\ Anchored(stream) /\ Followed(stream) /\ Waiting(stream)
  /\ pc = "run" => out # << >> /\ out[1].line \in Line
  /\ RunsOneLine /\ InOrder

\* ---- Sequences of pieces ----

\* s is a, b and c, one after the other.
IsJoined(s, a, b, c) ==
  /\ s \in Seq(Pieces) /\ Len(s) = Len(a) + Len(b) + Len(c)
  /\ \A i \in 1 .. Len(a) : s[i] = a[i]
  /\ \A i \in 1 .. Len(b) : s[Len(a) + i] = b[i]
  /\ \A i \in 1 .. Len(c) : s[Len(a) + Len(b) + i] = c[i]

LEMMA Joined ==
  ASSUME NEW a \in Seq(Pieces), NEW b \in Seq(Pieces), NEW c \in Seq(Pieces)
  PROVE  IsJoined(a \o (b \o c), a, b, c)
<1> DEFINE d == b \o c
<1>1. /\ d \in Seq(Pieces) /\ Len(d) = Len(b) + Len(c)
      /\ \A i \in 1 .. Len(b) : d[i] = b[i]
      /\ \A i \in 1 .. Len(c) : d[Len(b) + i] = c[i]
  OBVIOUS
<1> HIDE DEF d
<1> DEFINE s == a \o d
<1>5. d \in Seq(Pieces)
  BY <1>1
<1>2. /\ s \in Seq(Pieces) /\ Len(s) = Len(a) + Len(d)
      /\ \A i \in 1 .. Len(a) : s[i] = a[i]
      /\ \A i \in 1 .. Len(d) : s[Len(a) + i] = d[i]
  BY <1>5
<1> HIDE DEF s
<1>3. ASSUME NEW i \in 1 .. Len(b)
      PROVE  s[Len(a) + i] = b[i]
  <2>1. i \in 1 .. Len(d)
    BY <1>1
  <2> QED BY <1>1, <1>2, <2>1
<1>4. ASSUME NEW i \in 1 .. Len(c)
      PROVE  s[Len(a) + Len(b) + i] = c[i]
  <2>1. Len(b) + i \in 1 .. Len(d) /\ Len(a) + Len(b) + i = Len(a) + (Len(b) + i)
    BY <1>1
  <2> QED BY <1>1, <1>2, <2>1
<1> QED BY <1>1, <1>2, <1>3, <1>4 DEF IsJoined, s, d

\* t is s without its first m pieces.
IsRemainder(t, s, m) ==
  /\ s \in Seq(Pieces) /\ t \in Seq(Pieces)
  /\ m \in 0 .. Len(s) /\ Len(t) = Len(s) - m
  /\ \A i \in 1 .. Len(t) : t[i] = s[i + m]

\* The first part goes.
LEMMA WithoutFirst ==
  ASSUME NEW a \in Seq(Pieces), NEW b \in Seq(Pieces), NEW c \in Seq(Pieces), NEW s, NEW t,
         IsJoined(s, a, b, c), IsJoined(t, << >>, b, c)
  PROVE  IsRemainder(t, s, Len(a))
<1> USE DEF IsJoined
<1>1. \A i \in 1 .. Len(t) : t[i] = s[i + Len(a)]
  <2> SUFFICES ASSUME NEW i \in 1 .. Len(t)
               PROVE  t[i] = s[i + Len(a)]
    OBVIOUS
  <2>1. CASE i <= Len(b)
    BY <2>1
  <2>2. CASE i > Len(b)
    <3>1. i - Len(b) \in 1 .. Len(c) /\ Len(b) + (i - Len(b)) = i
      BY <2>2
    <3>2. t[i] = c[i - Len(b)]
      BY <3>1
    <3>3. s[Len(a) + Len(b) + (i - Len(b))] = c[i - Len(b)]
      BY <3>1
    <3> QED BY <3>1, <3>2, <3>3
  <2> QED BY <2>1, <2>2
<1> QED BY <1>1 DEF IsRemainder

\* And one more, out of the second part or the third.
LEMMA WithoutNext ==
  ASSUME NEW a \in Seq(Pieces), NEW b \in Seq(Pieces), NEW c \in Seq(Pieces), NEW s, NEW t,
         b # << >>, IsJoined(s, a, b, c), IsJoined(t, << >>, Tail(b), c)
  PROVE  IsRemainder(t, s, Len(a) + 1) /\ s[Len(a) + 1] = Head(b)
<1> USE DEF IsJoined
<1> DEFINE u == Tail(b)
<1>1. u \in Seq(Pieces) /\ Len(u) = Len(b) - 1 /\ \A i \in 1 .. Len(u) : u[i] = b[i + 1]
  OBVIOUS
<1>2. Len(b) > 0 /\ Head(b) = b[1]
  OBVIOUS
<1>7. /\ Len(a) \in Nat /\ Len(b) \in Nat /\ Len(c) \in Nat
      /\ \A i \in 1 .. Len(b) : s[Len(a) + i] = b[i]
      /\ \A i \in 1 .. Len(c) : s[Len(a) + Len(b) + i] = c[i]
  OBVIOUS
<1> HIDE DEF u
<1>3. ASSUME NEW i \in 1 .. Len(t)
      PROVE  t[i] = s[i + (Len(a) + 1)]
  <2>1. CASE i <= Len(u)
    <3>1. t[i] = u[i] /\ i + 1 \in 1 .. Len(b)
      BY <1>1, <2>1 DEF u
    <3>2. s[Len(a) + (i + 1)] = b[i + 1]
      BY <1>7, <3>1
    <3> QED BY <1>1, <1>7, <2>1, <3>1, <3>2
  <2>2. CASE i > Len(u)
    <3>1. i - Len(u) \in 1 .. Len(c) /\ Len(u) + (i - Len(u)) = i
      BY <1>1, <2>2 DEF u
    <3>2. t[i] = c[i - Len(u)]
      BY <3>1 DEF u
    <3>3. s[Len(a) + Len(b) + (i - Len(u))] = c[i - Len(u)]
      BY <1>7, <3>1
    <3> QED BY SMTT(30), <1>1, <1>7, <3>1, <3>2, <3>3
  <2> QED BY <2>1, <2>2
<1>4. Len(t) = Len(s) - (Len(a) + 1) /\ Len(a) + 1 \in 0 .. Len(s)
  BY <1>1, <1>2 DEF u
<1>5. s[Len(a) + 1] = Head(b)
  <2>1. 1 \in 1 .. Len(b)
    BY <1>2
  <2> QED BY <1>2, <2>1
<1> QED BY <1>3, <1>4, <1>5 DEF IsRemainder

LEMMA WithoutThird ==
  ASSUME NEW a \in Seq(Pieces), NEW c \in Seq(Pieces), NEW s, NEW t,
         c # << >>, IsJoined(s, a, << >>, c), IsJoined(t, << >>, << >>, Tail(c))
  PROVE  IsRemainder(t, s, Len(a) + 1) /\ s[Len(a) + 1] = Head(c)
<1> DEFINE u == Tail(c)
<1>1. /\ u \in Seq(Pieces) /\ Len(u) = Len(c) - 1 /\ \A i \in 1 .. Len(u) : u[i] = c[i + 1]
      /\ Len(c) > 0 /\ Head(c) = c[1] /\ Len(<< >>) = 0
  OBVIOUS
<1>2. /\ s \in Seq(Pieces) /\ Len(s) = Len(a) + Len(c)
      /\ \A i \in 1 .. Len(c) : s[Len(a) + i] = c[i]
  BY <1>1 DEF IsJoined
<1>3. IsJoined(t, << >>, << >>, u)
  OBVIOUS
<1> HIDE DEF u
<1>4. t \in Seq(Pieces) /\ Len(t) = Len(u) /\ \A i \in 1 .. Len(u) : t[i] = u[i]
  BY <1>1, <1>3 DEF IsJoined
<1>5. ASSUME NEW i \in 1 .. Len(t)
      PROVE  t[i] = s[i + (Len(a) + 1)]
  <2>1. i \in 1 .. Len(u) /\ i + 1 \in 1 .. Len(c) /\ Len(a) + (i + 1) = i + (Len(a) + 1)
    BY <1>1, <1>4
  <2> QED BY <1>1, <1>2, <1>4, <2>1
<1>6. s[Len(a) + 1] = Head(c)
  <2>1. 1 \in 1 .. Len(c)
    BY <1>1
  <2> QED BY <1>1, <1>2, <2>1
<1> QED BY <1>1, <1>2, <1>4, <1>5, <1>6 DEF IsRemainder

\* A piece goes from the second part to the first, or some from the third to the
\* second.
LEMMA PieceMoves ==
  ASSUME NEW a \in Seq(Pieces), NEW b \in Seq(Pieces), NEW c \in Seq(Pieces), NEW s, NEW t,
         b # << >>, IsJoined(s, a, b, c), IsJoined(t, Append(a, Head(b)), Tail(b), c)
  PROVE  IsRemainder(t, s, 0)
<1> USE DEF IsJoined
<1> DEFINE u == Tail(b)
           v == Append(a, Head(b))
<1>1. u \in Seq(Pieces) /\ Len(u) = Len(b) - 1 /\ \A i \in 1 .. Len(u) : u[i] = b[i + 1]
  OBVIOUS
<1>2. /\ Len(b) > 0 /\ v \in Seq(Pieces) /\ Len(v) = Len(a) + 1 /\ v[Len(a) + 1] = b[1]
      /\ \A i \in 1 .. Len(a) : v[i] = a[i]
  OBVIOUS
<1>3. IsJoined(t, v, u, c)
  OBVIOUS
<1> HIDE DEF u, v
<1>4. ASSUME NEW i \in 1 .. Len(t)
      PROVE  t[i] = s[i]
  <2>1. CASE i <= Len(a)
    BY <1>2, <1>3, <2>1
  <2>2. CASE i = Len(a) + 1
    <3>1. t[i] = b[1]
      BY <1>2, <1>3, <2>2
    <3> QED BY <1>2, <2>2, <3>1
  <2>3. CASE i > Len(a) + 1 /\ i <= Len(a) + Len(b)
    <3> DEFINE j == i - Len(a) - 1
    <3>1. j \in 1 .. Len(u) /\ j + 1 \in 1 .. Len(b) /\ Len(v) + j = i /\ Len(a) + (j + 1) = i
      BY <1>1, <1>2, <2>3
    <3> HIDE DEF j
    <3>2. t[Len(v) + j] = u[j] /\ s[Len(a) + (j + 1)] = b[j + 1]
      BY <1>3, <3>1
    <3> QED BY <1>1, <3>1, <3>2
  <2>4. CASE i > Len(a) + Len(b)
    <3> DEFINE j == i - Len(a) - Len(b)
    <3>1. j \in 1 .. Len(c) /\ Len(v) + Len(u) + j = i /\ Len(a) + Len(b) + j = i
      BY <1>1, <1>2, <1>3, <2>4
    <3> HIDE DEF j
    <3>2. t[Len(v) + Len(u) + j] = c[j] /\ s[Len(a) + Len(b) + j] = c[j]
      BY <1>3, <3>1
    <3> QED BY <3>1, <3>2
  <2> QED BY <1>1, <1>2, <1>3, <2>1, <2>2, <2>3, <2>4
<1>5. Len(t) = Len(s)
  BY <1>1, <1>2, <1>3
<1> QED BY <1>4, <1>5 DEF IsRemainder

LEMMA SomeMove ==
  ASSUME NEW a \in Seq(Pieces), NEW c \in Seq(Pieces), NEW s, NEW t, NEW n \in 1 .. Len(c),
         IsJoined(s, a, << >>, c),
         IsJoined(t, a, SubSeq(c, 1, n), SubSeq(c, n + 1, Len(c)))
  PROVE  IsRemainder(t, s, 0)
<1> USE DEF IsJoined
<1> DEFINE u == SubSeq(c, 1, n)
           v == SubSeq(c, n + 1, Len(c))
<1>a. n \in Int /\ n + 1 \in Int /\ Len(c) \in Int /\ n <= Len(c) /\ \A i \in 1 .. Len(c) : c[i] \in Pieces
  OBVIOUS
<1>1. u \in Seq(Pieces) /\ Len(u) = n /\ \A i \in 1 .. n : u[i] = c[i]
  <2>1. \A i \in 1 .. n : c[i] \in Pieces
    BY <1>a
  <2> QED BY <1>a, <2>1, SubSeqProperties
<1>2. v \in Seq(Pieces) /\ Len(v) = Len(c) - n /\ \A i \in 1 .. Len(v) : v[i] = c[n + i]
  <2>1. \A i \in n + 1 .. Len(c) : c[i] \in Pieces
    BY <1>a
  <2>2. /\ v \in Seq(Pieces) /\ Len(v) = (IF n + 1 <= Len(c) THEN Len(c) - (n + 1) + 1 ELSE 0)
        /\ \A i \in 1 .. Len(c) - (n + 1) + 1 : v[i] = c[(n + 1) + i - 1]
    BY <1>a, <2>1, SubSeqProperties
  <2> HIDE DEF v
  <2>3. Len(v) = Len(c) - n
    BY <1>a, <2>2
  <2>4. ASSUME NEW i \in 1 .. Len(v)
        PROVE  v[i] = c[n + i]
    <3>1. i \in Int /\ 1 <= i /\ i <= Len(c) - n
      BY <1>a, <2>3
    <3>2. (n + 1) + i - 1 = n + i /\ i \in 1 .. Len(c) - (n + 1) + 1
      BY <1>a, <3>1
    <3> QED BY <2>2, <3>2
  <2> QED BY <2>2, <2>3, <2>4
<1>3. IsJoined(t, a, u, v)
  OBVIOUS
<1>0. /\ s \in Seq(Pieces) /\ Len(s) = Len(a) + Len(c)
      /\ \A i \in 1 .. Len(a) : s[i] = a[i]
      /\ \A i \in 1 .. Len(c) : s[Len(a) + i] = c[i]
  <2>1. Len(<< >>) = 0 /\ Len(a) + 0 = Len(a) /\ Len(a) \in Nat
    OBVIOUS
  <2> QED BY <2>1
<1>6. /\ t \in Seq(Pieces) /\ Len(t) = Len(a) + Len(u) + Len(v)
      /\ \A i \in 1 .. Len(a) : t[i] = a[i]
      /\ \A i \in 1 .. Len(u) : t[Len(a) + i] = u[i]
      /\ \A i \in 1 .. Len(v) : t[Len(a) + Len(u) + i] = v[i]
  BY <1>3
<1> HIDE DEF u, v, IsJoined
<1>4. ASSUME NEW i \in 1 .. Len(t)
      PROVE  t[i] = s[i]
  <2>1. CASE i <= Len(a)
    BY <1>0, <1>6, <2>1
  <2>2. CASE i > Len(a) /\ i <= Len(a) + n
    <3> DEFINE j == i - Len(a)
    <3>1. j \in 1 .. n /\ j \in 1 .. Len(c) /\ Len(a) + j = i
      BY <2>2
    <3> HIDE DEF j
    <3> QED BY <1>0, <1>1, <1>6, <3>1
  <2>3. CASE i > Len(a) + n
    <3> DEFINE j == i - Len(a) - n
    <3>1. j \in 1 .. Len(v) /\ n + j \in 1 .. Len(c) /\ Len(a) + n + j = i /\ Len(a) + (n + j) = i
      <4>1. Len(t) = Len(a) + n + Len(v) /\ Len(v) = Len(c) - n /\ i <= Len(t) /\ i \in Nat
        <5>1. Len(t) = Len(a) + Len(u) + Len(v)
          BY <1>6
        <5>2. Len(u) = n /\ Len(v) = Len(c) - n
          BY <1>1, <1>2
        <5>3. Len(t) \in Nat
          BY <1>6
        <5> QED BY <5>1, <5>2, <5>3
      <4>2. n \in Nat /\ Len(a) \in Nat /\ Len(c) \in Nat
        OBVIOUS
      <4> QED BY <2>3, <4>1, <4>2
    <3> HIDE DEF j
    <3>2. t[Len(a) + n + j] = v[j] /\ s[Len(a) + (n + j)] = c[n + j]
      BY <1>0, <1>1, <1>6, <3>1
    <3> QED BY <1>2, <3>1, <3>2
  <2> QED BY <1>0, <1>1, <1>2, <1>6, <2>1, <2>2, <2>3
<1>5. Len(t) = Len(s)
  BY <1>0, <1>1, <1>2, <1>6
<1>7. t \in Seq(Pieces) /\ s \in Seq(Pieces) /\ Len(s) \in Nat
  BY <1>0, <1>6
<1>8. \A i \in 1 .. Len(t) : t[i] = s[i + 0]
  BY <1>4
<1> QED BY <1>5, <1>7, <1>8 DEF IsRemainder

\* ---- Steps that use up the front of the stream ----

Flow == Ordered(stream) /\ Anchored(stream) /\ Followed(stream) /\ Waiting(stream)

\* The first m pieces are used, and the lines of G with them or with a line that
\* was canceled.
LEMMA RemainderKeeps ==
  ASSUME Flow, Skip \in Nat, Skip' \in Nat, kind' = kind, edit' = edit,
         NEW m, IsRemainder(stream', stream, m), Skip <= Skip' + m,
         m = 0 => (InRest => InRest'),
         m # 0 => stream[m].eol \/ InRest' \/ (m < Len(stream) /\ stream[m + 1] = Eof),
         NEW G, \A k \in Line : IF k \in G THEN fate'[k] # "waiting" ELSE fate'[k] = fate[k],
         \A i \in 1 .. m : stream[i] = Eof \/ stream[i].line \in G,
         \A k \in G : \/ Canceled /\ \E i \in 1 .. Len(out) : out[i].line = k
                      \/ \E i \in 1 .. m : stream[i] # Eof /\ stream[i].line = k,
         Canceled => \A i \in 1 .. Len(out) : out[i].line \in G,
         ~ Canceled'
  PROVE  Flow'
<1> DEFINE s == stream
<1>0. PICK t : t = stream'
  OBVIOUS
<1>1. /\ s \in Seq(Pieces) /\ t \in Seq(Pieces) /\ m \in 0 .. Len(s) /\ Len(t) = Len(s) - m
      /\ \A i \in 1 .. Len(t) : t[i] = s[i + m]
      /\ Len(s) \in Nat /\ Len(t) \in Nat /\ m \in Nat
  <2> HIDE DEF s
  <2>1. IsRemainder(t, s, m)
    BY <1>0 DEF s
  <2>2. /\ s \in Seq(Pieces) /\ t \in Seq(Pieces) /\ m \in 0 .. Len(s) /\ Len(t) = Len(s) - m
        /\ \A i \in 1 .. Len(t) : t[i] = s[i + m]
    BY <2>1, Zenon DEF IsRemainder
  <2>3. Len(s) \in Nat /\ Len(t) \in Nat
    BY <2>2
  <2>4. m \in Nat
    BY <2>2, <2>3
  <2> QED BY <2>2, <2>3, <2>4
<1>2. Ordered(s) /\ Anchored(s) /\ Followed(s) /\ Waiting(s) /\ Line' = Line
  BY DEF Flow, Line
<1> HIDE DEF s
<1>3. \A i \in 1 .. Len(t) : i + m \in 1 .. Len(s) /\ i + m > m
  BY <1>1
<1>9. ASSUME NEW i \in 1 .. Len(t), i > Skip'
      PROVE  i + m > Skip
  <2>1. \A x, y \in Nat : x <= y + m /\ i > y => i + m > x
    BY <1>1
  <2> QED BY <1>9, <2>1
<1>4. Ordered(stream)'
  <2>1. \A i \in 1 .. Len(t) : t[i] = Eof \/ (t[i].line \in Line /\ (t[i].first \/ t[i].eol))
    BY <1>1, <1>2, <1>3 DEF Ordered
  <2>2. ASSUME NEW i \in 1 .. Len(t), NEW j \in 1 .. Len(t), i < j, t[i] # Eof, t[j] # Eof
        PROVE  t[i].line < t[j].line
               \/ (j = i + 1 /\ t[i].line = t[j].line /\ ~ t[i].eol /\ ~ t[j].first)
    <3>1. i + m < j + m /\ (j + m = (i + m) + 1 => j = i + 1)
      BY <1>1, <2>2
    <3> DEFINE x == i + m
               y == j + m
    <3>2. x \in 1 .. Len(s) /\ y \in 1 .. Len(s) /\ t[i] = s[x] /\ t[j] = s[y]
      BY <1>1, <1>3
    <3>3. x < y /\ (y = x + 1 => j = i + 1)
      BY <3>1
    <3> HIDE DEF x, y
    <3>4. s[x].line < s[y].line
          \/ (y = x + 1 /\ s[x].line = s[y].line /\ ~ s[x].eol /\ ~ s[y].first)
      BY <1>2, <2>2, <3>2, <3>3 DEF Ordered
    <3> QED BY <3>2, <3>3, <3>4
  <2>3. ASSUME NEW i \in 2 .. Len(t), ~ t[i].first
        PROVE  t[i - 1].line = t[i].line
    <3> DEFINE x == i + m
               y == (i - 1) + m
    <3>1. i - 1 \in 1 .. Len(t) /\ i \in 1 .. Len(t)
      OBVIOUS
    <3>2. t[i] = s[x] /\ t[i - 1] = s[y]
      BY <1>1, <3>1
    <3>3. x \in 2 .. Len(s) /\ x - 1 = y
      <4>1. i \in Int /\ m \in Int /\ Len(s) \in Int /\ Len(t) = Len(s) - m /\ 2 <= i /\ i <= Len(t) /\ 0 <= m
        BY <1>1
      <4> QED BY SMTT(30), <4>1
    <3> HIDE DEF x, y
    <3>4. ~ s[x].first
      BY <2>3, <3>2
    <3>5. s[x - 1].line = s[x].line
      BY <1>2, <3>3, <3>4 DEF Ordered
    <3> QED BY <3>2, <3>3, <3>5
  <2> QED BY <1>0, <1>2, <2>1, <2>2, <2>3 DEF Ordered
<1>5. m # 0 /\ m < Len(s) /\ ~ s[m + 1].first => InRest'
  <2> SUFFICES ASSUME m # 0, m < Len(s), ~ s[m + 1].first, ~ InRest'
               PROVE  FALSE
    OBVIOUS
  <2>1. m + 1 \in 2 .. Len(s) /\ m \in 1 .. Len(s) /\ m + 1 \in 1 .. Len(s) /\ (m + 1) - 1 = m /\ m < m + 1
    BY <1>1
  <2>2. s[m + 1] # Eof
    BY DEF Eof, Piece
  <2>3. s[m].eol
    BY <2>2 DEF s
  <2>4. s[m].line = s[m + 1].line /\ s[m + 1].line \in Line
    BY <1>2, <2>1, <2>2 DEF Ordered
  <2>5. s[m] # Eof
    BY <2>4 DEF Eof, Piece, Line
  <2>6. s[m].line < s[m + 1].line \/ ~ s[m].eol
    BY <1>2, <2>1, <2>2, <2>5 DEF Ordered
  <2>7. s[m].line \in Nat
    BY <2>4 DEF Line
  <2> QED BY <2>3, <2>4, <2>6, <2>7
<1>6. Anchored(stream)'
  <2>1. ASSUME t # << >>, ~ t[1].first
        PROVE  InRest'
    <3>1. 1 \in 1 .. Len(t) /\ m < Len(s) /\ t[1] = s[1 + m] /\ 1 + m = m + 1
      BY <1>1, <2>1
    <3>2. CASE m = 0
      <4>1. s # << >> /\ ~ s[1].first
        BY <1>1, <2>1, <3>1, <3>2
      <4> QED BY <1>2, <3>2, <4>1 DEF Anchored
    <3> QED BY <1>5, <2>1, <3>1, <3>2
  <2>2. ASSUME edit # 0, t # << >>
        PROVE  t[Len(t)] = Piece(edit, TRUE, FALSE)
    <3>1. Len(t) \in 1 .. Len(t) /\ Len(t) + m = Len(s) /\ s # << >>
      BY <1>1, <2>2
    <3> QED BY <1>1, <1>2, <2>2, <3>1 DEF Anchored
  <2>3. ASSUME edit # 0, t = << >>
        PROVE  InRest'
    <3>1. m = Len(s)
      BY <1>1, <2>3
    <3>2. CASE m = 0
      <4>1. s = << >>
        BY <1>1, <3>1, <3>2, EmptySeq
      <4> QED BY <1>2, <2>3, <3>2, <4>1 DEF Anchored
    <3>3. CASE m # 0
      <4>1. s # << >> /\ ~ (m < Len(s))
        BY <1>1, <3>1, <3>3
      <4>2. ~ s[m].eol
        BY <1>2, <2>3, <3>1, <4>1 DEF Anchored, Piece
      <4> QED BY <3>3, <4>1, <4>2 DEF s
    <3> QED BY <3>2, <3>3
  <2> QED BY <1>0, <2>1, <2>2, <2>3 DEF Anchored
<1>7. Followed(stream)'
  <2> SUFFICES ASSUME NEW i \in 1 .. Len(t), i > Skip', ~ t[i].eol
               PROVE  IF i < Len(t) THEN t[i + 1] = Eof \/ t[i + 1].line = t[i].line
                      ELSE edit = t[i].line
    BY <1>0 DEF Followed
  <2>1. i + m \in 1 .. Len(s) /\ i + m > Skip /\ ~ s[i + m].eol /\ (i < Len(t) <=> i + m < Len(s))
    BY <1>1, <1>9
  <2>2. IF i + m < Len(s) THEN s[i + m + 1] = Eof \/ s[i + m + 1].line = s[i + m].line
        ELSE edit = s[i + m].line
    BY <1>2, <2>1 DEF Followed
  <2>3. i < Len(t) => t[i + 1] = s[i + m + 1]
    <3>1. i < Len(t) => i + 1 \in 1 .. Len(t) /\ (i + 1) + m = i + m + 1
      BY <1>1
    <3> QED BY <1>1, <3>1
  <2> QED BY <1>1, <2>1, <2>2, <2>3
<1>8. Waiting(stream)'
  <2>1. ASSUME NEW i \in 1 .. Len(t), i > Skip', t[i] # Eof, t[i].first
        PROVE  fate'[t[i].line] = "waiting"
    <3>1. i + m \in 1 .. Len(s) /\ i + m > Skip /\ t[i] = s[i + m]
      BY <1>1, <1>9, <2>1
    <3>2. t[i].line \in Line /\ fate[t[i].line] = "waiting"
      BY <1>2, <2>1, <3>1 DEF Ordered, Waiting
    <3>3. t[i].line \notin G
      <4>1. ASSUME NEW j \in 1 .. m, s[j] # Eof, s[j].line = t[i].line
            PROVE  FALSE
        <5>1. j \in 1 .. Len(s) /\ j < i + m
          BY <1>1
        <5>2. s[j].line < s[i + m].line \/ ~ s[i + m].first
          BY <1>2, <2>1, <3>1, <4>1, <5>1 DEF Ordered
        <5>3. t[i].line \in Nat
          BY <3>2 DEF Line
        <5> QED BY <2>1, <3>1, <4>1, <5>2, <5>3
      <4>2. ASSUME Canceled, NEW j \in 1 .. Len(out), out[j].line = t[i].line
            PROVE  FALSE
        BY <1>2, <3>1, <4>2 DEF Waiting
      <4> QED BY <4>1, <4>2 DEF s
    <3> QED BY <3>2, <3>3
  <2>2. ASSUME NEW k \in Line, fate'[k] = "waiting"
        PROVE  \E i \in 1 .. Len(t) : t[i].line = k
    <3>1. k \notin G /\ fate[k] = "waiting"
      BY <2>2
    <3>2. PICK i \in 1 .. Len(s) : s[i].line = k
      BY <1>2, <3>1 DEF Waiting
    <3>3. s[i] # Eof
      BY <3>2 DEF Eof, Piece, Line
    <3>4. ~ (i <= m)
      BY <1>1, <3>1, <3>2, <3>3 DEF s
    <3>5. i - m \in 1 .. Len(t) /\ (i - m) + m = i
      BY <1>1, <3>4
    <3> QED BY <1>1, <3>2, <3>5
  <2> QED BY <1>0, <1>2, <2>1, <2>2 DEF Waiting
<1> QED BY <1>4, <1>6, <1>7, <1>8 DEF Flow

\* ---- The steps of the program ----

\* A step that runs nothing leaves what was run alone.
LEMMA QuietKeeps ==
  ASSUME RunsOneLine, InOrder, kind' = kind, pc' # "run",
         \A k \in Line : fate'[k] \in {"run", "waiting"} => fate'[k] = fate[k]
  PROVE  RunsOneLine' /\ InOrder' /\ (pc = "run" => out # << >> /\ out[1].line \in Line)'
<1>1. Line' = Line
  BY DEF Line
<1>2. InOrder'
  <2> SUFFICES ASSUME NEW k \in Line, fate'[k] = "run", NEW j \in 1 .. k - 1, fate'[j] = "waiting"
               PROVE  FALSE
    BY <1>1 DEF InOrder
  <2>1. j \in Line /\ fate[k] = "run" /\ fate[j] = "waiting"
    BY DEF Line
  <2> QED BY <2>1 DEF InOrder
<1> QED BY <1>1, <1>2 DEF RunsOneLine

LEMMA Settles ==
  ASSUME Types, kind' = kind, NEW lines, NEW what \in Fates, Settle(lines, what)
  PROVE  /\ fate' \in Seq(Fates) /\ Len(fate') = Len(kind')
         /\ \A k \in Line : fate'[k] = IF k \notin lines THEN fate[k]
                                       ELSE IF fate[k] = "waiting" THEN what
                                       ELSE IF what = "run" THEN "wrong" ELSE fate[k]
<1> DEFINE n == Len(kind)
           f == [k \in 1 .. n |-> IF k \notin lines THEN fate[k]
                                  ELSE IF fate[k] = "waiting" THEN what
                                  ELSE IF what = "run" THEN "wrong" ELSE fate[k]]
<1>1. n \in Nat /\ fate \in Seq(Fates) /\ Len(fate) = n /\ DOMAIN fate = 1 .. n
  BY DEF Types
<1>2. fate' = f
  BY <1>1 DEF Settle
<1>3. \A k \in 1 .. n : fate[k] \in Fates
  BY <1>1
<1>4. f \in [1 .. n -> Fates]
  BY <1>3 DEF Fates
<1> HIDE DEF f
<1>5. f \in Seq(Fates) /\ Len(f) = n
  BY <1>1, <1>4
<1> QED BY <1>2, <1>5 DEF f, Line

\* The stream when read_line reads, and when it does not.
LEMMA StreamParts ==
  Types => /\ Reading => IsJoined(stream, out, inbuf, queue)
           /\ ~ Reading => IsJoined(stream, << >>, inbuf, queue)
           /\ Skip \in Nat /\ (caller = "line" => Skip = 0)
<1> SUFFICES ASSUME Types
             PROVE  /\ Reading => IsJoined(stream, out, inbuf, queue)
                    /\ ~ Reading => IsJoined(stream, << >>, inbuf, queue)
                    /\ Skip \in Nat /\ (caller = "line" => Skip = 0)
  OBVIOUS
<1>1. inbuf \in Seq(Pieces) /\ queue \in Seq(Pieces) /\ out \in Seq(Pieces) /\ << >> \in Seq(Pieces)
  BY DEF Types
<1>2. ASSUME Reading
      PROVE  IsJoined(stream, out, inbuf, queue)
  <2>1. stream = out \o (inbuf \o queue)
    BY <1>2 DEF stream
  <2> QED BY <1>1, <2>1, Joined
<1>3. ASSUME ~ Reading
      PROVE  IsJoined(stream, << >>, inbuf, queue)
  <2> DEFINE e == << >>
  <2>1. stream = e \o (inbuf \o queue) /\ e \in Seq(Pieces)
    BY <1>1, <1>3 DEF stream
  <2> HIDE DEF e
  <2>2. IsJoined(stream, e, inbuf, queue)
    BY <1>1, <2>1, Joined
  <2> QED BY <2>2 DEF e
<1>4. Skip \in Nat /\ (caller = "line" => Skip = 0)
  BY <1>1 DEF Skip
<1> QED BY <1>2, <1>3, <1>4

LEMMA StreamPartsNext ==
  (Types => /\ Reading => IsJoined(stream, out, inbuf, queue)
            /\ ~ Reading => IsJoined(stream, << >>, inbuf, queue)
            /\ Skip \in Nat /\ (caller = "line" => Skip = 0))'
BY StreamParts, PTL

\* The first m pieces are used and no line with them.
LEMMA UnsettledKeeps ==
  ASSUME Flow, Skip \in Nat, Skip' \in Nat, kind' = kind, edit' = edit, fate' = fate,
         NEW m, IsRemainder(stream', stream, m), Skip <= Skip' + m,
         m = 0 => (InRest => InRest'), \A i \in 1 .. m : stream[i] = Eof,
         ~ Canceled, ~ Canceled'
  PROVE  Flow'
<1>1. \E G : G = {}
  OBVIOUS
<1>2. PICK G : G = {}
  BY <1>1
<1>3. \A k \in Line : IF k \in G THEN fate'[k] # "waiting" ELSE fate'[k] = fate[k]
  BY <1>2
<1>4. m # 0 => stream[m].eol
  <2>1. m \in Nat
    BY DEF IsRemainder
  <2>2. m # 0 => m \in 1 .. m
    BY <2>1
  <2> QED BY <2>2 DEF Eof, Piece
<1>5. \A k \in G : \/ Canceled /\ \E i \in 1 .. Len(out) : out[i].line = k
                  \/ \E i \in 1 .. m : stream[i] # Eof /\ stream[i].line = k
  BY <1>2
<1> QED BY <1>3, <1>4, <1>5, RemainderKeeps

LEMMA ReadKeeps ==
  ASSUME IInv, Read
  PROVE  IInv'
<1>1. /\ pc = "read_char" /\ inbuf = << >> /\ pc' = "read"
      /\ kind' = kind /\ fate' = fate /\ edit' = edit /\ tty' = tty
      /\ queue' = queue /\ inbuf' = inbuf /\ out' = out /\ caller' = caller
  BY DEF Read, surroundings
<1>2. Types' /\ Buffers'
  BY <1>1 DEF IInv, Types, Buffers, Reading
<1>3. stream' = stream /\ Skip' = Skip /\ InRest' = InRest
  BY <1>1 DEF stream, Reading, Skip, InRest
<1>4. IsRemainder(stream', stream, 0)
  <2>1. stream \in Seq(Pieces)
    BY StreamParts DEF IInv, IsJoined
  <2> QED BY <1>3, <2>1 DEF IsRemainder
<1>5. Flow'
  <2>1. ~ Canceled /\ ~ Canceled' /\ Skip \in Nat
    BY <1>1, StreamParts DEF Canceled, IInv
  <2> QED BY <1>1, <1>3, <1>4, <2>1, UnsettledKeeps DEF IInv, Flow
<1> QED BY <1>1, <1>2, <1>5, QuietKeeps DEF IInv, Flow

LEMMA FillKeeps ==
  ASSUME IInv, Fill
  PROVE  IInv'
<1>1. /\ pc = "read" /\ inbuf = << >> /\ pc' = "read_char" /\ queue # << >>
      /\ kind' = kind /\ fate' = fate /\ edit' = edit /\ tty' = tty
      /\ out' = out /\ caller' = caller
      /\ queue \in Seq(Pieces) /\ inbuf \in Seq(Pieces) /\ out \in Seq(Pieces)
  BY DEF Fill, surroundings, IInv, Types, Buffers
<1>2. PICK n \in 1 .. Len(queue) :
        /\ \A i \in 1 .. n : queue[i] # Eof
        /\ tty => n = 1
        /\ inbuf' = SubSeq(queue, 1, n)
        /\ queue' = SubSeq(queue, n + 1, Len(queue))
  BY DEF Fill
<1>3. /\ inbuf' \in Seq(Pieces) /\ Len(inbuf') = n /\ \A i \in 1 .. n : inbuf'[i] = queue[i]
      /\ queue' \in Seq(Pieces)
  BY <1>1, <1>2
<1>4. Types'
  BY <1>1, <1>3 DEF IInv, Types, Line
<1>5. Buffers'
  BY <1>1, <1>2, <1>3 DEF IInv, Buffers, Reading
<1>6. IsRemainder(stream', stream, 0)
  <2>1. CASE caller = "line"
    <3>1. Reading /\ Reading'
      BY <1>1, <2>1 DEF Reading
    <3>2. IsJoined(stream, out, << >>, queue) /\ IsJoined(stream', out, inbuf', queue')
      BY <1>1, <1>4, <3>1, StreamParts, StreamPartsNext DEF IInv
    <3> QED BY <1>1, <1>2, <3>2, SomeMove
  <2>2. CASE caller # "line"
    <3>1. ~ Reading /\ ~ Reading'
      BY <1>1, <2>2 DEF Reading
    <3> DEFINE e == << >>
    <3>2. IsJoined(stream, e, << >>, queue) /\ IsJoined(stream', e, inbuf', queue') /\ e \in Seq(Pieces)
      BY <1>1, <1>4, <3>1, StreamParts, StreamPartsNext DEF IInv
    <3> HIDE DEF e
    <3> QED BY <1>1, <1>2, <3>2, SomeMove
  <2> QED BY <2>1, <2>2
<1>7. Flow'
  <2>1. ~ Canceled /\ ~ Canceled' /\ Skip = 0 /\ Skip \in Nat /\ Skip' \in Nat /\ InRest' = InRest
    BY <1>1, <1>4, StreamParts, StreamPartsNext DEF Canceled, IInv, Skip, InRest
  <2> QED BY <1>1, <1>6, <2>1, UnsettledKeeps DEF IInv, Flow
<1> QED BY <1>1, <1>4, <1>5, <1>7, QuietKeeps DEF IInv, Flow

\* A piece of a line that goes on.
LEMMA PartKeeps ==
  ASSUME IInv, TakePiece, ~ Head(inbuf).eol
  PROVE  IInv'
<1>1. /\ pc = "read_char" /\ inbuf # << >> /\ pc' = pc /\ caller = "line"
      /\ kind' = kind /\ fate' = fate /\ edit' = edit /\ tty' = tty
      /\ out' = Append(out, Head(inbuf)) /\ inbuf' = Tail(inbuf)
      /\ queue' = queue /\ caller' = caller
      /\ queue \in Seq(Pieces) /\ inbuf \in Seq(Pieces) /\ out \in Seq(Pieces)
  BY DEF TakePiece, surroundings, IInv, Types, Buffers
<1>2. /\ inbuf' \in Seq(Pieces) /\ Len(inbuf') = Len(inbuf) - 1 /\ Len(inbuf) > 0
      /\ \A i \in 1 .. Len(inbuf') : inbuf'[i] = inbuf[i + 1]
      /\ out' \in Seq(Pieces) /\ Len(out') = Len(out) + 1 /\ out'[Len(out) + 1] = inbuf[1]
      /\ \A i \in 1 .. Len(out) : out'[i] = out[i]
      /\ Head(inbuf) = inbuf[1]
  BY <1>1
<1>3. Types'
  BY <1>1, <1>2 DEF IInv, Types, Line
<1>4. Reading /\ Reading'
  BY <1>1 DEF Reading
<1>5. IsJoined(stream, out, inbuf, queue) /\ IsJoined(stream', out', inbuf', queue')
  BY <1>1, <1>3, <1>4, StreamParts, StreamPartsNext DEF IInv
\* Two parts of lines do not follow each other.
<1>6. out = << >>
  <2> SUFFICES ASSUME out # << >>
               PROVE  FALSE
    OBVIOUS
  <2>1. Len(out) = 1 /\ ~ out[1].eol
    BY <1>4 DEF IInv, Buffers
  <2>2. 1 \in 1 .. Len(out) /\ 1 \in 1 .. Len(inbuf)
    BY <1>2, <2>1
  <2>3. stream[1] = out[1] /\ stream[2] = inbuf[1] /\ 1 \in 1 .. Len(stream) /\ 2 \in 1 .. Len(stream)
    <3>1. stream[Len(out) + 1] = inbuf[1]
      BY <1>5, <2>2 DEF IsJoined
    <3>2. Len(stream) = Len(out) + Len(inbuf) + Len(queue) /\ stream[1] = out[1]
      BY <1>5, <2>2 DEF IsJoined
    <3>3. Len(queue) \in Nat /\ Len(inbuf) \in Nat
      BY <1>1
    <3> QED BY <1>2, <2>1, <3>1, <3>2, <3>3
  <2>4. inbuf[1] # Eof /\ out[1] # Eof
    BY <2>2 DEF IInv, Buffers
  <2>5. Skip = 0
    BY <1>1 DEF Skip
  <2>6. stream[2].line = stream[1].line
    <3>1. 1 < Len(stream) /\ 1 > Skip /\ 1 + 1 = 2
      BY <2>3, <2>5, <1>5 DEF IsJoined
    <3>2. stream[1 + 1] = Eof \/ stream[1 + 1].line = stream[1].line
      BY <2>1, <2>3, <3>1 DEF IInv, Followed
    <3> QED BY <2>3, <2>4, <3>1, <3>2
  <2>7. stream[1].line < stream[2].line \/ ~ stream[2].first
    BY <2>3, <2>4 DEF IInv, Ordered
  <2>8. stream[2].line \in Line /\ (stream[2].first \/ stream[2].eol)
    BY <2>3, <2>4 DEF IInv, Ordered
  <2>9. stream[2].line \in Nat
    BY <2>8 DEF Line
  <2> QED BY <1>2, <2>3, <2>6, <2>7, <2>8, <2>9
<1>7. Buffers'
  <2>1. Len(out') = 1 /\ out'[1] = inbuf[1] /\ 1 \in 1 .. Len(inbuf)
    BY <1>2, <1>6
  <2>2. \A i \in 1 .. Len(inbuf') : i + 1 \in 1 .. Len(inbuf)
    BY <1>2
  <2> QED BY <1>1, <1>2, <2>1, <2>2 DEF IInv, Buffers
<1>8. IsRemainder(stream', stream, 0)
  BY <1>1, <1>5, PieceMoves
<1>9. Flow'
  <2>1. ~ Canceled /\ ~ Canceled' /\ Skip = 0 /\ Skip \in Nat /\ Skip' \in Nat /\ InRest' = InRest
    BY <1>1, <1>3, StreamParts, StreamPartsNext DEF Canceled, IInv, Skip, InRest
  <2> QED BY <1>1, <1>8, <2>1, UnsettledKeeps DEF IInv, Flow
<1> QED BY <1>1, <1>3, <1>7, <1>9, QuietKeeps DEF IInv, Flow

\* What read_line has, is the front of the stream and part of one line: when it
\* is run, with the piece that ends it or at the end of the input, that is one
\* line, from its beginning, and those before it are settled.
LEMMA LineRuns ==
  ASSUME IInv, Types', Flow', Reading, ~ Reading', kind' = kind, pc' = "run",
         Settle(LinesOf(out'), "run"), out' # << >>, out' \in Seq(Pieces),
         NEW m, IsRemainder(stream', stream, m),
         Len(out') \in 1 .. m, \A i \in 1 .. Len(out') : out'[i] = stream[i] /\ out'[i] # Eof,
         Len(out') <= 2, \A i \in 1 .. Len(out') : i < Len(out') => ~ out'[i].eol
  PROVE  RunsOneLine' /\ InOrder' /\ (pc = "run" => out # << >> /\ out[1].line \in Line)'
<1> DEFINE l == out'[1].line
           n == Len(out')
<1>1. /\ stream \in Seq(Pieces) /\ m \in 0 .. Len(stream) /\ n \in Nat /\ n >= 1 /\ n <= m
      /\ \A i \in 1 .. n : i \in 1 .. Len(stream)
  BY DEF IsRemainder
<1>2. Skip = 0 /\ caller = "line" /\ pc # "run" /\ ~ InRest /\ ~ Canceled
  BY DEF Skip, Reading, InRest, Canceled
<1>3. 1 \in 1 .. n /\ out'[1] = stream[1] /\ out'[1] # Eof
  BY <1>1
<1>4. l \in Line /\ out'[1].first
  <2>1. l \in Line
    BY <1>1, <1>3 DEF IInv, Ordered
  <2>2. stream # << >>
    BY <1>1, <1>3
  <2> QED BY <1>2, <1>3, <2>1, <2>2 DEF IInv, Anchored
<1>5. \A i \in 1 .. n : out'[i].line = l
  <2> SUFFICES ASSUME NEW i \in 1 .. n
               PROVE  out'[i].line = l
    OBVIOUS
  <2>1. CASE i = 2
    <3>1. 1 < n /\ 1 < Len(stream) /\ 1 \in 1 .. Len(stream) /\ 1 > 0 /\ 1 + 1 = 2
      BY <1>1, <2>1
    <3>2. ~ stream[1].eol
      BY <1>3, <3>1
    <3>3. stream[1 + 1] = Eof \/ stream[1 + 1].line = stream[1].line
      BY <1>2, <3>1, <3>2 DEF IInv, Followed
    <3> QED BY <1>3, <2>1, <3>1, <3>3
  <2>2. CASE i = 1
    BY <2>2
  <2> QED BY <1>1, <2>1, <2>2
<1>6. LinesOf(out') = {l}
  <2>1. l # 0
    BY <1>4 DEF Line
  <2> QED BY <1>3, <1>5, <2>1 DEF LinesOf
<1>7. fate[l] = "waiting"
  BY <1>1, <1>2, <1>3, <1>4 DEF IInv, Waiting
<1>8. /\ fate'[l] = "run"
      /\ \A k \in Line \ {l} : fate'[k] = fate[k]
  BY <1>4, <1>6, <1>7, Settles DEF IInv, Fates
<1>9. RunsOneLine'
  BY <1>4, <1>5, <1>8 DEF RunsOneLine
<1>10. ASSUME NEW j \in Line, j < l
       PROVE  fate'[j] # "waiting"
  <2> SUFFICES ASSUME fate[j] = "waiting"
               PROVE  FALSE
    BY <1>8, <1>10
  <2>1. PICK i \in 1 .. Len(stream) : stream[i].line = j
    BY <1>2 DEF IInv, Waiting
  <2>2. j \in Nat /\ l \in Nat /\ j # 0
    BY <1>4 DEF Line
  <2>3. stream[i] # Eof
    BY <2>1, <2>2 DEF Eof, Piece
  <2>4. i # 1
    BY <1>3, <1>10, <2>1, <2>2
  <2>5. stream[1].line < stream[i].line \/ stream[1].line = stream[i].line
    <3>1. 1 < i /\ 1 \in 1 .. Len(stream)
      BY <1>1, <2>4
    <3> QED BY <1>3, <2>3, <3>1 DEF IInv, Ordered
  <2> QED BY <1>3, <1>10, <2>1, <2>2, <2>5
<1>11. InOrder'
  <2> SUFFICES ASSUME NEW k \in Line, fate'[k] = "run", NEW j \in 1 .. k - 1
               PROVE  fate'[j] # "waiting"
    BY DEF InOrder, Line
  <2>1. j \in Line /\ j < k /\ k \in Nat
    BY DEF Line
  <2>2. CASE k = l
    BY <1>10, <2>1, <2>2
  <2>3. CASE k # l
    BY <1>8, <2>1, <2>3 DEF IInv, InOrder, Fates
  <2> QED BY <2>2, <2>3
<1> QED BY <1>3, <1>4, <1>9, <1>11 DEF Line

\* The lines that are run leave the stream.
LEMMA RunLeaves ==
  ASSUME IInv, Types', Reading, ~ Canceled', InRest' = InRest, kind' = kind, edit' = edit,
         Settle(LinesOf(out'), "run"), out' \in Seq(Pieces), Skip' \in Nat,
         NEW m, IsRemainder(stream', stream, m), Len(out') \in 1 .. m,
         \A i \in 1 .. Len(out') : out'[i] = stream[i] /\ out'[i] # Eof,
         \A i \in Len(out') + 1 .. m : stream[i] = Eof,
         stream[m].eol \/ (m < Len(stream) /\ stream[m + 1] = Eof)
  PROVE  Flow'
<1> DEFINE G == LinesOf(out')
           n == Len(out')
<1>1. stream \in Seq(Pieces) /\ m \in Nat /\ m <= Len(stream) /\ n \in Nat /\ n <= m /\ m # 0
  BY DEF IsRemainder
<1>2. Skip = 0 /\ ~ Canceled /\ Skip <= Skip' + m
  BY <1>1 DEF Skip, Reading, Canceled
<1>3. \A k \in Line : IF k \in G THEN fate'[k] # "waiting" ELSE fate'[k] = fate[k]
  <2> HIDE DEF G
  <2>1. \A k \in Line : fate'[k] = IF k \notin G THEN fate[k]
                                   ELSE IF fate[k] = "waiting" THEN "run" ELSE "wrong"
    BY Settles DEF IInv, Fates, G
  <2> QED BY <2>1
<1>4. \A i \in 1 .. m : stream[i] = Eof \/ stream[i].line \in G
  <2> SUFFICES ASSUME NEW i \in 1 .. m, stream[i] # Eof
               PROVE  stream[i].line \in G
    OBVIOUS
  <2>1. i \in 1 .. n
    BY <1>1
  <2>2. stream[i].line \in Line
    BY <1>1 DEF IInv, Ordered
  <2> QED BY <2>1, <2>2 DEF LinesOf, Line
<1>5. \A k \in G : \E i \in 1 .. m : stream[i] # Eof /\ stream[i].line = k
  <2> SUFFICES ASSUME NEW k \in G
               PROVE  \E i \in 1 .. m : stream[i] # Eof /\ stream[i].line = k
    OBVIOUS
  <2>1. PICK i \in 1 .. n : out'[i].line = k
    BY DEF LinesOf
  <2>2. i \in 1 .. m
    BY <1>1
  <2> QED BY <2>1, <2>2
<1> HIDE DEF G
<1>6. \A k \in G : \/ Canceled /\ \E i \in 1 .. Len(out) : out[i].line = k
                  \/ \E i \in 1 .. m : stream[i] # Eof /\ stream[i].line = k
  BY <1>5
<1>7. Flow /\ Skip \in Nat
  BY <1>2 DEF IInv, Flow
<1>8. m = 0 => (InRest => InRest')
  BY <1>1
<1>9. m # 0 => stream[m].eol \/ InRest' \/ (m < Len(stream) /\ stream[m + 1] = Eof)
  OBVIOUS
<1>10. Canceled => \A i \in 1 .. Len(out) : out[i].line \in G
  BY <1>2
<1> QED BY <1>2, <1>3, <1>4, <1>6, <1>7, <1>8, <1>9, <1>10, RemainderKeeps, Zenon

LEMMA LineKeeps ==
  ASSUME IInv, TakePiece, Head(inbuf).eol
  PROVE  IInv'
<1>1. /\ pc = "read_char" /\ inbuf # << >> /\ pc' = "run" /\ caller = "line"
      /\ kind' = kind /\ edit' = edit /\ tty' = tty
      /\ out' = Append(out, Head(inbuf)) /\ inbuf' = Tail(inbuf)
      /\ queue' = queue /\ caller' = caller /\ Settle(LinesOf(out'), "run")
      /\ queue \in Seq(Pieces) /\ inbuf \in Seq(Pieces) /\ out \in Seq(Pieces)
  BY DEF TakePiece, surroundings, IInv, Types, Buffers
<1>2. /\ inbuf' \in Seq(Pieces) /\ Len(inbuf') = Len(inbuf) - 1 /\ Len(inbuf) > 0
      /\ \A i \in 1 .. Len(inbuf') : inbuf'[i] = inbuf[i + 1]
      /\ out' \in Seq(Pieces) /\ Len(out') = Len(out) + 1 /\ out'[Len(out) + 1] = inbuf[1]
      /\ \A i \in 1 .. Len(out) : out'[i] = out[i]
      /\ Head(inbuf) = inbuf[1]
  BY <1>1
<1>3. Types'
  <2>1. fate' \in Seq(Fates) /\ Len(fate') = Len(kind')
    BY <1>1, Settles DEF IInv, Fates
  <2> QED BY <1>1, <1>2, <2>1 DEF IInv, Types
<1>4. Reading /\ ~ Reading' /\ ~ Canceled' /\ InRest' = InRest
  BY <1>1 DEF Reading, Canceled, InRest
<1>5. \A i \in 1 .. Len(inbuf') : i + 1 \in 1 .. Len(inbuf)
  BY <1>2
<1>6. inbuf[1] # Eof
  BY <1>2 DEF IInv, Buffers
<1>7. Buffers'
  <2>1. \A i \in 1 .. Len(out') : out'[i] # Eof
    <3>1. \A i \in 1 .. Len(out') : i \in 1 .. Len(out) \/ i = Len(out) + 1
      BY <1>1, <1>2
    <3> QED BY <1>2, <1>6, <3>1 DEF IInv, Buffers
  <2>2. tty' => inbuf' = << >>
    <3>1. tty => Len(inbuf') = 0
      BY <1>1, <1>2 DEF IInv, Buffers
    <3> QED BY <1>1, <1>2, <3>1, EmptySeq
  <2>3. \A i \in 1 .. Len(inbuf') : inbuf'[i] # Eof
    BY <1>2, <1>5 DEF IInv, Buffers
  <2>4. tty' => Len(inbuf') <= 1
    BY <2>2
  <2> QED BY <1>1, <1>4, <2>1, <2>2, <2>3, <2>4 DEF IInv, Buffers
<1> DEFINE m == Len(out) + 1
<1>8. IsRemainder(stream', stream, m) /\ stream[m] = inbuf[1]
  <2>1. IsJoined(stream, out, inbuf, queue) /\ IsJoined(stream', << >>, Tail(inbuf), queue)
    BY <1>1, <1>3, <1>4, StreamParts, StreamPartsNext DEF IInv
  <2> QED BY <1>1, <1>2, <2>1, WithoutNext
<1>9. \A i \in 1 .. Len(out') : out'[i] = stream[i] /\ out'[i] # Eof
  <2>1. \A i \in 1 .. Len(out) : stream[i] = out[i]
    BY <1>4, StreamParts DEF IInv, IsJoined
  <2>2. \A i \in 1 .. Len(out') : i \in 1 .. Len(out) \/ i = m
    BY <1>1, <1>2
  <2> QED BY <1>2, <1>7, <1>8, <2>1, <2>2 DEF Buffers
<1>10. m = Len(out') /\ m \in 1 .. m /\ m + 1 \in Nat /\ \A i \in m + 1 .. m : FALSE
  BY <1>1, <1>2
<1>11. stream[m].eol
  BY <1>2, <1>8
<1>12. Len(out') <= 2 /\ \A i \in 1 .. Len(out') : i < Len(out') => ~ out'[i].eol
  <2>1. out = << >> \/ (Len(out) = 1 /\ ~ out[1].eol)
    BY <1>4 DEF IInv, Buffers
  <2>2. CASE out = << >>
    BY <1>2, <2>2
  <2>3. CASE Len(out) = 1 /\ ~ out[1].eol
    BY <1>2, <2>3
  <2> QED BY <2>1, <2>2, <2>3
<1>13. out' # << >> /\ Skip' \in Nat
  BY <1>2, <1>3, <1>10, StreamPartsNext
<1> HIDE DEF m
<1>14. Flow'
  BY <1>1, <1>2, <1>3, <1>4, <1>8, <1>9, <1>10, <1>11, <1>13, RunLeaves
<1>15. RunsOneLine' /\ InOrder' /\ (pc = "run" => out # << >> /\ out[1].line \in Line)'
  BY <1>1, <1>2, <1>3, <1>4, <1>8, <1>9, <1>10, <1>12, <1>13, <1>14, LineRuns
<1> QED BY <1>3, <1>7, <1>14, <1>15 DEF IInv, Flow

\* The end of the input goes from a terminal, and stays in a pipe: what remains
\* of the stream behind the part a.
LEMMA AfterEofRemains ==
  ASSUME NEW a \in Seq(Pieces), NEW s, NEW t, queue \in Seq(Pieces), tty \in BOOLEAN, AtEof,
         IsJoined(s, a, << >>, queue), IsJoined(t, << >>, << >>, AfterEof)
  PROVE  \E m \in {Len(a), Len(a) + 1} :
           /\ IsRemainder(t, s, m)
           /\ \A i \in Len(a) + 1 .. m : s[i] = Eof
           /\ m = Len(a) => m < Len(s) /\ s[m + 1] = Eof
<1>1. queue # << >> /\ Head(queue) = Eof /\ Len(a) \in Nat /\ Len(queue) > 0
  BY DEF AtEof
<1>2. CASE tty
  <2>1. IsJoined(t, << >>, << >>, Tail(queue))
    BY <1>2 DEF AfterEof
  <2>2. IsRemainder(t, s, Len(a) + 1) /\ s[Len(a) + 1] = Head(queue)
    BY <1>1, <2>1, WithoutThird
  <2>3. \A i \in Len(a) + 1 .. Len(a) + 1 : s[i] = Eof
    BY <1>1, <2>2
  <2> QED BY <1>1, <2>2, <2>3
<1>3. CASE ~ tty
  <2>1. IsJoined(t, << >>, << >>, queue)
    BY <1>3 DEF AfterEof
  <2> DEFINE e == << >>
  <2>2. e \in Seq(Pieces) /\ IsJoined(s, a, e, queue) /\ IsJoined(t, << >>, e, queue) /\ Len(e) = 0
    BY <2>1
  <2> HIDE DEF e
  <2>3. IsRemainder(t, s, Len(a))
    BY <2>2, WithoutFirst
  <2>4. Len(a) < Len(s) /\ s[Len(a) + 1] = Eof
    <3>1. 1 \in 1 .. Len(queue) /\ queue[1] = Eof /\ Len(queue) \in Nat
      BY <1>1
    <3>2. s[Len(a) + Len(e) + 1] = queue[1] /\ Len(s) = Len(a) + Len(e) + Len(queue)
      BY <2>2, <3>1 DEF IsJoined
    <3> QED BY <1>1, <2>2, <3>1, <3>2
  <2>5. \A i \in Len(a) + 1 .. Len(a) : FALSE
    BY <1>1
  <2> QED BY <2>3, <2>4, <2>5
<1> QED BY <1>2, <1>3

LEMMA AfterEofType ==
  ASSUME queue \in Seq(Pieces), AtEof
  PROVE  AfterEof \in Seq(Pieces)
BY DEF AtEof, AfterEof

LEMMA EofKeeps ==
  ASSUME IInv, TakeEof
  PROVE  IInv'
<1>1. /\ AtEof /\ pc = "read" /\ inbuf = << >> /\ caller = "line"
      /\ queue' = AfterEof
      /\ IF out = << >>
         THEN pc' = "exiting" /\ UNCHANGED fate
         ELSE pc' = "run" /\ Settle(LinesOf(out), "run")
      /\ kind' = kind /\ edit' = edit /\ tty' = tty
      /\ inbuf' = inbuf /\ out' = out /\ caller' = caller
      /\ queue \in Seq(Pieces) /\ inbuf \in Seq(Pieces) /\ out \in Seq(Pieces)
      /\ queue' \in Seq(Pieces) /\ tty \in BOOLEAN
  BY AfterEofType DEF TakeEof, AtEof, IInv, Types, Buffers
<1>2. Types'
  <2>1. fate' \in Seq(Fates) /\ Len(fate') = Len(kind')
    BY <1>1, Settles DEF IInv, Fates, Types
  <2>2. pc' \in {"run", "exiting"}
    BY <1>1
  <2> QED BY <1>1, <2>1, <2>2 DEF IInv, Types
<1>3. Reading /\ ~ Reading' /\ ~ Canceled /\ ~ Canceled' /\ InRest' = InRest /\ ~ InRest
  BY <1>1 DEF Reading, Canceled, InRest
<1>4. Buffers'
  BY <1>1, <1>3 DEF IInv, Buffers
<1>5. Skip = 0 /\ Skip' \in Nat
  BY <1>1, <1>2, StreamPartsNext DEF Skip
<1>6. PICK m \in {Len(out), Len(out) + 1} :
        /\ IsRemainder(stream', stream, m)
        /\ \A i \in Len(out) + 1 .. m : stream[i] = Eof
        /\ m = Len(out) => m < Len(stream) /\ stream[m + 1] = Eof
  <2>1. IsJoined(stream, out, << >>, queue) /\ IsJoined(stream', << >>, << >>, AfterEof)
    BY <1>1, <1>2, <1>3, StreamParts, StreamPartsNext DEF IInv
  <2> QED BY <1>1, <2>1, AfterEofRemains
<1>7. CASE out = << >>
  <2>1. \A i \in 1 .. m : stream[i] = Eof
    BY <1>6, <1>7
  <2>2. Skip <= Skip' + m
    <3>1. Len(out) \in Nat
      BY <1>1
    <3>2. m \in Nat
      BY <1>6, <3>1
    <3>3. \A x, y \in Nat : 0 <= x + y
      OBVIOUS
    <3> QED BY <1>5, <3>2, <3>3
  <2>3. Flow'
    <3>1. Flow /\ Skip \in Nat
      BY <1>5 DEF IInv, Flow
    <3> QED BY <1>1, <1>3, <1>5, <1>6, <1>7, <2>1, <2>2, <3>1, UnsettledKeeps
  <2>4. pc' # "run" /\ fate' = fate
    BY <1>1, <1>7
  <2> QED BY <1>1, <1>2, <1>4, <2>3, <2>4, QuietKeeps DEF IInv, Flow
<1>8. CASE out # << >>
  <2>1. Len(out) = 1 /\ pc' = "run" /\ Settle(LinesOf(out'), "run") /\ m \in Nat /\ Len(out') = 1
    BY <1>1, <1>3, <1>6, <1>8 DEF IInv, Buffers
  <2>2. \A i \in 1 .. Len(out') : out'[i] = stream[i] /\ out'[i] # Eof
    <3>1. \A i \in 1 .. Len(out) : stream[i] = out[i]
      BY <1>3, StreamParts DEF IInv, IsJoined
    <3> QED BY <1>1, <3>1 DEF IInv, Buffers
  <2>3. Len(out') \in 1 .. m /\ m >= 1 /\ \A i \in Len(out') + 1 .. m : stream[i] = Eof
    BY <1>1, <1>6, <2>1
  <2>4. stream[m].eol \/ (m < Len(stream) /\ stream[m + 1] = Eof)
    <3>1. CASE m = Len(out)
      BY <1>6, <3>1
    <3>2. CASE m = Len(out) + 1
      <4>1. m \in Len(out) + 1 .. m
        BY <2>1, <3>2
      <4> QED BY <1>6, <4>1 DEF Eof, Piece
    <3> QED BY <1>6, <3>1, <3>2
  <2>5. Flow'
    BY <1>1, <1>2, <1>3, <1>5, <1>6, <2>1, <2>2, <2>3, <2>4, RunLeaves
  <2>6. Len(out') <= 2 /\ \A i \in 1 .. Len(out') : i < Len(out') => ~ out'[i].eol
    BY <2>1
  <2>7. RunsOneLine' /\ InOrder' /\ (pc = "run" => out # << >> /\ out[1].line \in Line)'
    BY <1>1, <1>2, <1>3, <1>6, <1>8, <2>1, <2>2, <2>3, <2>5, <2>6, LineRuns
  <2> QED BY <1>2, <1>4, <2>5, <2>7 DEF IInv, Flow
<1> QED BY <1>7, <1>8

\* Steps that use nothing of the stream.
LEMMA SameStreamKeeps ==
  ASSUME IInv, Types', Buffers', kind' = kind, edit' = edit, fate' = fate, pc' # "run",
         stream' = stream, Skip = 0, ~ InRest, ~ Canceled, ~ Canceled'
  PROVE  IInv'
<1>1. IsRemainder(stream', stream, 0)
  <2>1. stream \in Seq(Pieces)
    BY StreamParts DEF IInv, IsJoined
  <2> QED BY <2>1 DEF IsRemainder
<1>2. Skip' \in Nat /\ Skip <= Skip' + 0
  BY StreamPartsNext
<1>3. Flow'
  BY <1>1, <1>2, UnsettledKeeps DEF IInv, Flow
<1> QED BY <1>3, QuietKeeps DEF IInv, Flow

LEMMA RunKeeps ==
  ASSUME IInv, Run
  PROVE  IInv'
<1>1. /\ pc = "run" /\ caller = "line" /\ (tty => inbuf = << >>)
      /\ kind' = kind /\ edit' = edit /\ fate' = fate /\ tty' = tty
      /\ inbuf' = inbuf /\ queue' = queue
      /\ inbuf \in Seq(Pieces) /\ out \in Seq(Pieces)
  BY DEF Run, surroundings, IInv, Types, Buffers
<1>2. \/ pc' = "exiting" /\ out' = out /\ caller' = caller
      \/ tty /\ pc' = "read_char" /\ caller' = "pager" /\ out' = << >>
      \/ pc' = "read_char" /\ caller' = "line" /\ out' = << >>
  BY DEF Run, ToPrompt
<1>3. Types'
  <2>1. << >> \in Seq(Pieces)
    OBVIOUS
  <2>2. out' \in Seq(Pieces)
    BY <1>1, <1>2, <2>1
  <2>3. caller' \in {"line", "pager", "rest"}
    BY <1>1, <1>2
  <2>4. pc' \in {"read_char", "read", "EINTR", "run", "exiting", "done"}
    BY <1>2
  <2> QED BY <1>1, <2>2, <2>3, <2>4 DEF IInv, Types
<1>4. Buffers'
  BY <1>1, <1>2 DEF IInv, Buffers, Reading
<1>5. stream' = stream /\ Skip = 0 /\ ~ InRest /\ ~ Canceled /\ ~ Canceled' /\ pc' # "run"
  BY <1>1, <1>2 DEF stream, Reading, Skip, InRest, Canceled
<1> QED BY <1>1, <1>3, <1>4, <1>5, SameStreamKeeps

LEMMA ExitKeeps ==
  ASSUME IInv, Exit
  PROVE  IInv'
<1>1. /\ pc = "exiting" /\ caller = "line" /\ pc' = "done"
      /\ kind' = kind /\ edit' = edit /\ fate' = fate /\ tty' = tty
      /\ inbuf' = inbuf /\ queue' = queue /\ out' = out /\ caller' = caller
  BY DEF Exit, surroundings, IInv, Buffers
<1>2. Types' /\ Buffers'
  BY <1>1 DEF IInv, Types, Buffers, Reading
<1>3. stream' = stream /\ Skip = 0 /\ ~ InRest /\ ~ Canceled /\ ~ Canceled' /\ pc' # "run"
  BY <1>1 DEF stream, Reading, Skip, InRest, Canceled
<1> QED BY <1>1, <1>2, <1>3, SameStreamKeeps

\* The pager goes on, or is over.
LEMMA PagesOn ==
  ASSUME NEW q, NextPage(q)
  PROVE  /\ pc' = "read_char"
         /\ \/ caller' = "line" /\ out' = << >>
            \/ caller' = "pager" /\ out' = out
<1>1. CASE q \/ pages = 1
  BY <1>1 DEF NextPage, ToPrompt
<1>2. CASE ~ (q \/ pages = 1)
  BY <1>2 DEF NextPage
<1> QED BY <1>1, <1>2

LEMMA PagerSignalKeeps ==
  ASSUME IInv, PagerSignal
  PROVE  IInv'
<1>1. /\ pc = "EINTR" /\ caller # "line" /\ tty /\ inbuf = << >>
      /\ kind' = kind /\ edit' = edit /\ fate' = fate /\ tty' = tty
      /\ inbuf' = inbuf /\ queue' = queue
      /\ inbuf \in Seq(Pieces) /\ out \in Seq(Pieces)
  BY DEF PagerSignal, surroundings, IInv, Types, Buffers
<1>2. /\ pc' = "read_char"
      /\ \/ caller' = "line" /\ out' = << >>
         \/ caller' = "pager" /\ out' = out
  <2>1. CASE caller = "pager"
    BY <2>1 DEF PagerSignal, ToPrompt
  <2>2. CASE caller = "rest"
    <3>1. NextPage(quit)
      BY <2>2 DEF PagerSignal
    <3> QED BY <3>1, PagesOn
  <2> QED BY <2>1, <2>2 DEF PagerSignal
<1>3. Types'
  BY <1>1, <1>2 DEF IInv, Types
<1>4. Buffers'
  BY <1>1, <1>2 DEF IInv, Buffers, Reading
<1>5. stream' = stream /\ Skip = 0 /\ ~ InRest /\ ~ Canceled /\ ~ Canceled' /\ pc' # "run"
  BY <1>1, <1>2 DEF stream, Reading, Skip, InRest, Canceled
<1> QED BY <1>1, <1>3, <1>4, <1>5, SameStreamKeeps

LEMMA SignalKeeps ==
  ASSUME IInv, TakeSignal
  PROVE  IInv'
<1>1. /\ pc = "EINTR" /\ caller = "line" /\ pc' = "read_char" /\ caller' = "line"
      /\ kind' = kind /\ edit' = edit /\ tty' = tty /\ out' = << >>
      /\ inbuf' = inbuf /\ queue' = queue /\ inbuf = << >> /\ Settle(LinesOf(out), "dropped")
      /\ inbuf \in Seq(Pieces) /\ queue \in Seq(Pieces) /\ out \in Seq(Pieces)
  BY DEF TakeSignal, ToPrompt, surroundings, IInv, Types, Buffers
<1>2. /\ fate' \in Seq(Fates) /\ Len(fate') = Len(kind')
      /\ \A k \in Line : fate'[k] = IF k \notin LinesOf(out) THEN fate[k]
                                    ELSE IF fate[k] = "waiting" THEN "dropped" ELSE fate[k]
  BY <1>1, Settles DEF IInv, Fates
<1>3. Types'
  BY <1>1, <1>2 DEF IInv, Types
<1>4. Buffers'
  BY <1>1 DEF IInv, Buffers, Reading
<1>5. stream' = stream /\ Skip = 0 /\ Skip' = 0 /\ ~ InRest /\ Canceled /\ ~ Canceled' /\ pc' # "run"
  BY <1>1 DEF stream, Reading, Skip, InRest, Canceled
<1>6. IsRemainder(stream', stream, 0)
  <2>1. stream \in Seq(Pieces)
    BY StreamParts DEF IInv, IsJoined
  <2> QED BY <1>5, <2>1 DEF IsRemainder
<1> DEFINE G == LinesOf(out)
<1>7. /\ \A k \in G : \E i \in 1 .. Len(out) : out[i].line = k
      /\ \A i \in 1 .. Len(out) : out[i].line \in G
  <2>1. \A i \in 1 .. Len(out) : out[i].line # 0
    BY <1>5 DEF IInv, Waiting, Line
  <2> QED BY <2>1 DEF LinesOf
<1>8. \A k \in Line : IF k \in G THEN fate'[k] # "waiting" ELSE fate'[k] = fate[k]
  BY <1>2
<1>9. \A k \in Line : fate'[k] \in {"run", "waiting"} => fate'[k] = fate[k]
  BY <1>2
<1> HIDE DEF G
<1>10. Flow'
  <2>1. PICK m : m = 0
    OBVIOUS
  <2>2. Flow /\ Skip \in Nat /\ Skip' \in Nat /\ Skip <= Skip' + m /\ \A i \in 1 .. m : FALSE
    BY <1>5, <2>1 DEF IInv, Flow
  <2>3. IsRemainder(stream', stream, m)
    BY <1>6, <2>1
  <2> QED BY <1>1, <1>5, <1>7, <1>8, <2>1, <2>2, <2>3, RemainderKeeps
<1> QED BY <1>1, <1>3, <1>4, <1>9, <1>10, QuietKeeps DEF IInv, Flow

LEMMA PagerEofKeeps ==
  ASSUME IInv, PagerEof
  PROVE  IInv'
<1>1. /\ pc = "read" /\ AtEof /\ caller # "line" /\ tty /\ inbuf = << >>
      /\ kind' = kind /\ edit' = edit /\ fate' = fate /\ tty' = tty
      /\ inbuf' = inbuf /\ queue' = AfterEof /\ queue # << >> /\ Head(queue) = Eof
      /\ inbuf \in Seq(Pieces) /\ out \in Seq(Pieces) /\ queue \in Seq(Pieces)
  BY DEF PagerEof, AtEof, IInv, Types, Buffers
<1>2. /\ pc' = "read_char"
      /\ \/ caller' = "line" /\ out' = << >>
         \/ caller' = "pager" /\ out' = out
  <2>1. CASE caller = "pager"
    BY <2>1 DEF PagerEof, ToPrompt
  <2>2. CASE caller = "rest"
    <3>1. NextPage(quit)
      BY <2>2 DEF PagerEof
    <3> QED BY <3>1, PagesOn
  <2> QED BY <2>1, <2>2 DEF PagerEof
<1>3. Types'
  BY <1>1, <1>2, AfterEofType DEF IInv, Types
<1>4. Buffers'
  BY <1>1, <1>2 DEF IInv, Buffers, Reading
<1>5. Skip = 0 /\ Skip' = 0 /\ ~ Canceled /\ ~ Canceled' /\ pc' # "run" /\ ~ Reading
  BY <1>1, <1>2 DEF Reading, Skip, Canceled
<1>6. IsRemainder(stream', stream, 1) /\ stream[1] = Eof
  <2> DEFINE e == << >>
  <2>0. e \in Seq(Pieces) /\ Len(e) + 1 = 1
    OBVIOUS
  <2>1. IsJoined(stream, e, << >>, queue)
    BY <1>1, <1>5, StreamParts DEF IInv
  <2>2. IsJoined(stream', << >>, << >>, Tail(queue))
    <3>1. queue' = Tail(queue)
      BY <1>1 DEF AfterEof
    <3>2. CASE Reading'
      <4>1. out' = << >>
        BY <1>1, <1>2, <3>2 DEF Reading
      <4> QED BY <1>1, <1>3, <3>1, <3>2, <4>1, StreamPartsNext
    <3>3. CASE ~ Reading'
      BY <1>1, <1>3, <3>1, <3>3, StreamPartsNext
    <3> QED BY <3>2, <3>3
  <2> HIDE DEF e
  <2> QED BY <1>1, <2>0, <2>1, <2>2, WithoutThird
<1>7. Flow'
  <2>1. PICK m : m = 1
    OBVIOUS
  <2>2. Flow /\ Skip \in Nat /\ Skip' \in Nat /\ Skip <= Skip' + m /\ \A i \in 1 .. m : stream[i] = Eof
    BY <1>5, <1>6, <2>1 DEF IInv, Flow
  <2>3. IsRemainder(stream', stream, m) /\ m # 0
    BY <1>6, <2>1
  <2> QED BY <1>1, <1>5, <2>2, <2>3, UnsettledKeeps
<1> QED BY <1>1, <1>3, <1>4, <1>5, <1>7, QuietKeeps DEF IInv, Flow

\* What the pager reads is thrown away.
LEMMA PagerTakes ==
  ASSUME IInv, pc = "read_char", caller # "line", inbuf # << >>, inbuf' = Tail(inbuf),
         Settle({Head(inbuf).line}, "dropped"), UNCHANGED <<tty, surroundings>>,
         pc' = "read_char",
         \/ caller' = "line" /\ out' = << >> /\ Head(inbuf).eol
         \/ caller' = "pager" /\ out' = out /\ Head(inbuf).eol
         \/ caller' = "rest" /\ out' = out
  PROVE  IInv'
<1>1. /\ tty /\ tty' = tty /\ kind' = kind /\ edit' = edit /\ queue' = queue
      /\ inbuf \in Seq(Pieces) /\ out \in Seq(Pieces) /\ queue \in Seq(Pieces)
  BY DEF surroundings, IInv, Types, Buffers
<1>2. Len(inbuf) = 1 /\ Head(inbuf) = inbuf[1] /\ 1 \in 1 .. Len(inbuf) /\ inbuf' = << >>
  <2>1. Len(inbuf) <= 1 /\ Len(inbuf) \in Nat
    BY <1>1 DEF IInv, Buffers
  <2>2. Len(inbuf) > 0 /\ Head(inbuf) = inbuf[1] /\ Len(Tail(inbuf)) = Len(inbuf) - 1
        /\ Tail(inbuf) \in Seq(Pieces)
    BY <1>1
  <2>3. Len(Tail(inbuf)) = 0
    BY <2>1, <2>2
  <2> QED BY <2>1, <2>2, <2>3, EmptySeq
<1>3. /\ fate' \in Seq(Fates) /\ Len(fate') = Len(kind')
      /\ \A k \in Line : fate'[k] = IF k \notin {Head(inbuf).line} THEN fate[k]
                                    ELSE IF fate[k] = "waiting" THEN "dropped" ELSE fate[k]
  BY <1>1, Settles DEF IInv, Fates
<1>4. Types'
  <2>1. << >> \in Seq(Pieces)
    OBVIOUS
  <2>2. out' \in Seq(Pieces) /\ inbuf' \in Seq(Pieces)
    BY <1>1, <1>2, <2>1
  <2>3. caller' \in {"line", "pager", "rest"}
    OBVIOUS
  <2> QED BY <1>1, <1>3, <2>2, <2>3 DEF IInv, Types
<1>5. Buffers'
  <2>0. Len(inbuf') = 0
    BY <1>2
  <2>1. /\ \A i \in 1 .. Len(inbuf') : inbuf'[i] # Eof
        /\ Len(inbuf') <= 1
    <3>1. \A n : n = 0 => n <= 1 /\ \A i \in 1 .. n : FALSE
      OBVIOUS
    <3> QED BY <2>0, <3>1
  <2>2. \A i \in 1 .. Len(out') : out'[i] # Eof
    <3>1. CASE out' = out
      BY <3>1 DEF IInv, Buffers
    <3>2. CASE out' = << >>
      BY <3>2
    <3> QED BY <3>1, <3>2
  <2>3. Reading' => out' = << >>
    BY DEF Reading
  <2> QED BY <1>1, <1>2, <2>1, <2>2, <2>3 DEF Buffers
<1>6. Skip = 1 /\ Skip' = 0 /\ ~ Canceled /\ ~ Canceled' /\ pc' # "run" /\ ~ Reading
  BY <1>1, <1>2 DEF Reading, Skip, Canceled
<1>7. IsRemainder(stream', stream, 1) /\ stream[1] = inbuf[1]
  <2> DEFINE e == << >>
  <2>0. e \in Seq(Pieces) /\ Len(e) + 1 = 1
    OBVIOUS
  <2>1. IsJoined(stream, e, inbuf, queue)
    BY <1>1, <1>6, StreamParts DEF IInv
  <2>2. IsJoined(stream', << >>, Tail(inbuf), queue)
    <3>1. CASE Reading'
      <4>1. out' = << >>
        BY <3>1 DEF Reading
      <4> QED BY <1>1, <1>4, <3>1, <4>1, StreamPartsNext
    <3>2. CASE ~ Reading'
      BY <1>1, <1>4, <3>2, StreamPartsNext
    <3> QED BY <3>1, <3>2
  <2> HIDE DEF e
  <2> QED BY <1>1, <1>2, <2>0, <2>1, <2>2, WithoutNext
<1>8. inbuf[1] # Eof
  BY <1>2 DEF IInv, Buffers
<1>9. Flow'
  <2>1. PICK m : m = 1
    OBVIOUS
  <2>2. PICK G : G = {Head(inbuf).line}
    OBVIOUS
  <2>3. /\ Flow /\ Skip \in Nat /\ Skip' \in Nat /\ Skip <= Skip' + m /\ m # 0
        /\ \A i \in 1 .. m : stream[i] = Eof \/ stream[i].line \in G
        /\ \A k \in G : \E i \in 1 .. m : stream[i] # Eof /\ stream[i].line = k
    BY <1>2, <1>6, <1>7, <1>8, <2>1, <2>2 DEF IInv, Flow
  <2>4. IsRemainder(stream', stream, m)
    BY <1>7, <2>1
  <2>5. stream[m].eol \/ InRest'
    BY <1>2, <1>7, <2>1 DEF InRest
  <2>6. \A k \in Line : IF k \in G THEN fate'[k] # "waiting" ELSE fate'[k] = fate[k]
    BY <1>3, <2>2
  <2> QED BY <1>1, <1>6, <2>3, <2>4, <2>5, <2>6, RemainderKeeps
<1>10. \A k \in Line : fate'[k] \in {"run", "waiting"} => fate'[k] = fate[k]
  BY <1>3
<1> QED BY <1>1, <1>4, <1>5, <1>6, <1>9, <1>10, QuietKeeps DEF IInv, Flow

LEMMA PagerKeyKeeps ==
  ASSUME IInv, PagerKey
  PROVE  IInv'
<1>1. /\ pc = "read_char" /\ caller # "line" /\ inbuf # << >> /\ inbuf' = Tail(inbuf)
      /\ Settle({Head(inbuf).line}, "dropped") /\ UNCHANGED <<tty, surroundings>>
  BY DEF PagerKey
<1>2. PICK q : q = (kind[Head(inbuf).line] = "q")
  OBVIOUS
<1>3. CASE Head(inbuf).eol
  <2>1. NextPage(q)
    BY <1>2, <1>3 DEF PagerKey
  <2> QED BY <1>1, <1>3, <2>1, PagesOn, PagerTakes
<1>4. CASE ~ Head(inbuf).eol
  <2>1. caller' = "rest" /\ pc' = pc /\ out' = out
    BY <1>4 DEF PagerKey
  <2> QED BY <1>1, <2>1, PagerTakes
<1> QED BY <1>3, <1>4

LEMMA PagerRestKeeps ==
  ASSUME IInv, PagerRest
  PROVE  IInv'
<1>1. /\ pc = "read_char" /\ caller = "rest" /\ inbuf # << >> /\ inbuf' = Tail(inbuf)
      /\ Settle({Head(inbuf).line}, "dropped") /\ UNCHANGED <<tty, surroundings>>
  BY DEF PagerRest
<1>2. CASE Head(inbuf).eol
  <2>1. NextPage(quit)
    BY <1>2 DEF PagerRest
  <2> QED BY <1>1, <1>2, <2>1, PagesOn, PagerTakes
<1>3. CASE ~ Head(inbuf).eol
  <2>1. caller' = "rest" /\ pc' = pc /\ out' = out
    BY <1>1, <1>3 DEF PagerRest
  <2> QED BY <1>1, <2>1, PagerTakes
<1> QED BY <1>2, <1>3

\* ---- The steps of the surroundings ----

\* s with p at its end.
IsLonger(t, s, p) ==
  /\ s \in Seq(Pieces) /\ t \in Seq(Pieces)
  /\ Len(t) = Len(s) + 1 /\ t[Len(t)] = p
  /\ \A i \in 1 .. Len(s) : t[i] = s[i]

LEMMA JoinedLonger ==
  ASSUME NEW a \in Seq(Pieces), NEW b \in Seq(Pieces), NEW c \in Seq(Pieces),
         NEW p \in Pieces, NEW s, NEW t,
         IsJoined(s, a, b, c), IsJoined(t, a, b, Append(c, p))
  PROVE  IsLonger(t, s, p)
<1> DEFINE d == Append(c, p)
<1>1. /\ d \in Seq(Pieces) /\ Len(d) = Len(c) + 1 /\ d[Len(c) + 1] = p
      /\ \A i \in 1 .. Len(c) : d[i] = c[i]
      /\ Len(a) \in Nat /\ Len(b) \in Nat /\ Len(c) \in Nat
  OBVIOUS
<1>2. IsJoined(t, a, b, d)
  OBVIOUS
<1> HIDE DEF d
<1>3. Len(t) = Len(s) + 1 /\ Len(t) = Len(a) + Len(b) + (Len(c) + 1)
  BY <1>1, <1>2 DEF IsJoined
<1>4. t[Len(t)] = p
  <2>1. Len(c) + 1 \in 1 .. Len(d)
    BY <1>1
  <2>2. t[Len(a) + Len(b) + (Len(c) + 1)] = d[Len(c) + 1]
    BY <1>2, <2>1 DEF IsJoined
  <2> QED BY <1>1, <1>3, <2>2
<1>5. ASSUME NEW i \in 1 .. Len(s)
      PROVE  t[i] = s[i]
  <2>1. CASE i <= Len(a)
    BY <1>1, <1>2, <2>1 DEF IsJoined
  <2>2. CASE i > Len(a) /\ i <= Len(a) + Len(b)
    <3> DEFINE j == i - Len(a)
    <3>1. j \in 1 .. Len(b) /\ Len(a) + j = i
      BY <1>1, <2>2
    <3> HIDE DEF j
    <3>2. t[Len(a) + j] = b[j] /\ s[Len(a) + j] = b[j]
      BY <1>2, <3>1 DEF IsJoined
    <3> QED BY <3>1, <3>2
  <2>3. CASE i > Len(a) + Len(b)
    <3> DEFINE j == i - Len(a) - Len(b)
    <3>1. Len(s) = Len(a) + Len(b) + Len(c)
      BY DEF IsJoined
    <3>2. j \in 1 .. Len(c) /\ j \in 1 .. Len(d) /\ Len(a) + Len(b) + j = i
      BY <1>1, <2>3, <3>1
    <3> HIDE DEF j
    <3>3. t[Len(a) + Len(b) + j] = d[j] /\ s[Len(a) + Len(b) + j] = c[j]
      BY <1>2, <3>2 DEF IsJoined
    <3> QED BY <1>1, <3>2, <3>3
  <2> QED BY <1>1, <2>1, <2>2, <2>3
<1>6. s \in Seq(Pieces) /\ t \in Seq(Pieces)
  BY <1>2 DEF IsJoined
<1> QED BY <1>3, <1>4, <1>5, <1>6 DEF IsLonger

\* What is typed comes at the end of the stream.
LEMMA StreamGrows ==
  ASSUME IInv, Types', NEW p \in Pieces, queue' = Append(queue, p), UNCHANGED <<tty, program>>
  PROVE  /\ IsLonger(stream', stream, p)
         /\ Buffers' /\ Skip' = Skip /\ InRest' = InRest /\ Canceled' = Canceled
<1>1. /\ inbuf' = inbuf /\ out' = out /\ caller' = caller /\ pc' = pc /\ tty' = tty
      /\ inbuf \in Seq(Pieces) /\ out \in Seq(Pieces) /\ queue \in Seq(Pieces)
  BY DEF program, IInv, Types
<1>2. Buffers' /\ Skip' = Skip /\ InRest' = InRest /\ Canceled' = Canceled /\ Reading' = Reading
  BY <1>1 DEF IInv, Buffers, Skip, InRest, Canceled, Reading
<1>3. CASE Reading
  <2>1. IsJoined(stream, out, inbuf, queue) /\ IsJoined(stream', out, inbuf, Append(queue, p))
    BY <1>1, <1>2, <1>3, StreamParts, StreamPartsNext DEF IInv
  <2> QED BY <1>1, <1>2, <2>1, JoinedLonger
<1>4. CASE ~ Reading
  <2> DEFINE e == << >>
  <2>1. e \in Seq(Pieces)
    OBVIOUS
  <2>2. IsJoined(stream, e, inbuf, queue) /\ IsJoined(stream', e, inbuf, Append(queue, p))
    BY <1>1, <1>2, <1>4, StreamParts, StreamPartsNext DEF IInv
  <2> HIDE DEF e
  <2>3. IsLonger(stream', stream, p)
    BY <1>1, <2>1, <2>2, JoinedLonger
  <2> QED BY <1>2, <2>3
<1> QED BY <1>3, <1>4

LEMMA TypeKeeps ==
  ASSUME IInv, NEW what \in Kinds, NEW whole \in BOOLEAN, Type(what, whole)
  PROVE  IInv'
<1> DEFINE n == Len(kind) + 1
           p == Piece(n, TRUE, whole)
<1>1. /\ edit = 0 /\ kind' = Append(kind, what) /\ fate' = Append(fate, "waiting")
      /\ kind \in Seq(Kinds) /\ fate \in Seq(Fates) /\ Len(fate) = Len(kind)
      /\ queue' = Append(queue, Piece(Len(kind'), TRUE, whole))
      /\ edit' = IF whole THEN 0 ELSE Len(kind')
      /\ UNCHANGED <<tty, program>> /\ queue \in Seq(Pieces)
  BY DEF Type, IInv, Types
<1>2. /\ kind' \in Seq(Kinds) /\ Len(kind') = n /\ n \in Nat /\ n > 0 /\ n > Len(kind)
      /\ fate' \in Seq(Fates) /\ Len(fate') = n /\ fate'[n] = "waiting"
      /\ \A k \in Line : fate'[k] = fate[k]
  BY <1>1 DEF Fates, Line
<1>3. p \in Pieces /\ queue' = Append(queue, p) /\ edit' \in 0 .. n
      /\ p.line = n /\ p.first /\ p.eol = whole /\ edit' = (IF whole THEN 0 ELSE n) /\ p # Eof
  BY <1>1, <1>2 DEF Piece, Pieces, Eof
<1>20. ~ whole => edit' = n /\ p = Piece(edit', TRUE, FALSE)
  BY <1>3
<1> HIDE DEF p
<1>4. Types'
  <2>1. queue' \in Seq(Pieces)
    <3>1. queue \in Seq(Pieces) /\ p \in Pieces /\ queue' = Append(queue, p)
      BY <1>1, <1>3
    <3> QED BY <3>1, AppendProperties
  <2>2. inbuf' = inbuf /\ out' = out /\ caller' = caller /\ pc' = pc /\ tty' = tty
    BY <1>1 DEF program
  <2> QED BY <1>2, <1>3, <2>1, <2>2 DEF IInv, Types
<1>5. /\ IsLonger(stream', stream, p)
      /\ Buffers' /\ Skip' = Skip /\ InRest' = InRest /\ Canceled' = Canceled
  BY <1>1, <1>3, <1>4, StreamGrows
<1>6. pc' = pc /\ out' = out
  BY <1>1 DEF program
<1>7. /\ \A k \in Line : k \in Line' /\ k \in Nat /\ k < n /\ k # 0 /\ k # n
      /\ \A k \in Line' : k \in Line \/ k = n
      /\ n \in Line'
  BY <1>1, <1>2 DEF Line
<1> DEFINE s == stream
<1>8. PICK t : t = stream'
  OBVIOUS
<1>9. /\ s \in Seq(Pieces) /\ t \in Seq(Pieces) /\ Len(t) = Len(s) + 1 /\ t[Len(t)] = p
      /\ \A i \in 1 .. Len(s) : t[i] = s[i]
      /\ Len(s) \in Nat /\ Len(t) \in Nat
      /\ \A i \in 1 .. Len(t) : i \in 1 .. Len(s) \/ i = Len(t)
  <2>1. IsLonger(t, s, p)
    BY <1>5, <1>8
  <2> HIDE DEF s
  <2>2. /\ s \in Seq(Pieces) /\ t \in Seq(Pieces) /\ Len(t) = Len(s) + 1 /\ t[Len(t)] = p
        /\ \A i \in 1 .. Len(s) : t[i] = s[i]
    BY <2>1 DEF IsLonger
  <2>3. Len(s) \in Nat /\ Len(t) \in Nat
    BY <2>2
  <2> QED BY <2>2, <2>3
<1>10. Ordered(s) /\ Anchored(s) /\ Followed(s) /\ Waiting(s) /\ RunsOneLine /\ InOrder
       /\ (pc = "run" => out # << >> /\ out[1].line \in Line)
  BY DEF IInv
<1> HIDE DEF s
<1>11. Ordered(stream)'
  <2>1. ASSUME NEW i \in 1 .. Len(t)
        PROVE  t[i] = Eof \/ (t[i].line \in Line' /\ (t[i].first \/ t[i].eol))
    BY <1>3, <1>7, <1>9, <1>10 DEF Ordered
  <2>2. ASSUME NEW i \in 1 .. Len(t), NEW j \in 1 .. Len(t), i < j, t[i] # Eof, t[j] # Eof
        PROVE  t[i].line < t[j].line
               \/ (j = i + 1 /\ t[i].line = t[j].line /\ ~ t[i].eol /\ ~ t[j].first)
    <3>1. i \in 1 .. Len(s) /\ t[i] = s[i]
      BY <1>9, <2>2
    <3>2. CASE j \in 1 .. Len(s)
      BY <1>9, <1>10, <2>2, <3>1, <3>2 DEF Ordered
    <3>3. CASE j = Len(t)
      <4>1. t[i].line \in Line
        BY <1>10, <2>2, <3>1 DEF Ordered
      <4> QED BY <1>3, <1>7, <1>9, <3>3, <4>1
    <3> QED BY <1>9, <3>2, <3>3
  <2>3. ASSUME NEW i \in 2 .. Len(t), ~ t[i].first
        PROVE  t[i - 1].line = t[i].line
    <3>1. i \in 2 .. Len(s) /\ i \in 1 .. Len(s) /\ i - 1 \in 1 .. Len(s)
      BY <1>3, <1>9, <2>3
    <3> QED BY <1>9, <1>10, <2>3, <3>1 DEF Ordered
  <2> QED BY <1>8, <2>1, <2>2, <2>3 DEF Ordered
<1>12. Anchored(stream)'
  <2>1. ASSUME t # << >>, ~ t[1].first
        PROVE  InRest'
    <3>1. 1 \in 1 .. Len(s)
      BY <1>3, <1>9, <2>1
    <3>2. s # << >> /\ ~ s[1].first
      BY <1>9, <2>1, <3>1
    <3> QED BY <1>5, <1>10, <3>2 DEF Anchored
  <2>2. t # << >> /\ (edit' # 0 => t[Len(t)] = Piece(edit', TRUE, FALSE))
    <3>1. edit' # 0 => ~ whole
      BY <1>3
    <3>2. edit' # 0 => t[Len(t)] = Piece(edit', TRUE, FALSE)
      BY <1>9, <1>20, <3>1
    <3>3. Len(t) # 0
      BY <1>9
    <3>4. t # << >>
      BY <3>3
    <3> QED BY <3>2, <3>4
  <2> QED BY <1>8, <2>1, <2>2 DEF Anchored
<1>13. Followed(stream)'
  <2> SUFFICES ASSUME NEW i \in 1 .. Len(t), i > Skip, ~ t[i].eol
               PROVE  IF i < Len(t) THEN t[i + 1] = Eof \/ t[i + 1].line = t[i].line
                      ELSE edit' = t[i].line
    BY <1>5, <1>8 DEF Followed
  <2>1. CASE i = Len(t)
    BY <1>3, <1>9, <2>1
  <2>2. CASE i \in 1 .. Len(s) /\ i < Len(s)
    <3>1. i + 1 \in 1 .. Len(s) /\ i < Len(t)
      BY <1>9, <2>2
    <3> QED BY <1>9, <1>10, <2>2, <3>1 DEF Followed
  <2>3. CASE i \in 1 .. Len(s) /\ ~ (i < Len(s))
    <3>1. s[i].line = 0 /\ s[i] # Eof
      <4>1. t[i] = s[i] /\ ~ s[i].eol
        BY <1>9, <2>3
      <4>2. edit = s[i].line
        BY <1>10, <2>3, <4>1 DEF Followed
      <4>3. edit = 0
        BY <1>1
      <4> QED BY <4>1, <4>2, <4>3 DEF Eof, Piece
    <3>2. s[i].line \in Line
      BY <1>10, <2>3, <3>1 DEF Ordered
    <3> QED BY <1>7, <3>1, <3>2
  <2> QED BY <1>9, <2>1, <2>2, <2>3
<1>14. Waiting(stream)'
  <2>1. ASSUME NEW i \in 1 .. Len(t), i > Skip, t[i] # Eof, t[i].first
        PROVE  fate'[t[i].line] = "waiting"
    <3>1. CASE i \in 1 .. Len(s)
      <4>1. s[i].line \in Line /\ fate[s[i].line] = "waiting"
        BY <1>9, <1>10, <2>1, <3>1 DEF Ordered, Waiting
      <4> QED BY <1>2, <1>9, <3>1, <4>1
    <3>2. CASE i = Len(t)
      BY <1>2, <1>3, <1>9, <3>2
    <3> QED BY <1>9, <3>1, <3>2
  <2>2. ASSUME NEW k \in Line', fate'[k] = "waiting"
        PROVE  \/ \E i \in 1 .. Len(t) : t[i].line = k
               \/ Canceled /\ \E i \in 1 .. Len(out) : out[i].line = k
    <3>1. CASE k = n
      <4>1. Len(t) \in 1 .. Len(t)
        BY <1>9
      <4> QED BY <1>3, <1>9, <3>1, <4>1
    <3>2. CASE k \in Line
      <4>1. fate[k] = "waiting"
        BY <1>2, <2>2, <3>2
      <4>2. \/ \E i \in 1 .. Len(s) : s[i].line = k
            \/ Canceled /\ \E i \in 1 .. Len(out) : out[i].line = k
        BY <1>10, <3>2, <4>1 DEF Waiting
      <4>3. \A i \in 1 .. Len(s) : i \in 1 .. Len(t) /\ t[i] = s[i]
        BY <1>9
      <4> QED BY <4>2, <4>3
    <3> QED BY <1>7, <3>1, <3>2
  <2>3. ASSUME Canceled, NEW i \in 1 .. Len(out)
        PROVE  out[i].line \in Line' /\ \A j \in 1 .. Len(t) : t[j].line # out[i].line
    <3>1. out[i].line \in Line /\ \A j \in 1 .. Len(s) : s[j].line # out[i].line
      BY <1>10, <2>3 DEF Waiting
    <3> QED BY <1>3, <1>7, <1>9, <3>1
  <2> QED BY <1>5, <1>6, <1>8, <2>1, <2>2, <2>3 DEF Waiting
<1>15. RunsOneLine' /\ (pc = "run" => out # << >> /\ out[1].line \in Line)'
  BY <1>2, <1>6, <1>7, <1>10 DEF RunsOneLine
<1>16. InOrder'
  <2> SUFFICES ASSUME NEW k \in Line', fate'[k] = "run", NEW j \in 1 .. k - 1
               PROVE  fate'[j] # "waiting"
    BY DEF InOrder
  <2>1. k \in Line
    BY <1>2, <1>7
  <2>2. j \in Line
    BY <2>1 DEF Line
  <2> QED BY <1>2, <1>10, <2>1, <2>2 DEF InOrder
<1> QED BY <1>4, <1>5, <1>11, <1>12, <1>13, <1>14, <1>15, <1>16 DEF IInv

\* The rest of the line that is being typed, or the end of the input.
LEMMA EndKeeps ==
  ASSUME IInv, NEW p \in Pieces, queue' = Append(queue, p), edit' = 0,
         UNCHANGED <<tty, kind, fate, program>>,
         p = Eof \/ (edit # 0 /\ p = Piece(edit, FALSE, TRUE))
  PROVE  IInv'
<1>1. /\ kind' = kind /\ fate' = fate /\ tty' = tty
      /\ inbuf' = inbuf /\ out' = out /\ caller' = caller /\ pc' = pc
      /\ queue \in Seq(Pieces) /\ edit \in 0 .. Len(kind) /\ Line' = Line
  BY DEF program, IInv, Types, Line
<1>2. Types'
  <2>1. queue' \in Seq(Pieces)
    BY <1>1, AppendProperties
  <2>2. edit' \in 0 .. Len(kind)
    BY <1>1
  <2> QED BY <1>1, <2>1, <2>2 DEF IInv, Types
<1>3. /\ IsLonger(stream', stream, p)
      /\ Buffers' /\ Skip' = Skip /\ InRest' = InRest /\ Canceled' = Canceled
  BY <1>1, <1>2, StreamGrows
<1>4. p.eol /\ (p # Eof => edit \in Line /\ p.line = edit /\ ~ p.first) /\ (p = Eof => p.line = 0 /\ p.first)
  BY <1>1 DEF Eof, Piece, Line
<1> DEFINE s == stream
<1>5. PICK t : t = stream'
  OBVIOUS
<1>6. /\ s \in Seq(Pieces) /\ t \in Seq(Pieces) /\ Len(t) = Len(s) + 1 /\ t[Len(t)] = p
      /\ \A i \in 1 .. Len(s) : t[i] = s[i]
      /\ Len(s) \in Nat /\ Len(t) \in Nat
      /\ \A i \in 1 .. Len(t) : i \in 1 .. Len(s) \/ i = Len(t)
  <2>1. IsLonger(t, s, p)
    BY <1>3, <1>5
  <2> HIDE DEF s
  <2>2. /\ s \in Seq(Pieces) /\ t \in Seq(Pieces) /\ Len(t) = Len(s) + 1 /\ t[Len(t)] = p
        /\ \A i \in 1 .. Len(s) : t[i] = s[i]
    BY <2>1 DEF IsLonger
  <2>3. Len(s) \in Nat /\ Len(t) \in Nat
    BY <2>2
  <2> QED BY <2>2, <2>3
<1>7. Ordered(s) /\ Anchored(s) /\ Followed(s) /\ Waiting(s) /\ RunsOneLine /\ InOrder
      /\ (pc = "run" => out # << >> /\ out[1].line \in Line)
  BY DEF IInv
<1> HIDE DEF s
\* The rest of a line follows its first part, or the pager has that.
<1>8. p # Eof => IF s = << >> THEN InRest ELSE s[Len(s)] = Piece(edit, TRUE, FALSE)
  BY <1>7 DEF Anchored
<1>9. p # Eof /\ Len(s) # 0 =>
        /\ s[Len(s)].line = edit /\ s[Len(s)].first /\ ~ s[Len(s)].eol /\ s[Len(s)] # Eof
        /\ Len(s) \in 1 .. Len(s)
  <2> SUFFICES ASSUME p # Eof, Len(s) # 0
               PROVE  /\ s[Len(s)].line = edit /\ s[Len(s)].first /\ ~ s[Len(s)].eol /\ s[Len(s)] # Eof
                      /\ Len(s) \in 1 .. Len(s)
    OBVIOUS
  <2>1. s # << >>
    OBVIOUS
  <2>2. s[Len(s)] = Piece(edit, TRUE, FALSE)
    BY <1>8, <2>1
  <2>3. Len(s) \in 1 .. Len(s)
    BY <1>6
  <2> QED BY <2>2, <2>3 DEF Piece, Eof
<1>11. Ordered(stream)'
  <2>1. ASSUME NEW i \in 1 .. Len(t)
        PROVE  t[i] = Eof \/ (t[i].line \in Line /\ (t[i].first \/ t[i].eol))
    <3>1. CASE i \in 1 .. Len(s)
      BY <1>6, <1>7, <3>1 DEF Ordered
    <3>2. CASE i = Len(t)
      BY <1>4, <1>6, <3>2
    <3> QED BY <1>6, <3>1, <3>2
  <2>2. ASSUME NEW i \in 1 .. Len(t), NEW j \in 1 .. Len(t), i < j, t[i] # Eof, t[j] # Eof
        PROVE  t[i].line < t[j].line
               \/ (j = i + 1 /\ t[i].line = t[j].line /\ ~ t[i].eol /\ ~ t[j].first)
    <3>1. i \in 1 .. Len(s) /\ t[i] = s[i]
      BY <1>6, <2>2
    <3>2. CASE j \in 1 .. Len(s)
      BY <1>6, <1>7, <2>2, <3>1, <3>2 DEF Ordered
    <3>3. CASE j = Len(t)
      <4>1. t[j] = p /\ p # Eof /\ Len(s) # 0 /\ j = Len(s) + 1
        BY <1>6, <2>2, <3>1, <3>3
      <4>2. CASE i = Len(s)
        BY <1>4, <1>9, <3>1, <4>1, <4>2
      <4>3. CASE i # Len(s)
        <5>1. i < Len(s)
          BY <3>1, <4>3
        <5>2. s[i].line < s[Len(s)].line
          BY <1>7, <1>9, <2>2, <3>1, <4>1, <5>1 DEF Ordered
        <5> QED BY <1>4, <1>9, <3>1, <4>1, <5>2
      <4> QED BY <4>2, <4>3
    <3> QED BY <1>6, <3>2, <3>3
  <2>3. ASSUME NEW i \in 2 .. Len(t), ~ t[i].first
        PROVE  t[i - 1].line = t[i].line
    <3>0. i - 1 \in 1 .. Len(s) /\ i \in 1 .. Len(t) /\ t[i - 1] = s[i - 1]
      BY <1>6
    <3>1. CASE i \in 1 .. Len(s)
      <4>1. i \in 2 .. Len(s)
        BY <3>1
      <4> QED BY <1>6, <1>7, <2>3, <3>0, <3>1, <4>1 DEF Ordered
    <3>2. CASE i = Len(t)
      <4>1. t[i] = p /\ p # Eof /\ Len(s) # 0 /\ i - 1 = Len(s)
        BY <1>4, <1>6, <2>3, <3>0, <3>2
      <4> QED BY <1>4, <1>9, <3>0, <4>1
    <3> QED BY <1>6, <3>0, <3>1, <3>2
  <2> QED BY <1>1, <1>5, <2>1, <2>2, <2>3 DEF Ordered
<1>12. Anchored(stream)'
  <2>1. ASSUME t # << >>, ~ t[1].first
        PROVE  InRest'
    <3>1. CASE Len(s) = 0
      <4>1. t[1] = p /\ s = << >>
        BY <1>6, <3>1, EmptySeq
      <4> QED BY <1>3, <1>4, <1>8, <2>1, <4>1
    <3>2. CASE Len(s) # 0
      <4>1. 1 \in 1 .. Len(s) /\ s # << >>
        BY <1>6, <3>2
      <4> QED BY <1>3, <1>6, <1>7, <2>1, <4>1 DEF Anchored
    <3> QED BY <3>1, <3>2
  <2> QED BY <1>5, <2>1 DEF Anchored
<1>13. Followed(stream)'
  <2> SUFFICES ASSUME NEW i \in 1 .. Len(t), i > Skip, ~ t[i].eol
               PROVE  IF i < Len(t) THEN t[i + 1] = Eof \/ t[i + 1].line = t[i].line
                      ELSE edit' = t[i].line
    BY <1>3, <1>5 DEF Followed
  <2>1. i # Len(t) /\ i \in 1 .. Len(s) /\ i < Len(t) /\ t[i] = s[i]
    BY <1>4, <1>6
  <2>2. CASE i < Len(s)
    <3>1. i + 1 \in 1 .. Len(s)
      BY <1>6, <2>2
    <3> QED BY <1>6, <1>7, <2>1, <2>2, <3>1 DEF Followed
  <2>3. CASE ~ (i < Len(s))
    <3>1. i = Len(s) /\ t[i + 1] = p /\ Len(s) # 0
      BY <1>6, <2>1, <2>3
    <3> QED BY <1>4, <1>9, <2>1, <3>1
  <2> QED BY <2>2, <2>3
<1>14. Waiting(stream)'
  <2>1. ASSUME NEW i \in 1 .. Len(t), i > Skip, t[i] # Eof, t[i].first
        PROVE  fate[t[i].line] = "waiting"
    <3>1. i \in 1 .. Len(s)
      BY <1>4, <1>6, <2>1
    <3> QED BY <1>6, <1>7, <2>1, <3>1 DEF Waiting
  <2>2. ASSUME NEW k \in Line, fate[k] = "waiting"
        PROVE  \/ \E i \in 1 .. Len(t) : t[i].line = k
               \/ Canceled /\ \E i \in 1 .. Len(out) : out[i].line = k
    <3>1. \/ \E i \in 1 .. Len(s) : s[i].line = k
          \/ Canceled /\ \E i \in 1 .. Len(out) : out[i].line = k
      BY <1>7, <2>2 DEF Waiting
    <3>2. \A i \in 1 .. Len(s) : i \in 1 .. Len(t) /\ t[i] = s[i]
      BY <1>6
    <3> QED BY <3>1, <3>2
  <2>3. ASSUME Canceled, NEW i \in 1 .. Len(out)
        PROVE  out[i].line \in Line /\ \A j \in 1 .. Len(t) : t[j].line # out[i].line
    <3>1. out[i].line \in Line /\ \A j \in 1 .. Len(s) : s[j].line # out[i].line
      BY <1>7, <2>3 DEF Waiting
    <3>2. p.line # out[i].line
      <4>1. CASE p = Eof
        BY <1>4, <3>1, <4>1 DEF Line
      <4>2. CASE p # Eof
        <5>1. ~ InRest
          BY <2>3 DEF Canceled, InRest
        <5>2. Len(s) # 0
          BY <1>6, <1>8, <4>2, <5>1, EmptySeq
        <5> QED BY <1>4, <1>9, <3>1, <4>2, <5>2
      <4> QED BY <4>1, <4>2
    <3> QED BY <1>6, <3>1, <3>2
  <2> QED BY <1>1, <1>3, <1>5, <2>1, <2>2, <2>3 DEF Waiting
<1>15. RunsOneLine' /\ InOrder' /\ (pc = "run" => out # << >> /\ out[1].line \in Line)'
  BY <1>1, <1>7 DEF RunsOneLine, InOrder
<1> QED BY <1>2, <1>3, <1>11, <1>12, <1>13, <1>14, <1>15 DEF IInv

LEMMA TypeRestKeeps ==
  ASSUME IInv, TypeRest
  PROVE  IInv'
<1>1. Piece(edit, FALSE, TRUE) \in Pieces
  BY DEF IInv, Types, Piece, Pieces
<1> QED BY <1>1, EndKeeps DEF TypeRest

LEMMA TypeEofKeeps ==
  ASSUME IInv, TypeEof
  PROVE  IInv'
<1>1. Eof \in Pieces
  BY DEF Eof, Piece, Pieces
<1> QED BY <1>1, EndKeeps DEF TypeEof

\* What Ctrl+C on a terminal drops was not run before.
LEMMA DroppedKeeps ==
  ASSUME IInv, kind' = kind, out' = out, pc' \in {pc, "EINTR"},
         NEW G, \A k \in Line : fate'[k] = IF k \notin G THEN fate[k]
                                           ELSE IF fate[k] = "waiting" THEN "dropped" ELSE fate[k]
  PROVE  RunsOneLine' /\ InOrder' /\ (pc = "run" => out # << >> /\ out[1].line \in Line)'
<1>1. Line' = Line /\ (pc' = "run" => pc = "run")
  BY DEF Line
<1>2. \A k \in Line : fate'[k] \in {"run", "waiting"} => fate'[k] = fate[k]
  OBVIOUS
<1>3. \A k \in Line : fate[k] = "run" => fate'[k] = "run"
  OBVIOUS
<1>4. InOrder'
  <2> SUFFICES ASSUME NEW k \in Line, fate'[k] = "run", NEW j \in 1 .. k - 1, fate'[j] = "waiting"
               PROVE  FALSE
    BY <1>1 DEF InOrder
  <2>1. j \in Line /\ fate[k] = "run" /\ fate[j] = "waiting"
    BY <1>2 DEF Line
  <2> QED BY <2>1 DEF IInv, InOrder
<1> QED BY <1>1, <1>3, <1>4 DEF IInv, RunsOneLine

\* The lines that Ctrl+C on a terminal drops.
typed == LinesOf(queue) \cup {edit}

LEMMA TerminalDrops ==
  ASSUME IInv, tty, CtrlC
  PROVE  /\ \A k \in Line : fate'[k] = IF k \notin typed THEN fate[k]
                                       ELSE IF fate[k] = "waiting" THEN "dropped" ELSE fate[k]
         /\ Types'
         /\ UNCHANGED <<tty, kind, inbuf, out, caller>>
         /\ queue' = << >> /\ edit' = 0 /\ pc' = IF pc = "read" THEN "EINTR" ELSE pc
         /\ RunsOneLine' /\ InOrder' /\ (pc = "run" => out # << >> /\ out[1].line \in Line)'
<1>1. /\ UNCHANGED <<tty, kind, inbuf, out, caller>> /\ Settle(typed, "dropped")
      /\ queue' = << >> /\ edit' = 0 /\ pc' = IF pc = "read" THEN "EINTR" ELSE pc
  BY DEF CtrlC, typed
<1>2. /\ \A k \in Line : fate'[k] = IF k \notin typed THEN fate[k]
                                    ELSE IF fate[k] = "waiting" THEN "dropped" ELSE fate[k]
      /\ fate' \in Seq(Fates) /\ Len(fate') = Len(kind')
  BY <1>1, Settles DEF IInv, Fates
<1>3. Types'
  <2>1. << >> \in Seq(Pieces) /\ kind \in Seq(Kinds)
    BY DEF IInv, Types
  <2>2. queue' \in Seq(Pieces) /\ edit' \in 0 .. Len(kind) /\ pc' \in {pc, "EINTR"}
    BY <1>1, <2>1
  <2> QED BY <1>1, <1>2, <2>2 DEF IInv, Types
<1>4. RunsOneLine' /\ InOrder' /\ (pc = "run" => out # << >> /\ out[1].line \in Line)'
  <2>1. pc' \in {pc, "EINTR"} /\ kind' = kind /\ out' = out
    BY <1>1
  <2> QED BY <1>2, <2>1, DroppedKeeps
<1> QED BY <1>1, <1>2, <1>3, <1>4

\* t is s without its rear: c, behind two parts of these lengths.
IsFront(t, s, m, n, c) ==
  /\ s \in Seq(Pieces) /\ t \in Seq(Pieces)
  /\ Len(t) = m + n /\ Len(s) = Len(t) + Len(c)
  /\ \A i \in 1 .. Len(t) : t[i] = s[i]
  /\ \A i \in 1 .. Len(c) : s[Len(t) + i] = c[i]

\* What the terminal drops is the rear of the stream.
LEMMA JoinedShorter ==
  ASSUME NEW a \in Seq(Pieces), NEW b \in Seq(Pieces), NEW c \in Seq(Pieces), NEW s, NEW t,
         IsJoined(s, a, b, c), IsJoined(t, a, b, << >>)
  PROVE  IsFront(t, s, Len(a), Len(b), c)
<1> DEFINE e == << >>
<1>0. Len(e) = 0 /\ Len(a) \in Nat /\ Len(b) \in Nat /\ Len(c) \in Nat /\ IsJoined(t, a, b, e)
  OBVIOUS
<1> HIDE DEF e
<1>1. /\ s \in Seq(Pieces) /\ t \in Seq(Pieces)
      /\ Len(t) = Len(a) + Len(b) + Len(e) /\ Len(s) = Len(a) + Len(b) + Len(c)
  BY <1>0 DEF IsJoined
<1>2. Len(t) = Len(a) + Len(b) /\ Len(s) = Len(t) + Len(c)
  BY <1>0, <1>1
<1>3. ASSUME NEW i \in 1 .. Len(t)
      PROVE  t[i] = s[i]
  <2>1. CASE i <= Len(a)
    BY <1>0, <2>1 DEF IsJoined
  <2>2. CASE i > Len(a)
    <3> DEFINE j == i - Len(a)
    <3>1. j \in 1 .. Len(b) /\ Len(a) + j = i
      BY <1>0, <1>2, <2>2
    <3> HIDE DEF j
    <3>2. t[Len(a) + j] = b[j] /\ s[Len(a) + j] = b[j]
      BY <1>0, <3>1 DEF IsJoined
    <3> QED BY <3>1, <3>2
  <2> QED BY <1>0, <2>1, <2>2
<1>4. \A i \in 1 .. Len(c) : s[Len(t) + i] = c[i]
  BY <1>2 DEF IsJoined
<1> QED BY <1>1, <1>2, <1>3, <1>4 DEF IsFront

\* Ctrl+C while the program is not in its own part of the stream: nothing of the
\* stream is left.
LEMMA CtrlCAllKeeps ==
  ASSUME IInv, tty, CtrlC, pc # "read_char"
  PROVE  IInv'
<1>1. /\ UNCHANGED <<tty, kind, inbuf, out, caller>>
      /\ queue' = << >> /\ edit' = 0 /\ pc' = IF pc = "read" THEN "EINTR" ELSE pc
      /\ Types'
      /\ RunsOneLine' /\ InOrder' /\ (pc = "run" => out # << >> /\ out[1].line \in Line)'
      /\ \A k \in Line : k \in typed => fate'[k] # "waiting"
      /\ \A k \in Line : fate'[k] = "waiting" => fate[k] = "waiting"
  BY TerminalDrops
<1>2. inbuf = << >> /\ pc \in {"read", "EINTR", "run", "exiting"}
  BY DEF IInv, Types, Buffers, CtrlC
<1>3. ~ Reading' /\ pc' \in {"EINTR", "run", "exiting"}
  BY <1>1, <1>2 DEF Reading
<1>4. Buffers'
  BY <1>1, <1>2, <1>3 DEF IInv, Buffers
<1>5. stream' = << >>
  <2>1. stream' = << >> \o (<< >> \o << >>)
    BY <1>1, <1>2, <1>3 DEF stream
  <2> QED BY <2>1
<1>6. PICK t : t = stream' /\ Len(t) = 0 /\ t = << >>
  BY <1>5
<1>7. Ordered(stream)' /\ Anchored(stream)' /\ Followed(stream)'
  <2>1. /\ \A i \in 1 .. Len(t) : FALSE
        /\ \A i \in 2 .. Len(t) : FALSE
    BY <1>6
  <2> QED BY <1>1, <1>6, <2>1 DEF Ordered, Anchored, Followed
<1>8. /\ \A k \in Line : fate'[k] = "waiting" => Canceled' /\ \E i \in 1 .. Len(out) : out[i].line = k
      /\ Canceled' => \A i \in 1 .. Len(out) : out[i].line \in Line
  <2>1. queue \in Seq(Pieces) /\ inbuf \in Seq(Pieces) /\ out \in Seq(Pieces)
    BY DEF IInv, Types
  <2>2. \A i \in 1 .. Len(queue) : \A k \in Line : queue[i].line = k => k \in typed
    BY DEF typed, LinesOf, Line
  <2>3. CASE Reading
    <3>1. Canceled' /\ ~ Canceled
      BY <1>1, <1>2, <2>3 DEF Reading, Canceled
    <3>2. IsJoined(stream, out, << >>, queue)
      BY <1>2, <2>3, StreamParts DEF IInv
    <3> DEFINE e == << >>
    <3>3. e \in Seq(Pieces) /\ Len(e) = 0 /\ IsJoined(stream, out, e, queue)
      BY <3>2
    <3> HIDE DEF e
    <3>4. ASSUME NEW i \in 1 .. Len(out)
          PROVE  out[i].line \in Line
      <4>1. i \in 1 .. Len(stream) /\ stream[i] = out[i]
        BY <2>1, <3>3 DEF IsJoined
      <4>2. out[i] # Eof
        BY DEF IInv, Buffers
      <4> QED BY <4>1, <4>2 DEF IInv, Ordered
    <3>5. ASSUME NEW k \in Line, fate'[k] = "waiting"
          PROVE  \E i \in 1 .. Len(out) : out[i].line = k
      <4>1. PICK i \in 1 .. Len(stream) : stream[i].line = k
        BY <1>1, <3>1, <3>5 DEF IInv, Waiting
      <4>2. Len(stream) = Len(out) + Len(queue) /\ Len(out) \in Nat /\ Len(queue) \in Nat
        BY <2>1, <3>3 DEF IsJoined
      <4>3. CASE i <= Len(out)
        <5>1. i \in 1 .. Len(out)
          BY <4>2, <4>3
        <5>2. stream[i] = out[i]
          BY <3>3, <5>1 DEF IsJoined
        <5> QED BY <4>1, <5>1, <5>2
      <4>4. CASE i > Len(out)
        <5> DEFINE j == i - Len(out)
        <5>1. j \in 1 .. Len(queue) /\ Len(out) + Len(e) + j = i
          BY <3>3, <4>2, <4>4
        <5> HIDE DEF j
        <5>2. stream[Len(out) + Len(e) + j] = queue[j]
          BY <3>3, <5>1 DEF IsJoined
        <5> QED BY <1>1, <2>2, <3>5, <4>1, <5>1, <5>2
      <4> QED BY <4>2, <4>3, <4>4
    <3> QED BY <3>1, <3>4, <3>5
  <2>4. CASE ~ Reading
    <3>1. Canceled' <=> Canceled
      BY <1>1, <1>2, <2>4 DEF Reading, Canceled
    <3>2. stream = queue
      BY <1>2, <2>1, <2>4 DEF stream
    <3> QED BY <1>1, <2>2, <3>1, <3>2 DEF IInv, Waiting
  <2> QED BY <2>3, <2>4
<1>9. Waiting(stream)'
  <2>1. \A i \in 1 .. Len(t) : FALSE
    BY <1>6
  <2>2. Line' = Line /\ out' = out
    BY <1>1 DEF Line
  <2> QED BY <1>6, <1>8, <2>1, <2>2 DEF Waiting
<1> QED BY <1>1, <1>4, <1>7, <1>9 DEF IInv

\* Ctrl+C between two calls of read(2): the part of the stream that the program
\* has is left, and it is at the end of a line.
LEMMA CtrlCPartKeeps ==
  ASSUME IInv, Careful, tty, CtrlC, pc = "read_char"
  PROVE  IInv'
<1>1. /\ UNCHANGED <<tty, kind, inbuf, out, caller>>
      /\ queue' = << >> /\ edit' = 0 /\ pc' = pc
      /\ Types'
      /\ RunsOneLine' /\ InOrder' /\ (pc = "run" => out # << >> /\ out[1].line \in Line)'
      /\ \A k \in Line : fate'[k] = IF k \notin typed THEN fate[k]
                                    ELSE IF fate[k] = "waiting" THEN "dropped" ELSE fate[k]
  BY TerminalDrops
<1>2. /\ Buffers' /\ Reading' = Reading /\ Skip' = Skip /\ InRest' = InRest
      /\ ~ Canceled /\ ~ Canceled' /\ Line' = Line
  BY <1>1 DEF IInv, Buffers, Reading, Skip, InRest, Canceled, Line
<1>3. inbuf \in Seq(Pieces) /\ queue \in Seq(Pieces) /\ out \in Seq(Pieces)
  BY DEF IInv, Types
<1> DEFINE s == stream
           a == IF Reading THEN out ELSE << >>
<1>4. PICK t : t = stream'
  OBVIOUS
<1>0. IsFront(t, s, Len(a), Len(inbuf), queue)
  <2> HIDE DEF a
  <2>1. CASE Reading
    <3>1. a = out
      BY <2>1 DEF a
    <3>2. IsJoined(stream, out, inbuf, queue) /\ IsJoined(stream', out, inbuf, << >>)
      BY <1>1, <1>2, <2>1, StreamParts, StreamPartsNext DEF IInv
    <3>3. IsJoined(s, a, inbuf, queue) /\ IsJoined(t, a, inbuf, << >>) /\ a \in Seq(Pieces)
      BY <1>3, <1>4, <3>1, <3>2
    <3> HIDE DEF s
    <3> QED BY <1>3, <3>3, JoinedShorter
  <2>2. CASE ~ Reading
    <3>1. a = << >>
      BY <2>2 DEF a
    <3>2. IsJoined(stream, << >>, inbuf, queue) /\ IsJoined(stream', << >>, inbuf, << >>)
      BY <1>1, <1>2, <2>2, StreamParts, StreamPartsNext DEF IInv
    <3>3. IsJoined(s, a, inbuf, queue) /\ IsJoined(t, a, inbuf, << >>)
      BY <1>4, <3>1, <3>2
    <3>4. a \in Seq(Pieces)
      <4>1. << >> \in Seq(Pieces)
        OBVIOUS
      <4> QED BY <3>1, <4>1
    <3> HIDE DEF s
    <3> QED BY <1>3, <3>3, <3>4, JoinedShorter
  <2> QED BY <2>1, <2>2
<1>5. /\ s \in Seq(Pieces) /\ t \in Seq(Pieces)
      /\ Len(t) = Len(a) + Len(inbuf) /\ Len(s) = Len(t) + Len(queue)
      /\ \A i \in 1 .. Len(t) : t[i] = s[i]
      /\ \A i \in 1 .. Len(queue) : s[Len(t) + i] = queue[i]
  <2> HIDE DEF a, s
  <2> QED BY <1>0 DEF IsFront
<1>6. Len(s) \in Nat /\ Len(t) \in Nat /\ Len(queue) \in Nat /\ Len(t) <= Len(s)
      /\ \A i \in 1 .. Len(t) : i \in 1 .. Len(s)
  <2>1. Len(s) \in Nat /\ Len(t) \in Nat /\ Len(queue) \in Nat
    BY <1>3, <1>5
  <2>2. Len(t) <= Len(s)
    BY <1>5, <2>1
  <2> QED BY <2>1, <2>2
\* The end of what is left.
<1>7. Len(t) > Skip => t[Len(t)].eol
  <2> SUFFICES ASSUME Len(t) > Skip
               PROVE  t[Len(t)].eol
    OBVIOUS
  <2>1. caller = "line" /\ Reading
    <3>1. caller # "line" => Len(t) = Len(inbuf) /\ Skip = Len(inbuf)
      <4>1. caller # "line" => Len(a) = 0
        BY DEF Reading
      <4> QED BY <1>3, <1>5, <4>1 DEF Skip
    <3> QED BY <1>6, <3>1 DEF Reading
  <2> DEFINE o == out \o inbuf
  <2>2. t = o
    <3>1. t = out \o (inbuf \o << >>)
      BY <1>1, <1>2, <1>4, <2>1 DEF stream
    <3>2. inbuf \o << >> = inbuf
      BY <1>3
    <3> QED BY <3>1, <3>2
  <2>3. Len(t) > 0
    BY <1>6, <2>1 DEF Skip
  <2>4. o # << >> /\ Last(o) = t[Len(t)]
    <3>1. t # << >>
      BY <1>6, <2>3
    <3> QED BY <2>2, <3>1 DEF Last
  <2>5. ~ Midline
    BY DEF CtrlC, Careful
  <2> QED BY <2>1, <2>4, <2>5 DEF Midline
<1>8. Ordered(s) /\ Anchored(s) /\ Followed(s) /\ Waiting(s)
  BY DEF IInv
\* What is dropped.
<1>9. ASSUME NEW k \in Line, k \in typed, s # << >>
      PROVE  \E j \in 1 .. Len(s) :
               /\ s[j].line = k /\ s[j] # Eof
               /\ j > Len(t) \/ (j = Len(t) /\ ~ s[j].eol)
  <2>1. CASE k \in LinesOf(queue)
    <3>1. PICK j \in 1 .. Len(queue) : queue[j].line = k
      BY <2>1 DEF LinesOf
    <3>2. Len(t) + j \in 1 .. Len(s) /\ Len(t) + j > Len(t) /\ s[Len(t) + j] = queue[j]
      <4>1. s[Len(t) + j] = queue[j] /\ Len(s) = Len(t) + Len(queue)
        BY <1>5
      <4>2. Len(t) \in Nat /\ Len(queue) \in Nat
        BY <1>6
      <4> HIDE DEF s
      <4> QED BY <4>1, <4>2
    <3>3. queue[j] # Eof
      BY <3>1 DEF Eof, Piece, Line
    <3> QED BY <3>1, <3>2, <3>3
  <2>2. CASE k = edit /\ s # << >>
    <3>1. edit # 0
      BY <2>2 DEF Line
    <3>2. s[Len(s)] = Piece(edit, TRUE, FALSE)
      BY <1>8, <2>2, <3>1 DEF Anchored
    <3>3. Len(s) # 0 /\ Len(s) \in 1 .. Len(s)
      BY <1>5, <1>6, <2>2, EmptySeq
    <3>4. s[Len(s)].line = k /\ s[Len(s)] # Eof /\ ~ s[Len(s)].eol
      BY <2>2, <3>2 DEF Piece, Eof
    <3>5. Len(s) > Len(t) \/ Len(s) = Len(t)
      BY <1>6
    <3> QED BY <3>3, <3>4, <3>5
  <2> QED BY <1>9, <2>1, <2>2 DEF typed
<1> HIDE DEF s, a
<1>10. Ordered(stream)'
  <2>1. /\ \A i \in 1 .. Len(t) :
             t[i] = Eof \/ (t[i].line \in Line /\ (t[i].first \/ t[i].eol))
        /\ \A i, j \in 1 .. Len(t) :
             i < j /\ t[i] # Eof /\ t[j] # Eof =>
               t[i].line < t[j].line
               \/ (j = i + 1 /\ t[i].line = t[j].line /\ ~ t[i].eol /\ ~ t[j].first)
    BY <1>5, <1>6, <1>8 DEF Ordered
  <2>2. ASSUME NEW i \in 2 .. Len(t), ~ t[i].first
        PROVE  t[i - 1].line = t[i].line
    <3>1. i \in 1 .. Len(t) /\ i - 1 \in 1 .. Len(t) /\ i \in 2 .. Len(s)
      BY <1>6
    <3> QED BY <1>5, <1>8, <2>2, <3>1 DEF Ordered
  <2> QED BY <1>2, <1>4, <2>1, <2>2 DEF Ordered
<1>11. Anchored(stream)'
  <2>1. ASSUME t # << >>, ~ t[1].first
        PROVE  InRest'
    <3>1. 1 \in 1 .. Len(t) /\ 1 \in 1 .. Len(s)
      <4>1. Len(t) # 0
        BY <1>5, <2>1, EmptySeq
      <4> QED BY <1>6, <4>1
    <3>2. s # << >> /\ ~ s[1].first
      BY <1>5, <2>1, <3>1
    <3> QED BY <1>2, <1>8, <3>2 DEF Anchored
  <2> QED BY <1>1, <1>4, <2>1 DEF Anchored
<1>12. Followed(stream)'
  <2> SUFFICES ASSUME NEW i \in 1 .. Len(t), i > Skip, ~ t[i].eol
               PROVE  IF i < Len(t) THEN t[i + 1] = Eof \/ t[i + 1].line = t[i].line
                      ELSE edit' = t[i].line
    BY <1>2, <1>4 DEF Followed
  <2>0. Skip \in Nat
    BY StreamParts DEF IInv
  <2>1. i < Len(t)
    <3>1. i = Len(t) => Len(t) > Skip
      OBVIOUS
    <3>2. i # Len(t)
      BY <1>7, <3>1
    <3> QED BY <1>6, <3>2
  <2>2. i \in 1 .. Len(s) /\ i < Len(s) /\ i + 1 \in 1 .. Len(t)
    BY <1>6, <2>1
  <2> QED BY <1>5, <1>8, <2>1, <2>2 DEF Followed
<1>13. Waiting(stream)'
  <2>1. ASSUME NEW i \in 1 .. Len(t), i > Skip, t[i] # Eof, t[i].first
        PROVE  fate'[t[i].line] = "waiting"
    <3>1. i \in 1 .. Len(s) /\ t[i] = s[i] /\ s # << >>
      BY <1>5, <1>6
    <3>2. t[i].line \in Line /\ fate[t[i].line] = "waiting"
      BY <1>8, <2>1, <3>1 DEF Ordered, Waiting
    <3>3. t[i].line \notin typed
      <4> SUFFICES ASSUME t[i].line \in typed
                   PROVE  FALSE
        OBVIOUS
      <4>1. PICK j \in 1 .. Len(s) :
              /\ s[j].line = t[i].line /\ s[j] # Eof
              /\ j > Len(t) \/ (j = Len(t) /\ ~ s[j].eol)
        BY <1>9, <3>1, <3>2
      <4>2. Len(t) \in 1 .. Len(t) /\ t[Len(t)] = s[Len(t)] /\ (i = Len(t) => t[i].eol)
        <5>1. Len(t) \in 1 .. Len(t)
          BY <1>6
        <5>2. i = Len(t) => Len(t) > Skip
          BY <2>1
        <5> QED BY <1>5, <1>7, <5>1, <5>2
      <4>3. i < j
        BY <1>6, <3>1, <4>1, <4>2
      <4>4. t[i].line \in Nat
        BY <3>2 DEF Line
      <4>5. j = i + 1 /\ ~ s[i].eol /\ ~ s[j].first
        <5>1. \/ s[i].line < s[j].line
              \/ j = i + 1 /\ ~ s[i].eol /\ ~ s[j].first
          BY <1>8, <2>1, <3>1, <4>1, <4>3 DEF Ordered
        <5>2. ~ (s[i].line < s[j].line)
          BY <3>1, <4>1, <4>4
        <5> QED BY <5>1, <5>2
      <4>6. i # Len(t)
        BY <3>1, <4>2, <4>5
      <4>7. j = Len(t) /\ ~ s[j].eol
        BY <1>6, <4>1, <4>5, <4>6
      <4>8. s[j].first \/ s[j].eol
        BY <1>8, <4>1 DEF Ordered
      <4> QED BY <4>5, <4>7, <4>8
    <3> QED BY <1>1, <3>2, <3>3
  <2>2. ASSUME NEW k \in Line, fate'[k] = "waiting"
        PROVE  \E i \in 1 .. Len(t) : t[i].line = k
    <3>1. fate[k] = "waiting" /\ k \notin typed
      BY <1>1, <2>2
    <3>2. PICK i \in 1 .. Len(s) : s[i].line = k
      BY <1>2, <1>8, <3>1 DEF Waiting
    <3>3. ~ (i > Len(t))
      <4> SUFFICES ASSUME i > Len(t)
                   PROVE  FALSE
        OBVIOUS
      <4>1. i - Len(t) \in 1 .. Len(queue) /\ Len(t) + (i - Len(t)) = i
        BY <1>5, <1>6
      <4>2. s[i] = queue[i - Len(t)]
        BY <1>5, <4>1
      <4>3. k \in LinesOf(queue)
        BY <3>2, <4>1, <4>2 DEF LinesOf, Line
      <4> QED BY <3>1, <4>3 DEF typed
    <3>4. i \in 1 .. Len(t)
      BY <1>6, <3>3
    <3> QED BY <1>5, <3>2, <3>4
  <2> QED BY <1>2, <1>4, <2>1, <2>2 DEF Waiting
<1> QED BY <1>1, <1>2, <1>10, <1>11, <1>12, <1>13 DEF IInv

\* Ctrl+C on a pipe interrupts only a system call that waits, which is not in
\* the middle of a line.
LEMMA CtrlCPipeKeeps ==
  ASSUME IInv, Careful, ~ tty, CtrlC
  PROVE  IInv'
<1>1. /\ UNCHANGED <<tty, kind, inbuf, out, caller, queue, edit, fate>>
      /\ pc' = IF pc = "read" /\ queue' = << >> THEN "EINTR" ELSE pc
  BY DEF CtrlC
<1>2. CASE pc' = pc
  <2>1. Types' /\ Buffers'
    BY <1>1, <1>2 DEF IInv, Types, Buffers, Reading
  <2>2. stream' = stream /\ Skip' = Skip /\ InRest' = InRest /\ Canceled' = Canceled /\ Line' = Line
    BY <1>1, <1>2 DEF stream, Reading, Skip, InRest, Canceled, Line
  <2>3. Ordered(stream)'
    BY <2>2 DEF IInv, Ordered
  <2>4. Anchored(stream)'
    BY <1>1, <2>2 DEF IInv, Anchored
  <2>5. Followed(stream)'
    BY <1>1, <2>2 DEF IInv, Followed
  <2>6. Waiting(stream)'
    BY <1>1, <2>2 DEF IInv, Waiting
  <2>7. RunsOneLine' /\ InOrder' /\ (pc = "run" => out # << >> /\ out[1].line \in Line)'
    BY <1>1, <1>2, <2>2 DEF IInv, RunsOneLine, InOrder
  <2> QED BY <2>1, <2>3, <2>4, <2>5, <2>6, <2>7 DEF IInv
<1>3. CASE pc' # pc
  <2>1. pc = "read" /\ queue = << >> /\ pc' = "EINTR" /\ caller = "line" /\ inbuf = << >>
    BY <1>1, <1>3 DEF IInv, Buffers
  <2>2. out = << >>
    <3> SUFFICES ASSUME out # << >>
                 PROVE  FALSE
      OBVIOUS
    <3>1. Len(out) = 1 /\ ~ out[1].eol /\ out \in Seq(Pieces)
      BY <2>1 DEF IInv, Buffers, Reading, Types
    <3>2. out \o inbuf = out
      BY <2>1, <3>1
    <3>3. Midline
      BY <2>1, <3>1, <3>2 DEF Midline, Last
    <3> QED BY <3>3 DEF CtrlC, Careful
  <2>3. stream' = stream
    BY <1>1, <2>1, <2>2 DEF stream, Reading
  <2>4. Types' /\ Buffers'
    BY <1>1, <2>1 DEF IInv, Types, Buffers, Reading
  <2>5. Skip' = Skip /\ ~ InRest /\ ~ InRest' /\ ~ Canceled /\ Line' = Line
        /\ \A i \in 1 .. Len(out') : FALSE
    BY <1>1, <2>1, <2>2 DEF Skip, InRest, Canceled, Line
  <2>6. Ordered(stream)' /\ Anchored(stream)' /\ Followed(stream)'
    <3>1. Ordered(stream)'
      BY <2>3, <2>5 DEF IInv, Ordered
    <3>2. Anchored(stream)'
      BY <1>1, <2>3, <2>5 DEF IInv, Anchored
    <3>3. Followed(stream)'
      BY <1>1, <2>3, <2>5 DEF IInv, Followed
    <3> QED BY <3>1, <3>2, <3>3
  <2>7. Waiting(stream)'
    BY <1>1, <2>3, <2>5 DEF IInv, Waiting
  <2>8. RunsOneLine' /\ InOrder' /\ (pc = "run" => out # << >> /\ out[1].line \in Line)'
    BY <1>1, <2>1, <2>5 DEF IInv, RunsOneLine, InOrder
  <2> QED BY <2>4, <2>6, <2>7, <2>8 DEF IInv
<1> QED BY <1>2, <1>3

\* ---- The theorems ----

LEMMA InitIInv == Init => IInv
<1> SUFFICES ASSUME Init
             PROVE  IInv
  OBVIOUS
<1>1. /\ tty \in BOOLEAN /\ kind = << >> /\ fate = << >> /\ edit = 0
      /\ queue = << >> /\ inbuf = << >> /\ out = << >> /\ caller = "line" /\ pc = "read_char"
  BY DEF Init
<1>2. Types
  <2>1. << >> \in Seq(Kinds) /\ << >> \in Seq(Fates) /\ << >> \in Seq(Pieces) /\ Len(<< >>) = 0
        /\ 0 \in 0 .. 0
    OBVIOUS
  <2> QED BY <1>1, <2>1 DEF Types
<1>3. Line = {}
  BY <1>1 DEF Line
<1>4. stream = << >>
  <2>1. stream = << >> \o (<< >> \o << >>)
    BY <1>1 DEF stream
  <2> QED BY <2>1
<1>5. Buffers /\ ~ Canceled
  BY <1>1 DEF Buffers, Canceled
<1>6. PICK s : s = stream /\ s = << >> /\ Len(s) = 0
  BY <1>4
<1>7. /\ \A i \in 1 .. Len(s) : FALSE
      /\ \A i \in 2 .. Len(s) : FALSE
  BY <1>6
<1>8. Ordered(s) /\ Anchored(s) /\ Followed(s) /\ Waiting(s)
  BY <1>1, <1>3, <1>5, <1>6, <1>7 DEF Ordered, Anchored, Followed, Waiting
<1> QED BY <1>1, <1>2, <1>3, <1>5, <1>6, <1>8 DEF IInv, RunsOneLine, InOrder

LEMMA UnchangedKeeps ==
  ASSUME IInv, UNCHANGED vars
  PROVE  IInv'
<1>1. UNCHANGED <<tty, kind, inbuf, out, caller, queue, edit, fate, pc>>
  BY DEF vars, surroundings, program
<1>2. Types' /\ Buffers'
  BY <1>1 DEF IInv, Types, Buffers, Reading
<1>3. stream' = stream /\ Skip' = Skip /\ InRest' = InRest /\ Canceled' = Canceled /\ Line' = Line
  BY <1>1 DEF stream, Reading, Skip, InRest, Canceled, Line
<1>4. Ordered(stream)'
  BY <1>3 DEF IInv, Ordered
<1>5. Anchored(stream)'
  BY <1>1, <1>3 DEF IInv, Anchored
<1>6. Followed(stream)'
  BY <1>1, <1>3 DEF IInv, Followed
<1>7. Waiting(stream)'
  BY <1>1, <1>3 DEF IInv, Waiting
<1>8. RunsOneLine' /\ InOrder' /\ (pc = "run" => out # << >> /\ out[1].line \in Line)'
  BY <1>1, <1>3 DEF IInv, RunsOneLine, InOrder
<1> QED BY <1>2, <1>4, <1>5, <1>6, <1>7, <1>8 DEF IInv

LEMMA NextKeeps ==
  ASSUME IInv, Careful, [Next]_vars
  PROVE  IInv'
<1>1. CASE UNCHANGED vars
  BY <1>1, UnchangedKeeps
<1>2. CASE Program
  <2>1. CASE TakePiece
    BY <2>1, PartKeeps, LineKeeps
  <2> QED BY <1>2, <2>1, ReadKeeps, FillKeeps, EofKeeps, SignalKeeps, RunKeeps, PagerKeyKeeps,
             PagerRestKeeps, PagerEofKeeps, PagerSignalKeeps, ExitKeeps DEF Program
<1>3. CASE Surroundings
  <2>1. ASSUME NEW what \in Kinds, Type(what, TRUE)
        PROVE  IInv'
    BY <2>1, TypeKeeps
  <2>2. ASSUME NEW what \in Kinds \ {"enter"}, Type(what, FALSE)
        PROVE  IInv'
    <3>1. what \in Kinds /\ FALSE \in BOOLEAN
      OBVIOUS
    <3> QED BY <2>2, <3>1, TypeKeeps
  <2>3. CASE CtrlC
    <3>1. CASE ~ tty
      BY <2>3, <3>1, CtrlCPipeKeeps
    <3>2. CASE tty /\ pc = "read_char"
      BY <2>3, <3>2, CtrlCPartKeeps
    <3>3. CASE tty /\ pc # "read_char"
      BY <2>3, <3>3, CtrlCAllKeeps
    <3> QED BY <3>1, <3>2, <3>3
  <2> QED BY <1>3, <2>1, <2>2, <2>3, TypeRestKeeps, TypeEofKeeps DEF Surroundings
<1> QED BY <1>1, <1>2, <1>3 DEF Next

LEMMA Invariance == Careful => (Spec => []IInv)
<1>1. Careful /\ IInv /\ [Next]_vars => IInv'
  BY NextKeeps
<1>2. CASE Careful
  <2>1. IInv /\ [Next]_vars => IInv'
    BY <1>1, <1>2
  <2> QED BY <2>1, InitIInv, PTL DEF Spec
<1> QED BY <1>2

\* What main carries out is one line as it was typed, from its beginning and for
\* the first time, however lines arrive in parts, read(2) fills the buffer of
\* read_char, the pager reads from the same buffer and Ctrl+C comes in between:
\* for any number of lines and pages, on a terminal and on a pipe.
THEOREM CliRunsOneLine == Careful => (Spec => []RunsOneLine)
<1>1. IInv => RunsOneLine
  BY DEF IInv
<1> QED BY <1>1, Invariance, PTL

\* Lines are run in the order in which they were typed: when main carries one out,
\* every line before it was run, canceled by Ctrl+C or given to the pager.
THEOREM CliInOrder == Careful => (Spec => []InOrder)
<1>1. IInv => InOrder
  BY DEF IInv
<1> QED BY <1>1, Invariance, PTL

(***************************************************************************)
(* The commands of a session: users, log, replay and patterns (Shell).     *)
(***************************************************************************)


\* ---- The states of the session ----

User == [name : Name, pw : Word, uid : Nat]

Trees == {t \in UNION {[D -> Nat] : D \in SUBSET Seq(Word)} : IsFiniteSet(DOMAIN t)}

State == [tree : Trees, cwd : Seq(Word), euid : Nat, users : Seq(User), cur : Nat,
          log : Seq(Typed), suppress_log : BOOLEAN, users_file : Seq(User),
          log_file : Seq(Typed)]

\* Memory and files agree, and root is the first user.
Agrees(s) ==
  /\ s.users_file = s.users /\ s.log_file = s.log
  /\ s.users # << >> /\ s.users[1].uid = 0
  /\ s.cur \in 0 .. Len(s.users)

States == {s \in State : Agrees(s)}

\* ---- Looking up users ----

LEMMA MinMember ==
  ASSUME NEW S, S \subseteq Nat, S # {}
  PROVE  Min(S) \in S /\ \A j \in S : Min(S) <= j
BY LeastMember DEF Min, Least

\* A user is found where there is one, and the first of them.
IsFound(i, n, I) ==
  /\ i \in 0 .. n
  /\ i = 0 <=> I = {}
  /\ i # 0 => i \in I /\ \A j \in I : i <= j

LEMMA Found ==
  ASSUME NEW n \in Nat, NEW I, I \subseteq 1 .. n
  PROVE  IsFound(IF I # {} THEN Min(I) ELSE 0, n, I)
<1>1. I \subseteq Nat
  OBVIOUS
<1>2. CASE I # {}
  <2>1. Min(I) \in I /\ \A j \in I : Min(I) <= j
    BY <1>1, <1>2, MinMember
  <2> DEFINE m == Min(I)
  <2>2. m \in I /\ \A j \in I : m <= j
    BY <2>1
  <2> HIDE DEF m
  <2>3. m \in 1 .. n /\ m # 0
    BY <2>2
  <2>4. IsFound(m, n, I)
    BY <1>2, <2>2, <2>3 DEF IsFound
  <2> QED BY <1>2, <2>4 DEF m
<1>3. CASE I = {}
  BY <1>3 DEF IsFound
<1> QED BY <1>2, <1>3

WithName(s, n) == {i \in 1 .. Len(s.users) : s.users[i].name = n}
WithUid(s, uid) == {i \in 1 .. Len(s.users) : s.users[i].uid = uid}
WithPw(s, n, pw) == {i \in 1 .. Len(s.users) : s.users[i].name = n /\ s.users[i].pw = pw}

find_login(s, n, pw) == IF WithPw(s, n, pw) # {} THEN Min(WithPw(s, n, pw)) ELSE 0

LEMMA FoundUser ==
  ASSUME NEW s \in State, NEW n, NEW uid, NEW pw
  PROVE  /\ IsFound(find_user(s, n), Len(s.users), WithName(s, n))
         /\ IsFound(find_uid(s, uid), Len(s.users), WithUid(s, uid))
         /\ IsFound(find_login(s, n, pw), Len(s.users), WithPw(s, n, pw))
<1>1. Len(s.users) \in Nat
  BY DEF State
<1>2. find_user(s, n) = IF WithName(s, n) # {} THEN Min(WithName(s, n)) ELSE 0
  BY DEF find_user, SelectInSeq, WithName
<1>3. find_uid(s, uid) = IF WithUid(s, uid) # {} THEN Min(WithUid(s, uid)) ELSE 0
  BY DEF find_uid, SelectInSeq, WithUid
<1>4. find_login(s, n, pw) = IF WithPw(s, n, pw) # {} THEN Min(WithPw(s, n, pw)) ELSE 0
  BY DEF find_login
<1>5. WithName(s, n) \subseteq 1 .. Len(s.users)
  BY DEF WithName
<1>6. WithUid(s, uid) \subseteq 1 .. Len(s.users)
  BY DEF WithUid
<1>7. WithPw(s, n, pw) \subseteq 1 .. Len(s.users)
  BY DEF WithPw
<1> QED BY <1>1, <1>2, <1>3, <1>4, <1>5, <1>6, <1>7, Found

\* ---- What a command does to the tree ----

MkTree(tree, p, uid) ==
  IF p \in DOMAIN tree \/ Front(p) \notin DOMAIN tree THEN tree
  ELSE [q \in DOMAIN tree \cup {p} |-> IF q = p THEN uid ELSE tree[q]]

RmTree(tree, p) ==
  IF p \notin DOMAIN tree \/ \E q \in DOMAIN tree : IsStrictPrefix(p, q) THEN tree
  ELSE [q \in DOMAIN tree \ {p} |-> tree[q]]

LEMMA TreeType ==
  ASSUME NEW D, D \subseteq Seq(Word), IsFiniteSet(D), NEW f \in [D -> Nat]
  PROVE  f \in Trees
BY DEF Trees

LEMMA TreeMade ==
  ASSUME NEW t \in Trees, NEW p \in Seq(Word), NEW uid \in Nat
  PROVE  MkTree(t, p, uid) \in Trees /\ RmTree(t, p) \in Trees
<1> DEFINE D == DOMAIN t
<1>1. t \in [D -> Nat] /\ D \subseteq Seq(Word) /\ IsFiniteSet(D)
  BY DEF Trees
<1> HIDE DEF D
<1>2. IsFiniteSet(D \cup {p}) /\ IsFiniteSet(D \ {p})
  BY <1>1, FS_AddElement, FS_RemoveElement
<1>3. DOMAIN t = D
  BY <1>1
<1>4. MkTree(t, p, uid) \in Trees
  <2>1. [q \in D \cup {p} |-> IF q = p THEN uid ELSE t[q]] \in [D \cup {p} -> Nat]
    BY <1>1
  <2>2. [q \in D \cup {p} |-> IF q = p THEN uid ELSE t[q]] \in Trees
    BY <1>1, <1>2, <2>1, TreeType
  <2> QED BY <1>3, <2>2 DEF MkTree
<1>5. RmTree(t, p) \in Trees
  <2>1. [q \in D \ {p} |-> t[q]] \in [D \ {p} -> Nat]
    BY <1>1
  <2>2. [q \in D \ {p} |-> t[q]] \in Trees
    BY <1>1, <1>2, <2>1, TreeType
  <2> QED BY <1>3, <2>2 DEF RmTree
<1> QED BY <1>4, <1>5

LEMMA FreshTreeType == FreshTree \in Trees
<1> DEFINE D == {<< >>, <<"etc">>, <<"home">>}
<1>1. IsFiniteSet({<< >>}) /\ IsFiniteSet({<< >>, <<"etc">>}) /\ IsFiniteSet(D)
  <2>1. IsFiniteSet({<< >>})
    BY FS_EmptySet, FS_AddElement, FS_Singleton
  <2>2. IsFiniteSet({<< >>} \cup {<<"etc">>})
    BY <2>1, FS_AddElement
  <2>3. {<< >>} \cup {<<"etc">>} = {<< >>, <<"etc">>}
    OBVIOUS
  <2>4. IsFiniteSet({<< >>, <<"etc">>} \cup {<<"home">>})
    BY <2>2, <2>3, FS_AddElement
  <2>5. {<< >>, <<"etc">>} \cup {<<"home">>} = D
    OBVIOUS
  <2> QED BY <2>1, <2>2, <2>3, <2>4, <2>5
<1>2. D \subseteq Seq(Word)
  <2>1. "etc" \in Word /\ "home" \in Word
    BY ShellAssumption
  <2>2. << >> \in Seq(Word) /\ <<"etc">> \in Seq(Word) /\ <<"home">> \in Seq(Word)
    BY <2>1
  <2> QED BY <2>2
<1>3. FreshTree \in [D -> Nat]
  BY DEF FreshTree
<1> HIDE DEF D
<1> QED BY <1>1, <1>2, <1>3, TreeType

\* ---- Parts of a state ----

LEMMA Parts ==
  ASSUME NEW s \in States
  PROVE  /\ \A t \in Trees : [s EXCEPT !.tree = t] \in States
         /\ \A p \in Seq(Word) : [s EXCEPT !.cwd = p] \in States
         /\ \A uid \in Nat : [s EXCEPT !.euid = uid] \in States
         /\ \A i \in 0 .. Len(s.users) : [s EXCEPT !.cur = i] \in States
         /\ \A b \in BOOLEAN : [s EXCEPT !.suppress_log = b] \in States
<1>1. s \in State /\ Agrees(s)
  BY DEF States
<1>2. ASSUME NEW t \in Trees PROVE [s EXCEPT !.tree = t] \in States
  BY <1>1 DEF States, State, Agrees
<1>3. ASSUME NEW p \in Seq(Word) PROVE [s EXCEPT !.cwd = p] \in States
  BY <1>1 DEF States, State, Agrees
<1>4. ASSUME NEW uid \in Nat PROVE [s EXCEPT !.euid = uid] \in States
  BY <1>1 DEF States, State, Agrees
<1>5. ASSUME NEW i \in 0 .. Len(s.users) PROVE [s EXCEPT !.cur = i] \in States
  <2>1. Len(s.users) \in Nat
    BY <1>1 DEF State
  <2>2. i \in Nat
    BY <2>1
  <2> QED BY <1>1, <2>2 DEF States, State, Agrees
<1>6. ASSUME NEW b \in BOOLEAN PROVE [s EXCEPT !.suppress_log = b] \in States
  BY <1>1 DEF States, State, Agrees
<1> QED BY <1>2, <1>3, <1>4, <1>5, <1>6

\* A step that records nothing.
Quiet(s, t) == t \in States /\ t.log = s.log /\ t.suppress_log = s.suppress_log

\* All that commands go by is the same.
Alike(s, t) ==
  s.tree = t.tree /\ s.cwd = t.cwd /\ s.users = t.users /\ s.cur = t.cur /\ s.euid = t.euid

LEMMA CurrentUid ==
  ASSUME NEW s \in States
  PROVE  /\ current_uid(s) \in Nat
         /\ Quiet(s, set_user(s, current_uid(s)))
         /\ set_user(s, current_uid(s)) = [s EXCEPT !.euid = current_uid(s)]
<1>1. s \in State /\ s.users \in Seq(User) /\ s.cur \in 0 .. Len(s.users)
  BY DEF States, State, Agrees
<1>2. current_uid(s) \in Nat
  <2>1. CASE s.cur = 0
    BY <2>1 DEF current_uid
  <2>2. CASE s.cur # 0
    <3>1. s.cur \in 1 .. Len(s.users)
      BY <1>1, <2>2
    <3>2. s.users[s.cur] \in User
      BY <1>1, <3>1
    <3> QED BY <2>2, <3>2 DEF current_uid, User
  <2> QED BY <2>1, <2>2
<1>3. [s EXCEPT !.euid = current_uid(s)] \in States
  BY <1>2, Parts
<1>4. Quiet(s, [s EXCEPT !.euid = current_uid(s)])
  BY <1>1, <1>3 DEF Quiet, State
<1> QED BY <1>2, <1>4 DEF set_user

\* ---- What commands do, and what they go by ----

\* From states that are alike, u and v are reached, which are alike.
Does(s, t, u, v) == Quiet(s, u) /\ Quiet(t, v) /\ Alike(u, v)

LEMMA DoesNothing ==
  ASSUME NEW s \in States, NEW t \in States, Alike(s, t)
  PROVE  Does(s, t, s, t)
BY DEF Does, Quiet

LEMMA DoesAfter ==
  ASSUME NEW s, NEW t, NEW u, NEW v, NEW x, NEW y, Does(s, t, u, v), Does(u, v, x, y)
  PROVE  Does(s, t, x, y)
BY DEF Does, Quiet

LEMMA DoesPart ==
  ASSUME NEW s \in States, NEW t \in States, Alike(s, t)
  PROVE  /\ \A T \in Trees : Does(s, t, [s EXCEPT !.tree = T], [t EXCEPT !.tree = T])
         /\ \A p \in Seq(Word) : Does(s, t, [s EXCEPT !.cwd = p], [t EXCEPT !.cwd = p])
         /\ \A uid \in Nat : Does(s, t, [s EXCEPT !.euid = uid], [t EXCEPT !.euid = uid])
         /\ \A i \in 0 .. Len(s.users) : Does(s, t, [s EXCEPT !.cur = i], [t EXCEPT !.cur = i])
<1>1. s \in State /\ t \in State /\ s.users = t.users
  BY DEF States, Alike
<1>2. ASSUME NEW T \in Trees
      PROVE  Does(s, t, [s EXCEPT !.tree = T], [t EXCEPT !.tree = T])
  BY <1>1, Parts DEF Does, Quiet, Alike, State
<1>3. ASSUME NEW p \in Seq(Word)
      PROVE  Does(s, t, [s EXCEPT !.cwd = p], [t EXCEPT !.cwd = p])
  BY <1>1, Parts DEF Does, Quiet, Alike, State
<1>4. ASSUME NEW uid \in Nat
      PROVE  Does(s, t, [s EXCEPT !.euid = uid], [t EXCEPT !.euid = uid])
  BY <1>1, Parts DEF Does, Quiet, Alike, State
<1>5. ASSUME NEW i \in 0 .. Len(s.users)
      PROVE  Does(s, t, [s EXCEPT !.cur = i], [t EXCEPT !.cur = i])
  BY <1>1, Parts DEF Does, Quiet, Alike, State
<1> QED BY <1>2, <1>3, <1>4, <1>5

LEMMA EngineForm ==
  ASSUME NEW s \in States, NEW p, NEW uid
  PROVE  /\ fs_mkdir(s, p) = [s EXCEPT !.tree = MkTree(s.tree, p, s.euid)]
         /\ fs_rmdir(s, p) = [s EXCEPT !.tree = RmTree(s.tree, p)]
         /\ fs_chdir(s, p) = [s EXCEPT !.cwd = IF p \in DOMAIN s.tree THEN p ELSE s.cwd]
         /\ set_user(s, uid) = [s EXCEPT !.euid = uid]
<1>1. s \in State
  BY DEF States
<1>2. s = [s EXCEPT !.tree = s.tree] /\ s = [s EXCEPT !.cwd = s.cwd]
  BY <1>1 DEF State
<1>3. fs_mkdir(s, p) = [s EXCEPT !.tree = MkTree(s.tree, p, s.euid)]
  BY <1>1, <1>2 DEF fs_mkdir, MkTree, State
<1>4. fs_rmdir(s, p) = [s EXCEPT !.tree = RmTree(s.tree, p)]
  BY <1>1, <1>2 DEF fs_rmdir, RmTree, State
<1>5. fs_chdir(s, p) = [s EXCEPT !.cwd = IF p \in DOMAIN s.tree THEN p ELSE s.cwd]
  BY <1>2 DEF fs_chdir
<1> QED BY <1>3, <1>4, <1>5 DEF set_user

LEMMA EngineDoes ==
  ASSUME NEW s \in States, NEW t \in States, Alike(s, t),
         NEW p \in Seq(Word), NEW uid \in Nat
  PROVE  /\ Does(s, t, fs_mkdir(s, p), fs_mkdir(t, p))
         /\ Does(s, t, fs_rmdir(s, p), fs_rmdir(t, p))
         /\ Does(s, t, fs_chdir(s, p), fs_chdir(t, p))
         /\ Does(s, t, set_user(s, uid), set_user(t, uid))
         /\ Does(s, t, fs_format(s), fs_format(t))
<1>1. s \in State /\ s.tree \in Trees /\ s.euid \in Nat /\ s.cwd \in Seq(Word)
  BY DEF States, State
<1>2. t.tree = s.tree /\ t.euid = s.euid /\ t.cwd = s.cwd
  BY DEF Alike
<1>3. Does(s, t, fs_mkdir(s, p), fs_mkdir(t, p))
  <2> DEFINE T == MkTree(s.tree, p, s.euid)
  <2>1. T \in Trees
    BY <1>1, TreeMade
  <2> HIDE DEF T
  <2>2. Does(s, t, [s EXCEPT !.tree = T], [t EXCEPT !.tree = T])
    BY <2>1, DoesPart
  <2> QED BY <1>2, <2>2, EngineForm DEF T
<1>4. Does(s, t, fs_rmdir(s, p), fs_rmdir(t, p))
  <2> DEFINE T == RmTree(s.tree, p)
  <2>1. T \in Trees
    BY <1>1, TreeMade
  <2> HIDE DEF T
  <2>2. Does(s, t, [s EXCEPT !.tree = T], [t EXCEPT !.tree = T])
    BY <2>1, DoesPart
  <2> QED BY <1>2, <2>2, EngineForm DEF T
<1>5. Does(s, t, fs_chdir(s, p), fs_chdir(t, p))
  <2> DEFINE q == IF p \in DOMAIN s.tree THEN p ELSE s.cwd
  <2>1. q \in Seq(Word)
    BY <1>1
  <2>2. q = IF p \in DOMAIN t.tree THEN p ELSE t.cwd
    BY <1>2
  <2>3. fs_chdir(s, p) = [s EXCEPT !.cwd = q]
    BY EngineForm
  <2> DEFINE r == IF p \in DOMAIN t.tree THEN p ELSE t.cwd
  <2>6. fs_chdir(t, p) = [t EXCEPT !.cwd = r]
    BY EngineForm
  <2>7. q = r
    BY <2>2
  <2> HIDE DEF r
  <2>4. fs_chdir(t, p) = [t EXCEPT !.cwd = q]
    BY <2>6, <2>7
  <2> HIDE DEF q
  <2>5. Does(s, t, [s EXCEPT !.cwd = q], [t EXCEPT !.cwd = q])
    BY <2>1, DoesPart
  <2> QED BY <2>3, <2>4, <2>5
<1>6. Does(s, t, set_user(s, uid), set_user(t, uid))
  BY DoesPart DEF set_user
<1>7. Does(s, t, fs_format(s), fs_format(t))
  <2> DEFINE u == [s EXCEPT !.tree = FreshTree]
             v == [t EXCEPT !.tree = FreshTree]
  <2>1. Does(s, t, u, v)
    BY FreshTreeType, DoesPart
  <2>2. fs_format(s) = [u EXCEPT !.cwd = << >>] /\ fs_format(t) = [v EXCEPT !.cwd = << >>]
    BY DEF fs_format
  <2> HIDE DEF u, v
  <2>3. Does(u, v, [u EXCEPT !.cwd = << >>], [v EXCEPT !.cwd = << >>])
    <3>1. << >> \in Seq(Word) /\ u \in States /\ v \in States /\ Alike(u, v)
      BY <2>1 DEF Does, Quiet
    <3> QED BY <3>1, DoesPart
  <2> QED BY <2>1, <2>2, <2>3, DoesAfter
<1> QED BY <1>3, <1>4, <1>5, <1>6, <1>7

\* ---- Removing what a pattern stands for ----

RmSteps(n, ps) == [x \in States \X (1 .. n) |-> fs_rmdir(x[1], ps[x[2]])]

LEMMA RmStepsType ==
  ASSUME NEW ps \in Seq(Seq(Word))
  PROVE  /\ RmSteps(Len(ps), ps) \in [States \X (1 .. Len(ps)) -> States]
         /\ \A s \in States, k \in 1 .. Len(ps) :
              RmSteps(Len(ps), ps)[<<s, k>>] = fs_rmdir(s, ps[k])
<1>1. ASSUME NEW s \in States, NEW k \in 1 .. Len(ps)
      PROVE  fs_rmdir(s, ps[k]) \in States
  <2>1. Alike(s, s) /\ ps[k] \in Seq(Word)
    BY DEF Alike
  <2>2. UidOf["root"] \in Nat
    BY ShellAssumption
  <2> QED BY <2>1, <2>2, EngineDoes DEF Does, Quiet
<1> QED BY <1>1 DEF RmSteps

LEMMA RmdirAllRuns ==
  ASSUME NEW s \in States, NEW ps \in Seq(Seq(Word))
  PROVE  \E w : /\ IsOrbit(w, States, s, Len(ps), RmSteps(Len(ps), ps))
                /\ rmdir_all(s, ps) = w[Len(ps)]
<1> DEFINE n == Len(ps)
           run[k \in 0 .. n] == IF k = 0 THEN s ELSE fs_rmdir(run[k - 1], ps[k])
           Def(g) == [k \in 0 .. n |-> IF k = 0 THEN s ELSE fs_rmdir(g[k - 1], ps[k])]
           G == RmSteps(n, ps)
<1>1. rmdir_all(s, ps) = run[n]
  BY DEF rmdir_all
<1>2. n \in Nat
  OBVIOUS
<1>3. /\ G \in [States \X (1 .. n) -> States]
      /\ \A a \in States, k \in 1 .. n : G[<<a, k>>] = fs_rmdir(a, ps[k])
  BY RmStepsType
<1> HIDE DEF G, n
<1>4. PICK w : IsOrbit(w, States, s, n, G)
  BY <1>2, <1>3, Orbit
<1>5. \A k \in 1 .. n : w[k - 1] \in States
  <2>1. \A k \in 1 .. n : k - 1 \in 0 .. n
    BY <1>2
  <2> QED BY <1>4, <2>1 DEF IsOrbit
<1>6. w = Def(w)
  <2>1. \A k \in 1 .. n : w[k] = fs_rmdir(w[k - 1], ps[k])
    BY <1>3, <1>4, <1>5 DEF IsOrbit
  <2>2. w = [k \in 0 .. n |-> w[k]] /\ w[0] = s
    BY <1>4 DEF IsOrbit
  <2>3. \A k \in 0 .. n : k # 0 => k \in 1 .. n
    BY <1>2
  <2> QED BY <2>1, <2>2, <2>3
<1>7. run = Def(run)
  BY <1>6, Zenon
<1> HIDE DEF run
<1>8. IsOrbit(run, States, s, n, G)
  <2>1. run = [k \in 0 .. n |-> run[k]] /\ run[0] = s
    BY <1>2, <1>7
  <2>2. ASSUME NEW k \in 1 .. n, run[k - 1] \in States
        PROVE  run[k] = G[<<run[k - 1], k>>]
    <3>1. run[k] = fs_rmdir(run[k - 1], ps[k])
      BY <1>2, <1>7
    <3> QED BY <1>3, <2>2, <3>1
  <2> QED BY <1>2, <1>3, <2>1, <2>2, LoopIsOrbit
<1> QED BY <1>1, <1>8 DEF G, n

LEMMA RmdirAllDoes ==
  ASSUME NEW s \in States, NEW t \in States, Alike(s, t), NEW ps \in Seq(Seq(Word))
  PROVE  Does(s, t, rmdir_all(s, ps), rmdir_all(t, ps))
<1> DEFINE n == Len(ps)
           G == RmSteps(n, ps)
<1>1. PICK v : IsOrbit(v, States, s, n, G) /\ rmdir_all(s, ps) = v[n]
  BY RmdirAllRuns
<1>2. PICK w : IsOrbit(w, States, t, n, G) /\ rmdir_all(t, ps) = w[n]
  BY RmdirAllRuns
<1>3. \A a \in States, k \in 1 .. n : G[<<a, k>>] = fs_rmdir(a, ps[k])
  BY RmStepsType
<1>7. n \in Nat
  OBVIOUS
<1> HIDE DEF G
<1> DEFINE S == {k \in Nat : k <= n => Does(s, t, v[k], w[k])}
<1>4. 0 \in S
  BY <1>1, <1>2, DoesNothing DEF IsOrbit
<1>5. ASSUME NEW k \in Nat, k \in S
      PROVE  k + 1 \in S
  <2> SUFFICES ASSUME k + 1 <= n
               PROVE  Does(s, t, v[k + 1], w[k + 1])
    OBVIOUS
  <2>1. k + 1 \in 1 .. n /\ (k + 1) - 1 = k /\ Does(s, t, v[k], w[k])
    BY <1>5
  <2>2. v[k] \in States /\ w[k] \in States /\ Alike(v[k], w[k])
    BY <2>1 DEF Does, Quiet
  <2>6. v[k + 1] = G[<<v[k], k + 1>>] /\ w[k + 1] = G[<<w[k], k + 1>>]
    BY <1>1, <1>2, <2>1, Zenon DEF IsOrbit
  <2>3. v[k + 1] = fs_rmdir(v[k], ps[k + 1]) /\ w[k + 1] = fs_rmdir(w[k], ps[k + 1])
    BY <1>3, <2>1, <2>2, <2>6
  <2>4. ps[k + 1] \in Seq(Word) /\ 0 \in Nat
    BY <2>1
  <2>5. Does(v[k], w[k], v[k + 1], w[k + 1])
    BY <2>2, <2>3, <2>4, EngineDoes
  <2> QED BY <2>1, <2>5, DoesAfter
<1> HIDE DEF S
<1>6. n \in S
  BY <1>4, <1>5, <1>7, Induction
<1> QED BY <1>1, <1>2, <1>6, <1>7 DEF S

\* The members of a finite set in a sequence, each of them once.
LEMMA SetInSeq ==
  ASSUME NEW S, IsFiniteSet(S)
  PROVE  /\ SetToSeq(S) \in Seq(S)
         /\ \A i, j \in 1 .. Len(SetToSeq(S)) : SetToSeq(S)[i] = SetToSeq(S)[j] => i = j
         /\ \A x \in S : \E i \in 1 .. Len(SetToSeq(S)) : SetToSeq(S)[i] = x
<1> DEFINE n == Cardinality(S)
           f == SetToSeq(S)
<1>1. n \in Nat /\ ExistsBijection(1 .. n, S)
  BY FS_CardinalityType
<1>2. \E g \in [1 .. n -> S] : IsInjective(g)
  BY <1>1 DEF ExistsBijection, Bijection, Injection
<1>3. f \in [1 .. n -> S] /\ IsInjective(f)
  BY <1>2, Zenon DEF SetToSeq
<1> HIDE DEF f
<1>4. f \in Injection(1 .. n, S)
  BY <1>3 DEF Injection
<1>5. Cardinality(1 .. n) = n
  BY <1>1, FS_Interval
<1> HIDE DEF n
<1>6. f \in Surjection(1 .. n, S)
  <2>1. Cardinality(1 .. n) = Cardinality(S)
    BY <1>5 DEF n
  <2> QED BY <1>4, <2>1, FS_Injection
<1>7. f \in Seq(S) /\ Len(f) = n
  BY <1>1, <1>3
<1> QED BY <1>1, <1>3, <1>6, <1>7 DEF f, IsInjective, Surjection

\* ---- Accounts ----

\* The table of users may become U.
Table(s, U) == U \in Seq(User) /\ U # << >> /\ U[1].uid = 0 /\ s.cur \in 0 .. Len(U)

LEMMA SavedDoes ==
  ASSUME NEW s \in States, NEW t \in States, Alike(s, t), NEW U, Table(s, U)
  PROVE  /\ Does(s, t, Saved([s EXCEPT !.users = U]), Saved([t EXCEPT !.users = U]))
         /\ Saved([s EXCEPT !.users = U]) = [s EXCEPT !.users = U, !.users_file = U]
<1>1. ASSUME NEW a \in States, a.cur \in 0 .. Len(U)
      PROVE  /\ Saved([a EXCEPT !.users = U]) = [a EXCEPT !.users = U, !.users_file = U]
             /\ Quiet(a, Saved([a EXCEPT !.users = U]))
  <2> DEFINE b == [a EXCEPT !.users = U, !.users_file = U]
  <2>1. a \in State /\ Agrees(a)
    BY DEF States
  <2>2. Saved([a EXCEPT !.users = U]) = b
    BY <2>1 DEF Saved, State
  <2>3. b \in State
    BY <2>1 DEF Table, State
  <2>4. /\ b.users = U /\ b.users_file = U /\ b.log = a.log /\ b.log_file = a.log_file
        /\ b.cur = a.cur /\ b.suppress_log = a.suppress_log
    BY <2>1 DEF State
  <2> HIDE DEF b
  <2>5. Agrees(b)
    BY <1>1, <2>1, <2>4 DEF Agrees, Table
  <2>6. Quiet(a, b)
    BY <2>3, <2>4, <2>5 DEF Quiet, States
  <2> QED BY <2>2, <2>6 DEF b
<1>2. s.cur \in 0 .. Len(U) /\ t.cur \in 0 .. Len(U)
  BY DEF Table, Alike
<1>3. Alike([s EXCEPT !.users = U, !.users_file = U], [t EXCEPT !.users = U, !.users_file = U])
  <2>1. s \in State /\ t \in State
    BY DEF States
  <2> QED BY <2>1 DEF Alike, State
<1> QED BY <1>1, <1>2, <1>3 DEF Does

\* What is found depends on the table alone.
LEMMA SameFound ==
  ASSUME NEW s \in States, NEW t \in States, Alike(s, t), NEW n, NEW uid
  PROVE  /\ find_user(s, n) = find_user(t, n) /\ find_uid(s, uid) = find_uid(t, uid)
         /\ current_uid(s) = current_uid(t) /\ is_root(s) = is_root(t)
<1>1. s.users = t.users /\ s.cur = t.cur
  BY DEF Alike
<1> QED BY <1>1 DEF find_user, find_uid, current_uid, is_root

LEMMA LoginDoes ==
  ASSUME NEW s \in States, NEW t \in States, Alike(s, t), NEW n, NEW pw
  PROVE  Does(s, t, login(s, n, pw), login(t, n, pw))
<1> DEFINE i == find_login(s, n, pw)
<1>1. s.users = t.users /\ s \in State
  BY DEF Alike, States
<1>2. i \in 0 .. Len(s.users)
  BY <1>1, FoundUser DEF IsFound
<1>3. /\ login(s, n, pw) = IF i = 0 THEN s ELSE [s EXCEPT !.cur = i]
      /\ login(t, n, pw) = IF i = 0 THEN t ELSE [t EXCEPT !.cur = i]
  BY <1>1 DEF login, SelectInSeq, find_login, WithPw
<1> HIDE DEF i
<1>4. Does(s, t, [s EXCEPT !.cur = i], [t EXCEPT !.cur = i]) /\ Does(s, t, s, t)
  BY <1>2, DoesPart, DoesNothing
<1> QED BY <1>3, <1>4

LEMMA LogoutDoes ==
  ASSUME NEW s \in States, NEW t \in States, Alike(s, t)
  PROVE  Does(s, t, logout(s), logout(t))
<1>1. 0 \in 0 .. Len(s.users)
  BY DEF States, State
<1> QED BY <1>1, DoesPart DEF logout

LEMMA SuDoes ==
  ASSUME NEW s \in States, NEW t \in States, Alike(s, t), NEW n, NEW pw
  PROVE  Does(s, t, su(s, n, pw), su(t, n, pw))
<1> DEFINE j == find_uid(s, s.users[find_user(s, n)].uid)
           ok == find_user(s, n) # 0 /\ (is_root(s) \/ s.users[j].pw = pw)
<1>1. s.users = t.users /\ s \in State
  BY DEF Alike, States
<1>2. j \in 0 .. Len(s.users)
  BY <1>1, FoundUser DEF IsFound
<1>3. j = find_uid(t, t.users[find_user(t, n)].uid)
  BY <1>1, SameFound
<1>4. su(s, n, pw) = IF ok THEN [s EXCEPT !.cur = j] ELSE s
  BY DEF su
<1>5. ok = (find_user(t, n) # 0 /\ (is_root(t) \/ t.users[j].pw = pw))
  BY <1>1, SameFound
<1>6. su(t, n, pw) = IF ok THEN [t EXCEPT !.cur = j] ELSE t
  <2> HIDE DEF j, ok
  <2> QED BY <1>3, <1>5 DEF su
<1> HIDE DEF j, ok
<1>7. Does(s, t, [s EXCEPT !.cur = j], [t EXCEPT !.cur = j]) /\ Does(s, t, s, t)
  BY <1>2, DoesPart, DoesNothing
<1> QED BY <1>4, <1>6, <1>7

\* passwd finds a user with the number of the one who is logged in.
LEMMA FindsCurrent ==
  ASSUME NEW s \in States, s.cur # 0
  PROVE  LET i == find_uid(s, current_uid(s))
         IN  /\ i \in 1 .. Len(s.users) /\ s.users[i].uid = s.users[s.cur].uid
             /\ s.cur \in 1 .. Len(s.users)
<1> DEFINE uid == s.users[s.cur].uid
           i == find_uid(s, uid)
<1>1. s \in State /\ s.cur \in 1 .. Len(s.users)
  BY DEF States, State, Agrees
<1>2. current_uid(s) = uid
  BY DEF current_uid
<1>3. IsFound(i, Len(s.users), WithUid(s, uid))
  BY <1>1, FoundUser
<1>4. s.cur \in WithUid(s, uid)
  BY <1>1 DEF WithUid
<1> HIDE DEF i
<1>5. i \in WithUid(s, uid)
  BY <1>3, <1>4 DEF IsFound
<1>6. i \in 1 .. Len(s.users) /\ s.users[i].uid = uid
  BY <1>5 DEF WithUid
<1> QED BY <1>1, <1>2, <1>6 DEF i

LEMMA PasswdDoes ==
  ASSUME NEW s \in States, NEW t \in States, Alike(s, t), NEW old, NEW new \in Word
  PROVE  Does(s, t, change_password(s, old, new), change_password(t, old, new))
<1> DEFINE i == find_uid(s, current_uid(s))
           ok == s.cur # 0 /\ s.users[i].pw = old
           U == [s.users EXCEPT ![i].pw = new]
<1>1. s.users = t.users /\ s.cur = t.cur /\ s \in State /\ Agrees(s) /\ t \in State
  BY DEF Alike, States
<1>2. i = find_uid(t, current_uid(t))
  BY SameFound
<1>3. change_password(s, old, new) = IF ok THEN Saved([s EXCEPT !.users = U]) ELSE s
  BY <1>1 DEF change_password, State
<1>4. change_password(t, old, new) = IF ok THEN Saved([t EXCEPT !.users = U]) ELSE t
  <2>1. [t EXCEPT !.users[i].pw = new] = [t EXCEPT !.users = [t.users EXCEPT ![i].pw = new]]
    BY <1>1 DEF State
  <2> HIDE DEF i
  <2> QED BY <1>1, <1>2, <2>1 DEF change_password
<1>5. ASSUME s.cur # 0
      PROVE  Table(s, U)
  <2>1. i \in 1 .. Len(s.users)
    BY <1>5, FindsCurrent
  <2> HIDE DEF i
  <2>2. s.users \in Seq(User) /\ s.users[i] \in User
    BY <1>1, <2>1 DEF State
  <2>3. [s.users[i] EXCEPT !.pw = new] \in User
    BY <2>2 DEF User
  <2>7. U = [s.users EXCEPT ![i] = [s.users[i] EXCEPT !.pw = new]]
    BY <2>1, <2>2
  <2>4. U \in Seq(User) /\ Len(U) = Len(s.users)
    BY <2>1, <2>2, <2>3, <2>7, ExceptSeq
  <2>5. U[1].uid = 0
    <3>1. 1 \in 1 .. Len(s.users) /\ s.users[1] \in User
      BY <1>1, <2>2 DEF Agrees
    <3> QED BY <1>1, <2>1, <2>2, <3>1 DEF Agrees, User
  <2>6. U # << >>
    BY <2>1, <2>4
  <2> HIDE DEF U
  <2> QED BY <1>1, <2>4, <2>5, <2>6 DEF Table, Agrees
<1> HIDE DEF i, U
<1>6. CASE ok
  <2>1. Table(s, U)
    BY <1>5, <1>6
  <2>2. Does(s, t, Saved([s EXCEPT !.users = U]), Saved([t EXCEPT !.users = U]))
    BY <2>1, SavedDoes
  <2> QED BY <1>3, <1>4, <1>6, <2>2
<1>7. CASE ~ ok
  BY <1>3, <1>4, <1>7, DoesNothing
<1> QED BY <1>6, <1>7

\* A name that is not there yet gets a number of its own and a directory.
LEMMA UseraddDoes ==
  ASSUME NEW s \in States, NEW t \in States, Alike(s, t), NEW n \in Name, NEW pw \in Word
  PROVE  Does(s, t, useradd(s, n, pw), useradd(t, n, pw))
<1> DEFINE no == ~is_root(s) \/ Len(s.users) >= MAX_USER \/ find_user(s, n) # 0
           U == Append(s.users, [name |-> Cut[n], pw |-> pw, uid |-> UidOf[n]])
           T(a) == Saved([a EXCEPT !.users = U])
           E(a) == fs_mkdir(a, <<"home">>)
           F(a) == set_user(a, UidOf[n])
           H(a) == fs_mkdir(a, <<"home", n>>)
           K(a) == set_user(a, current_uid(a))
<1>1. s.users = t.users /\ s \in State /\ Agrees(s)
  BY DEF Alike, States
<1>2. /\ useradd(s, n, pw) = IF no THEN s ELSE K(H(F(E(T(s)))))
      /\ useradd(t, n, pw) = IF no THEN t ELSE K(H(F(E(T(t)))))
  <2>1. /\ is_root(t) = is_root(s) /\ find_user(t, n) = find_user(s, n)
    BY SameFound
  <2> QED BY <1>1, <2>1 DEF useradd
<1>3. Table(s, U)
  <2>1. [name |-> Cut[n], pw |-> pw, uid |-> UidOf[n]] \in User
    BY ShellAssumption DEF User
  <2>2. s.users \in Seq(User) /\ s.users # << >> /\ s.cur \in 0 .. Len(s.users)
    BY <1>1 DEF State, Agrees
  <2>3. U \in Seq(User) /\ Len(U) = Len(s.users) + 1 /\ U[1] = s.users[1]
    BY <2>1, <2>2
  <2> HIDE DEF U
  <2> QED BY <1>1, <2>2, <2>3 DEF Table, Agrees
<1> DEFINE go(a, b) == Does(s, t, a, b)
<1>4. go(T(s), T(t))
  BY <1>3, SavedDoes
<1>5. /\ <<"home">> \in Seq(Word) /\ <<"home", n>> \in Seq(Word)
      /\ UidOf[n] \in Nat /\ UidOf["root"] \in Nat
  BY ShellAssumption
<1> HIDE DEF T
<1>6. ASSUME NEW a, NEW b, go(a, b)
      PROVE  go(E(a), E(b)) /\ go(F(a), F(b)) /\ go(H(a), H(b)) /\ go(K(a), K(b))
  <2>1. a \in States /\ b \in States /\ Alike(a, b)
    BY <1>6 DEF Does, Quiet
  <2>2. /\ Does(a, b, E(a), E(b)) /\ Does(a, b, F(a), F(b)) /\ Does(a, b, H(a), H(b))
    BY <1>5, <2>1, EngineDoes
  <2>3. current_uid(a) \in Nat /\ current_uid(a) = current_uid(b)
    BY <2>1, CurrentUid, SameFound
  <2>4. Does(a, b, K(a), K(b))
    BY <1>5, <2>1, <2>3, EngineDoes
  <2> QED BY <1>6, <2>2, <2>4, DoesAfter
<1>7. go(K(H(F(E(T(s))))), K(H(F(E(T(t))))))
  <2> HIDE DEF go, E, F, H, K
  <2>1. go(E(T(s)), E(T(t)))
    BY <1>4, <1>6
  <2>2. go(F(E(T(s))), F(E(T(t))))
    BY <2>1, <1>6
  <2>3. go(H(F(E(T(s)))), H(F(E(T(t)))))
    BY <2>2, <1>6
  <2> QED BY <2>3, <1>6
<1> HIDE DEF no, E, F, H, K
<1>8. Does(s, t, s, t)
  BY DoesNothing
<1> QED BY <1>2, <1>7, <1>8

LEMMA CdDoes ==
  ASSUME NEW s \in States, NEW t \in States, Alike(s, t), NEW n \in Word
  PROVE  Does(s, t, cd(s, n), cd(t, n))
<1> DEFINE p == CASE n = "/" -> << >>
                  [] n = "~" -> <<"home">> \o
                       (IF s.cur = 0 THEN << >> ELSE <<s.users[s.cur].name>>)
                  [] OTHER -> Append(s.cwd, n)
<1>1. s.users = t.users /\ s.cur = t.cur /\ s.cwd = t.cwd /\ s \in State /\ Agrees(s)
  BY DEF Alike, States
<1>2. cd(s, n) = fs_chdir(s, p) /\ cd(t, n) = fs_chdir(t, p)
  BY <1>1 DEF cd
<1>3. p \in Seq(Word)
  <2>1. <<"home">> \in Seq(Word) /\ Append(s.cwd, n) \in Seq(Word) /\ << >> \in Seq(Word)
    BY <1>1, ShellAssumption DEF State
  <2> DEFINE q == IF s.cur = 0 THEN << >> ELSE <<s.users[s.cur].name>>
  <2>2. q \in Seq(Word)
    <3>1. CASE s.cur = 0
      BY <2>1, <3>1
    <3>2. CASE s.cur # 0
      <4>1. s.cur \in 1 .. Len(s.users)
        BY <1>1, <3>2 DEF Agrees, State
      <4>3. s.users[s.cur] \in User
        BY <1>1, <4>1 DEF State
      <4>2. s.users[s.cur].name \in Word
        BY <4>3, ShellAssumption DEF User
      <4> QED BY <3>2, <4>2
    <3> QED BY <3>1, <3>2
  <2> HIDE DEF q
  <2>3. <<"home">> \o q \in Seq(Word)
    BY <2>1, <2>2
  <2> QED BY <2>1, <2>3 DEF q
<1> HIDE DEF p
<1>4. 0 \in Nat
  OBVIOUS
<1> QED BY <1>2, <1>3, <1>4, EngineDoes

LEMMA GlobsInSeq ==
  ASSUME NEW s \in States, NEW d
  PROVE  expand_globs(s, d) \in Seq(Seq(Word))
<1> DEFINE S == Matches(s, DirOf(s, IF d = "/" THEN "" ELSE d))
<1>1. S \subseteq DOMAIN s.tree
  BY DEF Matches
<1>2. s.tree \in Trees
  BY DEF States, State
<1>3. IsFiniteSet(DOMAIN s.tree) /\ DOMAIN s.tree \subseteq Seq(Word)
  BY <1>2 DEF Trees
<1>4. IsFiniteSet(S) /\ S \subseteq Seq(Word)
  BY <1>1, <1>3, FS_Subset
<1> HIDE DEF S
<1>5. SetToSeq(S) \in Seq(S)
  BY <1>4, SetInSeq
<1>6. SetToSeq(S) \in Seq(Seq(Word))
  BY <1>4, <1>5
<1> QED BY <1>6 DEF expand_globs, S

\* ---- A command ----

\* What may be typed.
LEMMA TypedWords ==
  ASSUME NEW c \in Typed
  PROVE  \/ c[1] \in {"mkdir", "rmdir", "rmdir*", "cd"} /\ c[2] \in Word
         \/ c[1] = "useradd" /\ c[2] \in Name /\ c[3] \in Word
         \/ c[1] \in {"login", "su", "passwd"} /\ c[2] \in Word /\ c[3] \in Word
         \/ c[1] \in {"logout", "format"}
BY ShellAssumption

LEMMA HandlerDoes ==
  ASSUME NEW s \in States, NEW t \in States, Alike(s, t), NEW c \in Typed
  PROVE  Does(s, t, handler(s, c), handler(t, c))
<1>1. s.cwd = t.cwd /\ s.tree = t.tree /\ s.cwd \in Seq(Word) /\ 0 \in Nat
  BY DEF Alike, States, State
<1>2. CASE c[1] = "mkdir"
  <2>1. Append(s.cwd, c[2]) \in Seq(Word)
    BY <1>1, <1>2, TypedWords
  <2>2. Does(s, t, fs_mkdir(s, Append(s.cwd, c[2])), fs_mkdir(t, Append(s.cwd, c[2])))
    BY <1>1, <2>1, EngineDoes
  <2> QED BY <1>1, <1>2, <2>2 DEF handler
<1>3. CASE c[1] = "rmdir"
  <2>1. Append(s.cwd, c[2]) \in Seq(Word)
    BY <1>1, <1>3, TypedWords
  <2>2. Does(s, t, fs_rmdir(s, Append(s.cwd, c[2])), fs_rmdir(t, Append(s.cwd, c[2])))
    BY <1>1, <2>1, EngineDoes
  <2> QED BY <1>1, <1>3, <2>2 DEF handler
<1>4. CASE c[1] = "rmdir*"
  <2>1. expand_globs(s, c[2]) = expand_globs(t, c[2])
    BY <1>1 DEF expand_globs, Matches, DirOf
  <2>2. Does(s, t, rmdir_all(s, expand_globs(s, c[2])), rmdir_all(t, expand_globs(s, c[2])))
    BY GlobsInSeq, RmdirAllDoes
  <2> QED BY <1>4, <2>1, <2>2 DEF handler
<1>5. CASE c[1] = "cd"
  BY <1>5, TypedWords, CdDoes DEF handler
<1>6. CASE c[1] = "useradd"
  BY <1>6, TypedWords, UseraddDoes DEF handler
<1>7. CASE c[1] = "login"
  BY <1>7, LoginDoes DEF handler
<1>8. CASE c[1] = "su"
  BY <1>8, SuDoes DEF handler
<1>9. CASE c[1] = "passwd"
  BY <1>9, TypedWords, PasswdDoes DEF handler
<1>10. CASE c[1] = "logout"
  BY <1>10, LogoutDoes DEF handler
<1>11. CASE c[1] = "format"
  BY <1>1, <1>11, EngineDoes DEF handler
<1> QED
  BY <1>2, <1>3, <1>4, <1>5, <1>6, <1>7, <1>8, <1>9, <1>10, <1>11, TypedWords

\* record adds the command to the log and to its file.
LEMMA RecordAdds ==
  ASSUME NEW s \in States, NEW c \in Typed
  PROVE  /\ record(s, c) \in States /\ Alike(s, record(s, c))
         /\ record(s, c).suppress_log = s.suppress_log
         /\ record(s, c).log = IF s.suppress_log THEN s.log ELSE Append(s.log, c)
<1>1. s \in State /\ Agrees(s)
  BY DEF States
<1>2. CASE s.suppress_log
  BY <1>2 DEF record, Alike
<1>3. CASE ~ s.suppress_log
  <2> DEFINE L == Append(s.log, c)
             r == [s EXCEPT !.log = L, !.log_file = L]
  <2>1. record(s, c) = r
    BY <1>1, <1>3 DEF record, Agrees, State
  <2>2. L \in Seq(Typed)
    BY <1>1 DEF State
  <2> HIDE DEF L
  <2>3. r \in State /\ Alike(s, r) /\ r.suppress_log = s.suppress_log /\ r.log = L
    BY <1>1, <2>2 DEF State, Alike
  <2>4. Agrees(r)
    BY <1>1 DEF State, Agrees
  <2> HIDE DEF r
  <2> QED BY <1>3, <2>1, <2>3, <2>4 DEF States, L
<1> QED BY <1>2, <1>3

\* What is seen is the same.
SeenSame(s, t) == s.tree = t.tree /\ s.cwd = t.cwd /\ s.users = t.users /\ s.cur = t.cur

\* The same command in sessions that look the same leads to sessions that do.
LEMMA ExecuteDoes ==
  ASSUME NEW s \in States, NEW t \in States, SeenSame(s, t), NEW c \in Typed
  PROVE  /\ execute(s, c) \in States /\ execute(t, c) \in States
         /\ Alike(execute(s, c), execute(t, c))
         /\ execute(s, c).suppress_log = s.suppress_log
         /\ execute(s, c).log = IF s.suppress_log THEN s.log ELSE Append(s.log, c)
<1> DEFINE u == set_user(s, current_uid(s))
           v == set_user(t, current_uid(t))
           x == record(u, c)
           y == record(v, c)
<1>1. Quiet(s, u) /\ Quiet(t, v)
  BY CurrentUid
<1>2. Alike(u, v)
  <2>1. current_uid(s) = current_uid(t) /\ s \in State /\ t \in State
    BY DEF SeenSame, current_uid, States
  <2> QED BY <2>1 DEF set_user, SeenSame, Alike, State
<1>3. u \in States /\ v \in States
  BY <1>1 DEF Quiet
<1> HIDE DEF u, v
<1>4. /\ x \in States /\ y \in States /\ Alike(u, x) /\ Alike(v, y)
      /\ x.suppress_log = u.suppress_log
      /\ x.log = IF u.suppress_log THEN u.log ELSE Append(u.log, c)
  BY <1>3, RecordAdds
<1> HIDE DEF x, y
<1>5. Alike(x, y)
  BY <1>2, <1>4 DEF Alike
<1>6. Does(x, y, handler(x, c), handler(y, c))
  BY <1>4, <1>5, HandlerDoes
<1>7. execute(s, c) = handler(x, c) /\ execute(t, c) = handler(y, c)
  BY DEF execute, x, y, u, v
<1> QED BY <1>1, <1>4, <1>6, <1>7 DEF Does, Quiet

\* ---- Replay ----

ReplaySteps(cs) == [x \in States \X (1 .. Len(cs)) |-> execute(x[1], cs[x[2]])]

\* w runs the commands cs, from s.
Runs(w, s, cs) == IsOrbit(w, States, s, Len(cs), ReplaySteps(cs))

LEMMA ReplayStepsType ==
  ASSUME NEW cs \in Seq(Typed)
  PROVE  /\ ReplaySteps(cs) \in [States \X (1 .. Len(cs)) -> States]
         /\ \A s \in States, k \in 1 .. Len(cs) :
              ReplaySteps(cs)[<<s, k>>] = execute(s, cs[k])
<1>1. ASSUME NEW s \in States, NEW k \in 1 .. Len(cs)
      PROVE  execute(s, cs[k]) \in States
  BY ExecuteDoes DEF SeenSame
<1> QED BY <1>1 DEF ReplaySteps

Silent(s) == [s EXCEPT !.suppress_log = TRUE]

LEMMA SilentState ==
  ASSUME NEW s \in States
  PROVE  /\ Silent(s) \in States /\ Silent(s).log = s.log /\ Silent(s).suppress_log
         /\ SeenSame(s, Silent(s))
<1>1. s \in State
  BY DEF States
<1> QED BY <1>1, Parts DEF Silent, State, SeenSame

LEMMA ReplayRuns ==
  ASSUME NEW s \in States
  PROVE  \E w : /\ Runs(w, Silent(s), s.log)
                /\ Replayed(s) = [w[Len(s.log)] EXCEPT !.suppress_log = s.suppress_log]
<1> DEFINE cs == s.log
           n == Len(cs)
           c == Silent(s)
           run[k \in 0 .. n] == IF k = 0 THEN c ELSE execute(run[k - 1], cs[k])
           Def(g) == [k \in 0 .. n |-> IF k = 0 THEN c ELSE execute(g[k - 1], cs[k])]
           G == ReplaySteps(cs)
<1>1. Replayed(s) = [run[n] EXCEPT !.suppress_log = s.suppress_log]
  BY DEF Replayed, Silent
<1>2. cs \in Seq(Typed) /\ n \in Nat /\ c \in States
  BY SilentState DEF States, State
<1>3. /\ G \in [States \X (1 .. n) -> States]
      /\ \A a \in States, k \in 1 .. n : G[<<a, k>>] = execute(a, cs[k])
  BY <1>2, ReplayStepsType
<1> HIDE DEF G, n, c
<1>4. PICK w : IsOrbit(w, States, c, n, G)
  BY <1>2, <1>3, Orbit
<1>5. \A k \in 1 .. n : w[k - 1] \in States
  <2>1. \A k \in 1 .. n : k - 1 \in 0 .. n
    BY <1>2
  <2> QED BY <1>4, <2>1 DEF IsOrbit
<1>6. w = Def(w)
  <2>1. \A k \in 1 .. n : w[k] = execute(w[k - 1], cs[k])
    BY <1>3, <1>4, <1>5 DEF IsOrbit
  <2>2. w = [k \in 0 .. n |-> w[k]] /\ w[0] = c
    BY <1>4 DEF IsOrbit
  <2>3. \A k \in 0 .. n : k # 0 => k \in 1 .. n
    BY <1>2
  <2> QED BY <2>1, <2>2, <2>3
<1>7. run = Def(run)
  BY <1>6, Zenon
<1> HIDE DEF run
<1>8. IsOrbit(run, States, c, n, G)
  <2>1. run = [k \in 0 .. n |-> run[k]] /\ run[0] = c
    BY <1>2, <1>7
  <2>2. ASSUME NEW k \in 1 .. n, run[k - 1] \in States
        PROVE  run[k] = G[<<run[k - 1], k>>]
    <3>1. run[k] = execute(run[k - 1], cs[k])
      BY <1>2, <1>7
    <3> QED BY <1>3, <2>2, <3>1
  <2> QED BY <1>2, <1>3, <2>1, <2>2, LoopIsOrbit
<1> QED BY <1>1, <1>8 DEF Runs, G, n, c

\* Nothing is recorded in a replay, and the same commands lead from sessions
\* that look the same to sessions that do.
LEMMA RunsAlike ==
  ASSUME NEW s \in States, NEW t \in States, s.suppress_log, SeenSame(s, t),
         NEW cs \in Seq(Typed), NEW ds \in Seq(Typed), NEW n \in Nat,
         n <= Len(cs), n <= Len(ds), \A k \in 1 .. n : cs[k] = ds[k],
         NEW v, NEW w, Runs(v, s, cs), Runs(w, t, ds)
  PROVE  /\ v[n] \in States /\ w[n] \in States /\ SeenSame(v[n], w[n])
         /\ v[n].suppress_log /\ v[n].log = s.log
<1> DEFINE P(k) == /\ v[k] \in States /\ w[k] \in States /\ SeenSame(v[k], w[k])
                   /\ v[k].suppress_log /\ v[k].log = s.log
           S == {k \in Nat : k <= n => P(k)}
<1>1. v[0] = s /\ w[0] = t
  BY DEF Runs, IsOrbit
<1>2. 0 \in S
  BY <1>1
<1>3. ASSUME NEW k \in Nat, k \in S
      PROVE  k + 1 \in S
  <2> SUFFICES ASSUME k + 1 <= n
               PROVE  P(k + 1)
    OBVIOUS
  <2>1. P(k)
    BY <1>3
  <2>2. k + 1 \in 1 .. Len(cs) /\ k + 1 \in 1 .. Len(ds) /\ k + 1 \in 1 .. n /\ (k + 1) - 1 = k
    OBVIOUS
  <2>3. /\ v[k + 1] = ReplaySteps(cs)[<<v[k], k + 1>>]
        /\ w[k + 1] = ReplaySteps(ds)[<<w[k], k + 1>>]
    BY <2>2, Zenon DEF Runs, IsOrbit
  <2>4. v[k + 1] = execute(v[k], cs[k + 1]) /\ w[k + 1] = execute(w[k], cs[k + 1])
    BY <2>1, <2>2, <2>3, ReplayStepsType
  <2>5. cs[k + 1] \in Typed /\ cs[k + 1] = ds[k + 1]
    BY <2>2
  <2> DEFINE c == cs[k + 1]
  <2>6. v[k + 1] = execute(v[k], c) /\ w[k + 1] = execute(w[k], c) /\ c \in Typed
    BY <2>4, <2>5
  <2> HIDE DEF c
  <2>7. /\ execute(v[k], c) \in States /\ execute(w[k], c) \in States
        /\ Alike(execute(v[k], c), execute(w[k], c))
        /\ execute(v[k], c).suppress_log = v[k].suppress_log
        /\ execute(v[k], c).log = IF v[k].suppress_log THEN v[k].log ELSE Append(v[k].log, c)
    BY <2>1, <2>6, ExecuteDoes
  <2> QED BY <2>1, <2>6, <2>7 DEF Alike, SeenSame
<1> HIDE DEF S
<1>4. n \in S
  BY <1>2, <1>3, Induction
<1> QED BY <1>4 DEF S

LEMMA ReplayKeeps ==
  ASSUME NEW s \in States
  PROVE  /\ Replayed(s) \in States /\ Replayed(s).log = s.log
         /\ Replayed(s).suppress_log = s.suppress_log
<1> DEFINE c == Silent(s)
           n == Len(s.log)
<1>1. s.log \in Seq(Typed) /\ s.suppress_log \in BOOLEAN
  BY DEF States, State
<1>2. c \in States /\ c.log = s.log /\ c.suppress_log /\ SeenSame(c, c)
  BY SilentState DEF SeenSame
<1>3. PICK w : /\ Runs(w, c, s.log)
               /\ Replayed(s) = [w[n] EXCEPT !.suppress_log = s.suppress_log]
  BY ReplayRuns
<1>4. n \in Nat /\ n <= Len(s.log) /\ \A k \in 1 .. n : s.log[k] = s.log[k]
  BY <1>1
<1> HIDE DEF c, n
<1>5. w[n] \in States /\ w[n].log = s.log
  BY <1>1, <1>2, <1>3, <1>4, RunsAlike
<1>6. w[n] \in State
  BY <1>5 DEF States
<1> QED BY <1>1, <1>3, <1>5, <1>6, Parts DEF State

\* Replays of the same log look the same in the end.
LEMMA ReplaysAlike ==
  ASSUME NEW s \in States, NEW t \in States, SeenSame(s, t), s.log = t.log
  PROVE  SeenSame(Replayed(s), Replayed(t))
<1> DEFINE n == Len(s.log)
<1>1. /\ s.log \in Seq(Typed) /\ n \in Nat /\ n <= Len(s.log)
      /\ \A k \in 1 .. n : s.log[k] = s.log[k]
  BY DEF States, State
<1>2. PICK v : /\ Runs(v, Silent(s), s.log)
               /\ Replayed(s) = [v[n] EXCEPT !.suppress_log = s.suppress_log]
  BY ReplayRuns
<1>3. PICK w : /\ Runs(w, Silent(t), s.log)
               /\ Replayed(t) = [w[n] EXCEPT !.suppress_log = t.suppress_log]
  BY ReplayRuns
<1>4. /\ Silent(s) \in States /\ Silent(t) \in States /\ Silent(s).suppress_log
      /\ SeenSame(Silent(s), Silent(t))
  BY SilentState DEF SeenSame
<1>7. Runs(w, Silent(t), s.log)
  BY <1>3
<1> HIDE DEF n
<1>5. v[n] \in States /\ w[n] \in States /\ SeenSame(v[n], w[n])
  BY <1>1, <1>2, <1>4, <1>7, RunsAlike, ZenonT(40)
<1>6. v[n] \in State /\ w[n] \in State
  BY <1>5 DEF States
<1> QED BY <1>2, <1>3, <1>5, <1>6 DEF SeenSame, State

\* A replay of nothing.
LEMMA ReplayNothing ==
  ASSUME NEW s \in States, s.log = << >>
  PROVE  SeenSame(Replayed(s), s)
<1>1. PICK v : /\ Runs(v, Silent(s), s.log)
               /\ Replayed(s) = [v[Len(s.log)] EXCEPT !.suppress_log = s.suppress_log]
  BY ReplayRuns
<1>2. Len(s.log) = 0 /\ v[0] = Silent(s) /\ Silent(s) \in States
  BY <1>1, SilentState DEF Runs, IsOrbit
<1>3. Silent(s) \in State
  BY <1>2 DEF States
<1> QED BY <1>1, <1>2, <1>3, SilentState DEF SeenSame, State

\* ---- Starts ----

LEMMA RootUser == root \in User /\ <<root>> \in Seq(User) /\ root.uid = 0
<1>1. "root" \in Name /\ "root" \in Word
  BY ShellAssumption
<1> QED BY <1>1 DEF root, User

\* Root is found, and first.
LEMMA FindsRoot ==
  ASSUME NEW s \in States
  PROVE  find_uid(s, 0) = 1
<1>1. s \in State /\ s.users \in Seq(User) /\ s.users # << >> /\ s.users[1].uid = 0
  BY DEF States, State, Agrees
<1>2. 1 \in WithUid(s, 0)
  BY <1>1 DEF WithUid
<1>3. IsFound(find_uid(s, 0), Len(s.users), WithUid(s, 0)) /\ Len(s.users) \in Nat
  BY <1>1, FoundUser
<1> QED BY <1>2, <1>3 DEF IsFound

\* A start leaves the tree, the accounts and the log, and makes the session root's.
LEMMA StartedIs ==
  ASSUME NEW s \in States
  PROVE  LET t == Started(s)
         IN  /\ t \in States /\ t.log = s.log /\ ~ t.suppress_log
             /\ t.tree = s.tree /\ t.users = s.users /\ t.cwd = << >> /\ t.cur = 1
<1> DEFINE a == [s EXCEPT !.users = s.users_file, !.log = s.log_file, !.cwd = << >>,
                          !.euid = 0, !.suppress_log = FALSE]
           b == [a EXCEPT !.cur = 1]
<1>1. s \in State /\ Agrees(s)
  BY DEF States
<1>2. << >> \in Seq(Word)
  OBVIOUS
<1>3. /\ a \in State /\ a.users = s.users /\ a.log = s.log /\ a.users_file = s.users
      /\ a.log_file = s.log /\ a.cur = s.cur /\ a.cwd = << >> /\ a.tree = s.tree
      /\ a.suppress_log = FALSE
  BY <1>1, <1>2 DEF State, Agrees
<1> HIDE DEF a
<1>4. a \in States
  BY <1>1, <1>3 DEF States, Agrees
<1>5. Started(s) = b
  BY <1>4, FindsRoot DEF Started, a
<1>6. 1 \in 0 .. Len(a.users)
  BY <1>1, <1>3 DEF State, Agrees
<1>7. b \in States
  BY <1>4, <1>6, Parts
<1> QED BY <1>3, <1>5, <1>7 DEF State

LEMMA StartedFormatIs ==
  ASSUME NEW s \in States
  PROVE  LET t == StartedFormat(s)
         IN  /\ t \in States /\ t.log = s.log /\ ~ t.suppress_log
             /\ t.tree = FreshTree /\ t.users = <<root>> /\ t.cwd = << >> /\ t.cur = 1
<1> DEFINE a == [s EXCEPT !.users_file = <<root>>, !.tree = FreshTree]
           b == [a EXCEPT !.users = <<root>>, !.cur = 0]
<1>1. s \in State /\ Agrees(s)
  BY DEF States
<1>2. b \in State
  BY <1>1, RootUser, FreshTreeType DEF State
<1>3. /\ b.users = <<root>> /\ b.users_file = <<root>> /\ b.cur = 0
      /\ b.log = s.log /\ b.log_file = s.log /\ b.tree = FreshTree
  BY <1>1 DEF State, Agrees
<1>4. StartedFormat(s) = Started(a)
  BY DEF StartedFormat
<1>5. Started(a) = Started(b)
  <2> DEFINE A == [a EXCEPT !.users = a.users_file, !.log = a.log_file, !.cwd = << >>,
                            !.euid = 0, !.suppress_log = FALSE]
             B == [b EXCEPT !.users = b.users_file, !.log = b.log_file, !.cwd = << >>,
                            !.euid = 0, !.suppress_log = FALSE]
  <2>1. Started(a) = [A EXCEPT !.cur = find_uid(A, 0)]
    BY DEF Started
  <2>2. Started(b) = [B EXCEPT !.cur = find_uid(B, 0)]
    BY DEF Started
  <2>3. /\ A.users = B.users
        /\ \A i : [A EXCEPT !.cur = i] = [B EXCEPT !.cur = i]
    BY <1>1 DEF State
  <2> HIDE DEF A, B
  <2>4. find_uid(A, 0) = find_uid(B, 0)
    BY <2>3 DEF find_uid
  <2> QED BY <2>1, <2>2, <2>3, <2>4
<1> HIDE DEF b
<1>6. b \in States
  <2>1. <<root>> # << >> /\ <<root>>[1] = root /\ 0 \in 0 .. Len(<<root>>)
    OBVIOUS
  <2> QED BY <1>2, <1>3, <2>1, RootUser DEF States, Agrees
<1> QED BY <1>3, <1>4, <1>5, <1>6, StartedIs

LEMMA FreshIs ==
  Fresh \in States /\ ~ Fresh.suppress_log /\ Fresh.log = << >>
<1>1. Fresh \in State
  <2>1. << >> \in Seq(Word) /\ << >> \in Seq(Typed)
    OBVIOUS
  <2> QED BY <2>1, RootUser, FreshTreeType DEF Fresh, State
<1>2. Agrees(Fresh)
  BY RootUser DEF Fresh, Agrees
<1> QED BY <1>1, <1>2 DEF States, Fresh

\* ---- The log ----

Rebuilt(s) == SeenSame(Replayed(StartedFormat(s)), s)

\* What there is after a start with --format.
Blank(s) == s.tree = FreshTree /\ s.users = <<root>> /\ s.cwd = << >> /\ s.cur = 1

\* One more command in the log makes up for one more command.
LEMMA CommandRebuilt ==
  ASSUME NEW s \in States, ~ s.suppress_log, NEW c \in Typed, Rebuilt(s)
  PROVE  Rebuilt(execute(s, c))
<1> DEFINE t == execute(s, c)
           a == StartedFormat(s)
           b == StartedFormat(t)
           n == Len(s.log)
<1>1. t \in States /\ t.log = Append(s.log, c)
  BY ExecuteDoes DEF SeenSame
<1>2. s.log \in Seq(Typed) /\ n \in Nat
  BY DEF States, State
<1> HIDE DEF t
<1>3. /\ a \in States /\ b \in States /\ a.log = s.log /\ b.log = Append(s.log, c)
      /\ SeenSame(a, b)
  BY <1>1, StartedFormatIs DEF SeenSame
<1> HIDE DEF a, b
<1>4. PICK v : /\ Runs(v, Silent(a), s.log)
               /\ Replayed(a) = [v[n] EXCEPT !.suppress_log = a.suppress_log]
  BY <1>3, ReplayRuns
<1> DEFINE L == Append(s.log, c)
<1>5. L \in Seq(Typed) /\ Len(L) = n + 1 /\ L[n + 1] = c /\ \A k \in 1 .. n : L[k] = s.log[k]
  BY <1>2
<1> HIDE DEF L
<1>6. PICK w : /\ Runs(w, Silent(b), L)
               /\ Replayed(b) = [w[n + 1] EXCEPT !.suppress_log = b.suppress_log]
  BY <1>3, <1>5, ReplayRuns DEF L
<1>7. /\ Silent(a) \in States /\ Silent(b) \in States /\ Silent(a).suppress_log
      /\ SeenSame(Silent(a), Silent(b))
  BY <1>3, SilentState DEF SeenSame
<1>8. n <= Len(s.log) /\ n <= Len(L) /\ \A k \in 1 .. n : s.log[k] = L[k]
  BY <1>2, <1>5
<1> HIDE DEF n
<1>9. v[n] \in States /\ w[n] \in States /\ SeenSame(v[n], w[n])
  BY <1>2, <1>4, <1>5, <1>6, <1>7, <1>8, RunsAlike
<1>10. SeenSame(w[n], s)
  <2>1. SeenSame(Replayed(a), s)
    BY DEF Rebuilt, a
  <2>2. SeenSame(Replayed(a), v[n])
    BY <1>4, <1>9 DEF States, State, SeenSame
  <2> QED BY <1>9, <2>1, <2>2 DEF SeenSame
<1>11. w[n + 1] = execute(w[n], c)
  <2>1. n + 1 \in 1 .. Len(L) /\ (n + 1) - 1 = n
    BY <1>2, <1>5
  <2>2. w[n + 1] = ReplaySteps(L)[<<w[n], n + 1>>]
    BY <1>6, <2>1, Zenon DEF Runs, IsOrbit
  <2> QED BY <1>5, <1>9, <2>1, <2>2, ReplayStepsType
<1>12. w[n + 1] \in States /\ Alike(w[n + 1], t)
  BY <1>9, <1>10, <1>11, ExecuteDoes DEF t
<1>13. SeenSame(Replayed(b), w[n + 1])
  BY <1>6, <1>12 DEF States, State, SeenSame
<1> QED BY <1>12, <1>13 DEF SeenSame, Alike, Rebuilt, b, t

\* Where nothing is left but the log, a replay of it makes up for all of it.
LEMMA BlankRebuilt ==
  ASSUME NEW s \in States, NEW t \in States, Blank(s), t = Replayed(s)
  PROVE  Rebuilt(t)
<1> DEFINE b == StartedFormat(t)
<1>1. t.log = s.log
  BY ReplayKeeps
<1>2. b \in States /\ b.log = s.log /\ SeenSame(b, s)
  BY <1>1, StartedFormatIs DEF SeenSame, Blank
<1> HIDE DEF b
<1>3. SeenSame(Replayed(b), Replayed(s))
  BY <1>2, ReplaysAlike
<1> QED BY <1>3 DEF Rebuilt, b

\* That the log accounts for all there is depends on the log and on what is seen.
LEMMA SameRebuilt ==
  ASSUME NEW s \in States, NEW t \in States, SeenSame(s, t), s.log = t.log, Rebuilt(s)
  PROVE  Rebuilt(t)
<1> DEFINE a == StartedFormat(s)
           b == StartedFormat(t)
<1>1. a \in States /\ b \in States /\ a.log = b.log /\ SeenSame(a, b)
  BY StartedFormatIs DEF SeenSame
<1>2. SeenSame(Replayed(a), s)
  BY DEF Rebuilt
<1> HIDE DEF a, b
<1>3. SeenSame(Replayed(a), Replayed(b))
  BY <1>1, ReplaysAlike
<1> QED BY <1>2, <1>3 DEF Rebuilt, SeenSame, b

\* An empty log accounts for nothing.
LEMMA NothingRebuilt ==
  ASSUME NEW s \in States, Blank(s), s.log = << >>
  PROVE  Rebuilt(s)
<1> DEFINE b == StartedFormat(s)
<1>1. b \in States /\ b.log = << >> /\ SeenSame(b, s)
  BY StartedFormatIs DEF SeenSame, Blank
<1> HIDE DEF b
<1>2. SeenSame(Replayed(b), b)
  BY <1>1, ReplayNothing
<1> QED BY <1>1, <1>2 DEF Rebuilt, SeenSame, b

\* ---- The session, step by step ----

SessionInv == now \in States /\ ~ now.suppress_log

LEMMA ClearLogIs ==
  ASSUME NEW s \in States
  PROVE  /\ clear_log(s) \in States /\ clear_log(s).log = << >> /\ SeenSame(clear_log(s), s)
         /\ clear_log(s).suppress_log = s.suppress_log
<1>1. s \in State /\ Agrees(s) /\ << >> \in Seq(Typed)
  BY DEF States
<1>2. clear_log(s) \in State
  BY <1>1 DEF clear_log, State
<1>3. /\ clear_log(s).log = << >> /\ clear_log(s).log_file = << >>
      /\ clear_log(s).users = s.users /\ clear_log(s).users_file = s.users_file
      /\ clear_log(s).cur = s.cur /\ clear_log(s).suppress_log = s.suppress_log
      /\ SeenSame(clear_log(s), s)
  BY <1>1 DEF clear_log, State, SeenSame
<1> QED BY <1>1, <1>2, <1>3 DEF States, Agrees

\* The engine has learnt who is logged in.
LEMMA UserSet ==
  ASSUME SessionInv
  PROVE  LET s == set_user(now, current_uid(now))
         IN  s \in States /\ ~ s.suppress_log /\ s.log = now.log /\ SeenSame(s, now)
<1>1. now \in State /\ Quiet(now, set_user(now, current_uid(now)))
  BY CurrentUid DEF SessionInv, States
<1> QED BY <1>1 DEF SessionInv, Quiet, set_user, SeenSame, State

LEMMA SessionKept ==
  ASSUME SessionInv, [ShellNext]_shell_vars
  PROVE  SessionInv'
<1> DEFINE s == set_user(now, current_uid(now))
<1>1. s \in States /\ ~ s.suppress_log
  BY UserSet
<1> HIDE DEF s
<1>2. ASSUME NEW c \in Typed, Command(c)
      PROVE  SessionInv'
  BY <1>2, ExecuteDoes DEF SessionInv, Command, SeenSame
<1>3. CASE Replay
  BY <1>1, <1>3, ReplayKeeps DEF SessionInv, Replay, s
<1>4. CASE LogClear
  BY <1>1, <1>4, ClearLogIs DEF SessionInv, LogClear, s
<1>5. CASE Start
  BY <1>5, StartedIs DEF SessionInv, Start
<1>6. CASE StartFormat
  BY <1>6, StartedFormatIs DEF SessionInv, StartFormat
<1>7. CASE UNCHANGED shell_vars
  BY <1>7 DEF SessionInv, shell_vars
<1> QED BY <1>2, <1>3, <1>4, <1>5, <1>6, <1>7 DEF ShellNext

LEMMA SessionInvariance == ShellSpec => []SessionInv
<1>1. ShellInit => SessionInv
  BY FreshIs DEF ShellInit, SessionInv
<1>2. SessionInv /\ [ShellNext]_shell_vars => SessionInv'
  BY SessionKept
<1> QED BY <1>1, <1>2, PTL DEF ShellSpec

\* What the next start reads from the files of accounts and of operations is what
\* memory has, whatever commands, replays and starts came before, and root is in
\* the table, first, for the session that begins.
THEOREM ShellFilesAgree == ShellSpec => []FilesAgree
<1>1. SessionInv => FilesAgree
  BY FindsRoot DEF SessionInv, FilesAgree, States, Agrees
<1> QED BY <1>1, SessionInvariance, PTL

\* The program is started again where the session of root began.
AtPrompt == "restart" \notin ShellLiberties

LogInv ==
  /\ SessionInv
  /\ made = "log" => Rebuilt(now)
  /\ made = "blank" => Blank(now)

LEMMA LogCommand ==
  ASSUME LogInv, NEW c \in Typed, Command(c)
  PROVE  LogInv'
<1>1. SessionInv'
  <2>1. now' = execute(now, c) /\ now \in States /\ ~ now.suppress_log
    BY DEF Command, LogInv, SessionInv
  <2> QED BY <2>1, ExecuteDoes DEF SessionInv, SeenSame
<1>2. made' # "blank" /\ (made' = "log" => made = "log") /\ now' = execute(now, c)
  BY DEF Command
<1>3. made = "log" => Rebuilt(execute(now, c))
  BY CommandRebuilt DEF LogInv, SessionInv
<1> QED BY <1>1, <1>2, <1>3 DEF LogInv

LEMMA LogReplay ==
  ASSUME LogInv, Replay
  PROVE  LogInv'
<1> DEFINE s == set_user(now, current_uid(now))
<1>1. SessionInv /\ s \in States /\ ~ s.suppress_log /\ s.log = now.log /\ SeenSame(s, now)
  BY UserSet DEF LogInv
<1>2. now' = Replayed(s)
  BY DEF Replay
<1> HIDE DEF s
<1>3. Replayed(s) \in States /\ Replayed(s).log = s.log /\ ~ Replayed(s).suppress_log
  BY <1>1, ReplayKeeps
<1>4. SessionInv'
  BY <1>2, <1>3 DEF SessionInv
<1>5. CASE made = "blank"
  <2>1. Blank(s)
    BY <1>1, <1>5 DEF LogInv, Blank, SeenSame
  <2>2. made' = "log" /\ Rebuilt(now')
    BY <1>1, <1>2, <1>3, <1>5, <2>1, BlankRebuilt DEF Replay
  <2> QED BY <1>4, <2>2 DEF LogInv
<1>6. CASE made = "log" /\ now.log = << >>
  <2>1. SeenSame(Replayed(s), s)
    BY <1>1, <1>6, ReplayNothing
  <2>2. SeenSame(now, Replayed(s)) /\ now \in States /\ now.log = Replayed(s).log
    BY <1>1, <1>3, <2>1 DEF SeenSame, SessionInv
  <2>3. Rebuilt(now')
    BY <1>2, <1>3, <1>6, <2>2, SameRebuilt DEF LogInv
  <2>4. made' = "log"
    BY <1>6 DEF Replay
  <2> QED BY <1>4, <2>3, <2>4 DEF LogInv
<1>7. CASE made # "blank" /\ ~ (made = "log" /\ now.log = << >>)
  <2>1. made' = "other"
    BY <1>7 DEF Replay
  <2> QED BY <1>4, <2>1 DEF LogInv
<1> QED BY <1>5, <1>6, <1>7

LEMMA LogCleared ==
  ASSUME LogInv, LogClear
  PROVE  LogInv'
<1> DEFINE s == set_user(now, current_uid(now))
<1>1. SessionInv /\ s \in States /\ ~ s.suppress_log /\ SeenSame(s, now)
  BY UserSet DEF LogInv
<1>2. now' = clear_log(s)
  BY DEF LogClear
<1> HIDE DEF s
<1>3. now' \in States /\ now'.log = << >> /\ ~ now'.suppress_log /\ SeenSame(now', s)
  BY <1>1, <1>2, ClearLogIs
<1>4. SessionInv'
  BY <1>3 DEF SessionInv
<1> DEFINE e == [now EXCEPT !.log = << >>, !.log_file = << >>, !.euid = 0]
<1>5. CASE e = Fresh
  <2>1. now \in State
    BY <1>1 DEF SessionInv, States
  <2>2. SeenSame(e, now)
    BY <2>1 DEF State, SeenSame
  <2>3. Blank(Fresh)
    BY DEF Blank, Fresh
  <2> HIDE DEF e
  <2>4. Blank(now')
    BY <1>1, <1>3, <1>5, <2>2, <2>3 DEF Blank, SeenSame
  <2>5. Rebuilt(now')
    BY <1>3, <2>4, NothingRebuilt
  <2>6. made' = "log"
    BY <1>5 DEF LogClear, e
  <2> QED BY <1>4, <2>5, <2>6 DEF LogInv
<1>6. CASE e # Fresh
  <2>1. made' = "other"
    BY <1>6 DEF LogClear
  <2> QED BY <1>4, <2>1 DEF LogInv
<1> QED BY <1>5, <1>6

LEMMA LogStart ==
  ASSUME LogInv, AtPrompt, Start
  PROVE  LogInv'
<1>1. now.cwd = << >> /\ now.cur = 1 /\ now' = Started(now) /\ made' = made
  BY DEF AtPrompt, Start
<1>2. now \in States
  BY DEF LogInv, SessionInv
<1>3. now' \in States /\ now'.log = now.log /\ ~ now'.suppress_log /\ SeenSame(now, now')
  BY <1>1, <1>2, StartedIs DEF SeenSame
<1>4. SessionInv'
  BY <1>3 DEF SessionInv
<1>5. made = "log" => Rebuilt(now')
  BY <1>2, <1>3, SameRebuilt DEF LogInv
<1>6. made = "blank" => Blank(now')
  BY <1>3 DEF LogInv, Blank, SeenSame
<1> QED BY <1>1, <1>4, <1>5, <1>6 DEF LogInv

LEMMA LogStartFormat ==
  ASSUME LogInv, StartFormat
  PROVE  LogInv'
<1>1. now' = StartedFormat(now) /\ made' # "log"
  BY DEF StartFormat
<1>2. now' \in States /\ ~ now'.suppress_log /\ Blank(now')
  BY <1>1, StartedFormatIs DEF LogInv, SessionInv, Blank
<1> QED BY <1>1, <1>2 DEF LogInv, SessionInv

LEMMA LogKept ==
  ASSUME LogInv, AtPrompt, [ShellNext]_shell_vars
  PROVE  LogInv'
<1>1. CASE UNCHANGED shell_vars
  BY <1>1 DEF shell_vars, LogInv, SessionInv
<1> QED BY <1>1, LogCommand, LogReplay, LogCleared, LogStart, LogStartFormat DEF ShellNext

\* The documents' promise: after a start with --format, replay builds up again the
\* directories, the accounts and the session, as they are, from any log that began
\* with the volume: whatever was typed, whether it failed or not, and however often
\* the program was left and started again where the session of root began.
THEOREM ShellLogRebuilds == AtPrompt => (ShellSpec => []LogRebuilds)
<1>1. ShellInit => LogInv
  BY FreshIs, NothingRebuilt DEF ShellInit, LogInv, SessionInv, Blank, Fresh
<1>2. AtPrompt /\ LogInv /\ [ShellNext]_shell_vars => LogInv'
  BY LogKept
<1>3. LogInv => LogRebuilds
  BY DEF LogInv, LogRebuilds, Rebuilt, Seen, SeenSame
<1>4. CASE AtPrompt
  <2>1. LogInv /\ [ShellNext]_shell_vars => LogInv'
    BY <1>2, <1>4
  <2> QED BY <1>1, <1>3, <2>1, PTL DEF ShellSpec
<1> QED BY <1>4

\* ---- Patterns ----

LEMMA SiblingsApart ==
  ASSUME NEW p \in Seq(Word), NEW q \in Seq(Word), p # << >>, q # << >>, Front(p) = Front(q)
  PROVE  ~ IsStrictPrefix(p, q)
<1>1. Len(p) \in Nat \ {0} /\ Len(q) \in Nat \ {0}
  OBVIOUS
<1>2. Len(Front(p)) = Len(p) - 1 /\ Len(Front(q)) = Len(q) - 1
  <2>1. ASSUME NEW r \in Seq(Word), Len(r) \in Nat \ {0}
        PROVE  Len(SubSeq(r, 1, Len(r) - 1)) = Len(r) - 1
    <3> DEFINE m == Len(r) - 1
    <3>1. m \in Nat /\ 1 \in Int /\ \A i \in 1 .. m : r[i] \in Word
      BY <2>1
    <3>2. m \in Int
      BY <3>1
    <3> HIDE DEF m
    <3>3. Len(SubSeq(r, 1, m)) = IF 1 <= m THEN m - 1 + 1 ELSE 0
      BY <3>1, <3>2, SubSeqProperties
    <3>4. Len(SubSeq(r, 1, m)) = m
      BY <3>1, <3>3
    <3> QED BY <3>4 DEF m
  <2> QED BY <1>1, <2>1 DEF Front
<1>3. Len(p) = Len(q)
  BY <1>1, <1>2
<1> SUFFICES ASSUME IsPrefix(p, q)
             PROVE  p = q
  BY DEF IsStrictPrefix
<1>4. SubSeq(p, 1, Len(p)) = SubSeq(q, 1, Len(p))
  BY DEF IsPrefix
<1>5. ASSUME NEW k \in 1 .. Len(p)
      PROVE  p[k] = q[k]
  <2>1. SubSeq(p, 1, Len(p))[k] = p[k] /\ SubSeq(q, 1, Len(p))[k] = q[k]
    BY <1>1, <1>3
  <2> QED BY <1>4, <2>1
<1> QED BY <1>3, <1>5, SeqEqual

\* What is removed of a tree, of the directories of a sequence up to the k-th.
Stripped(tree, ps, k) ==
  {ps[i] : i \in {j \in 1 .. k : ~ \E q \in DOMAIN tree : IsStrictPrefix(ps[j], q)}}

LEMMA RmdirAllTree ==
  ASSUME NEW s \in States, NEW ps \in Seq(Seq(Word)), NEW dir,
         \A i \in 1 .. Len(ps) : ps[i] \in DOMAIN s.tree /\ ps[i] # << >> /\ Front(ps[i]) = dir,
         \A i, j \in 1 .. Len(ps) : ps[i] = ps[j] => i = j
  PROVE  DOMAIN rmdir_all(s, ps).tree = DOMAIN s.tree \ Stripped(s.tree, ps, Len(ps))
<1> DEFINE n == Len(ps)
           G == RmSteps(n, ps)
           D == DOMAIN s.tree
<1>1. PICK w : IsOrbit(w, States, s, n, G) /\ rmdir_all(s, ps) = w[n]
  BY RmdirAllRuns
<1>2. \A a \in States, k \in 1 .. n : G[<<a, k>>] = fs_rmdir(a, ps[k])
  BY RmStepsType
<1>3. n \in Nat
  OBVIOUS
<1> HIDE DEF G
<1> DEFINE S == {k \in Nat : k <= n => DOMAIN w[k].tree = D \ Stripped(s.tree, ps, k)}
<1>4. 0 \in S
  <2>1. Stripped(s.tree, ps, 0) = {} /\ w[0] = s
    BY <1>1 DEF Stripped, IsOrbit
  <2> QED BY <2>1
<1>5. ASSUME NEW k \in Nat, k \in S
      PROVE  k + 1 \in S
  <2> SUFFICES ASSUME k + 1 <= n
               PROVE  DOMAIN w[k + 1].tree = D \ Stripped(s.tree, ps, k + 1)
    OBVIOUS
  <2> DEFINE p == ps[k + 1]
             gone == Stripped(s.tree, ps, k)
             has == \E q \in D : IsStrictPrefix(p, q)
  <2>1. k + 1 \in 1 .. n /\ (k + 1) - 1 = k /\ k \in 0 .. n /\ k \in Nat /\ 1 .. k \subseteq 1 .. n
    OBVIOUS
  <2>2. DOMAIN w[k].tree = D \ gone
    BY <1>5, <2>1
  <2>3. w[k] \in States
    BY <1>1, <2>1 DEF IsOrbit
  <2>4. w[k + 1] = G[<<w[k], k + 1>>]
    BY <1>1, <2>1, Zenon DEF IsOrbit
  <2>5. w[k + 1] = fs_rmdir(w[k], p)
    BY <1>2, <2>1, <2>3, <2>4
  <2>6. w[k + 1].tree = RmTree(w[k].tree, p)
    <3>1. w[k + 1] = [w[k] EXCEPT !.tree = RmTree(w[k].tree, p)]
      BY <2>3, <2>5, EngineForm
    <3>2. w[k] \in State
      BY <2>3 DEF States
    <3> QED BY <3>1, <3>2 DEF State
  <2>7. p \in D \ gone
    <3>1. \A i \in 1 .. k : ps[i] # p
      BY <2>1
    <3> QED BY <2>1, <3>1 DEF Stripped
  <2>8. \A q \in gone : ~ IsStrictPrefix(p, q)
    <3> SUFFICES ASSUME NEW i \in 1 .. k
                 PROVE  ~ IsStrictPrefix(p, ps[i])
      BY DEF Stripped
    <3>1. i \in 1 .. n
      BY <2>1
    <3>2. p \in Seq(Word) /\ ps[i] \in Seq(Word)
      BY <2>1, <3>1
    <3>3. p # << >> /\ ps[i] # << >> /\ Front(p) = Front(ps[i])
      BY <2>1, <3>1
    <3> HIDE DEF p
    <3> QED BY <3>2, <3>3, SiblingsApart
  <2>9. Stripped(s.tree, ps, k + 1) = IF has THEN gone ELSE gone \cup {p}
    <3>1. \A i : i \in 1 .. k + 1 <=> i \in 1 .. k \/ i = k + 1
      BY <2>1
    <3> QED BY <3>1 DEF Stripped
  <2> HIDE DEF p, gone
  <2>10. has <=> \E q \in DOMAIN w[k].tree : IsStrictPrefix(p, q)
    BY <2>2, <2>8
  <2>11. CASE has
    BY <2>2, <2>6, <2>9, <2>10, <2>11 DEF RmTree
  <2>12. CASE ~ has
    <3>1. RmTree(w[k].tree, p) = [q \in DOMAIN w[k].tree \ {p} |-> w[k].tree[q]]
      BY <2>2, <2>7, <2>10, <2>12 DEF RmTree
    <3> QED BY <2>2, <2>6, <2>9, <2>12, <3>1
  <2> QED BY <2>11, <2>12
<1> HIDE DEF S
<1>6. n \in S
  BY <1>3, <1>4, <1>5, Induction
<1> QED BY <1>1, <1>3, <1>6 DEF S

\* What rmdir of a pattern removes.
LEMMA GlobsRemoved ==
  ASSUME NEW s \in States, NEW d, NEW dir, dir = DirOf(s, IF d = "/" THEN "" ELSE d)
  PROVE  DOMAIN s.tree \ DOMAIN rmdir_all(s, expand_globs(s, d)).tree =
           {p \in Matches(s, dir) : ~ \E q \in DOMAIN s.tree : IsStrictPrefix(p, q)}
<1> DEFINE S == Matches(s, dir)
           ps == SetToSeq(S)
<1>1. s.tree \in Trees
  BY DEF States, State
<1>2. S \subseteq DOMAIN s.tree /\ \A p \in S : p # << >> /\ Front(p) = dir
  BY DEF Matches
<1>3. IsFiniteSet(DOMAIN s.tree)
  BY <1>1 DEF Trees
<1>4. IsFiniteSet(S)
  BY <1>2, <1>3, FS_Subset
<1>5. expand_globs(s, d) = ps
  BY DEF expand_globs
<1>6. ps \in Seq(Seq(Word))
  BY <1>5, GlobsInSeq
<1> HIDE DEF S
<1>7. /\ ps \in Seq(S)
      /\ \A i, j \in 1 .. Len(ps) : ps[i] = ps[j] => i = j
      /\ \A x \in S : \E i \in 1 .. Len(ps) : ps[i] = x
  BY <1>4, SetInSeq
<1> HIDE DEF ps
<1>8. \A i \in 1 .. Len(ps) : ps[i] \in S
  BY <1>7, ElementOfSeq
<1>9. DOMAIN rmdir_all(s, ps).tree = DOMAIN s.tree \ Stripped(s.tree, ps, Len(ps))
  <2>1. \A i \in 1 .. Len(ps) : ps[i] \in DOMAIN s.tree /\ ps[i] # << >> /\ Front(ps[i]) = dir
    BY <1>2, <1>8
  <2> QED BY <1>6, <1>7, <2>1, RmdirAllTree
<1>10. Stripped(s.tree, ps, Len(ps)) =
         {p \in S : ~ \E q \in DOMAIN s.tree : IsStrictPrefix(p, q)}
  <2>1. \A x \in S : \E i \in 1 .. Len(ps) : ps[i] = x
    BY <1>7
  <2> QED BY <1>8, <2>1, Zenon DEF Stripped
<1> QED BY <1>2, <1>5, <1>9, <1>10 DEF S

\* The log grows by the command that is carried out, and by that alone.
LEMMA LogGrows ==
  ASSUME SessionInv, [ShellNext]_shell_vars, Len(now'.log) > Len(now.log)
  PROVE  \E c \in Typed :
           /\ Command(c) /\ now' = execute(now, c) /\ Last(now'.log) = c
           /\ now' = handler(record(set_user(now, current_uid(now)), c), c)
<1> DEFINE s == set_user(now, current_uid(now))
<1>1. now \in States /\ now.log \in Seq(Typed) /\ Len(now.log) \in Nat /\ ~ now.suppress_log
  BY DEF SessionInv, States, State
<1>2. ~ UNCHANGED shell_vars
  BY <1>1 DEF shell_vars
<1>3. ~ Replay
  <2>1. s \in States /\ s.log = now.log
    BY UserSet
  <2> QED BY <1>1, <2>1, ReplayKeeps DEF Replay
<1>4. ~ LogClear
  <2>1. s \in States
    BY UserSet
  <2>2. LogClear => now'.log = << >>
    BY <2>1, ClearLogIs DEF LogClear
  <2>3. Len(<< >>) = 0
    OBVIOUS
  <2> QED BY <1>1, <2>2, <2>3
<1>5. ~ Start
  BY <1>1, StartedIs DEF Start
<1>6. ~ StartFormat
  BY <1>1, StartedFormatIs DEF StartFormat
<1>7. PICK c \in Typed : Command(c)
  BY <1>2, <1>3, <1>4, <1>5, <1>6 DEF ShellNext
<1>8. now' = execute(now, c)
  BY <1>7 DEF Command
<1>9. now'.log = Append(now.log, c)
  BY <1>1, <1>8, ExecuteDoes DEF SeenSame
<1>10. Last(now'.log) = c
  BY <1>1, <1>9 DEF Last
<1> QED BY <1>7, <1>8, <1>10 DEF execute

\* What a command works on: what there was before, but for the log and the number
\* that the engine has.
LEMMA Recorded ==
  ASSUME SessionInv, NEW c \in Typed
  PROVE  LET x == record(set_user(now, current_uid(now)), c)
         IN  x \in States /\ SeenSame(x, now)
<1>1. set_user(now, current_uid(now)) \in States
  BY UserSet
<1> QED BY <1>1, UserSet, RecordAdds DEF Alike, SeenSame

\* Patterns like /* are typed in the root.
Rooted == "rooted" \notin ShellLiberties

PatternMeant ==
  (Len(now'.log) > Len(now.log) /\ Last(now'.log)[1] = "rmdir*") =>
    LET dir == DirOf(now, Last(now'.log)[2])
    IN  DOMAIN now.tree \ DOMAIN now'.tree =
          {p \in Matches(now, dir) : ~ \E q \in DOMAIN now.tree : IsStrictPrefix(p, q)}

LEMMA PatternStep ==
  ASSUME SessionInv, Rooted, [ShellNext]_shell_vars
  PROVE  PatternMeant
<1> SUFFICES ASSUME Len(now'.log) > Len(now.log), Last(now'.log)[1] = "rmdir*"
             PROVE  LET dir == DirOf(now, Last(now'.log)[2])
                    IN  DOMAIN now.tree \ DOMAIN now'.tree =
                          {p \in Matches(now, dir) :
                             ~ \E q \in DOMAIN now.tree : IsStrictPrefix(p, q)}
  BY DEF PatternMeant
<1> DEFINE x(c) == record(set_user(now, current_uid(now)), c)
<1>1. PICK c \in Typed : /\ Command(c) /\ Last(now'.log) = c
                         /\ now' = handler(x(c), c)
  BY LogGrows
<1> DEFINE y == x(c)
           d == c[2]
           dir == DirOf(y, IF d = "/" THEN "" ELSE d)
<1>2. y \in States /\ SeenSame(y, now)
  BY Recorded
<1>3. c[1] = "rmdir*" /\ now' = rmdir_all(y, expand_globs(y, d))
  BY <1>1 DEF handler
<1>4. c = <<"rmdir*", d>>
  BY <1>3, ShellAssumption
<1> HIDE DEF y, x, d
<1>5. dir = DirOf(now, d)
  <2>1. CASE d = "/"
    <3>1. now.cwd = << >>
      BY <1>1, <1>4, <2>1 DEF Command, Rooted
    <3>2. y.cwd = << >>
      BY <1>2, <3>1 DEF SeenSame
    <3> QED BY <2>1, <3>2 DEF DirOf
  <2>2. CASE d # "/"
    BY <1>2, <2>2 DEF DirOf, SeenSame
  <2> QED BY <2>1, <2>2
<1> HIDE DEF dir
<1>6. DOMAIN y.tree \ DOMAIN now'.tree =
        {p \in Matches(y, dir) : ~ \E q \in DOMAIN y.tree : IsStrictPrefix(p, q)}
  BY <1>2, <1>3, GlobsRemoved DEF dir
<1>7. y.tree = now.tree /\ Matches(y, dir) = Matches(now, dir)
  BY <1>2 DEF SeenSame, Matches
<1>8. Last(now'.log)[2] = d
  BY <1>1 DEF d
<1> QED BY <1>5, <1>6, <1>7, <1>8

\* rmdir of a pattern removes the empty directories that the pattern stands for, and
\* no others, which are those of the directory in front of its last part.  They go
\* one by one, and none of them depends on what went before: for any tree, current
\* directory and user.
THEOREM ShellExpandsInDir == Rooted => (ShellSpec => ExpandsInDir)
<1>1. SessionInv /\ Rooted /\ [ShellNext]_shell_vars => [PatternMeant]_shell_vars
  BY PatternStep
<1>2. ExpandsInDir <=> [][PatternMeant]_shell_vars
  BY DEF ExpandsInDir, PatternMeant
<1>3. CASE Rooted
  <2>1. SessionInv /\ [ShellNext]_shell_vars => [PatternMeant]_shell_vars
    BY <1>1, <1>3
  <2> QED BY <1>2, <2>1, SessionInvariance, PTL DEF ShellSpec
<1> QED BY <1>3

\* ---- Accounts have one owner ----

\* Names have numbers of their own, and are kept whole.
OwnNumbers ==
  /\ \A m, n \in Name : UidOf[m] = UidOf[n] => m = n
  /\ \A n \in Name : Cut[n] = n

Owns(s) ==
  /\ \A i \in 1 .. Len(s.users) : s.users[i].uid = UidOf[s.users[i].name]
  /\ \A i, j \in 1 .. Len(s.users) : s.users[i].name = s.users[j].name => i = j

Keeps(s, u) == u.users = s.users /\ u.cur = s.cur

\* Who logs in is n, and only the one who is logged in has a new password.
Acts(s, u, n) ==
  /\ Owns(u)
  /\ u.cur \notin {0, s.cur} => u.users[u.cur].name = n
  /\ \A i \in 1 .. Len(s.users) : u.users[i].pw # s.users[i].pw => i = s.cur

LEMMA KeepsActs ==
  ASSUME NEW s, NEW u, Owns(s), Keeps(s, u), NEW n
  PROVE  Acts(s, u, n)
BY DEF Owns, Keeps, Acts

\* Numbers are different, too.
LEMMA UidOnce ==
  ASSUME OwnNumbers, NEW s \in States, Owns(s),
         NEW i \in 1 .. Len(s.users), NEW j \in 1 .. Len(s.users),
         s.users[i].uid = s.users[j].uid
  PROVE  i = j
<1>1. s.users \in Seq(User)
  BY DEF States, State
<1>2. s.users[i] \in User /\ s.users[j] \in User
  BY <1>1
<1>3. s.users[i].name \in Name /\ s.users[j].name \in Name
  BY <1>2 DEF User
<1>4. UidOf[s.users[i].name] = UidOf[s.users[j].name]
  BY DEF Owns
<1>5. s.users[i].name = s.users[j].name
  BY <1>3, <1>4 DEF OwnNumbers
<1> QED BY <1>5 DEF Owns

LEMMA EngineKeeps ==
  ASSUME NEW s \in States, NEW p, NEW uid
  PROVE  /\ Keeps(s, fs_mkdir(s, p)) /\ Keeps(s, fs_rmdir(s, p)) /\ Keeps(s, fs_chdir(s, p))
         /\ Keeps(s, set_user(s, uid)) /\ Keeps(s, fs_format(s))
<1>1. s \in State
  BY DEF States
<1>2. Keeps(s, fs_mkdir(s, p)) /\ Keeps(s, fs_rmdir(s, p))
  <2>1. \A T : Keeps(s, [s EXCEPT !.tree = T])
    BY <1>1 DEF State, Keeps
  <2>2. /\ fs_mkdir(s, p) = [s EXCEPT !.tree = MkTree(s.tree, p, s.euid)]
        /\ fs_rmdir(s, p) = [s EXCEPT !.tree = RmTree(s.tree, p)]
    BY EngineForm
  <2> QED BY <2>1, <2>2
<1>3. Keeps(s, fs_chdir(s, p))
  BY <1>1 DEF State, Keeps, fs_chdir
<1>4. Keeps(s, set_user(s, uid)) /\ Keeps(s, fs_format(s))
  BY <1>1 DEF State, Keeps, set_user, fs_format
<1> QED BY <1>2, <1>3, <1>4

LEMMA RmdirAllKeeps ==
  ASSUME NEW s \in States, NEW ps \in Seq(Seq(Word))
  PROVE  Keeps(s, rmdir_all(s, ps))
<1> DEFINE n == Len(ps)
           G == RmSteps(n, ps)
<1>1. PICK w : IsOrbit(w, States, s, n, G) /\ rmdir_all(s, ps) = w[n]
  BY RmdirAllRuns
<1>2. \A a \in States, k \in 1 .. n : G[<<a, k>>] = fs_rmdir(a, ps[k])
  BY RmStepsType
<1>3. n \in Nat
  OBVIOUS
<1> HIDE DEF G, n
<1> DEFINE S == {k \in Nat : k <= n => Keeps(s, w[k])}
<1>4. 0 \in S
  BY <1>1 DEF IsOrbit, Keeps
<1>5. ASSUME NEW k \in Nat, k \in S
      PROVE  k + 1 \in S
  <2> SUFFICES ASSUME k + 1 <= n
               PROVE  Keeps(s, w[k + 1])
    OBVIOUS
  <2>1. k + 1 \in 1 .. n /\ (k + 1) - 1 = k /\ k \in 0 .. n /\ Keeps(s, w[k])
    BY <1>3, <1>5
  <2>2. w[k] \in States
    BY <1>1, <2>1 DEF IsOrbit
  <2>3. w[k + 1] = G[<<w[k], k + 1>>]
    BY <1>1, <2>1, Zenon DEF IsOrbit
  <2>4. w[k + 1] = fs_rmdir(w[k], ps[k + 1])
    BY <1>2, <2>1, <2>2, <2>3
  <2>5. Keeps(w[k], fs_rmdir(w[k], ps[k + 1]))
    BY <2>2, EngineKeeps
  <2> QED BY <2>1, <2>4, <2>5 DEF Keeps
<1> HIDE DEF S
<1>6. n \in S
  BY <1>3, <1>4, <1>5, Induction
<1> QED BY <1>1, <1>3, <1>6 DEF S

LEMMA LoginActs ==
  ASSUME NEW s \in States, Owns(s), NEW n, NEW pw
  PROVE  Acts(s, login(s, n, pw), n)
<1> DEFINE i == find_login(s, n, pw)
<1>1. s \in State
  BY DEF States
<1>2. IsFound(i, Len(s.users), WithPw(s, n, pw))
  BY <1>1, FoundUser
<1>3. login(s, n, pw) = IF i = 0 THEN s ELSE [s EXCEPT !.cur = i]
  BY DEF login, SelectInSeq, find_login, WithPw
<1> HIDE DEF i
<1>4. i # 0 => s.users[i].name = n
  BY <1>2 DEF IsFound, WithPw
<1> QED BY <1>1, <1>3, <1>4 DEF Acts, Owns, State

LEMMA SuActs ==
  ASSUME OwnNumbers, NEW s \in States, Owns(s), NEW n, NEW pw
  PROVE  Acts(s, su(s, n, pw), n)
<1> DEFINE f == find_user(s, n)
           uid == s.users[f].uid
           j == find_uid(s, uid)
<1>1. s \in State
  BY DEF States
<1>2. /\ IsFound(f, Len(s.users), WithName(s, n))
      /\ IsFound(j, Len(s.users), WithUid(s, uid))
  BY <1>1, FoundUser
<1>3. su(s, n, pw) = s \/ (f # 0 /\ su(s, n, pw) = [s EXCEPT !.cur = j])
  BY DEF su
<1>4. ASSUME f # 0
      PROVE  s.users[j].name = n
  <2>1. f \in 1 .. Len(s.users) /\ s.users[f].name = n
    BY <1>2, <1>4 DEF IsFound, WithName
  <2>2. f \in WithUid(s, uid)
    BY <2>1 DEF WithUid
  <2> HIDE DEF j
  <2>3. j \in 1 .. Len(s.users) /\ s.users[j].uid = uid
    BY <1>2, <2>2 DEF IsFound, WithUid
  <2>4. j = f
    BY <2>1, <2>3, UidOnce
  <2> QED BY <2>1, <2>4
<1> HIDE DEF f, j
<1> QED BY <1>1, <1>3, <1>4 DEF Acts, Owns, State

LEMMA PasswdActs ==
  ASSUME OwnNumbers, NEW s \in States, Owns(s), NEW old, NEW new \in Word, NEW n
  PROVE  Acts(s, change_password(s, old, new), n)
<1> DEFINE i == find_uid(s, current_uid(s))
           U == [s.users EXCEPT ![i].pw = new]
           u == change_password(s, old, new)
<1>1. s \in State /\ s.users \in Seq(User)
  BY DEF States, State
<1>2. u = s \/ (s.cur # 0 /\ u = Saved([s EXCEPT !.users = U]))
  BY <1>1 DEF change_password, State
<1>3. CASE u = s
  BY <1>3, KeepsActs DEF Keeps
<1>4. CASE s.cur # 0 /\ u = Saved([s EXCEPT !.users = U])
  <2>1. i \in 1 .. Len(s.users) /\ s.cur \in 1 .. Len(s.users) /\ s.users[i].uid = s.users[s.cur].uid
    BY <1>4, FindsCurrent
  <2> HIDE DEF i
  <2>2. i = s.cur
    BY <2>1, UidOnce
  <2>3. u.users = U /\ u.cur = s.cur
    BY <1>1, <1>4 DEF Saved, State
  <2> HIDE DEF u
  <2>4. /\ Len(U) = Len(s.users)
        /\ \A k \in 1 .. Len(s.users) : /\ U[k].name = s.users[k].name /\ U[k].uid = s.users[k].uid
                                        /\ k # i => U[k] = s.users[k]
    <3>1. \A k \in 1 .. Len(s.users) : s.users[k] \in User
      BY <1>1
    <3>2. U = [k \in 1 .. Len(s.users) |-> IF k = i THEN [s.users[i] EXCEPT !.pw = new] ELSE s.users[k]]
      BY <1>1, <2>1
    <3>3. [s.users[i] EXCEPT !.pw = new].name = s.users[i].name /\ [s.users[i] EXCEPT !.pw = new].uid = s.users[i].uid
      BY <2>1, <3>1 DEF User
    <3>4. Len(U) = Len(s.users)
      BY <1>1, <3>2
    <3> HIDE DEF U
    <3> QED BY <3>2, <3>3, <3>4
  <2> HIDE DEF U
  <2>5. Owns(u)
    BY <2>3, <2>4 DEF Owns
  <2>6. \A k \in 1 .. Len(s.users) : u.users[k].pw # s.users[k].pw => k = s.cur
    BY <2>2, <2>3, <2>4
  <2>7. Acts(s, u, n)
    BY <2>3, <2>5, <2>6 DEF Acts
  <2> QED BY <2>7 DEF u
<1> QED BY <1>2, <1>3, <1>4

LEMMA UseraddActs ==
  ASSUME OwnNumbers, NEW s \in States, Owns(s), NEW n \in Name, NEW pw \in Word, NEW m
  PROVE  Acts(s, useradd(s, n, pw), m)
<1> DEFINE U == Append(s.users, [name |-> Cut[n], pw |-> pw, uid |-> UidOf[n]])
           a == Saved([s EXCEPT !.users = U])
           b == fs_mkdir(a, <<"home">>)
           c == set_user(b, UidOf[n])
           d == fs_mkdir(c, <<"home", n>>)
           e == set_user(d, current_uid(d))
<1>1. s \in State /\ s.users \in Seq(User) /\ Agrees(s)
  BY DEF States, State
<1>2. useradd(s, n, pw) = s \/ (find_user(s, n) = 0 /\ useradd(s, n, pw) = e)
  BY DEF useradd
<1>3. CASE useradd(s, n, pw) = s
  BY <1>3, KeepsActs DEF Keeps
<1>4. CASE find_user(s, n) = 0 /\ useradd(s, n, pw) = e
  <2>1. [name |-> Cut[n], pw |-> pw, uid |-> UidOf[n]] \in User
    BY ShellAssumption DEF User
  <2>2. U \in Seq(User) /\ Len(U) = Len(s.users) + 1 /\ U[Len(U)].name = n /\ U[Len(U)].uid = UidOf[n]
        /\ \A k \in 1 .. Len(s.users) : U[k] = s.users[k]
    BY <1>1, <2>1 DEF OwnNumbers
  <2> HIDE DEF U
  <2>3. Table(s, U)
    BY <1>1, <2>2 DEF Table, Agrees, State
  <2>4. a \in States /\ a.users = U /\ a.cur = s.cur
    <3>1. Does(s, s, a, a) /\ a = [s EXCEPT !.users = U, !.users_file = U]
      BY <2>3, SavedDoes DEF Alike
    <3> QED BY <1>1, <3>1 DEF Does, Quiet, State
  <2>5. <<"home">> \in Seq(Word) /\ <<"home", n>> \in Seq(Word) /\ UidOf[n] \in Nat
    BY ShellAssumption
  <2>6. b \in States /\ Keeps(a, b)
    BY <2>4, <2>5, EngineDoes, EngineKeeps DEF Does, Quiet, Alike
  <2>7. c \in States /\ Keeps(b, c)
    BY <2>5, <2>6, EngineDoes, EngineKeeps DEF Does, Quiet, Alike
  <2>8. d \in States /\ Keeps(c, d)
    BY <2>5, <2>7, EngineDoes, EngineKeeps, ZenonT(40) DEF Does, Quiet, Alike
  <2>9. Keeps(d, e)
    BY <2>8, EngineKeeps
  <2>10. e.users = U /\ e.cur = s.cur
    BY <2>4, <2>6, <2>7, <2>8, <2>9 DEF Keeps
  <2> HIDE DEF e
  <2>11. \A k \in 1 .. Len(s.users) : s.users[k].name # n
    BY <1>1, <1>4, FoundUser DEF IsFound, WithName
  <2>12. Len(s.users) \in Nat
    BY <1>1
  <2> DEFINE k0 == Len(s.users) + 1
  <2>13. Len(U) = k0 /\ U[k0].name = n /\ U[k0].uid = UidOf[n] /\ k0 \notin 1 .. Len(s.users)
        /\ \A i : i \in 1 .. k0 <=> i \in 1 .. Len(s.users) \/ i = k0
    BY <2>2, <2>12
  <2> HIDE DEF k0
  <2>14. Owns(e)
    <3>1. \A k \in 1 .. Len(s.users) : U[k] = s.users[k] /\ U[k].uid = UidOf[U[k].name]
      BY <2>2 DEF Owns
    <3>2. \A i \in 1 .. k0 : U[i].uid = UidOf[U[i].name]
      BY <2>13, <3>1
    <3>3. ASSUME NEW i \in 1 .. k0, NEW j \in 1 .. k0, U[i].name = U[j].name
          PROVE  i = j
      <4>1. CASE i = k0 \/ j = k0
        BY <2>11, <2>13, <3>1, <3>3, <4>1
      <4>2. CASE i \in 1 .. Len(s.users) /\ j \in 1 .. Len(s.users)
        BY <3>1, <3>3, <4>2 DEF Owns
      <4> QED BY <2>13, <4>1, <4>2
    <3> QED BY <2>10, <2>13, <3>2, <3>3 DEF Owns
  <2>15. \A k \in 1 .. Len(s.users) : e.users[k].pw # s.users[k].pw => k = s.cur
    BY <2>2, <2>10
  <2> QED BY <1>4, <2>10, <2>14, <2>15 DEF Acts
<1> QED BY <1>2, <1>3, <1>4

LEMMA HandlerActs ==
  ASSUME OwnNumbers, NEW s \in States, Owns(s), NEW c \in Typed
  PROVE  Acts(s, handler(s, c), c[2])
<1>1. CASE c[1] = "mkdir"
  BY <1>1, EngineKeeps, KeepsActs DEF handler
<1>2. CASE c[1] = "rmdir"
  BY <1>2, EngineKeeps, KeepsActs DEF handler
<1>3. CASE c[1] = "rmdir*"
  <2>1. Keeps(s, rmdir_all(s, expand_globs(s, c[2])))
    BY GlobsInSeq, RmdirAllKeeps
  <2> QED BY <1>3, <2>1, KeepsActs DEF handler
<1>4. CASE c[1] = "cd"
  BY <1>4, EngineKeeps, KeepsActs DEF handler, cd
<1>5. CASE c[1] = "useradd"
  BY <1>5, TypedWords, UseraddActs DEF handler
<1>6. CASE c[1] = "login"
  BY <1>6, LoginActs DEF handler
<1>7. CASE c[1] = "su"
  BY <1>7, SuActs DEF handler
<1>8. CASE c[1] = "passwd"
  BY <1>8, TypedWords, PasswdActs DEF handler
<1>9. CASE c[1] = "logout"
  <2>1. s \in State
    BY DEF States
  <2>2. logout(s).users = s.users /\ logout(s).cur = 0
    BY <2>1 DEF logout, State
  <2>3. Acts(s, logout(s), c[2])
    BY <2>2 DEF Acts, Owns
  <2> QED BY <1>9, <2>3 DEF handler
<1>10. CASE c[1] = "format"
  BY <1>10, EngineKeeps, KeepsActs DEF handler
<1> QED BY <1>1, <1>2, <1>3, <1>4, <1>5, <1>6, <1>7, <1>8, <1>9, <1>10, TypedWords

LEMMA SameOwns ==
  ASSUME NEW s, NEW t, s.users = t.users, Owns(s)
  PROVE  Owns(t)
BY DEF Owns

LEMMA ExecuteOwns ==
  ASSUME OwnNumbers, NEW s \in States, Owns(s), NEW c \in Typed
  PROVE  Owns(execute(s, c))
<1> DEFINE u == set_user(s, current_uid(s))
           x == record(u, c)
<1>1. u \in States /\ u.users = s.users
  BY CurrentUid, EngineKeeps DEF Quiet, Keeps
<1> HIDE DEF u
<1>2. x \in States /\ x.users = u.users
  BY <1>1, RecordAdds DEF Alike
<1>3. Owns(x)
  BY <1>1, <1>2, SameOwns
<1> HIDE DEF x
<1>4. Acts(x, handler(x, c), c[2])
  BY <1>2, <1>3, HandlerActs
<1>5. execute(s, c) = handler(x, c)
  BY DEF execute, x, u
<1> QED BY <1>4, <1>5 DEF Acts

LEMMA ReplayOwns ==
  ASSUME OwnNumbers, NEW s \in States, Owns(s)
  PROVE  Owns(Replayed(s))
<1> DEFINE n == Len(s.log)
<1>1. s.log \in Seq(Typed) /\ n \in Nat
  BY DEF States, State
<1>2. PICK w : /\ Runs(w, Silent(s), s.log)
               /\ Replayed(s) = [w[n] EXCEPT !.suppress_log = s.suppress_log]
  BY ReplayRuns
<1>3. w[0] = Silent(s) /\ \A k \in 0 .. n : w[k] \in States
  BY <1>2 DEF Runs, IsOrbit
<1>9. n = Len(s.log)
  OBVIOUS
<1> HIDE DEF n
<1> DEFINE S == {k \in Nat : k <= n => Owns(w[k])}
<1>4. 0 \in S
  BY <1>3, SilentState, SameOwns DEF SeenSame
<1>5. ASSUME NEW k \in Nat, k \in S
      PROVE  k + 1 \in S
  <2> SUFFICES ASSUME k + 1 <= n
               PROVE  Owns(w[k + 1])
    OBVIOUS
  <2>1. k + 1 \in 1 .. n /\ (k + 1) - 1 = k /\ k \in 0 .. n /\ Owns(w[k])
    BY <1>1, <1>5
  <2>2. w[k + 1] = ReplaySteps(s.log)[<<w[k], k + 1>>]
    BY <1>2, <1>9, <2>1, Zenon DEF Runs, IsOrbit
  <2>4. k + 1 \in 1 .. Len(s.log) /\ w[k] \in States
    BY <1>3, <1>9, <2>1
  <2>5. s.log[k + 1] \in Typed
    BY <1>1, <2>4
  <2>6. ReplaySteps(s.log)[<<w[k], k + 1>>] = execute(w[k], s.log[k + 1])
    BY <1>1, <2>4, ReplayStepsType
  <2>3. w[k + 1] = execute(w[k], s.log[k + 1]) /\ s.log[k + 1] \in Typed
    BY <2>2, <2>5, <2>6
  <2> QED BY <1>3, <2>1, <2>3, ExecuteOwns
<1> HIDE DEF S
<1>6. n \in S
  BY <1>1, <1>4, <1>5, Induction
<1>7. Owns(w[n]) /\ w[n] \in State
  BY <1>1, <1>3, <1>6 DEF S, States
<1> QED BY <1>2, <1>7, SameOwns DEF State

OwnInv == SessionInv /\ Owns(now)

LEMMA OwnKept ==
  ASSUME OwnInv, OwnNumbers, [ShellNext]_shell_vars
  PROVE  OwnInv'
<1> DEFINE s == set_user(now, current_uid(now))
<1>1. SessionInv' /\ now \in States
  BY SessionKept DEF OwnInv, SessionInv
<1> SUFFICES Owns(now')
  BY <1>1 DEF OwnInv
<1>2. s \in States /\ Owns(s)
  BY UserSet, SameOwns DEF OwnInv, SeenSame
<1> HIDE DEF s
<1>3. ASSUME NEW c \in Typed, Command(c)
      PROVE  Owns(now')
  BY <1>1, <1>3, ExecuteOwns DEF OwnInv, Command
<1>4. CASE Replay
  BY <1>2, <1>4, ReplayOwns DEF Replay, s
<1>5. CASE LogClear
  BY <1>2, <1>5, ClearLogIs, SameOwns DEF LogClear, s, SeenSame
<1>6. CASE Start
  BY <1>1, <1>6, StartedIs, SameOwns DEF Start, OwnInv
<1>7. CASE StartFormat
  <2>1. now'.users = <<root>>
    BY <1>1, <1>7, StartedFormatIs DEF StartFormat
  <2>2. root.uid = UidOf[root.name] /\ Len(<<root>>) = 1 /\ <<root>>[1] = root
    BY ShellAssumption DEF root
  <2> QED BY <2>1, <2>2 DEF Owns
<1>8. CASE UNCHANGED shell_vars
  BY <1>8 DEF shell_vars, OwnInv
<1> QED BY <1>3, <1>4, <1>5, <1>6, <1>7, <1>8 DEF ShellNext

OwnMeant ==
  Len(now'.log) > Len(now.log) =>
    /\ now'.cur \notin {0, now.cur} => now'.users[now'.cur].name = Last(now'.log)[2]
    /\ \A i \in DOMAIN now.users : now'.users[i].pw # now.users[i].pw => i = now.cur

LEMMA OwnStep ==
  ASSUME OwnInv, OwnNumbers, [ShellNext]_shell_vars
  PROVE  OwnMeant
<1> SUFFICES ASSUME Len(now'.log) > Len(now.log)
             PROVE  /\ now'.cur \notin {0, now.cur} =>
                         now'.users[now'.cur].name = Last(now'.log)[2]
                    /\ \A i \in DOMAIN now.users :
                         now'.users[i].pw # now.users[i].pw => i = now.cur
  BY DEF OwnMeant
<1> DEFINE x(c) == record(set_user(now, current_uid(now)), c)
<1>1. PICK c \in Typed : Last(now'.log) = c /\ now' = handler(x(c), c)
  BY LogGrows DEF OwnInv
<1> DEFINE y == x(c)
<1>2. y \in States /\ SeenSame(y, now)
  BY Recorded DEF OwnInv
<1>3. Owns(y)
  BY <1>2, SameOwns DEF OwnInv, SeenSame
<1> HIDE DEF y
<1>4. Acts(y, handler(y, c), c[2])
  BY <1>2, <1>3, HandlerActs
<1>5. now' = handler(y, c)
  BY <1>1 DEF y
<1>6. DOMAIN now.users = 1 .. Len(now.users)
  BY DEF OwnInv, SessionInv, States, State
<1> QED BY <1>1, <1>2, <1>4, <1>5, <1>6 DEF Acts, SeenSame

\* login and su end in the account whose name was typed, though su goes by numbers,
\* and a password is changed by its owner alone, who is found by number, too: for
\* any number of users, as long as no two names have one number and none is cut.
THEOREM ShellAccountsOwn == OwnNumbers => (ShellSpec => AccountsOwn)
<1>1. ShellInit => OwnInv
  <2>1. root.uid = UidOf[root.name] /\ Len(<<root>>) = 1 /\ <<root>>[1] = root
    BY ShellAssumption DEF root
  <2>2. Owns(Fresh)
    BY <2>1 DEF Owns, Fresh
  <2> QED BY <2>2, FreshIs DEF ShellInit, OwnInv, SessionInv
<1>2. CASE OwnNumbers
  <2>1. OwnInv /\ [ShellNext]_shell_vars => OwnInv'
    BY <1>2, OwnKept
  <2>2. OwnInv /\ [ShellNext]_shell_vars => [OwnMeant]_shell_vars
    BY <1>2, OwnStep
  <2>3. AccountsOwn <=> [][OwnMeant]_shell_vars
    BY DEF AccountsOwn, OwnMeant
  <2> QED BY <1>1, <2>1, <2>2, <2>3, PTL DEF ShellSpec
<1> QED BY <1>2

=================================================================================
