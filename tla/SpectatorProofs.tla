--------------------------- MODULE SpectatorProofs ----------------------------
(***************************************************************************)
(* What the rewriting of a video.ini keeps and makes of every file, by     *)
(* every table of forced values: its promise, and that to rewrite a file   *)
(* twice is to rewrite it once.  And, from that, what the spectator        *)
(* service and a rig that is launched again and again guarantee: the       *)
(* operator's settings are never lost, a rewritten file is the owner's     *)
(* with the forced values, and the group shown is the one watched.         *)
(***************************************************************************)
EXTENDS VideoFiles, SequenceTheorems, FunctionTheorems, FiniteSetTheorems,
  WellFoundedInduction, NaturalsInduction, TLAPS
------------------------------------------------------------------------------
(***************************************************************************)
(* Induction over the lines of a file, without a theorem that takes a      *)
(* predicate: the set of the numbers for which something fails has a       *)
(* least element.                                                          *)
(***************************************************************************)
LEMMA LeastNumber ==
  ASSUME NEW T, T \subseteq Nat, T # {}
  PROVE  \E x \in T : \A y \in T : x <= y
<1>1. IsWellFoundedOn(OpToRel(<, Nat), Nat)
  BY NatLessThanWellFounded, Zenon
<1>2. PICK x \in T : \A y \in T : ~ (<<y, x>> \in OpToRel(<, Nat))
  BY <1>1, WFMin, Zenon
<1>3. ASSUME NEW y \in T PROVE x <= y
  <2>1. x \in Nat /\ y \in Nat
    OBVIOUS
  <2>2. ~ (y < x)
    BY <1>2, <2>1, Zenon DEF OpToRel
  <2> QED
    BY <2>1, <2>2
<1> QED
  BY <1>3

\* Induction, as a set that holds 0 and with every number the next.
LEMMA FromZero ==
  ASSUME NEW N \in Nat, NEW S, 0 \in S,
         \A n \in 0..(N - 1) : n \in S => n + 1 \in S
  PROVE  \A n \in 0..N : n \in S
<1> DEFINE T == {n \in 0..N : n \notin S}
<1> SUFFICES ASSUME T # {} PROVE FALSE
  OBVIOUS
<1>1. PICK x \in T : \A y \in T : x <= y
  <2>1. T \subseteq Nat
    OBVIOUS
  <2> HIDE DEF T
  <2> QED  BY <2>1, LeastNumber
<1>2. x \in 1..N
  OBVIOUS
<1>3. x - 1 \in 0..(N - 1) /\ x - 1 \in 0..N
  BY <1>2
<1>4. x - 1 \in S
  BY <1>1, <1>2, <1>3
<1>5. (x - 1) + 1 = x
  BY <1>2
<1> QED
  BY <1>3, <1>4, <1>5

LEMMA GreatestNumber ==
  ASSUME NEW N \in Nat, NEW T, T \subseteq 1..N, T # {}
  PROVE  \E x \in T : \A y \in T : y <= x
<1> DEFINE U == {u \in Nat : \A y \in T : y <= u}
<1>1. PICK x \in U : \A y \in U : x <= y
  <2>1. U \subseteq Nat /\ N \in U
    OBVIOUS
  <2> HIDE DEF U
  <2> QED  BY <2>1, LeastNumber
<1>2. ASSUME x \notin T PROVE FALSE
  <2>1. x \in Nat /\ \A y \in T : y <= x /\ y \in Nat /\ y >= 1
    OBVIOUS
  <2>2. \A y \in T : y <= x - 1
    BY <1>2, <2>1
  <2>3. x - 1 \in Nat
    <3>1. PICK y \in T : TRUE
      OBVIOUS
    <3> QED  BY <2>1, <3>1
  <2>4. x - 1 \in U
    BY <2>2, <2>3
  <2> QED
    BY <1>1, <2>1, <2>4
<1> QED
  BY <1>1, <1>2
------------------------------------------------------------------------------
(***************************************************************************)
(* The section a line is in.                                               *)
(***************************************************************************)

LEMMA SectionNone ==
  ASSUME NEW a, NEW i \in Nat, \A j \in 1..(i - 1) : ~IsHeader(a[j])
  PROVE  SectionAt(a, i) = NoSection
<1>1. {j \in 1..(i - 1) : IsHeader(a[j])} = {}
  OBVIOUS
<1> QED
  BY <1>1 DEF SectionAt

LEMMA SectionIs ==
  ASSUME NEW a, NEW i \in Nat, NEW h \in 1..(i - 1), IsHeader(a[h]),
         \A j \in (h + 1)..(i - 1) : ~IsHeader(a[j])
  PROVE  SectionAt(a, i) = a[h][2]
<1> DEFINE before == {j \in 1..(i - 1) : IsHeader(a[j])}
<1>1. h \in before
  OBVIOUS
<1>2. ASSUME NEW k \in before PROVE k <= h
  BY <1>2
<1>3. ASSUME NEW c \in before, \A k \in before : k <= c PROVE c = h
  <2>1. c <= h /\ h <= c
    BY <1>1, <1>2, <1>3
  <2> QED
    BY <2>1
<1>4. (CHOOSE j \in before : \A k \in before : k <= j) = h
  <2> HIDE DEF before
  <2> QED  BY <1>1, <1>2, <1>3
<1>5. before # {}
  BY <1>1
<1> QED
  BY <1>4, <1>5 DEF SectionAt

LEMMA LastHeader ==
  ASSUME NEW a, NEW i \in Nat
  PROVE  \/ \A j \in 1..(i - 1) : ~IsHeader(a[j])
         \/ \E h \in 1..(i - 1) : /\ IsHeader(a[h])
                                  /\ \A j \in (h + 1)..(i - 1) : ~IsHeader(a[j])
<1> DEFINE before == {j \in 1..(i - 1) : IsHeader(a[j])}
<1>1. CASE before = {}
  BY <1>1
<1>2. CASE before # {} /\ i >= 1
  <2>1. before \subseteq 1..(i - 1) /\ i - 1 \in Nat
    BY <1>2
  <2>2. PICK h \in before : \A k \in before : k <= h
    <3> HIDE DEF before
    <3> QED  BY <1>2, <2>1, GreatestNumber
  <2>3. h \in 1..(i - 1) /\ IsHeader(a[h])
    OBVIOUS
  <2>4. ASSUME NEW j \in (h + 1)..(i - 1) PROVE ~IsHeader(a[j])
    <3>1. ~ (j <= h) /\ j \in 1..(i - 1)
      BY <2>3, <2>4
    <3> QED
      BY <2>2, <3>1
  <2> QED
    BY <2>3, <2>4
<1> QED
  BY <1>1, <1>2

\* Only the lines before count, and only the headers among them.
LEMMA SectionGap ==
  ASSUME NEW a, NEW b, NEW i \in Nat, NEW k \in Nat, i >= 1, i <= k,
         \A j \in 1..(i - 1) : a[j] = b[j],
         \A j \in i..(k - 1) : ~IsHeader(b[j])
  PROVE  SectionAt(b, k) = SectionAt(a, i)
<1>1. CASE \A j \in 1..(i - 1) : ~IsHeader(a[j])
  <2>1. \A j \in 1..(k - 1) : ~IsHeader(b[j])
    BY <1>1 DEF IsHeader
  <2> QED
    BY <1>1, <2>1, SectionNone
<1>2. ASSUME NEW h \in 1..(i - 1), IsHeader(a[h]),
             \A j \in (h + 1)..(i - 1) : ~IsHeader(a[j])
      PROVE  SectionAt(b, k) = SectionAt(a, i)
  <2>1. h \in 1..(k - 1) /\ IsHeader(b[h])
    BY <1>2 DEF IsHeader
  <2>2. ASSUME NEW j \in (h + 1)..(k - 1) PROVE ~IsHeader(b[j])
    <3>1. CASE j \in (h + 1)..(i - 1)
      BY <1>2, <3>1 DEF IsHeader
    <3>2. CASE j \in i..(k - 1)
      BY <3>2
    <3> QED
      BY <3>1, <3>2
  <2>3. SectionAt(a, i) = a[h][2] /\ SectionAt(b, k) = b[h][2]
    BY <1>2, <2>1, <2>2, SectionIs
  <2> QED
    BY <2>3
<1> QED
  BY <1>1, <1>2, LastHeader

LEMMA SectionSame ==
  ASSUME NEW a, NEW b, NEW i \in Nat, i >= 1, \A j \in 1..(i - 1) : a[j] = b[j]
  PROVE  SectionAt(b, i) = SectionAt(a, i)
<1>1. i <= i /\ \A j \in i..(i - 1) : ~IsHeader(b[j])
  OBVIOUS
<1> QED
  BY <1>1, SectionGap

LEMMA SectionAfter ==
  ASSUME NEW a, NEW i \in Nat, i >= 1
  PROVE  SectionAt(a, i + 1) = IF IsHeader(a[i]) THEN a[i][2] ELSE SectionAt(a, i)
<1>1. CASE IsHeader(a[i])
  BY <1>1, SectionIs
<1>2. CASE ~IsHeader(a[i])
  BY <1>2, SectionGap
<1> QED
  BY <1>1, <1>2

\* What the tables of forced values must be like.
ForcedOK(forced) ==
  /\ forced \in Seq(Lines)
  /\ \A i \in DOMAIN forced : forced[i][1] # Header
  /\ \A i, k \in DOMAIN forced : forced[i][1] = forced[k][1] => i = k

TableOK(table) ==
  /\ DOMAIN table = {"VIDEO", "POST_PROCESS"}
  /\ \A s \in DOMAIN table : ForcedOK(table[s])

LEMMA OneForced ==
  ASSUME NEW a \in Lines, a[1] # Header
  PROVE  ForcedOK(<<a>>)
<1> DEFINE f == <<a>>
<1>1. f \in Seq(Lines) /\ DOMAIN f = 1..1 /\ f[1] = a
  OBVIOUS
<1> HIDE DEF f
<1>2. \A i \in 1..1 : i = 1
  OBVIOUS
<1>3. ForcedOK(f)
  BY <1>1, <1>2 DEF ForcedOK
<1> QED
  BY <1>3 DEF f

LEMMA TwoForced ==
  ASSUME NEW a \in Lines, NEW b \in Lines, a[1] # b[1],
         a[1] # Header, b[1] # Header
  PROVE  ForcedOK(<<a, b>>)
<1> DEFINE f == <<a, b>>
<1>1. f \in Seq(Lines) /\ DOMAIN f = 1..2 /\ f[1] = a /\ f[2] = b
  OBVIOUS
<1> HIDE DEF f
<1>2. \A i \in 1..2 : i = 1 \/ i = 2
  OBVIOUS
<1>3. ForcedOK(f)
  BY <1>1, <1>2 DEF ForcedOK
<1> QED
  BY <1>3 DEF f

LEMMA TheTables == TableOK(RigForced) /\ TableOK(SpectatorForced)
<1> DEFINE p == <<"FILTER", "pureHDR">>
           q == <<"ENABLED", "1">>
           v == <<"FULLSCREEN", "0">>
           w == <<"DISABLE_LEGACY_HDR", "1">>
<1>1. {p, q, v, w} \subseteq Lines
  <2>1. PurePP[1] = p /\ PurePP[2] = q /\ DOMAIN PurePP = 1..2
    BY DEF PurePP
  <2>2. /\ SpectatorForced.VIDEO[1] = v /\ SpectatorForced.VIDEO[2] = w
        /\ DOMAIN SpectatorForced.VIDEO = 1..2
    BY DEF SpectatorForced
  <2> HIDE DEF p, q, v, w
  <2>3. {p, q, v, w} \subseteq ForcedLines
    BY <2>1, <2>2 DEF ForcedLines, Range
  <2> QED  BY <2>3, FilesAssumption
<1>2. /\ p[1] # q[1] /\ v[1] # w[1]
      /\ p[1] # Header /\ q[1] # Header /\ v[1] # Header /\ w[1] # Header
  BY DEF Header
<1>3. PurePP = <<p, q>>
  BY DEF PurePP
<1>4. /\ RigForced = [POST_PROCESS |-> PurePP, VIDEO |-> <<w>>]
      /\ SpectatorForced = [POST_PROCESS |-> PurePP, VIDEO |-> <<v, w>>]
  BY DEF RigForced, SpectatorForced
<1> HIDE DEF p, q, v, w
<1>5. ForcedOK(PurePP) /\ ForcedOK(<<w>>) /\ ForcedOK(<<v, w>>)
  BY <1>1, <1>2, <1>3, OneForced, TwoForced
<1> QED
  BY <1>4, <1>5 DEF TableOK

LEMMA ForcedInOK ==
  ASSUME NEW table, TableOK(table), NEW s
  PROVE  ForcedOK(ForcedIn(table, s))
<1>1. ForcedOK(<<>>)
  BY DEF ForcedOK
<1> QED
  BY <1>1 DEF ForcedIn, TableOK

LEMMA KeyFacts ==
  ASSUME NEW forced, ForcedOK(forced), NEW k \in Keys(forced)
  PROVE  /\ k # Header
         /\ IndexOf(forced, k) \in DOMAIN forced
         /\ forced[IndexOf(forced, k)][1] = k
         /\ forced[IndexOf(forced, k)] \in Lines
<1>1. PICK i \in DOMAIN forced : forced[i][1] = k
  BY DEF Keys
<1>2. IndexOf(forced, k) \in DOMAIN forced /\ forced[IndexOf(forced, k)][1] = k
  BY <1>1 DEF IndexOf
<1>3. \A j \in DOMAIN forced : forced[j] \in Lines
  BY DEF ForcedOK
<1> QED
  BY <1>1, <1>2, <1>3 DEF ForcedOK

LEMMA IndexUnique ==
  ASSUME NEW forced, ForcedOK(forced), NEW i \in DOMAIN forced
  PROVE  forced[i][1] \in Keys(forced) /\ IndexOf(forced, forced[i][1]) = i
<1>1. forced[i][1] \in Keys(forced)
  BY DEF Keys
<1> QED
  BY <1>1, KeyFacts DEF ForcedOK

LEMMA NoSectionForced ==
  ASSUME NEW table, TableOK(table), NEW s, NEW k \in Keys(ForcedIn(table, s))
  PROVE  s \in {"VIDEO", "POST_PROCESS"}
BY DEF Keys, ForcedIn, TableOK
------------------------------------------------------------------------------
(***************************************************************************)
(* The keys that are missing.                                              *)
(***************************************************************************)

MissingStep(m, forced, written, i) ==
  IF i = 0 THEN <<>>
  ELSE IF forced[i][1] \in written THEN m[i - 1]
  ELSE Append(m[i - 1], forced[i])

IsMissing(m, forced, written, n) ==
  m = [i \in 0..n |-> MissingStep(m, forced, written, i)]

LEMMA MissingExists ==
  ASSUME NEW forced, NEW N \in Nat, NEW written
  PROVE  \E m : IsMissing(m, forced, written, N)
<1> DEFINE S == {n \in 0..N : \E m : IsMissing(m, forced, written, n)}
<1>1. 0 \in S
  <2> DEFINE m == [i \in 0..0 |-> <<>>]
  <2>1. m = [i \in 0..0 |-> MissingStep(m, forced, written, i)]
    BY DEF MissingStep
  <2> QED  BY <2>1 DEF IsMissing
<1>2. ASSUME NEW n \in 0..(N - 1), n \in S PROVE n + 1 \in S
  <2>1. PICK m : m = [i \in 0..n |-> MissingStep(m, forced, written, i)]
    BY <1>2 DEF IsMissing
  <2> DEFINE g == [i \in 0..(n + 1) |->
                     IF i = n + 1 THEN MissingStep(m, forced, written, n + 1) ELSE m[i]]
  <2>2. ASSUME NEW i \in 0..(n + 1) PROVE g[i] = MissingStep(g, forced, written, i)
    <3>1. i # 0 => g[i - 1] = m[i - 1]
      OBVIOUS
    <3>2. MissingStep(g, forced, written, i) = MissingStep(m, forced, written, i)
      <4> HIDE DEF g
      <4> QED  BY <3>1 DEF MissingStep
    <3>3. i # n + 1 => m[i] = MissingStep(m, forced, written, i)
      <4>1. i # n + 1 => i \in 0..n
        OBVIOUS
      <4> QED  BY <2>1, <4>1
    <3> QED
      BY <3>2, <3>3
  <2>3. g = [i \in 0..(n + 1) |-> g[i]]
    OBVIOUS
  <2>4. g = [i \in 0..(n + 1) |-> MissingStep(g, forced, written, i)]
    <3> HIDE DEF g
    <3> QED  BY <2>2, <2>3
  <2>5. n + 1 \in 0..N
    OBVIOUS
  <2>6. IsMissing(g, forced, written, n + 1)
    BY <2>4 DEF IsMissing
  <2> QED
    BY <2>5, <2>6
<1>3. \A n \in 0..N : n \in S
  <2> HIDE DEF S
  <2> QED  BY <1>1, <1>2, FromZero
<1> QED
  BY <1>3

LEMMA MissingUnfold ==
  ASSUME NEW forced, Len(forced) \in Nat, NEW written
  PROVE  /\ MissingUpTo(forced, written)[0] = <<>>
         /\ \A i \in 1..Len(forced) :
              MissingUpTo(forced, written)[i] =
                IF forced[i][1] \in written THEN MissingUpTo(forced, written)[i - 1]
                ELSE Append(MissingUpTo(forced, written)[i - 1], forced[i])
<1>1. \E m : IsMissing(m, forced, written, Len(forced))
  BY MissingExists
<1>2. \E m : m = [i \in 0..Len(forced) |->
                    IF i = 0 THEN <<>>
                    ELSE IF forced[i][1] \in written THEN m[i - 1]
                    ELSE Append(m[i - 1], forced[i])]
  BY <1>1, Zenon DEF IsMissing, MissingStep
<1> DEFINE u == MissingUpTo(forced, written)
<1>3. u = [i \in 0..Len(forced) |->
             IF i = 0 THEN <<>>
             ELSE IF forced[i][1] \in written THEN u[i - 1]
             ELSE Append(u[i - 1], forced[i])]
  BY <1>2, Zenon DEF MissingUpTo
<1> HIDE DEF u
<1>4. u[0] = <<>>
  BY <1>3
<1>5. ASSUME NEW i \in 1..Len(forced)
      PROVE  u[i] = IF forced[i][1] \in written THEN u[i - 1] ELSE Append(u[i - 1], forced[i])
  <2>1. i \in 0..Len(forced) /\ i # 0
    OBVIOUS
  <2> QED  BY <1>3, <2>1
<1> QED
  BY <1>4, <1>5 DEF u

\* m are those of the first n forced lines that have not been written.
MissingSo(m, forced, written, n) ==
  /\ m \in Seq(Lines)
  /\ \A j \in DOMAIN m : \E i \in 1..n : m[j] = forced[i] /\ forced[i][1] \notin written
  /\ \A i \in 1..n : forced[i][1] \notin written => \E j \in DOMAIN m : m[j] = forced[i]
  /\ \A j, k \in DOMAIN m : m[j][1] = m[k][1] => j = k

LEMMA MissingAppend ==
  ASSUME NEW forced, ForcedOK(forced), NEW written, NEW n \in 1..Len(forced), NEW m,
         MissingSo(m, forced, written, n - 1), forced[n][1] \notin written
  PROVE  MissingSo(Append(m, forced[n]), forced, written, n)
<1> DEFINE a == Append(m, forced[n])
<1>1. forced[n] \in Lines /\ n \in DOMAIN forced /\ DOMAIN forced = 1..Len(forced)
  BY DEF ForcedOK
<1>2. m \in Seq(Lines)
  BY DEF MissingSo
<1>3. /\ a \in Seq(Lines) /\ DOMAIN a = 1..(Len(m) + 1) /\ DOMAIN m = 1..Len(m)
      /\ Len(m) \in Nat
      /\ a[Len(m) + 1] = forced[n] /\ \A j \in DOMAIN m : a[j] = m[j]
  BY <1>1, <1>2
<1> HIDE DEF a
<1>4. \A j \in DOMAIN m : \E i \in 1..(n - 1) : m[j] = forced[i] /\ forced[i][1] \notin written
  BY DEF MissingSo
<1>5. \A j \in DOMAIN m : m[j][1] # forced[n][1]
  <2>1. \A i \in 1..(n - 1) : i \in DOMAIN forced /\ i # n
    BY <1>1
  <2> QED  BY <1>1, <1>4, <2>1 DEF ForcedOK
<1>6. ASSUME NEW j \in DOMAIN a
      PROVE  \E i \in 1..n : a[j] = forced[i] /\ forced[i][1] \notin written
  <2>1. CASE j = Len(m) + 1
    BY <1>3, <2>1
  <2>2. CASE j \in DOMAIN m
    <3>1. \A i \in 1..(n - 1) : i \in 1..n
      BY <1>1
    <3> QED  BY <1>3, <1>4, <2>2, <3>1
  <2> QED  BY <1>3, <1>6, <2>1, <2>2
<1>7. ASSUME NEW i \in 1..n, forced[i][1] \notin written
      PROVE  \E j \in DOMAIN a : a[j] = forced[i]
  <2>1. CASE i = n
    BY <1>3, <2>1
  <2>2. CASE i # n
    <3>1. i \in 1..(n - 1)
      BY <2>2, <1>1
    <3>2. PICK j \in DOMAIN m : m[j] = forced[i]
      BY <1>7, <3>1 DEF MissingSo
    <3> QED  BY <1>3, <3>2
  <2> QED  BY <2>1, <2>2
<1>8. ASSUME NEW j \in DOMAIN a, NEW k \in DOMAIN a, a[j][1] = a[k][1] PROVE j = k
  <2>1. (j \in DOMAIN m \/ j = Len(m) + 1) /\ (k \in DOMAIN m \/ k = Len(m) + 1)
    BY <1>3, <1>8
  <2>2. \A x, y \in DOMAIN m : m[x][1] = m[y][1] => x = y
    BY DEF MissingSo
  <2> QED  BY <1>3, <1>5, <1>8, <2>1, <2>2
<1> QED
  BY <1>3, <1>6, <1>7, <1>8 DEF MissingSo, a

LEMMA MissingFacts ==
  ASSUME NEW forced, ForcedOK(forced), NEW written
  PROVE  MissingSo(Missing(forced, written), forced, written, Len(forced))
<1>0. Len(forced) \in Nat
  BY DEF ForcedOK
<1> DEFINE u == MissingUpTo(forced, written)
           S == {n \in 0..Len(forced) : MissingSo(u[n], forced, written, n)}
<1>1. 0 \in S
  <2>1. u[0] = <<>>
    BY <1>0, MissingUnfold
  <2>2. MissingSo(<<>>, forced, written, 0)
    BY DEF MissingSo
  <2> HIDE DEF u
  <2> QED  BY <1>0, <2>1, <2>2
<1>2. ASSUME NEW n \in 0..(Len(forced) - 1), n \in S PROVE n + 1 \in S
  <2>1. n + 1 \in 1..Len(forced) /\ (n + 1) - 1 = n /\ n + 1 \in 0..Len(forced)
    BY <1>0
  <2>2. MissingSo(u[n], forced, written, n)
    BY <1>2
  <2>3. u[n + 1] = IF forced[n + 1][1] \in written THEN u[n] ELSE Append(u[n], forced[n + 1])
    BY <1>0, <2>1, MissingUnfold
  <2>4. CASE forced[n + 1][1] \in written
    <3>1. \A i \in 1..(n + 1) : i \in 1..n \/ i = n + 1
      BY <1>0
    <3>2. \A i \in 1..n : i \in 1..(n + 1)
      BY <1>0
    <3>3. MissingSo(u[n], forced, written, n + 1)
      <4> HIDE DEF u
      <4> QED  BY <2>2, <2>4, <3>1, <3>2 DEF MissingSo
    <3> QED  BY <2>1, <2>3, <2>4, <3>3
  <2>5. CASE forced[n + 1][1] \notin written
    <3> HIDE DEF u
    <3>1. MissingSo(Append(u[n], forced[n + 1]), forced, written, n + 1)
      BY <2>1, <2>2, <2>5, MissingAppend
    <3> QED  BY <2>1, <2>3, <2>5, <3>1
  <2> QED  BY <2>4, <2>5
<1>3. \A n \in 0..Len(forced) : n \in S
  <2> HIDE DEF S
  <2> QED  BY <1>0, <1>1, <1>2, FromZero
<1> QED
  BY <1>0, <1>3 DEF Missing
------------------------------------------------------------------------------
(***************************************************************************)
(* A file that grows by a line, and one that grows by the missing lines.   *)
(***************************************************************************)

LEMMA AppendOut ==
  ASSUME NEW out \in Seq(Lines), NEW l \in Lines
  PROVE  /\ Append(out, l) \in Seq(Lines)
         /\ Len(out) \in Nat /\ DOMAIN out = 1..Len(out)
         /\ Len(Append(out, l)) = Len(out) + 1
         /\ DOMAIN Append(out, l) = 1..(Len(out) + 1)
         /\ \A j \in 1..Len(out) : Append(out, l)[j] = out[j]
         /\ Append(out, l)[Len(out) + 1] = l
         /\ \A j \in 1..(Len(out) + 1) : SectionAt(Append(out, l), j) = SectionAt(out, j)
         /\ SectionAt(Append(out, l), Len(out) + 2) =
              IF IsHeader(l) THEN l[2] ELSE SectionAt(out, Len(out) + 1)
<1> DEFINE a == Append(out, l)
<1>1. /\ a \in Seq(Lines) /\ Len(out) \in Nat /\ DOMAIN out = 1..Len(out)
      /\ Len(a) = Len(out) + 1 /\ DOMAIN a = 1..(Len(out) + 1)
      /\ \A j \in 1..Len(out) : a[j] = out[j]
      /\ a[Len(out) + 1] = l
  OBVIOUS
<1> HIDE DEF a
<1>2. ASSUME NEW j \in 1..(Len(out) + 1) PROVE SectionAt(a, j) = SectionAt(out, j)
  <2>1. j \in Nat /\ j >= 1 /\ \A i \in 1..(j - 1) : out[i] = a[i]
    BY <1>1
  <2> QED  BY <2>1, SectionSame
<1>3. SectionAt(a, (Len(out) + 1) + 1) =
        IF IsHeader(l) THEN l[2] ELSE SectionAt(a, Len(out) + 1)
  <2>1. Len(out) + 1 \in Nat /\ Len(out) + 1 >= 1
    BY <1>1
  <2>2. SectionAt(a, (Len(out) + 1) + 1) =
          IF IsHeader(a[Len(out) + 1]) THEN a[Len(out) + 1][2] ELSE SectionAt(a, Len(out) + 1)
    BY <2>1, SectionAfter
  <2> QED  BY <1>1, <2>2
<1>4. (Len(out) + 1) + 1 = Len(out) + 2 /\ Len(out) + 1 \in 1..(Len(out) + 1)
  BY <1>1
<1>5. SectionAt(a, Len(out) + 2) =
        IF IsHeader(l) THEN l[2] ELSE SectionAt(out, Len(out) + 1)
  BY <1>2, <1>3, <1>4
<1> QED
  BY <1>1, <1>2, <1>5 DEF a

LEMMA AppendLinesOf ==
  ASSUME NEW out \in Seq(Lines), NEW l \in Lines, NEW s, NEW k
  PROVE  IF ~IsHeader(l) /\ SectionAt(out, Len(out) + 1) = s /\ l[1] = k
         THEN LinesOf(Append(out, l), s, k) = LinesOf(out, s, k) \cup {Len(out) + 1}
         ELSE LinesOf(Append(out, l), s, k) = LinesOf(out, s, k)
<1> DEFINE a == Append(out, l)
<1>1. /\ Len(out) \in Nat /\ DOMAIN out = 1..Len(out) /\ DOMAIN a = 1..(Len(out) + 1)
      /\ \A j \in 1..Len(out) : a[j] = out[j] /\ SectionAt(a, j) = SectionAt(out, j)
      /\ a[Len(out) + 1] = l
      /\ SectionAt(a, Len(out) + 1) = SectionAt(out, Len(out) + 1)
  BY AppendOut
<1> HIDE DEF a
<1>2. \A j : j \in 1..(Len(out) + 1) <=> j \in 1..Len(out) \/ j = Len(out) + 1
  BY <1>1
<1>3. ~ (Len(out) + 1 \in 1..Len(out))
  BY <1>1
<1>4. IF ~IsHeader(l) /\ SectionAt(out, Len(out) + 1) = s /\ l[1] = k
      THEN LinesOf(a, s, k) = LinesOf(out, s, k) \cup {Len(out) + 1}
      ELSE LinesOf(a, s, k) = LinesOf(out, s, k)
  BY <1>1, <1>2, <1>3 DEF LinesOf
<1> QED
  BY <1>4 DEF a

LEMMA AppendKept ==
  ASSUME NEW out \in Seq(Lines), NEW l \in Lines, NEW table
  PROVE  IF \/ IsHeader(l)
            \/ l[1] \notin Keys(ForcedIn(table, SectionAt(out, Len(out) + 1)))
         THEN KeptAt(Append(out, l), table) = KeptAt(out, table) \cup {Len(out) + 1}
         ELSE KeptAt(Append(out, l), table) = KeptAt(out, table)
<1> DEFINE a == Append(out, l)
<1>1. /\ Len(out) \in Nat /\ DOMAIN out = 1..Len(out) /\ DOMAIN a = 1..(Len(out) + 1)
      /\ \A j \in 1..Len(out) : a[j] = out[j] /\ SectionAt(a, j) = SectionAt(out, j)
      /\ a[Len(out) + 1] = l
      /\ SectionAt(a, Len(out) + 1) = SectionAt(out, Len(out) + 1)
  BY AppendOut
<1> HIDE DEF a
<1>2. \A j : j \in 1..(Len(out) + 1) <=> j \in 1..Len(out) \/ j = Len(out) + 1
  BY <1>1
<1>3. ~ (Len(out) + 1 \in 1..Len(out))
  BY <1>1
<1>4. IF \/ IsHeader(l)
         \/ l[1] \notin Keys(ForcedIn(table, SectionAt(out, Len(out) + 1)))
      THEN KeptAt(a, table) = KeptAt(out, table) \cup {Len(out) + 1}
      ELSE KeptAt(a, table) = KeptAt(out, table)
  BY <1>1, <1>2, <1>3 DEF KeptAt
<1> QED
  BY <1>4 DEF a

\* The lines m of section s that were missing follow out.
Fills(m, out, s, table, written) ==
  /\ SectionAt(out, Len(out) + 1) = s
  /\ MissingSo(m, ForcedIn(table, s), written, Len(ForcedIn(table, s)))

LEMMA FillOut ==
  ASSUME NEW table, TableOK(table), NEW out \in Seq(Lines), NEW s, NEW written, NEW m,
         Fills(m, out, s, table, written)
  PROVE  /\ out \o m \in Seq(Lines) /\ m \in Seq(Lines)
         /\ Len(out) \in Nat /\ Len(m) \in Nat
         /\ DOMAIN out = 1..Len(out) /\ DOMAIN m = 1..Len(m)
         /\ Len(out \o m) = Len(out) + Len(m)
         /\ DOMAIN (out \o m) = 1..(Len(out) + Len(m))
         /\ \A j \in 1..Len(out) : (out \o m)[j] = out[j]
         /\ \A j \in 1..Len(m) : (out \o m)[Len(out) + j] = m[j]
         /\ \A j \in 1..(Len(out) + 1) : SectionAt(out \o m, j) = SectionAt(out, j)
         /\ \A j \in (Len(out) + 1)..(Len(out) + Len(m) + 1) : SectionAt(out \o m, j) = s
         /\ \A j \in (Len(out) + 1)..(Len(out) + Len(m)) :
              ~IsHeader((out \o m)[j]) /\ (out \o m)[j][1] \in Keys(ForcedIn(table, s))
<1> DEFINE a == out \o m
           f == ForcedIn(table, s)
<1>0. m \in Seq(Lines)
  BY DEF Fills, MissingSo
<1>1. /\ a \in Seq(Lines)
      /\ Len(out) \in Nat /\ Len(m) \in Nat
      /\ DOMAIN out = 1..Len(out) /\ DOMAIN m = 1..Len(m)
      /\ Len(a) = Len(out) + Len(m)
      /\ DOMAIN a = 1..(Len(out) + Len(m))
      /\ \A j \in 1..Len(out) : a[j] = out[j]
      /\ \A j \in 1..Len(m) : a[Len(out) + j] = m[j]
  BY <1>0
<1>2. ForcedOK(f) /\ MissingSo(m, f, written, Len(f))
  BY ForcedInOK DEF Fills
<1> HIDE DEF a, f
<1>3. ASSUME NEW j \in 1..Len(m) PROVE ~IsHeader(m[j]) /\ m[j][1] \in Keys(f)
  <2>1. PICK i \in 1..Len(f) : m[j] = f[i]
    <3>1. j \in DOMAIN m
      BY <1>1
    <3> QED  BY <1>2, <3>1 DEF MissingSo
  <2>2. i \in DOMAIN f
    BY <1>2 DEF ForcedOK
  <2> QED  BY <1>2, <2>1, <2>2, IndexUnique DEF ForcedOK, IsHeader
<1>4. ASSUME NEW j \in (Len(out) + 1)..(Len(out) + Len(m))
      PROVE  ~IsHeader(a[j]) /\ a[j][1] \in Keys(f)
  <2>1. j - Len(out) \in 1..Len(m) /\ j = Len(out) + (j - Len(out))
    BY <1>1
  <2>2. a[j] = m[j - Len(out)]
    BY <1>1, <2>1
  <2> QED  BY <1>3, <2>1, <2>2
<1>5. ASSUME NEW j \in 1..(Len(out) + 1) PROVE SectionAt(a, j) = SectionAt(out, j)
  <2>1. j \in Nat /\ j >= 1 /\ \A i \in 1..(j - 1) : out[i] = a[i]
    BY <1>1
  <2> QED  BY <2>1, SectionSame
<1>6. ASSUME NEW j \in (Len(out) + 1)..(Len(out) + Len(m) + 1) PROVE SectionAt(a, j) = s
  <2>1. j \in Nat /\ Len(out) + 1 \in Nat /\ Len(out) + 1 >= 1 /\ Len(out) + 1 <= j
    BY <1>1
  <2>2. \A i \in 1..((Len(out) + 1) - 1) : out[i] = a[i]
    BY <1>1
  <2>3. \A i \in (Len(out) + 1)..(j - 1) : ~IsHeader(a[i])
    BY <1>1, <1>4
  <2>4. SectionAt(a, j) = SectionAt(out, Len(out) + 1)
    BY <2>1, <2>2, <2>3, SectionGap
  <2> QED  BY <2>4 DEF Fills
<1> QED
  BY <1>0, <1>1, <1>4, <1>5, <1>6 DEF a, f

LEMMA FillKept ==
  ASSUME NEW table, TableOK(table), NEW out \in Seq(Lines), NEW s, NEW written, NEW m,
         Fills(m, out, s, table, written)
  PROVE  KeptAt(out \o m, table) = KeptAt(out, table)
<1> DEFINE a == out \o m
<1>1. /\ Len(out) \in Nat /\ Len(m) \in Nat /\ DOMAIN out = 1..Len(out)
      /\ DOMAIN a = 1..(Len(out) + Len(m))
      /\ \A j \in 1..Len(out) : a[j] = out[j]
      /\ \A j \in 1..(Len(out) + 1) : SectionAt(a, j) = SectionAt(out, j)
      /\ \A j \in (Len(out) + 1)..(Len(out) + Len(m) + 1) : SectionAt(a, j) = s
      /\ \A j \in (Len(out) + 1)..(Len(out) + Len(m)) :
              ~IsHeader(a[j]) /\ a[j][1] \in Keys(ForcedIn(table, s))
  BY FillOut
<1> HIDE DEF a
<1>2. ASSUME NEW j \in 1..Len(out) PROVE j \in KeptAt(a, table) <=> j \in KeptAt(out, table)
  <2>1. j \in DOMAIN a /\ a[j] = out[j] /\ SectionAt(a, j) = SectionAt(out, j)
    BY <1>1
  <2> QED  BY <1>1, <2>1 DEF KeptAt
<1>3. ASSUME NEW j \in (Len(out) + 1)..(Len(out) + Len(m)) PROVE j \notin KeptAt(a, table)
  <2>1. SectionAt(a, j) = s
    BY <1>1
  <2> QED  BY <1>1, <2>1 DEF KeptAt
<1>4. KeptAt(a, table) \subseteq 1..(Len(out) + Len(m)) /\ KeptAt(out, table) \subseteq 1..Len(out)
  BY <1>1 DEF KeptAt
<1>5. \A j \in 1..(Len(out) + Len(m)) :
        j \in 1..Len(out) \/ j \in (Len(out) + 1)..(Len(out) + Len(m))
  BY <1>1
<1>6. KeptAt(a, table) = KeptAt(out, table)
  BY <1>2, <1>3, <1>4, <1>5
<1> QED
  BY <1>6 DEF a

LEMMA FillLinesOf ==
  ASSUME NEW table, TableOK(table), NEW out \in Seq(Lines), NEW s, NEW written, NEW m,
         Fills(m, out, s, table, written), NEW t, NEW k
  PROVE  /\ LinesOf(out, t, k) \subseteq LinesOf(out \o m, t, k)
         /\ t # s => LinesOf(out \o m, t, k) = LinesOf(out, t, k)
         /\ \E q \in Nat : LinesOf(out \o m, t, k) \subseteq LinesOf(out, t, k) \cup {q}
         /\ t = s /\ k \in Keys(ForcedIn(table, s)) /\ k \notin written =>
              LinesOf(out \o m, t, k) # {}
<1> DEFINE a == out \o m
           f == ForcedIn(table, s)
<1>1. /\ Len(out) \in Nat /\ Len(m) \in Nat
      /\ DOMAIN out = 1..Len(out) /\ DOMAIN m = 1..Len(m)
      /\ DOMAIN a = 1..(Len(out) + Len(m))
      /\ \A j \in 1..Len(out) : a[j] = out[j] /\ SectionAt(a, j) = SectionAt(out, j)
      /\ \A j \in 1..Len(m) : a[Len(out) + j] = m[j]
      /\ \A j \in (Len(out) + 1)..(Len(out) + Len(m)) : SectionAt(a, j) = s
      /\ \A j \in (Len(out) + 1)..(Len(out) + Len(m)) : ~IsHeader(a[j])
  BY FillOut
<1>2. ForcedOK(f) /\ MissingSo(m, f, written, Len(f)) /\ DOMAIN f = 1..Len(f)
  BY ForcedInOK DEF Fills, ForcedOK
<1> HIDE DEF a, f
<1>3. \A j \in 1..(Len(out) + Len(m)) :
        j \in 1..Len(out) \/ j \in (Len(out) + 1)..(Len(out) + Len(m))
  BY <1>1
<1>4. ASSUME NEW j \in 1..Len(out) PROVE j \in LinesOf(a, t, k) <=> j \in LinesOf(out, t, k)
  <2>1. j \in DOMAIN a
    BY <1>1
  <2> QED  BY <1>1, <2>1 DEF LinesOf
<1>5. LinesOf(out, t, k) \subseteq 1..Len(out) /\ LinesOf(a, t, k) \subseteq 1..(Len(out) + Len(m))
  BY <1>1 DEF LinesOf
<1>6. LinesOf(out, t, k) \subseteq LinesOf(a, t, k)
  BY <1>4, <1>5
<1>7. ASSUME NEW j \in (Len(out) + 1)..(Len(out) + Len(m))
      PROVE  /\ j \in LinesOf(a, t, k) <=> t = s /\ m[j - Len(out)][1] = k
             /\ j - Len(out) \in DOMAIN m
  <2>1. j \in DOMAIN a /\ j - Len(out) \in 1..Len(m) /\ j = Len(out) + (j - Len(out))
    BY <1>1
  <2>2. a[j] = m[j - Len(out)]
    BY <1>1, <2>1
  <2> QED  BY <1>1, <2>1, <2>2 DEF LinesOf
<1>8. t # s => LinesOf(a, t, k) = LinesOf(out, t, k)
  BY <1>3, <1>4, <1>5, <1>7
<1>9. \E q \in Nat : LinesOf(a, t, k) \subseteq LinesOf(out, t, k) \cup {q}
  <2>1. CASE \E q \in (Len(out) + 1)..(Len(out) + Len(m)) : q \in LinesOf(a, t, k)
    <3>1. PICK q \in (Len(out) + 1)..(Len(out) + Len(m)) : q \in LinesOf(a, t, k)
      BY <2>1
    <3>2. ASSUME NEW j \in (Len(out) + 1)..(Len(out) + Len(m)), j \in LinesOf(a, t, k)
          PROVE  j = q
      <4>1. m[j - Len(out)][1] = m[q - Len(out)][1]
        BY <1>7, <3>1, <3>2
      <4>2. j - Len(out) = q - Len(out)
        BY <1>2, <1>7, <3>1, <3>2, <4>1 DEF MissingSo
      <4> QED  BY <1>1, <4>2
    <3>3. q \in Nat
      BY <1>1
    <3> QED  BY <1>3, <1>4, <1>5, <3>2, <3>3
  <2>2. CASE ~ \E q \in (Len(out) + 1)..(Len(out) + Len(m)) : q \in LinesOf(a, t, k)
    <3>1. LinesOf(a, t, k) \subseteq LinesOf(out, t, k) \cup {0}
      BY <1>3, <1>4, <1>5, <2>2
    <3> QED  BY <3>1
  <2> QED  BY <2>1, <2>2
<1>10. ASSUME t = s, k \in Keys(f), k \notin written PROVE LinesOf(a, t, k) # {}
  <2>1. PICK i \in DOMAIN f : f[i][1] = k
    BY <1>10 DEF Keys
  <2>2. PICK j \in DOMAIN m : m[j] = f[i]
    BY <1>2, <1>10, <2>1 DEF MissingSo
  <2>3. /\ Len(out) + j \in (Len(out) + 1)..(Len(out) + Len(m))
        /\ (Len(out) + j) - Len(out) = j
    BY <1>1
  <2> QED  BY <1>7, <1>10, <2>1, <2>2, <2>3
<1> QED
  BY <1>6, <1>8, <1>9, <1>10 DEF a, f
------------------------------------------------------------------------------
(***************************************************************************)
(* The steps of the loop.                                                  *)
(***************************************************************************)
Noted == {"VIDEO", "POST_PROCESS"}

IsState(st) ==
  /\ st = [section |-> st.section, out |-> st.out, written |-> st.written]
  /\ st.out \in Seq(Lines)
  /\ st.written = [s \in Noted |-> st.written[s]]

\* What becomes of a line that is no header.
WrittenAs(line, forced) ==
  IF line[1] \in Keys(forced) THEN forced[IndexOf(forced, line[1])] ELSE line

LEMMA WrittenAsFacts ==
  ASSUME NEW forced, ForcedOK(forced), NEW line \in Lines, ~IsHeader(line)
  PROVE  /\ WrittenAs(line, forced) \in Lines
         /\ WrittenAs(line, forced)[1] = line[1]
         /\ ~IsHeader(WrittenAs(line, forced))
BY KeyFacts DEF WrittenAs, IsHeader

LEMMA StartState ==
  /\ IsState(Start) /\ Start.section = NoSection /\ Start.out = <<>>
  /\ \A s \in Noted : Start.written[s] = {}
BY DEF IsState, Start, Noted

LEMMA FlushForm ==
  ASSUME NEW st, IsState(st), NEW forced, ForcedOK(forced), NEW notes
  PROVE  LET new == Flush(st, forced, notes)
         IN /\ IsState(new) /\ new.section = st.section
            /\ new.out = st.out \o Missing(forced, Written(st))
            /\ \A s \in Noted :
                 new.written[s] = IF s = st.section /\ s \in notes
                                    THEN Keys(forced) ELSE st.written[s]
<1> DEFINE m == Missing(forced, Written(st))
           w == [s \in DOMAIN st.written |->
                   IF s = st.section /\ s \in notes THEN Keys(forced) ELSE st.written[s]]
           new == Flush(st, forced, notes)
<1>1. m \in Seq(Lines)
  BY MissingFacts DEF MissingSo
<1>2. st.out \o m \in Seq(Lines)
  <2> HIDE DEF m
  <2> QED  BY <1>1 DEF IsState
<1>3. new = [st EXCEPT !.out = st.out \o m, !.written = w]
  BY DEF Flush
<1>4. DOMAIN st.written = Noted
  <2>1. DOMAIN [s \in Noted |-> st.written[s]] = Noted
    OBVIOUS
  <2> QED  BY <2>1 DEF IsState
<1>5. w = [s \in Noted |-> w[s]]
  BY <1>4
<1>6. \A s \in Noted : w[s] = IF s = st.section /\ s \in notes
                                THEN Keys(forced) ELSE st.written[s]
  BY <1>4
<1> DEFINE o == st.out \o m
<1>7. new = [section |-> st.section, out |-> o, written |-> w]
  <2> HIDE DEF w, new, m
  <2>1. st = [section |-> st.section, out |-> st.out, written |-> st.written]
    BY DEF IsState
  <2> HIDE DEF o
  <2>2. new = [st EXCEPT !.out = o, !.written = w]
    BY <1>3 DEF o
  <2> QED  BY <2>1, <2>2
<1> HIDE DEF new, w, m
<1>8. IsState(new)
  BY <1>2, <1>5, <1>7 DEF IsState
<1>9. /\ IsState(new) /\ new.section = st.section
      /\ new.out = st.out \o m
      /\ \A s \in Noted :
           new.written[s] = IF s = st.section /\ s \in notes
                              THEN Keys(forced) ELSE st.written[s]
  BY <1>6, <1>7, <1>8
<1> QED
  BY <1>9 DEF new, m

\* What becomes of the state at the header of a section.
HeaderStep(new, st, line, table, notes) ==
  /\ IsState(new) /\ new.section = line[2]
  /\ new.out = Append(st.out \o Missing(ForcedIn(table, st.section), Written(st)), line)
  /\ \A s \in Noted :
       new.written[s] = IF s = st.section /\ s \in notes
                          THEN Keys(ForcedIn(table, st.section)) ELSE st.written[s]

LEMMA HeaderForm ==
  ASSUME NEW table, TableOK(table), NEW notes, NEW st, IsState(st),
         NEW line \in Lines, IsHeader(line)
  PROVE  HeaderStep(MergeLine(st, line, table, notes), st, line, table, notes)
<1> DEFINE forced == ForcedIn(table, st.section)
           left == Flush(st, forced, notes)
           new == MergeLine(st, line, table, notes)
<1>0. ForcedOK(forced)
  BY ForcedInOK
<1>2. new = [left EXCEPT !.section = line[2], !.out = Append(left.out, line)]
  BY DEF MergeLine
<1> HIDE DEF forced, new
<1>1. /\ IsState(left)
      /\ left.out = st.out \o Missing(forced, Written(st))
      /\ \A s \in Noted :
           left.written[s] = IF s = st.section /\ s \in notes
                               THEN Keys(forced) ELSE st.written[s]
  BY <1>0, FlushForm
<1> HIDE DEF left
<1>3. Append(left.out, line) \in Seq(Lines)
  BY <1>1 DEF IsState
<1>4. new = [section |-> line[2], out |-> Append(left.out, line), written |-> left.written]
  <2> DEFINE o == Append(left.out, line)
  <2> HIDE DEF o
  <2>1. new = [left EXCEPT !.section = line[2], !.out = o]
    BY <1>2 DEF o
  <2>2. new = [section |-> line[2], out |-> o, written |-> left.written]
    BY <1>1, <2>1 DEF IsState
  <2> QED  BY <2>2 DEF o
<1>5. IsState(new)
  BY <1>1, <1>3, <1>4 DEF IsState
<1>6. /\ IsState(new) /\ new.section = line[2]
      /\ new.out = Append(st.out \o Missing(forced, Written(st)), line)
      /\ \A s \in Noted :
           new.written[s] = IF s = st.section /\ s \in notes
                              THEN Keys(forced) ELSE st.written[s]
  BY <1>1, <1>4, <1>5
<1> QED
  BY <1>6 DEF HeaderStep, new, forced

\* And at another line.
LineStep(new, st, line, table) ==
  /\ IsState(new) /\ new.section = st.section
  /\ new.out = Append(st.out, WrittenAs(line, ForcedIn(table, st.section)))
  /\ \A s \in Noted :
       new.written[s] = IF s = st.section /\ line[1] \in Keys(ForcedIn(table, st.section))
                          THEN st.written[s] \cup {line[1]} ELSE st.written[s]

LEMMA LineForm ==
  ASSUME NEW table, TableOK(table), NEW notes, NEW st, IsState(st),
         NEW line \in Lines, ~IsHeader(line)
  PROVE  LineStep(MergeLine(st, line, table, notes), st, line, table)
<1> DEFINE forced == ForcedIn(table, st.section)
           new == MergeLine(st, line, table, notes)
           o == Append(st.out, WrittenAs(line, forced))
<1>1. ForcedOK(forced) /\ (forced # <<>> => st.section \in Noted)
  BY ForcedInOK DEF ForcedIn, TableOK, Noted
<1>2. o \in Seq(Lines)
  <2>1. WrittenAs(line, forced) \in Lines
    BY <1>1, WrittenAsFacts
  <2> QED  BY <2>1 DEF IsState
<1>3. new = Line(st, line, forced)
  BY DEF MergeLine
<1> HIDE DEF new, forced
<1>4. CASE line[1] \in Keys(forced)
  <2> DEFINE w == [st.written EXCEPT ![st.section] = st.written[st.section] \cup {line[1]}]
  <2>1. new = [st EXCEPT !.out = o, !.written[st.section] = st.written[st.section] \cup {line[1]}]
    BY <1>3, <1>4 DEF Line, WrittenAs
  <2>2. st.section \in Noted
    BY <1>1, <1>4 DEF Keys
  <2>3. /\ w = [s \in Noted |-> w[s]]
        /\ \A s \in Noted : w[s] = IF s = st.section
                                     THEN st.written[s] \cup {line[1]} ELSE st.written[s]
    BY <2>2 DEF IsState
  <2> HIDE DEF o
  <2>4. new = [section |-> st.section, out |-> o, written |-> w]
    BY <2>1 DEF IsState
  <2> HIDE DEF w
  <2>5. IsState(new)
    BY <1>2, <2>3, <2>4 DEF IsState
  <2>6. /\ IsState(new) /\ new.section = st.section
        /\ new.out = o
        /\ \A s \in Noted :
             new.written[s] = IF s = st.section /\ line[1] \in Keys(forced)
                                THEN st.written[s] \cup {line[1]} ELSE st.written[s]
    BY <1>4, <2>3, <2>4, <2>5
  <2> QED  BY <2>6 DEF LineStep, new, forced, o
<1>5. CASE line[1] \notin Keys(forced)
  <2>1. new = [st EXCEPT !.out = o]
    BY <1>3, <1>5 DEF Line, WrittenAs
  <2> HIDE DEF o
  <2>2. new = [section |-> st.section, out |-> o, written |-> st.written]
    BY <2>1 DEF IsState
  <2>3. IsState(new)
    BY <1>2, <2>2 DEF IsState
  <2>6. /\ IsState(new) /\ new.section = st.section
        /\ new.out = o
        /\ \A s \in Noted :
             new.written[s] = IF s = st.section /\ line[1] \in Keys(forced)
                                THEN st.written[s] \cup {line[1]} ELSE st.written[s]
    BY <1>5, <2>2, <2>3
  <2> QED  BY <2>6 DEF LineStep, new, forced, o
<1> QED
  BY <1>4, <1>5

\* The states after each line.
AfterStep(after, lines, table, notes, n) ==
  IF n = 0 THEN Start ELSE MergeLine(after[n - 1], lines[n], table, notes)

IsAfter(after, lines, table, notes, N) ==
  after = [n \in 0..N |-> AfterStep(after, lines, table, notes, n)]

LEMMA AfterExists ==
  ASSUME NEW lines, NEW table, NEW notes, NEW N \in Nat
  PROVE  \E after : IsAfter(after, lines, table, notes, N)
<1> DEFINE S == {n \in 0..N : \E a : IsAfter(a, lines, table, notes, n)}
<1>1. 0 \in S
  <2> DEFINE a == [i \in 0..0 |-> Start]
  <2>1. a = [i \in 0..0 |-> AfterStep(a, lines, table, notes, i)]
    BY DEF AfterStep
  <2> QED  BY <2>1 DEF IsAfter
<1>2. ASSUME NEW n \in 0..(N - 1), n \in S PROVE n + 1 \in S
  <2>1. PICK a : a = [i \in 0..n |-> AfterStep(a, lines, table, notes, i)]
    BY <1>2 DEF IsAfter
  <2> DEFINE g == [i \in 0..(n + 1) |->
                     IF i = n + 1 THEN AfterStep(a, lines, table, notes, n + 1) ELSE a[i]]
  <2>2. ASSUME NEW i \in 0..(n + 1) PROVE g[i] = AfterStep(g, lines, table, notes, i)
    <3>1. i # 0 => g[i - 1] = a[i - 1]
      OBVIOUS
    <3>2. AfterStep(g, lines, table, notes, i) = AfterStep(a, lines, table, notes, i)
      <4> HIDE DEF g
      <4> QED  BY <3>1 DEF AfterStep
    <3>3. i # n + 1 => a[i] = AfterStep(a, lines, table, notes, i)
      <4>1. i # n + 1 => i \in 0..n
        OBVIOUS
      <4> QED  BY <2>1, <4>1
    <3> QED
      BY <3>2, <3>3
  <2>3. g = [i \in 0..(n + 1) |-> g[i]]
    OBVIOUS
  <2>4. g = [i \in 0..(n + 1) |-> AfterStep(g, lines, table, notes, i)]
    <3> HIDE DEF g
    <3> QED  BY <2>2, <2>3
  <2>5. n + 1 \in 0..N
    OBVIOUS
  <2>6. IsAfter(g, lines, table, notes, n + 1)
    BY <2>4 DEF IsAfter
  <2> QED
    BY <2>5, <2>6
<1>3. \A n \in 0..N : n \in S
  <2> HIDE DEF S
  <2> QED  BY <1>1, <1>2, FromZero
<1> QED
  BY <1>3

LEMMA AfterUnfold ==
  ASSUME NEW lines \in Seq(Lines), NEW table, NEW notes
  PROVE  /\ AfterLine(lines, table, notes)[0] = Start
         /\ \A n \in 1..Len(lines) :
              AfterLine(lines, table, notes)[n] =
                MergeLine(AfterLine(lines, table, notes)[n - 1], lines[n], table, notes)
<1>1. \E a : IsAfter(a, lines, table, notes, Len(lines))
  BY AfterExists
<1>2. \E a : a = [n \in 0..Len(lines) |->
                    IF n = 0 THEN Start
                    ELSE MergeLine(a[n - 1], lines[n], table, notes)]
  BY <1>1, Zenon DEF IsAfter, AfterStep
<1> DEFINE a == AfterLine(lines, table, notes)
<1>3. a = [n \in 0..Len(lines) |->
             IF n = 0 THEN Start
             ELSE MergeLine(a[n - 1], lines[n], table, notes)]
  BY <1>2, Zenon DEF AfterLine
<1> HIDE DEF a
<1>4. a[0] = Start
  BY <1>3
<1>5. ASSUME NEW n \in 1..Len(lines)
      PROVE  a[n] = MergeLine(a[n - 1], lines[n], table, notes)
  <2>1. n \in 0..Len(lines) /\ n # 0
    OBVIOUS
  <2> QED  BY <1>3, <2>1
<1> QED
  BY <1>4, <1>5 DEF a
------------------------------------------------------------------------------
(***************************************************************************)
(* What every new file has, whatever was rewritten.                        *)
(***************************************************************************)

\* The keys of section s are all there.
Full(out, s, table) ==
  \A k \in Keys(ForcedIn(table, s)) : LinesOf(out, s, k) # {}

\* A forced key has its forced value.
ValuesForced(out, table) ==
  \A j \in DOMAIN out :
    LET forced == ForcedIn(table, SectionAt(out, j))
    IN out[j][1] \in Keys(forced) => out[j] = forced[IndexOf(forced, out[j][1])]

\* Where a section ends, its keys have been seen.
SectionsFull(out, table) ==
  \A j \in DOMAIN out : IsHeader(out[j]) =>
    \A k \in Keys(ForcedIn(table, SectionAt(out, j))) :
      \E i \in LinesOf(out, SectionAt(out, j), k) : i < j

\* A key is noted as written only if it is there.
NotedIsThere(out, written) ==
  \A s \in Noted : \A k \in written[s] : LinesOf(out, s, k) # {}

Tidy(out, section, written, table) ==
  /\ SectionAt(out, Len(out) + 1) = section
  /\ ValuesForced(out, table)
  /\ SectionsFull(out, table)
  /\ NotedIsThere(out, written)

LEMMA TidyStart ==
  ASSUME NEW table
  PROVE  Tidy(Start.out, Start.section, Start.written, table)
<1>1. SectionAt(<<>>, Len(<<>>) + 1) = NoSection
  <2>1. Len(<<>>) + 1 = 1
    OBVIOUS
  <2>2. \A j \in 1..(1 - 1) : ~IsHeader(<<>>[j])
    OBVIOUS
  <2> QED  BY <2>1, <2>2, SectionNone
<1>2. DOMAIN <<>> = {}
  OBVIOUS
<1> QED
  BY <1>1, <1>2, StartState DEF Tidy, ValuesForced, SectionsFull, NotedIsThere

LEMMA AppendValues ==
  ASSUME NEW out \in Seq(Lines), NEW l \in Lines, NEW table,
         ValuesForced(out, table),
         LET forced == ForcedIn(table, SectionAt(out, Len(out) + 1))
         IN l[1] \in Keys(forced) => l = forced[IndexOf(forced, l[1])]
  PROVE  ValuesForced(Append(out, l), table)
<1> DEFINE a == Append(out, l)
<1>1. /\ Len(out) \in Nat /\ DOMAIN out = 1..Len(out) /\ DOMAIN a = 1..(Len(out) + 1)
      /\ \A j \in 1..Len(out) : a[j] = out[j] /\ SectionAt(a, j) = SectionAt(out, j)
      /\ a[Len(out) + 1] = l
      /\ SectionAt(a, Len(out) + 1) = SectionAt(out, Len(out) + 1)
  BY AppendOut
<1> HIDE DEF a
<1>2. \A j : j \in 1..(Len(out) + 1) <=> j \in 1..Len(out) \/ j = Len(out) + 1
  BY <1>1
<1>3. ValuesForced(a, table)
  BY <1>1, <1>2 DEF ValuesForced
<1> QED
  BY <1>3 DEF a

LEMMA AppendFull ==
  ASSUME NEW out \in Seq(Lines), NEW l \in Lines, NEW table,
         SectionsFull(out, table),
         IsHeader(l) => Full(out, SectionAt(out, Len(out) + 1), table)
  PROVE  SectionsFull(Append(out, l), table)
<1> DEFINE a == Append(out, l)
<1>1. /\ Len(out) \in Nat /\ DOMAIN out = 1..Len(out) /\ DOMAIN a = 1..(Len(out) + 1)
      /\ \A j \in 1..Len(out) : a[j] = out[j] /\ SectionAt(a, j) = SectionAt(out, j)
      /\ a[Len(out) + 1] = l
      /\ SectionAt(a, Len(out) + 1) = SectionAt(out, Len(out) + 1)
  BY AppendOut
<1>2. \A s, k : LinesOf(out, s, k) \subseteq LinesOf(a, s, k)
  BY AppendLinesOf
<1> HIDE DEF a
<1>3. ASSUME NEW j \in 1..Len(out), IsHeader(a[j]),
             NEW k \in Keys(ForcedIn(table, SectionAt(a, j)))
      PROVE  \E i \in LinesOf(a, SectionAt(a, j), k) : i < j
  BY <1>1, <1>2, <1>3 DEF SectionsFull
<1>4. ASSUME IsHeader(l), NEW k \in Keys(ForcedIn(table, SectionAt(a, Len(out) + 1)))
      PROVE  \E i \in LinesOf(a, SectionAt(a, Len(out) + 1), k) : i < Len(out) + 1
  <2>1. PICK i \in LinesOf(out, SectionAt(out, Len(out) + 1), k) : TRUE
    BY <1>1, <1>4 DEF Full
  <2>2. i \in 1..Len(out)
    BY <1>1, <2>1 DEF LinesOf
  <2> QED  BY <1>1, <1>2, <2>1, <2>2
<1>5. \A j : j \in 1..(Len(out) + 1) <=> j \in 1..Len(out) \/ j = Len(out) + 1
  BY <1>1
<1>6. SectionsFull(a, table)
  BY <1>1, <1>3, <1>4, <1>5 DEF SectionsFull
<1> QED
  BY <1>6 DEF a

LEMMA TidyLine ==
  ASSUME NEW table, TableOK(table), NEW out \in Seq(Lines), NEW s, NEW w, NEW v,
         Tidy(out, s, w, table), NEW line \in Lines, ~IsHeader(line),
         \A t \in Noted : v[t] = IF t = s /\ line[1] \in Keys(ForcedIn(table, s))
                                   THEN w[t] \cup {line[1]} ELSE w[t]
  PROVE  Tidy(Append(out, WrittenAs(line, ForcedIn(table, s))), s, v, table)
<1> DEFINE forced == ForcedIn(table, s)
           l == WrittenAs(line, forced)
           a == Append(out, l)
<1>1. ForcedOK(forced)
  BY ForcedInOK
<1> HIDE DEF forced
<1>2. l \in Lines /\ l[1] = line[1] /\ ~IsHeader(l)
  BY <1>1, WrittenAsFacts
<1>3. l[1] \in Keys(forced) => l = forced[IndexOf(forced, l[1])]
  BY <1>2 DEF WrittenAs
<1> HIDE DEF l
<1>4. SectionAt(out, Len(out) + 1) = s
  BY DEF Tidy
<1>5. SectionAt(a, Len(a) + 1) = s
  <2>1. Len(a) + 1 = Len(out) + 2 /\ SectionAt(a, Len(out) + 2) = s
    BY <1>2, <1>4, AppendOut
  <2> QED  BY <2>1
<1>6. ValuesForced(a, table)
  BY <1>2, <1>3, <1>4, AppendValues DEF Tidy, forced
<1>7. SectionsFull(a, table)
  BY <1>2, AppendFull DEF Tidy
<1>8. ASSUME NEW t \in Noted, NEW k \in v[t] PROVE LinesOf(a, t, k) # {}
  <2>1. IF ~IsHeader(l) /\ SectionAt(out, Len(out) + 1) = t /\ l[1] = k
        THEN LinesOf(a, t, k) = LinesOf(out, t, k) \cup {Len(out) + 1}
        ELSE LinesOf(a, t, k) = LinesOf(out, t, k)
    BY <1>2, AppendLinesOf
  <2> HIDE DEF a
  <2>2. CASE k \in w[t]
    BY <2>1, <2>2 DEF Tidy, NotedIsThere
  <2>3. CASE k \notin w[t]
    <3>1. t = s /\ k = line[1]
      BY <1>8, <2>3
    <3> QED  BY <1>2, <1>4, <2>1, <3>1
  <2> QED  BY <2>2, <2>3
<1>9. Tidy(a, s, v, table)
  <2> HIDE DEF a
  <2> QED  BY <1>5, <1>6, <1>7, <1>8 DEF Tidy, NotedIsThere
<1> QED
  BY <1>9 DEF a, l, forced

\* The notes v after the missing lines of section s, w before.
Renotes(v, w, s, table) ==
  \A t \in Noted : \/ v[t] = w[t]
                   \/ t = s /\ v[t] = Keys(ForcedIn(table, s))

AreThere(known, out, s) == \A k \in known : LinesOf(out, s, k) # {}

\* The lines that were missing have been added.
LEMMA TidyFill ==
  ASSUME NEW table, TableOK(table), NEW out \in Seq(Lines), NEW s, NEW w, NEW v,
         Tidy(out, s, w, table), NEW m, NEW known, Fills(m, out, s, table, known),
         AreThere(known, out, s), Renotes(v, w, s, table)
  PROVE  Tidy(out \o m, s, v, table) /\ Full(out \o m, s, table)
<1> DEFINE a == out \o m
           forced == ForcedIn(table, s)
<1>1. /\ a \in Seq(Lines) /\ Len(out) \in Nat /\ Len(m) \in Nat
      /\ DOMAIN out = 1..Len(out) /\ DOMAIN m = 1..Len(m)
      /\ Len(a) = Len(out) + Len(m)
      /\ DOMAIN a = 1..(Len(out) + Len(m))
      /\ \A j \in 1..Len(out) : a[j] = out[j] /\ SectionAt(a, j) = SectionAt(out, j)
      /\ \A j \in 1..Len(m) : a[Len(out) + j] = m[j]
      /\ \A j \in (Len(out) + 1)..(Len(out) + Len(m) + 1) : SectionAt(a, j) = s
      /\ \A j \in (Len(out) + 1)..(Len(out) + Len(m)) :
              ~IsHeader(a[j]) /\ a[j][1] \in Keys(forced)
  BY FillOut
<1>2. /\ \A t, k : LinesOf(out, t, k) \subseteq LinesOf(a, t, k)
      /\ \A k \in Keys(forced) : k \notin known => LinesOf(a, s, k) # {}
  BY FillLinesOf
<1>3. /\ ForcedOK(forced) /\ DOMAIN forced = 1..Len(forced)
      /\ MissingSo(m, forced, known, Len(forced))
  BY ForcedInOK DEF ForcedOK, Fills
<1> HIDE DEF a, forced
<1>4. \A j \in 1..(Len(out) + Len(m)) :
        j \in 1..Len(out) \/ j \in (Len(out) + 1)..(Len(out) + Len(m))
  BY <1>1
<1>5. SectionAt(a, Len(a) + 1) = s
  BY <1>1
<1>6. ValuesForced(a, table)
  <2>1. ASSUME NEW j \in (Len(out) + 1)..(Len(out) + Len(m))
        PROVE  SectionAt(a, j) = s /\ a[j] = forced[IndexOf(forced, a[j][1])]
    <3>1. j - Len(out) \in 1..Len(m) /\ j = Len(out) + (j - Len(out))
      BY <1>1
    <3>2. PICK i \in 1..Len(forced) : m[j - Len(out)] = forced[i]
      <4>1. j - Len(out) \in DOMAIN m
        BY <1>1, <3>1
      <4> QED  BY <1>3, <4>1 DEF MissingSo
    <3>3. a[j] = forced[i] /\ IndexOf(forced, forced[i][1]) = i
      <4>1. a[j] = m[j - Len(out)]
        BY <1>1, <3>1
      <4>2. i \in DOMAIN forced
        BY <1>3
      <4> QED  BY <1>3, <3>2, <4>1, <4>2, IndexUnique
    <3>4. SectionAt(a, j) = s
      BY <1>1
    <3> QED  BY <3>3, <3>4
  <2>2. ASSUME NEW j \in 1..Len(out),
               a[j][1] \in Keys(ForcedIn(table, SectionAt(a, j)))
        PROVE  a[j] = ForcedIn(table, SectionAt(a, j))
                        [IndexOf(ForcedIn(table, SectionAt(a, j)), a[j][1])]
    <3>1. a[j] = out[j] /\ SectionAt(a, j) = SectionAt(out, j)
      BY <1>1
    <3> QED  BY <1>1, <2>2, <3>1 DEF Tidy, ValuesForced
  <2> QED  BY <1>1, <1>4, <2>1, <2>2 DEF ValuesForced, forced
<1>7. SectionsFull(a, table)
  <2>1. ASSUME NEW j \in DOMAIN a, IsHeader(a[j]),
               NEW k \in Keys(ForcedIn(table, SectionAt(a, j)))
        PROVE  \E i \in LinesOf(a, SectionAt(a, j), k) : i < j
    <3>1. j \in 1..Len(out)
      BY <1>1, <1>4, <2>1
    <3>2. a[j] = out[j] /\ SectionAt(a, j) = SectionAt(out, j)
      BY <1>1, <3>1
    <3> QED  BY <1>1, <1>2, <2>1, <3>1, <3>2 DEF Tidy, SectionsFull
  <2> QED  BY <2>1 DEF SectionsFull
<1>8. Full(a, s, table)
  <2>1. ASSUME NEW k \in Keys(forced) PROVE LinesOf(a, s, k) # {}
    <3>1. CASE k \in known
      BY <1>2, <3>1 DEF AreThere
    <3> QED  BY <1>2, <3>1
  <2> QED  BY <2>1 DEF Full, forced
<1>9. NotedIsThere(a, v)
  BY <1>2, <1>8 DEF Tidy, NotedIsThere, Full, Renotes, forced
<1> QED
  BY <1>5, <1>6, <1>7, <1>8, <1>9 DEF Tidy, a

LEMMA TidyHeader ==
  ASSUME NEW table, TableOK(table), NEW out \in Seq(Lines), NEW s, NEW w,
         Tidy(out, s, w, table), Full(out, s, table), NEW line \in Lines, IsHeader(line)
  PROVE  Tidy(Append(out, line), line[2], w, table)
<1> DEFINE a == Append(out, line)
<1>1. SectionAt(out, Len(out) + 1) = s
  BY DEF Tidy
<1>2. SectionAt(a, Len(a) + 1) = line[2]
  <2>1. Len(a) + 1 = Len(out) + 2 /\ SectionAt(a, Len(out) + 2) = line[2]
    BY AppendOut
  <2> QED  BY <2>1
<1>3. line[1] \notin Keys(ForcedIn(table, s))
  <2>1. ForcedOK(ForcedIn(table, s))
    BY ForcedInOK
  <2> QED  BY <2>1, KeyFacts DEF IsHeader
<1>4. ValuesForced(a, table)
  BY <1>1, <1>3, AppendValues DEF Tidy
<1>5. SectionsFull(a, table)
  BY <1>1, AppendFull DEF Tidy
<1>6. NotedIsThere(a, w)
  <2>1. \A t, k : LinesOf(out, t, k) \subseteq LinesOf(a, t, k)
    BY AppendLinesOf
  <2> HIDE DEF a
  <2> QED  BY <2>1 DEF Tidy, NotedIsThere
<1> QED
  BY <1>2, <1>4, <1>5, <1>6 DEF Tidy
------------------------------------------------------------------------------
(***************************************************************************)
(* What it has of the first n lines of the old file.                       *)
(***************************************************************************)

\* The lines of old at A are those of new at B, in order.
Matches(at, A, B, new, old) ==
  /\ at \in Bijection(A, B)
  /\ \A i \in A : /\ new[at[i]] = old[i]
                  /\ \A k \in A : i < k => at[i] < at[k]

LEMMA MatchesMore ==
  ASSUME NEW n \in Nat, NEW p \in Nat, NEW A \in SUBSET (1..n), NEW B \in SUBSET (1..p),
         NEW new, NEW new2, NEW old, NEW at, Matches(at, A, B, new, old),
         \A j \in 1..p : new2[j] = new[j], new2[p + 1] = old[n + 1]
  PROVE  \E more : Matches(more, A \cup {n + 1}, B \cup {p + 1}, new2, old)
<1> DEFINE C == A \cup {n + 1}
           D == B \cup {p + 1}
           more == [i \in C |-> IF i = n + 1 THEN p + 1 ELSE at[i]]
<1>1. /\ n + 1 \notin A /\ \A i \in A : i \in Nat /\ i < n + 1
      /\ p + 1 \notin B /\ \A j \in B : j \in Nat /\ j < p + 1
  OBVIOUS
<1>2. /\ at \in [A -> B]
      /\ \A i, k \in A : at[i] = at[k] => i = k
      /\ \A j \in B : \E i \in A : at[i] = j
  BY DEF Matches, Bijection, Injection, Surjection, IsInjective
<1>3. /\ more[n + 1] = p + 1
      /\ \A i \in A : more[i] = at[i] /\ at[i] \in B
      /\ DOMAIN more = C
  BY <1>1, <1>2
<1>4. more \in [C -> D]
  BY <1>2
<1> HIDE DEF more
<1>5. ASSUME NEW i \in C, NEW k \in C, more[i] = more[k] PROVE i = k
  BY <1>1, <1>2, <1>3, <1>5
<1>6. ASSUME NEW j \in D PROVE \E i \in C : more[i] = j
  BY <1>2, <1>3
<1>7. more \in Bijection(C, D)
  BY <1>3, <1>4, <1>5, <1>6 DEF Bijection, Injection, Surjection, IsInjective
<1>8. ASSUME NEW i \in C PROVE new2[more[i]] = old[i]
  BY <1>3 DEF Matches
<1>9. ASSUME NEW i \in C, NEW k \in C, i < k PROVE more[i] < more[k]
  <2>1. i \in A
    BY <1>1, <1>9
  <2>2. CASE k \in A
    BY <1>3, <1>9, <2>1, <2>2 DEF Matches
  <2>3. CASE k = n + 1
    BY <1>1, <1>3, <2>1, <2>3
  <2> QED  BY <2>2, <2>3
<1>10. Matches(more, C, D, new2, old)
  BY <1>7, <1>8, <1>9 DEF Matches
<1> QED
  BY <1>10

LEMMA MatchesSame ==
  ASSUME NEW A, NEW B, NEW new, NEW new2, NEW old, NEW at, Matches(at, A, B, new, old),
         \A j \in B : new2[j] = new[j]
  PROVE  Matches(at, A, B, new2, old)
<1>1. \A i \in A : at[i] \in B
  BY DEF Matches, Bijection, Injection, Surjection
<1> QED
  BY <1>1 DEF Matches

KeptUpTo(lines, n, table) == {i \in KeptAt(lines, table) : i <= n}
OwnedUpTo(lines, n, s, k) == {i \in LinesOf(lines, s, k) : i <= n}
HeadersUpTo(lines, n, s) == {i \in DOMAIN lines : IsHeader(lines[i]) /\ lines[i][2] = s /\ i <= n}

KeptThere(out, lines, n, table) ==
  \E at : Matches(at, KeptUpTo(lines, n, table), KeptAt(out, table), out, lines)

\* The sections in open, one or none, may still be given each key once more.
Counted(out, open, lines, n, table) ==
  \A s : \A k \in Keys(ForcedIn(table, s)) :
    Cardinality(LinesOf(out, s, k)) + (IF s \in open THEN 1 ELSE 0)
      <= Cardinality(OwnedUpTo(lines, n, s, k)) + Cardinality(HeadersUpTo(lines, n, s))

OthersFull(out, open, lines, n, table) ==
  \A i \in 1..n : IsHeader(lines[i]) /\ lines[i][2] \notin open =>
                    Full(out, lines[i][2], table)

MadeOf(out, open, lines, n, table) ==
  /\ KeptThere(out, lines, n, table)
  /\ Counted(out, open, lines, n, table)
  /\ OthersFull(out, open, lines, n, table)

LEMMA FiniteSets ==
  ASSUME NEW lines \in Seq(Lines), NEW n \in Nat, NEW s, NEW k
  PROVE  /\ IsFiniteSet(LinesOf(lines, s, k)) /\ IsFiniteSet(OwnedUpTo(lines, n, s, k))
         /\ IsFiniteSet(HeadersUpTo(lines, n, s))
         /\ Cardinality(LinesOf(lines, s, k)) \in Nat
         /\ Cardinality(OwnedUpTo(lines, n, s, k)) \in Nat
         /\ Cardinality(HeadersUpTo(lines, n, s)) \in Nat
<1>1. DOMAIN lines = 1..Len(lines) /\ Len(lines) \in Int /\ 1 \in Int
  OBVIOUS
<1>2. IsFiniteSet(1..Len(lines))
  BY <1>1, FS_Interval
<1>3. /\ LinesOf(lines, s, k) \in SUBSET (1..Len(lines))
      /\ OwnedUpTo(lines, n, s, k) \in SUBSET (1..Len(lines))
      /\ HeadersUpTo(lines, n, s) \in SUBSET (1..Len(lines))
  BY <1>1 DEF LinesOf, OwnedUpTo, HeadersUpTo
<1>4. /\ IsFiniteSet(LinesOf(lines, s, k)) /\ IsFiniteSet(OwnedUpTo(lines, n, s, k))
      /\ IsFiniteSet(HeadersUpTo(lines, n, s))
  BY <1>2, <1>3, FS_Subset
<1> QED
  BY <1>4, FS_CardinalityType

LEMMA NextKept ==
  ASSUME NEW lines \in Seq(Lines), NEW n \in Nat, n + 1 \in DOMAIN lines, NEW table
  PROVE  IF \/ IsHeader(lines[n + 1])
            \/ lines[n + 1][1] \notin Keys(ForcedIn(table, SectionAt(lines, n + 1)))
         THEN KeptUpTo(lines, n + 1, table) = KeptUpTo(lines, n, table) \cup {n + 1}
         ELSE KeptUpTo(lines, n + 1, table) = KeptUpTo(lines, n, table)
<1>1. \A i \in DOMAIN lines : i <= n + 1 <=> i <= n \/ i = n + 1
  OBVIOUS
<1> QED
  BY <1>1 DEF KeptUpTo, KeptAt

LEMMA NextOwned ==
  ASSUME NEW lines \in Seq(Lines), NEW n \in Nat, n + 1 \in DOMAIN lines, NEW s, NEW k
  PROVE  /\ IF /\ ~IsHeader(lines[n + 1]) /\ SectionAt(lines, n + 1) = s
               /\ lines[n + 1][1] = k
            THEN OwnedUpTo(lines, n + 1, s, k) = OwnedUpTo(lines, n, s, k) \cup {n + 1}
            ELSE OwnedUpTo(lines, n + 1, s, k) = OwnedUpTo(lines, n, s, k)
         /\ n + 1 \notin OwnedUpTo(lines, n, s, k)
<1>1. \A i \in DOMAIN lines : i <= n + 1 <=> i <= n \/ i = n + 1
  OBVIOUS
<1>2. ~ (n + 1 <= n)
  OBVIOUS
<1> QED
  BY <1>1, <1>2 DEF OwnedUpTo, LinesOf

LEMMA NextHeaders ==
  ASSUME NEW lines \in Seq(Lines), NEW n \in Nat, n + 1 \in DOMAIN lines, NEW s
  PROVE  /\ IF IsHeader(lines[n + 1]) /\ lines[n + 1][2] = s
            THEN HeadersUpTo(lines, n + 1, s) = HeadersUpTo(lines, n, s) \cup {n + 1}
            ELSE HeadersUpTo(lines, n + 1, s) = HeadersUpTo(lines, n, s)
         /\ n + 1 \notin HeadersUpTo(lines, n, s)
<1>1. \A i \in DOMAIN lines : i <= n + 1 <=> i <= n \/ i = n + 1
  OBVIOUS
<1>2. ~ (n + 1 <= n)
  OBVIOUS
<1> QED
  BY <1>1, <1>2 DEF HeadersUpTo

LEMMA MadeOfStart ==
  ASSUME NEW table, TableOK(table), NEW lines \in Seq(Lines)
  PROVE  MadeOf(<<>>, {NoSection}, lines, 0, table)
<1>1. DOMAIN lines = 1..Len(lines) /\ DOMAIN <<>> = {} /\ <<>> \in Seq(Lines)
  OBVIOUS
<1>2. KeptUpTo(lines, 0, table) = {} /\ KeptAt(<<>>, table) = {}
  BY <1>1 DEF KeptUpTo, KeptAt
<1>3. Matches([i \in {} |-> i], {}, {}, <<>>, lines)
  BY DEF Matches, Bijection, Injection, Surjection, IsInjective
<1>4. KeptThere(<<>>, lines, 0, table)
  BY <1>2, <1>3 DEF KeptThere
<1>5. ASSUME NEW s, NEW k \in Keys(ForcedIn(table, s))
      PROVE  Cardinality(LinesOf(<<>>, s, k)) + (IF s \in {NoSection} THEN 1 ELSE 0)
               <= Cardinality(OwnedUpTo(lines, 0, s, k)) + Cardinality(HeadersUpTo(lines, 0, s))
  <2>1. LinesOf(<<>>, s, k) = {}
    BY <1>1 DEF LinesOf
  <2>2. Cardinality(LinesOf(<<>>, s, k)) = 0
    BY <2>1, FS_EmptySet
  <2>3. s # NoSection
    BY <1>5, NoSectionForced DEF NoSection
  <2> QED  BY <2>2, <2>3, FiniteSets
<1> QED
  BY <1>4, <1>5 DEF MadeOf, Counted, OthersFull

\* The next line, n + 1, is no header and comes from its section.
LEMMA MadeOfLine ==
  ASSUME NEW table, TableOK(table), NEW lines \in Seq(Lines), NEW n \in Nat,
         n + 1 \in DOMAIN lines, NEW out \in Seq(Lines), NEW open,
         MadeOf(out, open, lines, n, table), ~IsHeader(lines[n + 1]),
         SectionAt(out, Len(out) + 1) = SectionAt(lines, n + 1)
  PROVE  MadeOf(Append(out, WrittenAs(lines[n + 1],
                                      ForcedIn(table, SectionAt(lines, n + 1)))),
                open, lines, n + 1, table)
<1> DEFINE line == lines[n + 1]
           s0 == SectionAt(lines, n + 1)
           forced == ForcedIn(table, s0)
           l == WrittenAs(line, forced)
           a == Append(out, l)
<1>1. line \in Lines /\ ForcedOK(forced)
  BY ForcedInOK
<1>2. l \in Lines /\ l[1] = line[1] /\ ~IsHeader(l)
  <2> HIDE DEF line, forced
  <2>1. ~IsHeader(line)
    BY DEF line
  <2> QED  BY <1>1, <2>1, WrittenAsFacts
<1>3. line[1] \notin Keys(forced) => l = line
  BY DEF WrittenAs
<1> HIDE DEF l
<1>4. /\ Len(out) \in Nat /\ DOMAIN out = 1..Len(out)
      /\ \A j \in 1..Len(out) : a[j] = out[j]
      /\ a[Len(out) + 1] = l
  BY <1>2, AppendOut
<1>5. IF l[1] \notin Keys(forced)
      THEN KeptAt(a, table) = KeptAt(out, table) \cup {Len(out) + 1}
      ELSE KeptAt(a, table) = KeptAt(out, table)
  BY <1>2, AppendKept
<1>6. IF line[1] \notin Keys(forced)
      THEN KeptUpTo(lines, n + 1, table) = KeptUpTo(lines, n, table) \cup {n + 1}
      ELSE KeptUpTo(lines, n + 1, table) = KeptUpTo(lines, n, table)
  BY NextKept
<1>7. \A s, k : IF s0 = s /\ line[1] = k
                THEN LinesOf(a, s, k) = LinesOf(out, s, k) \cup {Len(out) + 1}
                ELSE LinesOf(a, s, k) = LinesOf(out, s, k)
  BY <1>2, AppendLinesOf
<1>8. \A s, k : /\ IF s0 = s /\ line[1] = k
                   THEN OwnedUpTo(lines, n + 1, s, k) = OwnedUpTo(lines, n, s, k) \cup {n + 1}
                   ELSE OwnedUpTo(lines, n + 1, s, k) = OwnedUpTo(lines, n, s, k)
                /\ n + 1 \notin OwnedUpTo(lines, n, s, k)
                /\ HeadersUpTo(lines, n + 1, s) = HeadersUpTo(lines, n, s)
  BY NextOwned, NextHeaders
<1> HIDE DEF a
<1>9. KeptThere(a, lines, n + 1, table)
  <2>1. PICK at : Matches(at, KeptUpTo(lines, n, table), KeptAt(out, table), out, lines)
    BY DEF MadeOf, KeptThere
  <2>2. /\ KeptAt(out, table) \in SUBSET (1..Len(out))
        /\ KeptUpTo(lines, n, table) \in SUBSET (1..n)
    BY <1>4 DEF KeptAt, KeptUpTo
  <2>3. CASE line[1] \in Keys(forced)
    <3>1. Matches(at, KeptUpTo(lines, n, table), KeptAt(out, table), a, lines)
      BY <1>4, <2>1, <2>2, MatchesSame
    <3> QED  BY <1>2, <1>5, <1>6, <2>3, <3>1 DEF KeptThere
  <2>4. CASE line[1] \notin Keys(forced)
    <3>1. a[Len(out) + 1] = lines[n + 1]
      BY <1>3, <1>4, <2>4
    <3>2. \E more : Matches(more, KeptUpTo(lines, n, table) \cup {n + 1},
                            KeptAt(out, table) \cup {Len(out) + 1}, a, lines)
      BY <1>4, <2>1, <2>2, <3>1, MatchesMore
    <3> QED  BY <1>2, <1>5, <1>6, <2>4, <3>2 DEF KeptThere
  <2> QED  BY <2>3, <2>4
<1>10. ASSUME NEW s, NEW k \in Keys(ForcedIn(table, s))
       PROVE  Cardinality(LinesOf(a, s, k)) + (IF s \in open THEN 1 ELSE 0)
                <= Cardinality(OwnedUpTo(lines, n + 1, s, k))
                     + Cardinality(HeadersUpTo(lines, n + 1, s))
  <2>1. Cardinality(LinesOf(out, s, k)) + (IF s \in open THEN 1 ELSE 0)
          <= Cardinality(OwnedUpTo(lines, n, s, k)) + Cardinality(HeadersUpTo(lines, n, s))
    BY <1>10 DEF MadeOf, Counted
  <2>2. /\ IsFiniteSet(LinesOf(out, s, k)) /\ IsFiniteSet(OwnedUpTo(lines, n, s, k))
        /\ Cardinality(LinesOf(out, s, k)) \in Nat
        /\ Cardinality(OwnedUpTo(lines, n, s, k)) \in Nat
        /\ Cardinality(HeadersUpTo(lines, n, s)) \in Nat
    BY FiniteSets
  <2>3. CASE s0 = s /\ line[1] = k
    <3>1. Len(out) + 1 \notin LinesOf(out, s, k)
      BY <1>4 DEF LinesOf
    <3>2. Cardinality(LinesOf(a, s, k)) = Cardinality(LinesOf(out, s, k)) + 1
      <4>1. LinesOf(a, s, k) = LinesOf(out, s, k) \cup {Len(out) + 1}
        BY <1>7, <2>3
      <4> QED  BY <2>2, <3>1, <4>1, FS_AddElement
    <3>3. Cardinality(OwnedUpTo(lines, n + 1, s, k)) =
            Cardinality(OwnedUpTo(lines, n, s, k)) + 1
      <4>1. OwnedUpTo(lines, n + 1, s, k) = OwnedUpTo(lines, n, s, k) \cup {n + 1}
        BY <1>8, <2>3
      <4>2. n + 1 \notin OwnedUpTo(lines, n, s, k)
        BY <1>8
      <4> QED  BY <2>2, <4>1, <4>2, FS_AddElement
    <3>4. HeadersUpTo(lines, n + 1, s) = HeadersUpTo(lines, n, s)
      BY <1>8
    <3> QED  BY <2>1, <2>2, <3>2, <3>3, <3>4
  <2>4. CASE ~ (s0 = s /\ line[1] = k)
    <3>1. /\ LinesOf(a, s, k) = LinesOf(out, s, k)
          /\ OwnedUpTo(lines, n + 1, s, k) = OwnedUpTo(lines, n, s, k)
          /\ HeadersUpTo(lines, n + 1, s) = HeadersUpTo(lines, n, s)
      BY <1>7, <1>8, <2>4
    <3> QED  BY <2>1, <3>1
  <2> QED  BY <2>3, <2>4
<1>11. OthersFull(a, open, lines, n + 1, table)
  <2>1. ASSUME NEW i \in 1..(n + 1), IsHeader(lines[i]), lines[i][2] \notin open
        PROVE  Full(a, lines[i][2], table)
    <3>1. i \in 1..n
      BY <2>1
    <3>2. Full(out, lines[i][2], table)
      BY <2>1, <3>1 DEF MadeOf, OthersFull
    <3> QED  BY <1>7, <3>2 DEF Full
  <2> QED  BY <2>1 DEF OthersFull
<1>12. MadeOf(a, open, lines, n + 1, table)
  BY <1>9, <1>10, <1>11 DEF MadeOf, Counted
<1> QED
  BY <1>12 DEF a, l

\* The open section has been filled.
LEMMA MadeOfFill ==
  ASSUME NEW table, TableOK(table), NEW lines \in Seq(Lines), NEW n \in Nat,
         NEW out \in Seq(Lines), NEW s0, MadeOf(out, {s0}, lines, n, table),
         NEW m, NEW known, Fills(m, out, s0, table, known), Full(out \o m, s0, table)
  PROVE  MadeOf(out \o m, {}, lines, n, table)
<1> DEFINE a == out \o m
<1>1. KeptThere(a, lines, n, table)
  <2>1. PICK at : Matches(at, KeptUpTo(lines, n, table), KeptAt(out, table), out, lines)
    BY DEF MadeOf, KeptThere
  <2>2. /\ DOMAIN out = 1..Len(out)
        /\ \A j \in 1..Len(out) : a[j] = out[j]
    BY FillOut
  <2>3. KeptAt(a, table) = KeptAt(out, table)
    BY FillKept
  <2> HIDE DEF a
  <2>4. Matches(at, KeptUpTo(lines, n, table), KeptAt(out, table), a, lines)
    BY <2>1, <2>2, MatchesSame DEF KeptAt
  <2> QED  BY <2>3, <2>4 DEF KeptThere
<1>2. a \in Seq(Lines)
  BY FillOut
<1>3. ASSUME NEW s, NEW k \in Keys(ForcedIn(table, s))
      PROVE  Cardinality(LinesOf(a, s, k)) + (IF s \in {} THEN 1 ELSE 0)
               <= Cardinality(OwnedUpTo(lines, n, s, k)) + Cardinality(HeadersUpTo(lines, n, s))
  <2>1. Cardinality(LinesOf(out, s, k)) + (IF s \in {s0} THEN 1 ELSE 0)
          <= Cardinality(OwnedUpTo(lines, n, s, k)) + Cardinality(HeadersUpTo(lines, n, s))
    BY <1>3 DEF MadeOf, Counted
  <2>2. /\ IsFiniteSet(LinesOf(out, s, k)) /\ Cardinality(LinesOf(a, s, k)) \in Nat
        /\ Cardinality(LinesOf(out, s, k)) \in Nat
        /\ Cardinality(OwnedUpTo(lines, n, s, k)) \in Nat
        /\ Cardinality(HeadersUpTo(lines, n, s)) \in Nat
    <3> HIDE DEF a
    <3> QED  BY <1>2, FiniteSets
  <2>3. /\ s # s0 => LinesOf(a, s, k) = LinesOf(out, s, k)
        /\ \E q \in Nat : LinesOf(a, s, k) \subseteq LinesOf(out, s, k) \cup {q}
    BY FillLinesOf
  <2> HIDE DEF a
  <2>4. CASE s # s0
    BY <2>1, <2>2, <2>3, <2>4
  <2>5. CASE s = s0
    <3>1. PICK q \in Nat : LinesOf(a, s, k) \subseteq LinesOf(out, s, k) \cup {q}
      BY <2>3
    <3>2. /\ IsFiniteSet(LinesOf(out, s, k) \cup {q})
          /\ Cardinality(LinesOf(out, s, k) \cup {q}) <= Cardinality(LinesOf(out, s, k)) + 1
          /\ Cardinality(LinesOf(out, s, k) \cup {q}) \in Nat
      <4> DEFINE L == LinesOf(out, s, k)
      <4>1. IsFiniteSet(L) /\ Cardinality(L) \in Nat
        BY <2>2
      <4> HIDE DEF L
      <4>2. /\ IsFiniteSet(L \cup {q})
            /\ Cardinality(L \cup {q}) = IF q \in L THEN Cardinality(L) ELSE Cardinality(L) + 1
        BY <4>1, FS_AddElement
      <4>3. /\ IsFiniteSet(L \cup {q}) /\ Cardinality(L \cup {q}) <= Cardinality(L) + 1
            /\ Cardinality(L \cup {q}) \in Nat
        BY <4>1, <4>2
      <4> QED  BY <4>3 DEF L
    <3>3. Cardinality(LinesOf(a, s, k)) <= Cardinality(LinesOf(out, s, k) \cup {q})
      BY <3>1, <3>2, FS_Subset
    <3> QED  BY <2>1, <2>2, <2>5, <3>2, <3>3
  <2> QED  BY <2>4, <2>5
<1>4. OthersFull(a, {}, lines, n, table)
  <2>1. ASSUME NEW i \in 1..n, IsHeader(lines[i]) PROVE Full(a, lines[i][2], table)
    <3>1. \A s, k : LinesOf(out, s, k) \subseteq LinesOf(a, s, k)
      BY FillLinesOf
    <3>2. lines[i][2] # s0 => Full(out, lines[i][2], table)
      BY <2>1 DEF MadeOf, OthersFull
    <3> HIDE DEF a
    <3>3. lines[i][2] # s0 => Full(a, lines[i][2], table)
      BY <3>1, <3>2 DEF Full
    <3> QED  BY <3>3 DEF a
  <2> HIDE DEF a
  <2> QED  BY <2>1 DEF OthersFull
<1> HIDE DEF a
<1>5. MadeOf(a, {}, lines, n, table)
  BY <1>1, <1>3, <1>4 DEF MadeOf, Counted
<1> QED
  BY <1>5 DEF a

\* The next line, n + 1, is the header of a section.
LEMMA MadeOfHeader ==
  ASSUME NEW table, TableOK(table), NEW lines \in Seq(Lines), NEW n \in Nat,
         n + 1 \in DOMAIN lines, NEW out \in Seq(Lines),
         MadeOf(out, {}, lines, n, table), IsHeader(lines[n + 1])
  PROVE  MadeOf(Append(out, lines[n + 1]), {lines[n + 1][2]}, lines, n + 1, table)
<1> DEFINE line == lines[n + 1]
           a == Append(out, line)
<1>1. line \in Lines
  OBVIOUS
<1>2. /\ Len(out) \in Nat /\ DOMAIN out = 1..Len(out) /\ a \in Seq(Lines)
      /\ \A j \in 1..Len(out) : a[j] = out[j]
      /\ a[Len(out) + 1] = line
  BY <1>1, AppendOut
<1>3. KeptAt(a, table) = KeptAt(out, table) \cup {Len(out) + 1}
  BY <1>1, AppendKept
<1>4. KeptUpTo(lines, n + 1, table) = KeptUpTo(lines, n, table) \cup {n + 1}
  BY NextKept
<1>5. \A s, k : LinesOf(a, s, k) = LinesOf(out, s, k)
  BY <1>1, AppendLinesOf
<1>6. /\ \A s, k : OwnedUpTo(lines, n + 1, s, k) = OwnedUpTo(lines, n, s, k)
      /\ \A s : /\ IF line[2] = s
                   THEN HeadersUpTo(lines, n + 1, s) = HeadersUpTo(lines, n, s) \cup {n + 1}
                   ELSE HeadersUpTo(lines, n + 1, s) = HeadersUpTo(lines, n, s)
                /\ n + 1 \notin HeadersUpTo(lines, n, s)
  <2>1. ASSUME NEW s, NEW k
        PROVE  OwnedUpTo(lines, n + 1, s, k) = OwnedUpTo(lines, n, s, k)
    BY NextOwned
  <2>2. ASSUME NEW s
        PROVE  /\ IF line[2] = s
                  THEN HeadersUpTo(lines, n + 1, s) = HeadersUpTo(lines, n, s) \cup {n + 1}
                  ELSE HeadersUpTo(lines, n + 1, s) = HeadersUpTo(lines, n, s)
               /\ n + 1 \notin HeadersUpTo(lines, n, s)
    BY NextHeaders
  <2> QED  BY <2>1, <2>2
<1> HIDE DEF a
<1>7. KeptThere(a, lines, n + 1, table)
  <2>1. PICK at : Matches(at, KeptUpTo(lines, n, table), KeptAt(out, table), out, lines)
    BY DEF MadeOf, KeptThere
  <2>2. /\ KeptAt(out, table) \in SUBSET (1..Len(out))
        /\ KeptUpTo(lines, n, table) \in SUBSET (1..n)
    BY <1>2 DEF KeptAt, KeptUpTo
  <2>3. \E more : Matches(more, KeptUpTo(lines, n, table) \cup {n + 1},
                          KeptAt(out, table) \cup {Len(out) + 1}, a, lines)
    BY <1>2, <2>1, <2>2, MatchesMore
  <2> QED  BY <1>3, <1>4, <2>3 DEF KeptThere
<1>8. ASSUME NEW s, NEW k \in Keys(ForcedIn(table, s))
      PROVE  Cardinality(LinesOf(a, s, k)) + (IF s \in {line[2]} THEN 1 ELSE 0)
               <= Cardinality(OwnedUpTo(lines, n + 1, s, k))
                    + Cardinality(HeadersUpTo(lines, n + 1, s))
  <2>1. Cardinality(LinesOf(out, s, k)) + (IF s \in {} THEN 1 ELSE 0)
          <= Cardinality(OwnedUpTo(lines, n, s, k)) + Cardinality(HeadersUpTo(lines, n, s))
    BY <1>8 DEF MadeOf, Counted
  <2>2. /\ IsFiniteSet(HeadersUpTo(lines, n, s))
        /\ Cardinality(LinesOf(out, s, k)) \in Nat
        /\ Cardinality(OwnedUpTo(lines, n, s, k)) \in Nat
        /\ Cardinality(HeadersUpTo(lines, n, s)) \in Nat
    BY FiniteSets
  <2>3. line[2] = s => Cardinality(HeadersUpTo(lines, n + 1, s)) =
                         Cardinality(HeadersUpTo(lines, n, s)) + 1
    <3>1. line[2] = s => HeadersUpTo(lines, n + 1, s) = HeadersUpTo(lines, n, s) \cup {n + 1}
      BY <1>6
    <3>2. n + 1 \notin HeadersUpTo(lines, n, s)
      BY <1>6
    <3> QED  BY <2>2, <3>1, <3>2, FS_AddElement
  <2>4. line[2] # s => HeadersUpTo(lines, n + 1, s) = HeadersUpTo(lines, n, s)
    BY <1>6
  <2>5. /\ LinesOf(a, s, k) = LinesOf(out, s, k)
        /\ OwnedUpTo(lines, n + 1, s, k) = OwnedUpTo(lines, n, s, k)
    BY <1>5, <1>6
  <2> HIDE DEF line
  <2> QED  BY <2>1, <2>2, <2>3, <2>4, <2>5
<1>9. OthersFull(a, {line[2]}, lines, n + 1, table)
  <2>1. ASSUME NEW i \in 1..(n + 1), IsHeader(lines[i]), lines[i][2] \notin {line[2]}
        PROVE  Full(a, lines[i][2], table)
    <3>1. i \in 1..n
      BY <2>1
    <3>2. Full(out, lines[i][2], table)
      BY <2>1, <3>1 DEF MadeOf, OthersFull
    <3> QED  BY <1>5, <3>2 DEF Full
  <2> QED  BY <2>1 DEF OthersFull
<1>10. MadeOf(a, {line[2]}, lines, n + 1, table)
  BY <1>7, <1>8, <1>9 DEF MadeOf, Counted
<1> QED
  BY <1>10 DEF a
------------------------------------------------------------------------------
(***************************************************************************)
(* The whole rewriting.                                                    *)
(***************************************************************************)
LoopInv(st, lines, n, table) ==
  /\ IsState(st)
  /\ st.section = SectionAt(lines, n + 1)
  /\ Tidy(st.out, st.section, st.written, table)
  /\ MadeOf(st.out, {st.section}, lines, n, table)

LEMMA LoopStart ==
  ASSUME NEW table, TableOK(table), NEW lines \in Seq(Lines)
  PROVE  LoopInv(Start, lines, 0, table)
<1>1. SectionAt(lines, 0 + 1) = NoSection
  BY SectionNone
<1> QED
  BY <1>1, StartState, TidyStart, MadeOfStart DEF LoopInv

\* What is missing in a state of the loop, and what adding it makes.
Completes(m, st, v, table) ==
  /\ Fills(m, st.out, st.section, table, Written(st))
  /\ Tidy(st.out \o m, st.section, v, table)
  /\ Full(st.out \o m, st.section, table)
  /\ st.out \o m \in Seq(Lines)

LEMMA LoopMissing ==
  ASSUME NEW table, TableOK(table), NEW lines, NEW n,
         NEW st, LoopInv(st, lines, n, table), NEW v,
         Renotes(v, st.written, st.section, table)
  PROVE  Completes(Missing(ForcedIn(table, st.section), Written(st)), st, v, table)
<1> DEFINE forced == ForcedIn(table, st.section)
           m == Missing(forced, Written(st))
<1>1. IsState(st) /\ st.out \in Seq(Lines) /\ Tidy(st.out, st.section, st.written, table)
  BY DEF LoopInv, IsState
<1>2. MissingSo(m, forced, Written(st), Len(forced))
  BY ForcedInOK, MissingFacts
<1>3. Written(st) = IF st.section \in Noted THEN st.written[st.section] ELSE {}
  <2>1. DOMAIN [s \in Noted |-> st.written[s]] = Noted
    OBVIOUS
  <2> QED  BY <1>1, <2>1 DEF Written, IsState
<1> HIDE DEF m
<1>4. Fills(m, st.out, st.section, table, Written(st))
  BY <1>1, <1>2 DEF Fills, Tidy
<1>5. Tidy(st.out \o m, st.section, v, table) /\ Full(st.out \o m, st.section, table)
  <2>1. AreThere(Written(st), st.out, st.section)
    BY <1>1, <1>3 DEF Tidy, NotedIsThere, AreThere
  <2> QED  BY <1>1, <1>4, <2>1, TidyFill
<1>6. st.out \o m \in Seq(Lines)
  BY <1>1, <1>4, FillOut
<1> QED
  BY <1>4, <1>5, <1>6 DEF m, Completes

LEMMA LoopStep ==
  ASSUME NEW table, TableOK(table), NEW notes, NEW lines \in Seq(Lines),
         NEW n \in Nat, n + 1 \in DOMAIN lines, NEW st, LoopInv(st, lines, n, table)
  PROVE  LoopInv(MergeLine(st, lines[n + 1], table, notes), lines, n + 1, table)
<1> DEFINE line == lines[n + 1]
           new == MergeLine(st, line, table, notes)
           forced == ForcedIn(table, st.section)
<1>1. line \in Lines
  OBVIOUS
<1>2. /\ IsState(st) /\ st.out \in Seq(Lines)
      /\ st.section = SectionAt(lines, n + 1)
      /\ Tidy(st.out, st.section, st.written, table)
      /\ SectionAt(st.out, Len(st.out) + 1) = st.section
      /\ MadeOf(st.out, {st.section}, lines, n, table)
  BY DEF LoopInv, IsState, Tidy
<1>3. SectionAt(lines, (n + 1) + 1) = IF IsHeader(line) THEN line[2] ELSE st.section
  BY <1>2, SectionAfter
<1>4. CASE IsHeader(line)
  <2> DEFINE m == Missing(forced, Written(st))
  <2>1. /\ IsState(new) /\ new.section = line[2]
        /\ new.out = Append(st.out \o m, line)
        /\ \A t \in Noted : new.written[t] = IF t = st.section /\ t \in notes
                                               THEN Keys(forced) ELSE st.written[t]
    <3> HIDE DEF line, new
    <3>1. HeaderStep(new, st, line, table, notes)
      BY <1>1, <1>2, <1>4, HeaderForm DEF new
    <3> QED  BY <3>1 DEF HeaderStep
  <2> HIDE DEF new
  <2>2. /\ Fills(m, st.out, st.section, table, Written(st))
        /\ Tidy(st.out \o m, st.section, new.written, table)
        /\ Full(st.out \o m, st.section, table)
        /\ st.out \o m \in Seq(Lines)
    <3>1. Renotes(new.written, st.written, st.section, table)
      BY <2>1 DEF Renotes
    <3>2. Completes(m, st, new.written, table)
      BY <3>1, LoopMissing
    <3> HIDE DEF m
    <3> QED  BY <3>2 DEF Completes
  <2> HIDE DEF m
  <2>3. Tidy(new.out, new.section, new.written, table)
    <3> HIDE DEF line
    <3> QED  BY <1>1, <1>4, <2>1, <2>2, TidyHeader
  <2>4. MadeOf(st.out \o m, {}, lines, n, table)
    BY <1>2, <2>2, MadeOfFill
  <2>5. MadeOf(new.out, {new.section}, lines, n + 1, table)
    BY <1>4, <2>1, <2>2, <2>4, MadeOfHeader
  <2>6. LoopInv(new, lines, n + 1, table)
    BY <1>3, <1>4, <2>1, <2>3, <2>5 DEF LoopInv
  <2> QED  BY <2>6 DEF new
<1>5. CASE ~IsHeader(line)
  <2>1. /\ IsState(new) /\ new.section = st.section
        /\ new.out = Append(st.out, WrittenAs(line, forced))
        /\ \A t \in Noted : new.written[t] = IF t = st.section /\ line[1] \in Keys(forced)
                                               THEN st.written[t] \cup {line[1]} ELSE st.written[t]
    <3> HIDE DEF line, new
    <3>1. LineStep(new, st, line, table)
      BY <1>1, <1>2, <1>5, LineForm DEF new
    <3> QED  BY <3>1 DEF LineStep
  <2> HIDE DEF new
  <2>2. Tidy(new.out, new.section, new.written, table)
    <3> HIDE DEF line
    <3> QED  BY <1>1, <1>2, <1>5, <2>1, TidyLine
  <2>3. MadeOf(new.out, {new.section}, lines, n + 1, table)
    BY <1>2, <1>5, <2>1, MadeOfLine
  <2>4. LoopInv(new, lines, n + 1, table)
    BY <1>3, <1>5, <2>1, <2>2, <2>3 DEF LoopInv
  <2> QED  BY <2>4 DEF new
<1> QED
  BY <1>4, <1>5

LEMMA LoopHolds ==
  ASSUME NEW table, TableOK(table), NEW notes, NEW lines \in Seq(Lines)
  PROVE  LoopInv(AfterLine(lines, table, notes)[Len(lines)], lines, Len(lines), table)
<1> DEFINE after == AfterLine(lines, table, notes)
           S == {n \in 0..Len(lines) : LoopInv(after[n], lines, n, table)}
<1>0. Len(lines) \in Nat /\ DOMAIN lines = 1..Len(lines)
  OBVIOUS
<1>1. 0 \in S
  <2>1. after[0] = Start
    BY AfterUnfold
  <2> HIDE DEF after
  <2> QED  BY <1>0, <2>1, LoopStart
<1>2. ASSUME NEW n \in 0..(Len(lines) - 1), n \in S PROVE n + 1 \in S
  <2>1. /\ n \in Nat /\ n + 1 \in 1..Len(lines) /\ (n + 1) - 1 = n
        /\ n + 1 \in 0..Len(lines)
    BY <1>0
  <2>2. after[n + 1] = MergeLine(after[n], lines[n + 1], table, notes)
    BY <2>1, AfterUnfold
  <2>3. LoopInv(after[n], lines, n, table)
    BY <1>2
  <2> HIDE DEF after
  <2>4. LoopInv(after[n + 1], lines, n + 1, table)
    BY <1>0, <2>1, <2>2, <2>3, LoopStep
  <2> QED  BY <2>1, <2>4
<1>3. \A n \in 0..Len(lines) : n \in S
  <2> HIDE DEF S
  <2> QED  BY <1>0, <1>1, <1>2, FromZero
<1> QED
  BY <1>0, <1>3

\* The new file has what makes a second rewriting idle, and all that was
\* promised of the old.
LEMMA MergeFacts ==
  ASSUME NEW table, TableOK(table), NEW notes, NEW lines \in Seq(Lines)
  PROVE  LET new == Merge(lines, table, notes)
         IN /\ new \in Seq(Lines)
            /\ ValuesForced(new, table) /\ SectionsFull(new, table)
            /\ Full(new, SectionAt(new, Len(new) + 1), table)
            /\ MadeOf(new, {}, lines, Len(lines), table)
<1> DEFINE last == AfterLine(lines, table, notes)[Len(lines)]
           forced == ForcedIn(table, last.section)
           m == Missing(forced, Written(last))
           new == Merge(lines, table, notes)
           end == Flush(last, forced, notes)
<1>0. Len(lines) \in Nat
  OBVIOUS
<1>1. LoopInv(last, lines, Len(lines), table)
  BY LoopHolds
<1>2. new = end.out
  BY DEF Merge
<1> HIDE DEF last, new
<1>3. ForcedOK(forced) /\ IsState(last) /\ last.out \in Seq(Lines)
      /\ MadeOf(last.out, {last.section}, lines, Len(lines), table)
  BY <1>1, ForcedInOK DEF LoopInv, IsState
<1>4. /\ end.out = last.out \o m
      /\ \A t \in Noted : end.written[t] = IF t = last.section /\ t \in notes
                                             THEN Keys(forced) ELSE last.written[t]
  <2> HIDE DEF forced
  <2> QED  BY <1>3, FlushForm
<1> HIDE DEF end
<1>5. /\ Fills(m, last.out, last.section, table, Written(last))
      /\ Tidy(last.out \o m, last.section, end.written, table)
      /\ Full(last.out \o m, last.section, table)
      /\ last.out \o m \in Seq(Lines)
  <2>1. Renotes(end.written, last.written, last.section, table)
    BY <1>4 DEF Renotes
  <2>2. Completes(m, last, end.written, table)
    BY <1>1, <2>1, LoopMissing
  <2> HIDE DEF m
  <2> QED  BY <2>2 DEF Completes
<1> HIDE DEF m
<1>6. MadeOf(last.out \o m, {}, lines, Len(lines), table)
  BY <1>0, <1>3, <1>5, MadeOfFill
<1>7. new = last.out \o m
  BY <1>2, <1>4
<1>8. /\ new \in Seq(Lines)
      /\ ValuesForced(new, table) /\ SectionsFull(new, table)
      /\ Full(new, SectionAt(new, Len(new) + 1), table)
      /\ MadeOf(new, {}, lines, Len(lines), table)
  BY <1>5, <1>6, <1>7 DEF Tidy
<1> QED
  BY <1>8 DEF new

\* The rewriting keeps its promise.
LEMMA MergeKeepsPromise ==
  ASSUME NEW table, TableOK(table), NEW notes, NEW old \in Seq(Lines)
  PROVE  MergedFrom(Merge(old, table, notes), old, table)
<1> DEFINE new == Merge(old, table, notes)
<1>1. /\ new \in Seq(Lines) /\ ValuesForced(new, table)
      /\ MadeOf(new, {}, old, Len(old), table)
  BY MergeFacts
<1>2. DOMAIN old = 1..Len(old) /\ Len(old) \in Nat
  OBVIOUS
<1> HIDE DEF new
<1>3. KeepsLines(new, old, table)
  <2>1. KeptUpTo(old, Len(old), table) = KeptAt(old, table)
    BY <1>2 DEF KeptUpTo, KeptAt
  <2>2. PICK at : Matches(at, KeptAt(old, table), KeptAt(new, table), new, old)
    BY <1>1, <2>1 DEF MadeOf, KeptThere
  <2> QED  BY <2>2 DEF Matches, KeepsLines
<1>4. ASSUME NEW s \in Sections(old), NEW n \in DOMAIN ForcedIn(table, s)
      PROVE  LET ls == LinesOf(new, s, ForcedIn(table, s)[n][1])
                 owned == LinesOf(old, s, ForcedIn(table, s)[n][1])
                 headers == {i \in DOMAIN old : IsHeader(old[i]) /\ old[i][2] = s}
             IN /\ ls # {} /\ \A i \in ls : new[i] = ForcedIn(table, s)[n]
                /\ Cardinality(ls) <= Cardinality(owned) + Cardinality(headers)
  <2> DEFINE forced == ForcedIn(table, s)
             k == forced[n][1]
  <2>1. k \in Keys(forced) /\ IndexOf(forced, k) = n
    BY ForcedInOK, IndexUnique
  <2>2. LinesOf(new, s, k) # {}
    <3>1. PICK i \in DOMAIN old : IsHeader(old[i]) /\ old[i][2] = s
      BY DEF Sections
    <3>2. Full(new, s, table)
      BY <1>1, <1>2, <3>1 DEF MadeOf, OthersFull
    <3> QED  BY <2>1, <3>2 DEF Full
  <2>3. ASSUME NEW i \in LinesOf(new, s, k) PROVE new[i] = forced[n]
    <3>1. i \in DOMAIN new /\ SectionAt(new, i) = s /\ new[i][1] = k
      BY DEF LinesOf
    <3> HIDE DEF forced, k
    <3>2. new[i] = ForcedIn(table, s)[IndexOf(ForcedIn(table, s), k)]
      BY <1>1, <2>1, <3>1 DEF ValuesForced, forced
    <3> QED  BY <2>1, <3>2 DEF forced
  <2>4. Cardinality(LinesOf(new, s, k)) + (IF s \in {} THEN 1 ELSE 0)
          <= Cardinality(OwnedUpTo(old, Len(old), s, k))
               + Cardinality(HeadersUpTo(old, Len(old), s))
    BY <1>1, <2>1 DEF MadeOf, Counted
  <2>5. /\ OwnedUpTo(old, Len(old), s, k) = LinesOf(old, s, k)
        /\ HeadersUpTo(old, Len(old), s) =
             {i \in DOMAIN old : IsHeader(old[i]) /\ old[i][2] = s}
    BY <1>2 DEF OwnedUpTo, HeadersUpTo, LinesOf
  <2>6. Cardinality(LinesOf(new, s, k)) \in Nat
    BY <1>1, FiniteSets
  <2>7. Cardinality(LinesOf(new, s, k)) <= Cardinality(LinesOf(old, s, k))
          + Cardinality({i \in DOMAIN old : IsHeader(old[i]) /\ old[i][2] = s})
    <3> HIDE DEF k
    <3> QED  BY <2>4, <2>5, <2>6
  <2> QED  BY <2>2, <2>3, <2>7
<1>5. MergedFrom(new, old, table)
  BY <1>3, <1>4 DEF MergedFrom
<1> QED
  BY <1>5 DEF new
------------------------------------------------------------------------------
(***************************************************************************)
(* A rewritten file is left alone by the same rewriting.                   *)
(***************************************************************************)

\* The forced keys of the first n lines are noted.
Seen(written, lines, n, table) ==
  \A j \in 1..n :
    lines[j][1] \in Keys(ForcedIn(table, SectionAt(lines, j)))
      => lines[j][1] \in written[SectionAt(lines, j)]

\* The first n lines have been copied.
Copied(out, lines, n) ==
  /\ out \in Seq(Lines) /\ Len(out) = n
  /\ \A j \in 1..n : out[j] = lines[j]

Idle(st, lines, n, table) ==
  /\ IsState(st)
  /\ st.section = SectionAt(lines, n + 1)
  /\ Copied(st.out, lines, n)
  /\ Seen(st.written, lines, n, table)

\* The keys of section s are among the first n lines.
FullBy(lines, n, s, table) ==
  \A k \in Keys(ForcedIn(table, s)) : \E i \in LinesOf(lines, s, k) : i <= n

LEMMA CopiedOne ==
  ASSUME NEW lines \in Seq(Lines), NEW n \in Nat, n + 1 \in DOMAIN lines,
         NEW out, Copied(out, lines, n)
  PROVE  Copied(Append(out, lines[n + 1]), lines, n + 1)
<1> DEFINE a == Append(out, lines[n + 1])
<1>1. lines[n + 1] \in Lines
  OBVIOUS
<1>2. /\ a \in Seq(Lines) /\ Len(a) = n + 1 /\ a[n + 1] = lines[n + 1]
      /\ \A j \in 1..n : a[j] = out[j]
  BY <1>1 DEF Copied
<1> HIDE DEF a
<1>3. \A j \in 1..(n + 1) : j \in 1..n \/ j = n + 1
  OBVIOUS
<1>4. Copied(a, lines, n + 1)
  BY <1>2, <1>3 DEF Copied
<1> QED
  BY <1>4 DEF a

LEMMA NothingMissing ==
  ASSUME NEW table, TableOK(table), NEW lines \in Seq(Lines), NEW n \in Nat, n <= Len(lines),
         NEW st, Idle(st, lines, n, table), FullBy(lines, n, st.section, table)
  PROVE  Missing(ForcedIn(table, st.section), Written(st)) = <<>>
<1> DEFINE forced == ForcedIn(table, st.section)
           m == Missing(forced, Written(st))
<1>1. MissingSo(m, forced, Written(st), Len(forced))
  BY ForcedInOK, MissingFacts
<1>2. ForcedOK(forced) /\ DOMAIN forced = 1..Len(forced)
  BY ForcedInOK DEF ForcedOK
<1>3. \A k \in Keys(forced) : k \in Written(st)
  <2> SUFFICES ASSUME NEW k \in Keys(forced) PROVE k \in Written(st)
    OBVIOUS
  <2>1. st.section \in Noted
    BY NoSectionForced DEF Noted
  <2>2. PICK i \in LinesOf(lines, st.section, k) : i <= n
    BY DEF FullBy
  <2>3. i \in DOMAIN lines /\ SectionAt(lines, i) = st.section /\ lines[i][1] = k
    BY DEF LinesOf
  <2>4. i \in 1..n
    BY <2>2, <2>3
  <2>5. k \in st.written[st.section]
    BY <2>3, <2>4 DEF Idle, Seen
  <2>6. DOMAIN st.written = Noted
    <3>1. DOMAIN [s \in Noted |-> st.written[s]] = Noted
      OBVIOUS
    <3> QED  BY <3>1 DEF Idle, IsState
  <2> QED  BY <2>1, <2>5, <2>6 DEF Written
<1>4. \A i \in 1..Len(forced) : forced[i][1] \in Written(st)
  BY <1>2, <1>3, IndexUnique
<1> HIDE DEF m, forced
<1>5. m \in Seq(Lines) /\ ~ \E j \in DOMAIN m : TRUE
  BY <1>1, <1>4 DEF MissingSo
<1>6. m = <<>>
  <2>1. DOMAIN m = 1..Len(m) /\ Len(m) \in Nat
    BY <1>5
  <2>2. Len(m) = 0
    <3>1. 1 \notin DOMAIN m
      BY <1>5
    <3> QED  BY <2>1, <3>1
  <2> QED  BY <1>5, <2>2
<1> QED
  BY <1>6 DEF m, forced

LEMMA IdleStart ==
  ASSUME NEW lines, NEW table
  PROVE  Idle(Start, lines, 0, table)
<1>1. SectionAt(lines, 0 + 1) = NoSection
  BY SectionNone
<1>2. Copied(<<>>, lines, 0)
  BY DEF Copied
<1>3. Seen(Start.written, lines, 0, table)
  BY DEF Seen
<1> QED
  BY <1>1, <1>2, <1>3, StartState DEF Idle

LEMMA IdleStep ==
  ASSUME NEW table, TableOK(table), NEW notes, NEW lines \in Seq(Lines),
         ValuesForced(lines, table), SectionsFull(lines, table),
         NEW n \in Nat, n + 1 \in DOMAIN lines, NEW st, Idle(st, lines, n, table)
  PROVE  Idle(MergeLine(st, lines[n + 1], table, notes), lines, n + 1, table)
<1> DEFINE line == lines[n + 1]
           new == MergeLine(st, line, table, notes)
           forced == ForcedIn(table, st.section)
<1>0. /\ line \in Lines /\ DOMAIN lines = 1..Len(lines) /\ n + 1 <= Len(lines)
      /\ Len(lines) \in Nat
  OBVIOUS
<1>1. /\ IsState(st) /\ st.section = SectionAt(lines, n + 1)
      /\ Copied(st.out, lines, n) /\ Seen(st.written, lines, n, table)
  BY DEF Idle
<1>2. SectionAt(lines, (n + 1) + 1) = IF IsHeader(line) THEN line[2] ELSE st.section
  <2>1. n + 1 \in Nat /\ n + 1 >= 1
    OBVIOUS
  <2>2. SectionAt(lines, (n + 1) + 1)
          = IF IsHeader(lines[n + 1]) THEN lines[n + 1][2] ELSE SectionAt(lines, n + 1)
    BY <2>1, SectionAfter
  <2> QED  BY <1>1, <2>2
<1>3. ForcedOK(forced)
  BY ForcedInOK
<1>4. \A j \in 1..(n + 1) : j \in 1..n \/ j = n + 1
  OBVIOUS
<1>5. \A s, k : k \in Keys(ForcedIn(table, s)) => s \in Noted
  BY NoSectionForced DEF Noted
<1>6. CASE IsHeader(line)
  <2>1. HeaderStep(new, st, line, table, notes)
    <3> HIDE DEF line
    <3> QED  BY <1>0, <1>1, <1>6, HeaderForm
  <2>2. FullBy(lines, n, st.section, table)
    <3>1. ASSUME NEW i, NEW k, i \in LinesOf(lines, st.section, k), i < n + 1
          PROVE  i <= n
      BY <3>1 DEF LinesOf
    <3> QED  BY <1>1, <1>6, <3>1 DEF SectionsFull, FullBy
  <2>3. Missing(forced, Written(st)) = <<>>
    BY <1>0, <2>2, NothingMissing
  <2> HIDE DEF new
  <2>4. new.out = Append(st.out, line)
    <3>1. new.out = Append(st.out \o <<>>, line)
      BY <2>1, <2>3 DEF HeaderStep
    <3>2. st.out \o <<>> = st.out
      BY <1>1 DEF Copied
    <3> QED  BY <3>1, <3>2
  <2>5. Copied(new.out, lines, n + 1)
    BY <1>1, <2>4, CopiedOne
  <2>6. line[1] \notin Keys(forced)
    BY <1>3, <1>6, KeyFacts DEF IsHeader
  <2>7. Seen(new.written, lines, n + 1, table)
    <3> SUFFICES ASSUME NEW j \in 1..(n + 1),
                        lines[j][1] \in Keys(ForcedIn(table, SectionAt(lines, j)))
                 PROVE  lines[j][1] \in new.written[SectionAt(lines, j)]
      BY DEF Seen
    <3>1. j \in 1..n
      BY <1>1, <1>4, <2>6
    <3>2. lines[j][1] \in st.written[SectionAt(lines, j)] /\ SectionAt(lines, j) \in Noted
      BY <1>1, <1>5, <3>1 DEF Seen
    <3>3. new.written[SectionAt(lines, j)]
            = IF SectionAt(lines, j) = st.section /\ SectionAt(lines, j) \in notes
                THEN Keys(ForcedIn(table, st.section)) ELSE st.written[SectionAt(lines, j)]
      BY <2>1, <3>2 DEF HeaderStep
    <3> QED  BY <3>2, <3>3
  <2>8. IsState(new) /\ new.section = line[2]
    BY <2>1 DEF HeaderStep
  <2> QED  BY <1>2, <1>6, <2>5, <2>7, <2>8 DEF Idle, new
<1>7. CASE ~IsHeader(line)
  <2>1. LineStep(new, st, line, table)
    <3> HIDE DEF line
    <3> QED  BY <1>0, <1>1, <1>7, LineForm
  <2>2. WrittenAs(line, forced) = line
    BY <1>1 DEF WrittenAs, ValuesForced
  <2> HIDE DEF new
  <2>3. new.out = Append(st.out, line)
    BY <2>1, <2>2 DEF LineStep
  <2>4. Copied(new.out, lines, n + 1)
    BY <1>1, <2>3, CopiedOne
  <2>5. Seen(new.written, lines, n + 1, table)
    <3> SUFFICES ASSUME NEW j \in 1..(n + 1),
                        lines[j][1] \in Keys(ForcedIn(table, SectionAt(lines, j)))
                 PROVE  lines[j][1] \in new.written[SectionAt(lines, j)]
      BY DEF Seen
    <3>1. SectionAt(lines, j) \in Noted
      BY <1>5
    <3>2. new.written[SectionAt(lines, j)]
            = IF SectionAt(lines, j) = st.section /\ line[1] \in Keys(forced)
                THEN st.written[SectionAt(lines, j)] \cup {line[1]}
                ELSE st.written[SectionAt(lines, j)]
      BY <2>1, <3>1 DEF LineStep
    <3>3. CASE j \in 1..n
      <4>1. lines[j][1] \in st.written[SectionAt(lines, j)]
        BY <1>1, <3>3 DEF Seen
      <4> QED  BY <3>2, <4>1
    <3>4. CASE j = n + 1
      BY <1>1, <3>2, <3>4
    <3> QED  BY <1>4, <3>3, <3>4
  <2>6. IsState(new) /\ new.section = st.section
    BY <2>1 DEF LineStep
  <2> QED  BY <1>2, <1>7, <2>4, <2>5, <2>6 DEF Idle, new
<1> QED
  BY <1>6, <1>7

LEMMA IdleHolds ==
  ASSUME NEW table, TableOK(table), NEW notes, NEW lines \in Seq(Lines),
         ValuesForced(lines, table), SectionsFull(lines, table)
  PROVE  Idle(AfterLine(lines, table, notes)[Len(lines)], lines, Len(lines), table)
<1> DEFINE after == AfterLine(lines, table, notes)
           S == {n \in 0..Len(lines) : Idle(after[n], lines, n, table)}
<1>0. Len(lines) \in Nat /\ DOMAIN lines = 1..Len(lines)
  OBVIOUS
<1>1. 0 \in S
  <2>1. after[0] = Start
    BY AfterUnfold
  <2> HIDE DEF after
  <2> QED  BY <1>0, <2>1, IdleStart
<1>2. ASSUME NEW n \in 0..(Len(lines) - 1), n \in S PROVE n + 1 \in S
  <2>1. /\ n \in Nat /\ n + 1 \in 1..Len(lines) /\ (n + 1) - 1 = n
        /\ n + 1 \in 0..Len(lines)
    BY <1>0
  <2>2. after[n + 1] = MergeLine(after[n], lines[n + 1], table, notes)
    BY <2>1, AfterUnfold
  <2>3. Idle(after[n], lines, n, table)
    BY <1>2
  <2> HIDE DEF after
  <2>4. Idle(after[n + 1], lines, n + 1, table)
    BY <1>0, <2>1, <2>2, <2>3, IdleStep
  <2> QED  BY <2>1, <2>4
<1>3. \A n \in 0..Len(lines) : n \in S
  <2> HIDE DEF S
  <2> QED  BY <1>0, <1>1, <1>2, FromZero
<1> QED
  BY <1>0, <1>3

LEMMA MergeIdle ==
  ASSUME NEW table, TableOK(table), NEW notes, NEW lines \in Seq(Lines),
         ValuesForced(lines, table), SectionsFull(lines, table),
         Full(lines, SectionAt(lines, Len(lines) + 1), table)
  PROVE  Merge(lines, table, notes) = lines
<1> DEFINE last == AfterLine(lines, table, notes)[Len(lines)]
           forced == ForcedIn(table, last.section)
           end == Flush(last, forced, notes)
           new == Merge(lines, table, notes)
<1>0. Len(lines) \in Nat /\ DOMAIN lines = 1..Len(lines)
  OBVIOUS
<1>1. Idle(last, lines, Len(lines), table)
  BY IdleHolds
<1>2. new = end.out
  BY DEF Merge
<1> HIDE DEF last, new
<1>3. /\ IsState(last) /\ last.section = SectionAt(lines, Len(lines) + 1)
      /\ Copied(last.out, lines, Len(lines))
  BY <1>1 DEF Idle
<1>4. FullBy(lines, Len(lines), last.section, table)
  <2>1. ASSUME NEW k, NEW i, i \in LinesOf(lines, last.section, k) PROVE i <= Len(lines)
    BY <1>0, <2>1 DEF LinesOf
  <2> QED  BY <1>3, <2>1 DEF Full, FullBy
<1>5. Missing(forced, Written(last)) = <<>>
  BY <1>0, <1>1, <1>4, NothingMissing
<1>6. end.out = last.out \o Missing(forced, Written(last))
  <2>1. ForcedOK(forced)
    BY ForcedInOK
  <2> HIDE DEF forced
  <2> QED  BY <1>3, <2>1, FlushForm
<1> HIDE DEF end, forced
<1>7. new = last.out
  BY <1>2, <1>3, <1>5, <1>6 DEF Copied
<1>8. last.out = lines
  BY <1>0, <1>3 DEF Copied
<1> QED
  BY <1>7, <1>8 DEF new

\* Rewriting twice is rewriting once.
LEMMA MergeTwice ==
  ASSUME NEW table, TableOK(table), NEW notes, NEW old \in Seq(Lines)
  PROVE  Merge(Merge(old, table, notes), table, notes) = Merge(old, table, notes)
<1> DEFINE new == Merge(old, table, notes)
<1>1. /\ new \in Seq(Lines) /\ ValuesForced(new, table) /\ SectionsFull(new, table)
      /\ Full(new, SectionAt(new, Len(new) + 1), table)
  BY MergeFacts
<1> HIDE DEF new
<1>2. Merge(new, table, notes) = new
  BY <1>1, MergeIdle
<1> QED
  BY <1>2 DEF new
------------------------------------------------------------------------------
(***************************************************************************)
(* The service.                                                            *)
(***************************************************************************)
\* Between the backup and the start of the game the backup is the operator's
\* file unless it was cut, and no game runs.  A PC without a video.ini never
\* gets one.
LaunchingInv ==
  /\ launching.step = "merge" =>
       owner # None /\ video # None /\ (backup_cut \/ backup = owner)
  /\ launching.step \in {"merge", "start"} => ~process
  /\ owner = None => video = None /\ backup = None

\* The files, cut short or not, hold lines.
FilesInv == video \in Seq(Lines) \cup {None} /\ backup \in Seq(Lines) \cup {None}

IInv ==
  /\ SpectatorTypeOK /\ FilesInv
  /\ SettingsRecoverable /\ WatchesActiveGroup /\ LaunchingInv
------------------------------------------------------------------------------
\* A file that is cut short, or rewritten, holds lines.
LEMMA CutOfLines ==
  ASSUME NEW f \in Seq(Lines), NEW c \in Cut(f)
  PROVE  c \in Seq(Lines)
<1>1. PICK n \in 0..(Len(f) - 1) : c = SubSeq(f, 1, n)
  BY DEF Cut
<1> QED
  BY <1>1

LEMMA LowQualityLines ==
  ASSUME NEW f \in Seq(Lines)
  PROVE  LowQuality(f) \in Seq(Lines)
<1>1. Merge(f, SpectatorForced, {}) \in Seq(Lines)
  BY TheTables, MergeFacts
<1> QED
  BY <1>1 DEF LowQuality

LEMMA FilesInitInv == FilesInit => IInv
<1> SUFFICES ASSUME FilesInit PROVE IInv
  OBVIOUS
<1> USE DEF FilesInit, SpectatorInit
<1>1. SpectatorTypeOK
  BY DEF SpectatorTypeOK
<1>2. SettingsRecoverable /\ WatchesActiveGroup
  BY DEF SettingsRecoverable, WatchesActiveGroup
<1>3. LaunchingInv
  BY DEF LaunchingInv, NoLaunch
<1>4. FilesInv
  BY FilesAssumption DEF FilesInv
<1> QED
  BY <1>1, <1>2, <1>3, <1>4 DEF IInv

\* The first backup is made while video.ini is still the operator's, unless
\* one was cut; a backup that is there is kept.
LEMMA LaunchBeginsInv ==
  ASSUME IInv, NEW t \in Joinable, LaunchBegins(t)
  PROVE  IInv'
<1> USE DEF IInv
<1>1. /\ ~process'
      /\ process' \in BOOLEAN /\ stray' \in BOOLEAN
      /\ active_group_id' \in Joinable \cup {None}
  <2>1. CASE process
    BY <2>1 DEF LaunchBegins, SpectatorTypeOK, KillProcess
  <2>2. CASE ~process
    BY <2>2 DEF LaunchBegins, SpectatorTypeOK
  <2> QED
    BY <2>1, <2>2
<1>2. UNCHANGED <<owner, video, video_cut, joined>>
  BY DEF LaunchBegins
<1>3. CASE BacksUp /\ launching' = [step |-> "merge", to |-> t]
  <2>1. /\ video # None /\ owner # None /\ UNCHANGED backup_cut
        /\ backup' \in {video, backup}
        /\ backup_cut \/ backup' = owner
    BY <1>3 DEF BacksUp, BackUp, SettingsRecoverable, LaunchingInv
  <2>2. SpectatorTypeOK' /\ FilesInv'
    BY <1>1, <1>2, <1>3, <2>1 DEF SpectatorTypeOK, FilesInv
  <2> QED
    BY <1>1, <1>2, <1>3, <2>1, <2>2 DEF SettingsRecoverable, WatchesActiveGroup,
       LaunchingInv
<1>4. CASE BackUpCut /\ launching' = [step |-> "start", to |-> t]
  <2>1. video # None /\ backup' \in Cut(video) /\ backup_cut' = TRUE
    BY <1>4 DEF BackUpCut
  <2>2. backup' \in Seq(Lines) /\ owner # None
    BY <2>1, CutOfLines DEF FilesInv, LaunchingInv
  <2>3. SpectatorTypeOK' /\ FilesInv'
    BY <1>1, <1>2, <1>4, <2>1, <2>2 DEF SpectatorTypeOK, FilesInv
  <2> QED
    BY <1>1, <1>2, <1>4, <2>1, <2>2, <2>3 DEF SettingsRecoverable,
       WatchesActiveGroup, LaunchingInv
<1>5. CASE UNCHANGED <<backup, backup_cut>> /\ launching' = [step |-> "start", to |-> t]
  <2>1. SpectatorTypeOK' /\ FilesInv'
    BY <1>1, <1>2, <1>5 DEF SpectatorTypeOK, FilesInv
  <2> QED
    BY <1>1, <1>2, <1>5, <2>1 DEF SettingsRecoverable, WatchesActiveGroup, LaunchingInv
<1> QED
  BY <1>3, <1>4, <1>5 DEF LaunchBegins

\* Whatever the rewriting makes of video.ini, the backup is the operator's.
LEMMA WriteLowQualityInv == ASSUME IInv, WriteLowQuality PROVE IInv'
<1> USE DEF IInv
<1>1. /\ UNCHANGED <<owner, backup, backup_cut, joined, process, stray, active_group_id>>
      /\ launching.step = "merge" /\ launching' = [launching EXCEPT !.step = "start"]
      /\ \/ video' \in {LowQuality(video), video} /\ UNCHANGED video_cut
         \/ video' \in Cut(LowQuality(video)) /\ video_cut' = TRUE
  BY DEF WriteLowQuality
<1>2. /\ launching'.step = "start"
      /\ launching' \in {NoLaunch} \cup [step : {"merge", "start"}, to : Joinable]
  BY <1>1 DEF SpectatorTypeOK, NoLaunch
<1>3. /\ video \in Seq(Lines) /\ owner # None /\ ~process
      /\ backup_cut \/ backup = owner
  BY <1>1 DEF LaunchingInv, FilesInv
<1>4. video' \in Seq(Lines) /\ video_cut' \in BOOLEAN
  BY <1>1, <1>3, CutOfLines, LowQualityLines DEF SpectatorTypeOK
<1>5. SpectatorTypeOK' /\ FilesInv'
  BY <1>1, <1>2, <1>4 DEF SpectatorTypeOK, FilesInv
<1> QED
  BY <1>1, <1>2, <1>3, <1>5 DEF SettingsRecoverable, WatchesActiveGroup, LaunchingInv

\* A restore writes the operator's file back, or leaves the backup.
LEMMA RestoreKeeps ==
  ASSUME SettingsRecoverable, FilesInv, owner = None => video = None /\ backup = None,
         video_cut \in BOOLEAN, backup_cut \in BOOLEAN,
         Restore, UNCHANGED owner
  PROVE  /\ SettingsRecoverable' /\ FilesInv'
         /\ owner' = None => video' = None /\ backup' = None
         /\ video_cut' \in BOOLEAN /\ backup_cut' \in BOOLEAN
<1>1. CASE backup = None
  BY <1>1 DEF Restore, videoVars, SettingsRecoverable, FilesInv
<1>2. CASE backup # None
  <2>1. backup \in Seq(Lines) /\ UNCHANGED backup_cut /\ owner # None
    BY <1>2 DEF FilesInv, Restore
  <2>2. CASE video' = backup /\ video_cut' = FALSE /\ backup' \in {None, backup}
    BY <1>2, <2>1, <2>2 DEF SettingsRecoverable, FilesInv
  <2>3. CASE video' \in Cut(backup) /\ video_cut' = TRUE /\ UNCHANGED backup
    <3>1. video' \in Seq(Lines)
      BY <2>1, <2>3, CutOfLines
    <3> QED
      BY <1>2, <2>1, <2>3, <3>1 DEF SettingsRecoverable, FilesInv
  <2>4. CASE UNCHANGED <<video, video_cut, backup>>
    BY <2>1, <2>4 DEF SettingsRecoverable, FilesInv
  <2> QED
    BY <1>2, <2>2, <2>3, <2>4 DEF Restore
<1> QED
  BY <1>1, <1>2

\* The last step of a launch: no game runs, so joined may change.
LEMMA LaunchEndsInv ==
  ASSUME IInv, LaunchGivesUp \/ LaunchFails \/ LaunchSucceeds
  PROVE  IInv'
<1> USE DEF IInv
<1>1. launching \in [step : {"merge", "start"}, to : Joinable] /\ launching.step = "start"
  BY DEF LaunchGivesUp, LaunchFails, LaunchSucceeds, SpectatorTypeOK, NoLaunch
<1>2. ~process /\ launching' = NoLaunch /\ UNCHANGED owner
  BY <1>1 DEF LaunchingInv, LaunchGivesUp, LaunchFails, LaunchSucceeds
<1>3. Restore \/ UNCHANGED videoVars
  BY DEF LaunchGivesUp, LaunchFails, LaunchSucceeds
<1>4. /\ SettingsRecoverable' /\ FilesInv'
      /\ owner' = None => video' = None /\ backup' = None
      /\ video_cut' \in BOOLEAN /\ backup_cut' \in BOOLEAN
  <2>1. CASE Restore
    BY <1>2, <2>1, RestoreKeeps DEF LaunchingInv, SpectatorTypeOK
  <2>2. CASE UNCHANGED videoVars
    BY <1>2, <2>2 DEF LaunchingInv, SpectatorTypeOK, videoVars, SettingsRecoverable, FilesInv
  <2> QED
    BY <1>3, <2>1, <2>2
<1>5. SpectatorTypeOK'
  BY <1>1, <1>4 DEF LaunchGivesUp, LaunchFails, LaunchSucceeds, SpectatorTypeOK
<1>6. WatchesActiveGroup'
  BY <1>2 DEF WatchesActiveGroup, LaunchGivesUp, LaunchFails, LaunchSucceeds
<1>7. LaunchingInv'
  BY <1>2, <1>4 DEF LaunchingInv, NoLaunch
<1> QED
  BY <1>4, <1>5, <1>6, <1>7

LEMMA KillInv == ASSUME IInv, Kill PROVE IInv'
<1> USE DEF IInv
<1>1. /\ UNCHANGED owner /\ ~process' /\ launching' = NoLaunch
      /\ Restore \/ UNCHANGED videoVars
  BY DEF Kill, KillProcess, Unlocked
<1>2. /\ SettingsRecoverable' /\ FilesInv'
      /\ owner' = None => video' = None /\ backup' = None
      /\ video_cut' \in BOOLEAN /\ backup_cut' \in BOOLEAN
  <2>1. CASE Restore
    BY <1>1, <2>1, RestoreKeeps DEF LaunchingInv, SpectatorTypeOK
  <2>2. CASE UNCHANGED videoVars
    BY <1>1, <2>2 DEF LaunchingInv, SpectatorTypeOK, videoVars, SettingsRecoverable, FilesInv
  <2> QED
    BY <1>1, <2>1, <2>2
<1>3. SpectatorTypeOK'
  BY <1>2 DEF Kill, KillProcess, SpectatorTypeOK
<1> QED
  BY <1>1, <1>2, <1>3 DEF WatchesActiveGroup, LaunchingInv, NoLaunch

\* A game that ends, or that nobody knows any more, is not watched.
LEMMA SpectatorEndsInv == ASSUME IInv, SpectatorExits \/ SpectatorForgotten PROVE IInv'
<1> USE DEF IInv
<1>1. SpectatorTypeOK'
  BY DEF SpectatorExits, SpectatorForgotten, SpectatorTypeOK, videoVars
<1>2. UNCHANGED <<owner, video, backup, backup_cut, joined>>
  BY DEF SpectatorExits, SpectatorForgotten, videoVars
<1>3. /\ SettingsRecoverable' /\ FilesInv'
      /\ owner' = None => video' = None /\ backup' = None
  BY <1>2 DEF SettingsRecoverable, LaunchingInv, FilesInv
<1>4. CASE SpectatorExits
  <2>1. UNCHANGED <<active_group_id, launching>> /\ process' \in {process, FALSE}
    BY <1>4 DEF SpectatorExits
  <2>2. process' => process
    BY <2>1
  <2>3. WatchesActiveGroup'
    BY <1>2, <2>1, <2>2 DEF WatchesActiveGroup
  <2>4. LaunchingInv'
    BY <1>2, <1>3, <2>1, <2>2 DEF LaunchingInv
  <2> QED
    BY <1>1, <1>3, <2>3, <2>4
<1>5. CASE SpectatorForgotten
  <2>1. ~process' /\ launching' = NoLaunch
    BY <1>5 DEF SpectatorForgotten
  <2> QED
    BY <1>1, <1>3, <2>1 DEF WatchesActiveGroup, LaunchingInv, NoLaunch
<1> QED
  BY <1>4, <1>5

LEMMA FilesNextInv == IInv /\ [FilesNext]_fileVars => IInv'
<1> SUFFICES ASSUME IInv, [FilesNext]_fileVars PROVE IInv'
  OBVIOUS
<1>1. ASSUME NEW t \in Joinable, LaunchBegins(t) PROVE IInv'
  BY <1>1, LaunchBeginsInv
<1>2. ASSUME LaunchGoesOn PROVE IInv'
  BY <1>2, WriteLowQualityInv, LaunchEndsInv DEF LaunchGoesOn
<1>3. ASSUME Kill PROVE IInv'
  BY <1>3, KillInv
<1>4. ASSUME SpectatorExits \/ SpectatorForgotten PROVE IInv'
  BY <1>4, SpectatorEndsInv
<1>5. ASSUME UNCHANGED spectatorVars PROVE IInv'
  BY <1>5 DEF spectatorVars, IInv, SpectatorTypeOK, FilesInv, SettingsRecoverable,
     WatchesActiveGroup, LaunchingInv
<1> QED
  BY <1>1, <1>2, <1>3, <1>4, <1>5 DEF FilesNext, LaunchAC, fileVars
------------------------------------------------------------------------------
LEMMA FilesInvHolds == FilesSpec => []IInv
BY FilesInitInv, FilesNextInv, PTL DEF FilesSpec

\* Wherever a write of video.ini is cut short and whatever else fails or
\* crashes, the operator's video settings are in the backup, or there is none
\* and video.ini has them, unless a write of the backup was cut
\* (spectator.py:161-301).
THEOREM SettingsAlwaysRecoverable == FilesSpec => []SettingsRecoverable
<1>1. IInv => SettingsRecoverable
  BY DEF IInv
<1> QED
  BY <1>1, FilesInvHolds, PTL

\* A spectator that runs watches the group the service names
\* (spectator.py:437-511).
THEOREM AlwaysWatchesActiveGroup == FilesSpec => []WatchesActiveGroup
<1>1. IInv => WatchesActiveGroup
  BY DEF IInv
<1> QED
  BY <1>1, FilesInvHolds, PTL
------------------------------------------------------------------------------
(***************************************************************************)
(* The files.  A file is the owner's, or the owner's rewritten once: to    *)
(* rewrite it again changes nothing.                                       *)
(***************************************************************************)
LEMMA LowQualityFile ==
  ASSUME NEW f \in Files
  PROVE  /\ LowQuality(f) \in Seq(Lines)
         /\ LowQuality(LowQuality(f)) = LowQuality(f)
         /\ MergedFrom(LowQuality(f), f, SpectatorForced)
<1>1. f \in Seq(Lines) /\ TableOK(SpectatorForced)
  BY FilesAssumption, TheTables
<1>2. Merge(f, SpectatorForced, {}) \in Seq(Lines)
  BY <1>1, MergeFacts
<1>3. Merge(Merge(f, SpectatorForced, {}), SpectatorForced, {})
        = Merge(f, SpectatorForced, {})
  BY <1>1, MergeTwice
<1>4. MergedFrom(Merge(f, SpectatorForced, {}), f, SpectatorForced)
  BY <1>1, MergeKeepsPromise
<1> QED
  BY <1>2, <1>3, <1>4 DEF LowQuality

LEMMA PureFile ==
  ASSUME NEW f \in Files
  PROVE  /\ EnsurePure(f) \in Seq(Lines)
         /\ EnsurePure(EnsurePure(f)) = EnsurePure(f)
         /\ MergedFrom(EnsurePure(f), f, RigForced)
<1>1. f \in Seq(Lines) /\ TableOK(RigForced)
  BY FilesAssumption, TheTables
<1>2. Merge(f, RigForced, {"VIDEO"}) \in Seq(Lines)
  BY <1>1, MergeFacts
<1>3. Merge(Merge(f, RigForced, {"VIDEO"}), RigForced, {"VIDEO"})
        = Merge(f, RigForced, {"VIDEO"})
  BY <1>1, MergeTwice
<1>4. MergedFrom(Merge(f, RigForced, {"VIDEO"}), f, RigForced)
  BY <1>1, MergeKeepsPromise
<1> QED
  BY <1>2, <1>3, <1>4 DEF EnsurePure

Whole == ~backup_cut /\ ~video_cut

RewrittenOnce ==
  /\ owner # None => /\ Whole => video \in {owner, LowQuality(owner)}
                     /\ rig_video \in {owner, EnsurePure(owner)}
  /\ owner = None => rig_video = None

LEMMA RewrittenOnceInit == FilesInit => RewrittenOnce
BY DEF FilesInit, SpectatorInit, RewrittenOnce

\* A video.ini that is whole after a restore is as it was, or the owner's.
LEMMA RestoredIsOwners ==
  ASSUME SettingsRecoverable, Restore, Whole'
  PROVE  (Whole /\ video' = video) \/ video' = owner
<1>1. CASE backup = None
  BY <1>1 DEF Restore, videoVars, Whole
<1>2. CASE backup # None
  BY <1>2 DEF Restore, Whole, SettingsRecoverable
<1> QED
  BY <1>1, <1>2

LEMMA RewrittenOnceNext ==
  IInv /\ RewrittenOnce /\ [FilesNext]_fileVars => RewrittenOnce'
<1> SUFFICES ASSUME IInv, RewrittenOnce, [FilesNext]_fileVars PROVE RewrittenOnce'
  OBVIOUS
<1>0. owner # None => owner \in Files
  BY DEF IInv, SpectatorTypeOK
<1>1. ASSUME UNCHANGED <<owner, rig_video>>,
             Whole' => (Whole /\ video' = video) \/ video' = owner
      PROVE  RewrittenOnce'
  BY <1>1 DEF RewrittenOnce
<1>2. ASSUME UNCHANGED rig_video, NEW t \in Joinable, LaunchBegins(t)
      PROVE  RewrittenOnce'
  <2>1. UNCHANGED <<owner, video, video_cut>> /\ (~backup_cut' => ~backup_cut)
    BY <1>2 DEF LaunchBegins, BacksUp, BackUpCut
  <2> QED
    BY <1>1, <1>2, <2>1 DEF Whole
<1>3. ASSUME UNCHANGED rig_video, WriteLowQuality PROVE RewrittenOnce'
  <2>1. /\ owner # None /\ UNCHANGED <<owner, backup_cut>>
        /\ video_cut' \/ (video' \in {LowQuality(video), video} /\ UNCHANGED video_cut)
    BY <1>3 DEF WriteLowQuality, IInv, LaunchingInv
  <2>2. Whole => LowQuality(video) = LowQuality(owner)
    BY <1>0, <2>1, LowQualityFile DEF RewrittenOnce
  <2> QED
    BY <1>3, <2>1, <2>2 DEF RewrittenOnce, Whole
<1>4. ASSUME UNCHANGED rig_video, Restore \/ UNCHANGED videoVars, UNCHANGED owner
      PROVE  RewrittenOnce'
  <2>1. CASE Restore
    BY <1>1, <1>4, <2>1, RestoredIsOwners DEF IInv
  <2>2. CASE UNCHANGED videoVars
    BY <1>1, <1>4, <2>2 DEF videoVars, Whole
  <2> QED
    BY <1>4, <2>1, <2>2
<1>5. ASSUME UNCHANGED rig_video,
             LaunchGivesUp \/ LaunchFails \/ LaunchSucceeds \/ Kill
               \/ SpectatorExits \/ SpectatorForgotten
      PROVE  RewrittenOnce'
  BY <1>4, <1>5 DEF LaunchGivesUp, LaunchFails, LaunchSucceeds, Kill,
     SpectatorExits, SpectatorForgotten, videoVars
<1>6. ASSUME LaunchAC PROVE RewrittenOnce'
  <2>1. /\ owner # None /\ UNCHANGED <<owner, video, video_cut, backup_cut>>
        /\ rig_video' \in {EnsurePure(rig_video), rig_video}
    BY <1>6 DEF LaunchAC, spectatorVars, RewrittenOnce
  <2>2. EnsurePure(rig_video) = EnsurePure(owner)
    BY <1>0, <2>1, PureFile DEF RewrittenOnce
  <2> QED
    BY <2>1, <2>2 DEF RewrittenOnce, Whole
<1>7. ASSUME UNCHANGED fileVars PROVE RewrittenOnce'
  BY <1>1, <1>7 DEF fileVars, spectatorVars, Whole
<1> QED
  BY <1>2, <1>3, <1>5, <1>6, <1>7 DEF FilesNext, LaunchGoesOn

LEMMA RewrittenOnceHolds == FilesSpec => []RewrittenOnce
BY RewrittenOnceInit, RewrittenOnceNext, FilesInvHolds, PTL DEF FilesSpec

\* Every file is one the program can read again, and every other variable has
\* its type, whatever is launched, restored or forgotten (spectator.py:155-511,
\* launcher.py:485-571).
THEOREM FilesTypeCorrect == FilesSpec => []FilesTypeOK
<1>1. IInv /\ RewrittenOnce => FilesTypeOK
  <2> SUFFICES ASSUME IInv, RewrittenOnce PROVE FilesTypeOK
    OBVIOUS
  <2>1. SpectatorTypeOK
    BY DEF IInv
  <2>2. {video, backup} \subseteq Seq(Lines) \cup {None}
    BY DEF IInv, FilesInv
  <2>3. CASE owner = None
    BY <2>1, <2>2, <2>3 DEF RewrittenOnce, FilesTypeOK
  <2>4. CASE owner # None
    <3>1. owner \in Files /\ owner \in Seq(Lines)
      BY <2>1, <2>4, FilesAssumption DEF SpectatorTypeOK
    <3>2. EnsurePure(owner) \in Seq(Lines)
      BY <3>1, PureFile
    <3> QED
      BY <2>1, <2>2, <2>4, <3>1, <3>2 DEF RewrittenOnce, FilesTypeOK
  <2> QED
    BY <2>3, <2>4
<1> QED
  BY <1>1, FilesInvHolds, RewrittenOnceHolds, PTL

\* However often it is rewritten, by relaunches and after failed restores, the
\* reduced video.ini is the operator's with the forced values: every other line
\* is there, in order, and no forced key is written more often than the owner
\* wrote it and once per section (spectator.py:217-265).
THEOREM ReducedIsFromOwners == FilesSpec => []ReducedFromOwners
<1>1. IInv /\ RewrittenOnce => ReducedFromOwners
  BY LowQualityFile DEF IInv, LaunchingInv, SpectatorTypeOK, RewrittenOnce, Whole,
     ReducedFromOwners
<1> QED
  BY <1>1, FilesInvHolds, RewrittenOnceHolds, PTL

\* A rig that is launched again and again keeps its own display settings: its
\* video.ini has Pure's values and everything else as it was (launcher.py:485-571).
THEOREM RigAlwaysKeepsOwnSettings == FilesSpec => []RigKeepsOwnSettings
<1>1. IInv /\ RewrittenOnce => RigKeepsOwnSettings
  BY PureFile DEF IInv, SpectatorTypeOK, RewrittenOnce, RigKeepsOwnSettings
<1> QED
  BY <1>1, FilesInvHolds, RewrittenOnceHolds, PTL
==============================================================================
