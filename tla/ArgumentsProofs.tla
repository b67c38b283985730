--------------------------- MODULE ArgumentsProofs ---------------------------
(***************************************************************************)
(* Theorems about Arguments: whatever the command line and the environment *)
(* are, the tool takes a word apart into its fields, defines the resources *)
(* that the options name, asks what the last query option asks, runs what  *)
(* follows a "--" and tells it of its environment and its lock, does not   *)
(* report a success of nothing, and deletes nothing that is not its own.   *)
(***************************************************************************)
EXTENDS Arguments, FiniteSetTheorems, SequenceTheorems, TLAPS

(* Induction over the numbers, with a set for what is to hold of them.  A  *)
(* number outside S would leave fewer successors below it than numbers to  *)
(* be followed.                                                            *)
LEMMA NumbersIn ==
  ASSUME NEW S, 0 \in S, \A n \in Nat : n \in S => n + 1 \in S
  PROVE  \A n \in Nat : n \in S
<1> SUFFICES ASSUME NEW k \in Nat, k \notin S PROVE FALSE
  OBVIOUS
<1> DEFINE A == {n \in 0 .. k : n \in S}
           next == [n \in A |-> n + 1]
<1>1. IsFiniteSet(A) /\ 0 \in A
  <2>1. IsFiniteSet(0 .. k)
    BY FS_Interval
  <2> QED BY <2>1, FS_Subset
<1>2. next \in [A -> A \ {0}]
  OBVIOUS
<1>3. /\ IsFiniteSet(A \ {0}) /\ Cardinality(A \ {0}) = Cardinality(A) - 1
      /\ Cardinality(A) \in Nat
  BY <1>1, FS_RemoveElement, FS_CardinalityType
<1> HIDE DEF A
<1>4. \E x, y \in A : x # y /\ next[x] = next[y]
  <2> HIDE DEF next
  <2>1. Cardinality(A \ {0}) < Cardinality(A)
    BY <1>3
  <2> QED BY <1>1, <1>2, <1>3, <2>1, FS_PigeonHole
<1> QED BY <1>4 DEF A

(* A function may be defined by recursion: there is one whose first value  *)
(* is base, and each other that of step.                                   *)
Follows(f, base, n, step) == f[0] = base /\ \A i \in 1 .. n : f[i] = step[i][f[i - 1]]

LEMMA Recursion ==
  ASSUME NEW T, NEW base \in T, NEW n \in Nat, NEW step \in [1 .. n -> [T -> T]]
  PROVE  \E f \in [0 .. n -> T] : Follows(f, base, n, step)
<1> DEFINE Upto(k, f) == f[0] = base /\ \A i \in 1 .. k : f[i] = step[i][f[i - 1]]
           S == {k \in Nat : k <= n => \E f \in [0 .. k -> T] : Upto(k, f)}
<1>1. 0 \in S
  <2>1. [i \in 0 .. 0 |-> base] \in [0 .. 0 -> T] /\ Upto(0, [i \in 0 .. 0 |-> base])
    OBVIOUS
  <2> QED BY <2>1
<1>2. ASSUME NEW k \in Nat, k \in S, k + 1 <= n
      PROVE  \E f \in [0 .. k + 1 -> T] : Upto(k + 1, f)
  <2>1. PICK f \in [0 .. k -> T] : Upto(k, f)
    BY <1>2
  <2> DEFINE g == [i \in 0 .. k + 1 |-> IF i = k + 1 THEN step[k + 1][f[k]] ELSE f[i]]
  <2>2. k \in 0 .. k /\ k + 1 \in 1 .. n /\ f[k] \in T
    BY <1>2
  <2>3. step[k + 1] \in [T -> T]
    BY <2>2
  <2>4. step[k + 1][f[k]] \in T
    BY <2>2, <2>3
  <2>5. g \in [0 .. k + 1 -> T]
    BY <2>4
  <2>6. Upto(k + 1, g)
    BY <2>1
  <2> QED BY <2>5, <2>6
<1>3. \A k \in Nat : k \in S => k + 1 \in S
  <2> HIDE DEF Upto
  <2> QED BY <1>2
<1> HIDE DEF S
<1>4. n \in S
  BY <1>1, <1>3, NumbersIn
<1>5. \E f \in [0 .. n -> T] : Upto(n, f)
  <2> HIDE DEF Upto
  <2> QED BY <1>4 DEF S
<1> QED BY <1>5 DEF Follows

(* The smallest and the largest of some numbers.                           *)
LEMMA HasSmallest ==
  ASSUME NEW S \in SUBSET Nat, S # {}
  PROVE  \E x \in S : \A y \in S : x <= y
<1> SUFFICES ASSUME \A x \in S : \E y \in S : y < x PROVE FALSE
  OBVIOUS
<1> DEFINE T == {n \in Nat : \A y \in S : y > n}
<1>1. 0 \in T
  OBVIOUS
<1>2. ASSUME NEW n \in Nat, n \in T
      PROVE  n + 1 \in T
  <2>1. \A y \in S : y # n + 1
    BY <1>2
  <2> QED BY <1>2, <2>1
<1> HIDE DEF T
<1>3. \A n \in Nat : n \in T
  BY <1>1, <1>2, NumbersIn
<1>4. PICK x \in S : x \in Nat
  OBVIOUS
<1>5. x > x
  BY <1>3, <1>4 DEF T
<1> QED BY <1>4, <1>5

LEMMA HasLargest ==
  ASSUME NEW n \in Nat, NEW S \in SUBSET (0 .. n), S # {}
  PROVE  \E x \in S : \A y \in S : y <= x
<1> DEFINE T == {k \in 0 .. n : \A y \in S : y <= k}
<1>1. n \in T /\ T \in SUBSET Nat
  OBVIOUS
<1>2. PICK k \in T : \A l \in T : k <= l
  BY <1>1, HasSmallest
<1>3. CASE k \in S
  <2>1. \A y \in S : y <= k
    BY <1>2
  <2> QED BY <1>3, <2>1
<1>4. CASE k \notin S
  <2>1. \A y \in S : y < k
    BY <1>2, <1>4
  <2>2. k - 1 \in 0 .. n /\ \A y \in S : y <= k - 1
    <3>1. PICK y \in S : y \in 0 .. n
      OBVIOUS
    <3>2. k \in 0 .. n /\ k > y
      BY <2>1, <3>1
    <3> QED BY <2>1, <3>1, <3>2
  <2> QED BY <1>2, <2>2
<1> QED BY <1>3, <1>4

-----------------------------------------------------------------------------
(* Some words: sequences of fields over C.                                 *)
Lists(C) == Seq(Seq(C) \ {<<>>})

LEMMA ExtendType ==
  ASSUME NEW C, NEW s \in Seq(C), NEW d, NEW i \in 1 .. Len(s), NEW r \in Lists(C)
  PROVE  Extend(r, s, i, d) \in Lists(C)
<1>1. s[i] \in C
  OBVIOUS
<1> DEFINE W == Seq(C) \ {<<>>}
<1>2. <<s[i]>> \in W
  BY <1>1
<1>3. ASSUME NEW w \in W PROVE Append(w, s[i]) \in W
  BY <1>1
<1>4. Append(r, <<s[i]>>) \in Seq(W)
  <2> HIDE DEF W
  <2> QED BY <1>2 DEF Lists, W
<1>5. [r EXCEPT ![Len(r)] = Append(@, s[i])] \in Seq(W)
  <2>1. r \in Seq(W)
    BY DEF Lists
  <2>2. CASE Len(r) = 0
    <3>1. r = <<>>
      BY <2>1, <2>2
    <3>2. [r EXCEPT ![Len(r)] = Append(@, s[i])] = r
      BY <2>2, <3>1
    <3> QED BY <2>1, <3>2
  <2>3. CASE Len(r) # 0
    <3>1. Len(r) \in 1 .. Len(r) /\ r[Len(r)] \in W
      BY <2>1, <2>3
    <3>2. Append(r[Len(r)], s[i]) \in W
      BY <1>3, <3>1
    <3> HIDE DEF W
    <3>3. [r EXCEPT ![Len(r)] = Append(r[Len(r)], s[i])] \in Seq(W)
      BY <2>1, <3>1, <3>2
    <3> QED BY <3>3
  <2> QED BY <2>2, <2>3
<1> QED BY <1>4, <1>5 DEF Extend, Lists

LEMMA RunsAre ==
  ASSUME NEW C, NEW s \in Seq(C), NEW d
  PROVE  /\ Runs(s, d) \in [0 .. Len(s) -> Lists(C)]
         /\ Runs(s, d)[0] = <<>>
         /\ \A i \in 1 .. Len(s) : Runs(s, d)[i] = Extend(Runs(s, d)[i - 1], s, i, d)
<1> DEFINE n == Len(s)
           T == Lists(C)
           step == [i \in 1 .. n |-> [r \in T |-> Extend(r, s, i, d)]]
           Def(f) == [i \in 0 .. n |-> IF i = 0 THEN <<>> ELSE Extend(f[i - 1], s, i, d)]
<1>1. <<>> \in T /\ n \in Nat
  BY DEF Lists
<1>2. step \in [1 .. n -> [T -> T]]
  BY ExtendType
<1>3. PICK f \in [0 .. n -> T] : f[0] = <<>> /\ \A i \in 1 .. n : f[i] = step[i][f[i - 1]]
  <2>1. \E f \in [0 .. n -> T] : Follows(f, <<>>, n, step)
    <3> HIDE DEF T, n, step
    <3> QED BY <1>1, <1>2, Recursion
  <2> QED BY <2>1 DEF Follows
<1>4. \A i \in 1 .. n : f[i] = Extend(f[i - 1], s, i, d)
  <2> SUFFICES ASSUME NEW i \in 1 .. n PROVE f[i] = Extend(f[i - 1], s, i, d)
    OBVIOUS
  <2>1. f[i - 1] \in T
    <3>1. i - 1 \in 0 .. n
      BY <1>1
    <3> QED BY <1>3, <3>1
  <2> QED BY <1>3, <2>1
<1>5. f = Def(f)
  BY <1>3, <1>4
<1>6. Runs(s, d) = Def(Runs(s, d))
  <2>1. Runs(s, d) = CHOOSE g : g = Def(g)
    BY DEF Runs
  <2> HIDE DEF Def
  <2> QED BY <1>5, <2>1, Zenon
<1>7. \A g : g = Def(g) => g = f
  <2> SUFFICES ASSUME NEW g, g = Def(g) PROVE g = f
    OBVIOUS
  <2>1. /\ DOMAIN g = 0 .. n /\ g[0] = <<>>
        /\ \A i \in 1 .. n : g[i] = Extend(g[i - 1], s, i, d)
        /\ g = [i \in 0 .. n |-> g[i]]
    BY <1>1
  <2> DEFINE S == {k \in Nat : k <= n => g[k] = f[k]}
  <2>2. 0 \in S
    BY <1>3, <2>1
  <2>3. ASSUME NEW k \in Nat, k \in S PROVE k + 1 \in S
    BY <1>1, <1>4, <2>1, <2>3
  <2> HIDE DEF S
  <2>4. \A k \in Nat : k \in S
    BY <2>2, <2>3, NumbersIn
  <2>5. \A k \in 0 .. n : g[k] = f[k]
    BY <1>1, <2>4 DEF S
  <2> QED BY <1>3, <2>1, <2>5
<1> HIDE DEF Def
<1>8. Runs(s, d) = f
  BY <1>6, <1>7
<1> QED BY <1>3, <1>4, <1>8

(* What two strings have in common at their beginning they have in common  *)
(* in their runs.                                                          *)
LEMMA SameBeginning ==
  ASSUME NEW C, NEW s \in Seq(C), NEW t \in Seq(C), NEW d,
         NEW n \in Nat, n <= Len(s), n <= Len(t), \A i \in 1 .. n : s[i] = t[i]
  PROVE  Runs(s, d)[n] = Runs(t, d)[n]
<1> DEFINE S == {k \in Nat : k <= n => Runs(s, d)[k] = Runs(t, d)[k]}
<1>1. 0 \in S
  BY RunsAre
<1>2. ASSUME NEW k \in Nat, k \in S
      PROVE  k + 1 \in S
  <2> SUFFICES ASSUME k + 1 <= n PROVE Runs(s, d)[k + 1] = Runs(t, d)[k + 1]
    OBVIOUS
  <2>1. /\ Runs(s, d)[k + 1] = Extend(Runs(s, d)[k], s, k + 1, d)
        /\ Runs(t, d)[k + 1] = Extend(Runs(t, d)[k], t, k + 1, d)
    BY RunsAre
  <2>2. s[k + 1] = t[k + 1] /\ (k + 1 = 1 \/ s[k] = t[k])
    OBVIOUS
  <2>3. Runs(s, d)[k] = Runs(t, d)[k]
    BY <1>2
  <2> QED BY <2>1, <2>2, <2>3 DEF Extend
<1> HIDE DEF S
<1>3. n \in S
  BY <1>1, <1>2, NumbersIn
<1> QED BY <1>3 DEF S

(* After another character than d there is a run to extend.                *)
LEMMA RunAfterCharacter ==
  ASSUME NEW C, NEW s \in Seq(C), NEW d, NEW n \in 1 .. Len(s), s[n] # d
  PROVE  Runs(s, d)[n] # <<>>
<1> DEFINE S == {k \in Nat : k \in 1 .. Len(s) /\ s[k] # d => Runs(s, d)[k] # <<>>}
<1>1. 0 \in S
  OBVIOUS
<1>2. ASSUME NEW k \in Nat, k \in S
      PROVE  k + 1 \in S
  <2> SUFFICES ASSUME k + 1 \in 1 .. Len(s), s[k + 1] # d PROVE Runs(s, d)[k + 1] # <<>>
    OBVIOUS
  <2> DEFINE r == Runs(s, d)[k]
  <2>1. Runs(s, d)[k + 1] = Extend(r, s, k + 1, d)
    BY RunsAre
  <2>2. r \in Seq(Seq(C) \ {<<>>})
    BY RunsAre DEF Lists
  <2>3. CASE k + 1 = 1 \/ s[k] = d
    <3>1. Runs(s, d)[k + 1] = Append(r, <<s[k + 1]>>)
      BY <2>1, <2>3 DEF Extend
    <3>2. \A w \in Seq(C) \ {<<>>} : Append(r, w) # <<>>
      <4> DEFINE W == Seq(C) \ {<<>>}
      <4> HIDE DEF W, r
      <4> QED BY <2>2, AppendProperties DEF W
    <3>3. <<s[k + 1]>> \in Seq(C) \ {<<>>}
      OBVIOUS
    <3> QED BY <3>1, <3>2, <3>3
  <2>4. CASE k + 1 # 1 /\ s[k] # d
    <3>1. k \in 1 .. Len(s) /\ r # <<>>
      BY <1>2, <2>4
    <3>2. Runs(s, d)[k + 1] = [r EXCEPT ![Len(r)] = Append(@, s[k + 1])]
      BY <2>1, <2>4 DEF Extend
    <3>3. DOMAIN r = 1 .. Len(r) /\ Len(r) \in Nat \ {0}
      BY <2>2, <3>1
    <3>4. 1 \in DOMAIN Runs(s, d)[k + 1]
      BY <3>2, <3>3
    <3> QED BY <3>4
  <2> QED BY <2>3, <2>4
<1> HIDE DEF S
<1>3. n \in S
  BY <1>1, <1>2, NumbersIn
<1> QED BY <1>3 DEF S

(* Before the first d there is one run.                                    *)
LEMMA OneRun ==
  ASSUME NEW C, NEW s \in Seq(C), NEW d, NEW n \in 1 .. Len(s), \A i \in 1 .. n : s[i] # d
  PROVE  Runs(s, d)[n] = <<SubSeq(s, 1, n)>>
<1> DEFINE Is(k) == Runs(s, d)[k] = <<SubSeq(s, 1, k)>>
           S == {k \in Nat : k \in 1 .. n => Is(k)}
<1>1. 0 \in S
  <2> HIDE DEF Is
  <2> QED OBVIOUS
<1>2. ASSUME NEW k \in Nat, k \in S
      PROVE  k + 1 \in S
  <2> SUFFICES ASSUME k + 1 \in 1 .. n PROVE Is(k + 1)
    OBVIOUS
  <2> DEFINE c == s[k + 1]
             w == SubSeq(s, 1, k)
  <2>0. c \in C /\ c # d /\ k + 1 \in 1 .. Len(s) /\ (k + 1) - 1 = k /\ k <= Len(s)
    OBVIOUS
  <2>1. Runs(s, d)[k + 1] = Extend(Runs(s, d)[k], s, k + 1, d) /\ Runs(s, d)[0] = <<>>
    BY <2>0, RunsAre
  <2>2. SubSeq(s, 1, k + 1) = w \o <<c>>
    <3>1. 1 \in 1 .. Len(s) /\ k + 1 \in 1 .. Len(s)
      BY <2>0
    <3>2. SubSeq(s, 1, k + 1) = SubSeq(s, 1, (k + 1) - 1) \o <<s[k + 1]>>
      BY <3>1, SubSeqRecursiveSecond
    <3> QED BY <2>0, <3>2
  <2>3. CASE k = 0
    <3>1. Runs(s, d)[k + 1] = Append(<<>>, <<c>>)
      <4>1. Runs(s, d)[k] = <<>> /\ k + 1 = 1
        BY <2>1, <2>3
      <4> QED BY <2>0, <2>1, <4>1 DEF Extend
    <3>2. w = <<>>
      BY <2>3, SubSeqEmpty
    <3>3. SubSeq(s, 1, k + 1) = <<c>>
      <4>1. <<>> \o <<c>> = <<c>>
        <5> HIDE DEF c
        <5> QED OBVIOUS
      <4> HIDE DEF c, w
      <4> QED BY <2>2, <3>2, <4>1, Zenon
    <3>4. Append(<<>>, <<c>>) = <<<<c>>>>
      OBVIOUS
    <3> HIDE DEF c
    <3> QED BY <3>1, <3>3, <3>4
  <2>4. CASE k # 0
    <3>1. Runs(s, d)[k] = <<w>> /\ s[k] # d /\ k + 1 # 1
      <4>1. k \in 1 .. n
        BY <2>4
      <4> QED BY <1>2, <2>4, <4>1
    <3>2. Runs(s, d)[k + 1] = [<<w>> EXCEPT ![Len(<<w>>)] = Append(<<w>>[Len(<<w>>)], c)]
      <4> HIDE DEF c, w
      <4> QED BY <2>0, <2>1, <3>1 DEF Extend, c
    <3>3. w \in Seq(C)
      <4>1. \A i \in 1 .. k : s[i] \in C
        BY <2>0
      <4> QED BY <4>1, SubSeqProperties
    <3>4. Append(w, c) = w \o <<c>>
      <4> HIDE DEF w, c
      <4> QED BY <2>0, <3>3, AppendIsConcat
    <3>5. \A x, y : [<<x>> EXCEPT ![1] = y] = <<y>> /\ Len(<<x>>) = 1 /\ <<x>>[1] = x
      OBVIOUS
    <3> HIDE DEF w, c
    <3>6. Runs(s, d)[k + 1] = <<Append(w, c)>>
      BY <3>2, <3>5, Zenon
    <3> QED BY <2>2, <3>4, <3>6
  <2> QED BY <2>3, <2>4
<1> HIDE DEF S
<1>3. n \in S
  BY <1>1, <1>2, NumbersIn
<1> QED BY <1>3 DEF S

LEMMA AppendLater ==
  ASSUME NEW W, NEW g \in Seq(W), NEW y \in Seq(W), NEW e \in W
  PROVE  g \o Append(y, e) = Append(g \o y, e)
<1>1. g \o y \in Seq(W)
  BY ConcatProperties
<1>2. <<e>> \in Seq(W)
  OBVIOUS
<1>3. Append(g \o y, e) = (g \o y) \o <<e>> /\ Append(y, e) = y \o <<e>>
  BY <1>1, AppendIsConcat
<1>4. (g \o y) \o <<e>> = g \o (y \o <<e>>)
  BY <1>2, ConcatAssociative
<1> QED BY <1>3, <1>4

ChangeEnd(r, w) == [r EXCEPT ![Len(r)] = w]

LEMMA ChangeLater ==
  ASSUME NEW W, NEW g \in Seq(W), NEW y \in Seq(W), y # <<>>, NEW w \in W
  PROVE  /\ (g \o y)[Len(g \o y)] = y[Len(y)]
         /\ g \o ChangeEnd(y, w) = ChangeEnd(g \o y, w)
<1> DEFINE n == Len(y)
           m == Len(g)
           v == [y EXCEPT ![n] = w]
           x == g \o y
           u == [x EXCEPT ![Len(x)] = w]
           z == g \o v
<1>1. n \in Nat \ {0} /\ m \in Nat /\ n \in 1 .. n
  OBVIOUS
<1>2. /\ x \in Seq(W) /\ Len(x) = m + n
      /\ \A i \in 1 .. m + n : x[i] = IF i <= m THEN g[i] ELSE y[i - m]
  BY ConcatProperties
<1>3. v \in Seq(W) /\ Len(v) = n /\ \A i \in 1 .. n : v[i] = IF i = n THEN w ELSE y[i]
  BY <1>1, ExceptSeq
<1>4. Len(x) \in 1 .. Len(x) /\ Len(x) = m + n
  <2> HIDE DEF x, n, m
  <2> QED BY <1>1, <1>2
<1>5. /\ u \in Seq(W) /\ Len(u) = m + n
      /\ \A i \in 1 .. m + n : u[i] = IF i = m + n THEN w ELSE x[i]
  <2> HIDE DEF x, n, m
  <2> QED BY <1>2, <1>4, ExceptSeq
<1>6. /\ z \in Seq(W) /\ Len(z) = m + n
      /\ \A i \in 1 .. m + n : z[i] = IF i <= m THEN g[i] ELSE v[i - m]
  <2> HIDE DEF v, n
  <2> QED BY <1>3, ConcatProperties
<1> HIDE DEF u, v, x, z, n, m
<1>7. ASSUME NEW i \in 1 .. m + n PROVE u[i] = z[i]
  <2>1. CASE i <= m
    BY <1>1, <1>2, <1>5, <1>6, <2>1
  <2>2. CASE ~ (i <= m)
    <3>1. i - m \in 1 .. n /\ (i - m = n <=> i = m + n)
      BY <1>1, <2>2
    <3>2. z[i] = v[i - m] /\ x[i] = y[i - m]
      BY <1>2, <1>6, <2>2
    <3>3. v[i - m] = IF i - m = n THEN w ELSE y[i - m]
      BY <1>3, <3>1
    <3> QED BY <1>5, <3>1, <3>2, <3>3
  <2> QED BY <2>1, <2>2
<1>8. u = z
  BY <1>5, <1>6, <1>7, SeqEqual
<1>9. x[m + n] = y[n]
  <2>1. m + n \in 1 .. m + n /\ ~ (m + n <= m) /\ (m + n) - m = n
    BY <1>1
  <2> QED BY <1>2, <2>1
<1> QED BY <1>2, <1>8, <1>9 DEF u, v, x, z, n, m, ChangeEnd

(* At the places i of s and j of t is the same character, and it begins a  *)
(* run in both or in neither.                                              *)
Begins(s, i, d) == i = 1 \/ s[i - 1] = d

Alike(C, s, i, t, j, d) ==
  /\ s \in Seq(C) /\ t \in Seq(C) /\ i \in 1 .. Len(s) /\ j \in 1 .. Len(t)
  /\ s[i] = t[j]
  /\ Begins(s, i, d) <=> Begins(t, j, d)

(* A run of c alone, and one that c is added to, are among W.              *)
Takes(W, c) == <<c>> \in W /\ \A w \in W : Append(w, c) \in W

(* It adds the same to the runs before it.                                 *)
LEMMA ExtendLater ==
  ASSUME NEW W, NEW g \in Seq(W), NEW y \in Seq(W),
         NEW C, NEW s, NEW i, NEW t, NEW j, NEW d, Alike(C, s, i, t, j, d),
         Takes(W, s[i]),
         y # <<>> \/ s[i] = d \/ Begins(s, i, d)
  PROVE  g \o Extend(y, t, j, d) = Extend(g \o y, s, i, d)
<1> DEFINE x == g \o y
<1>0. PICK c \in {s[i]} : c = s[i] /\ c = t[j] /\ <<c>> \in W /\ \A w \in W : Append(w, c) \in W
  BY DEF Alike, Takes
<1>1. CASE c = d
  BY <1>0, <1>1 DEF Extend
<1>2. CASE c # d /\ Begins(s, i, d)
  <2>1. Extend(x, s, i, d) = Append(x, <<c>>) /\ Extend(y, t, j, d) = Append(y, <<c>>)
    <3> HIDE DEF x
    <3> QED BY <1>0, <1>2 DEF Extend, Begins, Alike
  <2>2. \A e \in W : g \o Append(y, e) = Append(x, e)
    BY AppendLater
  <2>3. g \o Append(y, <<c>>) = Append(x, <<c>>)
    <3> HIDE DEF x
    <3> QED BY <1>0, <2>2, Zenon
  <2> HIDE DEF x
  <2> QED BY <2>1, <2>3, Zenon DEF x
<1>3. CASE c # d /\ ~ Begins(s, i, d)
  <2>0. y # <<>>
    BY <1>0, <1>3
  <2>1. /\ Extend(x, s, i, d) = ChangeEnd(x, Append(x[Len(x)], c))
        /\ Extend(y, t, j, d) = ChangeEnd(y, Append(y[Len(y)], c))
    <3> HIDE DEF x
    <3> QED BY <1>0, <1>3 DEF Extend, ChangeEnd, Begins, Alike
  <2>2. y[Len(y)] \in W
    <3>1. Len(y) \in 1 .. Len(y)
      BY <2>0
    <3> QED BY <3>1
  <2>3. Append(y[Len(y)], c) \in W
    <3> DEFINE z == y[Len(y)]
    <3> HIDE DEF z
    <3>1. z \in W
      BY <2>2 DEF z
    <3>2. Append(z, c) \in W
      BY <1>0, <3>1, Zenon
    <3> QED BY <3>2 DEF z
  <2>4. \A e \in W : x[Len(x)] = y[Len(y)] /\ g \o ChangeEnd(y, e) = ChangeEnd(x, e)
    BY <2>0, ChangeLater
  <2> HIDE DEF x
  <2>5. /\ x[Len(x)] = y[Len(y)]
        /\ g \o ChangeEnd(y, Append(y[Len(y)], c)) = ChangeEnd(x, Append(y[Len(y)], c))
    BY <2>3, <2>4, Zenon
  <2> QED BY <2>1, <2>5, Zenon DEF x
<1> QED BY <1>1, <1>2, <1>3

(* The runs of s up to i are those of t up to j, after those of g.         *)
After(g, s, i, t, j, d) == g \o Runs(t, d)[j] = Runs(s, d)[i]

LEMMA SameExtension ==
  ASSUME NEW C, NEW s, NEW i, NEW t, NEW j, NEW d, Alike(C, s, i, t, j, d),
         NEW g \in Lists(C), After(g, s, i - 1, t, j - 1, d)
  PROVE  After(g, s, i, t, j, d)
<1> DEFINE W == Seq(C) \ {<<>>}
           x == Runs(s, d)[i - 1]
           y == Runs(t, d)[j - 1]
<1>0. /\ s \in Seq(C) /\ t \in Seq(C) /\ i \in 1 .. Len(s) /\ j \in 1 .. Len(t)
      /\ s[i] = t[j] /\ (Begins(s, i, d) <=> Begins(t, j, d))
  BY DEF Alike
<1>1. Runs(s, d)[i] = Extend(x, s, i, d) /\ Runs(t, d)[j] = Extend(y, t, j, d)
  BY <1>0, RunsAre
<1>2. y \in Seq(W) /\ g \in Seq(W)
  <2>1. j - 1 \in 0 .. Len(t)
    BY <1>0
  <2>2. y \in Lists(C)
    BY <1>0, <2>1, RunsAre
  <2> QED BY <2>2 DEF Lists
<1>3. Takes(W, s[i])
  <2>1. s[i] \in C
    BY <1>0
  <2>2. \A c \in C : Takes(W, c)
    <3> SUFFICES ASSUME NEW c \in C PROVE <<c>> \in W /\ \A w \in W : Append(w, c) \in W
      BY DEF Takes
    <3>1. ASSUME NEW w \in Seq(C) PROVE Append(w, c) \in Seq(C) /\ Append(w, c) # <<>>
      BY AppendProperties
    <3>2. <<c>> \in Seq(C) /\ <<c>> # <<>>
      OBVIOUS
    <3> QED BY <3>1, <3>2, Zenon
  <2> HIDE DEF W
  <2> QED BY <2>1, <2>2, Zenon
<1>4. y # <<>> \/ s[i] = d \/ Begins(s, i, d)
  <2> SUFFICES ASSUME ~ Begins(s, i, d) PROVE y # <<>>
    OBVIOUS
  <2>1. j - 1 \in 1 .. Len(t) /\ t[j - 1] # d
    BY <1>0 DEF Begins
  <2> QED BY <1>0, <2>1, RunAfterCharacter
<1> HIDE DEF W, y
<1>5. g \o Extend(y, t, j, d) = Extend(g \o y, s, i, d)
  <2>1. ASSUME NEW p \in Seq(W), NEW q \in Seq(W), q # <<>> \/ s[i] = d \/ Begins(s, i, d)
        PROVE  p \o Extend(q, t, j, d) = Extend(p \o q, s, i, d)
    BY <1>3, <2>1, ExtendLater
  <2> QED BY <1>2, <1>4, <2>1, Zenon
<1>6. g \o y = x
  BY DEF y, After
<1> QED BY <1>1, <1>5, <1>6, Zenon DEF After

(* Two strings that go on in the same way, each from its beginning or from *)
(* a d, add the same fields to those before.                               *)
SameRest(C, s, a, t, b, d) ==
  /\ s \in Seq(C) /\ t \in Seq(C) /\ a \in 0 .. Len(s) /\ b \in 0 .. Len(t)
  /\ Len(s) - a = Len(t) - b
  /\ \A k \in 1 .. Len(s) - a : s[a + k] = t[b + k]
  /\ a = 0 \/ s[a] = d
  /\ b = 0 \/ t[b] = d

LEMMA SameNext ==
  ASSUME NEW C, NEW s, NEW a, NEW t, NEW b, NEW d, SameRest(C, s, a, t, b, d),
         NEW k \in 1 .. Len(s) - a
  PROVE  Alike(C, s, a + k, t, b + k, d)
<1>0. /\ s \in Seq(C) /\ t \in Seq(C) /\ a \in 0 .. Len(s) /\ b \in 0 .. Len(t)
      /\ (a = 0 \/ s[a] = d) /\ (b = 0 \/ t[b] = d)
  BY DEF SameRest
<1>1. Len(s) \in Nat /\ Len(t) \in Nat /\ Len(s) - a = Len(t) - b /\ a \in Nat /\ b \in Nat
  BY <1>0 DEF SameRest
<1>2. a + k \in 1 .. Len(s) /\ b + k \in 1 .. Len(t)
  BY <1>1
<1>3. s[a + k] = t[b + k]
  BY DEF SameRest
<1>4. CASE k = 1
  <2>1. (a + k) - 1 = a /\ (b + k) - 1 = b /\ (a = 0 <=> a + k = 1) /\ (b = 0 <=> b + k = 1)
    BY <1>1, <1>4
  <2> QED BY <1>0, <1>2, <1>3, <2>1, Zenon DEF Begins, Alike
<1>5. CASE k # 1
  <2>1. /\ k - 1 \in 1 .. Len(s) - a
        /\ (a + k) - 1 = a + (k - 1) /\ (b + k) - 1 = b + (k - 1) /\ a + k # 1 /\ b + k # 1
    BY <1>1, <1>5
  <2>2. s[a + (k - 1)] = t[b + (k - 1)]
    BY <2>1 DEF SameRest
  <2> QED BY <1>0, <1>2, <1>3, <2>1, <2>2, Zenon DEF Begins, Alike
<1> QED BY <1>4, <1>5

LEMMA SameEnding ==
  ASSUME NEW C, NEW s, NEW a, NEW t, NEW b, NEW d, SameRest(C, s, a, t, b, d),
         NEW g \in Lists(C), After(g, s, a, t, b, d)
  PROVE  After(g, s, Len(s), t, Len(t), d)
<1> DEFINE Same(i, j) == After(g, s, i, t, j, d)
           m == Len(s) - a
           S == {k \in Nat : k <= m => Same(a + k, b + k)}
<1>0. /\ s \in Seq(C) /\ t \in Seq(C) /\ a \in 0 .. Len(s) /\ b \in 0 .. Len(t)
      /\ Len(s) \in Nat /\ Len(t) \in Nat /\ a \in Nat /\ b \in Nat
      /\ m \in Nat /\ a + m = Len(s) /\ b + m = Len(t)
  <2>1. /\ s \in Seq(C) /\ t \in Seq(C) /\ a \in 0 .. Len(s) /\ b \in 0 .. Len(t)
        /\ Len(s) - a = Len(t) - b
    BY DEF SameRest
  <2> QED BY <2>1
<1>1. 0 \in S
  <2>1. a + 0 = a /\ b + 0 = b /\ Same(a, b)
    BY <1>0
  <2> HIDE DEF Same, m
  <2> QED BY <2>1
<1>2. ASSUME NEW k \in Nat, k \in S, k + 1 <= m
      PROVE  Same(a + (k + 1), b + (k + 1))
  <2> DEFINE n == k + 1
             i == a + n
             j == b + n
  <2>1. n \in 1 .. m /\ i - 1 = a + k /\ j - 1 = b + k
    <3> HIDE DEF Same, S, m
    <3> QED BY <1>0, <1>2
  <2>2. Same(a + k, b + k)
    <3>1. k <= m
      <4> HIDE DEF Same, S, m
      <4> QED BY <1>0, <1>2
    <3> HIDE DEF Same
    <3> QED BY <1>2, <3>1
  <2>3. Alike(C, s, i, t, j, d)
    <3> HIDE DEF n
    <3> QED BY <2>1, SameNext, Zenon
  <2>4. After(g, s, i - 1, t, j - 1, d)
    BY <2>1, <2>2
  <2> HIDE DEF i, j
  <2>5. After(g, s, i, t, j, d)
    BY <2>3, <2>4, SameExtension, Zenon
  <2> QED BY <2>5 DEF i, j
<1>3. \A k \in Nat : k \in S => k + 1 \in S
  <2> HIDE DEF Same, m
  <2> QED BY <1>2
<1> HIDE DEF S, m
<1>4. m \in S
  BY <1>0, <1>1, <1>3, NumbersIn
<1>5. Same(a + m, b + m)
  <2> HIDE DEF Same
  <2> QED BY <1>0, <1>4 DEF S
<1>6. Same(Len(s), Len(t))
  BY <1>0, <1>5
<1> QED BY <1>6

LEMMA FieldsAre ==
  ASSUME NEW C, NEW s \in Seq(C), NEW d
  PROVE  Fields(s, d) \in Lists(C) /\ (s = <<>> => Fields(s, d) = <<>>)
<1>1. Len(s) \in 0 .. Len(s) /\ (s = <<>> => Len(s) = 0)
  OBVIOUS
<1> QED BY <1>1, RunsAre DEF Fields

LEMMA NothingBefore == ASSUME NEW C, NEW r \in Lists(C) PROVE <<>> \in Lists(C) /\ <<>> \o r = r
<1> DEFINE W == Seq(C) \ {<<>>}
<1>1. r \in Seq(W) /\ <<>> \in Seq(W)
  BY DEF Lists
<1> HIDE DEF W
<1>2. <<>> \o r = r
  BY <1>1, ConcatEmptySeq
<1> QED BY <1>1, <1>2 DEF W, Lists

(* A d adds no run.                                                        *)
LEMMA RunsAtDelimiter ==
  ASSUME NEW C, NEW s \in Seq(C), NEW d, NEW i \in 1 .. Len(s), s[i] = d
  PROVE  Runs(s, d)[i] = Runs(s, d)[i - 1]
<1>1. Runs(s, d)[i] = Extend(Runs(s, d)[i - 1], s, i, d)
  BY RunsAre
<1> QED BY <1>1 DEF Extend

(* The fields of a string are those of another that goes on in the same    *)
(* way after the same runs.                                                *)
LEMMA SameFields ==
  ASSUME NEW C, NEW s, NEW a, NEW t, NEW b, NEW d, SameRest(C, s, a, t, b, d),
         After(<<>>, s, a, t, b, d)
  PROVE  Fields(t, d) = Fields(s, d)
<1>1. s \in Seq(C) /\ t \in Seq(C)
  BY DEF SameRest
<1>2. Fields(t, d) \in Lists(C)
  BY <1>1, FieldsAre
<1>3. <<>> \in Lists(C) /\ <<>> \o Fields(t, d) = Fields(t, d)
  BY <1>2, NothingBefore
<1>4. After(<<>>, s, Len(s), t, Len(t), d)
  BY <1>3, SameEnding, Zenon
<1> QED BY <1>3, <1>4, Zenon DEF After, Fields

LEMMA SameRuns ==
  ASSUME NEW C, NEW s \in Seq(C), NEW a, NEW t \in Seq(C), NEW b \in 0 .. Len(t), NEW d,
         Runs(t, d)[b] = Runs(s, d)[a]
  PROVE  After(<<>>, s, a, t, b, d)
<1>1. Runs(t, d)[b] \in Lists(C)
  BY RunsAre
<1> QED BY <1>1, NothingBefore DEF After

(* To erase the second of two d's leaves the fields as they are.           *)
LEMMA EraseSecond ==
  ASSUME NEW C, NEW s \in Seq(C), NEW d, NEW i \in 2 .. Len(s), s[i - 1] = d, s[i] = d
  PROVE  /\ RemoveAt(s, i) \in Seq(C) /\ Len(RemoveAt(s, i)) = Len(s) - 1
         /\ \A k \in 1 .. i - 1 : RemoveAt(s, i)[k] = s[k]
         /\ Fields(RemoveAt(s, i), d) = Fields(s, d)
<1> DEFINE t == RemoveAt(s, i)
<1>1. /\ t \in Seq(C) /\ Len(t) = Len(s) - 1
      /\ \A k \in 1 .. i - 1 : t[k] = s[k]
      /\ \A k \in i .. Len(s) - 1 : t[k] = s[k + 1]
  BY DEF RemoveAt
<1> HIDE DEF t
<1>2. i - 1 \in 0 .. Len(t) /\ i - 1 \in 1 .. i - 1 /\ i \in 0 .. Len(s) /\ Len(s) \in Nat
  BY <1>1
<1>3. ASSUME NEW k \in 1 .. Len(s) - i PROVE s[i + k] = t[(i - 1) + k]
  <2>1. (i - 1) + k \in i .. Len(s) - 1 /\ ((i - 1) + k) + 1 = i + k
    BY <1>2
  <2> QED BY <1>1, <2>1
<1>4. Len(s) - i = Len(t) - (i - 1)
  BY <1>1, <1>2
<1>5. t[i - 1] = d
  BY <1>1, <1>2
<1>6. SameRest(C, s, i, t, i - 1, d)
  BY <1>1, <1>2, <1>3, <1>4, <1>5, Zenon DEF SameRest
<1>7. Runs(t, d)[i - 1] = Runs(s, d)[i - 1]
  BY <1>1, <1>2, SameBeginning
<1>8. Runs(s, d)[i] = Runs(s, d)[i - 1]
  BY RunsAtDelimiter
<1>9. Fields(t, d) = Fields(s, d)
  <2>1. After(<<>>, s, i, t, i - 1, d)
    BY <1>1, <1>2, <1>7, <1>8, SameRuns
  <2> QED BY <1>6, <2>1, SameFields
<1> QED BY <1>1, <1>9 DEF t

(* So does to erase one at the beginning, or one at the end.               *)
LEMMA EraseFirst ==
  ASSUME NEW C, NEW s \in Seq(C), NEW d, s # <<>>, s[1] = d
  PROVE  Fields(Tail(s), d) = Fields(s, d)
<1> DEFINE t == Tail(s)
<1>1. /\ t \in Seq(C) /\ Len(t) = Len(s) - 1 /\ Len(s) \in Nat \ {0}
      /\ \A k \in 1 .. Len(s) - 1 : t[k] = s[k + 1]
  OBVIOUS
<1> HIDE DEF t
<1>2. 0 \in 0 .. Len(t) /\ 1 \in 0 .. Len(s) /\ Len(s) - 1 = Len(t) - 0 /\ 1 \in 1 .. Len(s)
  BY <1>1
<1>3. \A k \in 1 .. Len(s) - 1 : s[1 + k] = t[0 + k]
  BY <1>1
<1>4. SameRest(C, s, 1, t, 0, d)
  BY <1>1, <1>2, <1>3, Zenon DEF SameRest
<1>5. Runs(s, d)[1] = Runs(s, d)[1 - 1] /\ 1 - 1 = 0
  BY <1>2, RunsAtDelimiter
<1>6. Runs(t, d)[0] = Runs(s, d)[1]
  BY <1>1, <1>5, RunsAre
<1>7. Fields(t, d) = Fields(s, d)
  <2>1. After(<<>>, s, 1, t, 0, d)
    BY <1>1, <1>2, <1>6, SameRuns
  <2> QED BY <1>4, <2>1, SameFields
<1> QED BY <1>7 DEF t

LEMMA EraseLast ==
  ASSUME NEW C, NEW s \in Seq(C), NEW d, s # <<>>, Last(s) = d
  PROVE  /\ Front(s) \in Seq(C) /\ Len(Front(s)) = Len(s) - 1 /\ Len(s) \in Nat \ {0}
         /\ \A k \in 1 .. Len(s) - 1 : Front(s)[k] = s[k]
         /\ Fields(Front(s), d) = Fields(s, d)
<1> DEFINE t == Front(s)
<1>1. /\ t \in Seq(C) /\ Len(t) = Len(s) - 1 /\ Len(s) \in Nat \ {0}
      /\ \A k \in 1 .. Len(s) - 1 : t[k] = s[k]
  <2>1. Len(s) \in Nat \ {0}
    OBVIOUS
  <2>2. SubSeq(s, 1, Len(s) - 1) \in Seq(C) /\ Len(SubSeq(s, 1, Len(s) - 1)) = Len(s) - 1
    <3>1. \A m \in 0 .. Len(s) : SubSeq(s, 1, m) \in Seq(C) /\ Len(SubSeq(s, 1, m)) = m
      OBVIOUS
    <3>2. Len(s) - 1 \in 0 .. Len(s)
      BY <2>1
    <3> QED BY <3>1, <3>2, Zenon
  <2>3. \A k \in 1 .. Len(s) - 1 : SubSeq(s, 1, Len(s) - 1)[k] = s[k]
    BY <2>1
  <2> QED BY <2>1, <2>2, <2>3 DEF Front
<1> HIDE DEF t
<1>2. Len(s) \in 1 .. Len(s) /\ s[Len(s)] = d
  BY <1>1 DEF Last
<1>3. Fields(s, d) = Runs(s, d)[Len(s) - 1]
  BY <1>2, RunsAtDelimiter DEF Fields
<1>4. Runs(t, d)[Len(t)] = Runs(s, d)[Len(t)]
  BY <1>1, SameBeginning
<1>5. Fields(t, d) = Fields(s, d)
  BY <1>1, <1>3, <1>4 DEF Fields
<1> QED BY <1>1, <1>5 DEF t

(* What is before the first d is the first field, and the rest has the     *)
(* others.                                                                 *)
LEMMA FirstField ==
  ASSUME NEW C, NEW s \in Seq(C), NEW d, NEW p \in 2 .. Len(s) + 1,
         \A k \in 1 .. p - 1 : s[k] # d, p = Len(s) + 1 \/ s[p] = d
  PROVE  <<SubSeq(s, 1, p - 1)>> \o Fields(SubSeq(s, p + 1, Len(s)), d) = Fields(s, d)
<1> DEFINE f == SubSeq(s, 1, p - 1)
           t == SubSeq(s, p + 1, Len(s))
<1>1. /\ f \in Seq(C) /\ f # <<>> /\ p - 1 \in 1 .. Len(s) /\ Len(s) \in Nat
      /\ t \in Seq(C)
  OBVIOUS
<1>2. Runs(s, d)[p - 1] = <<f>>
  BY <1>1, OneRun
<1>3. <<f>> \in Lists(C)
  BY <1>1 DEF Lists
<1>4. CASE p = Len(s) + 1
  <2>1. t = <<>>
    BY <1>4, SubSeqEmpty
  <2>2. Fields(t, d) = <<>>
    BY <1>1, <2>1, FieldsAre
  <2>3. Fields(s, d) = <<f>>
    <3>1. p - 1 = Len(s)
      BY <1>4
    <3> HIDE DEF f
    <3> QED BY <1>2, <3>1 DEF Fields
  <2>4. <<f>> \o <<>> = <<f>>
    <3> HIDE DEF f
    <3> QED OBVIOUS
  <2>5. <<f>> \o Fields(t, d) = <<f>>
    <3> HIDE DEF f, t
    <3> QED BY <2>2, <2>4, Zenon
  <2> QED BY <2>3, <2>5
<1>5. CASE p \in 1 .. Len(s) /\ s[p] = d
  <2>1. Len(t) = Len(s) - p /\ \A k \in 1 .. Len(s) - p : t[k] = s[p + k]
    BY <1>5
  <2> HIDE DEF t, f
  <2>2. /\ p \in 0 .. Len(s) /\ 0 \in 0 .. Len(t) /\ Len(s) - p = Len(t) - 0
        /\ \A k \in 1 .. Len(s) - p : s[p + k] = t[0 + k]
    BY <1>1, <1>5, <2>1
  <2>3. SameRest(C, s, p, t, 0, d)
    BY <1>1, <1>5, <2>2, Zenon DEF SameRest
  <2>4. Runs(s, d)[p] = <<f>> /\ Runs(t, d)[0] = <<>>
    BY <1>1, <1>2, <1>5, RunsAtDelimiter, RunsAre
  <2>5. <<f>> \o <<>> = <<f>>
    OBVIOUS
  <2>6. After(<<f>>, s, p, t, 0, d)
    BY <2>4, <2>5, Zenon DEF After
  <2>7. <<f>> \o Fields(t, d) = Fields(s, d)
    <3>1. After(<<f>>, s, Len(s), t, Len(t), d)
      BY <1>3, <2>3, <2>6, SameEnding, Zenon
    <3> QED BY <3>1 DEF After, Fields
  <2> QED BY <2>7 DEF t, f
<1> QED BY <1>1, <1>4, <1>5

-----------------------------------------------------------------------------
(* The first delimiter from a place on, if there is one.                   *)
LEMMA FindIs ==
  ASSUME NEW C, NEW s \in Seq(C), NEW from \in Nat \ {0}
  PROVE  \/ Find(s, from) = 0 /\ \A i \in from .. Len(s) : s[i] # Delim
         \/ /\ Find(s, from) \in from .. Len(s) /\ s[Find(s, from)] = Delim
            /\ \A i \in from .. Find(s, from) - 1 : s[i] # Delim
<1> DEFINE found == {i \in from .. Len(s) : s[i] = Delim}
<1>1. CASE found = {}
  BY <1>1 DEF Find
<1>2. CASE found # {}
  <2>1. found \in SUBSET Nat
    OBVIOUS
  <2> HIDE DEF found
  <2>2. \E x \in found : \A y \in found : x <= y
    BY <1>2, <2>1, HasSmallest
  <2>3. Min(found) \in found /\ \A y \in found : Min(found) <= y
    BY <2>2 DEF Min
  <2>4. Find(s, from) = Min(found)
    BY <1>2 DEF Find, found
  <2> DEFINE m == Min(found)
  <2> HIDE DEF m
  <2>5. m \in from .. Len(s) /\ s[m] = Delim /\ \A y \in found : m <= y
    BY <2>3 DEF found, m
  <2>6. \A i \in from .. m - 1 : s[i] # Delim
    <3> SUFFICES ASSUME NEW i \in from .. m - 1, s[i] = Delim PROVE FALSE
      OBVIOUS
    <3>1. i \in from .. Len(s) /\ i < m /\ m \in Nat /\ i \in Nat
      BY <2>5
    <3>2. i \in found
      BY <3>1 DEF found
    <3>3. m <= i
      BY <2>5, <3>2
    <3> QED BY <3>1, <3>3
  <2> QED BY <2>4, <2>5, <2>6 DEF m
<1> QED BY <1>1, <1>2

(* No delimiter up to n follows another.                                   *)
Single(s, n) == \A i \in 2 .. Len(s) : i <= n => ~ (s[i - 1] = Delim /\ s[i] = Delim)

Clean(s) == Single(s, Len(s)) /\ (s # <<>> => s[1] # Delim)

(* What the constructor has done at each place, and what is left of the    *)
(* string by nextToken.                                                    *)
TokenizerInv ==
  /\ input \in Seq(ToSet(input)) /\ str \in Seq(ToSet(input))
  /\ tokens \in Seq(Seq(ToSet(input))) /\ cur \in Nat \ {0}
  /\ place # "ready" => tokens = <<>> /\ Fields(str, Delim) = Fields(input, Delim)
  /\ place = "seek" => Single(str, cur)
  /\ place = "squeeze" =>
       cur \in 2 .. Len(str) + 1 /\ str[cur - 1] = Delim /\ Single(str, cur - 1)
  /\ place = "leading" => Single(str, Len(str))
  /\ place \in {"ending", "ready"} => Clean(str)
  /\ KeepsFields

(* As long as nothing has been returned, it is enough that the fields are  *)
(* the same.                                                               *)
LEMMA NoTokens ==
  ASSUME NEW C, NEW s \in Seq(C)
  PROVE  /\ 0 \in 0 .. Len(<<>>) /\ ~ (0 < Len(<<>>)) /\ \A i \in 0 + 1 .. Len(<<>>) : FALSE
         /\ SubSeq(<<>>, 1, 0) \o Fields(s, Delim) = Fields(s, Delim)
<1>1. Fields(s, Delim) \in Lists(C)
  BY FieldsAre
<1>2. <<>> \o Fields(s, Delim) = Fields(s, Delim)
  BY <1>1, NothingBefore
<1>3. /\ 0 \in 0 .. Len(<<>>) /\ ~ (0 < Len(<<>>)) /\ \A i \in 0 + 1 .. Len(<<>>) : FALSE
      /\ SubSeq(<<>>, 1, 0) = <<>>
  OBVIOUS
<1> QED BY <1>2, <1>3, Zenon

LEMMA KeptAtFirst ==
  ASSUME NEW C, str \in Seq(C), tokens = <<>>, Fields(str, Delim) = Fields(input, Delim)
  PROVE  KeepsFields
BY NoTokens DEF KeepsFields

LEMMA KeptLater ==
  ASSUME NEW C, str' \in Seq(C), tokens' = <<>>, Fields(str', Delim) = Fields(input', Delim)
  PROVE  KeepsFields'
BY NoTokens DEF KeepsFields

LEMMA ConstructKeeps ==
  ASSUME NEW s, s \in Seq(ToSet(s)), Construct(s)
  PROVE  TokenizerInv'
<1>1. /\ input' = s /\ str' = s /\ cur' = 1 /\ place' = "seek" /\ tokens' = <<>>
  BY DEF Construct
<1>2. KeepsFields'
  BY <1>1, KeptLater
<1>3. Single(str', cur')
  BY <1>1 DEF Single
<1>4. tokens' \in Seq(Seq(ToSet(input')))
  BY <1>1
<1> QED BY <1>1, <1>2, <1>3, <1>4 DEF TokenizerInv

LEMMA SeekKeeps == TokenizerInv /\ Seek => TokenizerInv'
<1> SUFFICES ASSUME TokenizerInv, Seek PROVE TokenizerInv'
  OBVIOUS
<1> DEFINE C == ToSet(input)
           p == Find(str, cur)
<1>1. /\ place = "seek" /\ input' = input /\ str' = str /\ tokens' = tokens
      /\ str \in Seq(C) /\ cur \in Nat \ {0} /\ Single(str, cur) /\ tokens = <<>>
  BY DEF TokenizerInv, Seek
<1>2. KeepsFields'
  BY <1>1 DEF TokenizerInv, KeepsFields
<1>3. CASE p = 0
  <2>1. place' = "leading" /\ cur' = cur
    BY <1>3 DEF Seek
  <2>2. \A i \in cur .. Len(str) : str[i] # Delim
    BY <1>1, <1>3, FindIs
  <2>3. Single(str, Len(str))
    <3> SUFFICES ASSUME NEW i \in 2 .. Len(str), str[i - 1] = Delim, str[i] = Delim PROVE FALSE
      BY DEF Single
    <3>1. CASE i <= cur
      BY <1>1, <3>1 DEF Single
    <3>2. CASE i > cur
      <4>1. i \in cur .. Len(str)
        BY <1>1, <3>2
      <4> QED BY <2>2, <4>1
    <3> QED BY <1>1, <3>1, <3>2
  <2> QED BY <1>1, <1>2, <2>1, <2>3 DEF TokenizerInv
<1>4. CASE p # 0
  <2>1. place' = "squeeze" /\ cur' = p + 1
    BY <1>4 DEF Seek
  <2>2. /\ p \in cur .. Len(str) /\ str[p] = Delim
        /\ \A i \in cur .. p - 1 : str[i] # Delim
    BY <1>1, <1>4, FindIs
  <2> HIDE DEF p
  <2>3. p + 1 \in 2 .. Len(str) + 1 /\ (p + 1) - 1 = p
    BY <1>1, <2>2
  <2>4. Single(str, p)
    <3> SUFFICES ASSUME NEW i \in 2 .. Len(str), i <= p, str[i - 1] = Delim, str[i] = Delim
                 PROVE FALSE
      BY DEF Single
    <3>1. CASE i <= cur
      BY <1>1, <3>1 DEF Single
    <3>2. CASE i > cur
      <4>1. i - 1 \in cur .. p - 1
        BY <1>1, <2>2, <3>2
      <4> QED BY <2>2, <4>1
    <3> QED BY <1>1, <3>1, <3>2
  <2> QED BY <1>1, <1>2, <2>1, <2>2, <2>3, <2>4 DEF TokenizerInv
<1> QED BY <1>3, <1>4

LEMMA SqueezeKeeps == TokenizerInv /\ Squeeze => TokenizerInv'
<1> SUFFICES ASSUME TokenizerInv, Squeeze PROVE TokenizerInv'
  OBVIOUS
<1> DEFINE C == ToSet(input)
<1>1. /\ place = "squeeze" /\ input' = input /\ cur' = cur /\ tokens' = tokens /\ tokens = <<>>
      /\ str \in Seq(C) /\ input \in Seq(C) /\ cur \in 2 .. Len(str) + 1
      /\ str[cur - 1] = Delim /\ Single(str, cur - 1)
      /\ Fields(str, Delim) = Fields(input, Delim)
  BY DEF TokenizerInv, Squeeze
<1>2. cur \in Nat \ {0}
  BY DEF TokenizerInv
<1>3. CASE Find(str, cur) = cur
  <2> DEFINE t == RemoveAt(str, cur)
  <2>1. cur \in 2 .. Len(str) /\ str[cur] = Delim
    <3>1. cur \in cur .. Len(str) /\ str[cur] = Delim
      BY <1>1, <1>2, <1>3, FindIs
    <3> QED BY <1>1, <3>1
  <2>2. /\ t \in Seq(C) /\ Len(t) = Len(str) - 1
        /\ \A k \in 1 .. cur - 1 : t[k] = str[k]
        /\ Fields(t, Delim) = Fields(str, Delim)
    BY <1>1, <2>1, EraseSecond
  <2>3. str' = t /\ place' = "squeeze"
    BY <1>1, <1>3 DEF Squeeze
  <2> HIDE DEF t
  <2>4. cur \in 2 .. Len(t) + 1 /\ t[cur - 1] = Delim
    <3>1. cur - 1 \in 1 .. cur - 1
      BY <2>1
    <3> QED BY <1>1, <2>1, <2>2, <3>1
  <2>5. Single(t, cur - 1)
    <3> SUFFICES ASSUME NEW i \in 2 .. Len(t), i <= cur - 1
                 PROVE  ~ (t[i - 1] = Delim /\ t[i] = Delim)
      BY DEF Single
    <3>1. i - 1 \in 1 .. cur - 1 /\ i \in 1 .. cur - 1 /\ i \in 2 .. Len(str)
      BY <1>2, <2>1, <2>2
    <3>2. t[i - 1] = str[i - 1] /\ t[i] = str[i]
      BY <2>2, <3>1
    <3> QED BY <1>1, <3>1, <3>2 DEF Single
  <2>6. Fields(str', Delim) = Fields(input, Delim)
    BY <1>1, <2>2, <2>3
  <2>7. KeepsFields'
    BY <1>1, <2>2, <2>3, <2>6, KeptLater
  <2> QED BY <1>1, <1>2, <2>2, <2>3, <2>4, <2>5, <2>6, <2>7 DEF TokenizerInv
<1>4. CASE Find(str, cur) # cur
  <2>1. str' = str /\ place' = "seek"
    BY <1>1, <1>4 DEF Squeeze
  <2>2. Single(str, cur)
    <3> SUFFICES ASSUME NEW i \in 2 .. Len(str), i <= cur, str[i - 1] = Delim, str[i] = Delim
                 PROVE FALSE
      BY DEF Single
    <3>1. CASE i <= cur - 1
      BY <1>1, <3>1 DEF Single
    <3>2. CASE i = cur
      <4>1. \/ Find(str, cur) = 0 /\ \A k \in cur .. Len(str) : str[k] # Delim
            \/ /\ Find(str, cur) \in cur .. Len(str)
               /\ \A k \in cur .. Find(str, cur) - 1 : str[k] # Delim
        BY <1>1, <1>2, FindIs
      <4>2. cur \in cur .. Len(str)
        BY <1>1, <3>2
      <4>3. Find(str, cur) \in cur .. Len(str) => cur \in cur .. Find(str, cur) - 1
        BY <1>2, <1>4
      <4> QED BY <3>2, <4>1, <4>2, <4>3
    <3> QED BY <1>2, <3>1, <3>2
  <2>3. KeepsFields'
    BY <1>1, <2>1 DEF TokenizerInv, KeepsFields
  <2> QED BY <1>1, <1>2, <2>1, <2>2, <2>3 DEF TokenizerInv
<1> QED BY <1>3, <1>4

LEMMA LeadingKeeps == TokenizerInv /\ TrimLeading => TokenizerInv'
<1> SUFFICES ASSUME TokenizerInv, TrimLeading PROVE TokenizerInv'
  OBVIOUS
<1> DEFINE C == ToSet(input)
<1>1. /\ place = "leading" /\ place' = "ending" /\ input' = input /\ cur' = cur
      /\ tokens' = tokens /\ tokens = <<>>
      /\ str \in Seq(C) /\ input \in Seq(C) /\ cur \in Nat \ {0}
      /\ Single(str, Len(str)) /\ Fields(str, Delim) = Fields(input, Delim)
  BY DEF TokenizerInv, TrimLeading
<1>2. CASE Find(str, 1) = 1
  <2> DEFINE t == Tail(str)
  <2>1. 1 \in 1 .. Len(str) /\ str[1] = Delim
    BY <1>1, <1>2, FindIs
  <2>2. str # <<>>
    BY <1>1, <2>1
  <2>3. /\ t \in Seq(C) /\ Len(t) = Len(str) - 1 /\ Len(str) \in Nat \ {0}
        /\ \A k \in 1 .. Len(t) : t[k] = str[k + 1]
    BY <1>1, <2>2
  <2>4. str' = t
    BY <1>2 DEF TrimLeading
  <2>5. Fields(t, Delim) = Fields(str, Delim)
    BY <1>1, <2>1, <2>2, EraseFirst
  <2> HIDE DEF t
  <2>6. Single(t, Len(t))
    <3> SUFFICES ASSUME NEW i \in 2 .. Len(t) PROVE ~ (t[i - 1] = Delim /\ t[i] = Delim)
      BY DEF Single
    <3>1. /\ i + 1 \in 2 .. Len(str) /\ i + 1 <= Len(str) /\ (i + 1) - 1 = i
          /\ i \in 1 .. Len(t) /\ i - 1 \in 1 .. Len(t) /\ (i - 1) + 1 = i
      BY <2>3
    <3>2. t[i - 1] = str[(i + 1) - 1] /\ t[i] = str[i + 1]
      BY <2>3, <3>1
    <3> QED BY <1>1, <3>1, <3>2 DEF Single
  <2>7. t # <<>> => t[1] # Delim
    <3> SUFFICES ASSUME t # <<>> PROVE t[1] # Delim
      OBVIOUS
    <3>1. 1 \in 1 .. Len(t) /\ 2 \in 2 .. Len(str) /\ 2 <= Len(str)
      BY <2>3
    <3>2. t[1] = str[2] /\ str[2 - 1] = Delim
      BY <2>1, <2>3, <3>1
    <3> QED BY <1>1, <3>1, <3>2 DEF Single
  <2>8. KeepsFields'
    <3>1. Fields(str', Delim) = Fields(input', Delim)
      BY <1>1, <2>4, <2>5
    <3> QED BY <1>1, <2>3, <2>4, <3>1, KeptLater
  <2> QED BY <1>1, <2>3, <2>4, <2>5, <2>6, <2>7, <2>8 DEF TokenizerInv, Clean
<1>3. CASE Find(str, 1) # 1
  <2>1. str' = str
    BY <1>3 DEF TrimLeading
  <2>2. str # <<>> => str[1] # Delim
    <3> SUFFICES ASSUME str # <<>>, str[1] = Delim PROVE FALSE
      OBVIOUS
    <3>1. 1 \in 1 .. Len(str)
      BY <1>1
    <3>2. \/ Find(str, 1) = 0 /\ \A k \in 1 .. Len(str) : str[k] # Delim
          \/ Find(str, 1) \in 1 .. Len(str) /\ \A k \in 1 .. Find(str, 1) - 1 : str[k] # Delim
      BY <1>1, FindIs
    <3>3. Find(str, 1) \in 1 .. Len(str) => 1 \in 1 .. Find(str, 1) - 1
      BY <1>3
    <3> QED BY <3>1, <3>2, <3>3
  <2>3. KeepsFields'
    BY <1>1, <2>1 DEF TokenizerInv, KeepsFields
  <2> QED BY <1>1, <2>1, <2>2, <2>3 DEF TokenizerInv, Clean
<1> QED BY <1>2, <1>3

LEMMA EndingKeeps == TokenizerInv /\ TrimEnding => TokenizerInv'
<1> SUFFICES ASSUME TokenizerInv, TrimEnding PROVE TokenizerInv'
  OBVIOUS
<1> DEFINE C == ToSet(input)
<1>1. /\ place = "ending" /\ place' = "ready" /\ input' = input /\ cur' = cur
      /\ tokens' = tokens /\ tokens = <<>>
      /\ str \in Seq(C) /\ input \in Seq(C) /\ cur \in Nat \ {0}
      /\ Clean(str) /\ Fields(str, Delim) = Fields(input, Delim)
  BY DEF TokenizerInv, TrimEnding
<1>2. CASE str # <<>> /\ Last(str) = Delim
  <2> DEFINE t == Front(str)
  <2>1. /\ t \in Seq(C) /\ Len(t) = Len(str) - 1 /\ Len(str) \in Nat \ {0}
        /\ \A k \in 1 .. Len(str) - 1 : t[k] = str[k]
        /\ Fields(t, Delim) = Fields(str, Delim)
    BY <1>1, <1>2, EraseLast
  <2>2. str' = t
    BY <1>2 DEF TrimEnding
  <2> HIDE DEF t
  <2>3. Single(t, Len(t))
    <3> SUFFICES ASSUME NEW i \in 2 .. Len(t) PROVE ~ (t[i - 1] = Delim /\ t[i] = Delim)
      BY DEF Single
    <3>1. /\ i \in 2 .. Len(str) /\ i <= Len(str)
          /\ i \in 1 .. Len(str) - 1 /\ i - 1 \in 1 .. Len(str) - 1
      BY <2>1
    <3>2. t[i - 1] = str[i - 1] /\ t[i] = str[i]
      BY <2>1, <3>1
    <3> QED BY <1>1, <3>1, <3>2 DEF Single, Clean
  <2>4. t # <<>> => t[1] # Delim
    <3> SUFFICES ASSUME t # <<>> PROVE t[1] # Delim
      OBVIOUS
    <3>1. 1 \in 1 .. Len(str) - 1
      BY <2>1
    <3> QED BY <1>1, <1>2, <2>1, <3>1 DEF Clean
  <2>5. KeepsFields'
    <3>1. Fields(str', Delim) = Fields(input', Delim)
      BY <1>1, <2>1, <2>2
    <3> QED BY <1>1, <2>1, <2>2, <3>1, KeptLater
  <2> QED BY <1>1, <2>1, <2>2, <2>3, <2>4, <2>5 DEF TokenizerInv, Clean
<1>3. CASE ~ (str # <<>> /\ Last(str) = Delim)
  <2>1. str' = str
    BY <1>3 DEF TrimEnding
  <2>2. KeepsFields'
    BY <1>1, <2>1 DEF TokenizerInv, KeepsFields
  <2> QED BY <1>1, <2>1, <2>2 DEF TokenizerInv
<1> QED BY <1>2, <1>3

(* To go on from a beginning of the tokens with one more that is empty, or *)
(* with the next field.                                                    *)
LEMMA OneMore ==
  ASSUME NEW W, NEW ts \in Seq(W), NEW n \in 0 .. Len(ts), NEW w \in W
  PROVE  /\ SubSeq(Append(ts, w), 1, n) = SubSeq(ts, 1, n)
         /\ SubSeq(ts, 1, n) \in Seq(W)
         /\ n = Len(ts) => SubSeq(ts, 1, n) = ts /\ SubSeq(Append(ts, w), 1, n + 1) = ts \o <<w>>
<1> DEFINE u == Append(ts, w)
<1>1. /\ u \in Seq(W) /\ Len(u) = Len(ts) + 1
      /\ \A i \in 1 .. Len(ts) : u[i] = ts[i]
      /\ u = ts \o <<w>>
  BY AppendProperties, AppendIsConcat
<1> HIDE DEF u
<1>2. \A i \in 1 .. n : ts[i] \in W /\ u[i] \in W /\ u[i] = ts[i]
  BY <1>1
<1>3. /\ SubSeq(u, 1, n) \in Seq(W) /\ SubSeq(ts, 1, n) \in Seq(W)
      /\ Len(SubSeq(u, 1, n)) = n /\ Len(SubSeq(ts, 1, n)) = n
      /\ \A i \in 1 .. n : SubSeq(u, 1, n)[i] = u[i] /\ SubSeq(ts, 1, n)[i] = ts[i]
  BY <1>1
<1>4. SubSeq(u, 1, n) = SubSeq(ts, 1, n)
  <2> DEFINE a == SubSeq(u, 1, n)
             b == SubSeq(ts, 1, n)
  <2>1. /\ a \in Seq(W) /\ b \in Seq(W) /\ Len(a) = n /\ Len(b) = n
        /\ \A i \in 1 .. n : a[i] = b[i]
    BY <1>2, <1>3
  <2> HIDE DEF a, b
  <2>2. a = b
    BY <2>1, SeqEqual
  <2> QED BY <2>2 DEF a, b
<1>5. n = Len(ts) => SubSeq(ts, 1, n) = ts /\ SubSeq(u, 1, n + 1) = u
  BY <1>1, SubSeqFull
<1> QED BY <1>1, <1>3, <1>4, <1>5 DEF u

LEMMA NextKeeps == TokenizerInv /\ NextToken => TokenizerInv'
<1> SUFFICES ASSUME TokenizerInv, NextToken PROVE TokenizerInv'
  OBVIOUS
<1> DEFINE C == ToSet(input)
           W == Seq(C)
           end == IF Find(str, 1) = 0 THEN Len(str) + 1 ELSE Find(str, 1)
           w == SubSeq(str, 1, end - 1)
           t == SubSeq(str, end + 1, Len(str))
           F(s) == Fields(s, Delim)
<1>1. /\ place = "ready" /\ place' = place /\ input' = input /\ cur' = cur
      /\ str \in Seq(C) /\ input \in Seq(C) /\ cur \in Nat \ {0} /\ tokens \in Seq(W)
      /\ Clean(str)
  BY DEF TokenizerInv, NextToken
<1>2. PICK n \in 0 .. Len(tokens) :
        /\ SubSeq(tokens, 1, n) \o F(str) = F(input)
        /\ n < Len(tokens) => str = <<>>
        /\ \A i \in n + 1 .. Len(tokens) : tokens[i] = <<>>
  BY DEF TokenizerInv, KeepsFields
<1>3. tokens' = Append(tokens, w) /\ str' = t
  BY DEF NextToken
<1>4. /\ end \in 1 .. Len(str) + 1 /\ Len(str) \in Nat
      /\ end = Len(str) + 1 \/ str[end] = Delim
      /\ \A k \in 1 .. end - 1 : str[k] # Delim
  <2>1. Len(str) \in Nat
    BY <1>1
  <2>2. \/ Find(str, 1) = 0 /\ \A k \in 1 .. Len(str) : str[k] # Delim
        \/ /\ Find(str, 1) \in 1 .. Len(str) /\ str[Find(str, 1)] = Delim
           /\ \A k \in 1 .. Find(str, 1) - 1 : str[k] # Delim
    BY <1>1, FindIs
  <2>3. CASE Find(str, 1) = 0
    <3>1. end = Len(str) + 1 /\ end - 1 = Len(str)
      BY <2>1, <2>3
    <3> HIDE DEF end
    <3> QED BY <2>1, <2>2, <2>3, <3>1
  <2>4. CASE Find(str, 1) # 0
    <3>1. end = Find(str, 1)
      BY <2>4
    <3> HIDE DEF end
    <3> QED BY <2>1, <2>2, <2>4, <3>1
  <2> QED BY <2>3, <2>4
<1> HIDE DEF end
<1>5. w \in W /\ t \in W
  BY <1>1, <1>4
<1>6. tokens' \in Seq(W) /\ Len(tokens') = Len(tokens) + 1 /\ Len(tokens) \in Nat
  BY <1>1, <1>3, <1>5, AppendProperties
<1>7. Clean(t)
  <2>1. CASE end = Len(str) + 1
    <3>1. t = <<>>
      BY <1>4, <2>1, SubSeqEmpty
    <3>2. Clean(<<>>)
      <4>1. Len(<<>>) = 0 /\ \A i \in 2 .. 0 : FALSE
        OBVIOUS
      <4> QED BY <4>1, Zenon DEF Clean, Single
    <3> HIDE DEF t
    <3> QED BY <3>1, <3>2, Zenon
  <2>2. CASE end \in 1 .. Len(str) /\ str[end] = Delim
    <3>1. Len(t) = Len(str) - end /\ \A k \in 1 .. Len(t) : t[k] = str[end + k]
      BY <1>1, <2>2
    <3> HIDE DEF t
    <3>2. ASSUME NEW i \in 2 .. Len(t) PROVE ~ (t[i - 1] = Delim /\ t[i] = Delim)
      <4>1. /\ i \in 1 .. Len(t) /\ i - 1 \in 1 .. Len(t) /\ end + (i - 1) = (end + i) - 1
            /\ end + i \in 2 .. Len(str) /\ end + i <= Len(str)
        BY <1>4, <2>2, <3>1
      <4>2. t[i - 1] = str[(end + i) - 1] /\ t[i] = str[end + i]
        BY <3>1, <4>1
      <4> QED BY <1>1, <4>1, <4>2 DEF Clean, Single
    <3>3. t # <<>> => t[1] # Delim
      <4> SUFFICES ASSUME t # <<>> PROVE t[1] # Delim
        OBVIOUS
      <4>1. 1 \in 1 .. Len(t)
        BY <1>5
      <4>2. end + 1 \in 2 .. Len(str) /\ end + 1 <= Len(str) /\ (end + 1) - 1 = end
        BY <1>4, <2>2, <3>1, <4>1
      <4>3. t[1] = str[end + 1]
        BY <3>1, <4>1
      <4> QED BY <1>1, <2>2, <4>2, <4>3 DEF Clean, Single
    <3> QED BY <3>2, <3>3 DEF Clean, Single
  <2> QED BY <1>4, <2>1, <2>2
<1> HIDE DEF w, t, W
<1>8. CASE str = <<>>
  <2>1. end = 1 /\ w = <<>> /\ t = <<>>
    <3>1. end = 1
      BY <1>4, <1>8
    <3>2. SubSeq(str, 1, 1 - 1) = <<>> /\ SubSeq(str, 1 + 1, Len(str)) = <<>>
      BY <1>8, SubSeqEmpty
    <3> QED BY <3>1, <3>2 DEF w, t
  <2>2. SubSeq(tokens', 1, n) = SubSeq(tokens, 1, n)
    BY <1>1, <1>3, <1>5, OneMore
  <2>3. SubSeq(tokens', 1, n) \o F(str') = F(input')
    BY <1>1, <1>2, <1>3, <1>8, <2>1, <2>2
  <2>4. n \in 0 .. Len(tokens')
    BY <1>6
  <2>5. \A i \in n + 1 .. Len(tokens') : tokens'[i] = <<>>
    <3> SUFFICES ASSUME NEW i \in n + 1 .. Len(tokens') PROVE tokens'[i] = <<>>
      OBVIOUS
    <3>1. CASE i = Len(tokens) + 1
      BY <1>1, <1>3, <1>5, <2>1, <3>1, AppendProperties
    <3>2. CASE i # Len(tokens) + 1
      <4>1. i \in n + 1 .. Len(tokens) /\ i \in 1 .. Len(tokens)
        BY <1>6, <3>2
      <4>2. tokens'[i] = tokens[i]
        BY <1>1, <1>3, <1>5, <4>1, AppendProperties
      <4> QED BY <1>2, <4>1, <4>2
    <3> QED BY <3>1, <3>2
  <2>6. KeepsFields'
    BY <1>3, <2>1, <2>3, <2>4, <2>5 DEF KeepsFields
  <2> QED BY <1>1, <1>3, <1>5, <1>6, <1>7, <2>6 DEF TokenizerInv, W
<1>9. CASE str # <<>>
  <2>1. n = Len(tokens)
    BY <1>2, <1>6, <1>9
  <2>2. end \in 2 .. Len(str) + 1
    <3>1. 1 \in 1 .. Len(str) /\ str[1] # Delim
      BY <1>1, <1>9 DEF Clean
    <3> QED BY <1>4, <3>1
  <2>3. <<w>> \o F(t) = F(str)
    BY <1>1, <1>4, <2>2, FirstField DEF w, t
  <2>4. SubSeq(tokens, 1, n) = tokens /\ SubSeq(tokens', 1, n + 1) = tokens \o <<w>>
    BY <1>1, <1>3, <1>5, <2>1, OneMore
  <2>5. (tokens \o <<w>>) \o F(t) = tokens \o (<<w>> \o F(t))
    <3>1. F(t) \in Lists(C)
      BY <1>5, FieldsAre DEF W
    <3>2. F(t) \in Seq(W)
      <4>1. F(t) \in Seq(Seq(C) \ {<<>>})
        BY <3>1 DEF Lists
      <4> QED BY <4>1, SeqMonotonic DEF W
    <3>3. <<w>> \in Seq(W)
      BY <1>5
    <3> QED BY <1>1, <3>2, <3>3, ConcatAssociative
  <2>6. SubSeq(tokens', 1, n + 1) \o F(str') = F(input')
    BY <1>1, <1>2, <1>3, <2>3, <2>4, <2>5
  <2>7. n + 1 \in 0 .. Len(tokens') /\ ~ (n + 1 < Len(tokens'))
        /\ \A i \in (n + 1) + 1 .. Len(tokens') : FALSE
    BY <1>6, <2>1
  <2>8. KeepsFields'
    BY <2>6, <2>7 DEF KeepsFields
  <2> QED BY <1>1, <1>3, <1>5, <1>6, <1>7, <2>8 DEF TokenizerInv, W
<1> QED BY <1>8, <1>9

LEMMA TokenizeKeeps == TokenizerInv /\ Tokenize => TokenizerInv'
BY SeekKeeps, SqueezeKeeps, LeadingKeeps, EndingKeeps, NextKeeps DEF Tokenize

LEMMA TokenizerStays == TokenizerInv /\ UNCHANGED tokenizer => TokenizerInv'
BY DEF TokenizerInv, KeepsFields, tokenizer

-----------------------------------------------------------------------------
(* atoi gives a number.                                                    *)
LEMMA AtoiType ==
  ASSUME NEW C, NEW w \in Seq(C)
  PROVE  Atoi(w) \in Nat
<1> DEFINE D == {k \in 0 .. Len(w) : \A i \in 1 .. k : w[i] \in DOMAIN Digit}
           n == Max(D)
           step == [i \in 1 .. n |-> [v \in Nat |-> 10 * v + Digit[w[i]]]]
           Def(f) == [k \in 0 .. n |-> IF k = 0 THEN 0 ELSE 10 * f[k - 1] + Digit[w[k]]]
           value == CHOOSE f : f = Def(f)
<1>1. n \in 0 .. Len(w) /\ n \in Nat /\ \A i \in 1 .. n : w[i] \in DOMAIN Digit
  <2>1. D \in SUBSET (0 .. Len(w)) /\ 0 \in D /\ Len(w) \in Nat
    OBVIOUS
  <2>2. \E x \in D : \A y \in D : y <= x
    <3> HIDE DEF D
    <3> QED BY <2>1, HasLargest
  <2>3. \E x \in D : \A y \in D : x >= y
    <3> HIDE DEF D
    <3> QED BY <2>1, <2>2
  <2>4. n \in D
    <3> HIDE DEF D
    <3> QED BY <2>3, Zenon DEF Max
  <2> HIDE DEF n
  <2> QED BY <2>4
<1> HIDE DEF n, D
<1>2. \A i \in 1 .. n : Digit[w[i]] \in 0 .. 9
  BY <1>1, DigitAssumption
<1>3. step \in [1 .. n -> [Nat -> Nat]]
  BY <1>2
<1>4. PICK f \in [0 .. n -> Nat] : f[0] = 0 /\ \A i \in 1 .. n : f[i] = step[i][f[i - 1]]
  <2>1. \E f \in [0 .. n -> Nat] : Follows(f, 0, n, step)
    <3> HIDE DEF step
    <3> QED BY <1>1, <1>3, Recursion
  <2> QED BY <2>1 DEF Follows
<1>5. \A i \in 1 .. n : f[i] = 10 * f[i - 1] + Digit[w[i]]
  <2> SUFFICES ASSUME NEW i \in 1 .. n PROVE f[i] = 10 * f[i - 1] + Digit[w[i]]
    OBVIOUS
  <2>1. f[i - 1] \in Nat
    <3>1. i - 1 \in 0 .. n
      BY <1>1
    <3> QED BY <1>4, <3>1
  <2> QED BY <1>4, <2>1
<1>6. f = Def(f)
  BY <1>4, <1>5
<1>7. value = Def(value)
  <2> HIDE DEF Def
  <2> QED BY <1>6, Zenon
<1> HIDE DEF value
<1>8. /\ value[0] = 0
      /\ \A i \in 1 .. n : value[i] = 10 * value[i - 1] + Digit[w[i]]
  BY <1>1, <1>7
<1> DEFINE S == {k \in Nat : k <= n => value[k] \in Nat}
<1>9. 0 \in S
  BY <1>8
<1>10. ASSUME NEW k \in Nat, k \in S PROVE k + 1 \in S
  <2> SUFFICES ASSUME k + 1 <= n PROVE value[k + 1] \in Nat
    OBVIOUS
  <2>1. k + 1 \in 1 .. n /\ (k + 1) - 1 = k /\ value[k] \in Nat
    BY <1>1, <1>10
  <2>2. value[k + 1] = 10 * value[k] + Digit[w[k + 1]]
    BY <1>8, <2>1
  <2>3. Digit[w[k + 1]] \in 0 .. 9
    BY <1>2, <2>1
  <2>4. \A v \in Nat, x \in 0 .. 9 : 10 * v + x \in Nat
    OBVIOUS
  <2>5. 10 * value[k] + Digit[w[k + 1]] \in Nat
    BY <2>1, <2>3, <2>4, Zenon
  <2> QED BY <2>2, <2>5, Zenon
<1> HIDE DEF S
<1>11. n \in S
  BY <1>1, <1>9, <1>10, NumbersIn
<1>12. value[n] \in Nat
  BY <1>1, <1>11 DEF S
<1>13. Atoi(w) = value[n]
  BY Zenon DEF Atoi, value, n, D
<1> QED BY <1>12, <1>13

-----------------------------------------------------------------------------
(* The steps from the command line to the DistributedLock and what the     *)
(* child asks of it, and those of the other actions that leave these be.   *)
Early == {"options", "tokens", "parsed", "defined"}

(* getopt is within the words, and keeps to them.                          *)
ScanInv ==
  /\ argv \in Seq(ToSet(argv))
  /\ at \in 1 .. Len(argv) + 1
  /\ given \in Seq(WithArgument \X ToSet(argv))

LEMMA TakeOptionScan ==
  ASSUME ScanInv, NEW c \in WithArgument, TakeOption(c)
  PROVE  ScanInv'
<1> USE DEF ScanInv, TakeOption, Here, Arg
<1>1. at + 1 \in 1 .. Len(argv) /\ at + 2 \in 1 .. Len(argv) + 1
  OBVIOUS
<1>2. argv[at + 1] \in ToSet(argv)
  BY <1>1 DEF ToSet
<1> QED BY <1>1, <1>2

LEMMA ScanStep == ScanInv /\ [Next]_vars => ScanInv'
<1> SUFFICES ASSUME ScanInv, [Next]_vars PROVE ScanInv'
  OBVIOUS
<1>1. CASE PassOver \/ EndOfOptions \/ Detach \/ ShowHelp \/ Usage
  BY <1>1 DEF ScanInv, PassOver, EndOfOptions, Detach, ShowHelp, Usage, Here, scanned
<1>2. CASE Number \/ Prefix \/ Address \/ NoQuery \/ Query \/ Resource
  <2>1. PICK c \in WithArgument : TakeOption(c)
    BY <1>2 DEF Number, Prefix, Address, NoQuery, Query, Resource, WithArgument, Numeric, Queries
  <2> QED BY <2>1, TakeOptionScan
<1>3. CASE \/ ReadTokens \/ Counted \/ DefineResources \/ AskQuery \/ Execute \/ Environ
           \/ UNCHANGED vars
  BY <1>3 DEF ScanInv, ReadTokens, Counted, DefineResources, AskQuery, Execute, Environ,
              vars, scanned
<1> QED BY <1>1, <1>2, <1>3 DEF Next

LEMMA InitScan == Init => ScanInv
<1> SUFFICES ASSUME Init PROVE ScanInv
  OBVIOUS
<1>1. argv \in Seq(ToSet(argv))
  BY InputsAssumption DEF Init
<1>2. at = 1 /\ given = <<>>
  BY DEF Init
<1> QED BY <1>1, <1>2 DEF ScanInv

-----------------------------------------------------------------------------
(* The flag and the name are those of the last query option.               *)
AskedInv ==
  \/ Asking = {} /\ flags = {}
  \/ \E i \in Asking :
       /\ \A j \in Asking : j <= i
       /\ flags = {FlagOf[given[i][1]]}
       /\ Named = Asking => resource = given[i][2]

LEMMA LargestIsMax ==
  ASSUME NEW S \in SUBSET Nat, NEW n \in S, \A i \in S : i <= n
  PROVE  Max(S) = n
<1>1. \A x \in S : (\A y \in S : x >= y) => x = n
  OBVIOUS
<1> QED BY <1>1 DEF Max

(* One more option, the last.                                              *)
LEMMA Another ==
  ASSUME ScanInv, NEW c \in WithArgument, NEW w, given' = Append(given, <<c, w>>)
  PROVE  /\ Asking' = Asking \cup {i \in {Len(given) + 1} : c \in Queries}
         /\ Named' = Named \cup {i \in {Len(given) + 1} : c \in Queries \cup {"r"}}
         /\ \A i \in DOMAIN given : given'[i] = given[i]
         /\ given'[Len(given) + 1] = <<c, w>>
         /\ Len(given) + 1 \notin DOMAIN given
         /\ Asking \subseteq DOMAIN given /\ Named \subseteq DOMAIN given
<1>1. given \in Seq(WithArgument \X ToSet(argv))
  BY DEF ScanInv
<1>2. /\ DOMAIN given' = 1 .. Len(given) + 1
      /\ DOMAIN given = 1 .. Len(given)
      /\ Len(given) \in Nat
      /\ \A i \in 1 .. Len(given) : given'[i] = given[i]
      /\ given'[Len(given) + 1] = <<c, w>>
  BY <1>1
<1>3. \A i : i \in DOMAIN given' <=> i \in DOMAIN given \/ i = Len(given) + 1
  BY <1>2
<1>4. Len(given) + 1 \notin DOMAIN given
  BY <1>2
<1>5. <<c, w>>[1] = c
  OBVIOUS
<1>6. \A i : i \in Asking' <=> i \in Asking \/ (i = Len(given) + 1 /\ c \in Queries)
  BY <1>2, <1>3, <1>4, <1>5 DEF Asking
<1>7. \A i : i \in Named' <=> i \in Named \/ (i = Len(given) + 1 /\ c \in Queries \cup {"r"})
  BY <1>2, <1>3, <1>4, <1>5, <1>6 DEF Named
<1> QED BY <1>2, <1>4, <1>6, <1>7 DEF Asking, Named

(* An option that is no query leaves the flag and, if it is not -r, the    *)
(* name.                                                                   *)
LEMMA OtherOption ==
  ASSUME ScanInv, AskedInv, NEW c \in WithArgument \ Queries, TakeOption(c),
         flags' = flags, resource' = resource \/ (c = "r" /\ Arg # <<>>)
  PROVE  AskedInv'
<1>1. CASE given' = given
  <2>1. Asking' = Asking /\ Named' = Named
    BY <1>1 DEF Asking, Named
  <2> QED BY <1>1, <2>1 DEF AskedInv, TakeOption
<1>2. CASE given' = Append(given, <<c, Arg>>)
  <2>1. /\ Asking' = Asking
        /\ Asking \subseteq DOMAIN given
        /\ \A i \in DOMAIN given : given'[i] = given[i]
        /\ Named' = Named \cup {i \in {Len(given) + 1} : c = "r"}
        /\ Len(given) + 1 \notin DOMAIN given
    BY <1>2, Another
  <2>2. Named' = Asking' => Named = Asking /\ resource' = resource
    BY <2>1 DEF Named
  <2>3. \A i \in Asking : given'[i] = given[i]
    BY <2>1
  <2> QED BY <2>1, <2>2, <2>3 DEF AskedInv
<1> QED BY <1>1, <1>2 DEF TakeOption


LEMMA QueryOption ==
  ASSUME ScanInv, NEW c \in Queries, TakeOption(c), Arg # <<>>,
         flags' = {FlagOf[c]}, resource' = Arg
  PROVE  AskedInv'
<1> DEFINE n == Len(given) + 1
<1>1. given' = Append(given, <<c, Arg>>)
  BY DEF TakeOption
<1>2. /\ Asking' = Asking \cup {n}
      /\ given'[n] = <<c, Arg>>
      /\ Asking \subseteq DOMAIN given
  BY <1>1, Another DEF WithArgument
<1>3. \A j \in DOMAIN given : j <= n
  BY DEF ScanInv
<1>4. n \in Asking' /\ \A j \in Asking' : j <= n
  BY <1>2, <1>3 DEF ScanInv
<1>5. FlagOf[given'[n][1]] = FlagOf[c] /\ given'[n][2] = Arg
  BY <1>2
<1> QED BY <1>4, <1>5 DEF AskedInv

LEMMA AskedStep == ScanInv /\ AskedInv /\ [Next]_vars => AskedInv'
<1> SUFFICES ASSUME ScanInv, AskedInv, [Next]_vars PROVE AskedInv'
  OBVIOUS
<1> DEFINE Same == given' = given /\ flags' = flags /\ resource' = resource
<1>1. Same => AskedInv'
  BY DEF AskedInv, Asking, Named
<1>2. CASE \/ PassOver \/ EndOfOptions \/ Detach \/ ShowHelp \/ Usage
           \/ ReadTokens \/ Counted \/ DefineResources \/ AskQuery \/ Execute \/ Environ
           \/ UNCHANGED vars
  <2>1. Same
    BY <1>2 DEF PassOver, EndOfOptions, Detach, ShowHelp, Usage, ReadTokens, Counted,
                DefineResources, AskQuery, Execute, Environ, vars, scanned, settings
  <2> QED BY <2>1, <1>1
<1>3. CASE Number \/ Prefix \/ Address \/ Resource
  <2>1. PICK c \in WithArgument \ Queries :
          /\ TakeOption(c)
          /\ flags' = flags
          /\ resource' = resource \/ (c = "r" /\ Arg # <<>>)
    BY <1>3 DEF Number, Prefix, Address, Resource, WithArgument, Numeric, Queries, settings
  <2> QED BY <2>1, OtherOption
<1>4. CASE NoQuery
  <2>1. Same
    BY <1>4 DEF NoQuery, TakeOption, settings
  <2> QED BY <2>1, <1>1
<1>5. CASE Query
  BY <1>5, QueryOption DEF Query
<1> QED BY <1>2, <1>3, <1>4, <1>5 DEF Next

LEMMA InitAsked == Init => AskedInv
<1> SUFFICES ASSUME Init PROVE AskedInv
  OBVIOUS
<1>1. given = <<>> /\ flags = {}
  BY DEF Init
<1>2. Asking = {}
  BY <1>1 DEF Asking
<1> QED BY <1>1, <1>2 DEF AskedInv

-----------------------------------------------------------------------------
(* Nothing is done before the resources are, and an end has a status; a    *)
(* query is what flags and resource say, and a status of 0 has a cause.    *)
Helped == \E i \in DOMAIN argv : i = at /\ argv[i] \in {Opt("h"), Opt("v")}

DoingInv ==
  /\ pc \in Early => doing = NoCall
  /\ pc # "ended" => status = NoStatus
  /\ doing.call \notin {"none", "acquire"} =>
       /\ flags # {}
       /\ doing = [call |-> CHOOSE f \in flags : TRUE, about |-> resource]
  /\ pc = "ended" => (status = 0 => doing # NoCall \/ Helped)

LEMMA FlagNames == \A c \in Queries : FlagOf[c] \notin {"none", "acquire"}
BY DEF FlagOf, Queries

(* There is never more than one flag: the two branches of AskQuery that    *)
(* are left.                                                               *)
LEMMA OneFlag ==
  ASSUME AskedInv, flags # {}
  PROVE  Cardinality(flags) = 1 /\ (CHOOSE f \in flags : TRUE) \notin {"none", "acquire"}
<1>1. PICK i \in Asking : flags = {FlagOf[given[i][1]]}
  BY DEF AskedInv
<1>2. FlagOf[given[i][1]] \notin {"none", "acquire"}
  BY <1>1, FlagNames DEF Asking
<1>3. Cardinality(flags) = 1
  BY <1>1, FS_Singleton
<1> QED BY <1>1, <1>2, <1>3

LEMMA DoingStep == ScanInv /\ AskedInv /\ DoingInv /\ [Next]_vars => DoingInv'
<1> SUFFICES ASSUME ScanInv, AskedInv, DoingInv, [Next]_vars PROVE DoingInv'
  OBVIOUS
<1> USE DEF DoingInv, Early
<1>1. NoCall.call = "none" /\ NoStatus # 0
  BY DEF NoCall, NoStatus
<1>2. CASE PassOver \/ EndOfOptions \/ Detach
  BY <1>1, <1>2 DEF PassOver, EndOfOptions, Detach, child, settings, Here
<1>3. CASE ShowHelp
  <2>1. pc = "options" /\ pc' = "ended" /\ doing' = doing /\ argv' = argv /\ at' = at
    BY <1>3 DEF ShowHelp, End, Here, child, scanned
  <2>2. Helped
    BY <1>3 DEF ShowHelp, Helped, Here, ScanInv
  <2> QED BY <1>1, <2>1, <2>2 DEF Helped
<1>4. CASE Usage
  BY <1>1, <1>4 DEF Usage, End, Here, child
<1>5. CASE Number \/ Prefix \/ Address \/ NoQuery \/ Query \/ Resource
  <2>1. pc = "options" /\ pc' \in {"options", "tokens"} /\ doing' = doing /\ status' = status
    BY <1>5 DEF Number, Prefix, Address, NoQuery, Query, Resource, TakeOption, Here, child
  <2> QED BY <1>1, <2>1
<1>6. CASE ReadTokens \/ Counted \/ DefineResources
  <2>1. pc \in Early /\ doing' = doing
    BY <1>6 DEF ReadTokens, Counted, DefineResources, child
  <2>2. \/ pc' \in Early /\ status' = status
        \/ pc' = "ended" /\ status' = 1
    <3>1. CASE ReadTokens
      BY <3>1 DEF ReadTokens
    <3>2. CASE Counted
      BY <3>2 DEF Counted, End
    <3>3. CASE DefineResources
      BY <3>3 DEF DefineResources, End
    <3> QED BY <1>6, <3>1, <3>2, <3>3
  <2> QED BY <1>1, <2>1, <2>2
<1>7. CASE AskQuery
  <2>1. Cardinality(flags) = 1 /\ flags # {}
    BY <1>7, OneFlag DEF AskQuery
  <2>2. /\ doing' = [call |-> CHOOSE f \in flags : TRUE, about |-> resource]
        /\ pc' = "ended" /\ flags' = flags /\ resource' = resource
    BY <1>7, <2>1 DEF AskQuery, End, settings
  <2>3. doing'.call \notin {"none", "acquire"}
    BY <2>1, <2>2, OneFlag
  <2> QED BY <1>1, <2>1, <2>2, <2>3
<1>8. CASE Execute
  <2>1. \/ doing'.call = "acquire" /\ pc' = "inherit" /\ status' = status
        \/ doing' = doing /\ pc' = "ended" /\ status' = 2
    BY <1>8 DEF Execute, End, NoCall
  <2> QED BY <1>1, <1>8, <2>1 DEF Execute
<1>9. CASE Environ
  <2>1. /\ pc \notin Early \cup {"ended"} /\ pc' \notin Early \cup {"ended"}
        /\ doing' = doing /\ status' = status /\ flags' = flags /\ resource' = resource
    BY <1>9 DEF Environ, Inherit, Inherited, RegisterId, RegisterResources, settings
  <2> QED BY <2>1
<1>10. CASE UNCHANGED vars
  BY <1>10 DEF vars, Helped, scanned, settings, child
<1> QED BY <1>2, <1>3, <1>4, <1>5, <1>6, <1>7, <1>8, <1>9, <1>10 DEF Next

LEMMA InitDoing == Init => DoingInv
BY DEF Init, DoingInv, NoCall

-----------------------------------------------------------------------------
(* The words after number i, up to number n, are the last of the operands. *)
EndWith(i, n) ==
  /\ n - i <= Len(operands)
  /\ \A k \in 1 .. n - i : operands[Len(operands) - (n - i) + k] = argv[i + k]

(* What before = Dashes says of the operands, while the words are read and *)
(* afterwards.                                                             *)
CommandInv ==
  /\ operands \in Seq(ToSet(argv))
  /\ pc \in {"options", "tokens"} /\ before = Dashes =>
       \E i \in 1 .. at - 1 : argv[i] = Dashes /\ EndWith(i, at - 1)
  /\ pc \in {"parsed", "defined"} /\ before = Dashes =>
       \E i \in 1 .. Len(argv) : argv[i] = Dashes /\ EndWith(i, Len(argv))
  /\ doing.call = "acquire" =>
       /\ pc \notin Early
       /\ operands # <<>>
       /\ \E i \in 1 .. Len(argv) : argv[i] = Dashes /\ EndWith(i, Len(argv))

LEMMA CommandStep ==
  ScanInv /\ AskedInv /\ DoingInv /\ CommandInv /\ [Next]_vars => CommandInv'
<1> SUFFICES ASSUME ScanInv, AskedInv, DoingInv, CommandInv, [Next]_vars
             PROVE  CommandInv'
  OBVIOUS
<1> DEFINE Kept == argv' = argv /\ operands' = operands
<1>1. NoCall.call = "none"
  BY DEF NoCall
<1>2. /\ argv \in Seq(ToSet(argv)) /\ operands \in Seq(ToSet(argv))
      /\ at \in 1 .. Len(argv) + 1
  BY DEF ScanInv, CommandInv
<1>3. CASE PassOver
  <2>1. /\ pc = "options" /\ pc' = pc /\ at \in 1 .. Len(argv) /\ at' = at + 1
        /\ argv' = argv /\ before' = before /\ doing' = doing /\ doing = NoCall
        /\ operands' = Append(operands, argv[at])
    BY <1>3, <1>2 DEF PassOver, child, DoingInv, Early
  <2>2. argv[at] \in ToSet(argv)
    BY <1>2, <2>1 DEF ToSet
  <2>3. operands' \in Seq(ToSet(argv)) /\ Len(operands') = Len(operands) + 1
    BY <1>2, <2>1, <2>2
  <2>4. ASSUME NEW i \in 1 .. at - 1, EndWith(i, at - 1)
        PROVE  EndWith(i, at - 1)'
    <3>1. at - i <= Len(operands') /\ (at - 1)' = at
      BY <1>2, <2>1, <2>3, <2>4 DEF EndWith
    <3>2. ASSUME NEW k \in 1 .. at - i
          PROVE  operands'[Len(operands') - (at - i) + k] = argv'[i + k]
      <4>1. CASE k = at - i
        BY <1>2, <2>1, <2>2, <2>3, <4>1
      <4>2. CASE k # at - i
        <5>1. k \in 1 .. (at - 1) - i /\ i + k \in 1 .. Len(argv)
          BY <1>2, <2>1, <4>2
        <5> DEFINE j == Len(operands) - ((at - 1) - i) + k
        <5>2. operands[j] = argv[i + k] /\ j \in 1 .. Len(operands)
          <6>1. Len(operands) \in Nat /\ at \in Int /\ i \in Int /\ k \in Int
            BY <1>2
          <6>2. (at - 1) - i <= Len(operands) /\ operands[j] = argv[i + k]
            BY <2>4, <5>1 DEF EndWith
          <6>3. k <= (at - 1) - i /\ k >= 1
            BY <5>1
          <6> QED BY <6>1, <6>2, <6>3
        <5>3. j = Len(operands') - (at - i) + k
          BY <1>2, <2>1, <2>3
        <5>4. operands'[j] = operands[j]
          BY <1>2, <2>1, <2>2, <5>2
        <5> QED BY <2>1, <5>2, <5>3, <5>4
      <4> QED BY <4>1, <4>2
    <3> QED BY <3>1, <3>2 DEF EndWith
  <2> QED BY <1>1, <2>1, <2>3, <2>4 DEF CommandInv
<1>4. CASE EndOfOptions
  <2>1. /\ pc = "options" /\ pc' = "parsed" /\ argv' = argv /\ doing' = doing /\ doing = NoCall
    BY <1>4 DEF EndOfOptions, child, DoingInv, Early
  <2>2. CASE Here(Dashes)
    <3>1. /\ at \in 1 .. Len(argv) /\ argv[at] = Dashes /\ at' = at
          /\ operands' = operands \o SubSeq(argv, at + 1, Len(argv))
      <4>1. at \in 1 .. Len(argv) /\ argv[at] = Dashes
        BY <1>2, <2>2 DEF Here
      <4>2. at' = at
        BY <1>4 DEF EndOfOptions
      <4>3. operands' = operands \o SubSeq(argv, at + 1, Len(argv))
        <5>1. ~ (at > Len(argv))
          BY <1>2, <4>1
        <5> QED BY <1>4, <5>1, Zenon DEF EndOfOptions
      <4> QED BY <4>1, <4>2, <4>3
    <3>2. SubSeq(argv, at + 1, Len(argv)) \in Seq(ToSet(argv))
      BY <1>2, <3>1
    <3> DEFINE rest == SubSeq(argv, at + 1, Len(argv))
               n == Len(argv) - at
    <3>3. n \in Nat /\ Len(rest) = n /\ \A k \in 1 .. n : rest[k] = argv[at + k]
      BY <1>2, <3>1
    <3>4. /\ operands' \in Seq(ToSet(argv)) /\ Len(operands') = Len(operands) + n
          /\ \A k \in 1 .. n : operands'[Len(operands) + k] = rest[k]
      <4> HIDE DEF rest, n
      <4> QED BY <1>2, <3>1, <3>2, <3>3 DEF rest
    <3>5. Len(operands') - n = Len(operands) /\ n <= Len(operands')
      <4>1. Len(operands) \in Nat
        BY <1>2
      <4> HIDE DEF n
      <4> QED BY <3>3, <3>4, <4>1
    <3>6. n <= Len(operands') /\ \A k \in 1 .. n : operands'[Len(operands') - n + k] = argv[at + k]
      <4> HIDE DEF rest, n
      <4> QED BY <3>3, <3>4, <3>5
    <3>7. EndWith(at, Len(argv))'
      BY <2>1, <3>1, <3>6 DEF EndWith
    <3> QED BY <1>1, <1>2, <2>1, <3>1, <3>4, <3>7 DEF CommandInv
  <2>3. CASE at > Len(argv) /\ UNCHANGED <<before, operands>>
    <3>1. at - 1 = Len(argv)
      BY <1>2, <2>3
    <3> QED BY <1>1, <1>2, <2>1, <2>3, <3>1 DEF CommandInv, EndWith
  <2> QED BY <1>4, <2>2, <2>3 DEF EndOfOptions
<1>5. CASE Detach \/ ShowHelp \/ Usage
  <2>1. /\ pc' = "ended" \/ (pc' = "options" /\ before' # Dashes)
        /\ Kept /\ doing' = doing /\ doing = NoCall
    BY <1>5 DEF Detach, ShowHelp, Usage, End, Here, child, scanned, Dashes, Opt, DoingInv, Early
  <2> QED BY <1>1, <1>2, <2>1 DEF CommandInv
<1>6. CASE Number \/ Prefix \/ Address \/ NoQuery \/ Query \/ Resource
  <2>1. PICK c \in WithArgument : TakeOption(c)
    BY <1>6 DEF Number, Prefix, Address, NoQuery, Query, Resource, WithArgument, Numeric, Queries
  <2>2. /\ pc = "options" /\ pc' \in {"options", "tokens"}
        /\ Kept /\ doing' = doing /\ doing = NoCall
        /\ at + 1 \in 1 .. Len(argv) /\ at' = at + 2 /\ before' = argv[at + 1]
    <3>1. pc' \in {"options", "tokens"}
      BY <1>6 DEF Number, Prefix, Address, NoQuery, Query, Resource, TakeOption, Here
    <3>2. at + 1 \in 1 .. Len(argv)
      BY <1>2, <2>1 DEF TakeOption, Here
    <3> QED BY <2>1, <3>1, <3>2 DEF TakeOption, Here, Arg, child, DoingInv, Early
  <2>3. EndWith(at + 1, at + 1)
    BY <1>2 DEF EndWith
  <2>4. at' - 1 = at + 1
    BY <1>2, <2>2
  <2> QED BY <1>1, <1>2, <2>2, <2>3, <2>4 DEF CommandInv, EndWith
<1>7. CASE ReadTokens \/ Counted
  <2>1. /\ pc = "tokens" /\ pc' \in {"tokens", "options", "ended"}
        /\ scanned' = scanned /\ doing' = doing /\ doing = NoCall
    BY <1>7 DEF ReadTokens, Counted, End, child, DoingInv, Early
  <2> QED BY <1>1, <2>1 DEF CommandInv, EndWith, scanned
<1>8. CASE DefineResources
  <2>1. /\ pc = "parsed" /\ pc' \in {"defined", "ended"}
        /\ scanned' = scanned /\ doing' = doing /\ doing = NoCall
    BY <1>8 DEF DefineResources, End, child, DoingInv, Early
  <2> QED BY <1>1, <2>1 DEF CommandInv, EndWith, scanned
<1>9. CASE AskQuery
  <2>1. /\ pc = "defined" /\ pc' = "ended" /\ scanned' = scanned
        /\ doing'.call # "acquire"
    <3>1. Cardinality(flags) = 1 /\ (CHOOSE f \in flags : TRUE) # "acquire"
      BY <1>9, OneFlag DEF AskQuery
    <3> QED BY <1>9, <3>1 DEF AskQuery, End
  <2> QED BY <2>1 DEF CommandInv, EndWith, scanned
<1>10. CASE Execute
  <2>1. pc = "defined" /\ scanned' = scanned /\ pc' \notin Early
    BY <1>10 DEF Execute, End, Early
  <2>2. doing'.call = "acquire" => before = Dashes /\ operands # <<>>
    BY <1>1, <1>10 DEF Execute, DoingInv, Early
  <2> QED BY <2>1, <2>2 DEF CommandInv, EndWith, scanned, Early
<1>11. CASE Environ
  <2>1. /\ pc \notin Early /\ pc' \notin Early /\ scanned' = scanned /\ doing' = doing
    BY <1>11 DEF Environ, Inherit, Inherited, RegisterId, RegisterResources, Early
  <2> QED BY <2>1 DEF CommandInv, EndWith, scanned, Early
<1>12. CASE UNCHANGED vars
  BY <1>12 DEF vars, CommandInv, EndWith, scanned, child
<1> QED BY <1>3, <1>4, <1>5, <1>6, <1>7, <1>8, <1>9, <1>10, <1>11, <1>12 DEF Next

LEMMA InitCommand == Init => CommandInv
<1> SUFFICES ASSUME Init PROVE CommandInv
  OBVIOUS
<1>1. NoCall.call = "none"
  BY DEF NoCall
<1>2. operands = <<>> /\ pc = "options" /\ before = <<"dist_lock">> /\ doing = NoCall
  BY DEF Init
<1>3. before # Dashes
  BY <1>2 DEF Dashes, Opt
<1> QED BY <1>1, <1>2, <1>3 DEF CommandInv

-----------------------------------------------------------------------------
(* A finite set as a sequence without repetition.                          *)
LEMMA AsSequence ==
  ASSUME NEW S, IsFiniteSet(S)
  PROVE  /\ Cardinality(S) \in Nat
         /\ SetToSeq(S) \in Surjection(1 .. Cardinality(S), S)
         /\ SetToSeq(S) \in Injection(1 .. Cardinality(S), S)
<1> DEFINE C == Cardinality(S)
           f == SetToSeq(S)
<1>1. C \in Nat /\ ExistsBijection(1 .. C, S)
  BY FS_CardinalityType
<1>2. \E g \in [1 .. C -> S] : IsInjective(g)
  BY <1>1 DEF ExistsBijection, Bijection, Injection
<1>3. f \in [1 .. C -> S] /\ IsInjective(f)
  BY <1>2 DEF SetToSeq
<1>4. f \in Injection(1 .. C, S)
  BY <1>3 DEF Injection
<1>5. f \in Surjection(1 .. C, S)
  <2>1. IsFiniteSet(1 .. C) /\ Cardinality(1 .. C) = C
    BY <1>1, FS_Interval
  <2> QED BY <1>4, <2>1, FS_Injection
<1> QED BY <1>1, <1>4, <1>5

(* A map has as many lines as names, one for each.                         *)
LEMMA LinesOfMap ==
  ASSUME NEW m, IsFiniteSet(DOMAIN m)
  PROVE  /\ Len(Lines(m)) = Cardinality(DOMAIN m)
         /\ {v.name : v \in ToSet(Lines(m))} = DOMAIN m
<1> DEFINE S == DOMAIN m
           C == Cardinality(S)
           f == SetToSeq(S)
<1>1. C \in Nat
  BY AsSequence
<1>2. f \in [1 .. C -> S] /\ \A x \in S : \E i \in 1 .. C : f[i] = x
  BY AsSequence DEF Surjection
<1> HIDE DEF f, C
<1>3. Lines(m) = [i \in 1 .. C |-> [name |-> f[i], val |-> m[f[i]]]]
  BY <1>2 DEF Lines, f
<1>4. Len(Lines(m)) = C
  BY <1>1, <1>3
<1>5. ToSet(Lines(m)) = {[name |-> f[i], val |-> m[f[i]]] : i \in 1 .. C}
  BY <1>3 DEF ToSet
<1>6. {v.name : v \in ToSet(Lines(m))} = {f[i] : i \in 1 .. C}
  <2>1. \A x : x \in {v.name : v \in ToSet(Lines(m))} => \E i \in 1 .. C : x = f[i]
    BY <1>5
  <2>2. ASSUME NEW i \in 1 .. C PROVE f[i] \in {v.name : v \in ToSet(Lines(m))}
    <3> DEFINE v == [name |-> f[i], val |-> m[f[i]]]
    <3>1. v \in ToSet(Lines(m)) /\ v.name = f[i]
      BY <1>5
    <3> HIDE DEF v
    <3> QED BY <3>1
  <2> QED BY <2>1, <2>2
<1>7. {f[i] : i \in 1 .. C} = S
  BY <1>2
<1> QED BY <1>4, <1>6, <1>7 DEF C

LEMMA PutDomain == ASSUME NEW m, NEW x, NEW y PROVE DOMAIN Put(m, x, y) = DOMAIN m \cup {x}
BY DEF Put

LEMMA HeadAndTail ==
  ASSUME NEW S, NEW s \in Seq(S), s # <<>>
  PROVE  ToSet(s) = {Head(s)} \cup ToSet(Tail(s))
<1>1. /\ DOMAIN s = 1 .. Len(s) /\ Len(s) \in Nat \ {0} /\ Head(s) = s[1]
      /\ DOMAIN Tail(s) = 1 .. Len(s) - 1
      /\ \A i \in 1 .. Len(s) - 1 : Tail(s)[i] = s[i + 1]
  OBVIOUS
<1>2. \A i \in 1 .. Len(s) : i = 1 \/ (i - 1 \in 1 .. Len(s) - 1 /\ i = (i - 1) + 1)
  BY <1>1
<1>3. \A x \in ToSet(s) : x = Head(s) \/ x \in ToSet(Tail(s))
  <2> SUFFICES ASSUME NEW i \in 1 .. Len(s) PROVE s[i] = Head(s) \/ s[i] \in ToSet(Tail(s))
    BY <1>1 DEF ToSet
  <2>1. CASE i = 1
    BY <1>1, <2>1
  <2>2. CASE i # 1
    <3>1. i - 1 \in DOMAIN Tail(s) /\ Tail(s)[i - 1] = s[i]
      BY <1>1, <1>2, <2>2
    <3> QED BY <3>1 DEF ToSet
  <2> QED BY <2>1, <2>2
<1>4. \A x \in ToSet(Tail(s)) : x \in ToSet(s)
  <2> SUFFICES ASSUME NEW i \in 1 .. Len(s) - 1 PROVE s[i + 1] \in ToSet(s)
    BY <1>1 DEF ToSet
  <2>1. i + 1 \in DOMAIN s
    BY <1>1
  <2> QED BY <2>1 DEF ToSet
<1>5. Head(s) \in ToSet(s)
  <2>1. 1 \in DOMAIN s
    BY <1>1
  <2> QED BY <1>1, <2>1 DEF ToSet
<1> QED BY <1>3, <1>4, <1>5

(* The names that have been entered, and whether the array is of the map.  *)
Id == prefix \o <<"_ID">>
Resources == prefix \o <<"_RESOURCES">>

OfList ==
  /\ Len(array) = Cardinality(DOMAIN list)
  /\ {v.name : v \in ToSet(array)} = DOMAIN list

EnvInv ==
  /\ envp \in Seq(ToSet(envp)) /\ left \in Seq(ToSet(envp))
  /\ IsFiniteSet(DOMAIN list) /\ wild = {}
  /\ pc \in Early \cup {"inherit"} =>
       DOMAIN list \cup {e.name : e \in ToSet(left)} = Names /\ array = NoArray
  /\ pc = "id" => DOMAIN list = Names /\ OfList
  /\ pc = "resources" => DOMAIN list = Names \cup {Id} /\ OfList
  /\ pc = "exec" => DOMAIN list = Names \cup Own /\ OfList

LEMMA Register ==
  ASSUME IsFiniteSet(DOMAIN list), wild = {}, OfList, NEW name, NEW val,
         RegisterEnv(name, val)
  PROVE  /\ IsFiniteSet(DOMAIN list') /\ wild' = {} /\ OfList'
         /\ DOMAIN list' = DOMAIN list \cup {name}
<1>1. DOMAIN list' = DOMAIN list \cup {name}
  BY PutDomain DEF RegisterEnv
<1>2. /\ IsFiniteSet(DOMAIN list')
      /\ Cardinality(DOMAIN list') <= Cardinality(DOMAIN list) + 1
      /\ Cardinality(DOMAIN list') \in Int
  <2>1. IsFiniteSet(DOMAIN list \cup {name})
    BY FS_AddElement
  <2>2. Cardinality(DOMAIN list) \in Nat /\ Cardinality(DOMAIN list \cup {name}) \in Nat
    BY <2>1, FS_CardinalityType
  <2>3. Cardinality(DOMAIN list \cup {name}) <= Cardinality(DOMAIN list) + 1
    <3>1. Cardinality(DOMAIN list \cup {name}) =
            IF name \in DOMAIN list THEN Cardinality(DOMAIN list)
            ELSE Cardinality(DOMAIN list) + 1
      BY FS_AddElement
    <3> QED BY <2>2, <3>1
  <2> QED BY <1>1, <2>1, <2>2, <2>3
<1>3. array' = Lines(list')
  BY DEF RegisterEnv, UpdateArray
<1>4. OfList'
  <2>1. /\ Len(Lines(list')) = Cardinality(DOMAIN list')
        /\ {v.name : v \in ToSet(Lines(list'))} = DOMAIN list'
    BY <1>2, LinesOfMap
  <2> QED BY <1>3, <2>1 DEF OfList
<1>5. Cardinality(DOMAIN list) \in Int
  BY FS_CardinalityType
<1>6. \A i \in 1 .. Cardinality(DOMAIN list') - 1 : ~ (i > Len(array))
  BY <1>2, <1>5 DEF OfList
<1>7. wild' = {}
  BY <1>6 DEF RegisterEnv, UpdateArray
<1> QED BY <1>1, <1>2, <1>4, <1>7

LEMMA EnvStep == EnvInv /\ [Next]_vars => EnvInv'
<1> SUFFICES ASSUME EnvInv, [Next]_vars PROVE EnvInv'
  OBVIOUS
<1> USE DEF Early
<1>1. CASE \/ PassOver \/ EndOfOptions \/ Detach \/ ShowHelp \/ Usage
           \/ ReadTokens \/ Counted \/ DefineResources
           \/ Number \/ Prefix \/ Address \/ NoQuery \/ Query \/ Resource
  <2>1. /\ pc \in Early /\ pc' \in Early \cup {"ended"}
        /\ envp' = envp /\ environment' = environment
    <3>1. CASE PassOver \/ EndOfOptions \/ Detach \/ ShowHelp \/ Usage
      BY <3>1 DEF PassOver, EndOfOptions, Detach, ShowHelp, Usage, Here, End, child
    <3>2. CASE ReadTokens \/ Counted
      BY <3>2 DEF ReadTokens, Counted, End, child
    <3>3. CASE DefineResources
      BY <3>3 DEF DefineResources, End
    <3>4. CASE Number \/ Prefix \/ Address \/ NoQuery \/ Query \/ Resource
      BY <3>4 DEF Number, Prefix, Address, NoQuery, Query, Resource, TakeOption, Here, child
    <3> QED BY <1>1, <3>1, <3>2, <3>3, <3>4
  <2> QED BY <2>1 DEF EnvInv, environment, Names
<1>2. CASE AskQuery \/ Execute
  <2>1. /\ pc = "defined" /\ pc' \in {"inherit", "ended"}
        /\ envp' = envp /\ environment' = environment
    BY <1>2 DEF AskQuery, Execute, End
  <2> QED BY <2>1 DEF EnvInv, environment, Names
<1>3. CASE Environ
  <2>1. envp' = envp /\ prefix' = prefix
    BY <1>3 DEF Environ, settings
  <2>2. CASE Inherit
    <3> DEFINE e == Head(left)
    <3>1. pc = "inherit" /\ pc' = pc /\ left # <<>> /\ left' = Tail(left)
          /\ array' = array /\ wild' = wild
      BY <2>2 DEF Inherit
    <3>2. DOMAIN list' = DOMAIN list \cup {e.name}
      BY <2>2, PutDomain DEF Inherit
    <3>3. left \in Seq(ToSet(envp)) /\ left' \in Seq(ToSet(envp))
      BY <3>1 DEF EnvInv
    <3>4. ToSet(left) = {e} \cup ToSet(left')
      BY <3>1, HeadAndTail DEF EnvInv
    <3>5. IsFiniteSet(DOMAIN list')
      BY <3>2, FS_AddElement DEF EnvInv
    <3> QED BY <2>1, <3>1, <3>2, <3>3, <3>4, <3>5 DEF EnvInv, Names
  <2>3. CASE Inherited
    <3>1. /\ pc = "inherit" /\ pc' = "id" /\ left = <<>> /\ left' = left /\ list' = list
          /\ array' = Lines(list) /\ array = NoArray /\ wild = {}
      BY <2>3 DEF Inherited, UpdateArray, EnvInv
    <3>2. wild' = {}
      BY <2>3, <3>1 DEF Inherited, UpdateArray
    <3>3. DOMAIN list = Names
      <4>1. ToSet(left) = {}
        BY <3>1 DEF ToSet
      <4> QED BY <3>1, <4>1 DEF EnvInv
    <3>4. OfList'
      BY <3>1, LinesOfMap DEF EnvInv, OfList
    <3> QED BY <2>1, <3>1, <3>2, <3>3, <3>4 DEF EnvInv, Names
  <2>4. CASE RegisterId
    <3>1. pc = "id" /\ pc' = "resources" /\ left' = left
      BY <2>4 DEF RegisterId, RegisterEnv
    <3>2. /\ IsFiniteSet(DOMAIN list') /\ wild' = {} /\ OfList'
          /\ DOMAIN list' = DOMAIN list \cup {Id}
      BY <2>4, <3>1, Register DEF RegisterId, EnvInv, Id
    <3> QED BY <2>1, <3>1, <3>2 DEF EnvInv, Names, Id
  <2>5. CASE RegisterResources
    <3>1. pc = "resources" /\ pc' = "exec" /\ left' = left
      BY <2>5 DEF RegisterResources, RegisterEnv
    <3>2. /\ IsFiniteSet(DOMAIN list') /\ wild' = {} /\ OfList'
          /\ DOMAIN list' = DOMAIN list \cup {Resources}
      BY <2>5, <3>1, Register DEF RegisterResources, EnvInv, Resources
    <3>3. Own = {Id} \cup {Resources} /\ Own' = Own
      BY <2>1 DEF Own, Id, Resources
    <3> QED BY <2>1, <3>1, <3>2, <3>3 DEF EnvInv, Names
  <2> QED BY <1>3, <2>2, <2>3, <2>4, <2>5 DEF Environ
<1>4. CASE UNCHANGED vars
  BY <1>4 DEF vars, EnvInv, child, environment, settings, OfList, Names, Own, Id
<1> QED BY <1>1, <1>2, <1>3, <1>4 DEF Next

LEMMA InitEnv == Init => EnvInv
<1> SUFFICES ASSUME Init PROVE EnvInv
  OBVIOUS
<1>1. /\ envp \in Seq(ToSet(envp)) /\ left = envp /\ pc = "options"
      /\ list = <<>> /\ array = NoArray /\ wild = {}
  BY InputsAssumption DEF Init
<1>2. DOMAIN list = {} /\ IsFiniteSet(DOMAIN list)
  BY <1>1, FS_EmptySet
<1> QED BY <1>1, <1>2 DEF EnvInv, Names, Early

-----------------------------------------------------------------------------
(* The words are strings, and one with a colon is taken apart.             *)
WordsInv == \A w \in ToSet(argv) : w \in Seq(ToSet(w))

LEMMA ArgIsWord ==
  ASSUME ScanInv, WordsInv, NEW c, TakeOption(c)
  PROVE  Arg \in ToSet(argv) /\ Arg \in Seq(ToSet(Arg))
<1>1. at + 1 \in DOMAIN argv
  BY DEF ScanInv, TakeOption, Here
<1>2. Arg \in ToSet(argv)
  BY <1>1 DEF Arg, ToSet
<1> QED BY <1>2 DEF WordsInv

LEMMA WordsStep ==
  ScanInv /\ WordsInv /\ TokenizerInv /\ [Next]_vars => WordsInv' /\ TokenizerInv'
<1> SUFFICES ASSUME ScanInv, WordsInv, TokenizerInv, [Next]_vars
             PROVE  WordsInv' /\ TokenizerInv'
  OBVIOUS
<1>1. WordsInv'
  <2>1. argv' = argv
    <3>1. CASE PassOver \/ EndOfOptions \/ Detach \/ ShowHelp \/ Usage
      BY <3>1 DEF PassOver, EndOfOptions, Detach, ShowHelp, Usage, scanned
    <3>2. CASE Number \/ Prefix \/ Address \/ NoQuery \/ Query \/ Resource
      BY <3>2 DEF Number, Prefix, Address, NoQuery, Query, Resource, TakeOption
    <3>3. CASE \/ ReadTokens \/ Counted \/ DefineResources \/ AskQuery \/ Execute \/ Environ
               \/ UNCHANGED vars
      BY <3>3 DEF ReadTokens, Counted, DefineResources, AskQuery, Execute, Environ, vars, scanned
    <3> QED BY <3>1, <3>2, <3>3 DEF Next
  <2> QED BY <2>1 DEF WordsInv
<1>2. CASE UNCHANGED tokenizer
  BY <1>1, <1>2, TokenizerStays
<1>3. CASE ReadTokens
  BY <1>1, <1>3, TokenizeKeeps DEF ReadTokens
<1>4. CASE Resource
  <2>1. CASE HasColon(Arg)
    <3>1. Construct(Arg) /\ Arg \in Seq(ToSet(Arg))
      BY <1>4, <2>1, ArgIsWord DEF Resource
    <3> QED BY <1>1, <3>1, ConstructKeeps
  <2>2. CASE ~ HasColon(Arg)
    BY <1>2, <1>4, <2>2 DEF Resource
  <2> QED BY <2>1, <2>2
<1>5. CASE PassOver \/ EndOfOptions \/ Detach \/ ShowHelp \/ Usage
  BY <1>2, <1>5 DEF PassOver, EndOfOptions, Detach, ShowHelp, Usage
<1>6. CASE Number \/ Prefix \/ Address \/ NoQuery \/ Query
  BY <1>2, <1>6 DEF Number, Prefix, Address, NoQuery, Query
<1>7. CASE Counted \/ DefineResources \/ AskQuery \/ Execute \/ Environ \/ UNCHANGED vars
  BY <1>2, <1>7 DEF Counted, DefineResources, AskQuery, Execute, Environ, vars
<1> QED BY <1>3, <1>4, <1>5, <1>6, <1>7 DEF Next

LEMMA InitWords == Init => WordsInv /\ TokenizerInv
<1> SUFFICES ASSUME Init PROVE WordsInv /\ TokenizerInv
  OBVIOUS
<1>1. PICK i \in Inputs : argv = i[1]
  BY DEF Init
<1>2. WordsInv
  BY <1>1, InputsAssumption DEF WordsInv
<1>3. input = <<>> /\ str = <<>> /\ cur = 1 /\ place = "none" /\ tokens = <<>>
  BY DEF Init
<1>4. /\ str \in Seq(ToSet(input)) /\ input \in Seq(ToSet(input))
      /\ tokens \in Seq(Seq(ToSet(input))) /\ cur \in Nat \ {0}
  BY <1>3
<1>5. KeepsFields
  BY <1>3, <1>4, KeptAtFirst
<1> QED BY <1>2, <1>3, <1>4, <1>5 DEF TokenizerInv

-----------------------------------------------------------------------------
(* m has the names that the options at the places of D give, each with the *)
(* count that it was given last; all counts are positive.                  *)
LastNamed(g, D, r, i) == i \in D /\ NameIn(g[i]) = r /\ \A j \in D : NameIn(g[j]) = r => j <= i

Maps(m, g, D) ==
  /\ m = [r \in {NameIn(g[i]) : i \in D} |-> m[r]]
  /\ \A i \in D : CountIn(g[i]) \in Nat \ {0}
  /\ \A r \in DOMAIN m : \E i \in D : LastNamed(g, D, r, i) /\ m[r] = CountIn(g[i])

LEMMA MapsNext ==
  ASSUME NEW m, NEW g, NEW D \in SUBSET Nat, NEW n \in Nat, Maps(m, g, D),
         \A i \in D : i < n, CountIn(g[n]) \in Nat \ {0}
  PROVE  Maps(Put(m, NameIn(g[n]), CountIn(g[n])), g, D \cup {n})
<1> DEFINE x == NameIn(g[n])
           E == D \cup {n}
           p == Put(m, x, CountIn(g[n]))
<1>1. /\ DOMAIN m = {NameIn(g[i]) : i \in D}
      /\ p = [r \in DOMAIN m \cup {x} |-> IF r = x THEN CountIn(g[n]) ELSE m[r]]
  BY DEF Maps, Put
<1> HIDE DEF p
<1>2. DOMAIN m \cup {x} = {NameIn(g[i]) : i \in E}
  BY <1>1
<1>3. p = [r \in {NameIn(g[i]) : i \in E} |-> p[r]]
  BY <1>1, <1>2
<1>4. \A i \in E : CountIn(g[i]) \in Nat \ {0}
  BY DEF Maps
<1>5. ASSUME NEW r \in DOMAIN p
      PROVE  \E i \in E : LastNamed(g, E, r, i) /\ p[r] = CountIn(g[i])
  <2>1. CASE r = x
    <3>1. \A j \in E : j <= n
      OBVIOUS
    <3>2. LastNamed(g, E, r, n)
      BY <2>1, <3>1 DEF LastNamed
    <3>3. p[r] = CountIn(g[n])
      BY <1>1, <2>1
    <3> QED BY <3>2, <3>3
  <2>2. CASE r # x
    <3>1. r \in DOMAIN m /\ p[r] = m[r]
      BY <1>1, <2>2
    <3>2. PICK i \in D : LastNamed(g, D, r, i) /\ m[r] = CountIn(g[i])
      BY <3>1 DEF Maps
    <3>3. LastNamed(g, E, r, i)
      BY <2>2, <3>2 DEF LastNamed
    <3> QED BY <3>1, <3>2, <3>3
  <2> QED BY <2>1, <2>2
<1> QED BY <1>3, <1>4, <1>5 DEF p, Maps

LEMMA MapsLonger ==
  ASSUME NEW m, NEW g, NEW h, NEW D, Maps(m, g, D), \A i \in D : h[i] = g[i]
  PROVE  Maps(m, h, D)
<1>1. {NameIn(g[i]) : i \in D} = {NameIn(h[i]) : i \in D}
  OBVIOUS
<1>2. \A i \in D : NameIn(g[i]) = NameIn(h[i]) /\ CountIn(g[i]) = CountIn(h[i])
  OBVIOUS
<1>3. \A r, i : LastNamed(g, D, r, i) => LastNamed(h, D, r, i)
  BY <1>2 DEF LastNamed
<1> QED BY <1>1, <1>2, <1>3 DEF Maps

-----------------------------------------------------------------------------
(* Of a word without a colon, the whole is the first field.                *)
LEMMA WholeWord ==
  ASSUME NEW w, w \in Seq(ToSet(w)), w # <<>>, ~ HasColon(w)
  PROVE  Field(w, 1) = w
<1>1. Len(w) \in 1 .. Len(w) /\ \A k \in 1 .. Len(w) : w[k] # Delim
  BY DEF HasColon, ToSet
<1>2. Runs(w, Delim)[Len(w)] = <<SubSeq(w, 1, Len(w))>>
  BY <1>1, OneRun
<1>3. SubSeq(w, 1, Len(w)) = w
  OBVIOUS
<1>4. Fields(w, Delim) = <<w>>
  BY <1>2, <1>3 DEF Fields
<1>5. 1 <= Len(<<w>>) /\ <<w>>[1] = w
  OBVIOUS
<1> DEFINE f == Fields(w, Delim)
<1> HIDE DEF f
<1>6. 1 <= Len(f) /\ f[1] = w
  BY <1>4, <1>5, Zenon DEF f
<1> QED BY <1>6 DEF Field, f

(* The tokens are the fields, and none are the rest of two.                *)
LEMMA TokensAreFields ==
  ASSUME TokenizerInv, Len(tokens) = 2, NEW i \in 1 .. 2
  PROVE  tokens[i] = Field(input, i)
<1> DEFINE C == ToSet(input)
           W == Seq(C) \ {<<>>}
           r == Fields(str, Delim)
<1>1. tokens \in Seq(Seq(C)) /\ str \in Seq(C) /\ input \in Seq(C)
  BY DEF TokenizerInv
<1>2. r \in Lists(C) /\ (str = <<>> => r = <<>>)
  BY <1>1, FieldsAre
<1>3. r \in Seq(Seq(C))
  BY <1>2 DEF Lists
<1>4. PICK n \in 0 .. 2 :
        /\ SubSeq(tokens, 1, n) \o r = Fields(input, Delim)
        /\ n < 2 => str = <<>>
        /\ \A k \in n + 1 .. 2 : tokens[k] = <<>>
  BY DEF TokenizerInv, KeepsFields
<1> HIDE DEF r, C
<1> DEFINE V == Seq(C)
<1>5. /\ SubSeq(tokens, 1, n) \in Seq(V) /\ Len(SubSeq(tokens, 1, n)) = n
      /\ \A k \in 1 .. n : SubSeq(tokens, 1, n)[k] = tokens[k]
  <2> HIDE DEF V
  <2>1. tokens \in Seq(V)
    BY <1>1 DEF V
  <2> QED BY <2>1
<1> DEFINE f == SubSeq(tokens, 1, n) \o r
<1>6. Len(f) = n + Len(r) /\ Len(r) \in Nat /\ \A k \in 1 .. n : f[k] = SubSeq(tokens, 1, n)[k]
  <2> HIDE DEF V
  <2>1. r \in Seq(V)
    BY <1>3 DEF V
  <2>2. \A g \in Seq(V) :
          Len(g \o r) = Len(g) + Len(r) /\ \A k \in 1 .. Len(g) : (g \o r)[k] = g[k]
    BY <2>1
  <2> QED BY <1>5, <2>1, <2>2
<1>7. f = Fields(input, Delim)
  BY <1>4
<1> HIDE DEF f
<1>8. CASE i <= n
  <2>1. i <= Len(f) /\ f[i] = tokens[i]
    BY <1>5, <1>6, <1>8
  <2> QED BY <1>7, <2>1 DEF Field
<1>9. CASE i > n
  <2>1. tokens[i] = <<>> /\ str = <<>>
    BY <1>4, <1>9
  <2>2. Len(r) = 0
    BY <1>2, <2>1
  <2>3. ~ (i <= Len(f))
    BY <1>6, <1>9, <2>2
  <2> QED BY <1>7, <2>1, <2>3 DEF Field
<1> QED BY <1>8, <1>9

(* The options that have been entered in the map: one whose word is being  *)
(* taken apart has not.                                                    *)
Done == IF pc = "tokens" THEN Named \ {Len(given)} ELSE Named

MapInv ==
  /\ pc = "tokens" =>
       given # <<>> /\ given[Len(given)] = <<"r", input>> /\ HasColon(input)
  /\ pc # "ended" => Maps(resMap, given, Done)
  /\ pc \in {"defined", "inherit", "id", "resources", "exec"} => counts = resMap

(* An option without a name leaves the map.                                *)
LEMMA NoName ==
  ASSUME ScanInv, MapInv, NEW c \in WithArgument \ (Queries \cup {"r"}), TakeOption(c),
         resMap' = resMap, pc' = pc
  PROVE  MapInv'
<1>1. pc = "options" /\ Maps(resMap, given, Named)
  BY DEF TakeOption, Here, MapInv, Done
<1>2. CASE given' = given
  <2>1. Named' = Named
    BY <1>2 DEF Named, Asking
  <2> QED BY <1>1, <1>2, <2>1 DEF MapInv, Done
<1>3. CASE given' = Append(given, <<c, Arg>>)
  <2>1. /\ Named' = Named /\ Named \subseteq DOMAIN given
        /\ \A i \in DOMAIN given : given'[i] = given[i]
    BY <1>3, Another
  <2>2. Maps(resMap, given', Named)
    BY <1>1, <2>1, MapsLonger
  <2> QED BY <1>1, <2>1, <2>2 DEF MapInv, Done
<1> QED BY <1>2, <1>3 DEF TakeOption

(* One with a name adds it to the map, now or later.                       *)
LEMMA NewName ==
  ASSUME ScanInv, MapInv, NEW c \in Queries \cup {"r"}, NEW w,
         pc = "options", given' = Append(given, <<c, w>>)
  PROVE  /\ Maps(resMap, given', Named)
         /\ Named' = Named \cup {Len(given')} /\ Named \in SUBSET Nat
         /\ Len(given') \in Nat \ {0} /\ \A i \in Named : i < Len(given')
         /\ given'[Len(given')] = <<c, w>>
<1>1. Maps(resMap, given, Named)
  BY DEF MapInv, Done
<1>2. c \in WithArgument
  BY DEF WithArgument
<1>3. /\ Named' = Named \cup {i \in {Len(given) + 1} : c \in Queries \cup {"r"}}
      /\ \A i \in DOMAIN given : given'[i] = given[i]
      /\ given'[Len(given) + 1] = <<c, w>>
      /\ Named \subseteq DOMAIN given
  BY <1>2, Another
<1>4. Maps(resMap, given', Named)
  BY <1>1, <1>3, MapsLonger
<1>5. given \in Seq(WithArgument \X ToSet(argv))
  BY DEF ScanInv
<1>6. Len(given') = Len(given) + 1 /\ Len(given) \in Nat /\ DOMAIN given = 1 .. Len(given)
  BY <1>5
<1>7. \A i \in Named : i \in Nat /\ i < Len(given')
  BY <1>3, <1>6
<1> QED BY <1>3, <1>4, <1>6, <1>7

LEMMA QueryMap ==
  ASSUME ScanInv, MapInv, Query
  PROVE  MapInv'
<1>1. PICK c \in Queries :
        /\ pc = "options" /\ pc' = pc
        /\ given' = Append(given, <<c, Arg>>)
        /\ resMap' = Put(resMap, Arg, 1)
  BY DEF Query, TakeOption, Here
<1> DEFINE n == Len(given')
<1>2. /\ Maps(resMap, given', Named) /\ Named' = Named \cup {n} /\ Named \in SUBSET Nat
      /\ n \in Nat /\ \A i \in Named : i < n
      /\ given'[n] = <<c, Arg>>
  BY <1>1, NewName
<1> HIDE DEF n
<1>3. NameIn(given'[n]) = Arg /\ CountIn(given'[n]) = 1
  <2>1. given'[n][1] = c /\ given'[n][2] = Arg /\ c # "r"
    BY <1>2 DEF Queries
  <2> QED BY <2>1 DEF NameIn, CountIn
<1>4. Maps(Put(resMap, NameIn(given'[n]), CountIn(given'[n])), given', Named \cup {n})
  <2>1. CountIn(given'[n]) \in Nat \ {0}
    BY <1>3
  <2> QED BY <1>2, <2>1, MapsNext
<1>5. Maps(resMap', given', Named')
  BY <1>1, <1>2, <1>3, <1>4
<1> QED BY <1>1, <1>5 DEF MapInv, Done

LEMMA ResourceMap ==
  ASSUME ScanInv, WordsInv, MapInv, Resource
  PROVE  MapInv'
<1>1. /\ pc = "options" /\ Arg # <<>>
      /\ given' = Append(given, <<"r", Arg>>)
  BY DEF Resource, TakeOption, Here
<1> DEFINE n == Len(given')
<1>2. /\ Maps(resMap, given', Named) /\ Named' = Named \cup {n} /\ Named \in SUBSET Nat
      /\ n \in Nat \ {0} /\ \A i \in Named : i < n
      /\ given'[n] = <<"r", Arg>>
  BY <1>1, NewName
<1>3. CASE HasColon(Arg)
  <2>1. pc' = "tokens" /\ input' = Arg /\ resMap' = resMap
    BY <1>3 DEF Resource, Construct
  <2>2. given' # <<>>
    BY <1>2
  <2>3. Named' \ {n} = Named
    BY <1>2
  <2> HIDE DEF n
  <2>4. Done' = Named
    BY <2>1, <2>3 DEF Done, n
  <2> QED BY <1>2, <1>3, <2>1, <2>2, <2>4 DEF MapInv, n
<1>4. CASE ~ HasColon(Arg)
  <2> HIDE DEF n
  <2>1. pc' = pc /\ resMap' = Put(resMap, Arg, 1)
    BY <1>4 DEF Resource
  <2>2. Arg \in Seq(ToSet(Arg))
    BY ArgIsWord DEF Resource
  <2>3. NameIn(given'[n]) = Arg /\ CountIn(given'[n]) = 1
    <3>1. Field(Arg, 1) = Arg
      BY <1>1, <1>4, <2>2, WholeWord
    <3>2. given'[n][1] = "r" /\ given'[n][2] = Arg
      BY <1>2
    <3> QED BY <1>4, <3>1, <3>2 DEF NameIn, CountIn
  <2>4. Maps(Put(resMap, NameIn(given'[n]), CountIn(given'[n])), given', Named \cup {n})
    <3>1. CountIn(given'[n]) \in Nat \ {0}
      BY <2>3
    <3> QED BY <1>2, <3>1, MapsNext
  <2>5. Maps(resMap', given', Named')
    BY <1>2, <2>1, <2>3, <2>4
  <2> QED BY <1>1, <2>1, <2>5 DEF MapInv, Done
<1> QED BY <1>3, <1>4

LEMMA CountedMap ==
  ASSUME ScanInv, TokenizerInv, MapInv, Counted
  PROVE  MapInv'
<1> DEFINE n == Len(given)
<1>1. /\ pc = "tokens" /\ Len(tokens) = 2 /\ given' = given /\ Named' = Named
      /\ given # <<>> /\ given[n] = <<"r", input>> /\ HasColon(input)
      /\ Maps(resMap, given, Named \ {n})
  BY DEF Counted, MapInv, Done, scanned, Named, Asking
<1>2. given \in Seq(WithArgument \X ToSet(argv)) /\ n \in Nat \ {0} /\ n \in DOMAIN given
  BY <1>1 DEF ScanInv
<1>3. n \in Named /\ Named \subseteq DOMAIN given /\ DOMAIN given = 1 .. n
  BY <1>1, <1>2 DEF Named, Asking
<1>4. \A i \in Named \ {n} : i \in Nat /\ i < n
  BY <1>2, <1>3
<1> HIDE DEF n
<1>5. NameIn(given[n]) = tokens[1] /\ CountIn(given[n]) = Atoi(tokens[2])
  <2>1. given[n][1] = "r" /\ given[n][2] = input
    BY <1>1
  <2>2. Field(input, 1) = tokens[1] /\ Field(input, 2) = tokens[2]
    BY <1>1, TokensAreFields
  <2> QED BY <1>1, <2>1, <2>2 DEF NameIn, CountIn
<1>6. CASE Atoi(tokens[2]) < 1
  <2>1. pc' = "ended"
    BY <1>6 DEF Counted, End
  <2> QED BY <2>1 DEF MapInv
<1>7. CASE ~ (Atoi(tokens[2]) < 1)
  <2>1. pc' = "options" /\ resMap' = Put(resMap, tokens[1], Atoi(tokens[2]))
    BY <1>7 DEF Counted
  <2>2. Atoi(tokens[2]) \in Nat
    <3> DEFINE V == Seq(ToSet(input))
    <3>1. tokens \in Seq(V)
      BY DEF TokenizerInv
    <3> HIDE DEF V
    <3>2. \A s \in Seq(V) : Len(s) = 2 => s[2] \in V
      OBVIOUS
    <3>3. tokens[2] \in V
      BY <1>1, <3>1, <3>2, Zenon
    <3> QED BY <3>3, AtoiType DEF V
  <2>3. CountIn(given[n]) \in Nat \ {0}
    BY <1>5, <1>7, <2>2
  <2>4. Maps(Put(resMap, NameIn(given[n]), CountIn(given[n])), given, (Named \ {n}) \cup {n})
    <3>1. Named \ {n} \in SUBSET Nat
      BY <1>4
    <3> QED BY <1>1, <1>2, <1>4, <2>3, <3>1, MapsNext
  <2>5. (Named \ {n}) \cup {n} = Named
    BY <1>3
  <2>6. Maps(resMap', given', Named')
    BY <1>1, <1>5, <2>1, <2>4, <2>5
  <2> QED BY <2>1, <2>6 DEF MapInv, Done
<1> QED BY <1>6, <1>7

LEMMA DefineMap ==
  ASSUME MapInv, DefineResources
  PROVE  MapInv'
<1>1. /\ pc = "parsed" /\ given' = given /\ resMap' = resMap /\ Named' = Named
      /\ Maps(resMap, given, Named)
  BY DEF DefineResources, MapInv, Done, scanned, settings, Named, Asking
<1>2. CASE resMap = <<>>
  BY <1>2 DEF DefineResources, End, MapInv
<1>3. CASE resMap # <<>>
  <2>1. /\ pc' = "defined"
        /\ counts' = [r \in DOMAIN resMap |-> IF resMap[r] > 1 THEN resMap[r] ELSE 1]
    BY <1>3 DEF DefineResources
  <2>2. \A r \in DOMAIN resMap : resMap[r] \in Nat \ {0}
    BY <1>1 DEF Maps, LastNamed
  <2>3. \A x \in Nat \ {0} : (IF x > 1 THEN x ELSE 1) = x
    OBVIOUS
  <2>4. resMap = [r \in DOMAIN resMap |-> resMap[r]]
    BY <1>1 DEF Maps
  <2>5. counts' = [r \in DOMAIN resMap |-> resMap[r]]
    BY <2>1, <2>2, <2>3
  <2>6. counts' = resMap'
    BY <1>1, <2>4, <2>5
  <2> QED BY <1>1, <2>1, <2>6 DEF MapInv, Done
<1> QED BY <1>2, <1>3

LEMMA MapStep ==
  ScanInv /\ WordsInv /\ TokenizerInv /\ MapInv /\ [Next]_vars => MapInv'
<1> SUFFICES ASSUME ScanInv, WordsInv, TokenizerInv, MapInv, [Next]_vars PROVE MapInv'
  OBVIOUS
<1>1. CASE PassOver \/ EndOfOptions \/ Detach \/ ShowHelp \/ Usage
  <2>1. /\ given' = given /\ resMap' = resMap /\ pc = "options"
        /\ pc' \in {"options", "parsed", "ended"}
    BY <1>1 DEF PassOver, EndOfOptions, Detach, ShowHelp, Usage, Here, End, scanned, settings
  <2> QED BY <2>1 DEF MapInv, Done, Named, Asking
<1>2. CASE Number \/ Prefix \/ Address
  <2>1. PICK c \in WithArgument \ (Queries \cup {"r"}) : TakeOption(c)
    BY <1>2 DEF Number, Prefix, Address, WithArgument, Numeric, Queries
  <2>2. resMap' = resMap /\ pc' = pc
    BY <1>2 DEF Number, Prefix, Address, settings
  <2> QED BY <2>1, <2>2, NoName
<1>3. CASE NoQuery
  <2>1. given' = given /\ resMap' = resMap /\ pc' = pc /\ pc = "options"
    BY <1>3 DEF NoQuery, TakeOption, settings, Here
  <2> QED BY <2>1 DEF MapInv, Done, Named, Asking
<1>4. CASE ReadTokens
  <2>1. given' = given /\ resMap' = resMap /\ pc' = pc /\ pc = "tokens" /\ input' = input
    BY <1>4 DEF ReadTokens, scanned, settings, Tokenize, Seek, Squeeze, TrimLeading, TrimEnding,
                NextToken
  <2> QED BY <2>1 DEF MapInv, Done, Named, Asking, HasColon
<1>5. CASE Query \/ Resource \/ Counted \/ DefineResources
  BY <1>5, QueryMap, ResourceMap, CountedMap, DefineMap
<1>6. CASE AskQuery \/ Execute
  <2>1. /\ given' = given /\ resMap' = resMap /\ counts' = counts /\ pc = "defined"
        /\ pc' \in {"ended", "inherit"}
    BY <1>6 DEF AskQuery, Execute, End, scanned, settings
  <2> QED BY <2>1 DEF MapInv, Done, Named, Asking
<1>7. CASE Environ
  <2>1. /\ given' = given /\ resMap' = resMap /\ counts' = counts
        /\ pc \in {"inherit", "id", "resources"} /\ pc' \in {"inherit", "id", "resources", "exec"}
    BY <1>7 DEF Environ, Inherit, Inherited, RegisterId, RegisterResources, scanned, settings
  <2> QED BY <2>1 DEF MapInv, Done, Named, Asking
<1>8. CASE UNCHANGED vars
  BY <1>8 DEF vars, scanned, settings, child, tokenizer, MapInv, Done, Named, Asking, HasColon
<1> QED BY <1>1, <1>2, <1>3, <1>4, <1>5, <1>6, <1>7, <1>8 DEF Next

LEMMA InitMap == Init => MapInv
<1> SUFFICES ASSUME Init PROVE MapInv
  OBVIOUS
<1>1. pc = "options" /\ given = <<>> /\ resMap = <<>>
  BY DEF Init
<1>2. Done = {}
  BY <1>1 DEF Done, Named, Asking
<1>3. Maps(<<>>, given, {})
  BY DEF Maps
<1> QED BY <1>1, <1>2, <1>3 DEF MapInv

LEMMA AsAsked ==
  ASSUME ScanInv, MapInv
  PROVE  DefinedAsAsked
<1> SUFFICES ASSUME pc = "defined"
             PROVE  /\ DOMAIN counts = {NameIn(given[i]) : i \in Named}
                    /\ \A r \in DOMAIN counts :
                         counts[r] = CountIn(given[Max({i \in Named : NameIn(given[i]) = r})])
                    /\ \A i \in Named : CountIn(given[i]) >= 1
  BY DEF DefinedAsAsked
<1>1. Maps(counts, given, Named)
  BY DEF MapInv, Done
<1>2. Named \subseteq Nat
  BY DEF Named, Asking, ScanInv
<1>3. ASSUME NEW r \in DOMAIN counts
      PROVE  counts[r] = CountIn(given[Max({i \in Named : NameIn(given[i]) = r})])
  <2> DEFINE S == {i \in Named : NameIn(given[i]) = r}
  <2>1. PICK i \in Named : LastNamed(given, Named, r, i) /\ counts[r] = CountIn(given[i])
    BY <1>1 DEF Maps
  <2>2. S \in SUBSET Nat /\ i \in S /\ \A j \in S : j <= i
    BY <1>2, <2>1 DEF LastNamed
  <2>3. Max(S) = i
    <3> HIDE DEF S
    <3> QED BY <2>2, LargestIsMax
  <2> QED BY <2>1, <2>3
<1>4. DOMAIN counts = {NameIn(given[i]) : i \in Named}
  BY <1>1 DEF Maps
<1>5. \A i \in Named : CountIn(given[i]) >= 1
  BY <1>1 DEF Maps
<1> QED BY <1>3, <1>4, <1>5

-----------------------------------------------------------------------------
(* A string that ends with d, or is empty, and then w and another d has    *)
(* one more field, which is w.                                             *)
LEMMA OneFieldMore ==
  ASSUME NEW C, NEW s \in Seq(C), NEW d \in C, NEW w \in Seq(C), w # <<>>,
         \A k \in 1 .. Len(w) : w[k] # d, Len(s) = 0 \/ s[Len(s)] = d
  PROVE  Fields(s \o Append(w, d), d) = Append(Fields(s, d), w)
<1> DEFINE t == Append(w, d)
           u == s \o t
           a == Len(s)
           g == Fields(s, d)
<1>1. /\ t \in Seq(C) /\ Len(t) = Len(w) + 1 /\ Len(w) \in Nat \ {0}
      /\ t[Len(w) + 1] = d /\ \A k \in 1 .. Len(w) : t[k] = w[k]
  OBVIOUS
<1> HIDE DEF t
<1>2. /\ u \in Seq(C) /\ Len(u) = a + Len(t) /\ a \in Nat
      /\ \A k \in 1 .. a : u[k] = s[k]
      /\ \A k \in 1 .. Len(t) : u[a + k] = t[k]
  BY <1>1
<1> HIDE DEF u
<1>3. Runs(t, d)[Len(t)] = <<w>>
  <2>1. Len(w) \in 1 .. Len(t) /\ \A k \in 1 .. Len(w) : t[k] # d
    BY <1>1
  <2>2. Runs(t, d)[Len(w)] = <<SubSeq(t, 1, Len(w))>>
    BY <1>1, <2>1, OneRun
  <2>3. SubSeq(t, 1, Len(w)) = w
    BY <1>1
  <2>4. Len(t) \in 1 .. Len(t) /\ t[Len(t)] = d /\ Len(t) - 1 = Len(w)
    BY <1>1
  <2>5. Runs(t, d)[Len(t)] = Runs(t, d)[Len(w)]
    BY <1>1, <2>4, RunsAtDelimiter
  <2> QED BY <2>2, <2>3, <2>5
<1>4. g \in Lists(C)
  BY FieldsAre
<1>5. SameRest(C, u, a, t, 0, d)
  <2>1. /\ a \in 0 .. Len(u) /\ 0 \in 0 .. Len(t) /\ Len(u) - a = Len(t) - 0
        /\ \A k \in 1 .. Len(u) - a : u[a + k] = t[0 + k]
    BY <1>1, <1>2
  <2>2. a = 0 \/ u[a] = d
    BY <1>2
  <2> QED BY <1>1, <1>2, <2>1, <2>2, Zenon DEF SameRest
<1>6. After(g, u, a, t, 0, d)
  <2>1. Runs(u, d)[a] = Runs(s, d)[a]
    <3>1. a <= Len(u) /\ a <= Len(s)
      BY <1>1, <1>2
    <3>2. a \in Nat /\ u \in Seq(C) /\ \A k \in 1 .. a : u[k] = s[k]
      BY <1>2
    <3> HIDE DEF a
    <3> QED BY <3>1, <3>2, SameBeginning
  <2>2. Runs(t, d)[0] = <<>>
    BY <1>1, RunsAre
  <2>3. g \o <<>> = g
    <3> DEFINE V == Seq(C) \ {<<>>}
    <3>1. g \in Seq(V)
      BY <1>4 DEF Lists
    <3> HIDE DEF V, g
    <3> QED BY <3>1
  <2> HIDE DEF a
  <2> QED BY <2>1, <2>2, <2>3 DEF After, Fields, a
<1>7. After(g, u, Len(u), t, Len(t), d)
  <2> HIDE DEF g, a
  <2> QED BY <1>4, <1>5, <1>6, SameEnding, Zenon
<1>8. g \o <<w>> = Append(g, w)
  <2> DEFINE V == Seq(C) \ {<<>>}
  <2>1. g \in Seq(V) /\ w \in V
    BY <1>4 DEF Lists
  <2> HIDE DEF V, g
  <2> QED BY <2>1
<1>9. Fields(u, d) = g \o <<w>>
  <2> HIDE DEF g
  <2> QED BY <1>3, <1>7, Zenon DEF After, Fields
<1> QED BY <1>8, <1>9 DEF u, t

(* The lines of a map: each of its names, with its value.                  *)
LEMMA LinesAre ==
  ASSUME NEW m, IsFiniteSet(DOMAIN m)
  PROVE  /\ Len(Lines(m)) \in Nat /\ DOMAIN Lines(m) = 1 .. Len(Lines(m))
         /\ \A i \in 1 .. Len(Lines(m)) :
              Lines(m)[i].name \in DOMAIN m /\ Lines(m)[i].val = m[Lines(m)[i].name]
         /\ \A r \in DOMAIN m : \E i \in 1 .. Len(Lines(m)) : Lines(m)[i].name = r
         /\ \A i, j \in 1 .. Len(Lines(m)) : Lines(m)[i].name = Lines(m)[j].name => i = j
<1> DEFINE C == Cardinality(DOMAIN m)
           f == SetToSeq(DOMAIN m)
           s == Lines(m)
<1>1. C \in Nat
  BY AsSequence
<1>2. /\ f \in [1 .. C -> DOMAIN m]
      /\ \A r \in DOMAIN m : \E i \in 1 .. C : f[i] = r
      /\ \A i, j \in 1 .. C : f[i] = f[j] => i = j
  BY AsSequence DEF Surjection, Injection, IsInjective
<1> HIDE DEF f, C
<1>3. s = [i \in 1 .. C |-> [name |-> f[i], val |-> m[f[i]]]]
  BY <1>2 DEF Lines, f
<1> HIDE DEF s
<1>4. Len(s) = C /\ DOMAIN s = 1 .. C
  BY <1>1, <1>3
<1>5. \A i \in 1 .. C : s[i].name = f[i] /\ s[i].val = m[f[i]]
  BY <1>3
<1>6. \A i \in 1 .. C : s[i].name \in DOMAIN m /\ s[i].val = m[s[i].name]
  BY <1>2, <1>5
<1>7. \A r \in DOMAIN m : \E i \in 1 .. C : s[i].name = r
  BY <1>2, <1>5
<1>8. \A i, j \in 1 .. C : s[i].name = s[j].name => i = j
  BY <1>2, <1>5
<1> QED BY <1>1, <1>4, <1>6, <1>7, <1>8 DEF s

(* The value that the lines have for a name is the one of the map.         *)
LEMMA ValueOfLine ==
  ASSUME NEW m, IsFiniteSet(DOMAIN m), NEW r \in DOMAIN m
  PROVE  Lines(m)[Max({i \in DOMAIN Lines(m) : Lines(m)[i].name = r})].val = m[r]
<1> DEFINE S == {i \in DOMAIN Lines(m) : Lines(m)[i].name = r}
<1>1. PICK i \in 1 .. Len(Lines(m)) : Lines(m)[i].name = r
  BY LinesAre
<1>2. S \in SUBSET Nat /\ i \in S /\ \A j \in S : j <= i
  <2>1. /\ DOMAIN Lines(m) = 1 .. Len(Lines(m))
        /\ \A j \in 1 .. Len(Lines(m)) : Lines(m)[i].name = Lines(m)[j].name => i = j
    BY LinesAre
  <2>2. S \in SUBSET (1 .. Len(Lines(m))) /\ i \in S
    BY <1>1, <2>1
  <2>3. \A j \in S : j = i
    BY <1>1, <2>1, <2>2
  <2> HIDE DEF S
  <2> QED BY <2>2, <2>3
<1>3. Max(S) = i
  <2> HIDE DEF S
  <2> QED BY <1>2, LargestIsMax
<1>4. Lines(m)[i].val = m[r]
  BY <1>1, LinesAre
<1> QED BY <1>3, <1>4

LEMMA ElementsOfAppend ==
  ASSUME NEW C, NEW s \in Seq(C), NEW x \in C
  PROVE  ToSet(Append(s, x)) = ToSet(s) \cup {x}
<1> DEFINE t == Append(s, x)
           n == Len(s)
<1>1. /\ DOMAIN t = 1 .. n + 1 /\ DOMAIN s = 1 .. n /\ n \in Nat
      /\ t[n + 1] = x /\ \A i \in 1 .. n : t[i] = s[i]
  OBVIOUS
<1> HIDE DEF t, n
<1>2. ASSUME NEW i \in 1 .. n + 1 PROVE t[i] \in ToSet(s) \cup {x}
  <2>1. i = n + 1 \/ i \in 1 .. n
    BY <1>1
  <2> QED BY <1>1, <2>1 DEF ToSet
<1>3. ASSUME NEW i \in 1 .. n PROVE s[i] \in ToSet(t)
  <2>1. i \in DOMAIN t /\ t[i] = s[i]
    BY <1>1
  <2> QED BY <2>1 DEF ToSet
<1>4. x \in ToSet(t)
  <2>1. n + 1 \in DOMAIN t
    BY <1>1
  <2> QED BY <1>1, <2>1 DEF ToSet
<1>5. ToSet(t) \subseteq ToSet(s) \cup {x}
  BY <1>1, <1>2 DEF ToSet
<1>6. ToSet(s) \subseteq ToSet(t)
  BY <1>1, <1>3 DEF ToSet
<1> QED BY <1>4, <1>5, <1>6 DEF t

(* A list that ends with d, or nothing yet, with W for the set of fields.  *)
Listed(C, s, d, W) ==
  /\ s \in Seq(C) /\ (Len(s) = 0 \/ s[Len(s)] = d)
  /\ ToSet(Fields(s, d)) = W

LEMMA ListedOneMore ==
  ASSUME NEW C, NEW s, NEW d \in C, NEW W, Listed(C, s, d, W),
         NEW w \in Seq(C), w # <<>>, \A k \in 1 .. Len(w) : w[k] # d
  PROVE  Listed(C, s \o Append(w, d), d, W \cup {w})
<1>1. s \in Seq(C) /\ (Len(s) = 0 \/ s[Len(s)] = d) /\ ToSet(Fields(s, d)) = W
  BY DEF Listed
<1> DEFINE u == s \o Append(w, d)
<1>2. u \in Seq(C) /\ u[Len(u)] = d
  BY <1>1
<1>3. Fields(u, d) = Append(Fields(s, d), w)
  BY <1>1, OneFieldMore
<1> HIDE DEF u
<1>4. ToSet(Fields(u, d)) = W \cup {w}
  <2> DEFINE V == Seq(C) \ {<<>>}
             g == Fields(s, d)
  <2>1. g \in Seq(V) /\ w \in V
    BY <1>1, FieldsAre DEF Lists
  <2>2. ToSet(g) = W
    BY <1>1
  <2> HIDE DEF V, g
  <2>3. ToSet(Append(g, w)) = ToSet(g) \cup {w}
    BY <2>1, ElementsOfAppend
  <2> QED BY <1>3, <2>2, <2>3 DEF g
<1>5. Listed(C, u, d, W \cup {w})
  BY <1>2, <1>4 DEF Listed
<1> QED BY <1>5 DEF u

Regrouped(s, x, a, b, d) == s \o x \o <<a, b, d>> = s \o Append(x \o <<a, b>>, d)

LEMMA Regroup ==
  ASSUME NEW C, NEW s \in Seq(C), NEW x \in Seq(C), NEW a \in C, NEW b \in C, NEW d \in C
  PROVE  Regrouped(s, x, a, b, d)
<1>1. <<a, b, d>> \in Seq(C)
  OBVIOUS
<1>2. s \o x \o <<a, b, d>> = s \o (x \o <<a, b, d>>)
  BY <1>1, ConcatAssociative
<1>3. x \o <<a, b, d>> = Append(x \o <<a, b>>, d)
  OBVIOUS
<1> QED BY <1>2, <1>3 DEF Regrouped

(* Strings of the form "x:y,", joined: there is such a function of their   *)
(* number, and each has them for its fields.                               *)
Item(x, y, a, i) == x[i] \o <<a, y[i]>>
AllItems(n, x, y, a) == {Item(x, y, a, i) : i \in 1 .. n}
Joins(text, n, x, y, a, d) ==
  /\ text[0] = <<>>
  /\ \A i \in 1 .. n : text[i] = text[i - 1] \o x[i] \o <<a, y[i], d>>

LEMMA JoinExists ==
  ASSUME NEW C, NEW n \in Nat, NEW x \in [1 .. n -> Seq(C)], NEW y \in [1 .. n -> C],
         NEW a \in C, NEW d \in C
  PROVE  \E f : f = [i \in 0 .. n |-> f[i]] /\ Joins(f, n, x, y, a, d)
<1> DEFINE T == Seq(C)
           step == [i \in 1 .. n |-> [v \in T |-> v \o x[i] \o <<a, y[i], d>>]]
<1>1. step \in [1 .. n -> [T -> T]]
  <2> SUFFICES ASSUME NEW i \in 1 .. n, NEW v \in T PROVE v \o x[i] \o <<a, y[i], d>> \in T
    OBVIOUS
  <2>1. <<a, y[i], d>> \in T /\ x[i] \in T
    OBVIOUS
  <2> QED BY <2>1
<1>2. <<>> \in T
  OBVIOUS
<1>3. PICK f \in [0 .. n -> T] : f[0] = <<>> /\ \A i \in 1 .. n : f[i] = step[i][f[i - 1]]
  <2>1. \E f \in [0 .. n -> T] : Follows(f, <<>>, n, step)
    <3> HIDE DEF step, T
    <3> QED BY <1>1, <1>2, Recursion
  <2> QED BY <2>1 DEF Follows
<1>4. ASSUME NEW i \in 1 .. n PROVE f[i] = f[i - 1] \o x[i] \o <<a, y[i], d>>
  <2>1. f[i - 1] \in T
    <3>1. i - 1 \in 0 .. n
      OBVIOUS
    <3> HIDE DEF T, step
    <3> QED BY <1>3, <3>1
  <2> QED BY <1>3, <2>1
<1>5. f = [i \in 0 .. n |-> f[i]]
  <2> HIDE DEF T
  <2> QED BY <1>3
<1> HIDE DEF T, step
<1> QED BY <1>3, <1>4, <1>5 DEF Joins

Without(n, x, y, d) ==
  \A i \in 1 .. n : y[i] # d /\ \A k \in 1 .. Len(x[i]) : x[i][k] # d

LEMMA JoinedFields ==
  ASSUME NEW C, NEW n \in Nat, NEW x \in [1 .. n -> Seq(C)], NEW y \in [1 .. n -> C],
         NEW a \in C, NEW d \in C, a # d, Without(n, x, y, d),
         NEW text, Joins(text, n, x, y, a, d)
  PROVE  Listed(C, text[n], d, AllItems(n, x, y, a))
<1> DEFINE Items(k) == {Item(x, y, a, i) : i \in 1 .. k}
           L(k) == Listed(C, text[k], d, Items(k))
           S == {k \in Nat : k <= n => L(k)}
<1>1. ASSUME NEW i \in 1 .. n
      PROVE  /\ Item(x, y, a, i) \in Seq(C) /\ Item(x, y, a, i) # <<>>
             /\ \A k \in 1 .. Len(Item(x, y, a, i)) : Item(x, y, a, i)[k] # d
  <2>1. x[i] \in Seq(C) /\ y[i] \in C /\ y[i] # d
    BY DEF Without
  <2>2. \A k \in 1 .. Len(x[i]) : x[i][k] # d
    BY DEF Without
  <2>3. \A v \in Seq(C), w \in C :
          /\ v \o <<a, w>> \in Seq(C) /\ v \o <<a, w>> # <<>>
          /\ (w # d /\ \A k \in 1 .. Len(v) : v[k] # d) =>
               \A k \in 1 .. Len(v \o <<a, w>>) : (v \o <<a, w>>)[k] # d
    OBVIOUS
  <2> QED BY <2>1, <2>2, <2>3, Zenon DEF Item
<1>2. 0 \in S
  <2>1. Items(0) = {}
    OBVIOUS
  <2>2. Listed(C, <<>>, d, {})
    <3>1. <<>> \in Seq(C) /\ Len(<<>>) = 0 /\ ToSet(<<>>) = {}
      BY DEF ToSet
    <3>2. Fields(<<>>, d) = <<>>
      BY <3>1, FieldsAre
    <3> QED BY <3>1, <3>2 DEF Listed
  <2>3. L(0)
    <3>1. text[0] = <<>>
      BY DEF Joins
    <3> HIDE DEF Items
    <3> QED BY <2>1, <2>2, <3>1
  <2> HIDE DEF L
  <2> QED BY <2>3
<1>3. ASSUME NEW k \in Nat, k + 1 <= n, L(k)
      PROVE  L(k + 1)
  <2> DEFINE j == k + 1
             z == Item(x, y, a, j)
  <2>1. j \in 1 .. n /\ j - 1 = k
    BY <1>3
  <2>2. text[j] = text[k] \o x[j] \o <<a, y[j], d>>
    <3> HIDE DEF j
    <3> QED BY <2>1 DEF Joins
  <2>3. Items(j) = Items(k) \cup {z}
    <3>1. 1 .. j = (1 .. k) \cup {j}
      OBVIOUS
    <3> HIDE DEF j
    <3> QED BY <3>1
  <2> HIDE DEF j
  <2>4. text[j] = text[k] \o Append(z, d)
    <3>1. text[k] \in Seq(C)
      BY <1>3 DEF Listed
    <3>2. x[j] \in Seq(C) /\ y[j] \in C
      BY <2>1
    <3>3. Regrouped(text[k], x[j], a, y[j], d)
      BY <3>1, <3>2, Regroup
    <3> QED BY <2>2, <3>3, Zenon DEF Item, Regrouped
  <2>5. z \in Seq(C) /\ z # <<>> /\ \A i \in 1 .. Len(z) : z[i] # d
    BY <1>1, <2>1
  <2> HIDE DEF z, Items
  <2>6. Listed(C, text[k] \o Append(z, d), d, Items(k) \cup {z})
    BY <1>3, <2>5, ListedOneMore
  <2>7. Listed(C, text[j], d, Items(j))
    BY <2>3, <2>4, <2>6, Zenon
  <2> QED BY <2>7 DEF j
<1> HIDE DEF L
<1>4. \A k \in Nat : k \in S => k + 1 \in S
  BY <1>3
<1> HIDE DEF S
<1>5. n \in S
  BY <1>2, <1>4, NumbersIn
<1>6. L(n)
  BY <1>5 DEF S
<1> QED BY <1>6 DEF L, AllItems

LEMMA WithoutLast ==
  ASSUME NEW C, NEW s, NEW d, NEW W, Listed(C, s, d, W)
  PROVE  ToSet(Fields(Front(s), d)) = W
<1>1. s \in Seq(C) /\ (Len(s) = 0 \/ s[Len(s)] = d) /\ ToSet(Fields(s, d)) = W
  BY DEF Listed
<1>2. CASE s = <<>>
  <2>1. Len(s) = 0
    BY <1>2
  <2>2. SubSeq(s, 1, Len(s) - 1) = <<>>
    BY <1>1, <2>1, SubSeqEmpty
  <2> QED BY <1>1, <1>2, <2>2 DEF Front
<1>3. CASE s # <<>>
  <2>1. s[Len(s)] = d
    BY <1>1, <1>3
  <2>2. Fields(Front(s), d) = Fields(s, d)
    BY <1>1, <1>3, <2>1, EraseLast DEF Last
  <2> QED BY <1>1, <2>2
<1> QED BY <1>2, <1>3

(* A step of the recursion of ResourceList, and what it makes of the text. *)
Longer(v, lines, i) == v \o lines[i].name \o <<":", ToString(lines[i].val), ",">>

IsText(text, n, lines) ==
  text = [i \in 0 .. n |-> IF i = 0 THEN <<>> ELSE Longer(text[i - 1], lines, i)]

LEMMA LongerEach ==
  ASSUME NEW n \in Nat, NEW lines, NEW text,
         text = [i \in 0 .. n |-> IF i = 0 THEN <<>> ELSE Longer(text[i - 1], lines, i)]
  PROVE  text[0] = <<>> /\ \A i \in 1 .. n : text[i] = Longer(text[i - 1], lines, i)
OBVIOUS

LEMMA LongerAll ==
  ASSUME NEW n \in Nat, NEW lines, NEW text, text = [i \in 0 .. n |-> text[i]],
         text[0] = <<>>, \A i \in 1 .. n : text[i] = Longer(text[i - 1], lines, i)
  PROVE  IsText(text, n, lines)
<1>1. \A i \in 0 .. n : text[i] = IF i = 0 THEN <<>> ELSE Longer(text[i - 1], lines, i)
  <2> SUFFICES ASSUME NEW i \in 0 .. n
               PROVE  text[i] = IF i = 0 THEN <<>> ELSE Longer(text[i - 1], lines, i)
    OBVIOUS
  <2>1. CASE i = 0
    BY <2>1, Zenon
  <2>2. CASE i # 0
    <3>1. i \in 1 .. n
      BY <2>2
    <3> QED BY <2>2, <3>1, Zenon
  <2> QED BY <2>1, <2>2
<1> QED BY <1>1, Zenon DEF IsText

LEMMA SubsetOfSymbols ==
  ASSUME NEW B, NEW C, B \subseteq C, NEW r \in Seq(B), NEW d, d \notin B
  PROVE  r \in Seq(C) /\ \A k \in 1 .. Len(r) : r[k] # d
OBVIOUS

(* No comma in a name, none for a number.                                  *)
NoCommaIn(m) ==
  \A r \in DOMAIN m : r \in Seq(ToSet(r)) /\ "," \notin ToSet(r) /\ ToString(m[r]) # ","

(* The names and the numbers, by the line.                                 *)
InOrder(m, lines, n, x, y) ==
  /\ \A i \in 1 .. n : x[i] \in DOMAIN m /\ y[i] = ToString(m[x[i]])
  /\ \A i \in 1 .. n : x[i] = lines[i].name /\ y[i] = ToString(lines[i].val)
  /\ \A r \in DOMAIN m : \E i \in 1 .. n : x[i] = r

LEMMA LinesInOrder ==
  ASSUME NEW m, IsFiniteSet(DOMAIN m)
  PROVE  LET n == Len(Lines(m))
             x == [i \in 1 .. n |-> Lines(m)[i].name]
             y == [i \in 1 .. n |-> ToString(m[x[i]])]
         IN  n \in Nat /\ InOrder(m, Lines(m), n, x, y)
<1> DEFINE lines == Lines(m)
           n == Len(lines)
           x == [i \in 1 .. n |-> lines[i].name]
           y == [i \in 1 .. n |-> ToString(m[x[i]])]
<1>1. /\ n \in Nat
      /\ \A i \in 1 .. n : lines[i].name \in DOMAIN m /\ lines[i].val = m[lines[i].name]
      /\ \A r \in DOMAIN m : \E i \in 1 .. n : lines[i].name = r
  BY LinesAre
<1> HIDE DEF lines, n
<1>2. InOrder(m, lines, n, x, y)
  BY <1>1 DEF InOrder
<1> QED BY <1>1, <1>2 DEF lines, n

LEMMA TypeOfLines ==
  ASSUME NEW m, NoCommaIn(m), NEW lines, NEW n, NEW x, NEW y, InOrder(m, lines, n, x, y),
         NEW C, \A r \in DOMAIN m : ToSet(r) \subseteq C /\ ToString(m[r]) \in C
  PROVE  (\A i \in 1 .. n : x[i] \in Seq(C) /\ y[i] \in C) /\ Without(n, x, y, ",")
<1>1. ASSUME NEW r \in DOMAIN m
      PROVE  r \in Seq(C) /\ \A k \in 1 .. Len(r) : r[k] # ","
  <2>1. ToSet(r) \subseteq C /\ r \in Seq(ToSet(r)) /\ "," \notin ToSet(r)
    BY Zenon DEF NoCommaIn
  <2> QED BY <2>1, SubsetOfSymbols
<1>2. ASSUME NEW i \in 1 .. n
      PROVE  /\ x[i] \in Seq(C) /\ y[i] \in C /\ y[i] # ","
             /\ \A k \in 1 .. Len(x[i]) : x[i][k] # ","
  <2>1. x[i] \in DOMAIN m /\ y[i] = ToString(m[x[i]])
    BY Zenon DEF InOrder
  <2>2. ToString(m[x[i]]) \in C /\ ToString(m[x[i]]) # ","
    BY <2>1, Zenon DEF NoCommaIn
  <2>3. x[i] \in Seq(C) /\ \A k \in 1 .. Len(x[i]) : x[i][k] # ","
    BY <1>1, <2>1, Zenon
  <2> QED BY <2>1, <2>2, <2>3, Zenon
<1> QED BY <1>2, Zenon DEF Without

(* The list that is written into the environment has a field for each      *)
(* resource and its count.                                                 *)
LEMMA ResourcesListed ==
  ASSUME NEW m, IsFiniteSet(DOMAIN m), NoCommaIn(m)
  PROVE  ToSet(Fields(ResourceList(m), ",")) = {r \o <<":", ToString(m[r])>> : r \in DOMAIN m}
<1> DEFINE C == (UNION {ToSet(r) : r \in DOMAIN m}) \cup {":", ","}
                  \cup {ToString(m[r]) : r \in DOMAIN m}
           lines == Lines(m)
           n == Len(lines)
           x == [i \in 1 .. n |-> lines[i].name]
           y == [i \in 1 .. n |-> ToString(m[x[i]])]
           Def(f) == [i \in 0 .. n |-> IF i = 0 THEN <<>> ELSE Longer(f[i - 1], lines, i)]
           text == CHOOSE f : f = Def(f)
<1>1. n \in Nat
  BY LinesInOrder
<1>2. InOrder(m, lines, n, x, y)
  BY LinesInOrder
<1> HIDE DEF lines, n
<1>3. x = [i \in 1 .. n |-> x[i]] /\ y = [i \in 1 .. n |-> y[i]]
  OBVIOUS
<1> HIDE DEF x, y
<1>4. ":" \in C /\ "," \in C /\ \A r \in DOMAIN m : ToSet(r) \subseteq C /\ ToString(m[r]) \in C
  BY Zenon
<1> HIDE DEF C
<1>5. (\A i \in 1 .. n : x[i] \in Seq(C) /\ y[i] \in C) /\ Without(n, x, y, ",")
  BY <1>2, <1>4, TypeOfLines
<1>6. x \in [1 .. n -> Seq(C)] /\ y \in [1 .. n -> C]
  BY <1>3, <1>5
<1>7. ":" \in C /\ "," \in C /\ ":" # ","
  BY <1>4
<1>8. PICK f : f = [i \in 0 .. n |-> f[i]] /\ Joins(f, n, x, y, ":", ",")
  BY <1>1, <1>6, <1>7, JoinExists
<1>9. f[0] = <<>> /\ \A i \in 1 .. n : f[i] = Longer(f[i - 1], lines, i)
  BY <1>2, <1>8, Zenon DEF Joins, Longer, InOrder
<1>10. f = Def(f)
  <2>1. IsText(f, n, lines)
    BY <1>1, <1>8, <1>9, LongerAll
  <2> QED BY <2>1, Zenon DEF IsText
<1>11. text = Def(text)
  <2> HIDE DEF Def
  <2> QED BY <1>10, Zenon
<1> HIDE DEF text
<1>12. text[0] = <<>> /\ \A i \in 1 .. n : text[i] = Longer(text[i - 1], lines, i)
  BY <1>1, <1>11, LongerEach
<1>13. Joins(text, n, x, y, ":", ",")
  BY <1>2, <1>12, Zenon DEF Joins, Longer, InOrder
<1>14. Listed(C, text[n], ",", AllItems(n, x, y, ":"))
  BY <1>1, <1>5, <1>6, <1>7, <1>13, JoinedFields
<1>15. ToSet(Fields(Front(text[n]), ",")) = AllItems(n, x, y, ":")
  BY <1>14, WithoutLast
<1>16. AllItems(n, x, y, ":") = {r \o <<":", ToString(m[r])>> : r \in DOMAIN m}
  <2>1. ASSUME NEW i \in 1 .. n
        PROVE  \E r \in DOMAIN m : Item(x, y, ":", i) = r \o <<":", ToString(m[r])>>
    BY <1>2, Zenon DEF Item, InOrder
  <2>2. ASSUME NEW r \in DOMAIN m
        PROVE  \E i \in 1 .. n : r \o <<":", ToString(m[r])>> = Item(x, y, ":", i)
    <3>1. PICK i \in 1 .. n : x[i] = r /\ y[i] = ToString(m[x[i]])
      BY <1>2, Zenon DEF InOrder
    <3> QED BY <3>1, Zenon DEF Item
  <2> QED BY <2>1, <2>2, Zenon DEF AllItems
<1>17. ResourceList(m) = Front(text[n])
  BY Zenon DEF ResourceList, Longer, text, n, lines
<1> QED BY <1>15, <1>16, <1>17

-----------------------------------------------------------------------------
(* The names of resources are strings, and there are finitely many.        *)
NamesInv == IsFiniteSet(DOMAIN resMap) /\ \A r \in DOMAIN resMap : r \in Seq(ToSet(r))

LEMMA OwnSymbols == ASSUME NEW C, NEW s \in Seq(C) PROVE s \in Seq(ToSet(s))
<1>1. DOMAIN s = 1 .. Len(s) /\ Len(s) \in Nat /\ s = [i \in 1 .. Len(s) |-> s[i]]
  OBVIOUS
<1>2. \A i \in 1 .. Len(s) : s[i] \in ToSet(s)
  BY <1>1 DEF ToSet
<1> DEFINE B == ToSet(s)
<1> HIDE DEF B
<1>3. s \in [1 .. Len(s) -> B]
  BY <1>1, <1>2 DEF B
<1>4. s \in Seq(B)
  BY <1>1, <1>3
<1> QED BY <1>4 DEF B

LEMMA OneNameMore ==
  ASSUME NamesInv, NEW r, r \in Seq(ToSet(r)), NEW c, resMap' = Put(resMap, r, c)
  PROVE  NamesInv'
<1>1. DOMAIN resMap' = DOMAIN resMap \cup {r}
  BY PutDomain
<1>2. IsFiniteSet(DOMAIN resMap \cup {r})
  BY FS_AddElement DEF NamesInv
<1> QED BY <1>1, <1>2 DEF NamesInv

LEMMA NamesStep ==
  ScanInv /\ WordsInv /\ TokenizerInv /\ NamesInv /\ [Next]_vars => NamesInv'
<1> SUFFICES ASSUME ScanInv, WordsInv, TokenizerInv, NamesInv, [Next]_vars PROVE NamesInv'
  OBVIOUS
<1>1. CASE resMap' = resMap
  BY <1>1 DEF NamesInv
<1>2. CASE \E c : TakeOption(c) /\ resMap' = Put(resMap, Arg, 1)
  BY <1>2, ArgIsWord, OneNameMore
<1>3. CASE Query \/ Resource
  BY <1>1, <1>2, <1>3 DEF Query, Resource
<1>4. CASE Counted
  <2>1. \/ resMap' = resMap
        \/ Len(tokens) = 2 /\ resMap' = Put(resMap, tokens[1], Atoi(tokens[2]))
    BY <1>4 DEF Counted
  <2>2. CASE Len(tokens) = 2 /\ resMap' = Put(resMap, tokens[1], Atoi(tokens[2]))
    <3> DEFINE V == Seq(ToSet(input))
    <3>1. tokens \in Seq(V)
      BY DEF TokenizerInv
    <3> HIDE DEF V
    <3>2. \A s \in Seq(V) : Len(s) = 2 => s[1] \in V
      OBVIOUS
    <3>3. tokens[1] \in V
      BY <2>2, <3>1, <3>2, Zenon
    <3>4. tokens[1] \in Seq(ToSet(tokens[1]))
      BY <3>3, OwnSymbols DEF V
    <3> QED BY <2>2, <3>4, OneNameMore
  <2> QED BY <1>1, <2>1, <2>2
<1>5. CASE PassOver \/ EndOfOptions \/ Detach \/ ShowHelp \/ Usage
  BY <1>1, <1>5 DEF PassOver, EndOfOptions, Detach, ShowHelp, Usage, settings
<1>6. CASE Number \/ Prefix \/ Address \/ NoQuery
  BY <1>1, <1>6 DEF Number, Prefix, Address, NoQuery, settings
<1>7. CASE ReadTokens \/ DefineResources \/ AskQuery \/ Execute \/ Environ \/ UNCHANGED vars
  BY <1>1, <1>7 DEF ReadTokens, DefineResources, AskQuery, Execute, Environ, vars, settings
<1> QED BY <1>3, <1>4, <1>5, <1>6, <1>7 DEF Next

LEMMA InitNames == Init => NamesInv
<1> SUFFICES ASSUME Init PROVE NamesInv
  OBVIOUS
<1>1. DOMAIN resMap = {}
  BY DEF Init
<1> QED BY <1>1, FS_EmptySet DEF NamesInv

-----------------------------------------------------------------------------
(* What an entry becomes, the number of those that have been read, and the *)
(* last of a name among them.                                              *)
Text(e) == IF e.val = NoVal THEN e.name ELSE e.val
Read == Len(envp) - Len(left)
Newest(env, n, i, k) ==
  i \in 1 .. k /\ env[i].name = n /\ \A j \in 1 .. k : env[j].name = n => j <= i

Entered(m, n, env, k) == \E i \in 1 .. k : Newest(env, n, i, k) /\ m[n] = Text(env[i])

Added == IF pc = "resources" THEN {Id} ELSE IF pc = "exec" THEN Own ELSE {}

ListInv ==
  /\ Len(left) <= Len(envp)
  /\ \A i \in 1 .. Len(left) : left[i] = envp[Read + i]
  /\ pc \in {"id", "resources", "exec"} => left = <<>> /\ array = Lines(list)
  /\ \A n \in DOMAIN list \ Added : Entered(list, n, envp, Read)
  /\ pc = "exec" => list[Resources] = ResourceList(resMap)

LEMMA InheritList ==
  ASSUME EnvInv, ListInv, Inherit, UNCHANGED <<envp, prefix>>
  PROVE  ListInv'
<1>1. /\ pc = "inherit" /\ pc' = pc /\ left # <<>> /\ left' = Tail(left) /\ envp' = envp
      /\ list' = Put(list, Head(left).name, Text(Head(left)))
  BY DEF Inherit, Text
<1> DEFINE r == Read
           e == envp[r + 1]
<1>2. /\ left \in Seq(ToSet(envp)) /\ Len(left) \in Nat \ {0} /\ Len(envp) \in Nat
      /\ Len(left) <= Len(envp)
  BY <1>1 DEF EnvInv, ListInv
<1>3. r \in Nat /\ r = Len(envp) - Len(left)
  BY <1>2 DEF Read
<1>4. Head(left) = e
  <2>1. Head(left) = left[1] /\ 1 \in 1 .. Len(left)
    BY <1>1, <1>2
  <2> QED BY <2>1 DEF ListInv
<1>5. Len(left') = Len(left) - 1 /\ \A i \in 1 .. Len(left) - 1 : left'[i] = left[i + 1]
  BY <1>1, <1>2
<1>6. Read' = r + 1
  <2>1. Read' = Len(envp) - Len(left')
    BY <1>1 DEF Read
  <2> HIDE DEF r
  <2> QED BY <1>2, <1>3, <1>5, <2>1
<1>7. \A i \in 1 .. Len(left) : left[i] = envp[r + i]
  BY DEF ListInv
<1> HIDE DEF r, e
<1>8. ASSUME NEW i \in 1 .. Len(left') PROVE left'[i] = envp'[Read' + i]
  <2>1. i + 1 \in 1 .. Len(left) /\ i \in 1 .. Len(left) - 1 /\ r + (i + 1) = (r + 1) + i
    BY <1>2, <1>3, <1>5
  <2>2. left'[i] = left[i + 1] /\ left[i + 1] = envp[r + (i + 1)]
    BY <1>5, <1>7, <2>1
  <2> QED BY <1>1, <1>6, <2>1, <2>2
<1>9. Len(left') <= Len(envp')
  BY <1>1, <1>2, <1>5
<1>10. ASSUME NEW n \in DOMAIN list'
       PROVE  Entered(list', n, envp, r + 1)
  <2>1. /\ DOMAIN list' = DOMAIN list \cup {e.name}
        /\ list'[n] = IF n = e.name THEN Text(e) ELSE list[n]
    BY <1>1, <1>4 DEF Put
  <2>2. CASE n = e.name
    <3>1. r + 1 \in 1 .. r + 1 /\ \A j \in 1 .. r + 1 : j <= r + 1
      BY <1>3
    <3>2. Newest(envp, n, r + 1, r + 1)
      BY <2>2, <3>1 DEF Newest, e
    <3> QED BY <2>1, <2>2, <3>1, <3>2 DEF e, Entered
  <2>3. CASE n # e.name
    <3>1. n \in DOMAIN list \ Added
      BY <1>1, <2>1, <2>3 DEF Added
    <3>2. PICK i \in 1 .. r : Newest(envp, n, i, r) /\ list[n] = Text(envp[i])
      BY <3>1 DEF ListInv, r, Entered
    <3>3. i \in 1 .. r + 1 /\ \A j \in 1 .. r + 1 : j \in 1 .. r \/ j = r + 1
      BY <1>3
    <3>4. Newest(envp, n, i, r + 1)
      BY <2>3, <3>2, <3>3, Zenon DEF Newest, e
    <3> QED BY <2>1, <2>3, <3>2, <3>3, <3>4 DEF Entered
  <2> QED BY <2>2, <2>3
<1>11. \A n \in DOMAIN list' \ Added' : Entered(list', n, envp', Read')
  BY <1>1, <1>6, <1>10
<1>12. pc' = "inherit"
  BY <1>1
<1> QED BY <1>8, <1>9, <1>11, <1>12 DEF ListInv

(* Another value is entered, under a name of the tool's own.               *)
LEMMA RegisterList ==
  ASSUME ListInv, pc \in {"id", "resources"}, NEW name, NEW val, RegisterEnv(name, val),
         UNCHANGED <<envp, prefix, resMap>>, Added' = Added \cup {name},
         pc' \in {"resources", "exec"},
         pc' = "exec" => name = Resources /\ val = ResourceList(resMap)
  PROVE  ListInv'
<1>1. /\ left = <<>> /\ left' = left /\ envp' = envp /\ Read' = Read
      /\ list' = Put(list, name, val) /\ array' = Lines(list')
  BY DEF RegisterEnv, UpdateArray, ListInv, Read
<1>2. /\ DOMAIN list' = DOMAIN list \cup {name} /\ list'[name] = val
      /\ \A n \in DOMAIN list : n # name => list'[n] = list[n]
  BY <1>1 DEF Put
<1>3. ASSUME NEW n \in DOMAIN list' \ Added'
      PROVE  Entered(list', n, envp', Read')
  <2>1. n \in DOMAIN list \ Added /\ list'[n] = list[n]
    BY <1>2
  <2>2. Entered(list, n, envp, Read)
    BY <2>1 DEF ListInv
  <2> QED BY <1>1, <2>1, <2>2, Zenon DEF Entered
<1>4. pc' = "exec" => list'[Resources'] = ResourceList(resMap')
  BY <1>2 DEF Resources
<1>5. Len(left') <= Len(envp') /\ \A i \in 1 .. Len(left') : left'[i] = envp'[Read' + i]
  BY <1>1 DEF ListInv
<1>6. left' = <<>> /\ array' = Lines(list')
  BY <1>1
<1> QED BY <1>3, <1>4, <1>5, <1>6 DEF ListInv

LEMMA ListStep == EnvInv /\ ListInv /\ [Next]_vars => ListInv'
<1> SUFFICES ASSUME EnvInv, ListInv, [Next]_vars PROVE ListInv'
  OBVIOUS
<1> USE DEF Early
<1>1. ASSUME pc \in Early, pc' \in Early \cup {"ended", "inherit"},
             envp' = envp, environment' = environment
      PROVE  ListInv'
  BY <1>1 DEF ListInv, Added, Read, environment
<1>2. CASE PassOver \/ EndOfOptions \/ Detach \/ ShowHelp \/ Usage
  BY <1>1, <1>2 DEF PassOver, EndOfOptions, Detach, ShowHelp, Usage, Here, End, child
<1>3. CASE ReadTokens \/ Counted \/ DefineResources
  BY <1>1, <1>3 DEF ReadTokens, Counted, DefineResources, End, child
<1>4. CASE Number \/ Prefix \/ Address \/ NoQuery \/ Query \/ Resource
  BY <1>1, <1>4 DEF Number, Prefix, Address, NoQuery, Query, Resource, TakeOption, Here, child
<1>5. CASE AskQuery \/ Execute
  BY <1>1, <1>5 DEF AskQuery, Execute, End
<1>6. CASE Environ
  <2>1. envp' = envp /\ prefix' = prefix /\ resMap' = resMap
    BY <1>6 DEF Environ, settings
  <2>2. CASE Inherit
    BY <2>1, <2>2, InheritList
  <2>3. CASE Inherited
    <3>1. /\ pc' = "id" /\ pc = "inherit" /\ left = <<>> /\ left' = left /\ list' = list
          /\ array' = Lines(list')
      BY <2>3 DEF Inherited, UpdateArray
    <3> QED BY <2>1, <3>1 DEF ListInv, Added, Read
  <2>4. CASE RegisterId
    <3>1. /\ pc = "id" /\ pc' = "resources" /\ RegisterEnv(Id, <<"own id">>)
      BY <2>4 DEF RegisterId, Id
    <3>2. Added' = Added \cup {Id}
      BY <2>1, <3>1 DEF Added, Id
    <3> QED BY <2>1, <3>1, <3>2, RegisterList
  <2>5. CASE RegisterResources
    <3>1. /\ pc = "resources" /\ pc' = "exec" /\ RegisterEnv(Resources, ResourceList(resMap))
      BY <2>5 DEF RegisterResources, Resources
    <3>2. Added' = Added \cup {Resources}
      BY <2>1, <3>1 DEF Added, Id, Own, Resources
    <3> QED BY <2>1, <3>1, <3>2, RegisterList
  <2> QED BY <1>6, <2>2, <2>3, <2>4, <2>5 DEF Environ
<1>7. CASE UNCHANGED vars
  BY <1>7 DEF vars, child, environment, settings, ListInv, Added, Read, Own, Id,
              Resources
<1> QED BY <1>2, <1>3, <1>4, <1>5, <1>6, <1>7 DEF Next

LEMMA InitList == Init => ListInv
<1> SUFFICES ASSUME Init PROVE ListInv
  OBVIOUS
<1>1. /\ envp \in Seq(ToSet(envp)) /\ left = envp /\ pc = "options" /\ list = <<>>
  BY InputsAssumption DEF Init
<1>2. Len(envp) \in Nat /\ Read = 0
  BY <1>1 DEF Read
<1>3. DOMAIN list = {}
  BY <1>1
<1> QED BY <1>1, <1>2, <1>3 DEF ListInv

(* No comma in the name of a resource: the list would be ambiguous.        *)
NoCommaInNames == \A r \in DOMAIN counts : "," \notin ToSet(r)

LEMMA EntryIsPassed ==
  ASSUME EnvInv, ListInv, pc = "exec", NEW n \in Names \ Own
  PROVE  LET k == Max({i \in DOMAIN envp : envp[i].name = n})
         IN  /\ envp[k].name = n
             /\ array[Max({i \in DOMAIN array : array[i].name = n})].val = Text(envp[k])
<1>1. /\ IsFiniteSet(DOMAIN list) /\ DOMAIN list = Names \cup Own
      /\ array = Lines(list) /\ left = <<>>
  BY DEF EnvInv, ListInv
<1>2. n \in DOMAIN list \ Added
  BY <1>1 DEF Added
<1>3. Entered(list, n, envp, Len(envp))
  <2>1. Len(left) = 0 /\ Len(envp) \in Nat
    BY <1>1 DEF EnvInv
  <2>2. Read = Len(envp)
    BY <2>1 DEF Read
  <2> QED BY <1>2, <2>2 DEF ListInv
<1>4. PICK i \in 1 .. Len(envp) : Newest(envp, n, i, Len(envp)) /\ list[n] = Text(envp[i])
  BY <1>3 DEF Entered
<1> DEFINE S == {j \in DOMAIN envp : envp[j].name = n}
<1>5. S \in SUBSET Nat /\ i \in S /\ \A j \in S : j <= i
  <2>1. DOMAIN envp = 1 .. Len(envp)
    BY DEF EnvInv
  <2> QED BY <1>4, <2>1 DEF Newest
<1>6. Max(S) = i
  <2> HIDE DEF S
  <2> QED BY <1>5, LargestIsMax
<1>7. Lines(list)[Max({j \in DOMAIN Lines(list) : Lines(list)[j].name = n})].val = list[n]
  BY <1>1, <1>2, ValueOfLine
<1>8. envp[i].name = n
  BY <1>4 DEF Newest
<1> QED BY <1>1, <1>4, <1>6, <1>7, <1>8

LEMMA KnowsLock ==
  ASSUME EnvInv, MapInv, NamesInv, ListInv, NoCommaInNames, pc = "exec",
         \A n \in Nat : ToString(n) # ","
  PROVE  ToSet(Fields(array[Max({i \in DOMAIN array : array[i].name = Resources})].val, ",")) =
           {r \o <<":", ToString(counts[r])>> : r \in DOMAIN counts}
<1>1. /\ IsFiniteSet(DOMAIN list) /\ DOMAIN list = Names \cup Own
      /\ array = Lines(list) /\ list[Resources] = ResourceList(resMap)
  BY DEF EnvInv, ListInv
<1>2. Resources \in DOMAIN list
  BY <1>1 DEF Own, Resources
<1>3. Lines(list)[Max({j \in DOMAIN Lines(list) : Lines(list)[j].name = Resources})].val =
        list[Resources]
  BY <1>1, <1>2, ValueOfLine
<1>4. counts = resMap /\ Maps(resMap, given, Done)
  BY DEF MapInv
<1>5. NoCommaIn(resMap)
  <2> SUFFICES ASSUME NEW r \in DOMAIN resMap
               PROVE  /\ r \in Seq(ToSet(r)) /\ "," \notin ToSet(r)
                      /\ ToString(resMap[r]) # ","
    BY DEF NoCommaIn
  <2>1. resMap[r] \in Nat
    BY <1>4 DEF Maps, LastNamed
  <2> QED BY <1>4, <2>1 DEF NamesInv, NoCommaInNames
<1>6. ToSet(Fields(ResourceList(resMap), ",")) =
        {r \o <<":", ToString(resMap[r])>> : r \in DOMAIN resMap}
  <2>1. IsFiniteSet(DOMAIN resMap)
    BY DEF NamesInv
  <2> QED BY <1>5, <2>1, ResourcesListed
<1>7. array[Max({i \in DOMAIN array : array[i].name = Resources})].val = ResourceList(resMap)
  BY <1>1, <1>3
<1> QED BY <1>4, <1>6, <1>7

-----------------------------------------------------------------------------
(* The inductive invariant.                                                *)
ArgumentsInv ==
  /\ ScanInv /\ AskedInv /\ DoingInv /\ CommandInv
  /\ WordsInv /\ TokenizerInv /\ MapInv /\ NamesInv
  /\ EnvInv /\ ListInv

LEMMA ArgumentsInvariant == Spec => []ArgumentsInv
<1>1. Init => ArgumentsInv
  BY InitScan, InitAsked, InitDoing, InitCommand, InitWords, InitMap, InitNames, InitEnv,
     InitList DEF ArgumentsInv
<1>2. ArgumentsInv /\ [Next]_vars => ArgumentsInv'
  BY ScanStep, AskedStep, DoingStep, CommandStep, WordsStep, MapStep, NamesStep, EnvStep,
     ListStep DEF ArgumentsInv
<1> QED BY <1>1, <1>2, PTL DEF Spec

(* Whatever is typed, the status 0 of a free resource is never that of a   *)
(* tool that has neither queried nor acquired: AskQuery has a branch that  *)
(* ends so (for two flags at once), and it is never taken.                 *)
THEOREM SuccessOfSomething == Spec => []SomethingIsDone
<1>1. ArgumentsInv => SomethingIsDone
  <2> SUFFICES ASSUME DoingInv, status = 0 PROVE doing # NoCall \/ Helped
    BY DEF ArgumentsInv, SomethingIsDone, Helped
  <2>1. pc = "ended"
    BY DEF DoingInv, NoStatus
  <2> QED BY <2>1 DEF DoingInv
<1> QED BY <1>1, ArgumentsInvariant, PTL

(* The flags are reset and the name is overwritten by each query option,   *)
(* so that however many there are, and whatever is between them but -r, it *)
(* is the last one that is asked, about its own argument.                  *)
THEOREM LastQueryIsAsked == Spec => []AsksLast
<1>1. ArgumentsInv => AsksLast
  <2> SUFFICES ASSUME ArgumentsInv, doing.call \notin {"none", "acquire"}, Named = Asking
               PROVE  LET g == given[Max(Asking)]
                      IN  doing = [call |-> FlagOf[g[1]], about |-> g[2]]
    BY DEF AsksLast
  <2>1. flags # {} /\ doing = [call |-> CHOOSE f \in flags : TRUE, about |-> resource]
    BY DEF ArgumentsInv, DoingInv
  <2>2. PICK i \in Asking : /\ \A j \in Asking : j <= i
                            /\ flags = {FlagOf[given[i][1]]}
                            /\ resource = given[i][2]
    BY <2>1 DEF ArgumentsInv, AskedInv
  <2>3. Asking \subseteq Nat
    BY DEF Asking, ArgumentsInv, ScanInv
  <2>4. Max(Asking) = i
    BY <2>2, <2>3, LargestIsMax
  <2>5. (CHOOSE f \in flags : TRUE) = FlagOf[given[i][1]]
    BY <2>2
  <2> QED BY <2>1, <2>2, <2>4, <2>5
<1> QED BY <1>1, ArgumentsInvariant, PTL

LEMMA PointwiseSuffix ==
  ASSUME NEW S, NEW s \in Seq(S), NEW t \in Seq(S), Len(s) <= Len(t),
         \A k \in 1 .. Len(s) : t[Len(t) - Len(s) + k] = s[k]
  PROVE  IsSuffix(s, t)
<1>1. /\ Reverse(s) \in Seq(S) /\ Len(Reverse(s)) = Len(s)
      /\ Reverse(t) \in Seq(S) /\ Len(Reverse(t)) = Len(t)
  BY DEF Reverse
<1>2. ASSUME NEW k \in 1 .. Len(s) PROVE Reverse(s)[k] = Reverse(t)[k]
  <2>1. Reverse(s)[k] = s[(Len(s) - k) + 1] /\ Reverse(t)[k] = t[(Len(t) - k) + 1]
    BY DEF Reverse
  <2>2. (Len(s) - k) + 1 \in 1 .. Len(s)
    OBVIOUS
  <2>3. Len(t) - Len(s) + ((Len(s) - k) + 1) = (Len(t) - k) + 1
    OBVIOUS
  <2> QED BY <2>1, <2>2, <2>3
<1>3. SubSeq(Reverse(s), 1, Len(s)) = SubSeq(Reverse(t), 1, Len(s))
  BY <1>1, <1>2
<1> QED BY <1>1, <1>3 DEF IsSuffix, IsPrefix

(* argv[optind-1] is "--" only when the words that follow some "--" are    *)
(* all operands, at the end: also when that "--" is the argument of an     *)
(* option, and the words that getopt passes over follow it.                *)
THEOREM CommandFollowsDashes == Spec => []CommandIsGiven
<1>1. ArgumentsInv => CommandIsGiven
  <2> SUFFICES ASSUME ArgumentsInv, doing.call = "acquire"
               PROVE  /\ operands # <<>>
                      /\ \E i \in DOMAIN argv :
                           /\ argv[i] = Dashes
                           /\ IsSuffix(SubSeq(argv, i + 1, Len(argv)), operands)
    BY DEF CommandIsGiven
  <2>1. operands # <<>> /\ operands \in Seq(ToSet(argv)) /\ argv \in Seq(ToSet(argv))
    BY DEF ArgumentsInv, ScanInv, CommandInv
  <2>2. PICK i \in 1 .. Len(argv) : argv[i] = Dashes /\ EndWith(i, Len(argv))
    BY DEF ArgumentsInv, CommandInv
  <2> DEFINE rest == SubSeq(argv, i + 1, Len(argv))
             n == Len(argv) - i
  <2>3. n \in Nat /\ rest \in Seq(ToSet(argv)) /\ Len(rest) = n
        /\ \A k \in 1 .. n : rest[k] = argv[i + k]
    BY <2>1
  <2>4. n <= Len(operands) /\ \A k \in 1 .. n : operands[Len(operands) - n + k] = argv[i + k]
    BY <2>2 DEF EndWith
  <2>5. i \in DOMAIN argv
    BY <2>1
  <2> HIDE DEF rest, n
  <2>6. IsSuffix(rest, operands)
    BY <2>1, <2>3, <2>4, PointwiseSuffix
  <2> QED BY <2>1, <2>2, <2>5, <2>6 DEF rest
<1> QED BY <1>1, ArgumentsInvariant, PTL

(* The array of the command holds each variable of the tool's environment  *)
(* and the two of its own once, and on the way there, with the array       *)
(* rebuilt after the map has grown, nothing else has been deleted.         *)
THEOREM EnvironmentIsWhole == Spec => [](DeletesOwn /\ (pc = "exec" => EachOnce))
<1>1. ArgumentsInv => DeletesOwn /\ (pc = "exec" => EachOnce)
  BY DEF ArgumentsInv, EnvInv, OfList, EachOnce, DeletesOwn
<1> QED BY <1>1, ArgumentsInvariant, PTL

(* The tokenizer erases a delimiter that follows another, one at the       *)
(* beginning and one at the end, and none of it joins or splits or drops a *)
(* field: what nextToken has returned, before it returns nothing any more, *)
(* and the fields of what is left are those of the string the constructor  *)
(* was given.                                                              *)
THEOREM ErasuresKeepFields == Spec => []KeepsFields
<1>1. ArgumentsInv => KeepsFields
  BY DEF ArgumentsInv, TokenizerInv
<1> QED BY <1>1, ArgumentsInvariant, PTL

(* The resources that the lock is asked for are those that -r and the      *)
(* query options name, each with the count that it was given last, -r      *)
(* having read the name and the count as the two fields of its argument;   *)
(* and every count is positive.                                            *)
THEOREM DefinedWhatWasAsked == Spec => []DefinedAsAsked
<1>1. ArgumentsInv => DefinedAsAsked
  BY AsAsked DEF ArgumentsInv
<1> QED BY <1>1, ArgumentsInvariant, PTL

(* What the command finds in its environment is what the tool was given,   *)
(* the last entry of a name, with a variable that had no value now having  *)
(* its own name for one, and the list of the resources and the counts that *)
(* the lock is defined with.  A name with a comma in it would make the     *)
(* list ambiguous; that no number is written as a comma is said because    *)
(* ToString is not defined.                                                *)
THEOREM CommandKnowsItsLock ==
  ASSUME \A n \in Nat : ToString(n) # ","
  PROVE  Spec => [](NoCommaInNames => PassesOn)
<1>1. ArgumentsInv => (NoCommaInNames => PassesOn)
  <2> SUFFICES ASSUME ArgumentsInv, NoCommaInNames, pc = "exec"
               PROVE
         LET ValIn(s, name) == s[Max({i \in DOMAIN s : s[i].name = name})].val
             ValOf(name) == ValIn(array, name)
             Was(name) == ValIn(envp, name)
         IN  /\ EachOnce
             /\ \A n \in Names \ Own : ValOf(n) = IF Was(n) = NoVal THEN n ELSE Was(n)
             /\ ToSet(Fields(ValOf(prefix \o <<"_RESOURCES">>), ",")) =
                  {r \o <<":", ToString(counts[r])>> : r \in DOMAIN counts}
             /\ DeletesOwn
    BY DEF PassesOn
  <2>1. EachOnce /\ DeletesOwn
    BY DEF ArgumentsInv, EnvInv, OfList, EachOnce, DeletesOwn
  <2>2. ASSUME NEW n \in Names \ Own
        PROVE  LET was == envp[Max({i \in DOMAIN envp : envp[i].name = n})].val
               IN  array[Max({i \in DOMAIN array : array[i].name = n})].val =
                     IF was = NoVal THEN n ELSE was
    <3> DEFINE k == Max({i \in DOMAIN envp : envp[i].name = n})
    <3>1. /\ envp[k].name = n
          /\ array[Max({i \in DOMAIN array : array[i].name = n})].val = Text(envp[k])
      BY EntryIsPassed DEF ArgumentsInv
    <3> HIDE DEF k
    <3>2. Text(envp[k]) = IF envp[k].val = NoVal THEN n ELSE envp[k].val
      BY <3>1 DEF Text
    <3> QED BY <3>1, <3>2 DEF k
  <2>3. ToSet(Fields(array[Max({i \in DOMAIN array :
                                  array[i].name = prefix \o <<"_RESOURCES">>})].val, ",")) =
          {r \o <<":", ToString(counts[r])>> : r \in DOMAIN counts}
    BY KnowsLock DEF ArgumentsInv, Resources
  <2> QED BY <2>1, <2>2, <2>3
<1> QED BY <1>1, ArgumentsInvariant, PTL

=============================================================================
