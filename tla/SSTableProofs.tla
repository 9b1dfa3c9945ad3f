---------------------------- MODULE SSTableProofs ----------------------------
(***************************************************************************)
(* What the operators of SSTableFile compute, for every value of the       *)
(* constants and every sorted sequence of points.                          *)
(***************************************************************************)
EXTENDS SSTableFile, FiniteSetTheorems, FunctionTheorems, SequenceTheorems,
        WellFoundedInduction, TLAPS

-----------------------------------------------------------------------------
(* Induction over a set of numbers, and what makes a recursive function    *)
(* equal to its definition.                                                *)

\* A nonempty set of naturals has a least element.
LEMMA LeastOf ==
    ASSUME NEW T \in SUBSET Nat, T # {}
    PROVE  \E x \in T : \A y \in T : x <= y
<1>1. PICK x \in T : \A y \in T : ~ (<<y, x>> \in OpToRel(<, Nat))
  BY NatLessThanWellFounded, WFMin
<1>2. \A y \in T : ~ (y < x)
  BY <1>1 DEF OpToRel
<1> QED BY <1>2

\* A set with 0 and the successor of each of its members has all numbers.
LEMMA Induction ==
    ASSUME NEW S, NEW max \in Nat, 0 \in S,
           \A n \in Nat : n < max /\ n \in S => n + 1 \in S
    PROVE  0..max \subseteq S
<1> DEFINE T == (0..max) \ S
<1>1. SUFFICES ASSUME T # {} PROVE FALSE
  OBVIOUS
<1>2. T \in SUBSET Nat
  OBVIOUS
<1>3. PICK x \in T : \A y \in T : x <= y
  <2> HIDE DEF T
  <2> QED BY <1>1, <1>2, LeastOf
<1>4. x \in 1..max /\ x - 1 \notin T
  BY <1>3
<1>5. x - 1 \in Nat /\ x - 1 < max /\ x - 1 \in S /\ (x - 1) + 1 = x
  BY <1>4
<1> QED BY <1>3, <1>5

\* f is a sequence of states, from base on, each of which comes from the one before.
IsRun(f, base, max, step) ==
    /\ f[0] = base
    /\ \A n \in 1..max : f[n] = step[n][f[n - 1]]

\* A sequence of steps from a base has a run, which the folds below are.
LEMMA RunExists ==
    ASSUME NEW X, NEW base \in X, NEW max \in Nat, NEW step \in [1..max -> [X -> X]]
    PROVE  \E f \in [0..max -> X] : IsRun(f, base, max, step)
<1> DEFINE S == {k \in 0..max : \E f \in [0..k -> X] : IsRun(f, base, k, step)}
<1>1. 0 \in S
  <2> DEFINE f == [n \in 0..0 |-> base]
  <2>1. f \in [0..0 -> X] /\ f[0] = base /\ 1..0 = {}
    OBVIOUS
  <2>2. IsRun(f, base, 0, step)
    BY <2>1 DEF IsRun
  <2>3. 0 \in 0..max
    OBVIOUS
  <2> HIDE DEF f
  <2> QED BY <2>1, <2>2, <2>3
<1>2. ASSUME NEW k \in Nat, k < max, k \in S
      PROVE  k + 1 \in S
  <2>1. PICK f \in [0..k -> X] : IsRun(f, base, k, step)
    BY <1>2
  <2> DEFINE g == [n \in 0..(k + 1) |-> IF n = k + 1 THEN step[k + 1][f[k]] ELSE f[n]]
  <2>2. step[k + 1][f[k]] \in X
    <3> f[k] \in X /\ k + 1 \in 1..max
      BY <1>2, <2>1
    <3> QED OBVIOUS
  <2>3. g \in [0..(k + 1) -> X]
    BY <2>1, <2>2
  <2>4. g[0] = base
    BY <2>1 DEF IsRun
  <2>5. ASSUME NEW n \in 1..(k + 1)
        PROVE  g[n] = step[n][g[n - 1]]
    <3>1. CASE n = k + 1
      <4> n - 1 = k /\ k \in 0..(k + 1) /\ k # k + 1
        BY <3>1
      <4> g[n] = step[k + 1][f[k]] /\ g[k] = f[k]
        BY <3>1
      <4> QED BY <3>1
    <3>2. CASE n # k + 1
      <4> n \in 1..k /\ n - 1 \in 0..k
        BY <3>2
      <4> g[n] = f[n] /\ g[n - 1] = f[n - 1]
        OBVIOUS
      <4> QED BY <2>1 DEF IsRun
    <3> QED BY <3>1, <3>2
  <2> HIDE DEF g
  <2>6. IsRun(g, base, k + 1, step)
    BY <2>4, <2>5 DEF IsRun
  <2> QED BY <1>2, <2>3, <2>6
<1>3. 0..max \subseteq S
  <2> HIDE DEF S
  <2> QED BY <1>1, <1>2, Induction
<1> QED BY <1>3

\* A function that takes each step as long as it is in X does so to the end.
LEMMA RunTyped ==
    ASSUME NEW X, NEW max \in Nat, NEW step \in [1..max -> [X -> X]], NEW g,
           g[0] \in X, \A n \in 1..max : g[n - 1] \in X => g[n] = step[n][g[n - 1]]
    PROVE  \A n \in 0..max : g[n] \in X
<1> DEFINE S == {n \in 0..max : g[n] \in X}
<1>1. ASSUME NEW n \in Nat, n < max, n \in S PROVE n + 1 \in S
  <2> n + 1 \in 1..max /\ (n + 1) - 1 = n
    BY <1>1
  <2> g[n + 1] = step[n + 1][g[n]] /\ step[n + 1] \in [X -> X]
    BY <1>1
  <2> QED BY <1>1
<1>2. 0..max \subseteq S
  <2>1. 0 \in S
    OBVIOUS
  <2> HIDE DEF S
  <2> QED BY <1>1, <2>1, Induction
<1> QED BY <1>2

Points == [t : Int, p : Int, v : Int]

-----------------------------------------------------------------------------
(* FlattenSeq.                                                             *)

\* FlattenSeq is the last of a sequence of concatenations.
LEMMA FlattenUnfolds ==
    ASSUME NEW P, NEW seqs \in Seq(Seq(P))
    PROVE  \E flat \in [0..Len(seqs) -> Seq(P)] :
              /\ flat[0] = <<>> /\ FlattenSeq(seqs) = flat[Len(seqs)]
              /\ \A n \in 1..Len(seqs) : flat[n] = flat[n - 1] \o seqs[n]
<1> DEFINE max == Len(seqs)
           X == Seq(P)
           base == <<>>
           step == [n \in 1..max |-> [x \in X |-> x \o seqs[n]]]
           Body(f) == [n \in 1..max |-> IF n = 1 THEN seqs[n] ELSE f[n - 1] \o seqs[n]]
           g == CHOOSE g : g = Body(g)
<1>1. max \in Nat /\ base \in X /\ \A n \in 1..max : seqs[n] \in X
  OBVIOUS
<1>2. step \in [1..max -> [X -> X]]
  BY <1>1
<1>3. PICK f \in [0..max -> X] : IsRun(f, base, max, step)
  <2> HIDE DEF step, X, max, base
  <2> QED BY <1>1, <1>2, RunExists
<1>4. \A n \in 1..max, x \in X : step[n][x] = x \o seqs[n]
  OBVIOUS
<1>5. \A n \in 1..max : base \o seqs[n] = seqs[n]
  BY <1>1
<1> DEFINE h == [n \in 1..max |-> f[n]]
<1> HIDE DEF step
<1>6. \A n \in 1..max : n - 1 \in 0..max /\ n # 0 /\ n \in 0..max /\ (n # 1 => n - 1 \in 1..max)
  BY <1>1
<1>7. \A n \in 1..max : f[n - 1] \in X /\ f[n] = f[n - 1] \o seqs[n]
  BY <1>3, <1>4, <1>6 DEF IsRun
<1>8. f[0] = base
  BY <1>3 DEF IsRun
<1>9. \A n \in 1..max : h[n] = Body(h)[n]
  <2> TAKE n \in 1..max
  <2>1. CASE n = 1
    <3>1. f[n] = f[n - 1] \o seqs[n]
      BY <1>7
    <3> n - 1 = 0
      BY <2>1
    <3>2. f[n] = base \o seqs[n]
      BY <1>8, <3>1
    <3>3. f[n] = seqs[n]
      BY <1>5, <3>2
    <3> QED BY <2>1, <3>3
  <2>2. CASE n # 1
    BY <1>6, <1>7, <2>2
  <2> QED BY <2>1, <2>2
<1>10. h = Body(h)
  BY <1>9
<1>11. g = Body(g)
  BY <1>10
<1>12. CASE max = 0
  <2>1. f[max] = base /\ FlattenSeq(seqs) = <<>>
    BY <1>8, <1>12 DEF FlattenSeq
  <2> QED BY <1>7, <1>8, <2>1
<1>13. CASE max # 0
  <2>1. FlattenSeq(seqs) = g[max]
    BY <1>13 DEF FlattenSeq
  <2> HIDE DEF g
  <2> DEFINE S == {n \in 0..max : n # 0 => g[n] = f[n]}
  <2>2. ASSUME NEW n \in Nat, n < max, n \in S PROVE n + 1 \in S
    <3>1. n + 1 \in 1..max /\ (n + 1) - 1 = n
      BY <2>2
    <3>2. g[n + 1] = IF n + 1 = 1 THEN seqs[n + 1] ELSE g[n] \o seqs[n + 1]
      BY <1>11, <3>1
    <3>3. f[n + 1] = f[n] \o seqs[n + 1]
      BY <1>7, <3>1
    <3>4. CASE n = 0
      <4>1. g[n + 1] = seqs[n + 1] /\ f[n + 1] = base \o seqs[n + 1]
        <5>1. n + 1 = 1
          BY <3>4
        <5>2. g[n + 1] = seqs[n + 1]
          BY <3>2, <5>1
        <5>3. f[n] = base
          BY <1>8, <3>4
        <5> QED BY <3>3, <5>2, <5>3
      <4>2. g[n + 1] = f[n + 1]
        BY <1>5, <3>1, <4>1
      <4> QED BY <3>1, <4>2
    <3>5. CASE n # 0
      <4>1. n + 1 # 1 /\ g[n] = f[n]
        BY <2>2, <3>5
      <4>2. g[n + 1] = f[n + 1]
        BY <3>2, <3>3, <4>1
      <4> QED BY <3>1, <4>2
    <3> QED BY <3>4, <3>5
  <2>3. 0..max \subseteq S
    <3>1. 0 \in S
      BY <1>1
    <3> HIDE DEF S, max
    <3> QED BY <1>1, <2>2, <3>1, Induction
  <2>4. max \in 0..max
    BY <1>1
  <2>5. g[max] = f[max]
    BY <1>13, <2>3, <2>4
  <2> QED BY <1>7, <1>8, <2>1, <2>5
<1> QED BY <1>12, <1>13

\* The stages of FlattenSeq: the first n sequences, one after the other.
Flattens(flat, seqs, P) ==
    /\ flat \in [0..Len(seqs) -> Seq(P)] /\ flat[0] = <<>>
    /\ \A n \in 1..Len(seqs) : flat[n] = flat[n - 1] \o seqs[n]

\* The same with the stages named.
LEMMA FlattenHasStages ==
    ASSUME NEW P, NEW seqs \in Seq(Seq(P))
    PROVE  \E flat : Flattens(flat, seqs, P) /\ FlattenSeq(seqs) = flat[Len(seqs)]
  BY FlattenUnfolds DEF Flattens

\* What a concatenation has at each place.
LEMMA ConcatFacts ==
    ASSUME NEW P, NEW a \in Seq(P), NEW b \in Seq(P)
    PROVE  /\ a \o b \in Seq(P) /\ Len(a \o b) = Len(a) + Len(b)
           /\ Len(a) \in Nat /\ Len(b) \in Nat
           /\ \A i \in 1..Len(a) : (a \o b)[i] = a[i]
           /\ \A i \in 1..Len(b) : (a \o b)[Len(a) + i] = b[i]
  OBVIOUS

\* A later stage of a concatenation only adds at the end.
LEMMA StagesGrow ==
    ASSUME NEW P, NEW seqs \in Seq(Seq(P)), NEW flat, Flattens(flat, seqs, P),
           NEW k \in 0..Len(seqs)
    PROVE  /\ Len(flat[k]) <= Len(flat[Len(seqs)])
           /\ \A i \in 1..Len(flat[k]) : flat[Len(seqs)][i] = flat[k][i]
<1> DEFINE max == Len(seqs)
           Within(n) == /\ Len(flat[k]) <= Len(flat[n])
                        /\ \A i \in 1..Len(flat[k]) : flat[n][i] = flat[k][i]
           S == {n \in 0..max : k <= n => Within(n)}
<1>1. max \in Nat /\ k \in Nat /\ flat \in [0..max -> Seq(P)]
  BY DEF Flattens
<1>2. ASSUME NEW n \in Nat, n < max, n \in S PROVE n + 1 \in S
  <2>1. n \in 0..max /\ n + 1 \in 1..max /\ n + 1 \in 0..max /\ (n + 1) - 1 = n
    BY <1>1, <1>2
  <2>2. flat[n + 1] = flat[n] \o seqs[n + 1]
    BY <2>1 DEF Flattens
  <2>3. flat[n] \in Seq(P) /\ seqs[n + 1] \in Seq(P) /\ flat[k] \in Seq(P)
    <3>1. seqs[n + 1] \in Seq(P)
      BY <2>1
    <3>2. k \in 0..max
      OBVIOUS
    <3> HIDE DEF S, Within, max
    <3> QED BY <1>1, <2>1, <3>1, <3>2
  <2>4. CASE k <= n
    <3>1. Within(n)
      BY <1>2, <2>4
    <3> DEFINE x == flat[n]
               y == seqs[n + 1]
               z == flat[n + 1]
               w == flat[k]
    <3>2. x \in Seq(P) /\ y \in Seq(P) /\ w \in Seq(P) /\ z = x \o y
      BY <2>2, <2>3
    <3>3. Len(w) <= Len(x) /\ \A i \in 1..Len(w) : x[i] = w[i]
      BY <3>1
    <3> HIDE DEF x, y, z, w
    <3>4. /\ Len(z) = Len(x) + Len(y) /\ Len(x) \in Nat /\ Len(y) \in Nat /\ Len(w) \in Nat
          /\ \A i \in 1..Len(x) : z[i] = x[i]
      BY <3>2, ConcatFacts
    <3>5. \A i \in 1..Len(w) : i \in 1..Len(x)
      BY <3>3, <3>4
    <3>6. Len(w) <= Len(z)
      BY <3>3, <3>4
    <3>7. \A i \in 1..Len(w) : z[i] = w[i]
      BY <3>3, <3>4, <3>5
    <3> QED BY <2>1, <3>6, <3>7 DEF z, w
  <2>5. CASE ~(k <= n)
    <3>1. k <= n + 1 => k = n + 1
      BY <1>1, <2>5
    <3> QED BY <2>1, <3>1, <2>3
  <2> QED BY <2>4, <2>5
<1>3. 0 \in S
  <2>1. k <= 0 => k = 0
    BY <1>1
  <2>2. flat[0] \in Seq(P) /\ 0 \in 0..max
    BY <1>1
  <2> QED BY <2>1, <2>2
<1>4. 0..max \subseteq S
  <2> HIDE DEF S, max
  <2> QED BY <1>1, <1>2, <1>3, Induction
<1>5. max \in S
  <2>1. max \in 0..max
    BY <1>1
  <2> HIDE DEF S, max
  <2> QED BY <1>4, <2>1
<1>6. k <= max /\ max = Len(seqs)
  BY <1>1
<1> QED BY <1>5, <1>6

\* A concatenation has the elements of both parts.
LEMMA ToSetOfConcat ==
    ASSUME NEW P, NEW a \in Seq(P), NEW b \in Seq(P)
    PROVE  ToSet(a \o b) = ToSet(a) \cup ToSet(b)
<1> DEFINE c == a \o b
<1>1. /\ c \in Seq(P) /\ Len(c) = Len(a) + Len(b) /\ Len(a) \in Nat /\ Len(b) \in Nat
      /\ \A i \in 1..Len(a) : c[i] = a[i]
      /\ \A i \in 1..Len(b) : c[Len(a) + i] = b[i]
  BY ConcatFacts
<1> HIDE DEF c
<1>2. \A i \in 1..Len(c) :
        (i \in 1..Len(a)) \/ (i - Len(a) \in 1..Len(b) /\ Len(a) + (i - Len(a)) = i)
  BY <1>1
<1>3. \A i \in 1..Len(a) : i \in 1..Len(c)
  BY <1>1
<1>4. \A i \in 1..Len(b) : Len(a) + i \in 1..Len(c)
  BY <1>1
<1>5. DOMAIN a = 1..Len(a) /\ DOMAIN b = 1..Len(b) /\ DOMAIN c = 1..Len(c)
  BY <1>1
<1>6. ASSUME NEW i \in 1..Len(c) PROVE c[i] \in ToSet(a) \cup ToSet(b)
  <2>1. CASE i \in 1..Len(a)
    BY <1>1, <1>5, <2>1 DEF ToSet
  <2>2. CASE i - Len(a) \in 1..Len(b) /\ Len(a) + (i - Len(a)) = i
    <3>1. c[i] = b[i - Len(a)]
      BY <1>1, <2>2
    <3> QED BY <1>5, <2>2, <3>1 DEF ToSet
  <2> QED BY <1>2, <2>1, <2>2
<1>7. ToSet(c) \subseteq ToSet(a) \cup ToSet(b)
  BY <1>5, <1>6 DEF ToSet
<1>8. \A i \in 1..Len(a) : a[i] \in ToSet(c)
  BY <1>1, <1>3, <1>5 DEF ToSet
<1>9. \A i \in 1..Len(b) : b[i] \in ToSet(c)
  BY <1>1, <1>4, <1>5 DEF ToSet
<1>10. ToSet(a) \subseteq ToSet(c) /\ ToSet(b) \subseteq ToSet(c)
  BY <1>5, <1>8, <1>9 DEF ToSet
<1>11. ToSet(c) = ToSet(a) \cup ToSet(b)
  BY <1>7, <1>10
<1> QED BY <1>11 DEF c

\* The members of FlattenSeq are those of the sequences.
LEMMA FlattenMembers ==
    ASSUME NEW P, NEW seqs \in Seq(Seq(P)), NEW flat, Flattens(flat, seqs, P),
           NEW k \in 0..Len(seqs)
    PROVE  \A x : x \in ToSet(flat[k]) <=> \E n \in 1..k : x \in ToSet(seqs[n])
<1> DEFINE max == Len(seqs)
           S == {n \in 0..max : ToSet(flat[n]) = UNION {ToSet(seqs[m]) : m \in 1..n}}
<1>1. max \in Nat /\ flat \in [0..max -> Seq(P)]
  BY DEF Flattens
<1>0. \A n \in 1..max : seqs[n] \in Seq(P)
  OBVIOUS
<1>2. ASSUME NEW n \in Nat, n < max, n \in S PROVE n + 1 \in S
  <2>1. n \in 0..max /\ n + 1 \in 1..max /\ n + 1 \in 0..max /\ (n + 1) - 1 = n
    BY <1>1, <1>2
  <2>2. flat[n + 1] = flat[n] \o seqs[n + 1]
    BY <2>1 DEF Flattens
  <2>3. flat[n] \in Seq(P) /\ seqs[n + 1] \in Seq(P)
    <3> HIDE DEF max, S
    <3> QED BY <1>0, <1>1, <2>1
  <2>4. ToSet(flat[n + 1]) = ToSet(flat[n]) \cup ToSet(seqs[n + 1])
    BY <2>2, <2>3, ToSetOfConcat
  <2>5. 1..(n + 1) = (1..n) \cup {n + 1}
    BY <2>1
  <2>6. ToSet(flat[n]) = UNION {ToSet(seqs[m]) : m \in 1..n}
    BY <1>2
  <2>7. UNION {ToSet(seqs[m]) : m \in 1..(n + 1)}
          = (UNION {ToSet(seqs[m]) : m \in 1..n}) \cup ToSet(seqs[n + 1])
    BY <2>5
  <2> QED BY <2>1, <2>4, <2>6, <2>7
<1>3. 0 \in S
  <2>1. flat[0] = <<>> /\ 1..0 = {} /\ 0 \in 0..max
    BY <1>1 DEF Flattens
  <2>2. ToSet(<<>>) = {}
    BY DEF ToSet
  <2> QED BY <2>1, <2>2
<1>4. 0..max \subseteq S
  <2> HIDE DEF S, max
  <2> QED BY <1>1, <1>2, <1>3, Induction
<1>5. ToSet(flat[k]) = UNION {ToSet(seqs[m]) : m \in 1..k}
  BY <1>4
<1> QED BY <1>5

\* Pieces of a sequence, one after the other, are the sequence.
LEMMA FlattenCuts ==
    ASSUME NEW P, NEW seqs \in Seq(Seq(P)), NEW points \in Seq(P),
           NEW cuts \in [0..Len(seqs) -> 0..Len(points)],
           cuts[0] = 0, cuts[Len(seqs)] = Len(points),
           \A n \in 1..Len(seqs) : /\ cuts[n - 1] <= cuts[n]
                                   /\ seqs[n] = SubSeq(points, cuts[n - 1] + 1, cuts[n])
    PROVE  FlattenSeq(seqs) = points
<1>1. PICK flat : Flattens(flat, seqs, P) /\ FlattenSeq(seqs) = flat[Len(seqs)]
  BY FlattenHasStages
<1> DEFINE max == Len(seqs)
           S == {n \in 0..max : flat[n] = SubSeq(points, 1, cuts[n])}
<1>2. max \in Nat /\ flat \in [0..max -> Seq(P)] /\ Len(points) \in Nat
  BY <1>1 DEF Flattens
<1>3. ASSUME NEW n \in Nat, n < max, n \in S PROVE n + 1 \in S
  <2>1. n \in 0..max /\ n + 1 \in 1..max /\ n + 1 \in 0..max /\ (n + 1) - 1 = n
    BY <1>2, <1>3
  <2>2. flat[n + 1] = flat[n] \o seqs[n + 1]
    BY <1>1, <2>1 DEF Flattens
  <2>3. cuts[n] \in 0..Len(points) /\ cuts[n + 1] \in 0..Len(points) /\ cuts[n] <= cuts[n + 1]
    BY <2>1
  <2>4. seqs[n + 1] = SubSeq(points, cuts[n] + 1, cuts[n + 1])
    BY <2>1
  <2>5. flat[n] = SubSeq(points, 1, cuts[n])
    BY <1>3
  <2> DEFINE a == cuts[n]
             b == cuts[n + 1]
  <2>6. SubSeq(points, 1, a) \o SubSeq(points, a + 1, b) = SubSeq(points, 1, b)
    <3> HIDE DEF a, b
    <3>1. a \in 0..Len(points) /\ b \in 0..Len(points) /\ a <= b
      BY <2>3 DEF a, b
    <3>2. /\ SubSeq(points, 1, a) \in Seq(P) /\ Len(SubSeq(points, 1, a)) = a
          /\ \A i \in 1..a : SubSeq(points, 1, a)[i] = points[i]
      BY <1>2, <3>1
    <3>3. /\ SubSeq(points, a + 1, b) \in Seq(P) /\ Len(SubSeq(points, a + 1, b)) = b - a
          /\ \A i \in 1..(b - a) : SubSeq(points, a + 1, b)[i] = points[a + i]
      BY <1>2, <3>1
    <3>4. /\ SubSeq(points, 1, b) \in Seq(P) /\ Len(SubSeq(points, 1, b)) = b
          /\ \A i \in 1..b : SubSeq(points, 1, b)[i] = points[i]
      BY <1>2, <3>1
    <3> DEFINE x == SubSeq(points, 1, a)
               y == SubSeq(points, a + 1, b)
               z == SubSeq(points, 1, b)
    <3> HIDE DEF x, y, z
    <3>5. x \o y \in Seq(P) /\ Len(x \o y) = b
      BY <3>1, <3>2, <3>3 DEF x, y
    <3>6. ASSUME NEW i \in 1..b PROVE (x \o y)[i] = z[i]
      <4>1. CASE i <= a
        BY <3>1, <3>2, <3>3, <3>4, <4>1 DEF x, y, z
      <4>2. CASE ~(i <= a)
        <5>1. (x \o y)[i] = y[i - a] /\ i - a \in 1..(b - a) /\ a + (i - a) = i
          BY <3>1, <3>2, <3>3, <4>2 DEF x, y
        <5> QED BY <3>3, <3>4, <5>1 DEF y, z
      <4> QED BY <4>1, <4>2
    <3>7. z \in Seq(P) /\ Len(z) = b
      BY <3>4 DEF z
    <3>8. x \o y = z
      BY <3>5, <3>6, <3>7, SeqEqual
    <3> QED BY <3>8 DEF x, y, z
  <2>7. flat[n + 1] = SubSeq(points, 1, cuts[n + 1])
    BY <2>2, <2>4, <2>5, <2>6
  <2> QED BY <2>1, <2>7
<1>4. 0 \in S
  <2>1. flat[0] = <<>> /\ 0 \in 0..max
    BY <1>1, <1>2 DEF Flattens
  <2>2. SubSeq(points, 1, 0) = <<>>
    OBVIOUS
  <2> QED BY <2>1, <2>2
<1>5. 0..max \subseteq S
  <2> HIDE DEF S, max
  <2> QED BY <1>2, <1>3, <1>4, Induction
<1>6. flat[max] = SubSeq(points, 1, Len(points))
  <2>1. max \in S
    <3> HIDE DEF S
    <3> QED BY <1>2, <1>5
  <2> QED BY <1>2, <2>1
<1>7. SubSeq(points, 1, Len(points)) = points
  OBVIOUS
<1> QED BY <1>1, <1>6, <1>7

-----------------------------------------------------------------------------
(* Points in the order of their keys, versions of one key in that of their *)
(* values, which only grow.                                                *)

Precedes(x, y) ==
    \/ x.t < y.t
    \/ x.t = y.t /\ x.p < y.p
    \/ x.t = y.t /\ x.p = y.p /\ x.v < y.v

Ascending(points) ==
    \A m, n \in 1..Len(points) : m < n => Precedes(points[m], points[n])

\* A sorted run after one whose points all precede its own stays sorted.
LEMMA AscendingConcat ==
    ASSUME NEW a \in Seq(Points), NEW b \in Seq(Points), Ascending(a), Ascending(b),
           \A x \in ToSet(a), y \in ToSet(b) : Precedes(x, y)
    PROVE  Ascending(a \o b)
<1> DEFINE c == a \o b
<1>1. /\ c \in Seq(Points) /\ Len(c) = Len(a) + Len(b) /\ Len(a) \in Nat /\ Len(b) \in Nat
      /\ \A i \in 1..Len(a) : c[i] = a[i]
      /\ \A i \in 1..Len(b) : c[Len(a) + i] = b[i]
  BY ConcatFacts
<1> HIDE DEF c
<1>2. SUFFICES ASSUME NEW m \in 1..Len(c), NEW n \in 1..Len(c), m < n
               PROVE  Precedes(c[m], c[n])
  BY DEF Ascending, c
<1>3. \A i \in 1..Len(c) :
        (i \in 1..Len(a)) \/ (i - Len(a) \in 1..Len(b) /\ c[i] = b[i - Len(a)])
  <2> TAKE i \in 1..Len(c)
  <2>1. CASE i <= Len(a)
    BY <1>1, <2>1
  <2>2. CASE ~(i <= Len(a))
    <3>1. i - Len(a) \in 1..Len(b) /\ Len(a) + (i - Len(a)) = i
      BY <1>1, <2>2
    <3> QED BY <1>1, <3>1
  <2> QED BY <2>1, <2>2
<1>4. CASE n \in 1..Len(a)
  <2>1. m \in 1..Len(a)
    BY <1>1, <1>2, <1>4
  <2> QED BY <1>1, <1>2, <1>4, <2>1 DEF Ascending
<1>5. CASE n - Len(a) \in 1..Len(b) /\ c[n] = b[n - Len(a)]
  <2>1. CASE m \in 1..Len(a)
    <3>1. c[m] \in ToSet(a)
      BY <1>1, <2>1 DEF ToSet
    <3>2. c[n] \in ToSet(b)
      BY <1>5 DEF ToSet
    <3> QED BY <3>1, <3>2
  <2>2. CASE m - Len(a) \in 1..Len(b) /\ c[m] = b[m - Len(a)]
    <3>1. m - Len(a) < n - Len(a)
      BY <1>1, <1>2
    <3> QED BY <1>5, <2>2, <3>1 DEF Ascending
  <2> QED BY <1>3, <2>1, <2>2
<1> QED BY <1>3, <1>4, <1>5

\* A sequence of one point is sorted, and Append concatenates it.
LEMMA OnePoint ==
    ASSUME NEW P, NEW x \in P
    PROVE  /\ <<x>> \in Seq(P) /\ ToSet(<<x>>) = {x} /\ Ascending(<<x>>)
           /\ \A s \in Seq(P) : Append(s, x) = s \o <<x>>
<1>1. <<x>> \in Seq(P) /\ Len(<<x>>) = 1 /\ <<x>>[1] = x
  OBVIOUS
<1>2. DOMAIN <<x>> = {1}
  BY <1>1
<1>3. ToSet(<<x>>) = {x}
  BY <1>1, <1>2 DEF ToSet
<1>4. Ascending(<<x>>)
  BY <1>1 DEF Ascending
<1>5. \A s \in Seq(P) : Append(s, x) = s \o <<x>>
  OBVIOUS
<1> QED BY <1>1, <1>3, <1>4, <1>5

\* Sorted blocks in order are a sorted file.
LEMMA FlattenAscending ==
    ASSUME NEW seqs \in Seq(Seq(Points)),
           \A n \in 1..Len(seqs) : Ascending(seqs[n]),
           \A m, n \in 1..Len(seqs) :
             m < n => \A x \in ToSet(seqs[m]), y \in ToSet(seqs[n]) : Precedes(x, y)
    PROVE  Ascending(FlattenSeq(seqs))
<1>1. PICK flat : Flattens(flat, seqs, Points) /\ FlattenSeq(seqs) = flat[Len(seqs)]
  BY FlattenHasStages
<1> DEFINE max == Len(seqs)
           S == {n \in 0..max : Ascending(flat[n])}
<1>2. max \in Nat /\ flat \in [0..max -> Seq(Points)] /\ \A n \in 1..max : seqs[n] \in Seq(Points)
  BY <1>1 DEF Flattens
<1>3. ASSUME NEW n \in Nat, n < max, n \in S PROVE n + 1 \in S
  <2>1. n \in 0..max /\ n + 1 \in 1..max /\ n + 1 \in 0..max /\ (n + 1) - 1 = n
    BY <1>2, <1>3
  <2>2. flat[n + 1] = flat[n] \o seqs[n + 1]
    BY <1>1, <2>1 DEF Flattens
  <2> HIDE DEF max
  <2>3. flat[n] \in Seq(Points) /\ seqs[n + 1] \in Seq(Points)
    BY <1>2, <2>1
  <2>4. \A x : x \in ToSet(flat[n]) <=> \E m \in 1..n : x \in ToSet(seqs[m])
    <3>1. n \in 0..Len(seqs) /\ Flattens(flat, seqs, Points)
      BY <1>1, <2>1 DEF max
    <3> QED BY <3>1, FlattenMembers
  <2>5. \A x \in ToSet(flat[n]), y \in ToSet(seqs[n + 1]) : Precedes(x, y)
    <3> TAKE x \in ToSet(flat[n]), y \in ToSet(seqs[n + 1])
    <3>1. PICK m \in 1..n : x \in ToSet(seqs[m])
      BY <2>4
    <3>2. m \in 1..max /\ m < n + 1
      BY <1>2, <2>1
    <3> QED BY <2>1, <3>1, <3>2 DEF max
  <2>6. Ascending(flat[n]) /\ Ascending(seqs[n + 1])
    BY <1>3, <2>1 DEF max
  <2>7. Ascending(flat[n] \o seqs[n + 1])
    BY <2>3, <2>5, <2>6, AscendingConcat
  <2> QED BY <2>1, <2>2, <2>7
<1>4. 0 \in S
  <2>1. flat[0] = <<>> /\ 0 \in 0..max
    BY <1>1, <1>2 DEF Flattens
  <2>2. Len(<<>>) = 0
    OBVIOUS
  <2>3. Ascending(<<>>)
    BY <2>2 DEF Ascending
  <2> QED BY <2>1, <2>3
<1>5. 0..max \subseteq S
  <2> HIDE DEF S, max
  <2> QED BY <1>2, <1>3, <1>4, Induction
<1> QED BY <1>1, <1>2, <1>5

-----------------------------------------------------------------------------
(* Points that are asked for.                                              *)

\* The filter of a scan, point by point (sstable.py 624-636).
LEMMA SelectUnfolds ==
    ASSUME NEW points \in Seq(Points), NEW query
    PROVE  \E kept \in [0..Len(points) -> Seq(Points)] :
              /\ kept[0] = <<>> /\ Select(points, query) = kept[Len(points)]
              /\ \A n \in 1..Len(points) :
                   kept[n] = IF InRange(points[n], query) THEN Append(kept[n - 1], points[n])
                             ELSE kept[n - 1]
<1> DEFINE max == Len(points)
           X == Seq(Points)
           base == <<>>
           step == [n \in 1..max |-> [x \in X |->
                      IF InRange(points[n], query) THEN Append(x, points[n]) ELSE x]]
           Body(f) == [n \in 0..max |->
                          IF n = 0 THEN <<>>
                          ELSE IF InRange(points[n], query) THEN Append(f[n - 1], points[n])
                               ELSE f[n - 1]]
           g == CHOOSE g : g = Body(g)
<1>1. max \in Nat /\ base \in X
  OBVIOUS
<1>2. step \in [1..max -> [X -> X]]
  OBVIOUS
<1>3. PICK f \in [0..max -> X] : IsRun(f, base, max, step)
  <2> HIDE DEF step, X, max, base
  <2> QED BY <1>1, <1>2, RunExists
<1>4. \A n \in 1..max, x \in X :
         step[n][x] = IF InRange(points[n], query) THEN Append(x, points[n]) ELSE x
  OBVIOUS
<1> HIDE DEF step, X
<1>5. \A n \in 1..max : n - 1 \in 0..max /\ n # 0 /\ n \in 0..max
  BY <1>1
<1>6. f = Body(f)
  <2>1. f[0] = Body(f)[0]
    BY <1>1, <1>3 DEF IsRun
  <2>2. \A n \in 1..max : f[n - 1] \in X /\ f[n] = step[n][f[n - 1]]
    BY <1>3, <1>5 DEF IsRun
  <2>3. \A n \in 1..max : f[n] = Body(f)[n]
    BY <1>4, <1>5, <2>2
  <2>4. \A n \in 0..max : n = 0 \/ n \in 1..max
    BY <1>1
  <2> QED BY <1>3, <2>1, <2>3, <2>4
<1>7. g = Body(g)
  BY <1>6
<1>9. Select(points, query) = g[max]
  BY DEF Select
<1> HIDE DEF g
<1>10. \A n \in 1..max : g[n] = IF InRange(points[n], query) THEN Append(g[n - 1], points[n])
                                ELSE g[n - 1]
  BY <1>5, <1>7
<1>11. g[0] = base
  BY <1>1, <1>7
<1>12. \A n \in 1..max : g[n - 1] \in X => g[n] = step[n][g[n - 1]]
  BY <1>4, <1>10
<1>13. \A n \in 0..max : g[n] \in X
  <2> HIDE DEF max
  <2> QED BY <1>1, <1>2, <1>11, <1>12, RunTyped
<1>14. g \in [0..max -> X]
  <2> HIDE DEF max
  <2> QED BY <1>7, <1>13
<1> QED BY <1>9, <1>10, <1>11, <1>14 DEF X

\* Select keeps the order and gives the points that are asked for.
LEMMA SelectFacts ==
    ASSUME NEW points \in Seq(Points), NEW query
    PROVE  /\ Select(points, query) \in Seq(Points)
           /\ ToSet(Select(points, query)) = {x \in ToSet(points) : InRange(x, query)}
           /\ Ascending(points) => Ascending(Select(points, query))
<1>1. PICK kept \in [0..Len(points) -> Seq(Points)] :
              /\ kept[0] = <<>> /\ Select(points, query) = kept[Len(points)]
              /\ \A n \in 1..Len(points) :
                   kept[n] = IF InRange(points[n], query) THEN Append(kept[n - 1], points[n])
                             ELSE kept[n - 1]
  BY SelectUnfolds
<1> DEFINE max == Len(points)
           Found(n) == {x \in {points[i] : i \in 1..n} : InRange(x, query)}
           S == {n \in 0..max : /\ ToSet(kept[n]) = Found(n)
                                /\ Ascending(points) => Ascending(kept[n])}
<1>2. max \in Nat /\ \A n \in 1..max : points[n] \in Points
  OBVIOUS
<1>3. ASSUME NEW n \in Nat, n < max, n \in S PROVE n + 1 \in S
  <2>1. n \in 0..max /\ n + 1 \in 1..max /\ n + 1 \in 0..max /\ (n + 1) - 1 = n
    BY <1>2, <1>3
  <2>2. kept[n + 1] = IF InRange(points[n + 1], query) THEN Append(kept[n], points[n + 1])
                      ELSE kept[n]
    BY <1>1, <2>1
  <2>3. kept[n] \in Seq(Points) /\ points[n + 1] \in Points
    BY <1>1, <1>2, <2>1
  <2>4. 1..(n + 1) = (1..n) \cup {n + 1}
    BY <2>1
  <2>5. {points[i] : i \in 1..(n + 1)} = {points[i] : i \in 1..n} \cup {points[n + 1]}
    BY <2>4
  <2>6. CASE ~InRange(points[n + 1], query)
    <3>1. Found(n + 1) = Found(n)
      BY <2>5, <2>6
    <3> QED BY <1>3, <2>1, <2>2, <2>6, <3>1
  <2>7. CASE InRange(points[n + 1], query)
    <3>1. Found(n + 1) = Found(n) \cup {points[n + 1]}
      BY <2>5, <2>7
    <3> DEFINE x == points[n + 1]
    <3>2. /\ kept[n + 1] = kept[n] \o <<x>>
          /\ <<x>> \in Seq(Points) /\ ToSet(<<x>>) = {x} /\ Ascending(<<x>>)
      BY <2>2, <2>3, <2>7, OnePoint
    <3> HIDE DEF x
    <3>3. ToSet(kept[n + 1]) = ToSet(kept[n]) \cup {x}
      <4>1. ToSet(kept[n] \o <<x>>) = ToSet(kept[n]) \cup ToSet(<<x>>)
        <5>1. PICK a : a = kept[n]
          OBVIOUS
        <5>2. a \in Seq(Points) /\ <<x>> \in Seq(Points)
          BY <2>3, <3>2, <5>1
        <5> QED BY <5>1, <5>2, ToSetOfConcat
      <4> QED BY <3>2, <4>1
    <3>4. ASSUME Ascending(points) PROVE Ascending(kept[n + 1])
      <4>1. ASSUME NEW y \in ToSet(kept[n]) PROVE Precedes(y, x)
        <5>1. PICK i \in 1..n : y = points[i]
          BY <1>3, <4>1
        <5>2. i \in 1..max /\ i < n + 1
          BY <1>2, <2>1
        <5> QED BY <2>1, <3>4, <5>1, <5>2 DEF Ascending, x
      <4>2. Ascending(kept[n])
        BY <1>3, <3>4
      <4> QED BY <2>3, <3>2, <4>1, <4>2, AscendingConcat
    <3>5. ToSet(kept[n + 1]) = Found(n + 1)
      BY <1>3, <3>1, <3>3 DEF x
    <3> QED BY <2>1, <3>4, <3>5
  <2> QED BY <2>6, <2>7
<1>4. 0 \in S
  <2>1. Len(<<>>) = 0 /\ ToSet(<<>>) = {} /\ 1..0 = {}
    BY DEF ToSet
  <2>2. Found(0) = {} /\ 0 \in 0..max
    BY <1>2, <2>1
  <2>3. Ascending(<<>>)
    BY <2>1 DEF Ascending
  <2> QED BY <1>1, <2>1, <2>2, <2>3
<1>5. max \in S
  <2>1. 0..max \subseteq S
    <3> HIDE DEF S, max
    <3> QED BY <1>2, <1>3, <1>4, Induction
  <2> QED BY <1>2, <2>1
<1>6. {points[i] : i \in 1..max} = ToSet(points)
  BY DEF ToSet
<1> QED BY <1>1, <1>2, <1>5, <1>6

-----------------------------------------------------------------------------
(* The recursive functions of the encodings.                               *)

\* The timestamps a reader adds up, delta by delta (sstable.py 726-731).
LEMMA TimesUnfold ==
    ASSUME NEW first \in Int, NEW deltas \in Seq(Int)
    PROVE  \E g \in [0..Len(deltas) -> Int] :
              /\ g[0] = first /\ TimesFrom(first, deltas) = [n \in 1..Len(deltas) |-> g[n]]
              /\ \A n \in 1..Len(deltas) : g[n] = g[n - 1] + deltas[n]
<1> DEFINE max == Len(deltas)
           X == Int
           base == first
           step == [n \in 1..max |-> [x \in X |-> x + deltas[n]]]
           Body(f) == [n \in 0..max |-> IF n = 0 THEN base ELSE f[n - 1] + deltas[n]]
           g == CHOOSE g : g = Body(g)
<1>1. max \in Nat /\ base \in X
  OBVIOUS
<1>2. ASSUME NEW n \in 1..max, NEW x \in X
      PROVE  (x + deltas[n]) \in X
  OBVIOUS
<1> HIDE DEF X
<1>3. step \in [1..max -> [X -> X]] /\ \A n \in 1..max, x \in X : step[n][x] = x + deltas[n]
  BY <1>2
<1>4. \A n \in 1..max : n - 1 \in 0..max /\ n # 0 /\ n \in 0..max
  BY <1>1
<1>5. PICK f \in [0..max -> X] : IsRun(f, base, max, step)
  <2> HIDE DEF step, max, base
  <2> QED BY <1>1, <1>3, RunExists
<1> HIDE DEF step
<1>6. f = Body(f)
  <2>1. f[0] = Body(f)[0]
    BY <1>1, <1>5 DEF IsRun
  <2>2. \A n \in 1..max : f[n - 1] \in X /\ f[n] = step[n][f[n - 1]]
    BY <1>4, <1>5 DEF IsRun
  <2>3. \A n \in 1..max : f[n] = Body(f)[n]
    BY <1>3, <1>4, <2>2
  <2>4. \A n \in 0..max : n = 0 \/ n \in 1..max
    BY <1>1
  <2> QED BY <1>5, <2>1, <2>3, <2>4
<1>7. g = Body(g)
  BY <1>6
<1>8. TimesFrom(first, deltas) = [n \in 1..Len(deltas) |-> g[n]]
  BY DEF TimesFrom
<1> HIDE DEF g
<1>9. g[0] = base /\ \A n \in 1..max : g[n] = g[n - 1] + deltas[n]
  <2>1. g[0] = base
    BY <1>1, <1>7
  <2>2. ASSUME NEW n \in 1..max PROVE g[n] = g[n - 1] + deltas[n]
    <3> HIDE DEF max
    <3> QED BY <1>4, <1>7
  <2> QED BY <2>1, <2>2
<1>10. \A n \in 1..max : g[n - 1] \in X => g[n] = step[n][g[n - 1]]
  BY <1>3, <1>9
<1>11. \A n \in 0..max : g[n] \in X
  <2> HIDE DEF max
  <2> QED BY <1>1, <1>3, <1>9, <1>10, RunTyped
<1>12. g \in [0..max -> X]
  <2> HIDE DEF max
  <2> QED BY <1>7, <1>11
<1> QED BY <1>8, <1>9, <1>12 DEF X

\* The number of points of an index, block by block (sstable.py 509-534).
LEMMA PointCountUnfolds ==
    ASSUME NEW blocks, Len(blocks) \in Nat, \A n \in 1..Len(blocks) : blocks[n].count \in Int
    PROVE  \E g \in [0..Len(blocks) -> Int] :
              /\ g[0] = 0 /\ PointCount(blocks) = g[Len(blocks)]
              /\ \A n \in 1..Len(blocks) : g[n] = g[n - 1] + blocks[n].count
<1> DEFINE max == Len(blocks)
           X == Int
           base == 0
           step == [n \in 1..max |-> [x \in X |-> x + blocks[n].count]]
           Body(f) == [n \in 0..max |-> IF n = 0 THEN base ELSE f[n - 1] + blocks[n].count]
           g == CHOOSE g : g = Body(g)
<1>1. max \in Nat /\ base \in X
  OBVIOUS
<1>2. ASSUME NEW n \in 1..max, NEW x \in X
      PROVE  (x + blocks[n].count) \in X
  OBVIOUS
<1> HIDE DEF X
<1>3. step \in [1..max -> [X -> X]] /\ \A n \in 1..max, x \in X : step[n][x] = x + blocks[n].count
  BY <1>2
<1>4. \A n \in 1..max : n - 1 \in 0..max /\ n # 0 /\ n \in 0..max
  BY <1>1
<1>5. PICK f \in [0..max -> X] : IsRun(f, base, max, step)
  <2> HIDE DEF step, max, base
  <2> QED BY <1>1, <1>3, RunExists
<1> HIDE DEF step
<1>6. f = Body(f)
  <2>1. f[0] = Body(f)[0]
    BY <1>1, <1>5 DEF IsRun
  <2>2. \A n \in 1..max : f[n - 1] \in X /\ f[n] = step[n][f[n - 1]]
    BY <1>4, <1>5 DEF IsRun
  <2>3. \A n \in 1..max : f[n] = Body(f)[n]
    BY <1>3, <1>4, <2>2
  <2>4. \A n \in 0..max : n = 0 \/ n \in 1..max
    BY <1>1
  <2> QED BY <1>5, <2>1, <2>3, <2>4
<1>7. g = Body(g)
  BY <1>6
<1>8. PointCount(blocks) = g[Len(blocks)]
  BY DEF PointCount
<1> HIDE DEF g
<1>9. g[0] = base /\ \A n \in 1..max : g[n] = g[n - 1] + blocks[n].count
  <2>1. g[0] = base
    BY <1>1, <1>7
  <2>2. ASSUME NEW n \in 1..max PROVE g[n] = g[n - 1] + blocks[n].count
    <3> HIDE DEF max
    <3> QED BY <1>4, <1>7
  <2> QED BY <2>1, <2>2
<1>10. \A n \in 1..max : g[n - 1] \in X => g[n] = step[n][g[n - 1]]
  BY <1>3, <1>9
<1>11. \A n \in 0..max : g[n] \in X
  <2> HIDE DEF max
  <2> QED BY <1>1, <1>3, <1>9, <1>10, RunTyped
<1>12. g \in [0..max -> X]
  <2> HIDE DEF max
  <2> QED BY <1>7, <1>11
<1> QED BY <1>8, <1>9, <1>12 DEF X

\* The dictionary of a block, point by point (sstable.py 305-312).
LEMMA DictionaryUnfolds ==
    ASSUME NEW chunk \in Seq(Points)
    PROVE  \E g \in [0..Len(chunk) -> Seq(Int)] :
              /\ g[0] = <<>> /\ Dictionary(chunk) = g[Len(chunk)]
              /\ \A n \in 1..Len(chunk) : g[n] = IF Contains(g[n - 1], chunk[n].p) THEN g[n - 1] ELSE Append(g[n - 1], chunk[n].p)
<1> DEFINE max == Len(chunk)
           X == Seq(Int)
           base == <<>>
           step == [n \in 1..max |-> [x \in X |-> IF Contains(x, chunk[n].p) THEN x ELSE Append(x, chunk[n].p)]]
           Body(f) == [n \in 0..max |-> IF n = 0 THEN base ELSE IF Contains(f[n - 1], chunk[n].p) THEN f[n - 1] ELSE Append(f[n - 1], chunk[n].p)]
           g == CHOOSE g : g = Body(g)
<1>1. max \in Nat /\ base \in X
  OBVIOUS
<1>2. ASSUME NEW n \in 1..max, NEW x \in X
      PROVE  (IF Contains(x, chunk[n].p) THEN x ELSE Append(x, chunk[n].p)) \in X
  <2>1. chunk[n] \in Points
    OBVIOUS
  <2>2. chunk[n].p \in Int
    BY <2>1 DEF Points
  <2> HIDE DEF step
  <2> QED BY <2>2
<1> HIDE DEF X
<1>3. step \in [1..max -> [X -> X]] /\ \A n \in 1..max, x \in X : step[n][x] = IF Contains(x, chunk[n].p) THEN x ELSE Append(x, chunk[n].p)
  BY <1>2
<1>4. \A n \in 1..max : n - 1 \in 0..max /\ n # 0 /\ n \in 0..max
  BY <1>1
<1>5. PICK f \in [0..max -> X] : IsRun(f, base, max, step)
  <2> HIDE DEF step, max, base
  <2> QED BY <1>1, <1>3, RunExists
<1> HIDE DEF step
<1>6. f = Body(f)
  <2>1. f[0] = Body(f)[0]
    BY <1>1, <1>5 DEF IsRun
  <2>2. \A n \in 1..max : f[n - 1] \in X /\ f[n] = step[n][f[n - 1]]
    BY <1>4, <1>5 DEF IsRun
  <2>3. \A n \in 1..max : f[n] = Body(f)[n]
    BY <1>3, <1>4, <2>2
  <2>4. \A n \in 0..max : n = 0 \/ n \in 1..max
    BY <1>1
  <2> QED BY <1>5, <2>1, <2>3, <2>4
<1>7. g = Body(g)
  BY <1>6
<1>8. Dictionary(chunk) = g[Len(chunk)]
  BY DEF Dictionary
<1> HIDE DEF g
<1>9. g[0] = base /\ \A n \in 1..max : g[n] = IF Contains(g[n - 1], chunk[n].p) THEN g[n - 1] ELSE Append(g[n - 1], chunk[n].p)
  <2>1. g[0] = base
    BY <1>1, <1>7
  <2>2. ASSUME NEW n \in 1..max PROVE g[n] = IF Contains(g[n - 1], chunk[n].p) THEN g[n - 1] ELSE Append(g[n - 1], chunk[n].p)
    <3> HIDE DEF max
    <3> QED BY <1>4, <1>7
  <2> QED BY <2>1, <2>2
<1>10. \A n \in 1..max : g[n - 1] \in X => g[n] = step[n][g[n - 1]]
  BY <1>3, <1>9
<1>11. \A n \in 0..max : g[n] \in X
  <2> HIDE DEF max
  <2> QED BY <1>1, <1>3, <1>9, <1>10, RunTyped
<1>12. g \in [0..max -> X]
  <2> HIDE DEF max
  <2> QED BY <1>7, <1>11
<1> QED BY <1>8, <1>9, <1>12 DEF X

Groups == [low : Int, more : BOOLEAN]

Decoders == [values : Seq(Int), value : Int, weight : Int, groups : Int, ok : BOOLEAN]

\* The decoder of varints stays in its type, whatever group it reads.
LEMMA DecoderTyped ==
    /\ NothingDecoded \in Decoders
    /\ \A s \in Decoders, group \in Groups : DecodeGroup(s, group) \in Decoders
<1>1. GroupValues \in Int /\ MaxGroups \in Int
  BY FormatAssumption
<1>2. NothingDecoded \in Decoders
  BY DEF NothingDecoded, Decoders
<1>3. ASSUME NEW s \in Decoders, NEW group \in Groups PROVE DecodeGroup(s, group) \in Decoders
  <2> DEFINE value == s.value + group.low * s.weight
  <2>1. /\ value \in Int /\ s.weight * GroupValues \in Int /\ s.groups + 1 \in Int
        /\ s.values \in Seq(Int) /\ Append(s.values, value) \in Seq(Int)
        /\ s.ok \in BOOLEAN /\ (s.ok /\ s.groups + 1 < MaxGroups) \in BOOLEAN
    BY <1>1 DEF Decoders, Groups
  <2> HIDE DEF value
  <2>2. CASE group.more
    <3>1. DecodeGroup(s, group) =
             [values |-> s.values, value |-> value, weight |-> s.weight * GroupValues,
              groups |-> s.groups + 1, ok |-> s.ok /\ s.groups + 1 < MaxGroups]
      BY <2>2 DEF DecodeGroup, value
    <3> QED BY <2>1, <3>1 DEF Decoders
  <2>3. CASE ~group.more
    <3>1. DecodeGroup(s, group) = [values |-> Append(s.values, value), value |-> 0,
                                   weight |-> 1, groups |-> 0, ok |-> s.ok]
      BY <2>3 DEF DecodeGroup, value
    <3> QED BY <2>1, <3>1 DEF Decoders
  <2> QED BY <2>2, <2>3
<1> QED BY <1>2, <1>3

\* What _decode_uvarints has after each group (sstable.py 55-90).
LEMMA DecoderUnfolds ==
    ASSUME NEW groups \in Seq(Groups), NEW count
    PROVE  \E g \in [0..Len(groups) -> Decoders] :
              /\ g[0] = NothingDecoded /\ DecodeUvarints(groups, count) =
                 [values |-> g[Len(groups)].values,
                  ok |-> g[Len(groups)].ok /\ g[Len(groups)].groups = 0
                         /\ Len(g[Len(groups)].values) = count]
              /\ \A n \in 1..Len(groups) : g[n] = DecodeGroup(g[n - 1], groups[n])
<1> DEFINE max == Len(groups)
           X == Decoders
           base == NothingDecoded
           step == [n \in 1..max |-> [x \in X |-> DecodeGroup(x, groups[n])]]
           Body(f) == [n \in 0..max |-> IF n = 0 THEN base ELSE DecodeGroup(f[n - 1], groups[n])]
           g == CHOOSE g : g = Body(g)
<1>1. max \in Nat /\ base \in X
  BY DecoderTyped
<1>2. ASSUME NEW n \in 1..max, NEW x \in X
      PROVE  (DecodeGroup(x, groups[n])) \in X
  BY DecoderTyped
<1> HIDE DEF X
<1>3. step \in [1..max -> [X -> X]] /\ \A n \in 1..max, x \in X : step[n][x] = DecodeGroup(x, groups[n])
  BY <1>2
<1>4. \A n \in 1..max : n - 1 \in 0..max /\ n # 0 /\ n \in 0..max
  BY <1>1
<1>5. PICK f \in [0..max -> X] : IsRun(f, base, max, step)
  <2> HIDE DEF step, max, base
  <2> QED BY <1>1, <1>3, RunExists
<1> HIDE DEF step
<1>6. f = Body(f)
  <2>1. f[0] = Body(f)[0]
    BY <1>1, <1>5 DEF IsRun
  <2>2. \A n \in 1..max : f[n - 1] \in X /\ f[n] = step[n][f[n - 1]]
    BY <1>4, <1>5 DEF IsRun
  <2>3. \A n \in 1..max : f[n] = Body(f)[n]
    BY <1>3, <1>4, <2>2
  <2>4. \A n \in 0..max : n = 0 \/ n \in 1..max
    BY <1>1
  <2> QED BY <1>5, <2>1, <2>3, <2>4
<1>7. g = Body(g)
  BY <1>6
<1>8. DecodeUvarints(groups, count) =
                 [values |-> g[Len(groups)].values,
                  ok |-> g[Len(groups)].ok /\ g[Len(groups)].groups = 0
                         /\ Len(g[Len(groups)].values) = count]
  BY DEF DecodeUvarints
<1> HIDE DEF g
<1>9. g[0] = base /\ \A n \in 1..max : g[n] = DecodeGroup(g[n - 1], groups[n])
  <2>1. g[0] = base
    BY <1>1, <1>7
  <2>2. ASSUME NEW n \in 1..max PROVE g[n] = DecodeGroup(g[n - 1], groups[n])
    <3> HIDE DEF max
    <3> QED BY <1>4, <1>7
  <2> QED BY <2>1, <2>2
<1>10. \A n \in 1..max : g[n - 1] \in X => g[n] = step[n][g[n - 1]]
  BY <1>3, <1>9
<1>11. \A n \in 0..max : g[n] \in X
  <2> HIDE DEF max
  <2> QED BY <1>1, <1>3, <1>9, <1>10, RunTyped
<1>12. g \in [0..max -> X]
  <2> HIDE DEF max
  <2> QED BY <1>7, <1>11
<1> QED BY <1>8, <1>9, <1>12 DEF X

-----------------------------------------------------------------------------
(* Varints.                                                                *)

\* A number that needs another group loses size in its division by GroupValues.
LEMMA DigitBounds ==
    ASSUME NEW n \in Nat, NEW d \in Nat, NEW r \in 0..(GroupValues - 1), n = GroupValues * d + r
    PROVE  /\ ~FitsGroup(n) => d < n
           /\ FitsGroup(n) => r = n
<1>1. GroupValues \in Nat /\ GroupValues >= 2
  BY FormatAssumption
<1>2. ASSUME ~FitsGroup(n) PROVE d < n
  <2>1. n >= GroupValues
    BY <1>1, <1>2 DEF FitsGroup
  <2>2. CASE d = 0
    BY <1>1, <2>1, <2>2
  <2>3. CASE d >= 1
    <3>1. GroupValues * d >= 2 * d
      BY <1>1
    <3> QED BY <1>1, <2>3, <3>1
  <2> QED BY <2>2, <2>3
<1>3. ASSUME FitsGroup(n) PROVE r = n
  <2>1. n < GroupValues
    BY <1>3 DEF FitsGroup
  <2>2. CASE d >= 1
    <3>1. GroupValues * d >= GroupValues
      BY <1>1, <2>2
    <3> QED BY <1>1, <2>1, <3>1
  <2>3. CASE d = 0
    BY <1>1, <2>3
  <2> QED BY <2>2, <2>3
<1> QED BY <1>2, <1>3

\* The division that _encode_uvarint makes (sstable.py 46-51).
LEMMA Digits ==
    ASSUME NEW n \in Nat
    PROVE  /\ n \div GroupValues \in Nat /\ n % GroupValues \in 0..(GroupValues - 1)
           /\ n = GroupValues * (n \div GroupValues) + (n % GroupValues)
           /\ ~FitsGroup(n) => n \div GroupValues < n
           /\ FitsGroup(n) => n % GroupValues = n
<1>1. GroupValues \in Nat /\ GroupValues >= 2
  BY FormatAssumption
<1> DEFINE d == n \div GroupValues
           r == n % GroupValues
<1>2. d \in Int /\ r \in 0..(GroupValues - 1) /\ n = GroupValues * d + r
  BY <1>1
<1>3. d >= 0
  BY <1>1
<1> HIDE DEF d, r
<1>4. d \in Nat
  BY <1>2, <1>3
<1>5. (~FitsGroup(n) => d < n) /\ (FitsGroup(n) => r = n)
  BY <1>2, <1>4, DigitBounds
<1>6. d \in Nat /\ r \in 0..(GroupValues - 1) /\ n = GroupValues * d + r
  BY <1>2, <1>4
<1>7. n \div GroupValues = d /\ n % GroupValues = r
  BY DEF d, r
<1> QED BY <1>1, <1>5, <1>6, <1>7

Digit == [low : 0..(GroupValues - 1), more : BOOLEAN]

\* The groups of n, given those of the smaller numbers.
UvarintOf(f, n) ==
    IF FitsGroup(n) THEN <<[low |-> n % GroupValues, more |-> FALSE]>>
    ELSE <<[low |-> n % GroupValues, more |-> TRUE]>> \o f[n \div GroupValues]

\* _encode_uvarint writes groups that say whether one follows.
LEMMA UvarintOfTyped ==
    ASSUME NEW n \in Nat, NEW f, ~FitsGroup(n) => f[n \div GroupValues] \in Seq(Digit)
    PROVE  UvarintOf(f, n) \in Seq(Digit)
<1>1. \A b \in BOOLEAN : [low |-> n % GroupValues, more |-> b] \in Digit
  BY Digits DEF Digit
<1>2. \A b \in BOOLEAN : <<[low |-> n % GroupValues, more |-> b]>> \in Seq(Digit)
  BY <1>1
<1>3. CASE FitsGroup(n)
  BY <1>2, <1>3 DEF UvarintOf
<1>4. CASE ~FitsGroup(n)
  <2>1. UvarintOf(f, n) = <<[low |-> n % GroupValues, more |-> TRUE]>> \o f[n \div GroupValues]
    BY <1>4 DEF UvarintOf
  <2>2. <<[low |-> n % GroupValues, more |-> TRUE]>> \in Seq(Digit)
    BY <1>2
  <2>3. f[n \div GroupValues] \in Seq(Digit)
    BY <1>4
  <2> QED BY <2>1, <2>2, <2>3, ConcatFacts
<1> QED BY <1>3, <1>4

Uvarints(f, k) == \A n \in 0..k : f[n] = UvarintOf(f, n)

\* Two tables of encodings agree where both are defined.
LEMMA UvarintsAgree ==
    ASSUME NEW k \in Nat, NEW f, NEW g, Uvarints(f, k), Uvarints(g, k)
    PROVE  \A n \in 0..k : f[n] = g[n]
<1> DEFINE S == {n \in 0..k : \A m \in 0..n : f[m] = g[m]}
<1>1. ASSUME NEW n \in 0..k, \A m \in 0..(n - 1) : f[m] = g[m] PROVE f[n] = g[n]
  <2>1. f[n] = UvarintOf(f, n) /\ g[n] = UvarintOf(g, n)
    BY DEF Uvarints
  <2>2. CASE FitsGroup(n)
    BY <2>1, <2>2 DEF UvarintOf
  <2>3. CASE ~FitsGroup(n)
    <3>1. n \div GroupValues \in 0..(n - 1)
      BY <2>3, Digits
    <3> QED BY <1>1, <2>1, <2>3, <3>1 DEF UvarintOf
  <2> QED BY <2>2, <2>3
<1>2. 0 \in S
  <2>1. 0..(0 - 1) = {} /\ 0 \in 0..k /\ 0..0 = {0}
    OBVIOUS
  <2> QED BY <1>1, <2>1
<1>3. ASSUME NEW n \in Nat, n < k, n \in S PROVE n + 1 \in S
  <2>1. n + 1 \in 0..k /\ (n + 1) - 1 = n /\ 0..(n + 1) = (0..n) \cup {n + 1}
    BY <1>3
  <2>2. f[n + 1] = g[n + 1]
    BY <1>1, <1>3, <2>1
  <2> QED BY <1>3, <2>1, <2>2
<1>4. 0..k \subseteq S
  <2> HIDE DEF S
  <2> QED BY <1>2, <1>3, Induction
<1> QED BY <1>4

\* There is a table of encodings up to every number.
LEMMA UvarintsExist ==
    ASSUME NEW k \in Nat
    PROVE  \E f \in [0..k -> Seq(Digit)] : Uvarints(f, k)
<1> DEFINE S == {n \in 0..k : \E f \in [0..n -> Seq(Digit)] : Uvarints(f, n)}
<1>1. 0 \in S
  <2> DEFINE f == [n \in 0..0 |-> UvarintOf(<<>>, 0)]
  <2>1. FitsGroup(0)
    BY FormatAssumption DEF FitsGroup
  <2>2. UvarintOf(<<>>, 0) \in Seq(Digit) /\ UvarintOf(f, 0) = UvarintOf(<<>>, 0)
    BY <2>1, UvarintOfTyped DEF UvarintOf
  <2>3. f \in [0..0 -> Seq(Digit)] /\ f[0] = UvarintOf(<<>>, 0)
    BY <2>2
  <2>4. 0..0 = {0} /\ 0 \in 0..k
    OBVIOUS
  <2> HIDE DEF f
  <2>5. Uvarints(f, 0)
    BY <2>2, <2>3, <2>4 DEF Uvarints
  <2> QED BY <2>3, <2>4, <2>5
<1>2. ASSUME NEW n \in Nat, n < k, n \in S PROVE n + 1 \in S
  <2>1. PICK f \in [0..n -> Seq(Digit)] : Uvarints(f, n)
    BY <1>2
  <2> DEFINE last == UvarintOf(f, n + 1)
             g == [m \in 0..(n + 1) |-> IF m = n + 1 THEN last ELSE f[m]]
  <2>2. last \in Seq(Digit)
    <3>1. ~FitsGroup(n + 1) => f[(n + 1) \div GroupValues] \in Seq(Digit)
      <4>1. ~FitsGroup(n + 1) => (n + 1) \div GroupValues \in 0..n
        BY <1>2, Digits
      <4> QED BY <2>1, <4>1
    <3> QED BY <1>2, <3>1, UvarintOfTyped
  <2> HIDE DEF last
  <2>3. g \in [0..(n + 1) -> Seq(Digit)]
    BY <2>1, <2>2
  <2>4. \A m \in 0..n : g[m] = f[m]
    BY <1>2
  <2>5. g[n + 1] = last
    BY <1>2
  <2> HIDE DEF g
  <2>6. ASSUME NEW m \in 0..(n + 1) PROVE g[m] = UvarintOf(g, m)
    <3>1. ~FitsGroup(m) => m \div GroupValues \in 0..n
      <4>1. m \in Nat /\ (~FitsGroup(m) => m \div GroupValues \in Nat /\ m \div GroupValues < m)
        BY <1>2, Digits
      <4> QED BY <1>2, <4>1
    <3>2. UvarintOf(g, m) = UvarintOf(f, m)
      BY <2>4, <3>1 DEF UvarintOf
    <3>3. CASE m = n + 1
      BY <2>5, <3>2, <3>3 DEF last
    <3>4. CASE m # n + 1
      <4>1. m \in 0..n
        BY <1>2, <3>4
      <4> QED BY <2>1, <2>4, <3>2, <4>1 DEF Uvarints
    <3> QED BY <3>3, <3>4
  <2>7. Uvarints(g, n + 1)
    BY <2>6 DEF Uvarints
  <2>8. n + 1 \in 0..k
    BY <1>2
  <2> QED BY <2>3, <2>7, <2>8
<1>3. 0..k \subseteq S
  <2> HIDE DEF S
  <2> QED BY <1>1, <1>2, Induction
<1> QED BY <1>3

\* _encode_uvarint gives what its definition says, of any number.
LEMMA UvarintUnfolds ==
    \A n \in Nat : Uvarint[n] = UvarintOf(Uvarint, n) /\ Uvarint[n] \in Seq(Digit)
<1> DEFINE Chosen(n) == CHOOSE f \in [0..n -> Seq(Digit)] : Uvarints(f, n)
           F == [n \in Nat |-> Chosen(n)[n]]
           Body(f) == [n \in Nat |-> UvarintOf(f, n)]
<1>1. ASSUME NEW n \in Nat
      PROVE  Chosen(n) \in [0..n -> Seq(Digit)] /\ Uvarints(Chosen(n), n)
  BY UvarintsExist
<1> HIDE DEF Chosen
<1>2. ASSUME NEW n \in Nat, NEW m \in 0..n PROVE Chosen(n)[m] = F[m]
  <2>1. m \in Nat /\ m \in 0..m
    OBVIOUS
  <2>2. Uvarints(Chosen(m), m) /\ Uvarints(Chosen(n), n)
    BY <1>1, <2>1
  <2>3. Uvarints(Chosen(n), m)
    BY <2>1, <2>2 DEF Uvarints
  <2>4. Chosen(n)[m] = Chosen(m)[m]
    BY <2>1, <2>2, <2>3, UvarintsAgree
  <2> QED BY <2>1, <2>4
<1>3. ASSUME NEW n \in Nat PROVE F[n] = UvarintOf(F, n)
  <2>1. n \in 0..n
    OBVIOUS
  <2>2. F[n] = UvarintOf(Chosen(n), n)
    BY <1>1, <2>1 DEF Uvarints
  <2>3. ~FitsGroup(n) => n \div GroupValues \in 0..n
    BY Digits
  <2>4. ~FitsGroup(n) => Chosen(n)[n \div GroupValues] = F[n \div GroupValues]
    BY <1>2, <2>3
  <2> HIDE DEF F
  <2> QED BY <2>2, <2>4 DEF UvarintOf
<1>4. F = Body(F)
  BY <1>3
<1>5. Uvarint = CHOOSE f : f = Body(f)
  BY DEF Uvarint, UvarintOf
<1> HIDE DEF F
<1>6. Uvarint = Body(Uvarint)
  BY <1>4, <1>5
<1>7. \A n \in Nat : Uvarint[n] = UvarintOf(Uvarint, n)
  BY <1>6
<1>8. ASSUME NEW n \in Nat PROVE Uvarint[n] \in Seq(Digit)
  <2>1. PICK f \in [0..n -> Seq(Digit)] : Uvarints(f, n)
    BY UvarintsExist
  <2>2. Uvarints(Uvarint, n)
    BY <1>7 DEF Uvarints
  <2>3. n \in 0..n
    OBVIOUS
  <2>4. f[n] = Uvarint[n]
    BY <2>1, <2>2, <2>3, UvarintsAgree
  <2> QED BY <2>1, <2>3, <2>4
<1> QED BY <1>7, <1>8

\* An encoding is a low group followed by the encoding of the quotient.
LEMMA UvarintParts ==
    ASSUME NEW n \in Nat
    PROVE  /\ Len(Uvarint[n]) \in Nat \ {0}
           /\ FitsGroup(n) => Uvarint[n] = <<[low |-> n, more |-> FALSE]>>
           /\ ~FitsGroup(n) =>
                /\ n \div GroupValues \in 0..(n - 1)
                /\ Len(Uvarint[n]) = Len(Uvarint[n \div GroupValues]) + 1
                /\ Uvarint[n][1] = [low |-> n % GroupValues, more |-> TRUE]
                /\ \A i \in 1..Len(Uvarint[n \div GroupValues]) :
                     Uvarint[n][i + 1] = Uvarint[n \div GroupValues][i]
<1>1. Uvarint[n] = UvarintOf(Uvarint, n) /\ Uvarint[n] \in Seq(Digit)
  BY UvarintUnfolds
<1>2. CASE FitsGroup(n)
  <2>1. Uvarint[n] = <<[low |-> n, more |-> FALSE]>>
    BY <1>1, <1>2, Digits DEF UvarintOf
  <2>2. Len(Uvarint[n]) = 1
    BY <2>1
  <2> QED BY <1>2, <2>1, <2>2
<1>3. CASE ~FitsGroup(n)
  <2> DEFINE d == n \div GroupValues
             g == [low |-> n % GroupValues, more |-> TRUE]
             w == Uvarint[d]
  <2>1. d \in Nat /\ d \in 0..(n - 1) /\ n % GroupValues \in 0..(GroupValues - 1)
    BY <1>3, Digits
  <2>2. w \in Seq(Digit)
    BY <2>1, UvarintUnfolds
  <2>3. <<g>> \in Seq(Digit) /\ Len(<<g>>) = 1 /\ <<g>>[1] = g
    BY <2>1 DEF Digit
  <2>4. Uvarint[n] = <<g>> \o w
    BY <1>1, <1>3 DEF UvarintOf
  <2> HIDE DEF g, w
  <2>5. /\ Len(Uvarint[n]) = 1 + Len(w) /\ Len(w) \in Nat
        /\ Uvarint[n][1] = g
        /\ \A i \in 1..Len(w) : Uvarint[n][1 + i] = w[i]
    BY <2>2, <2>3, <2>4, ConcatFacts
  <2>6. \A i \in 1..Len(w) : i + 1 = 1 + i
    BY <2>5
  <2>7. Len(Uvarint[n]) = Len(w) + 1 /\ Len(Uvarint[n]) \in Nat \ {0}
    BY <2>5
  <2>8. \A i \in 1..Len(w) : Uvarint[n][i + 1] = w[i]
    BY <2>5, <2>6
  <2> QED BY <1>3, <2>1, <2>5, <2>7, <2>8 DEF g, w
<1> QED BY <1>2, <1>3

\* What the decoder has when it read value x.
Read(s, x) == [values |-> Append(s.values, x), value |-> 0, weight |-> 1, groups |-> 0, ok |-> TRUE]

\* The decoder that finds the groups of n has n behind them.
ReadsVarint(groups, after, n) ==
    \A at \in 0..Len(groups) :
        LET s == after[at]
            u == Uvarint[n]
        IN  /\ at + Len(u) <= Len(groups) /\ \A i \in 1..Len(u) : groups[at + i] = u[i]
            /\ s.ok /\ s.groups + Len(u) <= MaxGroups
            => after[at + Len(u)] = Read(s, s.value + n * s.weight)

\* The decoder reads the encoding of n if it reads those of smaller numbers.
LEMMA VarintReads ==
    ASSUME NEW groups \in Seq(Groups), NEW after \in [0..Len(groups) -> Decoders],
           \A i \in 1..Len(groups) : after[i] = DecodeGroup(after[i - 1], groups[i]),
           NEW n \in Nat, \A m \in 0..(n - 1) : ReadsVarint(groups, after, m)
    PROVE  ReadsVarint(groups, after, n)
<1> DEFINE u == Uvarint[n]
<1>1. SUFFICES ASSUME NEW at \in 0..Len(groups),
                      at + Len(u) <= Len(groups), \A i \in 1..Len(u) : groups[at + i] = u[i],
                      after[at].ok, after[at].groups + Len(u) <= MaxGroups
               PROVE  after[at + Len(u)] = Read(after[at], after[at].value + n * after[at].weight)
  BY DEF ReadsVarint
<1> DEFINE s == after[at]
<1>2. /\ s \in Decoders /\ s.values \in Seq(Int) /\ s.value \in Int /\ s.weight \in Int
      /\ s.groups \in Int /\ s.ok = TRUE /\ Len(groups) \in Nat
  <2>1. s \in Decoders
    OBVIOUS
  <2> QED BY <1>1, <2>1 DEF Decoders
<1>3. Len(u) \in Nat \ {0}
  BY UvarintParts
<1>4. at + 1 \in 1..Len(groups) /\ (at + 1) - 1 = at /\ 1 \in 1..Len(u)
  BY <1>1, <1>2, <1>3
<1>5. after[at + 1] = DecodeGroup(s, u[1])
  <2>1. after[at + 1] = DecodeGroup(after[(at + 1) - 1], groups[at + 1])
    BY <1>4
  <2>2. groups[at + 1] = u[1]
    BY <1>1, <1>4
  <2> QED BY <1>4, <2>1, <2>2
<1>6. CASE FitsGroup(n)
  <2>1. u = <<[low |-> n, more |-> FALSE]>>
    BY <1>6, UvarintParts
  <2>2. Len(u) = 1 /\ u[1] = [low |-> n, more |-> FALSE]
    BY <2>1
  <2>3. DecodeGroup(s, [low |-> n, more |-> FALSE])
          = [values |-> Append(s.values, s.value + n * s.weight), value |-> 0, weight |-> 1,
             groups |-> 0, ok |-> s.ok]
    BY DEF DecodeGroup
  <2>4. DecodeGroup(s, [low |-> n, more |-> FALSE]) = Read(s, s.value + n * s.weight)
    BY <1>2, <2>3 DEF Read
  <2> QED BY <1>5, <2>2, <2>4
<1>7. CASE ~FitsGroup(n)
  <2> DEFINE d == n \div GroupValues
             r == n % GroupValues
             w == Uvarint[d]
             t == after[at + 1]
  <2>1. /\ d \in 0..(n - 1) /\ Len(u) = Len(w) + 1 /\ u[1] = [low |-> r, more |-> TRUE]
        /\ \A i \in 1..Len(w) : u[i + 1] = w[i]
    BY <1>7, UvarintParts
  <2>2. d \in Nat /\ n = GroupValues * d + r /\ r \in 0..(GroupValues - 1)
    BY Digits
  <2>3. Len(w) \in Nat \ {0}
    <3> HIDE DEF d
    <3> QED BY <2>2, UvarintParts
  <2>13. GroupValues \in Nat /\ MaxGroups \in Nat
    BY FormatAssumption
  <2>14. s.groups + Len(u) <= MaxGroups
    BY <1>1
  <2>4. t = [values |-> s.values, value |-> s.value + r * s.weight,
             weight |-> s.weight * GroupValues, groups |-> s.groups + 1,
             ok |-> s.ok /\ s.groups + 1 < MaxGroups]
    <3>1. \A x : DecodeGroup(x, [low |-> r, more |-> TRUE])
                   = [values |-> x.values, value |-> x.value + r * x.weight,
                      weight |-> x.weight * GroupValues, groups |-> x.groups + 1,
                      ok |-> x.ok /\ x.groups + 1 < MaxGroups]
      BY DEF DecodeGroup
    <3>2. t = DecodeGroup(s, [low |-> r, more |-> TRUE])
      BY <1>5, <2>1
    <3> QED BY <3>1, <3>2
  <2> HIDE DEF s, t, u, w, d, r
  <2>15. r \in Int
    BY <2>2, <2>13
  <2>5. s.groups + 1 < MaxGroups /\ s.groups + 1 + Len(w) <= MaxGroups
    BY <1>2, <1>3, <2>1, <2>3, <2>13, <2>14
  <2>6. /\ t.ok /\ t.groups + Len(w) <= MaxGroups
        /\ t.values = s.values /\ t.value = s.value + r * s.weight
        /\ t.weight = s.weight * GroupValues
    BY <1>2, <2>4, <2>5
  <2>7. at + 1 \in 0..Len(groups) /\ (at + 1) + Len(w) <= Len(groups)
    <3>1. at + Len(u) <= Len(groups) /\ Len(u) = Len(w) + 1 /\ at + 1 \in 1..Len(groups)
      BY <1>1, <1>4, <2>1 DEF u
    <3>2. at \in Nat /\ Len(w) \in Nat /\ Len(groups) \in Nat
      BY <2>3
    <3> QED BY ONLY <3>1, <3>2
  <2>8. \A i \in 1..Len(w) : groups[(at + 1) + i] = w[i]
    <3> TAKE i \in 1..Len(w)
    <3>1. i + 1 \in 1..Len(u) /\ at + (i + 1) = (at + 1) + i
      <4>1. Len(u) = Len(w) + 1 /\ Len(w) \in Nat /\ at \in Int /\ i \in Int
        BY <1>2, <2>1, <2>3
      <4>2. i + 1 \in 1..Len(u)
        BY <4>1
      <4> QED BY <4>1, <4>2
    <3> QED BY <1>1, <2>1, <3>1 DEF u
  <2>9. after[(at + 1) + Len(w)] = Read(t, t.value + d * t.weight)
    <3>1. ReadsVarint(groups, after, d)
      BY <2>1
    <3> QED BY <2>6, <2>7, <2>8, <3>1 DEF ReadsVarint, t, w
  <2>10. t.value + d * t.weight = s.value + n * s.weight
    <3>1. d * (s.weight * GroupValues) + r * s.weight = (GroupValues * d + r) * s.weight
      BY <1>2, <2>2, <2>13, <2>15
    <3>2. t.value + d * t.weight = (s.value + r * s.weight) + d * (s.weight * GroupValues)
      BY <2>6
    <3>3. r * s.weight \in Int /\ d * (s.weight * GroupValues) \in Int
      BY <1>2, <2>2, <2>13, <2>15
    <3>4. n * s.weight = d * (s.weight * GroupValues) + r * s.weight
      BY <2>2, <3>1
    <3> QED BY <1>2, <3>2, <3>3, <3>4
  <2>11. (at + 1) + Len(w) = at + Len(u)
    BY <1>2, <2>1, <2>3
  <2>12. Read(t, t.value + d * t.weight) = Read(s, s.value + n * s.weight)
    BY <2>6, <2>10 DEF Read
  <2> QED BY <2>9, <2>11, <2>12 DEF s, u
<1> QED BY <1>6, <1>7

\* The decoder reads the encoding of every number, and stops behind it.
LEMMA VarintsRead ==
    ASSUME NEW groups \in Seq(Groups), NEW after \in [0..Len(groups) -> Decoders],
           \A i \in 1..Len(groups) : after[i] = DecodeGroup(after[i - 1], groups[i]),
           NEW n \in Nat
    PROVE  ReadsVarint(groups, after, n)
<1> DEFINE S == {k \in 0..n : \A m \in 0..k : ReadsVarint(groups, after, m)}
<1>1. 0 \in S
  <2>1. 0..(0 - 1) = {} /\ 0..0 = {0} /\ 0 \in 0..n
    OBVIOUS
  <2>2. ReadsVarint(groups, after, 0)
    BY <2>1, VarintReads
  <2> QED BY <2>1, <2>2
<1>2. ASSUME NEW k \in Nat, k < n, k \in S PROVE k + 1 \in S
  <2>1. (k + 1) - 1 = k /\ k + 1 \in Nat /\ k + 1 \in 0..n /\ 0..(k + 1) = (0..k) \cup {k + 1}
    BY <1>2
  <2>2. \A m \in 0..((k + 1) - 1) : ReadsVarint(groups, after, m)
    BY <1>2, <2>1
  <2>3. ReadsVarint(groups, after, k + 1)
    BY <2>1, <2>2, VarintReads
  <2> QED BY <1>2, <2>1, <2>3
<1>3. 0..n \subseteq S
  <2> HIDE DEF S
  <2> QED BY <1>1, <1>2, Induction
<1>4. n \in S
  BY <1>3
<1> QED BY <1>4

\* The differences of the timestamps.
Differences(chunk) ==
    [n \in 1..Len(chunk) |-> IF n = 1 THEN 0 ELSE chunk[n].t - chunk[n - 1].t]

\* The chunk has what a block is made of: points, in the order of their timestamps,
\* no two of which are further apart than a varint can say.
Chunk(chunk) ==
    /\ chunk \in Seq(Points) /\ chunk # <<>>
    /\ \A n \in 1..Len(chunk) :
         /\ Differences(chunk)[n] \in Nat
         /\ Len(Uvarint[Differences(chunk)[n]]) <= MaxGroups

\* A prefix and the next element are the next prefix.
LEMMA PrefixGrows ==
    ASSUME NEW P, NEW s \in Seq(P), NEW k \in Nat, k < Len(s)
    PROVE  Append(SubSeq(s, 1, k), s[k + 1]) = SubSeq(s, 1, k + 1)
<1> DEFINE x == SubSeq(s, 1, k)
           y == SubSeq(s, 1, k + 1)
<1>1. x \in Seq(P) /\ Len(x) = k /\ \A i \in 1..k : x[i] = s[i]
  OBVIOUS
<1>2. y \in Seq(P) /\ Len(y) = k + 1 /\ \A i \in 1..(k + 1) : y[i] = s[i]
  OBVIOUS
<1>3. s[k + 1] \in P
  OBVIOUS
<1> HIDE DEF x, y
<1>4. Append(x, s[k + 1]) \in Seq(P) /\ Len(Append(x, s[k + 1])) = k + 1
  BY <1>1, <1>3
<1>5. \A i \in 1..(k + 1) : Append(x, s[k + 1])[i] = y[i]
  BY <1>1, <1>2, <1>3
<1>6. Append(x, s[k + 1]) = y
  BY <1>2, <1>4, <1>5, SeqEqual
<1> QED BY <1>6 DEF x, y

\* _decode_uvarints gives the differences of timestamps that _encode_uvarint was given, for
\* every size of a group and every number of groups that a varint may have.
THEOREM VarintsReadBack ==
    ASSUME NEW chunk, Chunk(chunk)
    PROVE  /\ Deltas(chunk) \in Seq(Groups) /\ Differences(chunk) \in Seq(Int)
           /\ DecodeUvarints(Deltas(chunk), Len(chunk))
                = [values |-> Differences(chunk), ok |-> TRUE]
<1> DEFINE D == Differences(chunk)
           seqs == [n \in 1..Len(chunk) |-> Uvarint[D[n]]]
           max == Len(chunk)
<1>1. max \in Nat \ {0} /\ DOMAIN chunk = 1..max
  BY DEF Chunk
<1>2. \A n \in 1..max : D[n] \in Nat /\ Len(Uvarint[D[n]]) <= MaxGroups
  BY DEF Chunk
<1>3. D \in Seq(Int) /\ Len(D) = max
  <2>1. D \in [1..max -> Int]
    BY <1>2 DEF Differences
  <2> QED BY <1>1, <2>1
<1>4. Deltas(chunk) = FlattenSeq(seqs)
  <2>1. \A n \in 1..max : D[n] = IF n = 1 THEN 0 ELSE chunk[n].t - chunk[n - 1].t
    BY DEF Differences
  <2>2. seqs = [n \in DOMAIN chunk |-> Uvarint[IF n = 1 THEN 0 ELSE chunk[n].t - chunk[n - 1].t]]
    BY <1>1, <2>1
  <2> QED BY <2>2 DEF Deltas
<1> HIDE DEF D
<1>5. seqs \in Seq(Seq(Groups)) /\ Len(seqs) = max /\ \A n \in 1..max : seqs[n] = Uvarint[D[n]]
  <2>1. \A x \in Digit : x \in Groups
    BY FormatAssumption DEF Digit, Groups
  <2>2. \A n \in 1..max : Uvarint[D[n]] \in Seq(Digit)
    BY <1>2, UvarintUnfolds
  <2>3. \A n \in 1..max : Uvarint[D[n]] \in Seq(Groups)
    BY <2>1, <2>2
  <2>4. seqs \in [1..max -> Seq(Groups)]
    BY <2>3
  <2> QED BY <1>1, <2>4
<1> HIDE DEF seqs
<1>6. PICK flat : Flattens(flat, seqs, Groups) /\ FlattenSeq(seqs) = flat[Len(seqs)]
  BY <1>5, FlattenHasStages
<1> DEFINE groups == flat[max]
<1>7. flat \in [0..max -> Seq(Groups)] /\ flat[0] = <<>> /\ groups \in Seq(Groups)
  BY <1>1, <1>5, <1>6 DEF Flattens
<1>8. Deltas(chunk) = groups
  BY <1>4, <1>5, <1>6
<1>9. PICK after \in [0..Len(groups) -> Decoders] :
         /\ after[0] = NothingDecoded
         /\ DecodeUvarints(groups, max) =
              [values |-> after[Len(groups)].values,
               ok |-> after[Len(groups)].ok /\ after[Len(groups)].groups = 0
                         /\ Len(after[Len(groups)].values) = max]
         /\ \A n \in 1..Len(groups) : after[n] = DecodeGroup(after[n - 1], groups[n])
  <2> HIDE DEF groups, max
  <2> QED BY <1>7, DecoderUnfolds
<1> DEFINE State(k) == [values |-> SubSeq(D, 1, k), value |-> 0, weight |-> 1, groups |-> 0, ok |-> TRUE]
           S == {k \in 0..max : after[Len(flat[k])] = State(k)}
<1>10. 0 \in S
  <2>1. Len(flat[0]) = 0 /\ 0 \in 0..max
    BY <1>1, <1>7
  <2>2. SubSeq(D, 1, 0) = <<>>
    BY <1>3
  <2> QED BY <1>9, <2>1, <2>2 DEF NothingDecoded
<1>11. ASSUME NEW k \in Nat, k < max, k \in S PROVE k + 1 \in S
  <2> DEFINE at == Len(flat[k])
             u == Uvarint[D[k + 1]]
  <2>1. k + 1 \in 1..max /\ (k + 1) - 1 = k /\ k \in 0..max /\ k + 1 \in 0..max
    BY <1>1, <1>11
  <2>2. flat[k + 1] = flat[k] \o u /\ u \in Seq(Groups) /\ flat[k] \in Seq(Groups)
    <3>1. flat[k + 1] = flat[(k + 1) - 1] \o seqs[k + 1] /\ seqs[k + 1] = u
      BY <1>5, <1>6, <2>1 DEF Flattens
    <3>2. u \in Seq(Groups)
      BY <1>5, <2>1, <3>1
    <3> HIDE DEF u
    <3> QED BY <1>7, <2>1, <3>1, <3>2
  <2>3. /\ Len(flat[k + 1]) = at + Len(u) /\ at \in Nat /\ Len(u) \in Nat
        /\ \A i \in 1..Len(u) : flat[k + 1][at + i] = u[i]
    <3> HIDE DEF u, S, max
    <3> QED BY <2>2, ConcatFacts
  <2>4. /\ Len(flat[k + 1]) <= Len(groups)
        /\ \A i \in 1..Len(flat[k + 1]) : groups[i] = flat[k + 1][i]
    <3> HIDE DEF max
    <3> QED BY <1>5, <1>6, <2>1, StagesGrow
  <2>5. after[at] = State(k)
    BY <1>11
  <2>6. D[k + 1] \in Nat /\ Len(u) <= MaxGroups
    BY <1>2, <2>1
  <2>7. ReadsVarint(groups, after, D[k + 1])
    <3> HIDE DEF groups
    <3> QED BY <1>7, <1>9, <2>6, VarintsRead
  <2> HIDE DEF groups, u, at, D, max
  <2>8. at \in 0..Len(groups) /\ at + Len(u) <= Len(groups)
    <3>1. Len(groups) \in Nat
      BY <1>7
    <3> QED BY <2>3, <2>4, <3>1
  <2>9. \A i \in 1..Len(u) : groups[at + i] = u[i]
    <3> TAKE i \in 1..Len(u)
    <3>1. at + i \in 1..Len(flat[k + 1])
      BY <2>3
    <3> QED BY <2>3, <2>4, <3>1
  <2>10. after[at].ok /\ after[at].groups + Len(u) <= MaxGroups
    <3>1. 0 + Len(u) = Len(u)
      BY <2>3
    <3> QED BY <2>5, <2>6, <3>1
  <2>11. after[at + Len(u)] = Read(after[at], after[at].value + D[k + 1] * after[at].weight)
    BY <2>7, <2>8, <2>9, <2>10 DEF ReadsVarint, u
  <2>12. after[at].value + D[k + 1] * after[at].weight = D[k + 1]
    <3>1. 0 + D[k + 1] * 1 = D[k + 1]
      BY <2>6
    <3> QED BY <2>5, <3>1
  <2>13. Append(SubSeq(D, 1, k), D[k + 1]) = SubSeq(D, 1, k + 1)
    BY <1>3, <1>11, PrefixGrows
  <2>14. Append(after[at].values, D[k + 1]) = SubSeq(D, 1, k + 1)
    BY <2>5, <2>13
  <2>15. after[at + Len(u)] = State(k + 1)
    BY <2>11, <2>12, <2>14 DEF Read
  <2> QED BY <2>1, <2>3, <2>15
<1>12. 0..max \subseteq S
  <2> HIDE DEF S, max
  <2> QED BY <1>1, <1>10, <1>11, Induction
<1>13. after[Len(groups)] = State(max)
  <2>1. max \in 0..max
    BY <1>1
  <2> HIDE DEF max, State
  <2>2. max \in S
    BY <1>12, <2>1
  <2> QED BY <2>2
<1>14. SubSeq(D, 1, max) = D
  BY <1>1, <1>3
<1> HIDE DEF groups, max
<1>15. DecodeUvarints(groups, max) = [values |-> D, ok |-> TRUE]
  <2>1. /\ after[Len(groups)].values = D /\ after[Len(groups)].groups = 0
        /\ after[Len(groups)].ok = TRUE
    BY <1>13, <1>14
  <2>2. Len(after[Len(groups)].values) = max
    BY <1>3, <2>1
  <2> QED BY <1>9, <2>1, <2>2
<1> QED BY <1>3, <1>7, <1>8, <1>15 DEF D, max

\* The times come out as they went in, all off by what the base is off by.
LEMMA TimesDecode ==
    ASSUME NEW chunk, Chunk(chunk), NEW shift \in Int
    PROVE  TimesFrom(chunk[1].t + shift, Differences(chunk))
             = [n \in 1..Len(chunk) |-> chunk[n].t + shift]
<1> DEFINE D == Differences(chunk)
           max == Len(chunk)
           T(n) == chunk[n].t
<1>1. max \in Nat \ {0} /\ \A n \in 1..max : T(n) \in Int
  <2>1. max \in Nat \ {0} /\ \A n \in 1..max : chunk[n] \in Points
    BY DEF Chunk
  <2> QED BY <2>1 DEF Points
<1>2. D \in Seq(Int) /\ Len(D) = max
  BY VarintsReadBack DEF Differences, Chunk
<1>3. \A n \in 1..max : D[n] = IF n = 1 THEN 0 ELSE T(n) - T(n - 1)
  BY DEF Differences
<1> DEFINE first == T(1) + shift
<1>4. first \in Int
  BY <1>1
<1> HIDE DEF D, T, first
<1>5. PICK g \in [0..Len(D) -> Int] :
              /\ g[0] = first /\ TimesFrom(first, D) = [n \in 1..Len(D) |-> g[n]]
              /\ \A n \in 1..Len(D) : g[n] = g[n - 1] + D[n]
  BY <1>2, <1>4, TimesUnfold
<1> HIDE DEF max
<1> DEFINE S == {n \in 0..max : n # 0 => g[n] = T(n) + shift}
<1>6. ASSUME NEW n \in Nat, n < max, n \in S PROVE n + 1 \in S
  <2>1. n + 1 \in 1..max /\ n + 1 \in 0..max /\ (n + 1) - 1 = n /\ (n # 0 => n \in 1..max)
    BY <1>1, <1>6
  <2>2. g[n + 1] = g[n] + D[n + 1]
    BY <1>2, <1>5, <2>1
  <2>3. CASE n = 0
    <3>1. D[n + 1] = 0 /\ g[n] = first
      BY <1>3, <1>5, <2>1, <2>3
    <3>2. g[n + 1] = first
      BY <1>4, <2>2, <3>1
    <3> QED BY <2>1, <2>3, <3>2 DEF first
  <2>4. CASE n # 0
    <3>1. D[n + 1] = T(n + 1) - T(n) /\ g[n] = T(n) + shift
      <4>1. n + 1 # 1
        BY <2>4
      <4> QED BY <1>3, <1>6, <2>1, <2>4, <4>1
    <3>2. T(n) \in Int /\ T(n + 1) \in Int
      BY <1>1, <2>1, <2>4
    <3>3. g[n + 1] = T(n + 1) + shift
      BY <2>2, <3>1, <3>2
    <3> QED BY <2>1, <3>3
  <2> QED BY <2>3, <2>4
<1>7. 0 \in S /\ max \in Nat
  BY <1>1
<1>8. 0..max \subseteq S
  <2> HIDE DEF S
  <2> QED BY <1>6, <1>7, Induction
<1>9. \A n \in 1..max : n \in 0..max /\ n # 0
  BY <1>1
<1>10. \A n \in 1..max : g[n] = T(n) + shift
  BY <1>8, <1>9
<1>11. TimesFrom(first, D) = [n \in 1..max |-> T(n) + shift]
  BY <1>2, <1>5, <1>10
<1> QED BY <1>11 DEF first, D, T, max

-----------------------------------------------------------------------------
(* The dictionary.                                                         *)

IsDictionary(dict, chunk, n) ==
    /\ dict \in Seq(Int)
    /\ \A i, j \in 1..Len(dict) : dict[i] = dict[j] => i = j
    /\ \A i \in 1..Len(dict) : \E m \in 1..n : dict[i] = chunk[m].p
    /\ \A m \in 1..n : \E i \in 1..Len(dict) : dict[i] = chunk[m].p

\* The dictionary of a block has each of its parameters once.
LEMMA DictionaryFacts ==
    ASSUME NEW chunk \in Seq(Points)
    PROVE  IsDictionary(Dictionary(chunk), chunk, Len(chunk))
<1>1. PICK g \in [0..Len(chunk) -> Seq(Int)] :
              /\ g[0] = <<>> /\ Dictionary(chunk) = g[Len(chunk)]
              /\ \A n \in 1..Len(chunk) :
                   g[n] = IF Contains(g[n - 1], chunk[n].p) THEN g[n - 1]
                          ELSE Append(g[n - 1], chunk[n].p)
  BY DictionaryUnfolds
<1> DEFINE max == Len(chunk)
           S == {n \in 0..max : IsDictionary(g[n], chunk, n)}
<1>2. max \in Nat /\ \A n \in 1..max : chunk[n].p \in Int
  <2>1. max \in Nat /\ \A n \in 1..max : chunk[n] \in Points
    OBVIOUS
  <2> QED BY <2>1 DEF Points
<1> HIDE DEF max
<1>3. 0 \in S
  <2>1. Len(g[0]) = 0 /\ 1..0 = {} /\ 0 \in 0..max /\ g[0] \in Seq(Int)
    BY <1>1, <1>2 DEF max
  <2> QED BY <2>1 DEF IsDictionary
<1>4. ASSUME NEW n \in Nat, n < max, n \in S PROVE n + 1 \in S
  <2> DEFINE d == g[n]
             e == g[n + 1]
             p == chunk[n + 1].p
  <2>1. n + 1 \in 1..max /\ (n + 1) - 1 = n /\ n + 1 \in 0..max /\ 1..(n + 1) = (1..n) \cup {n + 1}
    BY <1>2, <1>4
  <2>2. e = IF Contains(d, p) THEN d ELSE Append(d, p)
    BY <1>1, <2>1 DEF max
  <2>3. p \in Int /\ IsDictionary(d, chunk, n)
    BY <1>2, <1>4, <2>1
  <2> HIDE DEF d, e
  <2>4. CASE Contains(d, p)
    <3>1. e = d /\ \E i \in 1..Len(d) : d[i] = p
      BY <2>2, <2>4 DEF Contains
    <3>2. \A i \in 1..Len(d) : \E m \in 1..(n + 1) : d[i] = chunk[m].p
      BY <2>1, <2>3 DEF IsDictionary
    <3>3. \A m \in 1..(n + 1) : \E i \in 1..Len(d) : d[i] = chunk[m].p
      BY <2>1, <2>3, <3>1 DEF IsDictionary
    <3>4. IsDictionary(d, chunk, n + 1)
      BY <2>3, <3>2, <3>3 DEF IsDictionary
    <3> QED BY <2>1, <3>1, <3>4 DEF e
  <2>5. CASE ~Contains(d, p)
    <3> HIDE DEF p
    <3>1. d \in Seq(Int) /\ Len(d) \in Nat /\ \A i \in 1..Len(d) : d[i] # p
      BY <2>3, <2>5 DEF IsDictionary, Contains
    <3>2. /\ e \in Seq(Int) /\ Len(e) = Len(d) + 1 /\ e[Len(d) + 1] = p
          /\ \A i \in 1..Len(d) : e[i] = d[i]
      BY <2>2, <2>3, <2>5, <3>1
    <3>3. 1..Len(e) = (1..Len(d)) \cup {Len(d) + 1}
      BY <3>1, <3>2
    <3>4. \A i, j \in 1..Len(e) : e[i] = e[j] => i = j
      BY <2>3, <3>1, <3>2, <3>3 DEF IsDictionary
    <3>5. \A i \in 1..Len(e) : \E m \in 1..(n + 1) : e[i] = chunk[m].p
      <4> TAKE i \in 1..Len(e)
      <4>1. CASE i = Len(d) + 1
        BY <2>1, <3>2, <4>1 DEF p
      <4>2. CASE i \in 1..Len(d)
        <5>1. PICK m \in 1..n : d[i] = chunk[m].p
          BY <2>3, <4>2 DEF IsDictionary
        <5> QED BY <2>1, <3>2, <4>2, <5>1
      <4> QED BY <3>3, <4>1, <4>2
    <3>6. \A m \in 1..(n + 1) : \E i \in 1..Len(e) : e[i] = chunk[m].p
      <4> TAKE m \in 1..(n + 1)
      <4>1. CASE m = n + 1
        BY <3>2, <3>3, <4>1 DEF p
      <4>2. CASE m \in 1..n
        <5>1. PICK i \in 1..Len(d) : d[i] = chunk[m].p
          BY <2>3, <4>2 DEF IsDictionary
        <5> QED BY <3>2, <3>3, <5>1
      <4> QED BY <2>1, <4>1, <4>2
    <3>7. IsDictionary(e, chunk, n + 1)
      BY <3>2, <3>4, <3>5, <3>6 DEF IsDictionary
    <3> QED BY <2>1, <3>7 DEF e
  <2> QED BY <2>4, <2>5
<1>5. 0..max \subseteq S
  <2> HIDE DEF S
  <2> QED BY <1>2, <1>3, <1>4, Induction
<1>6. max \in S
  BY <1>2, <1>5
<1> QED BY <1>1, <1>6 DEF max

\* A reference finds its parameter, and has room in as many bytes as are taken for it.
LEMMA ReferencesFind ==
    ASSUME NEW chunk \in Seq(Points), Encodable(chunk), NEW n \in 1..Len(chunk)
    PROVE  LET dict == Dictionary(chunk)
               ref == Reference(dict, chunk[n].p)
           IN  /\ ref \in 0..(Len(dict) - 1) /\ dict[ref + 1] = chunk[n].p
               /\ ref % Capacity(RefWidth(Len(dict))) = ref
<1> DEFINE dict == Dictionary(chunk)
           p == chunk[n].p
           i == CHOOSE i \in DOMAIN dict : dict[i] = p
<1>1. dict \in Seq(Int) /\ Len(dict) \in Nat /\ DOMAIN dict = 1..Len(dict)
  BY DictionaryFacts DEF IsDictionary
<1>2. i \in 1..Len(dict) /\ dict[i] = p
  BY <1>1, DictionaryFacts DEF IsDictionary
<1>3. Reference(dict, p) = i - 1
  BY DEF Reference
<1>4. Len(dict) <= MaxParameter + 1
  <2> DEFINE f == [k \in 1..Len(dict) |-> dict[k]]
  <2>1. \A k \in 1..Len(dict) : dict[k] \in 0..MaxParameter
    <3> TAKE k \in 1..Len(dict)
    <3>1. PICK m \in 1..Len(chunk) : dict[k] = chunk[m].p
      BY DictionaryFacts DEF IsDictionary
    <3> HIDE DEF dict
    <3> QED BY <3>1 DEF Encodable, ParametersOf
  <2>2. f \in Injection(1..Len(dict), 0..MaxParameter)
    <3>1. \A j, k \in 1..Len(dict) : dict[j] = dict[k] => j = k
      BY DictionaryFacts DEF IsDictionary
    <3> HIDE DEF dict
    <3> QED BY <2>1, <3>1 DEF Injection, IsInjective
  <2>3. /\ IsFiniteSet(0..MaxParameter) /\ Cardinality(0..MaxParameter) = MaxParameter + 1
    <3>1. 0 \in Int /\ MaxParameter \in Int /\ ~(0 > MaxParameter) /\ MaxParameter - 0 + 1 = MaxParameter + 1
      BY FormatAssumption
    <3> QED BY <3>1, FS_Interval
  <2> HIDE DEF f, dict
  <2>4. Cardinality(1..Len(dict)) <= Cardinality(0..MaxParameter)
    BY <2>2, <2>3, FS_Injection
  <2>5. Cardinality(1..Len(dict)) = Len(dict)
    <3>1. 1 \in Int /\ Len(dict) \in Int /\ (1 > Len(dict) => Len(dict) = 0) /\ Len(dict) - 1 + 1 = Len(dict)
      BY <1>1
    <3> QED BY <3>1, FS_Interval
  <2> QED BY <2>3, <2>4, <2>5
<1> HIDE DEF i, dict
<1>5. \A width \in {1, 2, 4} : Capacity(width) \in Nat
  BY FormatAssumption DEF Capacity
<1>6. RefWidth(Len(dict)) \in {1, 2, 4} /\ i - 1 < Capacity(RefWidth(Len(dict)))
  <2>1. i - 1 < Len(dict) /\ Len(dict) <= Capacity(4)
    <3>1. MaxParameter \in Nat /\ MaxParameter < Capacity(4)
      BY FormatAssumption
    <3>2. Capacity(4) \in Nat
      BY <1>5
    <3> QED BY <1>1, <1>2, <1>4, <3>1, <3>2
  <2>2. Capacity(1) \in Nat /\ Capacity(2) \in Nat /\ Capacity(4) \in Nat
    BY <1>5
  <2> QED BY <1>1, <1>2, <2>1, <2>2 DEF RefWidth
<1>7. \A a, b \in Nat : a < b => a % b = a
  OBVIOUS
<1>8. i - 1 \in Nat /\ i - 1 \in 0..(Len(dict) - 1) /\ (i - 1) + 1 = i
  BY <1>1, <1>2
<1>9. (i - 1) % Capacity(RefWidth(Len(dict))) = i - 1
  BY <1>5, <1>6, <1>7, <1>8
<1> QED BY <1>2, <1>3, <1>8, <1>9 DEF dict

-----------------------------------------------------------------------------
(* Blocks, encoded and decoded.                                            *)

\* What the index says of an encoded chunk.
Describes(metadata, format, chunk) ==
    /\ metadata.count = Len(chunk)
    /\ metadata.size = EncodedSize(format, Encode(format, chunk))
    /\ metadata.maxT = chunk[Len(chunk)].t

BlockFormats == {"v1_raw", "v2_timeseries"}

\* No block is empty on disk, in either format.
LEMMA EncodedSizePositive ==
    ASSUME NEW chunk, Chunk(chunk), NEW format \in BlockFormats
    PROVE  EncodedSize(format, Encode(format, chunk)) \in Nat \ {0}
<1>1. Len(chunk) \in Nat \ {0} /\ chunk \in Seq(Points)
  BY DEF Chunk
<1>2. CASE format = "v1_raw"
  <2>1. Encode(format, chunk).points = chunk
    BY <1>2 DEF Encode
  <2> QED BY <1>1, <1>2, <2>1 DEF EncodedSize
<1>3. CASE format = "v2_timeseries"
  <2> DEFINE b == Encode(format, chunk)
             dict == Dictionary(chunk)
             width == RefWidth(Len(dict))
  <2>1. b.dict = dict /\ b.deltas = Deltas(chunk) /\ b.count = Len(chunk) /\ b.width = width
    BY <1>3 DEF Encode
  <2>2. Len(dict) \in Nat
    BY <1>1, DictionaryFacts DEF IsDictionary
  <2>3. Len(Deltas(chunk)) \in Nat
    BY VarintsReadBack
  <2>4. width \in {1, 2, 4}
    BY DEF RefWidth
  <2> DEFINE w == width + 8
  <2>7. w \in Nat
    BY <2>4
  <2>5. EncodedSize(format, b) = 21 + 4 * Len(dict) + Len(Deltas(chunk)) + Len(chunk) * w
    BY <1>3, <2>1 DEF EncodedSize
  <2> HIDE DEF b, dict, width, w
  <2>6. Len(chunk) * w \in Nat
    BY <1>1, <2>7
  <2>8. 4 * Len(dict) \in Nat
    BY <2>2
  <2>9. EncodedSize(format, b) \in Nat \ {0}
    BY <2>3, <2>5, <2>6, <2>8
  <2> QED BY <2>9 DEF b
<1> QED BY <1>2, <1>3 DEF BlockFormats

\* A block with its base off by shift is read as what it was if shift is 0, and
\* raises otherwise.
LEMMA TimeseriesBlock ==
    ASSUME NEW chunk, Chunk(chunk), Encodable(chunk), NEW metadata,
           Describes(metadata, "v2_timeseries", chunk),
           NEW shift \in Int, NEW block,
           block = [Encode("v2_timeseries", chunk) EXCEPT !.base = @ + shift]
    PROVE  LET read == Decode("v2_timeseries", block, metadata) IN
           /\ read.ok <=> shift = 0
           /\ shift = 0 => read.points = chunk
<1> DEFINE max == Len(chunk)
           dict == Dictionary(chunk)
           width == RefWidth(Len(dict))
           refs == [n \in 1..max |-> Reference(dict, chunk[n].p) % Capacity(width)]
           values == [n \in 1..max |-> chunk[n].v]
           encoded == Encode("v2_timeseries", chunk)
           deltas == DecodeUvarints(block.deltas, block.count)
           times == TimesFrom(block.base, deltas.values)
           ok == /\ block.count = metadata.count
                 /\ block.width \in {1, 2, 4}
                 /\ EncodedSize("v2_timeseries", block) = metadata.size
                 /\ deltas.ok
                 /\ times[1] = block.base
                 /\ times[Len(times)] = metadata.maxT
                 /\ \A n \in DOMAIN block.refs : block.refs[n] < Len(block.dict)
           points == [n \in 1..block.count |->
                        [t |-> times[n], p |-> block.dict[block.refs[n] + 1], v |-> block.values[n]]]
<1>1. max \in Nat \ {0} /\ chunk \in Seq(Points) /\ DOMAIN chunk = 1..max
      /\ \A n \in 1..max : chunk[n] \in Points
  BY DEF Chunk
<1>2. encoded = [base |-> chunk[1].t, count |-> max, width |-> width, dict |-> dict,
                 deltas |-> Deltas(chunk), refs |-> refs, values |-> values]
  BY <1>1 DEF Encode
<1>3. /\ block.base = chunk[1].t + shift /\ block.count = max /\ block.width = width
      /\ block.dict = dict /\ block.deltas = Deltas(chunk) /\ block.refs = refs
      /\ block.values = values
  <2> HIDE DEF max, dict, width, refs, values
  <2> QED BY <1>2
<1>4. EncodedSize("v2_timeseries", block) = EncodedSize("v2_timeseries", encoded)
  <2>1. /\ block.dict = encoded.dict /\ block.deltas = encoded.deltas
        /\ block.count = encoded.count /\ block.width = encoded.width
    <3> HIDE DEF max, dict, width, refs, values
    <3> QED BY <1>2, <1>3
  <2> HIDE DEF encoded
  <2>2. \A b : EncodedSize("v2_timeseries", b)
                = 21 + 4 * Len(b.dict) + Len(b.deltas) + b.count * (b.width + 8)
    BY DEF EncodedSize
  <2>3. EncodedSize("v2_timeseries", block)
          = 21 + 4 * Len(encoded.dict) + Len(encoded.deltas) + encoded.count * (encoded.width + 8)
    BY <2>1, <2>2, Zenon
  <2> QED BY <2>2, <2>3
<1>5. deltas = [values |-> Differences(chunk), ok |-> TRUE]
  BY <1>3, VarintsReadBack
<1>6. times = [n \in 1..max |-> chunk[n].t + shift]
  BY <1>3, <1>5, TimesDecode
<1>7. /\ times[1] = block.base /\ Len(times) = max /\ times[Len(times)] = chunk[max].t + shift
  BY <1>1, <1>3, <1>6
<1>8. chunk[max].t \in Int
  <2>1. chunk[max] \in Points
    BY <1>1
  <2> QED BY <2>1 DEF Points
<1>9. \A n \in 1..max : refs[n] \in 0..(Len(dict) - 1) /\ dict[refs[n] + 1] = chunk[n].p
  <2> TAKE n \in 1..max
  <2>1. refs[n] = Reference(dict, chunk[n].p) % Capacity(width)
    OBVIOUS
  <2> HIDE DEF refs
  <2> QED BY <1>1, <2>1, ReferencesFind
<1>10. width \in {1, 2, 4}
  BY DEF RefWidth
<1>11. Len(dict) \in Nat
  BY <1>1, DictionaryFacts DEF IsDictionary
<1>12. DOMAIN block.refs = 1..max
  BY <1>3
<1>13. block.count = metadata.count /\ EncodedSize("v2_timeseries", block) = metadata.size
       /\ metadata.maxT = chunk[max].t
  BY <1>3, <1>4 DEF Describes
<1>18. \A n \in 1..max : values[n] = chunk[n].v
  OBVIOUS
<1>14. Decode("v2_timeseries", block, metadata) = [ok |-> ok, points |-> IF ok THEN points ELSE <<>>]
  BY DEF Decode
<1> HIDE DEF dict, width, refs, values, encoded, deltas
<1>15. ok <=> shift = 0
  <2>1. \A n \in DOMAIN block.refs : block.refs[n] < Len(block.dict)
    BY <1>3, <1>9, <1>11, <1>12
  <2>2. deltas.ok = TRUE
    BY <1>5
  <2>3. times[Len(times)] = metadata.maxT <=> shift = 0
    BY <1>7, <1>8, <1>13
  <2>4. block.width \in {1, 2, 4}
    BY <1>3, <1>10
  <2> HIDE DEF times
  <2> QED BY <1>7, <1>13, <2>1, <2>2, <2>3, <2>4
<1>16. ASSUME shift = 0 PROVE points = chunk
  <2>1. block.count = max
    BY <1>3
  <2>2. ASSUME NEW n \in 1..max PROVE points[n] = chunk[n]
    <3>1. points[n] = [t |-> times[n], p |-> block.dict[block.refs[n] + 1], v |-> block.values[n]]
      BY <2>1
    <3>2. times[n] = chunk[n].t + shift /\ chunk[n].t \in Int
      BY <1>1, <1>6 DEF Points
    <3>3. times[n] = chunk[n].t
      BY <1>16, <3>2
    <3>4. block.dict[block.refs[n] + 1] = chunk[n].p /\ block.values[n] = chunk[n].v
      BY <1>3, <1>9, <1>18
    <3>5. points[n] = [t |-> chunk[n].t, p |-> chunk[n].p, v |-> chunk[n].v]
      BY <3>1, <3>3, <3>4
    <3>6. chunk[n] \in Points
      BY <1>1
    <3> QED BY <3>5, <3>6 DEF Points
  <2>3. points = [n \in 1..max |-> points[n]]
    BY <2>1
  <2>4. chunk = [n \in 1..max |-> chunk[n]]
    BY <1>1
  <2> HIDE DEF points
  <2> QED BY <2>2, <2>3, <2>4
<1> HIDE DEF ok, points
<1>17. ok \in BOOLEAN
  BY DEF ok
<1> QED BY <1>14, <1>15, <1>16, <1>17

\* _iter_block_points_v1 and _iter_block_points_v2 accept the blocks of _encode_block_v1 and
\* _encode_block_v2 and give the points that these were given, for every width of a
\* reference that the number of parameters asks for.
THEOREM BlockReadsBack ==
    ASSUME NEW chunk, Chunk(chunk), Encodable(chunk), NEW format \in BlockFormats,
           NEW metadata, Describes(metadata, format, chunk)
    PROVE  LET read == Decode(format, Encode(format, chunk), metadata) IN
           read.ok /\ read.points = chunk
<1>1. CASE format = "v1_raw"
  <2>1. Encode(format, chunk).points = chunk
    BY <1>1 DEF Encode
  <2>2. Len(chunk) \in Nat /\ metadata.size = 20 * Len(chunk)
    BY <1>1, <2>1 DEF Chunk, Describes, EncodedSize
  <2>3. \A n \in Nat : (20 * n) % 20 = 0
    OBVIOUS
  <2>4. metadata.size % 20 = 0
    BY <2>2, <2>3
  <2> QED BY <1>1, <2>1, <2>4 DEF Decode
<1>2. CASE format = "v2_timeseries"
  <2> DEFINE encoded == Encode(format, chunk)
             same == [encoded EXCEPT !.base = @ + 0]
  <2>1. Len(chunk) \in Nat \ {0} /\ \A n \in 1..Len(chunk) : chunk[n] \in Points
    BY DEF Chunk
  <2>2. chunk[1].t \in Int
    BY <2>1 DEF Points
  <2>3. encoded = same
    <3> DEFINE a == Len(chunk)
               b == RefWidth(Len(Dictionary(chunk)))
               c == Dictionary(chunk)
               d == Deltas(chunk)
               e == [n \in DOMAIN chunk |-> Reference(c, chunk[n].p) % Capacity(b)]
               f == [n \in DOMAIN chunk |-> chunk[n].v]
    <3>1. encoded = [base |-> chunk[1].t, count |-> a, width |-> b, dict |-> c,
                     deltas |-> d, refs |-> e, values |-> f]
      BY <1>2 DEF Encode
    <3>2. chunk[1].t + 0 = chunk[1].t
      BY <2>2
    <3> HIDE DEF encoded, a, b, c, d, e, f
    <3> QED BY <3>1, <3>2
  <2> HIDE DEF encoded, same
  <2>4. same = [Encode("v2_timeseries", chunk) EXCEPT !.base = @ + 0]
    BY <1>2 DEF encoded, same
  <2>5. Describes(metadata, "v2_timeseries", chunk)
    BY <1>2
  <2>6. /\ Decode("v2_timeseries", same, metadata).ok
        /\ Decode("v2_timeseries", same, metadata).points = chunk
    <3>1. 0 \in Int
      OBVIOUS
    <3> QED BY <2>4, <2>5, <3>1, TimeseriesBlock
  <2> QED BY <1>2, <2>3, <2>6 DEF encoded
<1> QED BY <1>1, <1>2 DEF BlockFormats

-----------------------------------------------------------------------------
(* Cutting a sequence of points into blocks.                               *)

\* MinOf and MaxOf of a nonempty bounded set are in it and bound it.
LEMMA LeastAndGreatest ==
    ASSUME NEW k \in Nat, NEW S \in SUBSET (0..k), S # {}
    PROVE  /\ MinOf(S) \in S /\ \A y \in S : MinOf(S) <= y
           /\ MaxOf(S) \in S /\ \A y \in S : y <= MaxOf(S)
<1>1. S \in SUBSET Nat
  OBVIOUS
<1>2. \E x \in S : \A y \in S : x <= y
  BY <1>1, LeastOf
<1>3. MinOf(S) \in S /\ \A y \in S : MinOf(S) <= y
  BY <1>2 DEF MinOf
<1>4. \E x \in S : \A y \in S : y <= x
  <2> DEFINE T == {k - x : x \in S}
  <2>1. T \in SUBSET Nat /\ T # {}
    <3>1. \A x \in S : k - x \in Nat
      OBVIOUS
    <3> QED BY <3>1
  <2> HIDE DEF T
  <2>2. PICK z \in T : \A y \in T : z <= y
    BY <2>1, LeastOf
  <2>3. PICK x \in S : z = k - x
    BY DEF T
  <2>4. \A y \in S : k - y \in T
    BY DEF T
  <2>5. \A y \in S : y <= x
    BY <1>1, <2>2, <2>3, <2>4
  <2> QED BY <2>5
<1>5. MaxOf(S) \in S /\ \A y \in S : y <= MaxOf(S)
  BY <1>4 DEF MaxOf
<1> QED BY <1>3, <1>5

\* What one snapshot or the output of one merge is: sorted, versions of a key in the
\* order in which they were appended.
Storable(points) == Chunk(points) /\ Ascending(points)

\* The points of a sorted run do not go back in time.
LEMMA InTimeOrder ==
    ASSUME NEW points, Storable(points), NEW m \in 1..Len(points), NEW n \in 1..Len(points), m <= n
    PROVE  points[m].t \in Int /\ points[n].t \in Int /\ points[m].t <= points[n].t
<1>1. Len(points) \in Nat /\ points[m] \in Points /\ points[n] \in Points
  BY DEF Storable, Chunk
<1>2. points[m].t \in Int /\ points[n].t \in Int
  BY <1>1 DEF Points
<1>3. CASE m = n
  BY <1>2, <1>3
<1>4. CASE m < n
  BY <1>2, <1>4 DEF Storable, Ascending, Precedes
<1> QED BY <1>1, <1>2, <1>3, <1>4

\* _iter_snapshot_blocks ends a block at a point there is, after at least one.
LEMMA BlockEndFacts ==
    ASSUME NEW points, Storable(points), NEW start \in 1..Len(points), NEW blockMax \in Nat \ {0}
    PROVE  BlockEnd(points, start, blockMax) \in start..Len(points)
<1> DEFINE full == IF start + blockMax - 1 > Len(points) THEN Len(points) ELSE start + blockMax - 1
           Ends(e) == /\ \A n \in full..e : points[n].t = points[full].t
                      /\ e < Len(points) => points[e + 1].t # points[full].t
           T == {e \in full..Len(points) : e < Len(points) => points[e + 1].t # points[full].t}
<1>1. Len(points) \in Nat /\ full \in start..Len(points)
  BY DEF Storable, Chunk
<1> HIDE DEF full
<1>2. T \in SUBSET Nat /\ Len(points) \in T
  BY <1>1
<1>3. PICK x \in T : \A y \in T : x <= y
  <2> HIDE DEF T
  <2> QED BY <1>2, LeastOf
<1>4. \A n \in full..x : points[n].t = points[full].t
  <2> TAKE n \in full..x
  <2>1. CASE n # full
    <3>1. n - 1 \in full..Len(points) /\ n - 1 < Len(points) /\ (n - 1) + 1 = n /\ ~(x <= n - 1)
      BY <1>1, <1>3, <2>1
    <3>2. n - 1 \notin T
      BY <1>3, <3>1
    <3> QED BY <3>1, <3>2
  <2> QED BY <2>1
<1>5. x \in full..Len(points) /\ Ends(x)
  BY <1>3, <1>4
<1>6. BlockEnd(points, start, blockMax) = CHOOSE e \in full..Len(points) : Ends(e)
  BY DEF BlockEnd, full
<1> HIDE DEF Ends
<1>7. BlockEnd(points, start, blockMax) \in full..Len(points)
  BY <1>5, <1>6
<1> QED BY <1>1, <1>7

\* A piece of what can be stored can be stored, and has the points of its places.
LEMMA PieceFacts ==
    ASSUME NEW points, Storable(points), NEW a \in 1..Len(points), NEW b \in a..Len(points)
    PROVE  LET piece == SubSeq(points, a, b) IN
           /\ Storable(piece)
           /\ Len(piece) = b - a + 1 /\ Len(piece) \in Nat \ {0}
           /\ \A i \in 1..Len(piece) : a + i - 1 \in a..b /\ piece[i] = points[a + i - 1]
           /\ \A n \in a..b : n - a + 1 \in 1..Len(piece) /\ points[n] = piece[n - a + 1]
<1> DEFINE piece == SubSeq(points, a, b)
<1>1. Len(points) \in Nat \ {0} /\ points \in Seq(Points)
  BY DEF Storable, Chunk
<1>2. /\ piece \in Seq(Points) /\ Len(piece) = b - a + 1 /\ Len(piece) \in Nat \ {0}
      /\ \A i \in 1..Len(piece) : piece[i] = points[a + i - 1]
  BY <1>1
<1> HIDE DEF piece
<1>3. \A i \in 1..Len(piece) : a + i - 1 \in a..b /\ a + i - 1 \in 1..Len(points)
  BY <1>1, <1>2
<1>4. \A n \in a..b : n - a + 1 \in 1..Len(piece) /\ points[n] = piece[n - a + 1]
  <2> TAKE n \in a..b
  <2>1. n - a + 1 \in 1..Len(piece) /\ a + (n - a + 1) - 1 = n
    BY <1>1, <1>2
  <2> QED BY <1>2, <2>1
<1>5. Ascending(piece)
  <2> SUFFICES ASSUME NEW m \in 1..Len(piece), NEW n \in 1..Len(piece), m < n
               PROVE  Precedes(piece[m], piece[n])
    BY DEF Ascending
  <2>1. a + m - 1 < a + n - 1
    BY <1>1, <1>2
  <2>2. Precedes(points[a + m - 1], points[a + n - 1])
    BY <1>3, <2>1 DEF Storable, Ascending
  <2> QED BY <1>2, <2>2
<1>6. ASSUME NEW n \in 1..Len(piece)
      PROVE  Differences(piece)[n] \in Nat /\ Len(Uvarint[Differences(piece)[n]]) <= MaxGroups
  <2>1. CASE n = 1
    <3>1. Differences(piece)[n] = 0
      BY <2>1 DEF Differences
    <3>2. 1 \in 1..Len(points) /\ Differences(points)[1] = 0
      BY <1>1 DEF Differences
    <3> QED BY <3>1, <3>2 DEF Storable, Chunk
  <2>2. CASE n # 1
    <3>1. n - 1 \in 1..Len(piece) /\ a + (n - 1) - 1 = (a + n - 1) - 1 /\ a + n - 1 # 1
      BY <1>1, <1>2, <2>2
    <3>2. Differences(piece)[n] = piece[n].t - piece[n - 1].t
      BY <2>2 DEF Differences
    <3>3. Differences(points)[a + n - 1] = points[a + n - 1].t - points[(a + n - 1) - 1].t
      BY <1>3, <3>1 DEF Differences
    <3>4. piece[n] = points[a + n - 1] /\ piece[n - 1] = points[(a + n - 1) - 1]
      BY <1>2, <3>1
    <3>5. Differences(piece)[n] = Differences(points)[a + n - 1]
      BY <3>2, <3>3, <3>4
    <3> QED BY <1>3, <3>5 DEF Storable, Chunk
  <2> QED BY <2>1, <2>2
<1>7. piece # <<>>
  BY <1>2
<1>8. Storable(piece)
  BY <1>2, <1>5, <1>6, <1>7 DEF Storable, Chunk
<1> QED BY <1>2, <1>3, <1>4, <1>8 DEF piece

\* The bisection of iter_range finds the number of smaller entries (sstable.py 643-655).
LEMMA Bisect ==
    ASSUME NEW max \in Nat, NEW f \in [1..max -> Int], NEW x \in Int,
           \A m, n \in 1..max : m <= n => f[m] <= f[n]
    PROVE  /\ BisectLeft(f, x) \in 0..max
           /\ \A n \in 1..max : n <= BisectLeft(f, x) <=> f[n] < x
<1> DEFINE T == {n \in 1..(max + 1) : n <= max => ~(f[n] < x)}
<1>1. T \in SUBSET Nat /\ max + 1 \in T
  OBVIOUS
<1>2. PICK k \in T : \A y \in T : k <= y
  <2> HIDE DEF T
  <2> QED BY <1>1, LeastOf
<1>3. k \in 1..(max + 1)
  OBVIOUS
<1>4. \A n \in 1..max : n <= k - 1 <=> f[n] < x
  <2> TAKE n \in 1..max
  <2>1. CASE n <= k - 1
    <3>1. n \notin T
      BY <1>2, <1>3, <2>1
    <3> QED BY <2>1, <3>1
  <2>2. CASE ~(n <= k - 1)
    <3>1. k \in 1..max /\ k <= n
      BY <1>3, <2>2
    <3>2. ~(f[k] < x) /\ f[k] <= f[n] /\ f[k] \in Int /\ f[n] \in Int
      BY <3>1
    <3> QED BY <2>2, <3>2
  <2> QED BY <2>1, <2>2
<1> DEFINE S == {n \in 1..max : f[n] < x}
<1>5. S = 1..(k - 1)
  BY <1>3, <1>4
<1>6. BisectLeft(f, x) = Cardinality(S)
  BY DEF BisectLeft
<1>7. Cardinality(1..(k - 1)) = k - 1
  <2>1. 1 \in Int /\ k - 1 \in Int /\ (1 > k - 1 => k - 1 = 0) /\ (k - 1) - 1 + 1 = k - 1
    BY <1>3
  <2> QED BY <2>1, FS_Interval
<1> HIDE DEF S
<1>8. BisectLeft(f, x) = k - 1
  BY <1>5, <1>6, <1>7
<1> QED BY <1>3, <1>4, <1>8

-----------------------------------------------------------------------------
(* Files, being written and written.  cuts has the number of points up to  *)
(* the end of each block, broken the offsets of the blocks whose base is   *)
(* off by one.                                                             *)

BlockRecords ==
    [offset : Int, size : Int, count : Int, minT : Int, maxT : Int, minP : Int, maxP : Int]

Piece(points, cuts, n) == SubSeq(points, cuts[n - 1] + 1, cuts[n])

Stored(format, chunk, isBroken) ==
    IF isBroken THEN [Encode(format, chunk) EXCEPT !.base = @ + 1] ELSE Encode(format, chunk)

IsBlock(format, blocks, data, end, points, cuts, broken, n) ==
    LET chunk == Piece(points, cuts, n) IN
    /\ cuts[n - 1] < cuts[n] /\ Encodable(chunk)
    /\ blocks[n] = BlockMetadata(blocks[n].offset, EncodedSize(format, Encode(format, chunk)), chunk)
    /\ blocks[n].offset \in Nat /\ blocks[n].offset + blocks[n].size <= end
    /\ data[blocks[n].offset] = Stored(format, chunk, blocks[n].offset \in broken)
    /\ \A m \in 1..(n - 1) : blocks[m].offset + blocks[m].size <= blocks[n].offset

Laid(format, blocks, data, end, points, cuts, broken) ==
    /\ Storable(points) /\ format \in BlockFormats
    /\ blocks \in Seq(BlockRecords) /\ end \in Nat
    /\ cuts \in [0..Len(blocks) -> 0..Len(points)] /\ cuts[0] = 0
    /\ \A n \in 1..Len(blocks) : IsBlock(format, blocks, data, end, points, cuts, broken, n)
    /\ DOMAIN data = {blocks[n].offset : n \in 1..Len(blocks)}
    /\ broken # {} => format = "v2_timeseries"

\* The types of the fields of a point.
LEMMA PointTypes ==
    ASSUME NEW points, Storable(points), NEW n \in 1..Len(points)
    PROVE  points[n] \in Points /\ points[n].t \in Int /\ points[n].p \in Int /\ points[n].v \in Int
<1>1. points[n] \in Points
  BY DEF Storable, Chunk
<1> QED BY <1>1 DEF Points

\* The parameters of a block are between the bounds its index has for them.
LEMMA ParameterBounds ==
    ASSUME NEW points, Storable(points), Encodable(points)
    PROVE  LET S == ParametersOf(points) IN
           /\ \A n \in 1..Len(points) : points[n].p \in S
           /\ MinOf(S) \in 0..MaxParameter /\ MaxOf(S) \in 0..MaxParameter /\ MinOf(S) <= MaxOf(S)
           /\ \A y \in S : y \in 0..MaxParameter /\ MinOf(S) <= y /\ y <= MaxOf(S)
           /\ MinOf(S) \in S /\ MaxOf(S) \in S
<1> DEFINE S == ParametersOf(points)
<1>1. Len(points) \in Nat \ {0} /\ DOMAIN points = 1..Len(points)
  BY DEF Storable, Chunk
<1>2. \A n \in 1..Len(points) : points[n].p \in S
  BY <1>1 DEF ParametersOf
<1>3. S \in SUBSET (0..MaxParameter) /\ S # {} /\ MaxParameter \in Nat
  <2>1. points[1].p \in S
    BY <1>1, <1>2
  <2>2. S \subseteq 0..MaxParameter
    BY DEF Encodable
  <2> QED BY <2>1, <2>2, FormatAssumption
<1> HIDE DEF S
<1>4. /\ MinOf(S) \in S /\ \A y \in S : MinOf(S) <= y
      /\ MaxOf(S) \in S /\ \A y \in S : y <= MaxOf(S)
  BY <1>3, LeastAndGreatest
<1>5. \A y \in S : y \in 0..MaxParameter
  BY <1>3
<1> QED BY <1>2, <1>4, <1>5 DEF S

\* What the index says of a block, and where its points are.
LEMMA LaidBlock ==
    ASSUME NEW format, NEW blocks, NEW data, NEW end, NEW points, NEW cuts, NEW broken,
           Laid(format, blocks, data, end, points, cuts, broken), NEW n \in 1..Len(blocks)
    PROVE  LET chunk == Piece(points, cuts, n) IN
           /\ cuts[n - 1] \in Nat /\ cuts[n] \in Nat /\ cuts[n - 1] < cuts[n] /\ cuts[n] <= Len(points)
           /\ Storable(chunk) /\ Encodable(chunk) /\ Len(chunk) = cuts[n] - cuts[n - 1]
           /\ \A i \in 1..Len(chunk) : chunk[i] = points[cuts[n - 1] + i]
           /\ \A i \in (cuts[n - 1] + 1)..cuts[n] :
                i - cuts[n - 1] \in 1..Len(chunk) /\ points[i] = chunk[i - cuts[n - 1]]
           /\ Describes(blocks[n], format, chunk)
           /\ blocks[n].size \in Nat \ {0} /\ blocks[n].count = cuts[n] - cuts[n - 1]
           /\ blocks[n].offset \in Nat /\ blocks[n].offset + blocks[n].size <= end
           /\ blocks[n].minT = points[cuts[n - 1] + 1].t /\ blocks[n].maxT = points[cuts[n]].t
           /\ blocks[n].minP = MinOf(ParametersOf(chunk)) /\ blocks[n].maxP = MaxOf(ParametersOf(chunk))
           /\ data[blocks[n].offset] = Stored(format, chunk, blocks[n].offset \in broken)
           /\ \A m \in 1..(n - 1) : blocks[m].offset + blocks[m].size <= blocks[n].offset
<1> DEFINE chunk == Piece(points, cuts, n)
           a == cuts[n - 1]
           b == cuts[n]
           size == EncodedSize(format, Encode(format, chunk))
<1>1. /\ Storable(points) /\ format \in BlockFormats /\ Len(blocks) \in Nat /\ Len(points) \in Nat
      /\ cuts \in [0..Len(blocks) -> 0..Len(points)]
      /\ IsBlock(format, blocks, data, end, points, cuts, broken, n)
  BY DEF Laid, Storable, Chunk
<1>2. a \in 0..Len(points) /\ b \in 0..Len(points)
  BY <1>1
<1>3. a < b
  BY <1>1 DEF IsBlock
<1>4. a + 1 \in 1..Len(points) /\ b \in (a + 1)..Len(points)
  BY <1>1, <1>2, <1>3
<1> HIDE DEF a, b
<1>5. chunk = SubSeq(points, a + 1, b)
  BY DEF Piece, a, b
<1> HIDE DEF chunk
<1>6. /\ Storable(chunk)
      /\ Len(chunk) = b - (a + 1) + 1 /\ Len(chunk) \in Nat \ {0}
      /\ \A i \in 1..Len(chunk) : (a + 1) + i - 1 \in (a + 1)..b /\ chunk[i] = points[(a + 1) + i - 1]
      /\ \A i \in (a + 1)..b : i - (a + 1) + 1 \in 1..Len(chunk) /\ points[i] = chunk[i - (a + 1) + 1]
  <2> DEFINE piece == SubSeq(points, a + 1, b)
             c == a + 1
  <2>1. c \in 1..Len(points) /\ b \in c..Len(points)
    BY <1>4
  <2> HIDE DEF c
  <2>2. LET piece2 == SubSeq(points, c, b) IN
        /\ Storable(piece2)
        /\ Len(piece2) = b - c + 1 /\ Len(piece2) \in Nat \ {0}
        /\ \A i \in 1..Len(piece2) : c + i - 1 \in c..b /\ piece2[i] = points[c + i - 1]
        /\ \A n_1 \in c..b : n_1 - c + 1 \in 1..Len(piece2) /\ points[n_1] = piece2[n_1 - c + 1]
    BY <1>1, <2>1, PieceFacts
  <2>3. chunk = SubSeq(points, c, b)
    BY <1>5 DEF c
  <2> QED BY <2>2, <2>3 DEF c
<1>7. Len(chunk) = b - a
  BY <1>2, <1>6
<1>8. \A i \in 1..Len(chunk) : chunk[i] = points[a + i]
  <2> TAKE i \in 1..Len(chunk)
  <2>1. (a + 1) + i - 1 = a + i
    BY <1>2, <1>6
  <2> QED BY <1>6, <2>1
<1>9. \A i \in (a + 1)..b : i - a \in 1..Len(chunk) /\ points[i] = chunk[i - a]
  <2> TAKE i \in (a + 1)..b
  <2>1. i - (a + 1) + 1 = i - a
    BY <1>2
  <2> QED BY <1>6, <2>1
<1>10. /\ Encodable(chunk) /\ blocks[n].offset \in Nat /\ blocks[n].offset + blocks[n].size <= end
       /\ data[blocks[n].offset] = Stored(format, chunk, blocks[n].offset \in broken)
       /\ \A m \in 1..(n - 1) : blocks[m].offset + blocks[m].size <= blocks[n].offset
       /\ blocks[n] = BlockMetadata(blocks[n].offset, size, chunk)
  <2> HIDE DEF size
  <2> QED BY <1>1 DEF IsBlock, chunk, size
<1>11. size \in Nat \ {0}
  BY <1>1, <1>6, EncodedSizePositive DEF Storable
<1> HIDE DEF size
<1>12. /\ blocks[n].size = size /\ blocks[n].count = Len(chunk)
       /\ blocks[n].minT = chunk[1].t /\ blocks[n].maxT = chunk[Len(chunk)].t
       /\ blocks[n].minP = MinOf(ParametersOf(chunk)) /\ blocks[n].maxP = MaxOf(ParametersOf(chunk))
  <2>1. \A o : LET md == BlockMetadata(o, size, chunk) IN
          /\ md.size = size /\ md.count = Len(chunk)
          /\ md.minT = chunk[1].t /\ md.maxT = chunk[Len(chunk)].t
          /\ md.minP = MinOf(ParametersOf(chunk)) /\ md.maxP = MaxOf(ParametersOf(chunk))
    BY DEF BlockMetadata
  <2> QED BY <1>10, <2>1
<1>13. chunk[1] = points[a + 1] /\ chunk[Len(chunk)] = points[b]
  <2>1. 1 \in 1..Len(chunk) /\ Len(chunk) \in 1..Len(chunk) /\ a + Len(chunk) = b
    BY <1>2, <1>6, <1>7
  <2> QED BY <1>8, <2>1
<1>14. Describes(blocks[n], format, chunk)
  BY <1>12 DEF Describes, size
<1>15. a \in Nat /\ b \in Nat /\ b <= Len(points)
  BY <1>2
<1> QED BY <1>3, <1>6, <1>7, <1>8, <1>9, <1>10, <1>11, <1>12, <1>13, <1>14, <1>15 DEF chunk, a, b

\* The same in parts: where a block is cut, which points it has, its bounds.
LEMMA BlockCuts ==
    ASSUME NEW format, NEW blocks, NEW data, NEW end, NEW points, NEW cuts, NEW broken,
           Laid(format, blocks, data, end, points, cuts, broken), NEW n \in 1..Len(blocks)
    PROVE  LET chunk == Piece(points, cuts, n) IN
           /\ cuts[n - 1] \in Nat /\ cuts[n] \in Nat /\ cuts[n - 1] < cuts[n] /\ cuts[n] <= Len(points)
           /\ Storable(chunk) /\ Encodable(chunk) /\ Len(chunk) = cuts[n] - cuts[n - 1]
  BY LaidBlock

\* Which points of the file a block has.
LEMMA BlockPoints ==
    ASSUME NEW format, NEW blocks, NEW data, NEW end, NEW points, NEW cuts, NEW broken,
           Laid(format, blocks, data, end, points, cuts, broken), NEW n \in 1..Len(blocks)
    PROVE  LET chunk == Piece(points, cuts, n) IN
           /\ \A i \in 1..Len(chunk) : chunk[i] = points[cuts[n - 1] + i]
           /\ \A i \in (cuts[n - 1] + 1)..cuts[n] :
                i - cuts[n - 1] \in 1..Len(chunk) /\ points[i] = chunk[i - cuts[n - 1]]
<1>1. PICK chunk : chunk = Piece(points, cuts, n)
  OBVIOUS
<1>2. /\ cuts[n - 1] \in Nat /\ cuts[n] \in Nat /\ cuts[n - 1] < cuts[n]
      /\ Len(chunk) = cuts[n] - cuts[n - 1]
  BY <1>1, BlockCuts
<1>3. \A i \in 1..Len(chunk) : chunk[i] = points[cuts[n - 1] + i]
  <2>1. Storable(points) /\ Len(points) \in Nat /\ cuts[n] <= Len(points)
    <3>1. Storable(points)
      BY DEF Laid
    <3>2. Len(points) \in Nat
      BY <3>1 DEF Storable, Chunk
    <3> QED BY <3>1, <3>2, BlockCuts
  <2>2. PICK a, b, l : a = cuts[n - 1] /\ b = cuts[n] /\ l = Len(points)
    OBVIOUS
  <2>3. a + 1 \in 1..l /\ b \in (a + 1)..l /\ a \in Nat
    BY ONLY <1>2, <2>1, <2>2
  <2>4. chunk = SubSeq(points, a + 1, b)
    BY <1>1, <2>2 DEF Piece
  <2>5. \A i \in 1..Len(chunk) : chunk[i] = points[(a + 1) + i - 1]
    <3> PICK first : first = a + 1
      OBVIOUS
    <3>1. first \in 1..Len(points) /\ b \in first..Len(points)
      BY ONLY first = a + 1, <2>2, <2>3
    <3>2. \A i \in 1..Len(SubSeq(points, first, b)) :
             SubSeq(points, first, b)[i] = points[first + i - 1]
      BY <2>1, <3>1, PieceFacts
    <3> QED BY ONLY first = a + 1, <2>4, <3>2
  <2>6. Len(chunk) \in Nat
    BY <1>2
  <2>7. \A i \in 1..Len(chunk) : (a + 1) + i - 1 = a + i
    BY ONLY <2>3, <2>6
  <2> QED BY <2>2, <2>5, <2>7
<1>4. ASSUME NEW i \in (cuts[n - 1] + 1)..cuts[n]
      PROVE  i - cuts[n - 1] \in 1..Len(chunk) /\ points[i] = chunk[i - cuts[n - 1]]
  <2>1. i - cuts[n - 1] \in 1..Len(chunk) /\ cuts[n - 1] + (i - cuts[n - 1]) = i
    BY <1>2
  <2> QED BY <1>3, <2>1
<1> QED BY <1>1, <1>3, <1>4

\* The bounds of time and parameters that the index has for a block.
LEMMA BlockBounds ==
    ASSUME NEW format, NEW blocks, NEW data, NEW end, NEW points, NEW cuts, NEW broken,
           Laid(format, blocks, data, end, points, cuts, broken), NEW n \in 1..Len(blocks)
    PROVE  LET chunk == Piece(points, cuts, n) IN
           /\ blocks[n].minT = points[cuts[n - 1] + 1].t /\ blocks[n].maxT = points[cuts[n]].t
           /\ blocks[n].minP = MinOf(ParametersOf(chunk)) /\ blocks[n].maxP = MaxOf(ParametersOf(chunk))
  BY LaidBlock

\* Where in the file a block is.
LEMMA BlockPlace ==
    ASSUME NEW format, NEW blocks, NEW data, NEW end, NEW points, NEW cuts, NEW broken,
           Laid(format, blocks, data, end, points, cuts, broken), NEW n \in 1..Len(blocks)
    PROVE  /\ blocks[n].size \in Nat \ {0} /\ blocks[n].count = cuts[n] - cuts[n - 1]
           /\ blocks[n].offset \in Nat /\ blocks[n].offset + blocks[n].size <= end
  BY LaidBlock

\* The file of points of which the blocks in broken are damaged.
IsFile(file, points, cuts, broken) ==
    /\ Laid(file.format, file.blocks, file.data, file.indexOffset, points, cuts, broken)
    /\ cuts[Len(file.blocks)] = Len(points)
    /\ file.metadata = FileMetadata(points)

\* A block is read as it was written, and one that is damaged raises.
LEMMA BlockRead ==
    ASSUME NEW file, NEW points, NEW cuts, NEW broken, IsFile(file, points, cuts, broken),
           NEW n \in 1..Len(file.blocks)
    PROVE  /\ ReadBlock(file, n).ok <=> file.blocks[n].offset \notin broken
           /\ ReadBlock(file, n).ok => ReadBlock(file, n).points = Piece(points, cuts, n)
<1> DEFINE chunk == Piece(points, cuts, n)
           format == file.format
           metadata == file.blocks[n]
           block == file.data[metadata.offset]
<1>1. Laid(format, file.blocks, file.data, file.indexOffset, points, cuts, broken)
  BY DEF IsFile
<1> HIDE DEF format
<1>2. /\ Storable(chunk) /\ Encodable(chunk) /\ Describes(metadata, format, chunk)
      /\ block = Stored(format, chunk, metadata.offset \in broken)
      /\ format \in BlockFormats /\ (broken # {} => format = "v2_timeseries")
  <2>1. format \in BlockFormats /\ (broken # {} => format = "v2_timeseries")
    BY <1>1 DEF Laid
  <2>2. /\ Storable(chunk) /\ Encodable(chunk) /\ Describes(metadata, format, chunk)
        /\ block = Stored(format, chunk, metadata.offset \in broken)
    BY <1>1, LaidBlock
  <2> QED BY <2>1, <2>2
<1>3. ReadBlock(file, n) = Decode(format, block, metadata)
  BY DEF ReadBlock, format
<1> HIDE DEF chunk, block, metadata
<1>4. CASE metadata.offset \in broken
  <2>1. block = [Encode("v2_timeseries", chunk) EXCEPT !.base = @ + 1] /\ format = "v2_timeseries"
    BY <1>2, <1>4 DEF Stored
  <2>2. Describes(metadata, "v2_timeseries", chunk) /\ 1 \in Int /\ 1 # 0 /\ Chunk(chunk)
    BY <1>2, <2>1 DEF Storable
  <2>3. ~ Decode("v2_timeseries", block, metadata).ok
    BY <1>2, <2>1, <2>2, TimeseriesBlock
  <2> QED BY <1>3, <1>4, <2>1, <2>3 DEF metadata
<1>5. CASE metadata.offset \notin broken
  <2>1. block = Encode(format, chunk) /\ Chunk(chunk)
    BY <1>2, <1>5 DEF Stored, Storable
  <2>2. Decode(format, block, metadata).ok /\ Decode(format, block, metadata).points = chunk
    BY <1>2, <2>1, BlockReadsBack
  <2> QED BY <1>3, <1>5, <2>2 DEF metadata, chunk
<1> QED BY <1>4, <1>5

\* Every point is in a block.
LEMMA BlockOf ==
    ASSUME NEW file, NEW points, NEW cuts, NEW broken, IsFile(file, points, cuts, broken),
           NEW i \in 1..Len(points)
    PROVE  \E n \in 1..Len(file.blocks) : i \in (cuts[n - 1] + 1)..cuts[n]
<1> DEFINE max == Len(file.blocks)
           T == {n \in 0..max : i <= cuts[n]}
<1>1. /\ max \in Nat /\ Len(points) \in Nat /\ cuts \in [0..max -> 0..Len(points)]
      /\ cuts[0] = 0 /\ cuts[max] = Len(points)
  BY DEF IsFile, Laid, Storable, Chunk
<1> HIDE DEF max
<1>2. T \in SUBSET Nat /\ max \in T
  BY <1>1
<1>3. PICK n \in T : \A y \in T : n <= y
  <2> HIDE DEF T
  <2> QED BY <1>2, LeastOf
<1>4. n # 0 /\ n \in 1..max
  <2>1. ~(i <= cuts[0])
    BY <1>1
  <2> QED BY <1>1, <1>3, <2>1
<1>5. n - 1 \in 0..max /\ ~(n <= n - 1)
  BY <1>1, <1>4
<1>6. cuts[n - 1] < i
  <2>1. n - 1 \notin T
    BY <1>3, <1>5
  <2> QED BY <1>1, <1>5, <2>1
<1>7. i <= cuts[n] /\ cuts[n - 1] \in Nat /\ cuts[n] \in Nat
  BY <1>1, <1>3, <1>5
<1> QED BY <1>4, <1>6, <1>7 DEF max

\* A file has only parameters that fit their width, and so has each block.
LEMMA FileEncodable ==
    ASSUME NEW file, NEW points, NEW cuts, NEW broken, IsFile(file, points, cuts, broken)
    PROVE  /\ Encodable(points)
           /\ \A n \in 1..Len(file.blocks) :
                ParametersOf(Piece(points, cuts, n)) \subseteq ParametersOf(points)
<1>1. Laid(file.format, file.blocks, file.data, file.indexOffset, points, cuts, broken)
      /\ Storable(points)
  BY DEF IsFile, Laid
<1>2. Len(points) \in Nat /\ DOMAIN points = 1..Len(points)
  BY <1>1 DEF Storable, Chunk
<1>3. ASSUME NEW i \in 1..Len(points) PROVE points[i].p \in 0..MaxParameter
  <2>1. PICK n \in 1..Len(file.blocks) : i \in (cuts[n - 1] + 1)..cuts[n]
    BY BlockOf
  <2> DEFINE chunk == Piece(points, cuts, n)
  <2>2. /\ Storable(chunk) /\ Encodable(chunk)
        /\ i - cuts[n - 1] \in 1..Len(chunk) /\ points[i] = chunk[i - cuts[n - 1]]
    BY <1>1, <2>1, LaidBlock
  <2> HIDE DEF chunk
  <2>3. chunk[i - cuts[n - 1]].p \in 0..MaxParameter
    BY <2>2, ParameterBounds
  <2> QED BY <2>2, <2>3
<1>4. Encodable(points)
  BY <1>2, <1>3 DEF Encodable, ParametersOf
<1>5. ASSUME NEW n \in 1..Len(file.blocks), NEW p \in ParametersOf(Piece(points, cuts, n))
      PROVE  p \in ParametersOf(points)
  <2> DEFINE chunk == Piece(points, cuts, n)
  <2>1. /\ Storable(chunk) /\ cuts[n - 1] \in Nat /\ cuts[n] \in Nat /\ cuts[n] <= Len(points)
        /\ Len(chunk) = cuts[n] - cuts[n - 1]
        /\ \A i \in 1..Len(chunk) : chunk[i] = points[cuts[n - 1] + i]
    BY <1>1, LaidBlock
  <2>2. PICK i \in 1..Len(chunk) : p = chunk[i].p
    BY <2>1 DEF ParametersOf, Storable, Chunk
  <2> HIDE DEF chunk
  <2>3. cuts[n - 1] + i \in 1..Len(points)
    BY <1>2, <2>1
  <2>4. p = points[cuts[n - 1] + i].p
    BY <2>1, <2>2
  <2> QED BY <1>2, <2>3, <2>4 DEF ParametersOf
<1> QED BY <1>4, <1>5

\* The bounds in the index grow from block to block.
LEMMA BlocksInOrder ==
    ASSUME NEW file, NEW points, NEW cuts, NEW broken, IsFile(file, points, cuts, broken),
           NEW m \in 1..Len(file.blocks), NEW n \in 1..Len(file.blocks), m <= n
    PROVE  /\ file.blocks[m].minT \in Int /\ file.blocks[n].maxT \in Int
           /\ file.blocks[m].minT <= file.blocks[n].minT
           /\ file.blocks[m].maxT <= file.blocks[n].maxT
           /\ file.blocks[m].minT <= file.blocks[m].maxT
           /\ cuts[m - 1] <= cuts[n - 1] /\ cuts[m] <= cuts[n]
           /\ m < n => cuts[m] <= cuts[n - 1]
<1> DEFINE max == Len(file.blocks)
           blocks == file.blocks
<1>1. /\ Laid(file.format, blocks, file.data, file.indexOffset, points, cuts, broken)
      /\ Storable(points) /\ Len(points) \in Nat /\ max \in Nat
  BY DEF IsFile, Laid, Storable, Chunk
<1> HIDE DEF blocks
<1>2. \A k \in 1..max : /\ cuts[k - 1] \in Nat /\ cuts[k] \in Nat /\ cuts[k - 1] < cuts[k]
                        /\ cuts[k] <= Len(points)
                        /\ blocks[k].minT = points[cuts[k - 1] + 1].t
                        /\ blocks[k].maxT = points[cuts[k]].t
  <2> TAKE k \in 1..max
  <2>1. /\ cuts[k - 1] \in Nat /\ cuts[k] \in Nat /\ cuts[k - 1] < cuts[k]
        /\ cuts[k] <= Len(points)
    BY <1>1, BlockCuts DEF blocks
  <2>2. blocks[k].minT = points[cuts[k - 1] + 1].t /\ blocks[k].maxT = points[cuts[k]].t
    BY <1>1, BlockBounds DEF blocks
  <2> QED BY <2>1, <2>2
<1> HIDE DEF max
<1> DEFINE S == {k \in 0..(max - m) : cuts[m - 1] <= cuts[m + k - 1] /\ cuts[m] <= cuts[m + k]
                                       /\ (0 < k => cuts[m] <= cuts[m + k - 1])}
<1>3. m \in 1..max /\ n \in 1..max /\ max - m \in Nat
  BY <1>1 DEF max
<1>4. 0 \in S
  <2>1. m + 0 - 1 = m - 1 /\ m + 0 = m /\ 0 \in 0..(max - m)
    BY <1>3
  <2> QED BY <1>2, <1>3, <2>1
<1>5. ASSUME NEW k \in Nat, k < max - m, k \in S PROVE k + 1 \in S
  <2>1. /\ m + (k + 1) - 1 = m + k /\ m + (k + 1) = m + k + 1 /\ m + k \in 1..max
        /\ m + k + 1 \in 1..max /\ (m + k + 1) - 1 = m + k /\ k + 1 \in 0..(max - m)
    BY <1>1, <1>3, <1>5
  <2>2. cuts[m + k - 1] < cuts[m + k] /\ cuts[m + k] < cuts[m + k + 1]
    <3> DEFINE a == m + k
               b == m + k + 1
    <3>1. a \in 1..max /\ b \in 1..max /\ b - 1 = a
      BY <2>1
    <3> HIDE DEF a, b
    <3>2. cuts[a - 1] < cuts[a] /\ cuts[b - 1] < cuts[b]
      BY <1>2, <3>1
    <3>3. cuts[a - 1] < cuts[a] /\ cuts[a] < cuts[b]
      BY <3>1, <3>2
    <3> QED BY <3>3 DEF a, b
  <2>3. /\ cuts[m - 1] \in Nat /\ cuts[m] \in Nat /\ cuts[m + k - 1] \in Nat /\ cuts[m + k] \in Nat
        /\ cuts[m + k + 1] \in Nat
    BY <1>2, <1>3, <2>1
  <2>4. cuts[m - 1] <= cuts[m + k - 1] /\ cuts[m] <= cuts[m + k]
    BY <1>5
  <2>5. cuts[m - 1] <= cuts[m + k] /\ cuts[m] <= cuts[m + k + 1]
    BY <2>2, <2>3, <2>4
  <2> QED BY <2>1, <2>4, <2>5
<1>6. 0..(max - m) \subseteq S
  <2> HIDE DEF S
  <2> QED BY <1>3, <1>4, <1>5, Induction
<1>7. n - m \in 0..(max - m) /\ m + (n - m) = n /\ m + (n - m) - 1 = n - 1 /\ (m < n => 0 < n - m)
  BY <1>1, <1>3
<1>8. cuts[m - 1] <= cuts[n - 1] /\ cuts[m] <= cuts[n] /\ (m < n => cuts[m] <= cuts[n - 1])
  <2>1. n - m \in S
    BY <1>6, <1>7
  <2> QED BY <1>7, <2>1
<1>9. /\ cuts[m - 1] + 1 \in 1..Len(points) /\ cuts[n - 1] + 1 \in 1..Len(points)
      /\ cuts[m] \in 1..Len(points) /\ cuts[n] \in 1..Len(points)
      /\ cuts[m - 1] + 1 <= cuts[n - 1] + 1 /\ cuts[m - 1] + 1 <= cuts[m]
  <2>1. /\ cuts[m - 1] \in Nat /\ cuts[m] \in Nat /\ cuts[m - 1] < cuts[m] /\ cuts[m] <= Len(points)
        /\ cuts[n - 1] \in Nat /\ cuts[n] \in Nat /\ cuts[n - 1] < cuts[n] /\ cuts[n] <= Len(points)
    BY <1>2, <1>3
  <2>2. /\ cuts[m - 1] + 1 \in 1..Len(points) /\ cuts[m] \in 1..Len(points)
        /\ cuts[m - 1] + 1 <= cuts[m]
    BY ONLY <1>1, <2>1
  <2>3. cuts[n - 1] + 1 \in 1..Len(points) /\ cuts[n] \in 1..Len(points)
    BY ONLY <1>1, <2>1
  <2>4. cuts[m - 1] + 1 <= cuts[n - 1] + 1
    BY ONLY <1>8, <2>1
  <2> QED BY <2>2, <2>3, <2>4
<1>10. /\ points[cuts[m - 1] + 1].t <= points[cuts[n - 1] + 1].t
       /\ points[cuts[m]].t <= points[cuts[n]].t
       /\ points[cuts[m - 1] + 1].t <= points[cuts[m]].t
       /\ points[cuts[m - 1] + 1].t \in Int /\ points[cuts[n]].t \in Int
  BY <1>1, <1>8, <1>9, InTimeOrder
<1>11. /\ blocks[m].minT = points[cuts[m - 1] + 1].t /\ blocks[n].minT = points[cuts[n - 1] + 1].t
       /\ blocks[m].maxT = points[cuts[m]].t /\ blocks[n].maxT = points[cuts[n]].t
  BY <1>2, <1>3
<1> QED BY <1>8, <1>10, <1>11 DEF blocks

\* A reader accepts the index of a file.
LEMMA FileIsValid ==
    ASSUME NEW file, NEW points, NEW cuts, NEW broken, IsFile(file, points, cuts, broken)
    PROVE  ValidIndex(file)
<1> DEFINE max == Len(file.blocks)
           blocks == file.blocks
           S == ParametersOf(points)
<1>1. /\ Laid(file.format, blocks, file.data, file.indexOffset, points, cuts, broken)
      /\ Storable(points) /\ Len(points) \in Nat \ {0} /\ max \in Nat /\ blocks \in Seq(BlockRecords)
      /\ cuts[0] = 0 /\ cuts[max] = Len(points) /\ DOMAIN blocks = 1..max
  BY DEF IsFile, Laid, Storable, Chunk
<1>2. max > 0
  BY <1>1
<1>3. /\ file.metadata.count = Len(points) /\ file.metadata.minT = points[1].t
      /\ file.metadata.maxT = points[Len(points)].t
      /\ file.metadata.minP = MinOf(S) /\ file.metadata.maxP = MaxOf(S)
  <2>1. file.metadata = FileMetadata(points)
    BY DEF IsFile
  <2> QED BY <2>1 DEF FileMetadata
<1>4. Encodable(points)
  BY FileEncodable
<1>5. \A y \in S : y \in 0..MaxParameter /\ MinOf(S) <= y /\ y <= MaxOf(S)
  BY <1>1, <1>4, ParameterBounds
<1> HIDE DEF S
<1>6. ASSUME NEW n \in 1..max
      PROVE  /\ blocks[n].offset >= 0 /\ blocks[n].size > 0 /\ blocks[n].count > 0
             /\ blocks[n].minT <= blocks[n].maxT /\ blocks[n].minP <= blocks[n].maxP
             /\ blocks[n].offset + blocks[n].size <= file.indexOffset
             /\ file.metadata.minP <= blocks[n].minP /\ blocks[n].maxP <= file.metadata.maxP
  <2> DEFINE chunk == Piece(points, cuts, n)
             R == ParametersOf(chunk)
  <2>1. /\ Storable(chunk) /\ Encodable(chunk)
        /\ blocks[n].minP = MinOf(R) /\ blocks[n].maxP = MaxOf(R)
        /\ blocks[n].size \in Nat \ {0} /\ blocks[n].offset \in Nat
        /\ blocks[n].offset + blocks[n].size <= file.indexOffset
        /\ blocks[n].count = cuts[n] - cuts[n - 1] /\ cuts[n] \in Nat /\ cuts[n - 1] \in Nat
        /\ cuts[n - 1] < cuts[n]
    <3>1. /\ Storable(chunk) /\ Encodable(chunk)
          /\ cuts[n] \in Nat /\ cuts[n - 1] \in Nat /\ cuts[n - 1] < cuts[n]
      BY <1>1, BlockCuts
    <3>2. blocks[n].minP = MinOf(R) /\ blocks[n].maxP = MaxOf(R)
      BY <1>1, BlockBounds
    <3>3. /\ blocks[n].size \in Nat \ {0} /\ blocks[n].offset \in Nat
          /\ blocks[n].offset + blocks[n].size <= file.indexOffset
          /\ blocks[n].count = cuts[n] - cuts[n - 1]
      BY <1>1, BlockPlace
    <3> QED BY <3>1, <3>2, <3>3
  <2>2. R \subseteq S
    BY FileEncodable DEF S
  <2>3. MinOf(R) \in R /\ MaxOf(R) \in R /\ MinOf(R) <= MaxOf(R)
    BY <2>1, ParameterBounds
  <2>4. blocks[n].minT <= blocks[n].maxT
    BY BlocksInOrder
  <2> HIDE DEF R, chunk, blocks, max
  <2>5. MinOf(S) <= MinOf(R) /\ MaxOf(R) <= MaxOf(S)
    BY <1>5, <2>2, <2>3
  <2>6. blocks[n].offset >= 0 /\ blocks[n].size > 0 /\ blocks[n].count > 0
    BY <2>1
  <2> QED BY <1>3, <2>1, <2>3, <2>4, <2>5, <2>6 DEF blocks
<1>7. ASSUME NEW n \in 1..max, n > 1
      PROVE  /\ blocks[n].offset >= blocks[n - 1].offset + blocks[n - 1].size
             /\ blocks[n].minT >= blocks[n - 1].minT /\ blocks[n].maxT >= blocks[n - 1].maxT
  <2>1. n - 1 \in 1..max /\ n - 1 <= n /\ n - 1 \in 1..(n - 1)
    BY <1>1, <1>7
  <2>2. blocks[n - 1].offset + blocks[n - 1].size <= blocks[n].offset
    BY <1>1, <2>1, LaidBlock
  <2>3. blocks[n - 1].minT <= blocks[n].minT /\ blocks[n - 1].maxT <= blocks[n].maxT
    BY <2>1, BlocksInOrder
  <2>4. /\ blocks[n].offset \in Int /\ blocks[n - 1].offset + blocks[n - 1].size \in Int
        /\ blocks[n].minT \in Int /\ blocks[n - 1].minT \in Int /\ blocks[n].maxT \in Int
        /\ blocks[n - 1].maxT \in Int
    <3>1. blocks[n] \in BlockRecords /\ blocks[n - 1] \in BlockRecords
      BY <1>1, <2>1
    <3>2. \A b \in BlockRecords : /\ b.offset \in Int /\ b.size \in Int
                                  /\ b.minT \in Int /\ b.maxT \in Int
      BY DEF BlockRecords
    <3> HIDE DEF blocks
    <3> QED BY <3>1, <3>2
  <2> QED BY <2>2, <2>3, <2>4
<1>8. file.metadata.count = PointCount(blocks)
  <2>1. \A n \in 1..max : /\ blocks[n].count = cuts[n] - cuts[n - 1] /\ cuts[n] \in Nat
                          /\ cuts[n - 1] \in Nat
    BY <1>1, LaidBlock
  <2> HIDE DEF blocks
  <2>2. max = Len(blocks)
    BY DEF blocks
  <2>3. PICK g \in [0..Len(blocks) -> Int] :
              /\ g[0] = 0 /\ PointCount(blocks) = g[Len(blocks)]
              /\ \A n \in 1..Len(blocks) : g[n] = g[n - 1] + blocks[n].count
    <3>1. Len(blocks) \in Nat /\ \A n \in 1..Len(blocks) : blocks[n].count \in Int
      BY <1>1, <2>1, <2>2
    <3> QED BY <3>1, PointCountUnfolds
  <2> HIDE DEF max
  <2> DEFINE T == {n \in 0..max : g[n] = cuts[n]}
  <2>4. ASSUME NEW n \in Nat, n < max, n \in T PROVE n + 1 \in T
    <3>1. n + 1 \in 1..max /\ (n + 1) - 1 = n /\ n + 1 \in 0..max
      BY <1>1, <2>4
    <3>2. g[n + 1] = g[n] + blocks[n + 1].count
      BY <2>2, <2>3, <3>1
    <3>3. blocks[n + 1].count = cuts[n + 1] - cuts[n] /\ cuts[n] \in Nat /\ cuts[n + 1] \in Nat
      BY <2>1, <3>1
    <3>4. g[n] = cuts[n]
      BY <2>4
    <3>5. g[n + 1] = cuts[n + 1]
      BY <3>2, <3>3, <3>4
    <3> QED BY <3>1, <3>5
  <2>5. 0 \in T
    BY <1>1, <2>3
  <2>6. 0..max \subseteq T
    <3> HIDE DEF T
    <3> QED BY <1>1, <2>4, <2>5, Induction
  <2>7. max \in T
    BY <1>1, <2>6
  <2> QED BY <1>1, <1>3, <2>2, <2>3, <2>7
<1>9. blocks[1].minT = points[1].t /\ blocks[max].maxT = points[Len(points)].t
  <2>1. 1 \in 1..max /\ max \in 1..max /\ 1 - 1 = 0 /\ 0 + 1 = 1
    BY <1>1, <1>2
  <2>2. /\ blocks[1].minT = points[cuts[1 - 1] + 1].t
        /\ blocks[max].maxT = points[cuts[max]].t
    BY <1>1, <2>1, BlockBounds
  <2> QED BY <1>1, <2>1, <2>2
<1>10. file.metadata.count > 0
  BY <1>1, <1>3
<1>12. /\ \A n \in 1..max :
             /\ blocks[n].offset >= 0 /\ blocks[n].size > 0 /\ blocks[n].count > 0
             /\ blocks[n].minT <= blocks[n].maxT /\ blocks[n].minP <= blocks[n].maxP
             /\ blocks[n].offset + blocks[n].size <= file.indexOffset
             /\ file.metadata.minP <= blocks[n].minP /\ blocks[n].maxP <= file.metadata.maxP
       /\ \A n \in 1..max : n > 1 =>
             /\ blocks[n].offset >= blocks[n - 1].offset + blocks[n - 1].size
             /\ blocks[n].minT >= blocks[n - 1].minT /\ blocks[n].maxT >= blocks[n - 1].maxT
  BY <1>6, <1>7
<1>13. file.metadata.minT = blocks[1].minT /\ file.metadata.maxT = blocks[Len(blocks)].maxT
  BY <1>3, <1>9
<1>14. Len(blocks) > 0 /\ DOMAIN file.blocks = 1..max
  BY <1>1, <1>2
<1> QED BY <1>8, <1>10, <1>12, <1>13, <1>14, Zenon DEF ValidIndex

\* All blocks, if none is damaged, have the points of the file.
LEMMA FileFlattens ==
    ASSUME NEW file, NEW points, NEW cuts, IsFile(file, points, cuts, {})
    PROVE  FlattenSeq([n \in DOMAIN file.blocks |-> ReadBlock(file, n).points]) = points
<1> DEFINE max == Len(file.blocks)
           seqs == [n \in DOMAIN file.blocks |-> ReadBlock(file, n).points]
<1>1. /\ Laid(file.format, file.blocks, file.data, file.indexOffset, points, cuts, {})
      /\ points \in Seq(Points) /\ max \in Nat /\ DOMAIN file.blocks = 1..max
      /\ cuts \in [0..max -> 0..Len(points)] /\ cuts[0] = 0 /\ cuts[max] = Len(points)
  BY DEF IsFile, Laid, Storable, Chunk
<1>2. \A n \in 1..max : seqs[n] = SubSeq(points, cuts[n - 1] + 1, cuts[n])
  <2> TAKE n \in 1..max
  <2>1. ReadBlock(file, n).points = Piece(points, cuts, n)
    BY BlockRead
  <2> QED BY <1>1, <2>1 DEF Piece
<1>3. \A n \in 1..max : cuts[n - 1] <= cuts[n] /\ Piece(points, cuts, n) \in Seq(Points)
  <2> TAKE n \in 1..max
  <2>1. cuts[n - 1] \in Nat /\ cuts[n] \in Nat /\ cuts[n - 1] < cuts[n]
        /\ Storable(Piece(points, cuts, n))
    BY <1>1, LaidBlock
  <2> QED BY <2>1 DEF Storable, Chunk
<1>4. seqs \in Seq(Seq(Points)) /\ Len(seqs) = max
  <2>1. DOMAIN seqs = 1..max /\ \A n \in 1..max : seqs[n] \in Seq(Points)
    BY <1>1, <1>2, <1>3 DEF Piece
  <2>2. seqs = [n \in 1..max |-> seqs[n]]
    BY <2>1
  <2> HIDE DEF seqs
  <2>3. seqs \in [1..max -> Seq(Points)]
    BY <2>1, <2>2
  <2> QED BY <1>1, <2>3
<1> HIDE DEF seqs
<1>5. FlattenSeq(seqs) = points
  BY <1>1, <1>2, <1>3, <1>4, FlattenCuts
<1> QED BY <1>5 DEF seqs

-----------------------------------------------------------------------------
(* Range queries of a file.                                                *)

IsRange(query) == query.start \in Int /\ query.end \in Int

\* iter_range reads the blocks that overlap, of a file that does.
LEMMA ScannedAre ==
    ASSUME NEW file, NEW points, NEW cuts, NEW broken, IsFile(file, points, cuts, broken),
           NEW query, IsRange(query)
    PROVE  \A n : n \in ScannedBlocks(file, query) <=>
                    /\ n \in 1..Len(file.blocks)
                    /\ Overlaps(file.metadata, query) /\ Overlaps(file.blocks[n], query)
<1> DEFINE max == Len(file.blocks)
           blocks == file.blocks
           mins == [n \in DOMAIN blocks |-> blocks[n].minT]
           maxs == [n \in DOMAIN blocks |-> blocks[n].maxT]
           start == query.start
           end == query.end
<1>1. /\ blocks \in Seq(BlockRecords) /\ max \in Nat /\ DOMAIN blocks = 1..max
      /\ start \in Int /\ end \in Int
  BY DEF IsFile, Laid, IsRange
<1>2. \A n \in 1..max : blocks[n].minT \in Int /\ blocks[n].maxT \in Int
  <2>1. \A n \in 1..max : blocks[n] \in BlockRecords
    BY <1>1
  <2> HIDE DEF blocks, max
  <2> QED BY <2>1 DEF BlockRecords
<1>3. \A m, n \in 1..max : m <= n => mins[m] <= mins[n] /\ maxs[m] <= maxs[n]
  <2> TAKE m \in 1..max, n \in 1..max
  <2> HAVE m <= n
  <2>1. blocks[m].minT <= blocks[n].minT /\ blocks[m].maxT <= blocks[n].maxT
    BY BlocksInOrder
  <2> QED BY <1>1, <2>1
<1>4. mins \in [1..max -> Int] /\ maxs \in [1..max -> Int]
  BY <1>1, <1>2
<1>5. \A n \in 1..max : mins[n] = blocks[n].minT /\ maxs[n] = blocks[n].maxT
  BY <1>1
<1> HIDE DEF mins, maxs
<1>6. /\ BisectLeft(mins, end) \in 0..max
      /\ \A n \in 1..max : n <= BisectLeft(mins, end) <=> mins[n] < end
  <2> HIDE DEF max
  <2> QED BY <1>1, <1>3, <1>4, Bisect
<1>7. /\ BisectLeft(maxs, start) \in 0..max
      /\ \A n \in 1..max : n <= BisectLeft(maxs, start) <=> maxs[n] < start
  <2> HIDE DEF max
  <2> QED BY <1>1, <1>3, <1>4, Bisect
<1>8. CandidateBlocks(blocks, query) = (BisectLeft(maxs, start) + 1)..BisectLeft(mins, end)
  BY DEF CandidateBlocks, mins, maxs
<1>9. ScannedBlocks(file, query)
        = IF ~Overlaps(file.metadata, query) THEN {}
          ELSE {n \in CandidateBlocks(blocks, query) : MayContain(blocks[n], query)}
  BY DEF ScannedBlocks
<1> HIDE DEF max, blocks, start, end
<1>10. \A n : n \in CandidateBlocks(blocks, query) <=>
                n \in 1..max /\ blocks[n].maxT >= start /\ blocks[n].minT < end
  <2> TAKE n
  <2>1. ASSUME n \in CandidateBlocks(blocks, query) PROVE n \in 1..max
    BY <1>1, <1>6, <1>7, <1>8, <2>1
  <2>2. ASSUME n \in 1..max
        PROVE  n \in CandidateBlocks(blocks, query) <=> blocks[n].maxT >= start /\ blocks[n].minT < end
    <3>1. n \in CandidateBlocks(blocks, query)
            <=> ~(n <= BisectLeft(maxs, start)) /\ n <= BisectLeft(mins, end)
      BY <1>6, <1>7, <1>8, <2>2
    <3>2. ~(n <= BisectLeft(maxs, start)) <=> ~(blocks[n].maxT < start)
      BY <1>5, <1>7, <2>2
    <3>3. n <= BisectLeft(mins, end) <=> blocks[n].minT < end
      BY <1>5, <1>6, <2>2
    <3>4. ~(blocks[n].maxT < start) <=> blocks[n].maxT >= start
      BY <1>1, <1>2, <2>2
    <3> QED BY <3>1, <3>2, <3>3, <3>4
  <2> QED BY <2>1, <2>2
<1>11. \A n : n \in ScannedBlocks(file, query) <=>
                /\ Overlaps(file.metadata, query)
                /\ n \in CandidateBlocks(blocks, query) /\ MayContain(blocks[n], query)
  BY <1>9
<1>12. \A n : Overlaps(blocks[n], query) <=>
                blocks[n].maxT >= start /\ blocks[n].minT < end /\ MayContain(blocks[n], query)
  BY DEF Overlaps, start, end
<1>13. \A n : n \in ScannedBlocks(file, query) <=>
                /\ n \in 1..max /\ Overlaps(file.metadata, query) /\ Overlaps(blocks[n], query)
  BY <1>10, <1>11, <1>12
<1> QED BY <1>13 DEF max, blocks

\* If it raises, a block that may have points in the range is damaged.
LEMMA UnreadableIsDamaged ==
    ASSUME NEW file, NEW points, NEW cuts, NEW broken, IsFile(file, points, cuts, broken),
           NEW query, IsRange(query)
    PROVE  ~Readable(file, query) => \E n \in 1..Len(file.blocks) :
                                        /\ file.blocks[n].offset \in broken
                                        /\ Overlaps(file.blocks[n], query)
<1> SUFFICES ASSUME ~Readable(file, query)
             PROVE  \E n \in 1..Len(file.blocks) : /\ file.blocks[n].offset \in broken
                                                   /\ Overlaps(file.blocks[n], query)
  OBVIOUS
<1>1. PICK n \in ScannedBlocks(file, query) : ~ReadBlock(file, n).ok
  BY DEF Readable
<1>2. n \in 1..Len(file.blocks) /\ Overlaps(file.blocks[n], query)
  BY ScannedAre
<1>3. file.blocks[n].offset \in broken
  BY <1>1, <1>2, BlockRead
<1> QED BY <1>2, <1>3

\* Neither the bounds of the file nor those of its blocks hide a point in the range.
LEMMA BoundsCover ==
    ASSUME NEW file, NEW points, NEW cuts, NEW broken, IsFile(file, points, cuts, broken),
           NEW query, IsRange(query), NEW n \in 1..Len(file.blocks),
           NEW i \in (cuts[n - 1] + 1)..cuts[n], InRange(points[i], query)
    PROVE  Overlaps(file.metadata, query) /\ Overlaps(file.blocks[n], query)
<1> DEFINE block == file.blocks[n]
           chunk == Piece(points, cuts, n)
           x == points[i]
           md == file.metadata
<1>1. /\ Laid(file.format, file.blocks, file.data, file.indexOffset, points, cuts, broken)
      /\ Storable(points) /\ Len(points) \in Nat \ {0}
  BY DEF IsFile, Laid, Storable, Chunk
<1>2. /\ cuts[n - 1] \in Nat /\ cuts[n] \in Nat /\ cuts[n - 1] < cuts[n] /\ cuts[n] <= Len(points)
      /\ Storable(chunk) /\ Encodable(chunk)
      /\ i - cuts[n - 1] \in 1..Len(chunk) /\ x = chunk[i - cuts[n - 1]]
      /\ block.minT = points[cuts[n - 1] + 1].t /\ block.maxT = points[cuts[n]].t
      /\ block.minP = MinOf(ParametersOf(chunk)) /\ block.maxP = MaxOf(ParametersOf(chunk))
  <2>1. /\ cuts[n - 1] \in Nat /\ cuts[n] \in Nat /\ cuts[n - 1] < cuts[n] /\ cuts[n] <= Len(points)
        /\ Storable(chunk) /\ Encodable(chunk)
        /\ block.minT = points[cuts[n - 1] + 1].t /\ block.maxT = points[cuts[n]].t
        /\ block.minP = MinOf(ParametersOf(chunk)) /\ block.maxP = MaxOf(ParametersOf(chunk))
    <3>1. /\ cuts[n - 1] \in Nat /\ cuts[n] \in Nat /\ cuts[n - 1] < cuts[n] /\ cuts[n] <= Len(points)
          /\ Storable(chunk) /\ Encodable(chunk)
      BY <1>1, BlockCuts
    <3>2. /\ block.minT = points[cuts[n - 1] + 1].t /\ block.maxT = points[cuts[n]].t
          /\ block.minP = MinOf(ParametersOf(chunk)) /\ block.maxP = MaxOf(ParametersOf(chunk))
      BY <1>1, BlockBounds
    <3> QED BY <3>1, <3>2
  <2>2. \A j \in (cuts[n - 1] + 1)..cuts[n] :
          j - cuts[n - 1] \in 1..Len(chunk) /\ points[j] = chunk[j - cuts[n - 1]]
    BY <1>1, BlockPoints
  <2>3. i - cuts[n - 1] \in 1..Len(chunk) /\ points[i] = chunk[i - cuts[n - 1]]
    BY <2>2
  <2> HIDE DEF chunk, block
  <2> QED BY <2>1, <2>3
<1>3. md = FileMetadata(points)
  BY DEF IsFile
<1>4. /\ md.minT = points[1].t /\ md.maxT = points[Len(points)].t
      /\ md.minP = MinOf(ParametersOf(points)) /\ md.maxP = MaxOf(ParametersOf(points))
  BY <1>3 DEF FileMetadata
<1>5. x.p \in ParametersOf(chunk) /\ block.minP <= x.p /\ x.p <= block.maxP
  <2> HIDE DEF block, chunk, x
  <2>1. chunk[i - cuts[n - 1]].p \in ParametersOf(chunk)
    BY <1>2, ParameterBounds
  <2>2. x.p \in ParametersOf(chunk)
    BY <1>2, <2>1
  <2> QED BY <1>2, <2>2, ParameterBounds
<1>6. md.minP <= x.p /\ x.p <= md.maxP
  <2>1. i \in 1..Len(points) /\ Encodable(points)
    BY <1>1, <1>2, FileEncodable
  <2>2. x.p \in ParametersOf(points)
    BY <1>1, <2>1, ParameterBounds
  <2> HIDE DEF md, x
  <2> QED BY <1>1, <1>4, <2>1, <2>2, ParameterBounds
<1>7. /\ i \in 1..Len(points) /\ 1 \in 1..Len(points) /\ Len(points) \in 1..Len(points)
      /\ cuts[n - 1] + 1 \in 1..Len(points) /\ cuts[n] \in 1..Len(points)
      /\ cuts[n - 1] + 1 <= i /\ i <= cuts[n] /\ 1 <= i /\ i <= Len(points)
  <2>1. /\ cuts[n - 1] \in Nat /\ cuts[n] \in Nat /\ cuts[n - 1] < cuts[n] /\ cuts[n] <= Len(points)
    BY <1>2
  <2> HIDE DEF x, chunk, block, md
  <2> QED BY <1>1, <2>1
<1>8. /\ x.t \in Int /\ block.minT \in Int /\ block.maxT \in Int
      /\ block.minT <= x.t /\ x.t <= block.maxT
  <2>1. points[cuts[n - 1] + 1].t <= x.t /\ x.t <= points[cuts[n]].t /\ x.t \in Int
        /\ points[cuts[n - 1] + 1].t \in Int /\ points[cuts[n]].t \in Int
    BY <1>1, <1>7, InTimeOrder
  <2> HIDE DEF x, block
  <2> QED BY <1>2, <2>1
<1>9. md.minT \in Int /\ md.maxT \in Int /\ md.minT <= x.t /\ x.t <= md.maxT
  <2>1. points[1].t <= x.t /\ x.t <= points[Len(points)].t
        /\ points[1].t \in Int /\ points[Len(points)].t \in Int
    BY <1>1, <1>7, InTimeOrder
  <2> HIDE DEF x, md
  <2> QED BY <1>4, <2>1
<1>10. /\ query.start <= x.t /\ x.t < query.end /\ (query.filtered => x.p \in query.parameters)
       /\ query.start \in Int /\ query.end \in Int
  BY DEF InRange, IsRange
<1> HIDE DEF x, md, block
<1>11. MayContain(md, query) /\ MayContain(block, query)
  BY <1>5, <1>6, <1>10 DEF MayContain
<1>12. md.maxT >= query.start /\ md.minT < query.end /\ block.maxT >= query.start /\ block.minT < query.end
  BY <1>8, <1>9, <1>10
<1> QED BY <1>11, <1>12 DEF Overlaps, md, block

\* iter_range, when no block that it reads raises, yields exactly the points of the file
\* in the interval and the filter, in the order of the file: pruning by the bounds of the
\* file and of its blocks and the bisection over the index lose none, for every size of
\* the blocks, and whatever blocks it does not read are damaged.
THEOREM ScanYieldsRange ==
    ASSUME NEW file, NEW points, NEW cuts, NEW broken, IsFile(file, points, cuts, broken),
           NEW query, IsRange(query), Readable(file, query)
    PROVE  /\ Scan(file, query) \in Seq(Points) /\ Ascending(Scan(file, query))
           /\ ToSet(Scan(file, query)) = {x \in ToSet(points) : InRange(x, query)}
<1> DEFINE max == Len(file.blocks)
           scanned == ScannedBlocks(file, query)
           seqs == [n \in DOMAIN file.blocks |->
                         IF n \in scanned THEN ReadBlock(file, n).points ELSE <<>>]
<1>1. /\ Laid(file.format, file.blocks, file.data, file.indexOffset, points, cuts, broken)
      /\ Storable(points) /\ points \in Seq(Points) /\ Len(points) \in Nat
      /\ max \in Nat /\ DOMAIN file.blocks = 1..max /\ DOMAIN points = 1..Len(points)
  BY DEF IsFile, Laid, Storable, Chunk
<1>2. \A n \in 1..max : seqs[n] = IF n \in scanned THEN Piece(points, cuts, n) ELSE <<>>
  <2> TAKE n \in 1..max
  <2>1. n \in scanned => ReadBlock(file, n).points = Piece(points, cuts, n)
    BY BlockRead DEF Readable
  <2> QED BY <1>1, <2>1
<1>3. \A n \in 1..max : /\ cuts[n - 1] \in Nat /\ cuts[n] \in Nat /\ cuts[n] <= Len(points)
                        /\ Storable(Piece(points, cuts, n))
                        /\ Len(Piece(points, cuts, n)) = cuts[n] - cuts[n - 1]
                        /\ \A i \in 1..Len(Piece(points, cuts, n)) :
                             Piece(points, cuts, n)[i] = points[cuts[n - 1] + i]
                        /\ \A i \in (cuts[n - 1] + 1)..cuts[n] :
                             /\ i - cuts[n - 1] \in 1..Len(Piece(points, cuts, n))
                             /\ points[i] = Piece(points, cuts, n)[i - cuts[n - 1]]
  <2> TAKE n \in 1..max
  <2>1. /\ cuts[n - 1] \in Nat /\ cuts[n] \in Nat /\ cuts[n] <= Len(points)
        /\ Storable(Piece(points, cuts, n))
        /\ Len(Piece(points, cuts, n)) = cuts[n] - cuts[n - 1]
    BY <1>1, BlockCuts
  <2>2. /\ \A i \in 1..Len(Piece(points, cuts, n)) :
             Piece(points, cuts, n)[i] = points[cuts[n - 1] + i]
        /\ \A i \in (cuts[n - 1] + 1)..cuts[n] :
             /\ i - cuts[n - 1] \in 1..Len(Piece(points, cuts, n))
             /\ points[i] = Piece(points, cuts, n)[i - cuts[n - 1]]
    BY <1>1, BlockPoints
  <2> QED BY <2>1, <2>2
<1>4. seqs \in Seq(Seq(Points)) /\ Len(seqs) = max
  <2>1. DOMAIN seqs = 1..max /\ \A n \in 1..max : seqs[n] \in Seq(Points)
    <3>1. \A n \in 1..max : Piece(points, cuts, n) \in Seq(Points)
      BY <1>3 DEF Storable, Chunk
    <3>2. DOMAIN seqs = 1..max
      BY <1>1
    <3>3. <<>> \in Seq(Points)
      OBVIOUS
    <3> HIDE DEF seqs, scanned
    <3> QED BY <1>2, <3>1, <3>2, <3>3
  <2>2. seqs = [n \in 1..max |-> seqs[n]]
    BY <2>1
  <2> HIDE DEF seqs
  <2>3. seqs \in [1..max -> Seq(Points)]
    BY <2>1, <2>2
  <2> QED BY <1>1, <2>3
<1>5. Scan(file, query) = Select(FlattenSeq(seqs), query)
  BY DEF Scan
<1> HIDE DEF seqs, scanned
\* Where in the file the points of one of the sequences are.
<1>6. \A n \in 1..max : \A x : x \in ToSet(seqs[n]) =>
         \E i \in (cuts[n - 1] + 1)..cuts[n] : x = points[i]
  <2> TAKE n \in 1..max
  <2> TAKE x
  <2> HAVE x \in ToSet(seqs[n])
  <2> DEFINE chunk == Piece(points, cuts, n)
  <2>1. n \in scanned /\ seqs[n] = chunk
    <3>1. ToSet(<<>>) = {}
      BY DEF ToSet
    <3> QED BY <1>2, <3>1
  <2>2. /\ Storable(chunk) /\ cuts[n - 1] \in Nat /\ cuts[n] \in Nat
        /\ Len(chunk) = cuts[n] - cuts[n - 1]
        /\ \A i \in 1..Len(chunk) : chunk[i] = points[cuts[n - 1] + i]
    BY <1>3
  <2> HIDE DEF chunk
  <2>3. DOMAIN chunk = 1..Len(chunk)
    BY <2>2 DEF Storable, Chunk
  <2>4. PICK i \in 1..Len(chunk) : x = chunk[i]
    BY <2>1, <2>3 DEF ToSet
  <2>5. cuts[n - 1] + i \in (cuts[n - 1] + 1)..cuts[n]
    BY <2>2
  <2> QED BY <2>2, <2>4, <2>5
<1>7. \A n \in 1..max : Ascending(seqs[n])
  <2> TAKE n \in 1..max
  <2>1. Ascending(<<>>)
    BY DEF Ascending
  <2> QED BY <1>2, <1>3, <2>1 DEF Storable
<1>8. \A m, n \in 1..max :
         m < n => \A x \in ToSet(seqs[m]), y \in ToSet(seqs[n]) : Precedes(x, y)
  <2> TAKE m \in 1..max, n \in 1..max
  <2> HAVE m < n
  <2> TAKE x \in ToSet(seqs[m]), y \in ToSet(seqs[n])
  <2>1. PICK i \in (cuts[m - 1] + 1)..cuts[m] : x = points[i]
    BY <1>6
  <2>2. PICK j \in (cuts[n - 1] + 1)..cuts[n] : y = points[j]
    BY <1>6
  <2>3. cuts[m] <= cuts[n - 1]
    <3>1. m <= n
      BY <1>1
    <3> QED BY <3>1, BlocksInOrder
  <2>4. /\ cuts[m - 1] \in Nat /\ cuts[m] \in Nat /\ cuts[n - 1] \in Nat /\ cuts[n] \in Nat
        /\ cuts[m] <= Len(points) /\ cuts[n] <= Len(points)
    BY <1>3
  <2>5. i \in 1..Len(points) /\ j \in 1..Len(points) /\ i < j
    <3>1. /\ i \in Nat /\ cuts[m - 1] < i /\ i <= cuts[m]
          /\ j \in Nat /\ cuts[n - 1] < j /\ j <= cuts[n]
      BY ONLY <2>4, i \in (cuts[m - 1] + 1)..cuts[m], j \in (cuts[n - 1] + 1)..cuts[n]
    <3>2. Len(points) \in Nat
      BY <1>1
    <3>3. PICK a, b, c, l : a = cuts[m] /\ b = cuts[n - 1] /\ c = cuts[n] /\ l = Len(points)
      OBVIOUS
    <3>4. /\ a \in Nat /\ b \in Nat /\ c \in Nat /\ l \in Nat
          /\ a <= b /\ a <= l /\ c <= l
          /\ i \in Nat /\ i <= a /\ j \in Nat /\ b < j /\ j <= c
      BY ONLY <2>3, <2>4, <3>1, <3>2, <3>3
    <3>5. 0 < i
      <4>1. PICK d : d = cuts[m - 1]
        OBVIOUS
      <4>2. d \in Nat /\ d < i
        BY ONLY <2>4, <3>1, <4>1
      <4> QED BY ONLY <3>4, <4>2
    <3>6. i \in 1..l /\ j \in 1..l /\ i < j
      BY ONLY <3>4, <3>5
    <3> QED BY ONLY <3>3, <3>6
  <2>6. Ascending(points)
    BY <1>1 DEF Storable
  <2>7. Precedes(points[i], points[j])
    BY ONLY <2>5, <2>6 DEF Ascending
  <2> QED BY <2>1, <2>2, <2>7
<1>9. PICK flat : Flattens(flat, seqs, Points) /\ FlattenSeq(seqs) = flat[Len(seqs)]
  BY <1>4, FlattenHasStages
<1> DEFINE all == FlattenSeq(seqs)
<1>10. all \in Seq(Points) /\ Ascending(all)
       /\ \A x : x \in ToSet(all) <=> \E n \in 1..max : x \in ToSet(seqs[n])
  <2>1. all \in Seq(Points)
    <3>1. Len(seqs) \in 0..Len(seqs) /\ flat \in [0..Len(seqs) -> Seq(Points)]
      BY <1>1, <1>4, <1>9 DEF Flattens
    <3> QED BY <1>9, <3>1
  <2>2. Ascending(all)
    <3> HIDE DEF max
    <3> QED BY <1>4, <1>7, <1>8, FlattenAscending
  <2>3. \A x : x \in ToSet(flat[max]) <=> \E n \in 1..max : x \in ToSet(seqs[n])
    <3>1. max \in 0..Len(seqs)
      BY <1>1, <1>4
    <3> HIDE DEF max, seqs, all, scanned
    <3>2. seqs \in Seq(Seq(Points)) /\ Flattens(flat, seqs, Points)
      BY <1>4, <1>9
    <3> QED BY <3>1, <3>2, FlattenMembers
  <2> QED BY <1>4, <1>9, <2>1, <2>2, <2>3
<1> HIDE DEF all
<1>11. ASSUME NEW x \in ToSet(all) PROVE x \in ToSet(points)
  <2>1. PICK n \in 1..max : x \in ToSet(seqs[n])
    BY <1>10
  <2>2. PICK i \in (cuts[n - 1] + 1)..cuts[n] : x = points[i]
    BY <1>6, <2>1
  <2>3. i \in 1..Len(points)
    <3>1. cuts[n - 1] \in Nat /\ cuts[n] \in Nat /\ cuts[n] <= Len(points)
      BY <1>3
    <3> QED BY <1>1, <3>1
  <2> QED BY <1>1, <2>2, <2>3 DEF ToSet
<1>12. ASSUME NEW x \in ToSet(points), InRange(x, query) PROVE x \in ToSet(all)
  <2>1. PICK i \in 1..Len(points) : x = points[i]
    BY <1>1 DEF ToSet
  <2>2. PICK n \in 1..max : i \in (cuts[n - 1] + 1)..cuts[n]
    BY BlockOf
  <2>3. n \in scanned
    <3>1. Overlaps(file.metadata, query) /\ Overlaps(file.blocks[n], query)
      BY <1>12, <2>1, <2>2, BoundsCover
    <3> QED BY <3>1, ScannedAre DEF scanned
  <2> DEFINE chunk == Piece(points, cuts, n)
  <2>4. /\ Storable(chunk) /\ i - cuts[n - 1] \in 1..Len(chunk)
        /\ points[i] = chunk[i - cuts[n - 1]]
    BY <1>3, <2>2
  <2>5. seqs[n] = chunk
    BY <1>2, <2>3
  <2> HIDE DEF chunk
  <2>6. DOMAIN chunk = 1..Len(chunk)
    BY <2>4 DEF Storable, Chunk
  <2>7. x \in ToSet(chunk)
    BY <2>1, <2>4, <2>6 DEF ToSet
  <2> QED BY <1>10, <2>5, <2>7
<1>13. /\ Select(all, query) \in Seq(Points)
       /\ ToSet(Select(all, query)) = {x \in ToSet(all) : InRange(x, query)}
       /\ Ascending(Select(all, query))
  BY <1>10, SelectFacts
<1>14. {x \in ToSet(all) : InRange(x, query)} = {x \in ToSet(points) : InRange(x, query)}
  BY <1>11, <1>12
<1> QED BY <1>5, <1>13, <1>14 DEF all

-----------------------------------------------------------------------------
(* Writing a file, and damaging one.                                       *)

\* The blocks have the first points, as many as start says.
LaidUpTo(format, blocks, data, end, points, start) ==
    \E cuts : Laid(format, blocks, data, end, points, cuts, {}) /\ cuts[Len(blocks)] = start

\* Nothing is written yet.
LEMMA LaidEmpty ==
    ASSUME NEW format \in BlockFormats, NEW points, Storable(points)
    PROVE  LaidUpTo(format, <<>>, <<>>, 0, points, 0)
<1> DEFINE cuts == [n \in 0..0 |-> 0]
<1>1. Len(<<>>) = 0 /\ <<>> \in Seq(BlockRecords) /\ 1..0 = {} /\ 0..0 = {0} /\ DOMAIN <<>> = {}
  OBVIOUS
<1>2. Len(points) \in Nat
  BY DEF Storable, Chunk
<1>3. cuts[0] = 0 /\ cuts \in [0..0 -> 0..Len(points)]
  BY <1>1, <1>2
<1> HIDE DEF cuts
<1>4. Laid(format, <<>>, <<>>, 0, points, cuts, {})
  BY <1>1, <1>3 DEF Laid
<1> QED BY <1>1, <1>3, <1>4 DEF LaidUpTo

DataWith(data, offset, block) ==
    [o \in DOMAIN data \cup {offset} |-> IF o = offset THEN block ELSE data[o]]

Between(points, start, last) == SubSeq(points, start + 1, last)

\* One more block.
LEMMA LaidExtends ==
    ASSUME NEW format, NEW blocks, NEW data, NEW end, NEW points,
           NEW start, LaidUpTo(format, blocks, data, end, points, start), start < Len(points),
           NEW last \in (start + 1)..Len(points),
           NEW chunk, chunk = Between(points, start, last), Encodable(chunk),
           NEW block, block = Encode(format, chunk), NEW size, size = EncodedSize(format, block)
    PROVE  /\ LaidUpTo(format, Append(blocks, BlockMetadata(end, size, chunk)),
                       DataWith(data, end, block), end + size, points, last)
           /\ start + Len(chunk) = last
<1>0. PICK cuts : Laid(format, blocks, data, end, points, cuts, {}) /\ start = cuts[Len(blocks)]
  BY DEF LaidUpTo
<1> DEFINE max == Len(blocks)
           metadata == BlockMetadata(end, size, chunk)
           data2 == DataWith(data, end, block)
           blocks2 == Append(blocks, metadata)
           cuts2 == [n \in 0..(max + 1) |-> IF n = max + 1 THEN last ELSE cuts[n]]
<1>1. /\ Storable(points) /\ format \in BlockFormats
      /\ blocks \in Seq(BlockRecords) /\ end \in Nat /\ max \in Nat /\ Len(points) \in Nat
      /\ cuts \in [0..max -> 0..Len(points)] /\ cuts[0] = 0
      /\ DOMAIN data = {blocks[n].offset : n \in 1..max}
      /\ \A n \in 1..max : IsBlock(format, blocks, data, end, points, cuts, {}, n)
  BY <1>0 DEF Laid, Storable, Chunk
<1>2. start \in Nat /\ start + 1 \in 1..Len(points) /\ last \in Nat /\ last <= Len(points)
      /\ start < last
  <2>1. max \in 0..max
    BY <1>1
  <2>2. start \in 0..Len(points)
    BY <1>1, <2>1
  <2> QED BY <1>1, <2>2
<1>3. /\ Storable(chunk) /\ Len(chunk) = last - start /\ Len(chunk) \in Nat \ {0}
  <2> DEFINE a == start + 1
  <2>1. a \in 1..Len(points) /\ last \in a..Len(points)
    BY <1>2
  <2> HIDE DEF a
  <2>2. Storable(SubSeq(points, a, last)) /\ Len(SubSeq(points, a, last)) = last - a + 1
        /\ Len(SubSeq(points, a, last)) \in Nat \ {0}
    BY <1>1, <2>1, PieceFacts
  <2>3. chunk = SubSeq(points, a, last)
    BY DEF a, Between
  <2>4. last - a + 1 = last - start
    BY <1>2 DEF a
  <2> QED BY <2>2, <2>3, <2>4
<1>4. size \in Nat \ {0}
  BY <1>1, <1>3, EncodedSizePositive DEF Storable
<1>5. metadata \in BlockRecords
  <2>1. chunk[1].t \in Int /\ chunk[Len(chunk)].t \in Int
    <3>1. 1 \in 1..Len(chunk) /\ Len(chunk) \in 1..Len(chunk)
      <4>1. \A k \in Nat \ {0} : 1 \in 1..k /\ k \in 1..k
        OBVIOUS
      <4> QED BY <1>3, <4>1
    <3>2. Storable(chunk)
      BY <1>3
    <3>3. \A n \in 1..Len(chunk) : chunk[n].t \in Int
      BY <3>2, PointTypes
    <3> QED BY <3>1, <3>3
  <2>2. MinOf(ParametersOf(chunk)) \in Int /\ MaxOf(ParametersOf(chunk)) \in Int
    BY <1>3, ParameterBounds, FormatAssumption
  <2> DEFINE a == MinOf(ParametersOf(chunk))
             b == MaxOf(ParametersOf(chunk))
             c == Len(chunk)
  <2>3. a \in Int /\ b \in Int /\ end \in Int /\ size \in Int /\ c \in Int
    BY <1>1, <1>3, <1>4, <2>2
  <2>4. metadata = [offset |-> end, size |-> size, count |-> c, minT |-> chunk[1].t,
                    maxT |-> chunk[c].t, minP |-> a, maxP |-> b]
    BY DEF BlockMetadata
  <2> HIDE DEF metadata, a, b
  <2> QED BY <2>1, <2>3, <2>4 DEF BlockRecords
<1>6. /\ blocks2 \in Seq(BlockRecords) /\ Len(blocks2) = max + 1 /\ blocks2[max + 1] = metadata
      /\ \A n \in 1..max : blocks2[n] = blocks[n]
  <2> HIDE DEF metadata
  <2> QED BY <1>1, <1>5
<1>7. metadata.offset = end /\ metadata.size = size
  BY DEF BlockMetadata
<1>8. /\ cuts2 \in [0..(max + 1) -> 0..Len(points)] /\ cuts2[max + 1] = last
      /\ \A n \in 0..max : cuts2[n] = cuts[n]
  BY <1>1, <1>2
<1>9. \A n \in 1..max : n \in 0..max /\ n - 1 \in 0..max
  BY <1>1
<1>10. \A n \in 1..max : Piece(points, cuts2, n) = Piece(points, cuts, n)
  <2> HIDE DEF cuts2
  <2> QED BY <1>8, <1>9 DEF Piece
<1>11. Piece(points, cuts2, max + 1) = chunk
  <2>1. (max + 1) - 1 = max /\ max \in 0..max
    BY <1>1
  <2>2. cuts2[max] = start /\ cuts2[max + 1] = last
    BY <1>0, <1>8, <2>1
  <2> HIDE DEF cuts2, max
  <2>3. Piece(points, cuts2, max + 1) = SubSeq(points, start + 1, last)
    BY <2>1, <2>2 DEF Piece
  <2> QED BY <2>3 DEF Between
<1>12. \A n \in 1..max : /\ blocks[n].offset \in Nat /\ blocks[n].size \in Nat \ {0}
                         /\ blocks[n].offset + blocks[n].size <= end
  BY <1>0, LaidBlock
<1>13. \A n \in 1..max : blocks[n].offset # end /\ blocks[n].offset + blocks[n].size <= end + size
  <2> TAKE n \in 1..max
  <2> DEFINE o == blocks[n].offset
             z == blocks[n].size
  <2>1. o \in Nat /\ z \in Nat \ {0} /\ o + z <= end
    BY <1>12
  <2> HIDE DEF o, z
  <2>2. o # end /\ o + z <= end + size
    BY <1>1, <1>4, <2>1
  <2> QED BY <2>2 DEF o, z
<1>14. data2[end] = block /\ \A n \in 1..max : data2[blocks[n].offset] = data[blocks[n].offset]
  BY <1>1, <1>13 DEF DataWith
<1>15. DOMAIN data2 = {blocks2[n].offset : n \in 1..(max + 1)}
  <2>1. DOMAIN data2 = DOMAIN data \cup {end}
    BY DEF DataWith
  <2>2. 1..(max + 1) = (1..max) \cup {max + 1}
    BY <1>1
  <2> HIDE DEF data2, blocks2, metadata
  <2>3. \A o : (\E n \in 1..(max + 1) : o = blocks2[n].offset)
                 <=> (\E n \in 1..max : o = blocks[n].offset) \/ o = end
    BY <1>6, <1>7, <2>2
  <2> QED BY <1>1, <2>1, <2>3
<1> HIDE DEF data2, blocks2, metadata, cuts2
<1>16. ASSUME NEW n \in 1..max
       PROVE  IsBlock(format, blocks2, data2, end + size, points, cuts2, {}, n)
  <2>1. IsBlock(format, blocks, data, end, points, cuts, {}, n)
    BY <1>1
  <2>2. \A m \in 1..(n - 1) : m \in 1..max
    BY <1>1
  <2>3. cuts2[n - 1] = cuts[n - 1] /\ cuts2[n] = cuts[n]
    BY <1>8, <1>9
  <2> QED BY <1>6, <1>10, <1>13, <1>14, <2>1, <2>2, <2>3 DEF IsBlock
<1>17. IsBlock(format, blocks2, data2, end + size, points, cuts2, {}, max + 1)
  <2>1. (max + 1) - 1 = max /\ max \in 0..max
    BY <1>1
  <2>2. cuts2[(max + 1) - 1] < cuts2[max + 1]
    <3>1. cuts2[max] = start /\ cuts2[max + 1] = last
      BY <1>0, <1>8, <2>1
    <3> QED BY <1>2, <2>1, <3>1
  <2>3. blocks2[max + 1] = BlockMetadata(blocks2[max + 1].offset, EncodedSize(format, Encode(format, chunk)), chunk)
    BY <1>6, <1>7 DEF metadata
  <2>4. /\ blocks2[max + 1].offset \in Nat
        /\ blocks2[max + 1].offset + blocks2[max + 1].size <= end + size
    BY <1>1, <1>4, <1>6, <1>7
  <2>5. data2[blocks2[max + 1].offset] = Stored(format, chunk, blocks2[max + 1].offset \in {})
    BY <1>6, <1>7, <1>14 DEF Stored
  <2>6. \A m \in 1..((max + 1) - 1) : blocks2[m].offset + blocks2[m].size <= blocks2[max + 1].offset
    BY <1>6, <1>7, <1>12, <2>1
  <2> QED BY <1>11, <2>2, <2>3, <2>4, <2>5, <2>6 DEF IsBlock
<1>18. \A n \in 1..(max + 1) : IsBlock(format, blocks2, data2, end + size, points, cuts2, {}, n)
  <2>1. 1..(max + 1) = (1..max) \cup {max + 1}
    BY <1>1
  <2> QED BY <1>16, <1>17, <2>1
<1>19. end + size \in Nat /\ cuts2[0] = 0
  <2>1. 0 \in 0..max
    BY <1>1
  <2> QED BY <1>1, <1>4, <1>8, <2>1
<1>20. Laid(format, blocks2, data2, end + size, points, cuts2, {})
  BY <1>1, <1>6, <1>8, <1>15, <1>18, <1>19 DEF Laid
<1>21. start + Len(chunk) = last
  BY <1>2, <1>3
<1> QED BY <1>6, <1>8, <1>20, <1>21 DEF LaidUpTo, data2, blocks2, metadata

\* The base of one block is off by one.
LEMMA FileBreaks ==
    ASSUME NEW file, NEW points, NEW cuts, NEW broken, IsFile(file, points, cuts, broken),
           file.format = "v2_timeseries",
           NEW offset \in DOMAIN file.data, offset \notin broken,
           NEW file2,
           /\ file2.format = file.format /\ file2.blocks = file.blocks
           /\ file2.indexOffset = file.indexOffset /\ file2.metadata = file.metadata
           /\ DOMAIN file2.data = DOMAIN file.data
           /\ file2.data[offset] = [file.data[offset] EXCEPT !.base = @ + 1]
           /\ \A o \in DOMAIN file.data : o # offset => file2.data[o] = file.data[o]
    PROVE  IsFile(file2, points, cuts, broken \cup {offset})
<1> DEFINE max == Len(file.blocks)
           blocks == file.blocks
           end == file.indexOffset
           format == file.format
<1>1. Laid(format, blocks, file.data, end, points, cuts, broken)
  BY DEF IsFile
<1>2. /\ \A n \in 1..max : IsBlock(format, blocks, file.data, end, points, cuts, broken, n)
      /\ DOMAIN file.data = {blocks[n].offset : n \in 1..max}
  BY <1>1 DEF Laid
<1>3. ASSUME NEW n \in 1..max
      PROVE  IsBlock(format, blocks, file2.data, end, points, cuts, broken \cup {offset}, n)
  <2> DEFINE chunk == Piece(points, cuts, n)
             o == blocks[n].offset
  <2>1. o \in DOMAIN file.data
    BY <1>2
  <2>2. file.data[o] = Stored(format, chunk, o \in broken)
    BY <1>2 DEF IsBlock
  <2> HIDE DEF chunk, o
  <2>3. CASE o = offset
    <3>1. file2.data[o] = [Encode(format, chunk) EXCEPT !.base = @ + 1]
      BY <2>2, <2>3 DEF Stored
    <3>2. file2.data[o] = Stored(format, chunk, o \in broken \cup {offset})
      BY <2>3, <3>1 DEF Stored
    <3> QED BY <1>2, <3>2 DEF IsBlock, chunk, o
  <2>4. CASE o # offset
    <3>1. file2.data[o] = Stored(format, chunk, o \in broken \cup {offset})
      BY <2>1, <2>2, <2>4
    <3> QED BY <1>2, <3>1 DEF IsBlock, chunk, o
  <2> QED BY <2>3, <2>4
<1>4. Laid(format, blocks, file2.data, end, points, cuts, broken \cup {offset})
  BY <1>1, <1>2, <1>3 DEF Laid
<1> QED BY <1>4 DEF IsFile
=============================================================================
