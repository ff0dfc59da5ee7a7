----------------------------- MODULE FoldTheory -----------------------------
(***************************************************************************)
(* What FoldLeft of SequencesExt computes, for any operator Op: the        *)
(* recursion equations along Append, Head and Tail, and concatenation, and *)
(* the type of the result.  A module that folds with an operator of its    *)
(* own instantiates this one with it, once for each operator.              *)
(*                                                                         *)
(* Induction is by sets, from WFMin: the sets of numbers, or of sequences, *)
(* for which a statement holds.                                            *)
(***************************************************************************)
EXTENDS Integers, Sequences, SequencesExt, WellFoundedInduction,
        SequenceTheorems, TLAPS

CONSTANT Op(_, _)

-----------------------------------------------------------------------------
(* Induction.                                                              *)

\* A set of numbers that has 0 and with each number the next has them all.
LEMMA SetInduction ==
  ASSUME NEW U, 0 \in U, \A n \in Nat : n \in U => n + 1 \in U
  PROVE  Nat \subseteq U
<1>. SUFFICES ASSUME Nat \ U # {} PROVE FALSE
  OBVIOUS
<1>. DEFINE R == {ss \in Nat \X Nat : ss[1] < ss[2]}
<1>1. IsWellFoundedOn(R, Nat)
  BY NatLessThanWellFounded, Zenon DEF OpToRel
<1>2. PICK x \in Nat \ U : \A y \in Nat \ U : ~ (<<y, x>> \in R)
  <2>. HIDE DEF R
  <2>. QED
    BY <1>1, WFMin
<1>3. x # 0 /\ x - 1 \in Nat
  BY <1>2
<1>4. x - 1 \in U
  <2>1. x - 1 < x
    BY <1>3
  <2>2. <<x - 1, x>> \in R
    BY <2>1, <1>3
  <2>. QED
    BY <2>2, <1>2, <1>3
<1>. QED
  BY <1>4, <1>3, <1>2

\* The same along the numbers up to n.
LEMMA BoundedInduction ==
  ASSUME NEW U, NEW n \in Nat, 0 \in U,
         \A k \in 0..n : k \in U /\ k < n => k + 1 \in U
  PROVE  0..n \subseteq U
<1>. DEFINE W == {k \in Nat : k <= n => k \in U}
<1>1. 0 \in W /\ \A k \in Nat : k \in W => k + 1 \in W
  OBVIOUS
<1>2. Nat \subseteq W
  BY <1>1, SetInduction
<1>. QED
  BY <1>2

-----------------------------------------------------------------------------
(* The function that FoldLeft reads its result from.                       *)

IterDef(iter, b, seq) ==
  [s \in SUBSET DOMAIN seq |->
     IF s = {} THEN b ELSE Op(iter[s \ {Max(s)}], seq[Max(s)])]
Iter(b, seq)   == CHOOSE iter : iter = IterDef(iter, b, seq)
Folded(b, seq) == Iter(b, seq)[DOMAIN seq]

LEMMA FoldLeftIsFolded == \A b, seq : FoldLeft(Op, b, seq) = Folded(b, seq)
  BY Zenon DEF FoldLeft, MapThenFoldSet, Iter, IterDef, Folded

\* The greatest of a set of numbers.
LEMMA MaxIs ==
  ASSUME NEW s, NEW n \in s, s \subseteq Int, \A m \in s : m <= n
  PROVE  Max(s) = n
<1>. \A m \in s : (\A k \in s : m >= k) => m = n
  OBVIOUS
<1>. QED
  BY DEF Max

\* It exists.
LEMMA IterExists ==
  ASSUME NEW S, NEW seq \in Seq(S), NEW b
  PROVE  Iter(b, seq) = IterDef(Iter(b, seq), b, seq)
<1>. DEFINE Def(iter, n) ==
       [s \in SUBSET (1..n) |->
          IF s = {} THEN b ELSE Op(iter[s \ {Max(s)}], seq[Max(s)])]
     U == {n \in Nat : \E f : f = Def(f, n)}
<1>1. 0 \in U
  <2>1. [s \in SUBSET (1..0) |-> b] = Def([s \in SUBSET (1..0) |-> b], 0)
    OBVIOUS
  <2>. QED
    BY <2>1
<1>2. ASSUME NEW n \in Nat, n \in U
      PROVE  n + 1 \in U
  <2>1. PICK f : f = Def(f, n)
    BY <1>2
  <2>. DEFINE g == [s \in SUBSET (1..(n + 1)) |->
                      IF n + 1 \in s THEN Op(f[s \ {n + 1}], seq[n + 1]) ELSE f[s]]
  <2>2. ASSUME NEW s \in SUBSET (1..(n + 1))
        PROVE  g[s] = IF s = {} THEN b ELSE Op(g[s \ {Max(s)}], seq[Max(s)])
    <3>1. CASE n + 1 \in s
      <4>0. s \subseteq Int /\ \A m \in s : m <= n + 1
        OBVIOUS
      <4>1. Max(s) = n + 1
        BY <3>1, <4>0, MaxIs
      <4>2. s \ {n + 1} \in SUBSET (1..(n + 1)) /\ n + 1 \notin s \ {n + 1}
        OBVIOUS
      <4>3. g[s \ {n + 1}] = f[s \ {n + 1}]
        BY <4>2
      <4>4. g[s] = Op(f[s \ {n + 1}], seq[n + 1])
        BY <3>1
      <4>. HIDE DEF g
      <4>. QED
        BY <4>1, <4>3, <4>4, <3>1
    <3>2. CASE n + 1 \notin s
      <4>0. s \in SUBSET (1..n)
        BY <3>2
      <4>1. s \ {Max(s)} \in SUBSET (1..n)
        BY <4>0
      <4>2. f[s] = IF s = {} THEN b ELSE Op(f[s \ {Max(s)}], seq[Max(s)])
        BY <2>1, <4>0
      <4>3. g[s] = f[s]
        BY <3>2
      <4>4. s \ {Max(s)} \in SUBSET (1..(n + 1)) /\ n + 1 \notin s \ {Max(s)}
        BY <4>1
      <4>5. g[s \ {Max(s)}] = f[s \ {Max(s)}]
        BY <4>4
      <4>. HIDE DEF g
      <4>. QED
        BY <4>2, <4>3, <4>5
    <3>. QED
      BY <3>1, <3>2
  <2>3. g = Def(g, n + 1)
    <3>1. g = [s \in SUBSET (1..(n + 1)) |-> g[s]]
      OBVIOUS
    <3>. HIDE DEF g
    <3>. QED
      BY <3>1, <2>2
  <2>4. \E h : h = Def(h, n + 1)
    <3>. HIDE DEF g, Def
    <3>. QED
      BY <2>3
  <2>. HIDE DEF Def
  <2>. QED
    BY <2>4
<1>3. Len(seq) \in Nat /\ DOMAIN seq = 1..Len(seq)
  OBVIOUS
<1>4. Len(seq) \in U
  <2>. HIDE DEF U
  <2>. QED
    BY <1>1, <1>2, <1>3, SetInduction
<1>5. \E f : f = IterDef(f, b, seq)
  BY <1>3, <1>4 DEF IterDef
<1>. QED
  BY <1>5 DEF Iter

\* Its values on the sets that a fold goes through.
LEMMA IterSteps ==
  ASSUME NEW S, NEW seq \in Seq(S), NEW b
  PROVE  /\ Iter(b, seq)[{}] = b
         /\ \A k \in 0..(Len(seq) - 1) :
              Iter(b, seq)[1..(k + 1)] = Op(Iter(b, seq)[1..k], seq[k + 1])
<1>. DEFINE f == Iter(b, seq)
<1>1. f = IterDef(f, b, seq)
  BY IterExists
<1>. HIDE DEF f
<1>2. DOMAIN seq = 1..Len(seq) /\ Len(seq) \in Nat
  OBVIOUS
<1>3. \A s \in SUBSET (1..Len(seq)) :
        f[s] = IF s = {} THEN b ELSE Op(f[s \ {Max(s)}], seq[Max(s)])
  BY <1>1, <1>2 DEF IterDef
<1>4. f[{}] = b
  BY <1>3
<1>5. ASSUME NEW k \in 0..(Len(seq) - 1)
      PROVE  f[1..(k + 1)] = Op(f[1..k], seq[k + 1])
  <2>1. 1..(k + 1) \in SUBSET (1..Len(seq)) /\ k + 1 \in 1..(k + 1)
    BY <1>2
  <2>2. Max(1..(k + 1)) = k + 1
    <3>1. 1..(k + 1) \subseteq Int /\ \A m \in 1..(k + 1) : m <= k + 1
      OBVIOUS
    <3>. QED
      BY <2>1, <3>1, MaxIs
  <2>3. (1..(k + 1)) \ {k + 1} = 1..k
    BY <1>2
  <2>. QED
    BY <1>3, <2>1, <2>2, <2>3
<1>. QED
  BY <1>4, <1>5 DEF f

-----------------------------------------------------------------------------
(* The fold.                                                               *)

\* A fold over no elements is its start: an empty block leaves the accounts alone.
LEMMA FoldEmpty == ASSUME NEW b PROVE Folded(b, <<>>) = b
<1>1. <<>> \in Seq({}) /\ DOMAIN <<>> = {}
  OBVIOUS
<1>2. Iter(b, <<>>)[{}] = b
  BY <1>1, IterSteps
<1>. QED
  BY <1>1, <1>2 DEF Folded

\* Two folds of which one goes through what the other does from some place on.
LEMMA SameSteps ==
  ASSUME NEW S, NEW s \in Seq(S), NEW b,
         NEW t \in Seq(S)
  PROVE  \A m, n \in Nat :
           m + n <= Len(s) /\ n <= Len(t) /\ (\A i \in 1..n : s[m + i] = t[i])
             => Iter(b, s)[1..(m + n)] = Iter(Iter(b, s)[1..m], t)[1..n]
<1>. SUFFICES ASSUME NEW m \in Nat, NEW n \in Nat, m + n <= Len(s), n <= Len(t),
                     \A i \in 1..n : s[m + i] = t[i]
              PROVE  Iter(b, s)[1..(m + n)] = Iter(Iter(b, s)[1..m], t)[1..n]
  OBVIOUS
<1>. DEFINE c == Iter(b, s)[1..m]
<1>. HIDE DEF c
<1>. DEFINE U == {i \in 0..n : Iter(b, s)[1..(m + i)] = Iter(c, t)[1..i]}
<1>1. 0 \in U
  <2>. USE DEF c
  <2>1. 1..0 = {} /\ m + 0 = m /\ 0 \in 0..n
    OBVIOUS
  <2>2. Iter(c, t)[1..0] = c
    BY <2>1, IterSteps
  <2>. QED
    BY <2>1, <2>2
<1>2. ASSUME NEW i \in 0..n, i \in U, i < n
      PROVE  i + 1 \in U
  <2>1. m + i \in 0..(Len(s) - 1) /\ i \in 0..(Len(t) - 1)
    BY <1>2
  <2>2. Iter(b, s)[1..((m + i) + 1)] = Op(Iter(b, s)[1..(m + i)], s[(m + i) + 1])
    <3>1. \A l \in 0..(Len(s) - 1) : Iter(b, s)[1..(l + 1)] = Op(Iter(b, s)[1..l], s[l + 1])
      BY IterSteps
    <3>. QED
      BY <2>1, <3>1
  <2>3. Iter(c, t)[1..(i + 1)] = Op(Iter(c, t)[1..i], t[i + 1])
    BY <2>1, IterSteps
  <2>4. s[m + (i + 1)] = t[i + 1] /\ (m + i) + 1 = m + (i + 1) /\ i + 1 \in 0..n
    BY <1>2
  <2>. QED
    BY <1>2, <2>2, <2>3, <2>4
<1>3. n \in U
  <2>. HIDE DEF U
  <2>1. 0..n \subseteq U
    <3>1. n \in Nat
      OBVIOUS
    <3>. QED
      BY <1>1, <1>2, <3>1, BoundedInduction
  <2>. QED
    BY <2>1
<1>. QED
  BY <1>3 DEF c

\* A fold over s \o t goes on from the fold over s: executeBlock() on two blocks one
\* after the other does what it does on their transactions in one.
LEMMA FoldConcat ==
  ASSUME NEW S, NEW s \in Seq(S), NEW t \in Seq(S), NEW b
  PROVE  Folded(b, s \o t) = Folded(Folded(b, s), t)
<1>. DEFINE u == s \o t
<1>1. /\ u \in Seq(S) /\ Len(u) = Len(s) + Len(t)
      /\ \A i \in 1..Len(s) : u[i] = s[i]
      /\ \A i \in 1..Len(t) : u[Len(s) + i] = t[i]
  OBVIOUS
<1>. HIDE DEF u
<1>2. Iter(b, u)[1..0] = b
  <2>1. 1..0 = {}
    OBVIOUS
  <2>. QED
    BY <1>1, <2>1, IterSteps
<1>3. Iter(b, u)[1..Len(s)] = Folded(b, s)
  <2>1. Len(s) \in Nat /\ Len(s) = 0 + Len(s) /\ Len(s) <= Len(u)
    BY <1>1
  <2>2. \A i \in 1..Len(s) : u[0 + i] = s[i]
    BY <1>1
  <2>3. Iter(b, u)[1..Len(s)] = Iter(b, s)[1..Len(s)]
    <3>1. Iter(b, u)[1..(0 + Len(s))] = Iter(Iter(b, u)[1..0], s)[1..Len(s)]
      <4>1. \A m, n \in Nat :
              m + n <= Len(u) /\ n <= Len(s) /\ (\A i \in 1..n : u[m + i] = s[i])
                => Iter(b, u)[1..(m + n)] = Iter(Iter(b, u)[1..m], s)[1..n]
        BY <1>1, SameSteps
      <4>. QED
        BY <2>1, <2>2, <4>1
    <3>. QED
      BY <1>2, <2>1, <3>1
  <2>. QED
    BY <2>3 DEF Folded
<1>4. Iter(b, u)[1..Len(u)] = Iter(Folded(b, s), t)[1..Len(t)]
  <2>1. Len(s) \in Nat /\ Len(t) \in Nat /\ Len(u) \in Nat
    BY <1>1
  <2>2. \A m, n \in Nat :
          m + n <= Len(u) /\ n <= Len(t) /\ (\A i \in 1..n : u[m + i] = t[i])
            => Iter(b, u)[1..(m + n)] = Iter(Iter(b, u)[1..m], t)[1..n]
    <3>1. u \in Seq(S)
      BY <1>1
    <3>. QED
      BY <3>1, SameSteps
  <2>3. Iter(b, u)[1..(Len(s) + Len(t))]
          = Iter(Iter(b, u)[1..Len(s)], t)[1..Len(t)]
    <3>1. \A i \in 1..Len(t) : u[Len(s) + i] = t[i]
      BY <1>1
    <3>2. Len(s) + Len(t) <= Len(u) /\ Len(t) <= Len(t)
      BY <1>1, <2>1
    <3>. QED
      BY <2>1, <2>2, <3>1, <3>2, Zenon
  <2>. QED
    BY <1>1, <1>3, <2>3
<1>. QED
  BY <1>1, <1>4 DEF Folded, u

\* One element at a time.
LEMMA FoldOne ==
  ASSUME NEW x, NEW b
  PROVE  Folded(b, <<x>>) = Op(b, x)
<1>. DEFINE seq == <<x>>
<1>1. seq \in Seq({x}) /\ Len(seq) = 1 /\ seq[1] = x /\ DOMAIN seq = 1..1
  OBVIOUS
<1>2. 0 \in 0..(Len(seq) - 1) /\ 1..0 = {} /\ 0 + 1 = 1
  BY <1>1
<1>3. Iter(b, seq)[{}] = b /\ Iter(b, seq)[1..(0 + 1)] = Op(Iter(b, seq)[1..0], seq[0 + 1])
  <2>. HIDE DEF seq
  <2>1. \A l \in 0..(Len(seq) - 1) : Iter(b, seq)[1..(l + 1)] = Op(Iter(b, seq)[1..l], seq[l + 1])
    BY <1>1, IterSteps
  <2>2. Iter(b, seq)[{}] = b
    BY <1>1, IterSteps
  <2>. QED
    BY <1>2, <2>1, <2>2
<1>. QED
  BY <1>1, <1>2, <1>3 DEF Folded

\* A fold over one more element is one more step: the loop of executeBlock() after
\* one more transaction.
LEMMA FoldAppend ==
  ASSUME NEW S, NEW s \in Seq(S), NEW x \in S, NEW b
  PROVE  Folded(b, Append(s, x)) = Op(Folded(b, s), x)
<1>1. Append(s, x) = s \o <<x>> /\ <<x>> \in Seq(S)
  BY AppendIsConcat
<1>2. Folded(b, s \o <<x>>) = Folded(Folded(b, s), <<x>>)
  BY <1>1, FoldConcat
<1>. QED
  BY <1>1, <1>2, FoldOne

\* A fold is its first step and a fold over the rest: the writes of a transaction that
\* processTx() makes one at a time, from the first on.
LEMMA FoldHeadTail ==
  ASSUME NEW S, NEW s \in Seq(S), s # <<>>, NEW b
  PROVE  Folded(b, s) = Folded(Op(b, Head(s)), Tail(s))
<1>1. s = <<Head(s)>> \o Tail(s) /\ <<Head(s)>> \in Seq(S) /\ Tail(s) \in Seq(S)
  OBVIOUS
<1>2. Folded(b, <<Head(s)>> \o Tail(s)) = Folded(Folded(b, <<Head(s)>>), Tail(s))
  BY <1>1, FoldConcat
<1>. QED
  BY <1>1, <1>2, FoldOne

\* The result is where every step stays, so that what every write of an execution
\* preserves is preserved by the block.
LEMMA FoldType ==
  ASSUME NEW S, NEW s \in Seq(S), NEW A, NEW b \in A,
         \A a \in A, x \in S : Op(a, x) \in A
  PROVE  Folded(b, s) \in A
<1>. DEFINE U == {k \in 0..Len(s) : Iter(b, s)[1..k] \in A}
<1>1. 0 \in U
  <2>1. 1..0 = {} /\ 0 \in 0..Len(s)
    OBVIOUS
  <2>. QED
    BY <2>1, IterSteps
<1>2. ASSUME NEW k \in 0..Len(s), k \in U, k < Len(s)
      PROVE  k + 1 \in U
  <2>1. k \in 0..(Len(s) - 1) /\ k + 1 \in 0..Len(s) /\ s[k + 1] \in S
    BY <1>2
  <2>2. Iter(b, s)[1..(k + 1)] = Op(Iter(b, s)[1..k], s[k + 1])
    BY <2>1, IterSteps
  <2>. QED
    BY <1>2, <2>1, <2>2
<1>3. Len(s) \in U
  <2>. HIDE DEF U
  <2>1. Len(s) \in Nat
    OBVIOUS
  <2>2. 0..Len(s) \subseteq U
    BY <1>1, <1>2, <2>1, BoundedInduction
  <2>. QED
    BY <2>1, <2>2
<1>. QED
  BY <1>3 DEF Folded

=============================================================================
