----------------------------- MODULE DataLemmas -----------------------------
(***************************************************************************)
(* Induction over numbers and what follows from it about recursive         *)
(* functions and the community modules' operators.  The library's own      *)
(* induction theorems take the predicate as an operator, which the provers *)
(* cannot instantiate; here the predicate is a set of numbers.             *)
(***************************************************************************)
EXTENDS Integers, Sequences, SequencesExt, SequenceTheorems, WellFoundedInduction, TLAPS

(* A nonempty set of natural numbers has a least element. *)
LEMMA LeastElement ==
  ASSUME NEW T, T \subseteq Nat, T # {}
  PROVE  \E x \in T : \A y \in T : x =< y
<1> DEFINE R == OpToRel(<, Nat)
<1>1. IsWellFoundedOn(R, Nat)
  BY NatLessThanWellFounded
<1>2. \A x, y \in Nat : <<y, x>> \in R <=> y < x
  BY DEF OpToRel
<1> HIDE DEF R
<1>3. PICK x \in T : \A y \in T : ~(<<y, x>> \in R)
  BY <1>1, WFMin
<1>4. ASSUME NEW y \in T PROVE x =< y
  <2>1. x \in Nat /\ y \in Nat
    BY <1>3
  <2>2. ~(y < x)
    BY <1>2, <1>3, <2>1
  <2> QED BY <2>1, <2>2
<1> QED BY <1>4

(* A set that has zero, and with each number below n the next one, has all  *)
(* the numbers up to n.                                                     *)
LEMMA UpToN ==
  ASSUME NEW n \in Nat, NEW T, 0 \in T, \A i \in 0 .. n - 1 : i \in T => i + 1 \in T
  PROVE  0 .. n \subseteq T
<1> DEFINE Bad == (0 .. n) \ T
<1>1. SUFFICES ASSUME Bad # {} PROVE FALSE
  OBVIOUS
<1>2. PICK x \in Bad : \A y \in Bad : x =< y
  <2>1. Bad \subseteq Nat
    OBVIOUS
  <2> HIDE DEF Bad
  <2> QED BY <1>1, <2>1, LeastElement
<1>3. x # 0 /\ x - 1 \in 0 .. n - 1 /\ x - 1 \notin Bad
  BY <1>2
<1> QED BY <1>2, <1>3

(* A nonempty set of numbers from 0 to n has a greatest element. *)
LEMMA GreatestElement ==
  ASSUME NEW n \in Nat, NEW T, T \subseteq 0 .. n, T # {}
  PROVE  \E x \in T : \A y \in T : y =< x
<1> DEFINE U == {i \in 0 .. n : n - i \in T}
<1>1. U \subseteq Nat /\ U # {}
  <2>1. PICK y : y \in T
    OBVIOUS
  <2>2. n - y \in U
    BY <2>1
  <2> QED BY <2>2
<1>2. PICK i \in U : \A j \in U : i =< j
  <2> HIDE DEF U
  <2> QED BY <1>1, LeastElement
<1>3. ASSUME NEW y \in T PROVE y =< n - i
  <2>1. n - y \in U
    OBVIOUS
  <2> QED BY <1>2, <2>1
<1> QED BY <1>2, <1>3

(* What Max chooses. *)
LEMMA MaxUpTo ==
  ASSUME NEW n \in Nat, NEW T, T \subseteq 0 .. n, T # {}
  PROVE  Max(T) \in T /\ \A y \in T : y =< Max(T)
<1>1. \E x \in T : \A y \in T : x >= y
  BY GreatestElement
<1> QED BY <1>1 DEF Max

(* F[i] takes a value to the next one, and f lists the values from v0 on.   *)
StepsIn(F, n, V) == F \in [1 .. n -> [V -> V]]
Follows(f, n, v0, F) == f[0] = v0 /\ \A i \in 1 .. n : f[i] = F[i][f[i - 1]]

(* A recursion over the numbers up to n defines a function. *)
LEMMA Recursion ==
  ASSUME NEW n \in Nat, NEW V, NEW v0 \in V, NEW F, StepsIn(F, n, V)
  PROVE  \E f \in [0 .. n -> V] : Follows(f, n, v0, F)
<1> DEFINE Good(m, f) == f \in [0 .. m -> V] /\ Follows(f, m, v0, F)
           T == {m \in 0 .. n : \E f \in [0 .. m -> V] : Good(m, f)}
<1> USE DEF StepsIn, Follows
<1>1. 0 \in T
  <2> DEFINE g == [i \in 0 .. 0 |-> v0]
  <2>1. g \in [0 .. 0 -> V] /\ Good(0, g)
    OBVIOUS
  <2> HIDE DEF g, Good
  <2> QED BY <2>1
<1>2. \A m \in 0 .. n - 1 : m \in T => m + 1 \in T
  <2> SUFFICES ASSUME NEW m \in 0 .. n - 1, m \in T PROVE m + 1 \in T
    OBVIOUS
  <2>1. PICK f : Good(m, f)
    OBVIOUS
  <2> DEFINE g == [i \in 0 .. m + 1 |-> IF i = m + 1 THEN F[m + 1][f[m]] ELSE f[i]]
  <2>2. Good(m + 1, g)
    BY <2>1
  <2>3. m + 1 \in 0 .. n /\ g \in [0 .. m + 1 -> V]
    BY <2>2
  <2> HIDE DEF g, Good
  <2> QED BY <2>2, <2>3
<1>3. 0 .. n \subseteq T
  <2> HIDE DEF T
  <2> QED BY <1>1, <1>2, UpToN
<1> QED BY <1>3

(* Two recursions that start alike and go on alike are the same. *)
LEMMA SameRecursion ==
  ASSUME NEW n \in Nat, NEW f, NEW g, f[0] = g[0],
         \A i \in 1 .. n : f[i - 1] = g[i - 1] => f[i] = g[i]
  PROVE  \A i \in 0 .. n : f[i] = g[i]
<1> DEFINE T == {i \in 0 .. n : f[i] = g[i]}
<1>1. 0 \in T
  OBVIOUS
<1>2. \A i \in 0 .. n - 1 : i \in T => i + 1 \in T
  OBVIOUS
<1>3. 0 .. n \subseteq T
  <2> HIDE DEF T
  <2> QED BY <1>1, <1>2, UpToN
<1> QED BY <1>3

(* The pieces of a flattened sequence, one after the other. *)
LEMMA FlattenSteps ==
  ASSUME NEW S, NEW s \in Seq(Seq(S))
  PROVE  \E f \in [0 .. Len(s) -> Seq(S)] :
           /\ f[0] = <<>> /\ \A i \in 1 .. Len(s) : f[i] = f[i - 1] \o s[i]
           /\ FlattenSeq(s) = f[Len(s)]
<1> DEFINE F == [i \in 1 .. Len(s) |-> [v \in Seq(S) |-> v \o s[i]]]
           Def(g) == g = [i \in 1 .. Len(s) |-> IF i = 1 THEN s[i] ELSE g[i - 1] \o s[i]]
           flatten == CHOOSE g : Def(g)
<1>0. PICK n \in Nat : n = Len(s)
  OBVIOUS
<1>1. \A i \in 1 .. n : s[i] \in Seq(S)
  BY <1>0
<1>2. PICK f \in [0 .. n -> Seq(S)] : Follows(f, n, <<>>, F)
  <2>1. \A i \in 1 .. n, v \in Seq(S) : v \o s[i] \in Seq(S)
    BY <1>1, ConcatProperties
  <2>2. StepsIn(F, n, Seq(S)) /\ <<>> \in Seq(S)
    BY <1>0, <2>1 DEF StepsIn
  <2> HIDE DEF F
  <2> QED BY <2>2, Recursion
<1>3. f[0] = <<>> /\ \A i \in 1 .. n : f[i - 1] \in Seq(S) /\ f[i] = f[i - 1] \o s[i]
  <2>1. f[0] = <<>> /\ \A i \in 1 .. n : f[i] = F[i][f[i - 1]]
    BY <1>2 DEF Follows
  <2>2. \A i \in 1 .. n : f[i - 1] \in Seq(S)
    <3>1. \A j \in 0 .. n : f[j] \in Seq(S)
      BY <1>2
    <3>2. \A i \in 1 .. n : i - 1 \in 0 .. n
      OBVIOUS
    <3> QED BY <3>1, <3>2
  <2>3. \A i \in 1 .. n, v \in Seq(S) : F[i][v] = v \o s[i]
    BY <1>0
  <2> HIDE DEF F
  <2> QED BY <2>1, <2>2, <2>3
<1>4. n > 0 => f[1] = s[1]
  <2> SUFFICES ASSUME n > 0 PROVE f[1] = s[1]
    OBVIOUS
  <2>1. f[1] = <<>> \o s[1] /\ s[1] \in Seq(S)
    <3>1. 1 \in 1 .. n /\ 1 - 1 = 0
      OBVIOUS
    <3> QED BY <1>1, <1>3, <3>1
  <2> QED BY <2>1, ConcatEmptySeq
<1> HIDE DEF F
<1>5. Def(flatten)
  <2> DEFINE g == [i \in 1 .. n |-> f[i]]
  <2>1. ASSUME NEW i \in 1 .. n PROVE f[i] = IF i = 1 THEN s[i] ELSE g[i - 1] \o s[i]
    <3>1. CASE i = 1
      BY <1>4, <3>1
    <3>2. CASE i # 1
      <4>1. i - 1 \in 1 .. n
        BY <3>2
      <4>2. g[i - 1] = f[i - 1]
        BY <4>1
      <4> HIDE DEF g
      <4> QED BY <1>3, <3>2, <4>2
    <3> QED BY <3>1, <3>2
  <2>2. g = [i \in 1 .. n |-> IF i = 1 THEN s[i] ELSE g[i - 1] \o s[i]]
    BY <2>1
  <2>3. Def(g)
    <3> HIDE DEF g
    <3> QED BY <1>0, <2>2
  <2> HIDE DEF Def, g
  <2> QED BY <2>3
<1>6. \A i \in 1 .. n : flatten[i] = IF i = 1 THEN s[i] ELSE flatten[i - 1] \o s[i]
  BY <1>0, <1>5
<1> HIDE DEF flatten
<1>7. \A i \in 0 .. n : i = 0 \/ flatten[i] = f[i]
  <2> DEFINE T == {i \in 0 .. n : i = 0 \/ flatten[i] = f[i]}
  <2>1. 0 \in T
    OBVIOUS
  <2>2. \A i \in 0 .. n - 1 : i \in T => i + 1 \in T
    <3> SUFFICES ASSUME NEW i \in 0 .. n - 1, i \in T PROVE i + 1 \in T
      OBVIOUS
    <3>1. CASE i = 0
      BY <1>4, <1>6, <3>1
    <3>2. CASE i # 0
      <4>1. i + 1 \in 1 .. n /\ (i + 1) - 1 = i /\ i + 1 # 1 /\ flatten[i] = f[i]
        BY <3>2
      <4>2. flatten[i + 1] = flatten[i] \o s[i + 1] /\ f[i + 1] = f[i] \o s[i + 1]
        BY <1>3, <1>6, <4>1
      <4>3. i + 1 \in 0 .. n /\ flatten[i + 1] = f[i + 1]
        BY <4>1, <4>2
      <4> HIDE DEF T
      <4> QED BY <4>3 DEF T
    <3> QED BY <3>1, <3>2
  <2>3. 0 .. n \subseteq T
    <3> HIDE DEF T
    <3> QED BY <2>1, <2>2, UpToN
  <2> QED BY <2>3
<1>8. FlattenSeq(s) = f[n]
  <2>1. CASE n = 0
    <3>1. s = <<>>
      BY <1>0, <2>1, EmptySeq
    <3> QED BY <1>0, <1>3, <2>1, <3>1 DEF FlattenSeq
  <2>2. CASE n # 0
    <3>1. FlattenSeq(s) = flatten[n]
      BY <1>0, <2>2 DEF FlattenSeq, flatten
    <3> QED BY <1>7, <2>2, <3>1
  <2> QED BY <2>1, <2>2
<1> QED BY <1>0, <1>3, <1>8

(* f adds the pieces one after the other; each result begins the last one.  *)
Pieces(f, n, s) == f[0] = <<>> /\ \A i \in 1 .. n : f[i] = f[i - 1] \o s[i]
Grown(f, n) == \A i \in 0 .. n : /\ Len(f[i]) =< Len(f[n])
                                    /\ \A j \in 1 .. Len(f[i]) : f[n][j] = f[i][j]

(* What a flattened sequence begins with. *)
LEMMA FlattenPrefix ==
  ASSUME NEW S, NEW n \in Nat, NEW f \in [0 .. n -> Seq(S)], NEW s \in Seq(Seq(S)),
         n = Len(s), Pieces(f, n, s)
  PROVE  Grown(f, n)
<1>0. \A i \in 1 .. n : s[i] \in Seq(S) /\ f[i] = f[i - 1] \o s[i]
  BY ElementOfSeq DEF Pieces
<1> DEFINE Prefix(i) == Len(f[i]) =< Len(f[n]) /\ \A j \in 1 .. Len(f[i]) : f[n][j] = f[i][j]
           T == {k \in 0 .. n : Prefix(n - k)}
<1>1. 0 \in T
  <2>1. Len(f[n]) \in Nat /\ n - 0 = n
    BY LenProperties
  <2> QED BY <2>1
<1>2. ASSUME NEW i \in 1 .. n, Prefix(i) PROVE Prefix(i - 1)
  <2>1. PICK u \in Seq(S), v \in Seq(S) : f[i - 1] = u /\ s[i] = v /\ f[i] = u \o v
    <3> HIDE DEF Prefix
    <3>1. i - 1 \in 0 .. n
      OBVIOUS
    <3>2. f[i - 1] \in Seq(S)
      BY <3>1
    <3>3. s[i] \in Seq(S) /\ f[i] = f[i - 1] \o s[i]
      BY <1>0
    <3> QED BY <3>2, <3>3
  <2>2. PICK w \in Seq(S) : w = f[n]
    <3> HIDE DEF Prefix
    <3>1. n \in 0 .. n
      OBVIOUS
    <3> QED BY <3>1
  <2>3. /\ Len(u \o v) = Len(u) + Len(v)
        /\ \A j \in 1 .. Len(u) + Len(v) :
             (u \o v)[j] = IF j =< Len(u) THEN u[j] ELSE v[j - Len(u)]
    BY ConcatProperties
  <2>4. Len(u) \in Nat /\ Len(v) \in Nat /\ Len(w) \in Nat
    BY LenProperties
  <2>5. Len(u \o v) =< Len(w) /\ \A j \in 1 .. Len(u \o v) : w[j] = (u \o v)[j]
    BY <1>2, <2>1, <2>2
  <2>6. Len(u) =< Len(w) /\ \A j \in 1 .. Len(u) : w[j] = u[j]
    <3>1. \A j \in 1 .. Len(u) : j \in 1 .. Len(u) + Len(v) /\ (u \o v)[j] = u[j]
      BY <2>3, <2>4
    <3> QED BY <2>3, <2>4, <2>5, <3>1
  <2> QED BY <2>1, <2>2, <2>6
<1> HIDE DEF Prefix
<1>4. \A k \in 0 .. n - 1 : k \in T => k + 1 \in T
  <2> SUFFICES ASSUME NEW k \in 0 .. n - 1, Prefix(n - k) PROVE Prefix(n - (k + 1))
    OBVIOUS
  <2>1. n - k \in 1 .. n /\ (n - k) - 1 = n - (k + 1)
    OBVIOUS
  <2> QED BY <1>2, <2>1
<1>3. 0 .. n \subseteq T
  <2> HIDE DEF T
  <2> QED BY <1>1, <1>4, UpToN
<1> SUFFICES ASSUME NEW i \in 0 .. n PROVE Prefix(i)
  BY DEF Prefix, Grown
<1>5. n - i \in T /\ n - (n - i) = i
  <2>1. n - i \in 0 .. n /\ n - (n - i) = i
    OBVIOUS
  <2> HIDE DEF T
  <2> QED BY <1>3, <2>1
<1> QED BY <1>5

(* The two together. *)
LEMMA FlattenPieces ==
  ASSUME NEW S, NEW n \in Nat, NEW s \in Seq(Seq(S)), n = Len(s)
  PROVE  \E f \in [0 .. n -> Seq(S)] : FlattenSeq(s) = f[n] /\ Pieces(f, n, s) /\ Grown(f, n)
<1>1. PICK f \in [0 .. n -> Seq(S)] : FlattenSeq(s) = f[n] /\ Pieces(f, n, s)
  BY FlattenSteps DEF Pieces
<1> QED BY <1>1, FlattenPrefix

(* One more piece comes last. *)
LEMMA FlattenAppend ==
  ASSUME NEW S, NEW s \in Seq(Seq(S)), NEW x \in Seq(S)
  PROVE  FlattenSeq(s) \in Seq(S) /\ FlattenSeq(Append(s, x)) = FlattenSeq(s) \o x
<1>1. PICK n \in Nat : n = Len(s)
  BY LenProperties
<1>2. PICK t \in Seq(Seq(S)) : t = Append(s, x)
  BY AppendProperties
<1>3. Len(t) = n + 1 /\ (\A i \in 1 .. n : t[i] = s[i]) /\ t[n + 1] = x
  BY <1>1, <1>2, AppendProperties
<1>4. PICK f \in [0 .. n -> Seq(S)] :
        FlattenSeq(s) = f[n] /\ f[0] = <<>> /\ \A i \in 1 .. n : f[i] = f[i - 1] \o s[i]
  BY <1>1, FlattenSteps
<1>5. PICK g \in [0 .. n + 1 -> Seq(S)] :
        FlattenSeq(t) = g[n + 1] /\ g[0] = <<>> /\ \A i \in 1 .. n + 1 : g[i] = g[i - 1] \o t[i]
  <2>1. PICK g \in [0 .. Len(t) -> Seq(S)] :
          /\ FlattenSeq(t) = g[Len(t)] /\ g[0] = <<>>
          /\ \A i \in 1 .. Len(t) : g[i] = g[i - 1] \o t[i]
    BY FlattenSteps
  <2> QED BY <1>3, <2>1
<1> DEFINE T == {i \in 0 .. n : f[i] = g[i]}
<1>6. 0 \in T
  BY <1>4, <1>5
<1>7. \A i \in 0 .. n - 1 : i \in T => i + 1 \in T
  <2> SUFFICES ASSUME NEW i \in 0 .. n - 1, i \in T PROVE i + 1 \in T
    OBVIOUS
  <2>1. f[i] = g[i]
    OBVIOUS
  <2>2. i + 1 \in 1 .. n /\ i + 1 \in 1 .. n + 1 /\ (i + 1) - 1 = i /\ i + 1 \in 0 .. n
    OBVIOUS
  <2>3. f[i + 1] = g[i + 1]
    <3> HIDE DEF T
    <3> QED BY <1>3, <1>4, <1>5, <2>1, <2>2
  <2> QED BY <2>2, <2>3
<1>8. 0 .. n \subseteq T
  <2> HIDE DEF T
  <2> QED BY <1>6, <1>7, UpToN
<1>9. n \in 0 .. n /\ n + 1 \in 1 .. n + 1 /\ (n + 1) - 1 = n
  OBVIOUS
<1>10. f[n] = g[n] /\ f[n] \in Seq(S)
  BY <1>8, <1>9
<1>11. g[n + 1] = g[n] \o t[n + 1]
  BY <1>5, <1>9
<1> QED BY <1>2, <1>3, <1>4, <1>5, <1>10, <1>11

(* Two pieces of one element. *)
LEMMA Pair ==
  ASSUME NEW a, NEW b
  PROVE  <<a>> \o <<b>> = <<a, b>>
<1>1. <<a>> \in Seq({a, b}) /\ <<b>> \in Seq({a, b}) /\ <<a, b>> \in Seq({a, b})
  OBVIOUS
<1>2. Len(<<a>>) = 1 /\ Len(<<b>>) = 1 /\ Len(<<a, b>>) = 2
  OBVIOUS
<1>3. /\ <<a>> \o <<b>> \in Seq({a, b}) /\ Len(<<a>> \o <<b>>) = Len(<<a>>) + Len(<<b>>)
      /\ \A i \in 1 .. Len(<<a>>) + Len(<<b>>) :
           (<<a>> \o <<b>>)[i] = IF i =< Len(<<a>>) THEN <<a>>[i] ELSE <<b>>[i - Len(<<a>>)]
  BY <1>1, ConcatProperties
<1>4. \A i \in 1 .. 2 : (<<a>> \o <<b>>)[i] = <<a, b>>[i]
  <2>1. (<<a>> \o <<b>>)[1] = a /\ (<<a>> \o <<b>>)[2] = b
    BY <1>2, <1>3
  <2>2. <<a, b>>[1] = a /\ <<a, b>>[2] = b
    OBVIOUS
  <2>3. \A i \in 1 .. 2 : i = 1 \/ i = 2
    OBVIOUS
  <2> QED BY <2>1, <2>2, <2>3
<1>5. PICK s \in Seq({a, b}) : s = <<a>> \o <<b>>
  BY <1>3
<1>6. PICK t \in Seq({a, b}) : t = <<a, b>>
  BY <1>1
<1>7. Len(s) = Len(t) /\ \A i \in 1 .. Len(s) : s[i] = t[i]
  <2>1. Len(s) = 2 /\ Len(t) = 2
    BY <1>2, <1>3, <1>5, <1>6
  <2>2. \A i \in 1 .. 2 : s[i] = t[i]
    BY <1>4, <1>5, <1>6
  <2> QED BY <2>1, <2>2
<1>8. s = t
  BY <1>7, SeqEqual
<1> QED BY <1>5, <1>6, <1>8
=============================================================================
