-------------------------- MODULE CollectionProofs --------------------------
(***************************************************************************)
(* Lemmas about sequences, selections and sums for the proofs of the        *)
(* components.  The installed provers cannot apply the library's theorems   *)
(* on induction, which take an operator: here induction is about a set.    *)
(***************************************************************************)
EXTENDS Selection, Integers, FiniteSetsExt, FiniteSetTheorems, SequenceTheorems,
        NaturalsInduction, WellFoundedInduction, TLAPS

(***************************************************************************)
(* Induction, and the items of a sequence that are in a set.               *)
(***************************************************************************)
\* Induction over the natural numbers, for a set.
LEMMA Induction ==
  ASSUME NEW S, 0 \in S, \A n \in Nat : n \in S => n + 1 \in S
  PROVE Nat \subseteq S
  <1> DEFINE T == Nat \ S
  <1> SUFFICES ASSUME T # {} PROVE FALSE
    BY DEF T
  <1> DEFINE R == OpToRel(<, Nat)
  <1>1. IsWellFoundedOn(R, Nat)
    BY NatLessThanWellFounded
  <1>2. PICK m \in T : \A n \in T : ~(<<n, m>> \in R)
    <2>1. T \subseteq Nat
      OBVIOUS
    <2> HIDE DEF R, T
    <2> QED
     BY <1>1, <2>1, WFMin
  <1>3. m \in Nat /\ m # 0
    OBVIOUS
  <1>4. m - 1 \in Nat /\ m - 1 \notin S
    BY <1>3
  <1>5. <<m - 1, m>> \in R
    BY <1>3, <1>4 DEF OpToRel
  <1> QED
    BY <1>2, <1>4, <1>5

\* The function that Select is defined with.
TakenFrom(s, S, f, m) ==
  f = [n \in 0..m |-> IF n = 0 THEN <<>>
                      ELSE IF s[n] \in S THEN Append(f[n - 1], s[n]) ELSE f[n - 1]]

\* Recursion over the places of a sequence defines a function, by induction.
LEMMA TakenExists ==
  ASSUME NEW s, NEW S, NEW m \in Nat
  PROVE \E f : TakenFrom(s, S, f, m)
  <1> DEFINE good == {k \in Nat : \E f : TakenFrom(s, S, f, k)}
  <1>1. 0 \in good
    <2> DEFINE f == [n \in 0..0 |-> <<>>]
    <2>1. TakenFrom(s, S, f, 0)
      BY DEF TakenFrom
    <2> QED
      BY <2>1
  <1>2. ASSUME NEW k \in Nat, k \in good PROVE k + 1 \in good
    <2>1. PICK f : TakenFrom(s, S, f, k)
      BY <1>2
    <2> DEFINE g == [n \in 0..k + 1 |->
                 IF n = k + 1 THEN IF s[n] \in S THEN Append(f[k], s[n]) ELSE f[k] ELSE f[n]]
    <2> DEFINE h == [n \in 0..k + 1 |-> IF n = 0 THEN <<>>
                      ELSE IF s[n] \in S THEN Append(g[n - 1], s[n]) ELSE g[n - 1]]
    <2>2. ASSUME NEW n \in 0..k + 1 PROVE g[n] = h[n]
      <3>1. CASE n = 0
        BY <2>1, <3>1 DEF TakenFrom
      <3>2. CASE n = k + 1
        BY <3>2
      <3>3. CASE n \in 1..k
        <4>1. n - 1 \in 0..k /\ n \in 0..k /\ n # 0 /\ n # k + 1 /\ n - 1 # k + 1
          BY <3>3
        <4>2. f[n] = IF s[n] \in S THEN Append(f[n - 1], s[n]) ELSE f[n - 1]
          BY <2>1, <4>1 DEF TakenFrom
        <4>3. g[n] = f[n] /\ g[n - 1] = f[n - 1]
          BY <4>1
        <4> HIDE DEF g
        <4> QED
          BY <4>1, <4>2, <4>3
      <3> QED
        BY <3>1, <3>2, <3>3
    <2>3. g = h
      <3> HIDE DEF g
      <3>1. g = [n \in 0..k + 1 |-> g[n]]
        BY DEF g
      <3> QED
        BY <2>2, <3>1
    <2>4. TakenFrom(s, S, g, k + 1)
      <3> HIDE DEF g
      <3> QED
        BY <2>3 DEF TakenFrom
    <2> HIDE DEF g, h
    <2> QED
      BY <2>4
  <1> HIDE DEF good
  <1>3. Nat \subseteq good
    BY <1>1, <1>2, Induction
  <1> QED
    BY <1>3 DEF good

\* Two such functions agree as far as the sequences do.
LEMMA TakenAlike ==
  ASSUME NEW s, NEW t, NEW S, NEW f, NEW g, NEW m \in Nat, NEW k \in Nat, m <= k,
         \A n \in 1..m : s[n] = t[n],
         TakenFrom(s, S, f, m), TakenFrom(t, S, g, k)
  PROVE f[m] = g[m]
  <1> DEFINE good == {n \in Nat : n <= m => f[n] = g[n]}
  <1>1. 0 \in good
    BY DEF TakenFrom
  <1>2. ASSUME NEW n \in Nat, n \in good PROVE n + 1 \in good
    <2> SUFFICES ASSUME n + 1 <= m PROVE f[n + 1] = g[n + 1]
      OBVIOUS
    <2>1. n + 1 \in 0..m /\ n + 1 \in 0..k /\ n + 1 # 0 /\ (n + 1) - 1 = n /\ n + 1 \in 1..m
      OBVIOUS
    <2>2. f[n + 1] = IF s[n + 1] \in S THEN Append(f[n], s[n + 1]) ELSE f[n]
      BY <2>1 DEF TakenFrom
    <2>3. g[n + 1] = IF t[n + 1] \in S THEN Append(g[n], t[n + 1]) ELSE g[n]
      BY <2>1 DEF TakenFrom
    <2>4. f[n] = g[n]
      BY <1>2
    <2> QED
      BY <2>1, <2>2, <2>3, <2>4
  <1> HIDE DEF good
  <1>3. Nat \subseteq good
    BY <1>1, <1>2, Induction
  <1> QED
    BY <1>3 DEF good

\* Select is the last value of such a function.
LEMMA SelectTaken ==
  ASSUME NEW s, NEW S, Len(s) \in Nat
  PROVE \E f : TakenFrom(s, S, f, Len(s)) /\ Select(s, S) = f[Len(s)]
  <1> DEFINE f == CHOOSE f : TakenFrom(s, S, f, Len(s))
  <1>1. TakenFrom(s, S, f, Len(s))
    BY TakenExists
  <1>2. Select(s, S) = f[Len(s)]
    BY DEF Select, TakenFrom
  <1> QED
    BY <1>1, <1>2

\* Nothing is selected from an empty sequence.
LEMMA SelectEmpty == ASSUME NEW S PROVE Select(<<>>, S) = <<>>
  <1>1. Len(<<>>) = 0
    OBVIOUS
  <1>2. PICK f : TakenFrom(<<>>, S, f, 0) /\ Select(<<>>, S) = f[0]
    BY <1>1, SelectTaken
  <1> QED
    BY <1>2 DEF TakenFrom

\* Selecting from a sequence with one more item.
LEMMA SelectAppend ==
  ASSUME NEW T, NEW S, NEW s \in Seq(T), NEW x \in T
  PROVE Select(Append(s, x), S) = IF x \in S THEN Append(Select(s, S), x) ELSE Select(s, S)
  <1> DEFINE t == Append(s, x)
  <1>1. /\ Len(s) \in Nat /\ Len(t) = Len(s) + 1 /\ Len(t) \in Nat
        /\ t[Len(s) + 1] = x /\ \A n \in 1..Len(s) : s[n] = t[n]
    OBVIOUS
  <1> HIDE DEF t
  <1>2. PICK f : TakenFrom(s, S, f, Len(s)) /\ Select(s, S) = f[Len(s)]
    BY <1>1, SelectTaken
  <1>3. PICK g : TakenFrom(t, S, g, Len(s) + 1) /\ Select(t, S) = g[Len(s) + 1]
    <2>1. PICK g : TakenFrom(t, S, g, Len(t)) /\ Select(t, S) = g[Len(t)]
      BY <1>1, SelectTaken
    <2> QED
      BY <1>1, <2>1
  <1>4. f[Len(s)] = g[Len(s)]
    <2>1. Len(s) + 1 \in Nat /\ Len(s) <= Len(s) + 1
      BY <1>1
    <2> HIDE <1>1
    <2>2. Len(s) \in Nat /\ \A n \in 1..Len(s) : s[n] = t[n]
      BY <1>1
    <2> QED
      BY <1>2, <1>3, <2>1, <2>2, TakenAlike
  <1>5. g[Len(s) + 1] = IF x \in S THEN Append(g[Len(s)], x) ELSE g[Len(s)]
    <2>1. Len(s) + 1 \in 0..Len(s) + 1 /\ Len(s) + 1 # 0 /\ (Len(s) + 1) - 1 = Len(s)
      BY <1>1
    <2> QED
      BY <1>1, <1>3, <2>1 DEF TakenFrom
  <1> QED
    BY <1>2, <1>3, <1>4, <1>5 DEF t

\* Induction over sequences.
LEMMA SequencesByAppend ==
  ASSUME NEW T, NEW G, <<>> \in G,
         \A s \in Seq(T), x \in T : s \in G => Append(s, x) \in G
  PROVE Seq(T) \subseteq G
  <1> DEFINE good == {n \in Nat : \A s \in Seq(T) : Len(s) = n => s \in G}
  <1>1. 0 \in good
    BY EmptySeq
  <1>2. ASSUME NEW n \in Nat, n \in good PROVE n + 1 \in good
    <2> SUFFICES ASSUME NEW s \in Seq(T), Len(s) = n + 1 PROVE s \in G
      OBVIOUS
    <2>1. s # <<>>
      OBVIOUS
    <2>2. PICK t \in Seq(T), x \in T : s = Append(t, x)
      BY <2>1, SequenceEmptyOrAppend
    <2>3. Len(t) = n
      BY <2>2
    <2> QED
      BY <1>2, <2>2, <2>3
  <1> HIDE DEF good
  <1>3. Nat \subseteq good
    BY <1>1, <1>2, Induction
  <1> QED
    BY <1>3 DEF good

\* Where the items of t are in s: at rising places, up to a last one.
Rising(at, t, s) ==
  /\ at \in [1..Len(t) -> 1..Len(s)]
  /\ \A i \in 1..Len(t) : t[i] = s[at[i]]
  /\ \A i, j \in 1..Len(t) : i < j => at[i] < at[j]

\* What is selected: the items of the sequence that are in the set, in its order.
LEMMA SelectType ==
  ASSUME NEW T, NEW S, NEW s \in Seq(T)
  PROVE /\ Select(s, S) \in Seq(T)
        /\ \E at : Rising(at, Select(s, S), s)
        /\ Elements(Select(s, S)) = Elements(s) \cap S
  <1> DEFINE G == {t \in Seq(T) : /\ Select(t, S) \in Seq(T)
                                  /\ \E at : Rising(at, Select(t, S), t)
                                  /\ Elements(Select(t, S)) = Elements(t) \cap S}
  <1>1. <<>> \in G
    <2>1. Select(<<>>, S) = <<>>
      BY SelectEmpty
    <2>2. Rising(<<>>, <<>>, <<>>)
      BY DEF Rising
    <2>3. Elements(<<>>) = {} /\ <<>> \in Seq(T)
      BY DEF Elements
    <2> QED
      BY <2>1, <2>2, <2>3
  <1>2. ASSUME NEW t \in Seq(T), NEW x \in T, t \in G PROVE Append(t, x) \in G
    <2> DEFINE u == Append(t, x)
    <2> DEFINE r == Select(t, S)
    <2> DEFINE q == Select(u, S)
    <2>1. PICK at : Rising(at, r, t)
      BY <1>2
    <2>2. r \in Seq(T) /\ Elements(r) = Elements(t) \cap S
      BY <1>2
    <2>3. q = IF x \in S THEN Append(r, x) ELSE r
      BY SelectAppend
    <2>4. /\ u \in Seq(T) /\ Len(t) \in Nat /\ Len(u) = Len(t) + 1 /\ u[Len(u)] = x
          /\ \A i \in 1..Len(t) : u[i] = t[i]
      OBVIOUS
    <2> HIDE DEF u, r, q
    <2>5. Elements(u) = Elements(t) \cup {x}
      <3>1. DOMAIN u = (1..Len(t)) \cup {Len(u)} /\ DOMAIN t = 1..Len(t)
        BY <2>4
      <3> QED
        BY <2>4, <3>1 DEF Elements
    <2>6. CASE x \in S
      <3>1. /\ q \in Seq(T) /\ Len(r) \in Nat /\ Len(q) = Len(r) + 1 /\ q[Len(q)] = x
            /\ \A i \in 1..Len(r) : q[i] = r[i]
        BY <2>2, <2>3, <2>6
      <3>2. Elements(q) = Elements(r) \cup {x}
        <4>1. DOMAIN q = (1..Len(r)) \cup {Len(q)} /\ DOMAIN r = 1..Len(r)
          BY <2>2, <3>1
        <4> QED
          BY <3>1, <4>1 DEF Elements
      <3> DEFINE bt == [i \in 1..Len(q) |-> IF i = Len(q) THEN Len(u) ELSE at[i]]
      <3>3. at \in [1..Len(r) -> 1..Len(t)]
        BY <2>1 DEF Rising
      <3>4. bt \in [1..Len(q) -> 1..Len(u)]
        <4> SUFFICES ASSUME NEW i \in 1..Len(q)
                     PROVE (IF i = Len(q) THEN Len(u) ELSE at[i]) \in 1..Len(u)
          OBVIOUS
        <4>1. CASE i = Len(q)
          BY <2>4, <4>1
        <4>2. CASE i # Len(q)
          <5>1. i \in 1..Len(r)
            BY <3>1, <4>2
          <5> QED
            BY <2>4, <3>3, <4>2, <5>1
        <4> QED
          BY <4>1, <4>2
      <3>5. \A i \in 1..Len(r) : bt[i] = at[i] /\ at[i] \in 1..Len(t)
        <4>1. \A i \in 1..Len(r) : i \in 1..Len(q) /\ i # Len(q)
          BY <3>1
        <4> QED
          BY <3>3, <4>1
      <3>6. bt[Len(q)] = Len(u)
        BY <3>1
      <3>7. \A i \in 1..Len(q) : i = Len(q) \/ i \in 1..Len(r)
        BY <3>1
      <3> HIDE DEF bt
      <3>8. \A i \in 1..Len(q) : q[i] = u[bt[i]]
        BY <2>1, <2>4, <3>1, <3>5, <3>6, <3>7 DEF Rising
      <3>9. ASSUME NEW i \in 1..Len(q), NEW j \in 1..Len(q), i < j PROVE bt[i] < bt[j]
        <4>1. i \in 1..Len(r)
          BY <3>1, <3>7, <3>9
        <4>2. CASE j \in 1..Len(r)
          BY <2>1, <3>5, <3>9, <4>1, <4>2 DEF Rising
        <4>3. CASE j = Len(q)
          BY <2>4, <3>5, <3>6, <4>1, <4>3
        <4> QED
          BY <3>7, <4>2, <4>3
      <3>10. Rising(bt, q, u)
        BY <3>4, <3>8, <3>9 DEF Rising
      <3> QED
        BY <2>2, <2>4, <2>5, <2>6, <3>1, <3>2, <3>10 DEF u, q
    <2>7. CASE x \notin S
      <3>1. Rising(at, q, u)
        <4>1. q = r
          BY <2>3, <2>7
        <4>2. at \in [1..Len(q) -> 1..Len(u)]
          BY <2>1, <2>4, <4>1 DEF Rising
        <4>3. \A i \in 1..Len(q) : q[i] = u[at[i]]
          BY <2>1, <2>4, <4>1 DEF Rising
        <4> QED
          BY <2>1, <4>1, <4>2, <4>3 DEF Rising
      <3>2. Elements(q) = Elements(u) \cap S
        BY <2>2, <2>3, <2>5, <2>7
      <3> QED
        BY <2>2, <2>3, <2>4, <2>7, <3>1, <3>2 DEF u, q
    <2> QED
      BY <2>6, <2>7
  <1> HIDE DEF G
  <1>3. Seq(T) \subseteq G
    BY <1>1, <1>2, SequencesByAppend
  <1> QED
    BY <1>3 DEF G

\* The elements of a sequence by their places.
LEMMA ElementsOf ==
  ASSUME NEW T, NEW s \in Seq(T)
  PROVE /\ Elements(s) \subseteq T
        /\ Elements(s) = {s[i] : i \in 1..Len(s)}
        /\ Elements(s) = {} <=> s = <<>>
  <1>1. DOMAIN s = 1..Len(s) /\ \A i \in 1..Len(s) : s[i] \in T
    OBVIOUS
  <1>2. s # <<>> => 1 \in 1..Len(s)
    OBVIOUS
  <1>3. s = <<>> => DOMAIN s = {}
    OBVIOUS
  <1> QED
    BY <1>1, <1>2, <1>3 DEF Elements

\* No item is selected twice if none is there twice.
LEMMA SelectDistinct ==
  ASSUME NEW T, NEW S, NEW s \in Seq(T), \A i, j \in 1..Len(s) : s[i] = s[j] => i = j
  PROVE \A i, j \in 1..Len(Select(s, S)) : Select(s, S)[i] = Select(s, S)[j] => i = j
  <1> DEFINE r == Select(s, S)
  <1>1. PICK at : Rising(at, r, s)
    BY SelectType
  <1>2. r \in Seq(T)
    BY SelectType
  <1> HIDE DEF r
  <1>3. Len(r) \in Nat /\ Len(s) \in Nat
    BY <1>2
  <1> SUFFICES ASSUME NEW i \in 1..Len(r), NEW j \in 1..Len(r), r[i] = r[j] PROVE i = j
    BY DEF r
  <1>4. at[i] = at[j]
    BY <1>1 DEF Rising
  <1>5. at[i] \in Nat /\ at[j] \in Nat /\ i \in Nat /\ j \in Nat
    BY <1>1, <1>3 DEF Rising
  <1>6. ~(i < j) /\ ~(j < i)
    BY <1>1, <1>4, <1>5 DEF Rising
  <1> QED
    BY <1>5, <1>6
-----------------------------------------------------------------------------
(***************************************************************************)
(* Sums over finite sets.  There is no theorem module on them.             *)
(***************************************************************************)
\* What f, which adds w up over smaller sets, makes of s.
Added(w, f, s) ==
  IF s = {} THEN 0 ELSE LET x == CHOOSE x \in s : TRUE IN w[x] + f[s \ {x}]

\* f adds up w over the subsets of S.
Sums(w, f, S) == f = [s \in SUBSET S |-> Added(w, f, s)]

\* Taking one element away leaves a smaller set.
LEMMA Smaller ==
  ASSUME NEW s, IsFiniteSet(s), s # {}
  PROVE /\ (CHOOSE x \in s : TRUE) \in s
        /\ IsFiniteSet(s \ {CHOOSE x \in s : TRUE})
        /\ Cardinality(s) \in Nat \ {0}
        /\ Cardinality(s \ {CHOOSE x \in s : TRUE}) = Cardinality(s) - 1
  <1> DEFINE x == CHOOSE x \in s : TRUE
  <1>1. x \in s
    OBVIOUS
  <1> HIDE DEF x
  <1>2. IsFiniteSet(s \ {x}) /\ Cardinality(s \ {x}) = Cardinality(s) - 1
    BY <1>1, FS_RemoveElement
  <1>3. Cardinality(s) \in Nat /\ Cardinality(s) # 0
    BY FS_CardinalityType, FS_EmptySet
  <1> QED
    BY <1>1, <1>2, <1>3 DEF x

\* The same for the subsets of S of up to n elements.
SumsUpTo(w, f, S, n) ==
  /\ f = [s \in SUBSET S |-> f[s]]
  /\ \A s \in SUBSET S : Cardinality(s) <= n => f[s] = Added(w, f, s)

\* Such a function exists, by induction on the size of the sets.
LEMMA SumsExist ==
  ASSUME NEW S, IsFiniteSet(S), NEW w
  PROVE \E f : Sums(w, f, S)
  <1> DEFINE good == {n \in Nat : \E f : SumsUpTo(w, f, S, n)}
  <1>1. \A s \in SUBSET S : IsFiniteSet(s) /\ Cardinality(s) \in Nat /\ Cardinality(s) <= Cardinality(S)
    BY FS_Subset, FS_CardinalityType
  <1>2. 0 \in good
    <2> DEFINE f == [s \in SUBSET S |-> 0]
    <2>1. ASSUME NEW s \in SUBSET S, Cardinality(s) <= 0 PROVE f[s] = Added(w, f, s)
      <3>1. Cardinality(s) = 0
        BY <1>1, <2>1
      <3>2. s = {}
        BY <1>1, <3>1, FS_EmptySet
      <3> QED
        BY <3>2 DEF Added
    <2>2. SumsUpTo(w, f, S, 0)
      BY <2>1 DEF SumsUpTo
    <2> QED
      BY <2>2
  <1>3. ASSUME NEW n \in Nat, n \in good PROVE n + 1 \in good
    <2>1. PICK f : SumsUpTo(w, f, S, n)
      BY <1>3
    <2> DEFINE g == [s \in SUBSET S |-> IF Cardinality(s) <= n THEN f[s] ELSE Added(w, f, s)]
    <2>2. \A s \in SUBSET S : Cardinality(s) <= n => g[s] = f[s]
      OBVIOUS
    <2>3. \A s \in SUBSET S : ~(Cardinality(s) <= n) => g[s] = Added(w, f, s)
      OBVIOUS
    <2>4. g = [s \in SUBSET S |-> g[s]]
      OBVIOUS
    <2> HIDE DEF g
    <2>5. ASSUME NEW s \in SUBSET S, Cardinality(s) <= n + 1 PROVE g[s] = Added(w, g, s)
      <3>1. g[s] = Added(w, f, s)
        BY <2>1, <2>2, <2>3 DEF SumsUpTo
      <3>2. CASE s = {}
        BY <3>1, <3>2 DEF Added
      <3>3. CASE s # {}
        <4> DEFINE x == CHOOSE x \in s : TRUE
        <4>1. IsFiniteSet(s)
          BY <1>1
        <4>2. Cardinality(s \ {x}) = Cardinality(s) - 1 /\ Cardinality(s) \in Nat
          BY <3>3, <4>1, Smaller
        <4>3. s \ {x} \in SUBSET S
          OBVIOUS
        <4>4. Added(w, f, s) = w[x] + f[s \ {x}] /\ Added(w, g, s) = w[x] + g[s \ {x}]
          BY <3>3 DEF Added
        <4> HIDE DEF x
        <4>5. Cardinality(s \ {x}) <= n
          BY <2>5, <4>2
        <4> QED
          BY <2>2, <3>1, <4>3, <4>4, <4>5
      <3> QED
        BY <3>2, <3>3
    <2>6. SumsUpTo(w, g, S, n + 1)
      BY <2>4, <2>5 DEF SumsUpTo
    <2> QED
      BY <2>6
  <1>4. Cardinality(S) \in good
    <2>1. Nat \subseteq good
      <3> HIDE DEF good
      <3> QED
        BY <1>2, <1>3, Induction
    <2> QED
      BY <1>1, <2>1
  <1>5. PICK f : SumsUpTo(w, f, S, Cardinality(S))
    BY <1>4
  <1>6. \A s \in SUBSET S : f[s] = Added(w, f, s)
    BY <1>1, <1>5 DEF SumsUpTo
  <1>7. f = [s \in SUBSET S |-> f[s]]
    BY <1>5 DEF SumsUpTo
  <1>8. f = [s \in SUBSET S |-> Added(w, f, s)]
    BY <1>6, <1>7
  <1> QED
    BY <1>8 DEF Sums

\* Two such functions agree on sets over which what they add up agrees.
LEMMA SumsAlike ==
  ASSUME NEW S, NEW T, NEW w, NEW v, NEW f, NEW g, NEW U, IsFiniteSet(U),
         U \subseteq S, U \subseteq T, Sums(w, f, S), Sums(v, g, T),
         \A x \in U : w[x] = v[x]
  PROVE f[U] = g[U]
  <1> DEFINE good == {n \in Nat : \A s \in SUBSET U : Cardinality(s) = n => f[s] = g[s]}
  <1>1. \A s \in SUBSET U : /\ IsFiniteSet(s) /\ Cardinality(s) \in Nat
                             /\ f[s] = Added(w, f, s) /\ g[s] = Added(v, g, s)
    BY FS_Subset, FS_CardinalityType DEF Sums
  <1>2. 0 \in good
    <2> SUFFICES ASSUME NEW s \in SUBSET U, Cardinality(s) = 0 PROVE f[s] = g[s]
      OBVIOUS
    <2>1. s = {}
      BY <1>1, FS_EmptySet
    <2> QED
      BY <1>1, <2>1 DEF Added
  <1>3. ASSUME NEW n \in Nat, n \in good PROVE n + 1 \in good
    <2> SUFFICES ASSUME NEW s \in SUBSET U, Cardinality(s) = n + 1 PROVE f[s] = g[s]
      OBVIOUS
    <2> DEFINE x == CHOOSE x \in s : TRUE
    <2>1. s # {}
      BY FS_EmptySet
    <2>2. x \in s /\ Cardinality(s \ {x}) = n
      <3>1. IsFiniteSet(s)
        BY <1>1
      <3>2. x \in s /\ Cardinality(s \ {x}) = Cardinality(s) - 1
        BY <2>1, <3>1, Smaller
      <3> QED
        BY <3>2
    <2>3. Added(w, f, s) = w[x] + f[s \ {x}] /\ Added(v, g, s) = v[x] + g[s \ {x}]
      BY <2>1 DEF Added
    <2> HIDE DEF x
    <2>4. f[s \ {x}] = g[s \ {x}]
      BY <1>3, <2>2
    <2> QED
      BY <1>1, <2>2, <2>3, <2>4
  <1>4. Nat \subseteq good
    <2> HIDE DEF good
    <2> QED
      BY <1>2, <1>3, Induction
  <1>5. Cardinality(U) \in good
    BY <1>1, <1>4
  <1> QED
    BY <1>5

\* The sum of the community module is the value of such a function.
LEMMA SumOf ==
  ASSUME NEW S, IsFiniteSet(S), NEW w
  PROVE \E f : Sums(w, f, S) /\ SumFunctionOnSet(w, S) = f[S]
  <1> DEFINE f == CHOOSE f : Sums(w, f, S)
  <1>1. Sums(w, f, S)
    BY SumsExist
  <1>2. SumFunctionOnSet(w, S) = f[S]
    BY DEF SumFunctionOnSet, FoldFunctionOnSet, MapThenFoldSet, Sums, Added
  <1> QED
    BY <1>1, <1>2

\* The sum of nothing.
LEMMA SumEmpty == ASSUME NEW w PROVE SumFunctionOnSet(w, {}) = 0
  BY SumOf, FS_EmptySet DEF Sums, Added

\* A sum depends on the values over its set only.
LEMMA SumAlike ==
  ASSUME NEW S, IsFiniteSet(S), NEW w, NEW v, \A x \in S : w[x] = v[x]
  PROVE SumFunctionOnSet(w, S) = SumFunctionOnSet(v, S)
  <1>1. PICK f : Sums(w, f, S) /\ SumFunctionOnSet(w, S) = f[S]
    BY SumOf
  <1>2. PICK g : Sums(v, g, S) /\ SumFunctionOnSet(v, S) = g[S]
    BY SumOf
  <1> DEFINE U == S
  <1>3. U \subseteq S /\ IsFiniteSet(U) /\ \A x \in U : w[x] = v[x]
    OBVIOUS
  <1> HIDE DEF U
  <1>4. f[U] = g[U]
    BY <1>1, <1>2, <1>3, SumsAlike
  <1> QED
    BY <1>1, <1>2, <1>4 DEF U

\* One step of the recursion.
LEMMA SumChosen ==
  ASSUME NEW S, IsFiniteSet(S), S # {}, NEW w
  PROVE \E x \in S : SumFunctionOnSet(w, S) = w[x] + SumFunctionOnSet(w, S \ {x})
  <1> DEFINE x == CHOOSE x \in S : TRUE
  <1> DEFINE U == S \ {x}
  <1>1. x \in S /\ IsFiniteSet(U)
    BY Smaller
  <1>2. PICK f : Sums(w, f, S) /\ SumFunctionOnSet(w, S) = f[S]
    BY SumOf
  <1>3. f[S] = w[x] + f[U]
    BY <1>2 DEF Sums, Added
  <1> HIDE DEF x
  <1>4. U \subseteq S
    OBVIOUS
  <1> HIDE DEF U
  <1>5. PICK g : Sums(w, g, U) /\ SumFunctionOnSet(w, U) = g[U]
    BY <1>1, SumOf
  <1>6. f[U] = g[U]
    BY <1>1, <1>2, <1>4, <1>5, SumsAlike
  <1> QED
    BY <1>1, <1>2, <1>3, <1>5, <1>6 DEF U

\* A sum of integers is one.
LEMMA SumType ==
  ASSUME NEW S, IsFiniteSet(S), NEW w, \A x \in S : w[x] \in Int
  PROVE SumFunctionOnSet(w, S) \in Int
  <1> DEFINE good == {n \in Nat : \A s \in SUBSET S : Cardinality(s) = n => SumFunctionOnSet(w, s) \in Int}
  <1>1. \A s \in SUBSET S : IsFiniteSet(s) /\ Cardinality(s) \in Nat
    BY FS_Subset, FS_CardinalityType
  <1>2. 0 \in good
    <2> SUFFICES ASSUME NEW s \in SUBSET S, Cardinality(s) = 0 PROVE SumFunctionOnSet(w, s) \in Int
      OBVIOUS
    <2>1. s = {}
      BY <1>1, FS_EmptySet
    <2> QED
      BY <2>1, SumEmpty
  <1>3. ASSUME NEW n \in Nat, n \in good PROVE n + 1 \in good
    <2> SUFFICES ASSUME NEW s \in SUBSET S, Cardinality(s) = n + 1 PROVE SumFunctionOnSet(w, s) \in Int
      OBVIOUS
    <2>1. s # {}
      BY FS_EmptySet
    <2>2. PICK x \in s : SumFunctionOnSet(w, s) = w[x] + SumFunctionOnSet(w, s \ {x})
      BY <1>1, <2>1, SumChosen
    <2>3. Cardinality(s \ {x}) = n
      <3>1. Cardinality(s \ {x}) = Cardinality(s) - 1
        BY <1>1, FS_RemoveElement
      <3> QED
        BY <3>1
    <2>4. SumFunctionOnSet(w, s \ {x}) \in Int
      BY <1>3, <2>3
    <2> QED
      BY <2>2, <2>4
  <1>4. Nat \subseteq good
    <2> HIDE DEF good
    <2> QED
      BY <1>2, <1>3, Induction
  <1> QED
    BY <1>1, <1>4

\* One element more: in whichever order the sum is taken.
LEMMA SumAdd ==
  ASSUME NEW T, IsFiniteSet(T), NEW w, \A y \in T : w[y] \in Int
  PROVE \A s \in SUBSET T : \A x \in T \ s :
          SumFunctionOnSet(w, s \cup {x}) = SumFunctionOnSet(w, s) + w[x]
  <1> DEFINE good == {n \in Nat : \A s \in SUBSET T : \A x \in T \ s : Cardinality(s) = n =>
                        SumFunctionOnSet(w, s \cup {x}) = SumFunctionOnSet(w, s) + w[x]}
  <1>1. \A s \in SUBSET T : IsFiniteSet(s) /\ Cardinality(s) \in Nat
    BY FS_Subset, FS_CardinalityType
  <1>1a. \A s \in SUBSET T : SumFunctionOnSet(w, s) \in Int
    BY <1>1, SumType
  <1>2. 0 \in good
    <2> SUFFICES ASSUME NEW s \in SUBSET T, NEW x \in T \ s, Cardinality(s) = 0
                 PROVE SumFunctionOnSet(w, s \cup {x}) = SumFunctionOnSet(w, s) + w[x]
      OBVIOUS
    <2>1. s = {}
      BY <1>1, FS_EmptySet
    <2>2. IsFiniteSet({x}) /\ {x} # {} /\ s \cup {x} = {x}
      BY <2>1, FS_Singleton
    <2>3. PICK y \in {x} : SumFunctionOnSet(w, {x}) = w[y] + SumFunctionOnSet(w, {x} \ {y})
      BY <2>2, SumChosen
    <2>4. y = x /\ {x} \ {y} = {} /\ w[x] \in Int
      BY <2>3
    <2>5. SumFunctionOnSet(w, {x}) = w[x] + SumFunctionOnSet(w, {})
      BY <2>3, <2>4
    <2>6. SumFunctionOnSet(w, {x}) = SumFunctionOnSet(w, {}) + w[x]
      BY <2>4, <2>5, SumEmpty
    <2> QED
      BY <2>1, <2>2, <2>6
  <1>3. ASSUME NEW n \in Nat, n \in good PROVE n + 1 \in good
    <2> SUFFICES ASSUME NEW s \in SUBSET T, NEW x \in T \ s, Cardinality(s) = n + 1
                 PROVE SumFunctionOnSet(w, s \cup {x}) = SumFunctionOnSet(w, s) + w[x]
      OBVIOUS
    <2> DEFINE u == s \cup {x}
    <2>1. u \in SUBSET T /\ u # {}
      OBVIOUS
    <2>2. PICK y \in u : SumFunctionOnSet(w, u) = w[y] + SumFunctionOnSet(w, u \ {y})
      BY <1>1, <2>1, SumChosen
    <2>3. CASE y = x
      <3>1. u \ {y} = s
        BY <2>3
      <3>2. w[x] \in Int /\ SumFunctionOnSet(w, s) \in Int
        BY <1>1a
      <3>3. SumFunctionOnSet(w, u) = w[x] + SumFunctionOnSet(w, s)
        BY <2>2, <2>3, <3>1
      <3> HIDE DEF u
      <3>4. SumFunctionOnSet(w, u) = SumFunctionOnSet(w, s) + w[x]
        BY <3>2, <3>3
      <3> QED
        BY <3>4 DEF u
    <2>4. CASE y # x
      <3> DEFINE t == s \ {y}
      <3>1. y \in s /\ t \in SUBSET T /\ x \in T \ t /\ y \in T \ t
        BY <2>4
      <3>2. Cardinality(t) = n
        <4>1. Cardinality(t) = Cardinality(s) - 1
          BY <1>1, <3>1, FS_RemoveElement
        <4> QED
          BY <4>1
      <3>3. u \ {y} = t \cup {x} /\ t \cup {y} = s
        BY <2>4, <3>1
      <3> HIDE DEF t, u
      <3>4. SumFunctionOnSet(w, t \cup {x}) = SumFunctionOnSet(w, t) + w[x]
        BY <1>3, <3>1, <3>2
      <3>5. SumFunctionOnSet(w, t \cup {y}) = SumFunctionOnSet(w, t) + w[y]
        BY <1>3, <3>1, <3>2
      <3>6. w[x] \in Int /\ w[y] \in Int /\ SumFunctionOnSet(w, t) \in Int
        BY <1>1a, <3>1
      <3>7. SumFunctionOnSet(w, u) = w[y] + (SumFunctionOnSet(w, t) + w[x])
        BY <2>2, <3>3, <3>4
      <3>8. SumFunctionOnSet(w, s) = SumFunctionOnSet(w, t) + w[y]
        BY <3>3, <3>5
      <3>9. SumFunctionOnSet(w, u) = SumFunctionOnSet(w, s) + w[x]
        BY <3>6, <3>7, <3>8
      <3> QED
        BY <3>9 DEF u
    <2> QED
      BY <2>3, <2>4
  <1>4. Nat \subseteq good
    <2> HIDE DEF good
    <2> QED
      BY <1>2, <1>3, Induction
  <1> QED
    BY <1>1, <1>4
=============================================================================
