---------------------------- MODULE SequenceLemmas ----------------------------
(***************************************************************************)
(* What the proofs of the other modules need of sequences: of FlattenSeq   *)
(* and Filtered, of the members of a sequence, and of sequences of numbers *)
(* that increase.                                                          *)
(*                                                                         *)
(* An induction is stated for the set of the numbers, or sequences, that a *)
(* statement holds of (Induction, SequenceInduction).  They follow from    *)
(* the well-foundedness of < on Nat.  FlattenSeq is defined by a recursive *)
(* function, of which Flat is the equation: it has a solution (FlatExists) *)
(* and no other (FlatAgree).                                               *)
(***************************************************************************)
EXTENDS SequenceFilter, Integers, Sequences, SequencesExt, WellFoundedInduction, SequenceTheorems, TLAPS

\* A set of numbers has a least one.
LEMMA LeastNumber ==
  ASSUME NEW T \in SUBSET Nat, T # {} PROVE \E n \in T : \A m \in T : n <= m
<1> DEFINE R == OpToRel(<, Nat)
<1>1. IsWellFoundedOn(R, Nat)
  BY NatLessThanWellFounded
<1>2. \A m, n \in Nat : <<m, n>> \in R <=> m < n
  BY DEF OpToRel
<1> HIDE DEF R
<1>3. PICK n \in T : \A m \in T : ~(<<m, n>> \in R)
  BY <1>1, WFMin
<1>4. \A m \in T : n <= m
  <2> SUFFICES ASSUME NEW m \in T PROVE n <= m
    OBVIOUS
  <2>1. m \in Nat /\ n \in Nat /\ ~(m < n)
    BY <1>2, <1>3
  <2> QED
    BY <2>1
<1> QED
  BY <1>4

\* Induction over the numbers, for the set of those a statement holds of.
LEMMA Induction ==
  ASSUME NEW T \in SUBSET Nat, 0 \in T, \A n \in T : n + 1 \in T PROVE T = Nat
<1> SUFFICES ASSUME T # Nat PROVE FALSE
  OBVIOUS
<1>1. PICK n \in Nat \ T : \A m \in Nat \ T : n <= m
  BY LeastNumber
<1>2. n - 1 \in T
  BY <1>1
<1> QED
  BY <1>1, <1>2

\* FlattenSeq is defined by a recursive function.
Flat(f, ss, n) ==
  f = [i \in 1 .. n |-> IF i = 1 THEN ss[i] ELSE f[i - 1] \o ss[i]]

LEMMA FlatExists == ASSUME NEW ss, NEW n \in Nat PROVE \E f : Flat(f, ss, n)
<1> DEFINE T == {k \in Nat : \E f : Flat(f, ss, k)}
<1>1. 0 \in T
  <2>1. Flat([i \in 1 .. 0 |-> <<>>], ss, 0)
    BY DEF Flat
  <2> QED
    BY <2>1
<1>2. ASSUME NEW k \in T PROVE k + 1 \in T
  <2>1. PICK f : Flat(f, ss, k)
    OBVIOUS
  <2> DEFINE g == [i \in 1 .. k + 1 |->
                     IF i \in 1 .. k THEN f[i] ELSE IF i = 1 THEN ss[i] ELSE f[i - 1] \o ss[i]]
  <2>2. \A i \in 1 .. k : f[i] = IF i = 1 THEN ss[i] ELSE f[i - 1] \o ss[i]
    BY <2>1 DEF Flat
  <2>3. \A i \in 1 .. k + 1 : g[i] = IF i = 1 THEN ss[i] ELSE g[i - 1] \o ss[i]
    BY <2>2
  <2>4. Flat(g, ss, k + 1)
    BY <2>3 DEF Flat
  <2> QED
    BY <2>4
<1> HIDE DEF T
<1>3. T = Nat
  BY <1>1, <1>2, Induction DEF T
<1> QED
  BY <1>3 DEF T

LEMMA FlatAt ==
  ASSUME NEW ss, NEW n, NEW f, Flat(f, ss, n), NEW i \in 1 .. n
  PROVE  f[i] = IF i = 1 THEN ss[i] ELSE f[i - 1] \o ss[i]
BY DEF Flat

\* Two solutions agree where their sequences do.
LEMMA FlatAgree ==
  ASSUME NEW ss, NEW tt, NEW m \in Nat, NEW n \in Nat, m <= n, \A i \in 1 .. m : ss[i] = tt[i],
         NEW f, NEW g, Flat(f, ss, m), Flat(g, tt, n)
  PROVE  \A i \in 1 .. m : f[i] = g[i]
<1> DEFINE T == {i \in Nat : i \in 1 .. m => f[i] = g[i]}
<1>1. 0 \in T
  OBVIOUS
<1>2. ASSUME NEW i \in T PROVE i + 1 \in T
  <2> SUFFICES ASSUME i + 1 \in 1 .. m PROVE f[i + 1] = g[i + 1]
    OBVIOUS
  <2> DEFINE k == i + 1
  <2>0. k \in 1 .. m /\ k \in 1 .. n /\ k - 1 = i
    OBVIOUS
  <2> HIDE DEF k
  <2>1. f[k] = IF k = 1 THEN ss[k] ELSE f[k - 1] \o ss[k]
    BY <2>0, FlatAt
  <2>2. g[k] = IF k = 1 THEN tt[k] ELSE g[k - 1] \o tt[k]
    BY <2>0, FlatAt
  <2>3. k # 1 => f[k - 1] = g[k - 1]
    BY <2>0
  <2>4. f[k] = g[k]
    BY <2>0, <2>1, <2>2, <2>3
  <2> QED
    BY <2>4 DEF k
<1> HIDE DEF T
<1>3. T = Nat
  BY <1>1, <1>2, Induction DEF T
<1> QED
  BY <1>3 DEF T

LEMMA FlatLast ==
  ASSUME NEW n \in Nat \ {0}, NEW tt, NEW g, Flat(g, tt, n + 1)
  PROVE  g[n + 1] = g[n] \o tt[n + 1]
<1> DEFINE k == n + 1
<1>1. k \in 1 .. k /\ k # 1 /\ k - 1 = n
  OBVIOUS
<1>2. Flat(g, tt, k)
  OBVIOUS
<1> HIDE DEF k
<1>3. g[k] = IF k = 1 THEN tt[k] ELSE g[k - 1] \o tt[k]
  BY <1>1, <1>2 DEF Flat
<1> QED
  BY <1>1, <1>3 DEF k

LEMMA FlattenIsFlat ==
  ASSUME NEW S, NEW ss \in Seq(S), ss # <<>>
  PROVE  \E f : Flat(f, ss, Len(ss)) /\ FlattenSeq(ss) = f[Len(ss)]
<1> DEFINE f == CHOOSE f : Flat(f, ss, Len(ss))
<1>1. Flat(f, ss, Len(ss))
  BY FlatExists
<1>2. FlattenSeq(ss) = f[Len(ss)]
  BY DEF FlattenSeq, Flat
<1> QED
  BY <1>1, <1>2

LEMMA FlattenEmpty == FlattenSeq(<<>>) = <<>>
BY DEF FlattenSeq

LEMMA FlattenStep ==
  ASSUME NEW S, NEW ss \in Seq(S), NEW s \in S
  PROVE  FlattenSeq(Append(ss, s)) = IF ss = <<>> THEN s ELSE FlattenSeq(ss) \o s
<1> DEFINE n == Len(ss)
           tt == Append(ss, s)
<1>0. tt \in Seq(S) /\ tt # <<>> /\ Len(tt) = n + 1 /\ n \in Nat /\ tt[n + 1] = s
  OBVIOUS
<1>1. \A i \in 1 .. n : tt[i] = ss[i]
  OBVIOUS
<1> HIDE DEF tt
<1>2. PICK g : Flat(g, tt, n + 1) /\ FlattenSeq(tt) = g[n + 1]
  BY <1>0, FlattenIsFlat
<1>3. CASE ss = <<>>
  <2>1. n = 0
    BY <1>3
  <2> QED
    BY <1>0, <1>2, <1>3, <2>1 DEF Flat, tt
<1>4. CASE ss # <<>>
  <2>1. PICK f : Flat(f, ss, n) /\ FlattenSeq(ss) = f[n]
    BY <1>4, FlattenIsFlat
  <2>2. n \in 1 .. n /\ n + 1 # 1
    BY <1>4
  <2>3. f[n] = g[n]
    <3> HIDE DEF n
    <3> QED
      BY <1>0, <1>1, <1>2, <2>1, <2>2, FlatAgree
  <2>4. g[n + 1] = g[n] \o tt[n + 1]
    <3>1. n \in Nat \ {0}
      BY <1>4
    <3> HIDE DEF n
    <3> QED
      BY <1>2, <3>1, FlatLast
  <2> QED
    BY <1>0, <1>2, <1>4, <2>1, <2>3, <2>4 DEF tt
<1> QED
  BY <1>3, <1>4

\* Induction over the sequences on a set.
LEMMA SequenceInduction ==
  ASSUME NEW S, NEW T \in SUBSET Seq(S), <<>> \in T, \A s \in T, e \in S : Append(s, e) \in T
  PROVE  T = Seq(S)
<1> DEFINE N == {n \in Nat : \A s \in Seq(S) : Len(s) = n => s \in T}
<1>1. 0 \in N
  OBVIOUS
<1>2. ASSUME NEW n \in N PROVE n + 1 \in N
  <2> SUFFICES ASSUME NEW s \in Seq(S), Len(s) = n + 1 PROVE s \in T
    OBVIOUS
  <2>1. PICK t \in Seq(S), e \in S : s = Append(t, e)
    <3>1. s # <<>>
      OBVIOUS
    <3> QED
      BY <3>1, SequenceEmptyOrAppend, Zenon
  <2>2. t \in T
    BY <2>1
  <2> QED
    BY <2>1, <2>2
<1> HIDE DEF N
<1>3. N = Nat
  BY <1>1, <1>2, Induction DEF N
<1>4. \A s \in Seq(S) : Len(s) \in N
  BY <1>3
<1> QED
  BY <1>4 DEF N

LEMMA FlattenTyped ==
  ASSUME NEW S, NEW ss \in Seq(Seq(S)) PROVE FlattenSeq(ss) \in Seq(S)
<1> DEFINE T == {tt \in Seq(Seq(S)) : FlattenSeq(tt) \in Seq(S)}
<1>1. <<>> \in T
  <2>1. <<>> \in Seq(S) /\ <<>> \in Seq(Seq(S))
    BY EmptySeq
  <2> QED
    BY <2>1, FlattenEmpty, Zenon
<1>2. ASSUME NEW tt \in T, NEW s \in Seq(S) PROVE Append(tt, s) \in T
  <2>1. FlattenSeq(Append(tt, s)) = IF tt = <<>> THEN s ELSE FlattenSeq(tt) \o s
    BY FlattenStep
  <2>2. FlattenSeq(Append(tt, s)) \in Seq(S)
    <3> DEFINE flat == FlattenSeq(tt)
    <3>1. flat \in Seq(S)
      OBVIOUS
    <3> HIDE DEF flat
    <3> QED
      BY <2>1, <3>1, ConcatProperties
  <2>3. Append(tt, s) \in Seq(Seq(S))
    BY AppendProperties
  <2> QED
    BY <2>2, <2>3
<1> HIDE DEF T
<1>3. T = Seq(Seq(S))
  BY <1>1, <1>2, SequenceInduction DEF T
<1> QED
  BY <1>3 DEF T

LEMMA FlattenAppend ==
  ASSUME NEW S, NEW ss \in Seq(Seq(S)), NEW s \in Seq(S)
  PROVE  FlattenSeq(Append(ss, s)) = FlattenSeq(ss) \o s
<1>1. CASE ss = <<>>
  <2>1. FlattenSeq(Append(ss, s)) = s
    BY <1>1, FlattenStep
  <2>2. FlattenSeq(ss) = <<>>
    BY <1>1, FlattenEmpty
  <2> QED
    BY <2>1, <2>2, ConcatEmptySeq
<1>2. CASE ss # <<>>
  BY <1>2, FlattenStep
<1> QED
  BY <1>1, <1>2

LEMMA FlattenConcat ==
  ASSUME NEW S, NEW ss \in Seq(Seq(S)), NEW tt \in Seq(Seq(S))
  PROVE  FlattenSeq(ss \o tt) = FlattenSeq(ss) \o FlattenSeq(tt)
<1> DEFINE T == {uu \in Seq(Seq(S)) : FlattenSeq(ss \o uu) = FlattenSeq(ss) \o FlattenSeq(uu)}
<1>0. FlattenSeq(ss) \in Seq(S)
  BY FlattenTyped
<1>1. <<>> \in T
  BY <1>0, FlattenEmpty
<1>2. ASSUME NEW uu \in T, NEW s \in Seq(S) PROVE Append(uu, s) \in T
  <2>1. ss \o Append(uu, s) = Append(ss \o uu, s) /\ ss \o uu \in Seq(Seq(S))
    BY SMTT(20)
  <2>2. FlattenSeq(Append(ss \o uu, s)) = FlattenSeq(ss \o uu) \o s
    BY <2>1, FlattenAppend
  <2>3. FlattenSeq(Append(uu, s)) = FlattenSeq(uu) \o s /\ FlattenSeq(uu) \in Seq(S)
    BY FlattenAppend, FlattenTyped
  <2>4. FlattenSeq(ss \o uu) = FlattenSeq(ss) \o FlattenSeq(uu)
    OBVIOUS
  <2>5. FlattenSeq(ss \o Append(uu, s)) = (FlattenSeq(ss) \o FlattenSeq(uu)) \o s
    BY <2>1, <2>2, <2>4
  <2>6. (FlattenSeq(ss) \o FlattenSeq(uu)) \o s = FlattenSeq(ss) \o (FlattenSeq(uu) \o s)
    <3> DEFINE a == FlattenSeq(ss)
               b == FlattenSeq(uu)
    <3>1. a \in Seq(S) /\ b \in Seq(S)
      BY <1>0, <2>3
    <3> HIDE DEF a, b, T
    <3>2. (a \o b) \o s = a \o (b \o s)
      BY <3>1, ConcatAssociative, SMTT(20)
    <3> QED
      BY <3>2 DEF a, b
  <2>7. Append(uu, s) \in Seq(Seq(S))
    BY AppendProperties
  <2> QED
    BY <2>3, <2>5, <2>6, <2>7
<1> HIDE DEF T
<1>3. T = Seq(Seq(S))
  BY <1>1, <1>2, SequenceInduction DEF T
<1> QED
  BY <1>3 DEF T

-----------------------------------------------------------------------------
Single(e, S) == IF e \in S THEN <<e>> ELSE <<>>
Singles(s, S) == [i \in DOMAIN s |-> Single(s[i], S)]

LEMMA SinglesTyped ==
  ASSUME NEW D, NEW s \in Seq(D), NEW S
  PROVE  Singles(s, S) \in Seq(Seq(D)) /\ Len(Singles(s, S)) = Len(s)
<1>1. \A i \in 1 .. Len(s) : Single(s[i], S) \in Seq(D)
  <2> SUFFICES ASSUME NEW i \in 1 .. Len(s) PROVE Single(s[i], S) \in Seq(D)
    OBVIOUS
  <2>1. s[i] \in D
    OBVIOUS
  <2> QED
    BY <2>1 DEF Single
<1> QED
  BY <1>1 DEF Singles

LEMMA FilteredIsFlat == \A s, S : Filtered(s, S) = FlattenSeq(Singles(s, S))
BY DEF Filtered, Singles, Single

LEMMA FilteredEmpty == ASSUME NEW S PROVE Filtered(<<>>, S) = <<>>
<1>1. Singles(<<>>, S) = <<>>
  BY DEF Singles
<1> QED
  BY <1>1, FilteredIsFlat, FlattenEmpty

LEMMA FilteredAppend ==
  ASSUME NEW D, NEW s \in Seq(D), NEW e \in D, NEW S
  PROVE  Filtered(Append(s, e), S) =
           IF e \in S THEN Append(Filtered(s, S), e) ELSE Filtered(s, S)
<1> DEFINE p == Singles(s, S)
           q == Singles(Append(s, e), S)
           r == Append(p, Single(e, S))
<1>0. Append(s, e) \in Seq(D) /\ Len(Append(s, e)) = Len(s) + 1
  OBVIOUS
<1>1. p \in Seq(Seq(D)) /\ q \in Seq(Seq(D)) /\ Len(p) = Len(s) /\ Len(q) = Len(s) + 1
  BY <1>0, SinglesTyped
<1>2. Single(e, S) \in Seq(D)
  BY DEF Single
<1>3. r \in Seq(Seq(D)) /\ Len(r) = Len(s) + 1
      /\ \A i \in 1 .. Len(s) + 1 : r[i] = IF i <= Len(s) THEN p[i] ELSE Single(e, S)
  <2> HIDE DEF p
  <2> QED
    BY <1>1, <1>2, AppendProperties
<1>4. \A i \in 1 .. Len(s) + 1 : q[i] = r[i]
  <2>1. \A i \in 1 .. Len(s) : q[i] = Single(s[i], S) /\ p[i] = Single(s[i], S)
    BY DEF Singles
  <2>2. q[Len(s) + 1] = Single(e, S)
    BY DEF Singles
  <2>3. Len(s) \in Nat
    OBVIOUS
  <2> HIDE DEF p, q, r
  <2> SUFFICES ASSUME NEW i \in 1 .. Len(s) + 1 PROVE q[i] = r[i]
    OBVIOUS
  <2>4. CASE i \in 1 .. Len(s)
    <3>1. i <= Len(s) /\ i \in 1 .. Len(s) + 1
      BY <2>3, <2>4
    <3>2. r[i] = p[i]
      BY <1>3, <3>1
    <3> QED
      BY <2>1, <2>4, <3>2
  <2>5. CASE i = Len(s) + 1
    BY <1>3, <2>2, <2>3, <2>5
  <2> QED
    BY <2>3, <2>4, <2>5
<1>5. q = r
  <2> HIDE DEF p, q, r
  <2> QED
    BY <1>1, <1>3, <1>4, SeqEqual
<1>6. FlattenSeq(r) = FlattenSeq(p) \o Single(e, S) /\ FlattenSeq(p) \in Seq(D)
  BY <1>1, <1>2, FlattenAppend, FlattenTyped
<1>7. FlattenSeq(p) \o Single(e, S) = IF e \in S THEN Append(FlattenSeq(p), e) ELSE FlattenSeq(p)
  <2> DEFINE flat == FlattenSeq(p)
  <2>1. flat \in Seq(D)
    BY <1>6
  <2> HIDE DEF flat
  <2>2. flat \o <<>> = flat /\ flat \o <<e>> = Append(flat, e)
    BY <2>1
  <2> QED
    BY <2>2 DEF Single, flat
<1> HIDE DEF p, q, r
<1>8. Filtered(Append(s, e), S) = FlattenSeq(q) /\ Filtered(s, S) = FlattenSeq(p)
  BY FilteredIsFlat DEF p, q
<1> QED
  BY <1>5, <1>6, <1>7, <1>8

LEMMA FilteredTyped ==
  ASSUME NEW D, NEW s \in Seq(D), NEW S PROVE Filtered(s, S) \in Seq(D)
<1>1. Singles(s, S) \in Seq(Seq(D))
  BY SinglesTyped
<1> QED
  BY <1>1, FilteredIsFlat, FlattenTyped

\* The places in s of the elements of its filtered form.
Picks(f, s, t, S) ==
  /\ f \in [1 .. Len(t) -> 1 .. Len(s)]
  /\ \A i, j \in 1 .. Len(t) : i < j => f[i] < f[j]
  /\ \A i \in 1 .. Len(t) : t[i] = s[f[i]] /\ t[i] \in S
  /\ \A k \in 1 .. Len(s) : s[k] \in S => \E i \in 1 .. Len(t) : f[i] = k

LEMMA FilteredPicks ==
  ASSUME NEW D, NEW s \in Seq(D), NEW S
  PROVE  \E f : Picks(f, s, Filtered(s, S), S)
<1> DEFINE T == {t \in Seq(D) : \E f : Picks(f, t, Filtered(t, S), S)}
<1>1. <<>> \in T
  <2>1. Picks(<<>>, <<>>, <<>>, S)
    BY DEF Picks
  <2> QED
    BY <2>1, FilteredEmpty
<1>2. ASSUME NEW t \in T, NEW e \in D PROVE Append(t, e) \in T
  <2> DEFINE F == Filtered(t, S)
             u == Append(t, e)
             G == Filtered(u, S)
  <2>1. PICK f : Picks(f, t, F, S)
    OBVIOUS
  <2>2. G = IF e \in S THEN Append(F, e) ELSE F
    BY FilteredAppend
  <2>3. F \in Seq(D) /\ t \in Seq(D)
    BY FilteredTyped
  <2>4. u \in Seq(D) /\ Len(u) = Len(t) + 1 /\ u[Len(t) + 1] = e /\ \A i \in 1 .. Len(t) : u[i] = t[i]
    BY <2>3
  <2> HIDE DEF F, u, G, T
  <2> SUFFICES \E g : Picks(g, u, G, S)
    BY <2>4 DEF T, G, u
  <2>5. CASE e \notin S
    <3>1. G = F
      BY <2>2, <2>5
    <3>2. /\ f \in [1 .. Len(F) -> 1 .. Len(t)] /\ Len(t) \in Nat
          /\ \A i, j \in 1 .. Len(F) : i < j => f[i] < f[j]
          /\ \A i \in 1 .. Len(F) : F[i] = t[f[i]] /\ F[i] \in S
          /\ \A k \in 1 .. Len(t) : t[k] \in S => \E i \in 1 .. Len(F) : f[i] = k
      BY <2>1, <2>3 DEF Picks
    <3>3. f \in [1 .. Len(F) -> 1 .. Len(u)] /\ \A i \in 1 .. Len(F) : F[i] = u[f[i]]
      BY <2>4, <3>2
    <3>4. \A k \in 1 .. Len(u) : u[k] \in S => k \in 1 .. Len(t) /\ t[k] \in S
      BY <2>4, <2>5, <3>2
    <3>5. Picks(f, u, F, S)
      BY <3>2, <3>3, <3>4 DEF Picks
    <3> QED
      BY <3>1, <3>5
  <2>6. CASE e \in S
    <3> DEFINE n == Len(F)
               m == Len(t)
               g == [i \in 1 .. n + 1 |-> IF i = n + 1 THEN m + 1 ELSE f[i]]
    <3>1. G = Append(F, e)
      BY <2>2, <2>6
    <3>2. G \in Seq(D) /\ Len(G) = n + 1 /\ G[n + 1] = e /\ \A i \in 1 .. n : G[i] = F[i]
      BY <2>3, <3>1
    <3>3. n \in Nat /\ m \in Nat
      BY <2>3
    <3>4. /\ g[n + 1] = m + 1 /\ \A i \in 1 .. n : g[i] = f[i]
          /\ DOMAIN g = 1 .. n + 1 /\ g = [i \in DOMAIN g |-> g[i]]
      BY <3>3
    <3>5. \A i \in 1 .. n + 1 : i \in 1 .. n \/ i = n + 1
      BY <3>3
    <3>6. /\ f \in [1 .. n -> 1 .. m]
          /\ \A i, j \in 1 .. n : i < j => f[i] < f[j]
          /\ \A i \in 1 .. n : F[i] = t[f[i]] /\ F[i] \in S
          /\ \A k \in 1 .. m : t[k] \in S => \E i \in 1 .. n : f[i] = k
      BY <2>1 DEF Picks
    <3> HIDE DEF n, m, g
    <3>7. g \in [1 .. n + 1 -> 1 .. m + 1]
      BY <3>3, <3>4, <3>5, <3>6
    <3>8. \A i, j \in 1 .. n + 1 : i < j => g[i] < g[j]
      BY <3>3, <3>4, <3>5, <3>6
    <3>9. \A i \in 1 .. n + 1 : G[i] = u[g[i]] /\ G[i] \in S
      <4>1. \A i \in 1 .. n : F[i] = t[f[i]] /\ F[i] \in S /\ f[i] \in 1 .. m /\ G[i] = F[i] /\ g[i] = f[i]
        BY <3>2, <3>4, <3>6
      <4> QED
        BY <2>4, <2>6, <3>2, <3>4, <3>5, <4>1, SMTT(20) DEF m
    <3>10. \A k \in 1 .. m + 1 : u[k] \in S => \E i \in 1 .. n + 1 : g[i] = k
      <4> SUFFICES ASSUME NEW k \in 1 .. m + 1, u[k] \in S PROVE \E i \in 1 .. n + 1 : g[i] = k
        OBVIOUS
      <4>1. CASE k = m + 1
        BY <3>3, <3>4, <4>1
      <4>2. CASE k # m + 1
        <5>1. k \in 1 .. m /\ t[k] \in S
          BY <2>4, <3>3, <4>2 DEF m
        <5>2. PICK i \in 1 .. n : f[i] = k
          BY <3>6, <5>1
        <5> QED
          BY <3>3, <3>4, <5>2
      <4> QED
        BY <4>1, <4>2
    <3>11. Picks(g, u, G, S)
      BY <2>4, <3>2, <3>7, <3>8, <3>9, <3>10 DEF Picks, m
    <3> QED
      BY <3>11
  <2> QED
    BY <2>5, <2>6
<1> HIDE DEF T
<1>3. T = Seq(D)
  BY <1>1, <1>2, SequenceInduction DEF T
<1> QED
  BY <1>3 DEF T

LEMMA PicksOnce ==
  ASSUME NEW f, NEW s, NEW t, NEW S, Picks(f, s, t, S), Len(t) \in Nat,
         NEW i \in 1 .. Len(t), NEW j \in 1 .. Len(t), f[i] = f[j]
  PROVE  i = j
<1>1. f[i] \in 1 .. Len(s) /\ ~(f[i] < f[i]) /\ (i < j \/ j < i \/ i = j)
  BY DEF Picks
<1> QED
  BY <1>1 DEF Picks

LEMMA FilteredMembers ==
  ASSUME NEW D, NEW s \in Seq(D), NEW S
  PROVE  /\ \A i \in 1 .. Len(Filtered(s, S)) :
              /\ Filtered(s, S)[i] \in S
              /\ \E k \in 1 .. Len(s) : s[k] = Filtered(s, S)[i]
         /\ \A k \in 1 .. Len(s) :
              s[k] \in S => \E i \in 1 .. Len(Filtered(s, S)) : Filtered(s, S)[i] = s[k]
<1> DEFINE t == Filtered(s, S)
<1>1. PICK f : Picks(f, s, t, S)
  BY FilteredPicks
<1> HIDE DEF t
<1>2. ASSUME NEW i \in 1 .. Len(t) PROVE t[i] \in S /\ \E k \in 1 .. Len(s) : s[k] = t[i]
  <2>1. f[i] \in 1 .. Len(s)
    BY <1>1 DEF Picks
  <2>2. t[i] = s[f[i]] /\ t[i] \in S
    BY <1>1 DEF Picks
  <2> QED
    BY <2>1, <2>2
<1>3. ASSUME NEW k \in 1 .. Len(s), s[k] \in S PROVE \E i \in 1 .. Len(t) : t[i] = s[k]
  <2>1. PICK i \in 1 .. Len(t) : f[i] = k
    BY <1>1, <1>3 DEF Picks
  <2>2. t[i] = s[f[i]]
    BY <1>1 DEF Picks
  <2> QED
    BY <2>1, <2>2
<1> QED
  BY <1>2, <1>3 DEF t

LEMMA FilteredShorter ==
  ASSUME NEW D, NEW s \in Seq(D), NEW S
  PROVE  /\ Len(Filtered(s, S)) <= Len(s)
         /\ (\E k \in 1 .. Len(s) : s[k] \notin S) => Len(Filtered(s, S)) < Len(s)
<1> DEFINE Short(t) == /\ Len(Filtered(t, S)) <= Len(t)
                       /\ (\E k \in 1 .. Len(t) : t[k] \notin S) => Len(Filtered(t, S)) < Len(t)
           T == {t \in Seq(D) : Short(t)}
<1>1. <<>> \in T
  <2>1. Short(<<>>)
    BY FilteredEmpty
  <2> QED
    BY <2>1, EmptySeq
<1>2. ASSUME NEW t \in T, NEW e \in D PROVE Append(t, e) \in T
  <2> DEFINE F == Filtered(t, S)
             u == Append(t, e)
             G == Filtered(u, S)
  <2>1. G = IF e \in S THEN Append(F, e) ELSE F
    BY FilteredAppend
  <2>2. F \in Seq(D) /\ t \in Seq(D)
    BY FilteredTyped
  <2>3. u \in Seq(D) /\ Len(u) = Len(t) + 1 /\ u[Len(t) + 1] = e /\ \A i \in 1 .. Len(t) : u[i] = t[i]
    BY <2>2
  <2>4. Len(F) <= Len(t) /\ ((\E k \in 1 .. Len(t) : t[k] \notin S) => Len(F) < Len(t))
    OBVIOUS
  <2> HIDE DEF F, u, G, T
  <2>5. Len(F) \in Nat /\ Len(t) \in Nat /\ Len(G) = IF e \in S THEN Len(F) + 1 ELSE Len(F)
    BY <2>1, <2>2
  <2>6. Len(G) <= Len(u)
    BY <2>3, <2>4, <2>5
  <2>7. ASSUME NEW k \in 1 .. Len(u), u[k] \notin S PROVE Len(G) < Len(u)
    <3>1. CASE k \in 1 .. Len(t)
      <4>1. t[k] \notin S
        BY <2>3, <2>7, <3>1
      <4>2. Len(F) < Len(t)
        BY <2>4, <3>1, <4>1
      <4> QED
        BY <2>3, <2>5, <4>2
    <3>2. CASE k = Len(t) + 1
      BY <2>3, <2>4, <2>5, <2>7, <3>2
    <3> QED
      BY <2>3, <2>5, <3>1, <3>2
  <2> QED
    BY <2>3, <2>6, <2>7 DEF T, G, u
<1> HIDE DEF T
<1>3. T = Seq(D)
  BY <1>1, <1>2, SequenceInduction DEF T
<1> QED
  BY <1>3 DEF T

-----------------------------------------------------------------------------
(* Members, and sequences of numbers that increase.                        *)

LEMMA MembersOf ==
  ASSUME NEW D, NEW s \in Seq(D)
  PROVE  /\ ToSet(s) = {s[i] : i \in 1 .. Len(s)} /\ ToSet(s) \subseteq D
         /\ (s = <<>> <=> ToSet(s) = {})
<1>1. ToSet(s) = {s[i] : i \in 1 .. Len(s)} /\ ToSet(s) \subseteq D
  BY DEF ToSet
<1>2. ASSUME s # <<>> PROVE ToSet(s) # {}
  <2>1. Len(s) \in Nat /\ Len(s) # 0
    BY <1>2, EmptySeq
  <2>2. 1 \in 1 .. Len(s)
    BY <2>1
  <2> QED
    BY <1>1, <2>2
<1>3. ToSet(<<>>) = {}
  BY DEF ToSet
<1> QED
  BY <1>1, <1>2, <1>3

LEMMA MembersAppend ==
  ASSUME NEW D, NEW s \in Seq(D), NEW e \in D
  PROVE  ToSet(Append(s, e)) = ToSet(s) \cup {e}
<1> DEFINE t == Append(s, e)
<1>1. /\ t \in Seq(D) /\ Len(s) \in Nat /\ Len(t) = Len(s) + 1 /\ t[Len(s) + 1] = e
      /\ \A i \in 1 .. Len(s) : t[i] = s[i]
  BY AppendProperties
<1> HIDE DEF t
<1>2. ToSet(t) = {t[i] : i \in 1 .. Len(t)} /\ ToSet(s) = {s[i] : i \in 1 .. Len(s)}
  BY <1>1, MembersOf
<1>3. 1 .. Len(t) = (1 .. Len(s)) \cup {Len(s) + 1}
  BY <1>1
<1>4. ToSet(t) = ToSet(s) \cup {e}
  BY <1>1, <1>2, <1>3
<1> QED
  BY <1>4 DEF t

LEMMA MembersConcat ==
  ASSUME NEW D, NEW s \in Seq(D), NEW t \in Seq(D)
  PROVE  ToSet(s \o t) = ToSet(s) \cup ToSet(t)
<1> DEFINE u == s \o t
<1>1. /\ u \in Seq(D) /\ Len(s) \in Nat /\ Len(t) \in Nat /\ Len(u) = Len(s) + Len(t)
      /\ \A i \in 1 .. Len(u) : u[i] = IF i <= Len(s) THEN s[i] ELSE t[i - Len(s)]
  BY ConcatProperties
<1> HIDE DEF u
<1>2. /\ ToSet(u) = {u[i] : i \in 1 .. Len(u)} /\ ToSet(s) = {s[i] : i \in 1 .. Len(s)}
      /\ ToSet(t) = {t[i] : i \in 1 .. Len(t)}
  BY <1>1, MembersOf
<1>3. ASSUME NEW i \in 1 .. Len(u) PROVE u[i] \in ToSet(s) \cup ToSet(t)
  <2>1. CASE i <= Len(s)
    BY <1>1, <1>2, <2>1
  <2>2. CASE ~(i <= Len(s))
    <3>1. i - Len(s) \in 1 .. Len(t)
      BY <1>1, <2>2
    <3> QED
      BY <1>1, <1>2, <2>2, <3>1
  <2> QED
    BY <2>1, <2>2
<1>4. ASSUME NEW i \in 1 .. Len(s) PROVE s[i] \in ToSet(u)
  BY <1>1, <1>2
<1>5. ASSUME NEW i \in 1 .. Len(t) PROVE t[i] \in ToSet(u)
  <2>1. i + Len(s) \in 1 .. Len(u) /\ ~(i + Len(s) <= Len(s)) /\ i + Len(s) - Len(s) = i
    BY <1>1
  <2> QED
    BY <1>1, <1>2, <2>1
<1>6. ToSet(u) = ToSet(s) \cup ToSet(t)
  BY <1>2, <1>3, <1>4, <1>5
<1> QED
  BY <1>6 DEF u

LEMMA MembersTail ==
  ASSUME NEW D, NEW s \in Seq(D), s # <<>>
  PROVE  ToSet(s) = {Head(s)} \cup ToSet(Tail(s))
<1> DEFINE t == Tail(s)
<1>1. /\ t \in Seq(D) /\ Len(s) \in Nat \ {0} /\ Len(t) = Len(s) - 1 /\ Head(s) = s[1]
      /\ \A i \in 1 .. Len(t) : t[i] = s[i + 1]
  BY HeadTailProperties, EmptySeq
<1> HIDE DEF t
<1>2. /\ ToSet(t) = {t[i] : i \in 1 .. Len(t)} /\ ToSet(s) = {s[i] : i \in 1 .. Len(s)}
  BY <1>1, MembersOf
<1>3. ASSUME NEW i \in 1 .. Len(s) PROVE s[i] \in {Head(s)} \cup ToSet(t)
  <2>1. CASE i = 1
    BY <1>1, <2>1
  <2>2. CASE i # 1
    <3>1. i - 1 \in 1 .. Len(t) /\ i - 1 + 1 = i
      BY <1>1, <2>2
    <3> QED
      BY <1>1, <1>2, <3>1
  <2> QED
    BY <2>1, <2>2
<1>4. ASSUME NEW i \in 1 .. Len(t) PROVE t[i] \in ToSet(s)
  BY <1>1, <1>2
<1>5. Head(s) \in ToSet(s)
  BY <1>1, <1>2
<1>6. ToSet(s) = {Head(s)} \cup ToSet(t)
  BY <1>2, <1>3, <1>4, <1>5
<1> QED
  BY <1>6 DEF t

Ascending(s) == \A i, j \in 1 .. Len(s) : i < j => s[i] < s[j]
Below(S, T) == \A x \in S, y \in T : x < y

LEMMA AscendingAppend ==
  ASSUME NEW s \in Seq(Int), NEW e \in Int, Ascending(s), Below(ToSet(s), {e})
  PROVE  Ascending(Append(s, e))
<1> DEFINE t == Append(s, e)
<1>1. /\ t \in Seq(Int) /\ Len(s) \in Nat /\ Len(t) = Len(s) + 1 /\ t[Len(s) + 1] = e
      /\ \A i \in 1 .. Len(s) : t[i] = s[i]
  BY AppendProperties
<1> HIDE DEF t
<1>2. \A i \in 1 .. Len(s) : s[i] < e
  BY MembersOf DEF Below
<1>3. ASSUME NEW i \in 1 .. Len(t), NEW j \in 1 .. Len(t), i < j PROVE t[i] < t[j]
  <2>1. i \in 1 .. Len(s) /\ t[i] = s[i]
    BY <1>1, <1>3
  <2>2. CASE j \in 1 .. Len(s)
    BY <1>1, <1>3, <2>1, <2>2 DEF Ascending
  <2>3. CASE j \notin 1 .. Len(s)
    <3>1. j = Len(s) + 1
      BY <1>1, <2>3
    <3> QED
      BY <1>1, <1>2, <2>1, <3>1
  <2> QED
    BY <2>2, <2>3
<1>4. Ascending(t)
  BY <1>3 DEF Ascending
<1> QED
  BY <1>4 DEF t

LEMMA AscendingTail ==
  ASSUME NEW s \in Seq(Int), s # <<>>, Ascending(s)
  PROVE  Ascending(Tail(s)) /\ Below({Head(s)}, ToSet(Tail(s)))
<1> DEFINE t == Tail(s)
<1>1. /\ t \in Seq(Int) /\ Len(s) \in Nat \ {0} /\ Len(t) = Len(s) - 1 /\ Head(s) = s[1]
      /\ \A i \in 1 .. Len(t) : t[i] = s[i + 1]
  BY HeadTailProperties, EmptySeq
<1> HIDE DEF t
<1>2. \A i \in 1 .. Len(t) : i + 1 \in 1 .. Len(s) /\ 1 < i + 1 /\ 1 \in 1 .. Len(s)
  BY <1>1
<1>3. ASSUME NEW i \in 1 .. Len(t), NEW j \in 1 .. Len(t), i < j PROVE t[i] < t[j]
  <2>1. t[i] = s[i + 1] /\ t[j] = s[j + 1]
    BY <1>1
  <2>2. i + 1 \in 1 .. Len(s) /\ j + 1 \in 1 .. Len(s) /\ i + 1 < j + 1
    BY <1>2, <1>3
  <2> QED
    BY <2>1, <2>2 DEF Ascending
<1>4. \A i \in 1 .. Len(t) : Head(s) < t[i]
  BY <1>1, <1>2 DEF Ascending
<1>5. ToSet(t) = {t[i] : i \in 1 .. Len(t)}
  BY <1>1, MembersOf
<1>6. Below({Head(s)}, ToSet(t)) /\ Ascending(t)
  BY <1>3, <1>4, <1>5 DEF Below, Ascending
<1> QED
  BY <1>6 DEF t

LEMMA AscendingConcat ==
  ASSUME NEW s \in Seq(Int), NEW t \in Seq(Int), Ascending(s), Ascending(t), Below(ToSet(s), ToSet(t))
  PROVE  Ascending(s \o t)
<1> DEFINE u == s \o t
<1>1. /\ u \in Seq(Int) /\ Len(s) \in Nat /\ Len(t) \in Nat /\ Len(u) = Len(s) + Len(t)
      /\ \A i \in 1 .. Len(u) : u[i] = IF i <= Len(s) THEN s[i] ELSE t[i - Len(s)]
  BY ConcatProperties
<1> HIDE DEF u
<1>2. \A i \in 1 .. Len(s), j \in 1 .. Len(t) : s[i] < t[j]
  <2>1. \A i \in 1 .. Len(s) : s[i] \in ToSet(s)
    BY MembersOf
  <2>2. \A j \in 1 .. Len(t) : t[j] \in ToSet(t)
    BY MembersOf
  <2> QED
    BY <2>1, <2>2 DEF Below
<1>3. ASSUME NEW i \in 1 .. Len(u), NEW j \in 1 .. Len(u), i < j PROVE u[i] < u[j]
  <2>1. CASE j <= Len(s)
    <3>1. i \in 1 .. Len(s) /\ j \in 1 .. Len(s) /\ u[i] = s[i] /\ u[j] = s[j]
      BY <1>1, <1>3, <2>1
    <3> QED
      BY <1>3, <3>1 DEF Ascending
  <2>2. CASE ~(j <= Len(s))
    <3>1. j - Len(s) \in 1 .. Len(t)
      BY <1>1, <2>2
    <3>2. CASE i <= Len(s)
      <4>1. i \in 1 .. Len(s) /\ u[i] = s[i] /\ u[j] = t[j - Len(s)]
        BY <1>1, <2>2, <3>2
      <4> QED
        BY <1>2, <3>1, <4>1
    <3>3. CASE ~(i <= Len(s))
      <4>1. i - Len(s) \in 1 .. Len(t) /\ i - Len(s) < j - Len(s)
        BY <1>1, <1>3, <3>3
      <4> QED
        BY <1>1, <2>2, <3>1, <3>3, <4>1 DEF Ascending
    <3> QED
      BY <3>2, <3>3
  <2> QED
    BY <2>1, <2>2
<1>4. Ascending(u)
  BY <1>3 DEF Ascending
<1> QED
  BY <1>4 DEF u

-----------------------------------------------------------------------------
(* What the elements of a sequence stand for, one after another.           *)

\* What h has for the elements of D are sequences on X.
Maps(h, D, X) == h \in [D -> Seq(X)]
Stands(h, s) == [i \in DOMAIN s |-> h[s[i]]]
Through(h, s) == FlattenSeq(Stands(h, s))

LEMMA StandsTyped ==
  ASSUME NEW D, NEW X, NEW h, Maps(h, D, X), NEW s \in Seq(D)
  PROVE  Stands(h, s) \in Seq(Seq(X)) /\ Len(Stands(h, s)) = Len(s)
<1> USE DEF Maps
<1>1. \A i \in 1 .. Len(s) : h[s[i]] \in Seq(X)
  <2>1. \A i \in 1 .. Len(s) : s[i] \in D
    BY ElementOfSeq
  <2> QED
    BY <2>1
<1> QED
  BY <1>1 DEF Stands

LEMMA ThroughTyped ==
  ASSUME NEW D, NEW X, NEW h, Maps(h, D, X), NEW s \in Seq(D)
  PROVE  Through(h, s) \in Seq(X)
BY StandsTyped, FlattenTyped DEF Through, Maps

LEMMA ThroughEmpty == ASSUME NEW h PROVE Through(h, <<>>) = <<>>
<1>1. Stands(h, <<>>) = <<>>
  BY DEF Stands
<1> QED
  BY <1>1, FlattenEmpty DEF Through

LEMMA ThroughAppend ==
  ASSUME NEW D, NEW X, NEW h, Maps(h, D, X), NEW s \in Seq(D), NEW e \in D
  PROVE  Through(h, Append(s, e)) = Through(h, s) \o h[e]
<1> USE DEF Maps
<1>a. \A t \in Seq(D) : Stands(h, t) \in Seq(Seq(X)) /\ Len(Stands(h, t)) = Len(t)
  <2> TAKE t \in Seq(D)
  <2>1. Stands(h, t) \in Seq(Seq(X))
    BY StandsTyped
  <2>2. Len(Stands(h, t)) = Len(t)
    BY <2>1 DEF Stands
  <2> QED
    BY <2>1, <2>2
<1>b. Len(s) \in Nat /\ Len(s) + 1 \in 1 .. Len(s) + 1
  OBVIOUS
<1> DEFINE a == Append(s, e)
           u == Stands(h, s)
           v == Stands(h, a)
           w == Append(u, h[e])
<1>1. /\ a \in Seq(D) /\ Len(a) = Len(s) + 1 /\ Len(s) \in Nat
      /\ \A i \in 1 .. Len(s) : a[i] = s[i]
      /\ a[Len(s) + 1] = e
  BY AppendProperties
<1>2. u \in Seq(Seq(X)) /\ Len(u) = Len(s) /\ \A i \in 1 .. Len(s) : u[i] = h[s[i]]
  <2>1. u \in Seq(Seq(X)) /\ Len(u) = Len(s)
    BY <1>a
  <2> QED
    BY <2>1 DEF Stands
<1> HIDE DEF a
<1>3. v \in Seq(Seq(X)) /\ Len(v) = Len(s) + 1 /\ \A i \in 1 .. Len(s) + 1 : v[i] = h[a[i]]
  <2>0. a \in Seq(D)
    BY <1>1
  <2>1. v \in Seq(Seq(X)) /\ Len(v) = Len(a)
    BY <1>a, <2>0
  <2>2. DOMAIN a = 1 .. Len(s) + 1
    BY <1>1
  <2>3. \A i \in 1 .. Len(s) + 1 : v[i] = h[a[i]]
    BY <2>2 DEF Stands
  <2> QED
    BY <1>1, <2>1, <2>3
<1> HIDE DEF u, v
<1>4. h[e] \in Seq(X)
  OBVIOUS
<1>5. /\ w \in Seq(Seq(X)) /\ Len(w) = Len(u) + 1
      /\ \A i \in 1 .. Len(u) : w[i] = u[i]
      /\ w[Len(u) + 1] = h[e]
  BY <1>2, <1>4, AppendProperties
<1> HIDE DEF w
<1>6. ASSUME NEW i \in 1 .. Len(s) + 1 PROVE v[i] = w[i]
  <2> DEFINE n == Len(s) + 1
  <2>1. i \in 1 .. Len(s) \/ i = n
    BY <1>1
  <2>2. CASE i \in 1 .. Len(s)
    BY <1>1, <1>2, <1>3, <1>5, <2>2
  <2>3. v[n] = h[e] /\ w[n] = h[e]
    <3>1. a[n] = e /\ w[n] = h[e]
      <4>1. a[n] = e
        BY <1>1
      <4>2. Len(u) + 1 = n
        BY <1>2
      <4>3. w[n] = h[e]
        BY <1>5, <4>2
      <4> QED
        BY <4>1, <4>3
    <3>2. n \in 1 .. n
      BY <1>b
    <3>3. v[n] = h[a[n]]
      BY <1>3, <3>2
    <3> QED
      BY <3>1, <3>3
  <2> HIDE DEF n
  <2> QED
    BY <2>1, <2>2, <2>3
<1>7. v = w
  BY <1>2, <1>3, <1>5, <1>6, SeqEqual
<1>8. FlattenSeq(w) = FlattenSeq(u) \o h[e]
  BY <1>2, <1>4, FlattenAppend DEF w
<1> QED
  BY <1>7, <1>8 DEF Through, u, v, a

LEMMA ThroughConcat ==
  ASSUME NEW D, NEW X, NEW h, Maps(h, D, X), NEW s \in Seq(D), NEW t \in Seq(D)
  PROVE  Through(h, s \o t) = Through(h, s) \o Through(h, t)
<1> DEFINE T == {u \in Seq(D) : Through(h, s \o u) = Through(h, s) \o Through(h, u)}
<1>1. <<>> \in T
  <2>0. Through(h, s) \in Seq(X)
    BY ThroughTyped
  <2>1. Through(h, <<>>) = <<>> /\ Through(h, s) \in Seq(X)
    BY <2>0, ThroughEmpty
  <2>2. s \o <<>> = s /\ Through(h, s) \o <<>> = Through(h, s)
    BY <2>1, ConcatEmptySeq
  <2> QED
    BY <2>1, <2>2, EmptySeq
<1>2. ASSUME NEW u \in T, NEW e \in D PROVE Append(u, e) \in T
  <2> DEFINE a == Through(h, s)
             b == Through(h, u)
             c == h[e]
  <2>0. u \in Seq(D) /\ c \in Seq(X)
    BY DEF Maps
  <2>a. a \in Seq(X)
    BY ThroughTyped
  <2>b. b \in Seq(X)
    BY <2>0, ThroughTyped
  <2>1. a \in Seq(X) /\ b \in Seq(X) /\ c \in Seq(X)
    BY <2>0, <2>a, <2>b
  <2>2. s \o Append(u, e) = Append(s \o u, e) /\ s \o u \in Seq(D) /\ Append(u, e) \in Seq(D)
    BY AppendProperties
  <2>3. Through(h, Append(s \o u, e)) = Through(h, s \o u) \o c
    <3> DEFINE w == s \o u
    <3>1. w \in Seq(D)
      BY <2>2
    <3> HIDE DEF w, c, T
    <3>2. Through(h, Append(w, e)) = Through(h, w) \o h[e]
      BY <3>1, ThroughAppend
    <3> QED
      BY <3>2 DEF w, c
  <2>4. Through(h, Append(u, e)) = b \o c
    BY <2>0, ThroughAppend
  <2>5. Through(h, s \o u) = a \o b
    OBVIOUS
  <2> HIDE DEF a, b, c, T
  <2>6. (a \o b) \o c = a \o (b \o c)
    BY <2>1, ConcatAssociative
  <2>7. Through(h, s \o Append(u, e)) = a \o Through(h, Append(u, e))
    BY <2>2, <2>3, <2>4, <2>5, <2>6
  <2> QED
    BY <2>2, <2>7 DEF a, T
<1> HIDE DEF T
<1>3. T = Seq(D)
  BY <1>1, <1>2, SequenceInduction DEF T
<1> QED
  BY <1>3 DEF T

Joins(h, D) == \A s, t \in Seq(D) : Through(h, s \o t) = Through(h, s) \o Through(h, t)
LEMMA ThroughJoins == ASSUME NEW D, NEW X, NEW h, Maps(h, D, X) PROVE Joins(h, D)
<1>1. ASSUME NEW s \in Seq(D), NEW t \in Seq(D) PROVE Through(h, s \o t) = Through(h, s) \o Through(h, t)
  BY ThroughConcat
<1> QED
  BY <1>1 DEF Joins

\* One after the other.
Composes(k, g, h, D) == \A d \in D : k[d] = Through(g, h[d])
LEMMA ThroughTwice ==
  ASSUME NEW D, NEW E, NEW X, NEW h, Maps(h, D, E), NEW g, Maps(g, E, X),
         NEW k, Maps(k, D, X), Composes(k, g, h, D), NEW s \in Seq(D)
  PROVE  Through(g, Through(h, s)) = Through(k, s)
<1>c. \A a, b \in Seq(E) : Through(g, a \o b) = Through(g, a) \o Through(g, b)
  <2>1. Joins(g, E)
    BY ThroughJoins
  <2> QED
    BY <2>1 DEF Joins
<1> DEFINE T == {u \in Seq(D) : Through(g, Through(h, u)) = Through(k, u)}
<1>1. <<>> \in T
  BY ThroughEmpty
<1>2. ASSUME NEW u \in T, NEW e \in D PROVE Append(u, e) \in T
  <2>1. Append(u, e) \in Seq(D)
    BY AppendProperties
  <2>2. Through(h, Append(u, e)) = Through(h, u) \o h[e]
    BY ThroughAppend
  <2>a. Through(h, u) \in Seq(E)
    BY ThroughTyped
  <2>3. Through(h, u) \in Seq(E) /\ h[e] \in Seq(E)
    BY <2>a DEF Maps
  <2>4. Through(g, Through(h, u) \o h[e]) = Through(g, Through(h, u)) \o Through(g, h[e])
    BY <1>c, <2>3
  <2>5. Through(k, Append(u, e)) = Through(k, u) \o k[e]
    BY ThroughAppend
  <2>6. Through(g, Through(h, u)) = Through(k, u)
    OBVIOUS
  <2> QED
    BY <2>1, <2>2, <2>4, <2>5, <2>6 DEF Composes
<1> HIDE DEF T
<1>3. T = Seq(D)
  BY <1>1, <1>2, SequenceInduction DEF T
<1> QED
  BY <1>3 DEF T

LEMMA ThroughFlatten ==
  ASSUME NEW D, NEW X, NEW h, Maps(h, D, X), NEW ss \in Seq(Seq(D))
  PROVE  Through(h, FlattenSeq(ss)) = FlattenSeq([i \in DOMAIN ss |-> Through(h, ss[i])])
<1> DEFINE same == [s \in Seq(D) |-> s]
           k == [s \in Seq(D) |-> Through(h, same[s])]
<1>1. Maps(same, Seq(D), D)
  BY DEF Maps
<1>0. \A s \in Seq(D) : Through(h, s) \in Seq(X)
  BY ThroughTyped
<1>a. Maps(k, Seq(D), X) /\ Composes(k, h, same, Seq(D))
  BY <1>0 DEF Composes, Maps
<1>2. Through(h, Through(same, ss)) = Through(k, ss)
  <2> HIDE DEF same, k
  <2> QED
    BY <1>1, <1>a, ThroughTwice
<1>3. \A i \in DOMAIN ss : ss[i] \in Seq(D)
  BY ElementOfSeq
<1>4. Stands(same, ss) = ss
  BY <1>3 DEF Stands
<1>5. Stands(k, ss) = [i \in DOMAIN ss |-> Through(h, ss[i])]
  BY <1>3 DEF Stands
<1> QED
  BY <1>2, <1>4, <1>5 DEF Through

\* The elements of a set, as a filter and as what they stand for.
Keeps(D, S) == [d \in D |-> IF d \in S THEN <<d>> ELSE <<>>]

LEMMA KeepsTyped == ASSUME NEW D, NEW S PROVE Maps(Keeps(D, S), D, D)
<1>1. \A d \in D : <<d>> \in Seq(D) /\ <<>> \in Seq(D)
  BY EmptySeq
<1> QED
  BY <1>1 DEF Keeps, Maps

LEMMA FilteredIsThrough ==
  ASSUME NEW D, NEW s \in Seq(D), NEW S
  PROVE  Filtered(s, S) = Through(Keeps(D, S), s)
<1>1. \A i \in DOMAIN s : s[i] \in D
  BY ElementOfSeq
<1>2. [i \in DOMAIN s |-> IF s[i] \in S THEN <<s[i]>> ELSE <<>>] = Stands(Keeps(D, S), s)
  BY <1>1 DEF Stands, Keeps
<1> QED
  BY <1>2 DEF Filtered, Through

LEMMA SameStands ==
  ASSUME NEW h, NEW g, NEW s, NEW t, DOMAIN s = DOMAIN t, \A i \in DOMAIN s : h[s[i]] = g[t[i]]
  PROVE  Through(h, s) = Through(g, t)
<1>1. Stands(h, s) = Stands(g, t)
  BY DEF Stands
<1> QED
  BY <1>1 DEF Through

LEMMA NothingStands ==
  ASSUME NEW D, NEW X, NEW h, Maps(h, D, X), NEW s \in Seq(D),
         \A i \in 1 .. Len(s) : h[s[i]] = <<>>
  PROVE  Through(h, s) = <<>>
<1> DEFINE Nil(u) == \A i \in 1 .. Len(u) : h[u[i]] = <<>>
           T == {u \in Seq(D) : Nil(u) => Through(h, u) = <<>>}
<1>1. <<>> \in T
  BY ThroughEmpty
<1>2. ASSUME NEW u \in T, NEW e \in D PROVE Append(u, e) \in T
  <2> DEFINE a == Append(u, e)
  <2>1. /\ a \in Seq(D) /\ Len(a) = Len(u) + 1 /\ Len(u) \in Nat
        /\ \A i \in 1 .. Len(u) : a[i] = u[i]
        /\ a[Len(u) + 1] = e
    BY AppendProperties
  <2>2. u \in Seq(D) /\ (Nil(u) => Through(h, u) = <<>>)
    OBVIOUS
  <2> HIDE DEF a, T
  <2>3. Through(h, Append(u, e)) = Through(h, u) \o h[e]
    BY <2>2, ThroughAppend
  <2>4. ASSUME Nil(a) PROVE Through(h, a) = <<>>
    <3>1. Nil(u)
      BY <2>1, <2>4
    <3>2. h[e] = <<>>
      <4>1. Len(u) + 1 \in 1 .. Len(a)
        BY <2>1
      <4>2. h[a[Len(u) + 1]] = <<>>
        BY <2>4, <4>1
      <4> QED
        BY <2>1, <4>2
    <3> QED
      BY <2>2, <2>3, <3>1, <3>2 DEF a
  <2> QED
    BY <2>1, <2>4 DEF T, a
<1> HIDE DEF T
<1>3. T = Seq(D)
  BY <1>1, <1>2, SequenceInduction DEF T
<1> QED
  BY <1>3 DEF T

\* All but one stand for nothing.
LEMMA OneStands ==
  ASSUME NEW D, NEW X, NEW h, Maps(h, D, X), NEW s \in Seq(D), NEW n \in 1 .. Len(s),
         \A i \in 1 .. Len(s) : i # n => h[s[i]] = <<>>
  PROVE  Through(h, s) = h[s[n]]
<1> DEFINE But(u, k) == \A i \in 1 .. Len(u) : i # k => h[u[i]] = <<>>
           T == {u \in Seq(D) : \A k \in 1 .. Len(u) : But(u, k) => Through(h, u) = h[u[k]]}
<1>1. <<>> \in T
  OBVIOUS
<1>2. ASSUME NEW u \in T, NEW e \in D PROVE Append(u, e) \in T
  <2> DEFINE a == Append(u, e)
  <2>1. /\ a \in Seq(D) /\ Len(a) = Len(u) + 1 /\ Len(u) \in Nat
        /\ \A i \in 1 .. Len(u) : a[i] = u[i]
        /\ a[Len(u) + 1] = e
    BY AppendProperties
  <2>2. u \in Seq(D) /\ \A k \in 1 .. Len(u) : But(u, k) => Through(h, u) = h[u[k]]
    OBVIOUS
  <2> HIDE DEF a, T
  <2>3. Through(h, Append(u, e)) = Through(h, u) \o h[e]
    BY <2>2, ThroughAppend
  <2>4. Through(h, u) \in Seq(X)
    BY <2>2, ThroughTyped
  <2>5. h[e] \in Seq(X)
    BY DEF Maps
  <2>6. ASSUME NEW k \in 1 .. Len(a), But(a, k) PROVE Through(h, a) = h[a[k]]
    <3>1. CASE k \in 1 .. Len(u)
      <4>1. But(u, k) /\ a[k] = u[k]
        BY <2>1, <2>6, <3>1
      <4>2. h[e] = <<>>
        <5>1. Len(u) + 1 \in 1 .. Len(a) /\ Len(u) + 1 # k
          BY <2>1, <3>1
        <5>2. h[a[Len(u) + 1]] = <<>>
          BY <2>6, <5>1
        <5> QED
          BY <2>1, <5>2
      <4>3. Through(h, u) = h[a[k]]
        BY <2>2, <3>1, <4>1
      <4>4. Through(h, u) \o <<>> = Through(h, u)
        BY <2>4, ConcatEmptySeq
      <4> QED
        BY <2>3, <4>2, <4>3, <4>4 DEF a
    <3>2. CASE k = Len(u) + 1
      <4>1. \A i \in 1 .. Len(u) : h[u[i]] = <<>>
        BY <2>1, <2>6, <3>2
      <4>2. Through(h, u) = <<>>
        BY <2>2, <4>1, NothingStands
      <4>3. <<>> \o h[e] = h[e]
        BY <2>5, ConcatEmptySeq
      <4> QED
        BY <2>1, <2>3, <3>2, <4>2, <4>3 DEF a
    <3> QED
      BY <2>1, <3>1, <3>2
  <2> QED
    BY <2>1, <2>6 DEF T, a
<1> HIDE DEF T
<1>3. T = Seq(D)
  BY <1>1, <1>2, SequenceInduction DEF T
<1>4. But(s, n)
  OBVIOUS
<1> QED
  BY <1>3, <1>4 DEF T

\* Each element stands for itself.
LEMMA AllStand ==
  ASSUME NEW D, NEW h, Maps(h, D, D), NEW s \in Seq(D),
         \A i \in 1 .. Len(s) : h[s[i]] = <<s[i]>>
  PROVE  Through(h, s) = s
<1> DEFINE Own(u) == \A i \in 1 .. Len(u) : h[u[i]] = <<u[i]>>
           T == {u \in Seq(D) : Own(u) => Through(h, u) = u}
<1>1. <<>> \in T
  BY ThroughEmpty
<1>2. ASSUME NEW u \in T, NEW e \in D PROVE Append(u, e) \in T
  <2> DEFINE a == Append(u, e)
  <2>1. /\ a \in Seq(D) /\ Len(a) = Len(u) + 1 /\ Len(u) \in Nat
        /\ \A i \in 1 .. Len(u) : a[i] = u[i]
        /\ a[Len(u) + 1] = e
    BY AppendProperties
  <2>2. u \in Seq(D) /\ (Own(u) => Through(h, u) = u)
    OBVIOUS
  <2> HIDE DEF a, T
  <2>3. Through(h, Append(u, e)) = Through(h, u) \o h[e]
    BY <2>2, ThroughAppend
  <2>4. ASSUME Own(a) PROVE Through(h, a) = a
    <3>1. Own(u)
      BY <2>1, <2>4
    <3>2. h[e] = <<e>>
      <4>1. Len(u) + 1 \in 1 .. Len(a)
        BY <2>1
      <4>2. h[a[Len(u) + 1]] = <<a[Len(u) + 1]>>
        BY <2>4, <4>1
      <4> QED
        BY <2>1, <4>2
    <3>3. u \o <<e>> = Append(u, e)
      BY <2>2
    <3> QED
      BY <2>2, <2>3, <3>1, <3>2, <3>3 DEF a
  <2> QED
    BY <2>1, <2>4 DEF T, a
<1> HIDE DEF T
<1>3. T = Seq(D)
  BY <1>1, <1>2, SequenceInduction DEF T
<1> QED
  BY <1>3 DEF T

\* Each element stands for one other.
LEMMA MapStands ==
  ASSUME NEW D, NEW X, NEW h, Maps(h, D, X), NEW s \in Seq(D), NEW t \in Seq(X), Len(s) = Len(t),
         \A i \in 1 .. Len(s) : h[s[i]] = <<t[i]>>
  PROVE  Through(h, s) = t
<1> DEFINE g == [x \in X |-> <<x>>]
<1>1. \A i \in 1 .. Len(t) : t[i] \in X
  BY ElementOfSeq
<1>2. Maps(g, X, X) /\ \A i \in 1 .. Len(t) : g[t[i]] = <<t[i]>>
  BY <1>1 DEF Maps
<1>3. DOMAIN s = DOMAIN t /\ \A i \in DOMAIN s : h[s[i]] = g[t[i]]
  <2>1. DOMAIN s = 1 .. Len(s) /\ DOMAIN t = 1 .. Len(s)
    OBVIOUS
  <2> HIDE DEF g
  <2> QED
    BY <1>2, <2>1
<1> HIDE DEF g
<1>4. Through(h, s) = Through(g, t)
  BY <1>3, SameStands
<1>5. Through(g, t) = t
  BY <1>2, AllStand
<1> QED
  BY <1>4, <1>5

LEMMA ThroughSingle ==
  ASSUME NEW D, NEW X, NEW h, Maps(h, D, X), NEW d \in D PROVE Through(h, <<d>>) = h[d]
<1>1. <<d>> \in Seq(D) /\ Len(<<d>>) = 1 /\ <<d>>[1] = d
  OBVIOUS
<1> DEFINE s == <<d>>
<1> HIDE DEF s
<1>2. Through(h, s) = h[s[1]]
  <2>1. s \in Seq(D) /\ 1 \in 1 .. Len(s) /\ \A i \in 1 .. Len(s) : i # 1 => h[s[i]] = <<>>
    BY <1>1 DEF s
  <2> QED
    BY <2>1, OneStands
<1> QED
  BY <1>1, <1>2 DEF s
=============================================================================
